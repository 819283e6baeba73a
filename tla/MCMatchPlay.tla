----------------------------- MODULE MCMatchPlay -----------------------------
(* Small instances of MatchPlay: what is mixed is what can interfere. *)
EXTENDS MatchPlay, TLC

AllDue == {"timeouts", "forfeits"}

\* Plays and timeouts with failing commands and a crash.
Unreliable ==
    [moving |-> Users, roaming |-> {}, sockets |-> 1, due |-> AllDue, faults |-> 2, crashes |-> 1]
\* A player whose sockets come and go: forfeits against timeouts.
Presence ==
    [moving |-> {}, roaming |-> {UserA}, sockets |-> 2, due |-> AllDue, faults |-> 0, crashes |-> 0]
\* Connect handlers that overtake each other, while the match runs and after its end.
Returning ==
    [moving |-> {}, roaming |-> {UserA}, sockets |-> 3, due |-> {"timeouts"}, faults |-> 0, crashes |-> 0]
\* Nothing fails and both players stay.
Calm ==
    [moving |-> Users, roaming |-> {}, sockets |-> 1, due |-> AllDue, faults |-> 0, crashes |-> 0]

Disturbed == {Unreliable, Presence, Returning}
JustCalm == {Calm}

\* Slots of the same kind are interchangeable.
Symmetry == Permutations(PlayHandlers) \cup Permutations(SocketHandlers)
=============================================================================
