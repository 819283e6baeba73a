---------------------------- MODULE MCGameClient ----------------------------
(* The scenarios of the run: what is mixed is what can interfere. *)
EXTENDS GameClient

\* Two matches in a row over one connection.
Evening == [playing |-> TRUE, matches |-> 2, rounds |-> 1, sockets |-> 1, clicks |-> 2, errors |-> 0]
\* Connections come and go while the player looks for a match ...
Searching == [playing |-> FALSE, matches |-> 1, rounds |-> 1, sockets |-> 2, clicks |-> 1, errors |-> 0]
\* ... or plays one, and may meet a busy lock.
Playing == [playing |-> TRUE, matches |-> 1, rounds |-> 2, sockets |-> 3, clicks |-> 0, errors |-> 1]

AllScenarios == {Evening, Searching, Playing}
====
