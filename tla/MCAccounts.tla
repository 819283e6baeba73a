------------------------------ MODULE MCAccounts ------------------------------
(* The scenarios of the run: what is mixed is what can interfere. *)
EXTENDS Accounts

CONSTANTS ta, tb, s1, s2, old, new

One(tabs) == tabs \X {s1}
Both == {ta} \X {s1, s2}

\* Two requests of one tab meet an expired token.
Rotation == [ops |-> {"login", "me"}, requests |-> Both,
   account |-> old, typed |-> {old}, forms |-> 1, faults |-> 0, reloads |-> 1]
\* A duplicated tab, lost answers and expired locks.
Reuse == [ops |-> {"login", "me"}, requests |-> One({ta, tb}),
   account |-> old, typed |-> {old}, forms |-> 1, faults |-> 1, reloads |-> 1]
\* A logout next to another request.
Logout == [ops |-> {"login", "me", "logout"}, requests |-> Both,
   account |-> old, typed |-> {old}, forms |-> 1, faults |-> 0, reloads |-> 0]
\* A logout next to a socket that is being opened.
Socket == [ops |-> {"login", "logout", "socket"}, requests |-> One({ta}),
   account |-> old, typed |-> {old}, forms |-> 2, faults |-> 0, reloads |-> 0]
\* Two tabs reset the password, or sign in meanwhile.
Reset == [ops |-> {"login", "forgot", "reset"}, requests |-> One({ta, tb}),
   account |-> old, typed |-> {old, new}, forms |-> 5, faults |-> 0, reloads |-> 0]
\* A reset that fails half-way.
ResetFails == [Reset EXCEPT !.requests = One({ta}), !.faults = 1]
\* Two tabs register the same address.
Register == [ops |-> {"register", "login"}, requests |-> One({ta, tb}),
   account |-> NoPassword, typed |-> {old, new}, forms |-> 3, faults |-> 1, reloads |-> 0]

AllScenarios == {Rotation, Reuse, Logout, Socket, Reset, ResetFails, Register}
====
