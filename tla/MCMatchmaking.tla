----------------------------- MODULE MCMatchmaking -----------------------------
EXTENDS Matchmaking

CONSTANTS ua, uc

\* uc is out of every finite window of the others.
RatingOf == [u \in Users |-> IF u = uc THEN 1300 ELSE 1000]
OpponentsOf == [t \in Tournament |-> {ua, uc}]
====
