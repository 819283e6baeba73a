----------------------------- MODULE MCTournament -----------------------------
(* Players with ratings for the bracket. *)
EXTENDS Tournament

CONSTANTS ua, ub, uc, ud

RatingOf == [u \in Users |-> CASE u = ua -> 1200 [] u = ub -> 1100 [] u = uc -> 1050 [] OTHER -> 1000]
====
