---------------------------- MODULE MCMatchSession ----------------------------
(* The abstract session on the real limits: five rounds, two wins. *)
EXTENDS MatchSession
=============================================================================
