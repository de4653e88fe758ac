----------------------------- MODULE MCProject ------------------------------
(* A small project for TLC: two people, a machine, two environment names.  *)
EXTENDS Project

MCScopes == [d \in {} |-> "manage"]
MCExpires == [d \in {} |-> 0]
MCKeys == 1..2
=============================================================================
