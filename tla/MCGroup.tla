------------------------------ MODULE MCGroup -------------------------------
(* Group with environment keys that are numbers, made in order. *)
EXTENDS Group

MCKeys == 1..3
MCScopes == [d \in Delegate |-> "remove"]
MCExpires == [d \in Delegate |-> 0]
MCTokenExpires == [t \in Token |-> 4]
=============================================================================
