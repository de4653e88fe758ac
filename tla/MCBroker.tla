------------------------------ MODULE MCBroker ------------------------------
(* An environment whose reads need consent, and one guarded for a session. *)
EXTENDS Broker

MCGuardOf == [e \in Env |-> IF e = "dev" THEN "none" ELSE "session"]
=============================================================================
