----------------------------- MODULE MCChanges ------------------------------
EXTENDS Changes

\* The server's key signs removals, the passkey all a delegate may.
MCScopeOf == [d \in Delegate |-> IF d = ServerKey THEN "remove" ELSE "manage"]
MCExpiresOf == [d \in Delegate |-> 0]
=============================================================================
