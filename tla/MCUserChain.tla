---------------------------- MODULE MCUserChain ----------------------------
(* The user chain with two devices of different keys, one passkey delegate   *)
(* and one security key.                                                     *)
EXTENDS UserChain, TLC

MCPubOf == [d \in Devices |-> d]
MCKindOf == [i \in Delegates |-> "passkey"]
MCCredentialOf == [i \in Delegates |-> i]
MCRecipientOf == [i \in SecurityKeys |-> i]

\* User keys are interchangeable, and so are the devices.
KeyDeviceSymmetry == Permutations(Keys) \cup Permutations(Devices)
=============================================================================
