----------------------------- MODULE MCAccount -----------------------------
(***************************************************************************)
(* One account with two devices, in two parts: one with a restore of the   *)
(* database, four commands and three user keys; and one with an unlock     *)
(* slot, the clock and a fault, but three commands and two keys.           *)
(***************************************************************************)
EXTENDS Account

MCPubOf == [d \in Devices |-> d]
NoDelegates == [i \in Delegates |-> "passkey"]
NoCredentials == [i \in Delegates |-> i]
NoRecipients == [i \in SecurityKeys |-> i]

MCKeys == 1..3

VARIABLE part   \* which of the two it is

MCInit == Init /\ part \in {"restore", "slots"}

\* The bounds of each part.
Within ==
    \/ /\ part = "restore"
       /\ now' = 1 /\ faults' = 0
       /\ \A r \in reqs' : r.slotData = NoSlotData
    \/ /\ part = "slots"
       /\ replica' = replica /\ restores' = 0
       /\ \A r \in reqs' : r.identity # 3

\* Devices and user keys are interchangeable: the first device that signs in is
\* always the same one, and a new key is the least of those that are nowhere.
Canonical ==
    /\ commands # commands' =>
         \A r \in reqs' : r.identity \in FreshKeys => \A k \in FreshKeys : r.identity <= k
    /\ db = EmptyDB /\ replica = EmptyDB /\ commands = 0 =>
         db'.sessions \subseteq {CHOOSE d \in Devices : TRUE}

MCNext ==
    /\ UNCHANGED part
    /\ Unasked \/ ((part = "slots" => commands < 3) /\ \E d \in Devices : Command(d))
    /\ Within /\ Canonical

\* The fairness of FairSpec, of the part without restores.  That a request is
\* handled or gets lost is all it needs, and is cheaper to evaluate.
MCFairness ==
    /\ WF_reqs(part = "slots" /\ \E r \in reqs : reqs' = reqs \ {r} \/ Handle(r))
    /\ \A d \in Devices : /\ WF_(cl[d])(part = "slots" /\ ClientStep(d))
                          /\ WF_(cl[d])(part = "slots" /\ Refresh(d))

MCSpec == MCInit /\ [][MCNext]_<<vars, part>> /\ MCFairness

\* AllCatchUp of Account, where the server is not restored to an older database
\* (then the devices that pinned a later link refuse it).
CatchUp == part = "slots" => AllCatchUp
=============================================================================
