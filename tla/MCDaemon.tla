------------------------------ MODULE MCDaemon ------------------------------
(***************************************************************************)
(* What the daemon does unasked, in one run: it keeps the account's record *)
(* (LocalState), and takes leavers out of an organisation's places         *)
(* (Organization, with one server delegate and one passkey, both of ann).  *)
(* The two share no state: a behaviour moves one of them, and the other    *)
(* stays as it started.                                                    *)
(***************************************************************************)
EXTENDS LocalState, Organization

CONSTANTS ann, srv, pass

MCDelegateOf == [d \in Delegate |-> ann]
MCKindOf == [d \in Delegate |-> IF d = srv THEN "server" ELSE "passkey"]
MCScopeOf == [d \in Delegate |-> IF d = srv THEN "remove" ELSE "manage"]
MCAheadOf == [u \in Person |-> IF u = ann THEN 0 ELSE 1]

Plain == [membersOnly |-> FALSE, githubProof |-> FALSE,
          noServerSigning |-> FALSE, defaultKMS |-> NoKey]
MCChoices == {[Plain EXCEPT !.membersOnly = TRUE]} \cup
             {[Plain EXCEPT !.noServerSigning = TRUE, !.githubProof = TRUE, !.defaultKMS = n] :
                 n \in KeyName}

VARIABLE part   \* what moves

\* One start of the organisation is enough for the record.
MCInit ==
    /\ RecordInit /\ Init
    /\ part \in {"record", "org"}
    /\ part = "record" => ns.kind = "none"

MCNext ==
    /\ UNCHANGED part
    /\ \/ part = "record" /\ RecordNext /\ UNCHANGED vars
       \/ part = "org" /\ Next /\ UNCHANGED recordVars

\* The fairness of RecordFairSpec and of FairSpec.
MCFairness ==
    /\ WF_recordVars(part = "record" /\ DaemonStep)
    /\ \A p \in Commands : WF_recordVars(part = "record" /\ Step(p))
    /\ \A u \in Person : /\ WF_vars(part = "org" /\ StartSync(u))
                         /\ WF_vars(part = "org" /\ Work(u))

MCSpec == MCInit /\ [][MCNext]_<<recordVars, vars, part>> /\ MCFairness
=============================================================================
