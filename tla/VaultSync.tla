------------------------------ MODULE VaultSync ------------------------------
(***************************************************************************)
(* The sync of the vault's content (internal/account sync.go and           *)
(* inventory.go) between devices that are all active and agree on the user *)
(* key: local keyrings, the acknowledged base, the staged pending edits    *)
(* and the server's versions.                                              *)
(*                                                                         *)
(* The content is one environment's entry: the key it names, or None.  A   *)
(* removed name leaves a logical-versioned alias record for its key.  A    *)
(* keyring also files every key it ever held under the key's own name;     *)
(* those entries never change and are left out, as are guards, files,      *)
(* tombstones and cache policies.                                          *)
(*                                                                         *)
(* Editors and syncs of one device exclude each other by the keyring lock, *)
(* so between two steps of a sync only other devices and crashes come in.  *)
(***************************************************************************)
EXTENDS Integers, Sequences, FiniteSets

CONSTANTS
    Devices,
    Values,       \* environment keys
    First,        \* the key every device has at first
    None,         \* no entry, no inventory
    Lost,         \* no keyring file
    Joining,      \* the devices that just joined and have nothing yet
    MaxTroubles,  \* bound: removals of the entry, keyring files lost, crashes
                  \*   and requests without an answer
    MaxAnswers    \* bound: syncs a person begins after so many answers

Aliases == [Values -> [version: Nat, removed: BOOLEAN]]
Inventory == [value: Values \cup {None}, aliases: Aliases]

ASSUME ValuesAssumption ==
    /\ First \in Values
    /\ None \notin Values /\ None \notin Inventory
    /\ Lost \notin Values /\ None # Lost
    /\ Joining \subseteq Devices
    /\ MaxTroubles \in Nat /\ MaxAnswers \in Nat

VARIABLES
    server,    \* the newest vault version and its content
    disk,      \* disk[d]: keyring, base, pending, synced version, conflict
    job,       \* job[d]: the sync that runs on d
    published, \* history: what the server's vaults named
    undone,    \* history: the server went back to what it had before
    used,      \* history: keys that edits drew
    removals, crashes, answers    \* counters of the bounds

syncVars == <<server, disk, job, published, undone, used, removals, crashes, answers>>

NoAliases == [v \in Values |-> [version |-> 0, removed |-> FALSE]]
Empty == [value |-> None, aliases |-> NoAliases]
FirstInventory == [value |-> First, aliases |-> NoAliases]

NoSync == [step |-> "idle", remote |-> None, seen |-> 0, next |-> None, person |-> "absent"]

\* A device is synced, unless it just joined.
SyncInit ==
    /\ server = [version |-> 1, content |-> FirstInventory]
    /\ disk = [d \in Devices |->
         IF d \in Joining
         THEN [local |-> Lost, base |-> None, pending |-> None, version |-> 0, conflict |-> FALSE]
         ELSE [local |-> First, base |-> FirstInventory, pending |-> None, version |-> 1,
               conflict |-> FALSE]]
    /\ job = [d \in Devices |-> NoSync]
    /\ published = {First} /\ undone = FALSE
    /\ used = {First}
    /\ removals = 0 /\ crashes = 0 /\ answers = 0

-----------------------------------------------------------------------------
(* Inventories. *)

\* mergeAlias: the higher version wins, a removal wins among equals.
NewerAlias(had, event) ==
    IF event.version > had.version \/ (event.version = had.version /\ event.removed)
    THEN event ELSE had

\* mergeInventorySource: an absent source changes nothing.
Merged(inv, source) ==
    IF source = None THEN inv
    ELSE [value |-> IF source.value # None THEN source.value ELSE inv.value,
          aliases |-> [v \in Values |-> NewerAlias(inv.aliases[v], source.aliases[v])]]

\* recordAlias
Recorded(inv, previous, v, removed) ==
    [inv EXCEPT !.aliases[v] =
        NewerAlias(@, [version |-> previous.aliases[v].version + 1, removed |-> removed])]

\* applyDeleted: a removed alias is not in the inventory.
WithoutRemoved(inv) ==
    IF inv.value # None /\ inv.aliases[inv.value].removed THEN [inv EXCEPT !.value = None]
    ELSE inv

\* collectInventory: base, pending and remote under the local keyring, with
\* what changed here since the last of base and pending recorded.
Collected(k, remote) ==
    LET sources == Merged(Merged(Merged(Empty, k.base), k.pending), remote)
        previous == IF k.pending # None THEN k.pending ELSE k.base
        withLocal == IF k.local \in Values THEN [sources EXCEPT !.value = k.local] ELSE sources
        recorded ==
            IF previous = None \/ k.local = Lost THEN withLocal
            ELSE IF k.local = None /\ previous.value # None
            THEN Recorded(withLocal, previous, previous.value, TRUE)
            ELSE IF k.local \in Values /\ previous.value # k.local
            THEN Recorded(withLocal, previous, k.local, FALSE)
            ELSE withLocal
    IN  WithoutRemoved(recorded)

\* applyKeyState: removed aliases leave the keyring too.
KeyState(k, inv) ==
    IF k.local \in Values /\ inv.aliases[k.local].removed THEN [k EXCEPT !.local = None]
    ELSE k

\* merge: whether the entry was changed here and elsewhere since the base.
Conflicting(k, value) ==
    /\ k.local \in Values /\ value \in Values /\ k.local # value
    /\ IF k.base = None THEN TRUE ELSE k.base.value # k.local /\ k.base.value # value

\* Mutant: whatever the vault has replaces what is here.
MergedIntoTheirs(k, value) ==
    [k EXCEPT !.local = IF k.local = Lost \/ value # None THEN value ELSE k.local]

\* merge: what the keyring holds after it, without a conflict.
MergedInto(k, value) ==
    [k EXCEPT !.local =
        IF k.local = Lost \/ (k.local = None /\ value # None) THEN value
        ELSE IF k.base # None /\ k.local = k.base.value /\ value # None THEN value
        ELSE k.local]

-----------------------------------------------------------------------------
(* The person's edits, under the keyring lock. *)

\* A new or rotated key is drawn.
Edit(d) ==
    /\ job[d] = NoSync
    /\ \E v \in Values \ used :
         /\ disk' = [disk EXCEPT ![d].local = v]
         /\ used' = used \cup {v}
    /\ UNCHANGED <<server, job, published, undone, answers, removals, crashes>>

\* The name goes from the keyring (its environment is renamed), or the keyring
\* file is lost.
Remove(d) ==
    /\ job[d] = NoSync /\ removals + crashes < MaxTroubles
    /\ disk[d].local \in Values
    /\ \E gone \in {None, Lost} : disk' = [disk EXCEPT ![d].local = gone]
    /\ removals' = removals + 1
    /\ UNCHANGED <<server, job, published, undone, used, answers, crashes>>

\* stagePending, after a command that changed something and before a sync.
Staged(k) ==
    LET inv == Collected(k, None)
    IN  [k EXCEPT !.pending = IF inv = k.base THEN None ELSE inv]

Stage(d) ==
    /\ job[d] = NoSync
    /\ Staged(disk[d]) # disk[d]
    /\ disk' = [disk EXCEPT ![d] = Staged(@)]
    /\ UNCHANGED <<server, job, published, undone, used, answers, removals, crashes>>

-----------------------------------------------------------------------------
(* One sync. *)

Go(d, j) == job' = [job EXCEPT ![d] = j]
JobAt(d, step) == job[d].step = step
Attended == Cardinality({d \in Devices : job[d].person = "present"})

\* Sync stages first, with or without a person at the terminal; a revocation,
\* a rotation and a cache change sync without either.
\* Pending edits come back into a keyring that lost them.
BeginSync(d) ==
    /\ JobAt(d, "idle")
    /\ \E k \in {disk[d], Staged(disk[d])}, person \in {"absent", "present"} :
         /\ person = "present" => k = Staged(disk[d]) /\ answers + Attended < MaxAnswers
         /\ IF k.pending # None /\ Conflicting(k, k.pending.value)
            THEN disk' = [disk EXCEPT ![d] = k] /\ UNCHANGED job
            ELSE /\ disk' = [disk EXCEPT ![d] =
                       IF k.pending # None THEN MergedInto(k, k.pending.value) ELSE k]
                 /\ Go(d, [NoSync EXCEPT !.step = "pull", !.person = person])
    /\ UNCHANGED <<server, published, undone, used, answers, removals, crashes>>

\* The server's vault is fetched and merged.  A conflict ends the sync and is
\* recorded, unless a person is there to decide.
PullVault(d) ==
    /\ JobAt(d, "pull")
    /\ LET combined == Collected(disk[d], server.content)
           k == KeyState(disk[d], combined)
           remote == WithoutRemoved([server.content EXCEPT !.aliases = combined.aliases])
           needed == server.version # k.version \/ k.conflict
           conflict == needed /\ Conflicting(k, remote.value)
           pulled == [step |-> "push", remote |-> server.content, seen |-> server.version,
                      next |-> None, person |-> job[d].person]
       IN  \/ /\ conflict /\ job[d].person = "absent"
              /\ disk' = [disk EXCEPT ![d] = [k EXCEPT !.conflict = TRUE]]
              /\ Go(d, NoSync)
              /\ UNCHANGED answers
           \/ /\ conflict /\ job[d].person # "absent"
              /\ \E choice \in {k.local, remote.value} :
                   /\ disk' = [disk EXCEPT ![d] = [k EXCEPT !.local = choice, !.conflict = FALSE]]
                   /\ answers' = answers + 1
              /\ Go(d, [pulled EXCEPT !.person = "answered"])
           \/ /\ ~conflict
              /\ disk' = [disk EXCEPT ![d] =
                   IF needed THEN [MergedInto(k, remote.value) EXCEPT !.conflict = FALSE] ELSE k]
              /\ Go(d, pulled)
              /\ UNCHANGED answers
    /\ UNCHANGED <<server, published, undone, used, removals, crashes>>

\* Mutant: the reconciled inventory does not come back into the keyring.
PrepareOnly(d) ==
    /\ JobAt(d, "push")
    /\ LET inv == Collected(disk[d], job[d].remote)
           k == KeyState(disk[d], inv)
       IN  IF inv = job[d].remote
           THEN /\ disk' = [disk EXCEPT ![d] = k]
                /\ Go(d, [job[d] EXCEPT !.step = "base", !.next = inv])
           ELSE /\ disk' = [disk EXCEPT ![d] = [k EXCEPT !.pending = inv]]
                /\ Go(d, [job[d] EXCEPT !.step = "put", !.next = inv])
    /\ UNCHANGED <<server, published, undone, used, answers, removals, crashes>>

\* The reconciled inventory: nothing to push if it is the server's, otherwise
\* it is written as pending before the upload.
Prepare(d) ==
    /\ JobAt(d, "push")
    /\ LET inv == Collected(disk[d], job[d].remote)
           k == MergedInto(KeyState(disk[d], inv), inv.value)
       IN  IF inv = job[d].remote
           THEN /\ disk' = [disk EXCEPT ![d] = k]
                /\ Go(d, [job[d] EXCEPT !.step = "base", !.next = inv])
           ELSE /\ disk' = [disk EXCEPT ![d] = [k EXCEPT !.pending = inv]]
                /\ Go(d, [job[d] EXCEPT !.step = "put", !.next = inv])
    /\ UNCHANGED <<server, published, undone, used, answers, removals, crashes>>

\* Mutant: the upload is not conditional on the version seen.
PutAlways(d) ==
    /\ JobAt(d, "put")
    /\ server' = [version |-> server.version + 1, content |-> job[d].next]
    /\ published' = published \cup ({job[d].next.value} \ {None})
    /\ undone' = (undone \/ (/\ job[d].next.value # server.content.value
                            /\ job[d].next.value \in published))
    /\ Go(d, [job[d] EXCEPT !.step = "base", !.seen = server.version + 1])
    /\ UNCHANGED <<disk, used, answers, removals, crashes>>

\* PutVault with the version this device saw.  On a conflict the sync pulls
\* again, and gives up after some attempts.
Put(d) ==
    /\ JobAt(d, "put")
    /\ IF server.version = job[d].seen
       THEN /\ server' = [version |-> server.version + 1, content |-> job[d].next]
            /\ published' = published \cup ({job[d].next.value} \ {None})
            /\ undone' = (undone \/ (/\ job[d].next.value # server.content.value
                                    /\ job[d].next.value \in published))
            /\ Go(d, [job[d] EXCEPT !.step = "base", !.seen = @ + 1])
       ELSE /\ \/ Go(d, NoSync)
               \/ Go(d, [NoSync EXCEPT !.step = "pull",
                    !.person = IF job[d].person = "absent" THEN "absent" ELSE "present"])
            /\ UNCHANGED <<server, published, undone>>
    /\ UNCHANGED <<disk, used, answers, removals, crashes>>

\* The acknowledgement, in the order of its writes: the merge base, the
\* removal of the pending edits, and the account record.
SaveBase(d) ==
    /\ JobAt(d, "base")
    /\ disk' = [disk EXCEPT ![d].base = job[d].next]
    /\ Go(d, [job[d] EXCEPT !.step = "clear"])
    /\ UNCHANGED <<server, published, undone, used, answers, removals, crashes>>

ClearPending(d) ==
    /\ JobAt(d, "clear")
    /\ disk' = [disk EXCEPT ![d].pending = None]
    /\ Go(d, [job[d] EXCEPT !.step = "record"])
    /\ UNCHANGED <<server, published, undone, used, answers, removals, crashes>>

SaveRecord(d) ==
    /\ JobAt(d, "record")
    /\ disk' = [disk EXCEPT ![d].version = job[d].seen, ![d].conflict = FALSE]
    /\ Go(d, NoSync)
    /\ UNCHANGED <<server, published, undone, used, answers, removals, crashes>>

\* The process dies, or a request it made is not answered: PutVault may have
\* been done all the same, which is a crash in front of SaveBase.
Stop(d) ==
    /\ removals + crashes < MaxTroubles
    /\ job[d] # NoSync
    /\ Go(d, NoSync)
    /\ crashes' = crashes + 1
    /\ UNCHANGED <<server, disk, published, undone, used, answers, removals>>

-----------------------------------------------------------------------------
SyncStep(d) ==
    \/ PullVault(d) \/ Prepare(d) \/ Put(d)
    \/ SaveBase(d) \/ ClearPending(d) \/ SaveRecord(d)

SyncNext ==
    \E d \in Devices :
      \/ Edit(d) \/ Remove(d) \/ Stage(d)
      \/ BeginSync(d) \/ SyncStep(d) \/ Stop(d)

SyncSpec == SyncInit /\ [][SyncNext]_syncVars

\* The daemon of every device syncs again and again, and each sync comes to an
\* end: its requests time out.
SyncFairness == \A d \in Devices : []<>JobAt(d, "idle") /\ []<>JobAt(d, "pull")

SyncFairSpec == SyncSpec /\ SyncFairness

-----------------------------------------------------------------------------
(* Properties. *)

\* Nothing a person did here and the server never had is overwritten or
\* dropped by a sync of any outcome, except by the person's own answer.
KeepsEdits ==
    \A d \in Devices, v \in Values :
      (disk[d].local = v /\ disk'[d].local # v /\ v \notin published) =>
        \/ used' # used
        \/ removals' # removals
        \/ job[d].person = "present" /\ job'[d].person = "answered"
KeepsEditsProperty == [][KeepsEdits]_syncVars

\* A stale device never undoes a newer change: the server never goes back to a
\* key it had before (every edit draws a new one), unless a person's answer to
\* a conflict asked for it, a keyring lost an entry, or a second sync was cut
\* short: two of them between SaveBase and the next ClearPending leave a pending
\* edit that is older than the base.
NeverGoesBack == answers = 0 => ~undone
NoStaleUndo == removals = 0 /\ crashes <= 1 => NeverGoesBack

\* With edits over, the devices settle on one content, or a conflict waits for
\* a person.
Settles ==
    <>[](\/ \E d \in Devices : disk[d].conflict
         \/ \A d \in Devices : disk[d].local = server.content.value)
=============================================================================
