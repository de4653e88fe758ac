---------------------------- MODULE DeviceProofs ----------------------------
(***************************************************************************)
(* Theorems about what runs on one machine: the account record             *)
(* (LocalState), the broker (Broker) and the sync of the vault's content   *)
(* (VaultSync), one after another; they share nothing but this module.     *)
(*                                                                         *)
(* LocalState, for any commands, logins and bounds: no locked process      *)
(* writes an older pin back, and no wake-up of the daemon's poll is missed.*)
(*                                                                         *)
(* Broker, for any reads, environments, lengths of sessions and bounds:    *)
(* what a lock revokes, how long a session lasts, and that the turn at the *)
(* key, the dialog and the queue are never lost.                           *)
(*                                                                         *)
(* VaultSync, for any devices, keys and bounds: no sync overwrites an edit *)
(* that the server never had, and no stale device takes the server back.   *)
(***************************************************************************)
EXTENDS LocalState, VaultSync, Broker, FiniteSetTheorems, TLAPS

-----------------------------------------------------------------------------
(* The account record.                                                     *)

Record == [chain: Nat, vault: Nat, events: Nat]

HoldsLock == {"locked", "verified", "save"}

RecordTypes ==
    /\ account \in Record /\ file \in Record
    /\ lock \in Lockers \cup {Nobody}
    /\ pc \in [Processes -> HoldsLock \cup {"idle", "poll", "listening", "waiting", "polled",
                                            "loaded", "signedIn"}]
    /\ mem \in [Processes -> Record]
    /\ waiter \in {"none", "open", "closed"} /\ wakes \in BOOLEAN /\ dirty \in BOOLEAN

\* Of the processes that run under the lock, the one that has it and no other
\* is at work.
Mutex == \A p \in Lockers : pc[p] \in HoldsLock <=> lock = p

\* The copy of the lock's holder is as new as the record, unless someone wrote
\* without the lock meanwhile.
HolderIsNew ==
    ~dirty => \A p \in Lockers : lock = p =>
        /\ mem[p].chain >= file.chain
        /\ mem[p].vault >= file.vault
        /\ mem[p].events >= file.events

\* Every event cursor is one that the server gave the daemon once; the cursor
\* that the daemon is about to save is the latest there is.
CursorsKnown ==
    /\ file.events <= account.events
    /\ \A p \in Processes : mem[p].events <= account.events

CursorIsLast ==
    pc[Daemon] = "polled" =>
        /\ file.events <= mem[Daemon].events
        /\ \A p \in Processes : mem[p].events <= mem[Daemon].events

\* While the poll listens, the notifier has its channel.
Registered == pc[Daemon] \in {"listening", "waiting"} => waiter # "none"

RecordInv == RecordTypes /\ Mutex /\ HolderIsNew /\ CursorsKnown /\ CursorIsLast /\ Registered /\ NoMissedWake

LEMMA RecordInitInv == RecordInit => RecordInv
<1> SUFFICES ASSUME RecordInit PROVE RecordInv
  OBVIOUS
<1>1. RecordTypes
  BY DEF RecordInit, RecordTypes, Record, Zero, HoldsLock
<1>2. Mutex
  BY ProcessesAssumption DEF RecordInit, Mutex, HoldsLock, Processes, Lockers
<1> QED
  BY <1>1, <1>2, ProcessesAssumption
  DEF RecordInit, RecordInv, HolderIsNew, CursorsKnown, CursorIsLast, Registered, NoMissedWake,
      Zero, Processes, Lockers

\* What storing a change does to the server's counters.
LEMMA StoreMoves ==
    ASSUME account \in Record, NEW change \in Record, Store(change),
           change.events = account.events
    PROVE  account' \in Record /\ account'.events = account.events + 1
BY DEF Store, Record

LEMMA ChangeMoves ==
    ASSUME account \in Record,
           Store([account EXCEPT !.chain = @ + 1]) \/ Store([account EXCEPT !.vault = @ + 1])
    PROVE  account' \in Record /\ account'.events = account.events + 1 /\ wakes' = TRUE /\ waiter' = waiter
<1> DEFINE Link == [account EXCEPT !.chain = @ + 1]
           Vault == [account EXCEPT !.vault = @ + 1]
<1>1. Link \in Record /\ Link.events = account.events /\ Vault \in Record /\ Vault.events = account.events
  BY DEF Record
<1>2. account' \in Record /\ account'.events = account.events + 1
  BY <1>1, StoreMoves
<1> QED
  BY <1>2 DEF Store

LEMMA RecordStepInv == RecordInv /\ [RecordNext]_recordVars => RecordInv'
<1> SUFFICES ASSUME RecordInv, [RecordNext]_recordVars PROVE RecordInv'
  OBVIOUS
<1> USE ProcessesAssumption DEF RecordInv, RecordTypes, Record, HoldsLock, Processes, Lockers
<1>1. ASSUME OtherDevice
      PROVE  RecordInv'
  <2>1. RecordTypes'
    BY <1>1, ChangeMoves DEF OtherDevice
  <2>2. Mutex'
    BY <1>1 DEF OtherDevice, Store, Mutex
  <2>3. HolderIsNew'
    BY <1>1 DEF OtherDevice, Store, HolderIsNew
  <2>4. CursorsKnown'
    <3>1. account'.events = account.events + 1 /\ account.events \in Nat
      BY <1>1, ChangeMoves DEF OtherDevice
    <3>2. UNCHANGED <<file, mem>>
      BY <1>1 DEF OtherDevice
    <3> QED
      BY <3>1, <3>2 DEF CursorsKnown
  <2>5. CursorIsLast'
    BY <1>1 DEF OtherDevice, Store, CursorIsLast
  <2>6. Registered'
    BY <1>1 DEF OtherDevice, Store, Registered
  <2>7. NoMissedWake'
    BY <1>1 DEF OtherDevice, Store, NoMissedWake
  <2> QED
    BY <2>1, <2>2, <2>3, <2>4, <2>5, <2>6, <2>7
<1>2. ASSUME Wake
      PROVE  RecordInv'
  <2>1. RecordTypes'
    BY <1>2 DEF Wake
  <2>2. Mutex'
    BY <1>2 DEF Wake, Mutex
  <2>3. HolderIsNew'
    BY <1>2 DEF Wake, HolderIsNew
  <2>4. CursorsKnown'
    BY <1>2 DEF Wake, CursorsKnown
  <2>5. CursorIsLast'
    BY <1>2 DEF Wake, CursorIsLast
  <2>6. Registered'
    BY <1>2 DEF Wake, Registered
  <2>7. NoMissedWake'
    BY <1>2 DEF Wake, NoMissedWake, Registered
  <2> QED
    BY <2>1, <2>2, <2>3, <2>4, <2>5, <2>6, <2>7
<1>3. ASSUME Listen
      PROVE  RecordInv'
  <2>1. RecordTypes'
    BY <1>3 DEF Listen, Goto
  <2>2. Mutex'
    BY <1>3 DEF Listen, Goto, Mutex
  <2>3. HolderIsNew'
    BY <1>3 DEF Listen, Goto, HolderIsNew
  <2>4. CursorsKnown'
    BY <1>3 DEF Listen, Goto, CursorsKnown
  <2>5. CursorIsLast'
    BY <1>3 DEF Listen, Goto, CursorIsLast
  <2>6. Registered'
    BY <1>3 DEF Listen, Goto, Registered
  <2>7. NoMissedWake'
    BY <1>3 DEF Listen, Goto, NoMissedWake
  <2> QED
    BY <2>1, <2>2, <2>3, <2>4, <2>5, <2>6, <2>7
<1>4. ASSUME ReadEvents
      PROVE  RecordInv'
  <2>1. RecordTypes'
    BY <1>4 DEF ReadEvents, Goto
  <2>2. Mutex'
    BY <1>4 DEF ReadEvents, Goto, Mutex
  <2>3. HolderIsNew'
    BY <1>4 DEF ReadEvents, Goto, HolderIsNew, Mutex
  <2>4. CursorsKnown'
    BY <1>4 DEF ReadEvents, Goto, CursorsKnown
  <2>5. CursorIsLast'
    BY <1>4 DEF ReadEvents, Goto, CursorIsLast, CursorsKnown
  <2>6. Registered'
    BY <1>4 DEF ReadEvents, Goto, Registered
  <2>7. NoMissedWake'
    BY <1>4 DEF ReadEvents, Goto, NoMissedWake
  <2> QED
    BY <2>1, <2>2, <2>3, <2>4, <2>5, <2>6, <2>7
<1>5. ASSUME Woken
      PROVE  RecordInv'
  <2>1. RecordTypes'
    BY <1>5 DEF Woken, Goto
  <2>2. Mutex'
    BY <1>5 DEF Woken, Goto, Mutex
  <2>3. HolderIsNew'
    BY <1>5 DEF Woken, Goto, HolderIsNew
  <2>4. CursorsKnown'
    BY <1>5 DEF Woken, Goto, CursorsKnown
  <2>5. CursorIsLast'
    BY <1>5 DEF Woken, Goto, CursorIsLast
  <2>6. Registered'
    BY <1>5 DEF Woken, Goto, Registered
  <2>7. NoMissedWake'
    BY <1>5 DEF Woken, Goto, NoMissedWake
  <2> QED
    BY <2>1, <2>2, <2>3, <2>4, <2>5, <2>6, <2>7
<1>6. ASSUME PollEnds
      PROVE  RecordInv'
  <2>1. RecordTypes'
    BY <1>6 DEF PollEnds, Goto, Zero
  <2>2. Mutex'
    BY <1>6 DEF PollEnds, Goto, Zero, Mutex
  <2>3. HolderIsNew'
    BY <1>6 DEF PollEnds, Goto, Zero, HolderIsNew, Mutex
  <2>4. CursorsKnown'
    BY <1>6 DEF PollEnds, Goto, Zero, CursorsKnown
  <2>5. CursorIsLast'
    BY <1>6 DEF PollEnds, Goto, Zero, CursorIsLast
  <2>6. Registered'
    BY <1>6 DEF PollEnds, Goto, Zero, Registered
  <2>7. NoMissedWake'
    BY <1>6 DEF PollEnds, Goto, Zero, NoMissedWake
  <2> QED
    BY <2>1, <2>2, <2>3, <2>4, <2>5, <2>6, <2>7
<1>7. ASSUME SaveCursor
      PROVE  RecordInv'
  <2>1. RecordTypes'
    <3>1. mem[Daemon].events \in Nat /\ file \in Record
      OBVIOUS
    <3>2. file' \in Record
      BY <1>7, <3>1 DEF SaveCursor
    <3>3. mem' \in [Processes -> Record] /\ pc' \in [Processes -> HoldsLock \cup {"idle", "poll",
             "listening", "waiting", "polled", "loaded", "signedIn"}]
      BY <1>7 DEF SaveCursor, Goto, Zero
    <3>4. UNCHANGED <<account, lock, dirty, waiter, wakes>>
      BY <1>7 DEF SaveCursor, polls
    <3> QED
      BY <3>2, <3>3, <3>4
  <2>2. Mutex'
    BY <1>7 DEF SaveCursor, Goto, Zero, Mutex
  <2>3. HolderIsNew'
    BY <1>7 DEF SaveCursor, Goto, Zero, HolderIsNew
  <2>4. CursorsKnown'
    BY <1>7 DEF SaveCursor, Goto, Zero, CursorsKnown
  <2>5. CursorIsLast'
    BY <1>7 DEF SaveCursor, Goto, Zero, CursorIsLast
  <2>6. Registered'
    BY <1>7 DEF SaveCursor, Goto, Zero, Registered
  <2>7. NoMissedWake'
    BY <1>7 DEF SaveCursor, Goto, Zero, NoMissedWake
  <2> QED
    BY <2>1, <2>2, <2>3, <2>4, <2>5, <2>6, <2>7
<1>8. ASSUME NEW p \in Lockers, TakeLock(p)
      PROVE  RecordInv'
  <2>1. RecordTypes'
    BY <1>8 DEF TakeLock, Goto, Reload, polls
  <2>2. Mutex'
    BY <1>8 DEF TakeLock, Goto, Reload, polls, Mutex
  <2>3. HolderIsNew'
    BY <1>8 DEF TakeLock, Goto, Reload, polls, HolderIsNew
  <2>4. CursorsKnown'
    BY <1>8 DEF TakeLock, Goto, Reload, polls, CursorsKnown
  <2>5. CursorIsLast'
    BY <1>8 DEF TakeLock, Goto, Reload, polls, CursorIsLast
  <2>6. Registered'
    BY <1>8 DEF TakeLock, Goto, Reload, polls, Registered
  <2>7. NoMissedWake'
    BY <1>8 DEF TakeLock, Goto, Reload, polls, NoMissedWake
  <2> QED
    BY <2>1, <2>2, <2>3, <2>4, <2>5, <2>6, <2>7
<1>9. ASSUME NEW p \in Lockers, Verify(p)
      PROVE  RecordInv'
  <2>1. RecordTypes'
    BY <1>9 DEF Verify, Goto, polls
  <2>2. Mutex'
    BY <1>9 DEF Verify, Goto, polls, Mutex
  <2>3. HolderIsNew'
    BY <1>9 DEF Verify, Goto, polls, HolderIsNew
  <2>4. CursorsKnown'
    BY <1>9 DEF Verify, Goto, polls, CursorsKnown
  <2>5. CursorIsLast'
    BY <1>9 DEF Verify, Goto, polls, CursorIsLast
  <2>6. Registered'
    BY <1>9 DEF Verify, Goto, polls, Registered
  <2>7. NoMissedWake'
    BY <1>9 DEF Verify, Goto, polls, NoMissedWake
  <2> QED
    BY <2>1, <2>2, <2>3, <2>4, <2>5, <2>6, <2>7
<1>10. ASSUME NEW p \in Lockers, CommitLink(p)
      PROVE  RecordInv'
  <2>1. RecordTypes'
    BY <1>10, ChangeMoves DEF CommitLink, Goto
  <2>2. Mutex'
    BY <1>10 DEF CommitLink, Goto, Store, Mutex
  <2>3. HolderIsNew'
    BY <1>10 DEF CommitLink, Goto, Store, HolderIsNew
  <2>4. CursorsKnown'
    BY <1>10 DEF CommitLink, Goto, Store, CursorsKnown
  <2>5. CursorIsLast'
    BY <1>10 DEF CommitLink, Goto, Store, CursorIsLast
  <2>6. Registered'
    BY <1>10 DEF CommitLink, Goto, Store, Registered
  <2>7. NoMissedWake'
    BY <1>10 DEF CommitLink, Goto, Store, NoMissedWake
  <2> QED
    BY <2>1, <2>2, <2>3, <2>4, <2>5, <2>6, <2>7
<1>11. ASSUME NEW p \in Lockers, Pull(p)
      PROVE  RecordInv'
  <2>1. RecordTypes'
    BY <1>11 DEF Pull, Goto, polls
  <2>2. Mutex'
    BY <1>11 DEF Pull, Goto, polls, Mutex
  <2>3. HolderIsNew'
    BY <1>11 DEF Pull, Goto, polls, HolderIsNew
  <2>4. CursorsKnown'
    BY <1>11 DEF Pull, Goto, polls, CursorsKnown
  <2>5. CursorIsLast'
    BY <1>11 DEF Pull, Goto, polls, CursorIsLast
  <2>6. Registered'
    BY <1>11 DEF Pull, Goto, polls, Registered
  <2>7. NoMissedWake'
    BY <1>11 DEF Pull, Goto, polls, NoMissedWake
  <2> QED
    BY <2>1, <2>2, <2>3, <2>4, <2>5, <2>6, <2>7
<1>12. ASSUME NEW p \in Lockers, Push(p)
      PROVE  RecordInv'
  <2>1. RecordTypes'
    BY <1>12, ChangeMoves DEF Push, Goto
  <2>2. Mutex'
    BY <1>12 DEF Push, Goto, Store, Mutex
  <2>3. HolderIsNew'
    BY <1>12 DEF Push, Goto, Store, HolderIsNew
  <2>4. CursorsKnown'
    BY <1>12 DEF Push, Goto, Store, CursorsKnown
  <2>5. CursorIsLast'
    BY <1>12 DEF Push, Goto, Store, CursorIsLast
  <2>6. Registered'
    BY <1>12 DEF Push, Goto, Store, Registered
  <2>7. NoMissedWake'
    BY <1>12 DEF Push, Goto, Store, NoMissedWake
  <2> QED
    BY <2>1, <2>2, <2>3, <2>4, <2>5, <2>6, <2>7
<1>13. ASSUME NEW p \in Lockers, Save(p)
      PROVE  RecordInv'
  <2>1. RecordTypes'
    BY <1>13 DEF Save, GiveLock, polls, Zero
  <2>2. Mutex'
    BY <1>13 DEF Save, GiveLock, polls, Zero, Mutex
  <2>3. HolderIsNew'
    BY <1>13 DEF Save, GiveLock, polls, Zero, HolderIsNew
  <2>4. CursorsKnown'
    BY <1>13 DEF Save, GiveLock, polls, Zero, CursorsKnown
  <2>5. CursorIsLast'
    BY <1>13 DEF Save, GiveLock, polls, Zero, CursorIsLast
  <2>6. Registered'
    BY <1>13 DEF Save, GiveLock, polls, Zero, Registered
  <2>7. NoMissedWake'
    BY <1>13 DEF Save, GiveLock, polls, Zero, NoMissedWake
  <2> QED
    BY <2>1, <2>2, <2>3, <2>4, <2>5, <2>6, <2>7
<1>14. ASSUME NEW p \in Lockers, Fail(p)
      PROVE  RecordInv'
  <2>1. RecordTypes'
    BY <1>14 DEF Fail, Goto, GiveLock, polls, Zero
  <2>2. Mutex'
    BY <1>14 DEF Fail, Goto, GiveLock, polls, Zero, Mutex
  <2>3. HolderIsNew'
    BY <1>14 DEF Fail, Goto, GiveLock, polls, Zero, HolderIsNew
  <2>4. CursorsKnown'
    BY <1>14 DEF Fail, Goto, GiveLock, polls, Zero, CursorsKnown
  <2>5. CursorIsLast'
    BY <1>14 DEF Fail, Goto, GiveLock, polls, Zero, CursorIsLast
  <2>6. Registered'
    BY <1>14 DEF Fail, Goto, GiveLock, polls, Zero, Registered
  <2>7. NoMissedWake'
    BY <1>14 DEF Fail, Goto, GiveLock, polls, Zero, NoMissedWake
  <2> QED
    BY <2>1, <2>2, <2>3, <2>4, <2>5, <2>6, <2>7
<1>15. ASSUME NEW p \in Lockless, Load(p)
      PROVE  RecordInv'
  <2>1. RecordTypes'
    BY <1>15 DEF Load, Goto, polls
  <2>2. Mutex'
    BY <1>15 DEF Load, Goto, polls, Mutex
  <2>3. HolderIsNew'
    BY <1>15 DEF Load, Goto, polls, HolderIsNew
  <2>4. CursorsKnown'
    BY <1>15 DEF Load, Goto, polls, CursorsKnown
  <2>5. CursorIsLast'
    BY <1>15 DEF Load, Goto, polls, CursorIsLast
  <2>6. Registered'
    BY <1>15 DEF Load, Goto, polls, Registered
  <2>7. NoMissedWake'
    BY <1>15 DEF Load, Goto, polls, NoMissedWake
  <2> QED
    BY <2>1, <2>2, <2>3, <2>4, <2>5, <2>6, <2>7
<1>16. ASSUME NEW p \in Lockless, WriteBack(p)
      PROVE  RecordInv'
  <2>1. RecordTypes'
    BY <1>16 DEF WriteBack, Goto, polls, Zero
  <2>2. Mutex'
    BY <1>16 DEF WriteBack, Goto, polls, Zero, Mutex
  <2>3. HolderIsNew'
    BY <1>16 DEF WriteBack, Goto, polls, Zero, HolderIsNew
  <2>4. CursorsKnown'
    BY <1>16 DEF WriteBack, Goto, polls, Zero, CursorsKnown
  <2>5. CursorIsLast'
    BY <1>16 DEF WriteBack, Goto, polls, Zero, CursorIsLast
  <2>6. Registered'
    BY <1>16 DEF WriteBack, Goto, polls, Zero, Registered
  <2>7. NoMissedWake'
    BY <1>16 DEF WriteBack, Goto, polls, Zero, NoMissedWake
  <2> QED
    BY <2>1, <2>2, <2>3, <2>4, <2>5, <2>6, <2>7
<1>17. ASSUME NEW p \in Lockless, VerifyLogin(p)
      PROVE  RecordInv'
  <2>1. RecordTypes'
    BY <1>17 DEF VerifyLogin, Goto, polls
  <2>2. Mutex'
    BY <1>17 DEF VerifyLogin, Goto, polls, Mutex
  <2>3. HolderIsNew'
    BY <1>17 DEF VerifyLogin, Goto, polls, HolderIsNew
  <2>4. CursorsKnown'
    BY <1>17 DEF VerifyLogin, Goto, polls, CursorsKnown
  <2>5. CursorIsLast'
    BY <1>17 DEF VerifyLogin, Goto, polls, CursorIsLast
  <2>6. Registered'
    BY <1>17 DEF VerifyLogin, Goto, polls, Registered
  <2>7. NoMissedWake'
    BY <1>17 DEF VerifyLogin, Goto, polls, NoMissedWake
  <2> QED
    BY <2>1, <2>2, <2>3, <2>4, <2>5, <2>6, <2>7
<1>18. ASSUME NEW p \in Lockless, SaveLogin(p)
      PROVE  RecordInv'
  <2>1. RecordTypes'
    BY <1>18 DEF SaveLogin, Goto, polls, Zero
  <2>2. Mutex'
    BY <1>18 DEF SaveLogin, Goto, polls, Zero, Mutex
  <2>3. HolderIsNew'
    BY <1>18 DEF SaveLogin, Goto, polls, Zero, HolderIsNew
  <2>4. CursorsKnown'
    BY <1>18 DEF SaveLogin, Goto, polls, Zero, CursorsKnown
  <2>5. CursorIsLast'
    BY <1>18 DEF SaveLogin, Goto, polls, Zero, CursorIsLast
  <2>6. Registered'
    BY <1>18 DEF SaveLogin, Goto, polls, Zero, Registered
  <2>7. NoMissedWake'
    BY <1>18 DEF SaveLogin, Goto, polls, Zero, NoMissedWake
  <2> QED
    BY <2>1, <2>2, <2>3, <2>4, <2>5, <2>6, <2>7
<1>19. ASSUME NEW p \in Processes, Crash(p)
      PROVE  RecordInv'
  <2>1. RecordTypes'
    BY <1>19 DEF Crash, Zero
  <2>2. Mutex'
    BY <1>19 DEF Crash, Zero, Mutex
  <2>3. HolderIsNew'
    BY <1>19 DEF Crash, Zero, HolderIsNew
  <2>4. CursorsKnown'
    BY <1>19 DEF Crash, Zero, CursorsKnown
  <2>5. CursorIsLast'
    BY <1>19 DEF Crash, Zero, CursorIsLast
  <2>6. Registered'
    BY <1>19 DEF Crash, Zero, Registered
  <2>7. NoMissedWake'
    BY <1>19 DEF Crash, Zero, NoMissedWake
  <2> QED
    BY <2>1, <2>2, <2>3, <2>4, <2>5, <2>6, <2>7
<1>20. CASE UNCHANGED recordVars
  BY <1>20 DEF recordVars, Mutex, HolderIsNew, CursorsKnown, CursorIsLast, Registered, NoMissedWake
<1> QED
  BY <1>1, <1>2, <1>3, <1>4, <1>5, <1>6, <1>7, <1>8, <1>9, <1>10, <1>11, <1>12, <1>13, <1>14, <1>15, <1>16, <1>17, <1>18, <1>19, <1>20 DEF RecordNext, DaemonStep, Step
LEMMA RecordInvHolds == RecordSpec => []RecordInv
  BY RecordInitInv, RecordStepInv, PTL DEF RecordSpec

\* The daemon never sleeps through a change (apiEvents registers before it
\* reads): for any number of commands and logins, and any crashes.
THEOREM NoWakeIsMissed == RecordSpec => []NoMissedWake
<1>1. RecordInv => NoMissedWake
  BY DEF RecordInv
<1> QED
  BY <1>1, RecordInvHolds, PTL

\* Reloading under the lock (Locked) is enough: a command or the daemon never
\* writes an older pin back, unless someone saved without the lock meanwhile.
THEOREM LockedKeepsThePins == RecordSpec => LockedKeepsPinsProperty
<1>1. ASSUME RecordInv, [RecordNext]_recordVars
      PROVE  [LockedKeepsPins]_recordVars
  <2> USE <1>1, ProcessesAssumption DEF RecordInv, RecordTypes, Record, HoldsLock, Processes, Lockers
  <2>1. ASSUME UNCHANGED file
        PROVE  Forward
    BY <2>1 DEF Forward
  <2>2. ASSUME NEW p \in Lockers, Save(p)
        PROVE  LockedKeepsPins
    <3>1. lock = p
      BY <2>2 DEF Save, Mutex
    <3>2. CASE dirty
      <4>1. pc'[p] # pc[p]
        BY <2>2 DEF Save, GiveLock
      <4> QED
        BY <3>1, <3>2, <4>1 DEF LockedKeepsPins
    <3>3. CASE ~dirty
      BY <2>2, <3>1, <3>3 DEF Save, HolderIsNew, LockedKeepsPins, Forward
    <3> QED
      BY <3>2, <3>3
  <2>3. ASSUME SaveCursor
        PROVE  Forward
    <3>1. /\ file' = [file EXCEPT !.events = mem[Daemon].events]
          /\ file.events <= mem[Daemon].events
      BY <2>3 DEF SaveCursor, Goto, CursorIsLast
    <3> QED
      BY <3>1 DEF Forward
  <2>4. ASSUME NEW u \in Lockless, WriteBack(u) \/ SaveLogin(u)
        PROVE  pc'[u] # pc[u]
    BY <2>4 DEF WriteBack, SaveLogin, Goto
  <2>5. \/ UNCHANGED file
        \/ SaveCursor
        \/ \E p \in Lockers : Save(p)
        \/ \E u \in Lockless : WriteBack(u) \/ SaveLogin(u)
    BY DEF RecordNext, DaemonStep, Step, recordVars, OtherDevice, Wake, TakeLock, Verify, CommitLink, Pull, Push,
           Fail, Listen, ReadEvents, Woken, PollEnds, Load, VerifyLogin, Crash
  <2> QED
    BY <2>1, <2>2, <2>3, <2>4, <2>5 DEF LockedKeepsPins
<1> QED
  BY <1>1, RecordInvHolds, PTL DEF RecordSpec, LockedKeepsPinsProperty

-----------------------------------------------------------------------------
(* The broker.                                                             *)
-----------------------------------------------------------------------------
Session == [locked: BOOLEAN, expires: Nat, epoch: Nat]

\* Where a read is that has asked nothing yet, waits or is at the key.
Asked == [pc: {"check", "queued", "open", "late"}, env: Env, forwarded: BOOLEAN, epoch: Nat]

Keeping == [pc: {"keep"}, env: Env, forwarded: BOOLEAN, epoch: Nat, until: Nat]

Asking == [pc: {"asking"}, env: Env, forwarded: BOOLEAN, epoch: Nat, asked: Nat]

Having == [pc: {"have"}, epoch: Nat]

Reading == {Idle} \cup Asked \cup Keeping \cup Asking \cup Having

History == [reads: SUBSET Read, overtaken: SUBSET Read, basis: SUBSET Read, late: SUBSET Read,
            cache: SUBSET Env, touched: SUBSET Read, kept: SUBSET Env, grants: SUBSET Env,
            session: BOOLEAN]

Grants == [Env -> [until: Nat, epoch: Nat]]

Types ==
    /\ now \in Nat
    /\ session \in Session
    /\ timers \in SUBSET [epoch: Nat, at: Nat]
    /\ locking \in BOOLEAN
    /\ cache \in [Env -> Nat]
    /\ grants \in Grants
    /\ turn \in BOOLEAN /\ dialog \in BOOLEAN
    /\ rd \in [Read -> Reading]
    /\ old \in History

\* Timers are of this session or of an earlier one; that of an unlocked
\* session fires when the session expires.
TimersOfSessions ==
    \A t \in timers :
        /\ t.epoch <= session.epoch
        /\ t.epoch = session.epoch /\ ~session.locked => t.at = session.expires

\* A read is of this lock generation or an earlier one, and one that a lock
\* overtook is of an earlier one.
ReadsOfEpochs ==
    /\ \A r \in Read : rd[r] # Idle => rd[r].epoch <= session.epoch
    /\ \A r \in old.overtaken : rd[r] # Idle /\ rd[r].epoch < session.epoch

\* What is from before a lock no longer opens anything.
OldIsVoid ==
    /\ old.session => session.locked
    /\ \A e \in old.cache : cache[e] = 0
    /\ \A e \in Env : grants[e].epoch <= session.epoch
    /\ \A e \in old.grants : grants[e].until = 0 \/ grants[e].epoch < session.epoch
    /\ old.basis = {}

Inv == Types /\ TimersOfSessions /\ ReadsOfEpochs /\ OldIsVoid

-----------------------------------------------------------------------------
(* Where a read is.                                                        *)

LEMMA StageOf ==
    ASSUME NEW q \in Reading
    PROVE  /\ q.pc \in {"check", "queued", "open", "late"} => q \in Asked
           /\ q.pc = "keep" => q \in Keeping
           /\ q.pc = "asking" => q \in Asking
           /\ q.pc = "have" => q \in Having
           /\ q.pc # "idle" <=> q # Idle
  BY DEF Reading, Asked, Keeping, Asking, Having, Idle

LEMMA EpochOf ==
    ASSUME NEW q \in Reading, q # Idle
    PROVE  q.epoch \in Nat
  BY DEF Reading, Asked, Keeping, Asking, Having, Idle

\* What every step of a read does: it goes on with the lock generation it
\* began in, or it is answered.
Moves(r) ==
    /\ rd[r] # Idle
    /\ rd' = [rd EXCEPT ![r] = rd'[r]] /\ rd'[r] \in Reading
    /\ \/ rd'[r] = Idle /\ old'.overtaken = old.overtaken \ {r}
       \/ rd'[r] # Idle /\ rd'[r].epoch = rd[r].epoch /\ old'.overtaken = old.overtaken
    /\ UNCHANGED control

LEMMA AnsweredMoves ==
    ASSUME Types, NEW r \in Read, rd[r] # Idle, Answered(r), UNCHANGED control
    PROVE  Moves(r) /\ old' \in History
  BY DEF Types, Answered, Moves, Reading, History

LEMMA GotMoves ==
    ASSUME Types, NEW r \in Read, rd[r] # Idle, Got(r), UNCHANGED control,
           old'.overtaken = old.overtaken
    PROVE  Moves(r)
<1>1. [pc |-> "have", epoch |-> rd[r].epoch] \in Having
  BY EpochOf DEF Types, Having
<1>2. [pc |-> "have", epoch |-> rd[r].epoch] \in Reading /\ [pc |-> "have", epoch |-> rd[r].epoch] # Idle
  BY <1>1 DEF Reading, Idle, Having
<1>3. rd' = [rd EXCEPT ![r] = [pc |-> "have", epoch |-> rd[r].epoch]]
  BY DEF Got
<1> QED
  BY <1>2, <1>3 DEF Types, Moves

LEMMA AtMoves ==
    ASSUME Types, NEW r \in Read, rd[r] \in Asked, NEW p \in {"queued", "open", "late"}, At(r, p),
           UNCHANGED control, old'.overtaken = old.overtaken
    PROVE  Moves(r)
<1> DEFINE q == [rd[r] EXCEPT !.pc = p]
<1>1. q \in Asked /\ q.epoch = rd[r].epoch /\ rd[r] # Idle /\ q # Idle
  BY DEF Asked, Idle
<1>2. rd' = [rd EXCEPT ![r] = q]
  BY DEF At
<1> HIDE DEF q
<1> QED
  BY <1>1, <1>2 DEF Types, Moves, Reading

\* A read that rests on nothing that a lock took back changes no other part of
\* the history.
SameOld == \A f \in {"reads", "overtaken", "cache", "touched", "kept", "grants", "session"} :
               old'[f] = old[f]

RestsOnNone(r) == \E before, late : ~before /\ RestsOn(r, before, late)

LEMMA RestsOnNew ==
    ASSUME Types, NEW r \in Read, RestsOnNone(r), old.basis = {}
    PROVE  old' \in History /\ SameOld /\ old'.basis = {}
<1> DEFINE new == [old EXCEPT !.basis = old'.basis, !.late = old'.late]
<1>1. PICK before, late : ~before /\ RestsOn(r, before, late)
  BY DEF RestsOnNone
<1>2. old'.basis = {} /\ old'.late \in SUBSET Read
  BY <1>1 DEF RestsOn, Relying, Types, History
<1>3. old' = new
  BY <1>1 DEF RestsOn, Types, History
<1>4. new \in History
  BY <1>2 DEF Types, History
<1> QED
  BY <1>2, <1>3, <1>4 DEF Types, History, SameOld

LEMMA InitInv == Init => Inv
<1> SUFFICES ASSUME Init PROVE Inv
  OBVIOUS
<1> USE DEF Init
<1>1. Types
  BY DEF Types, Session, Reading, History, Grants
<1> QED
  BY <1>1 DEF Inv, TimersOfSessions, ReadsOfEpochs, OldIsVoid

\* A step of a read preserves the invariant if what else it changes is typed
\* and nothing old comes to open anything.
Rest ==
    /\ cache' \in [Env -> Nat] /\ grants' \in Grants /\ turn' \in BOOLEAN /\ dialog' \in BOOLEAN
    /\ old' \in History
    /\ OldIsVoid'

LEMMA MovesInv ==
    ASSUME Inv, NEW r \in Read, Moves(r), Rest
    PROVE  Inv'
<1>1. Types'
  BY DEF Inv, Types, Moves, Rest, control
<1>2. TimersOfSessions'
  BY DEF Inv, TimersOfSessions, Moves, control
<1>3. ReadsOfEpochs'
  <2>1. /\ \A p \in Read \ {r} : rd'[p] = rd[p]
        /\ rd'[r] # Idle => rd'[r].epoch = rd[r].epoch
        /\ session' = session /\ rd[r] # Idle
    BY DEF Inv, Types, Moves, control
  <2>2. \A p \in old'.overtaken : p \in old.overtaken /\ (p = r => rd'[r] # Idle)
    BY DEF Moves
  <2>3. \A p \in Read : rd'[p] # Idle => rd'[p].epoch <= session'.epoch
    BY <2>1 DEF Inv, ReadsOfEpochs
  <2>4. old.overtaken \subseteq Read
    BY DEF Inv, Types, History
  <2> QED
    BY <2>1, <2>2, <2>3, <2>4 DEF Inv, ReadsOfEpochs
<1> QED
  BY <1>1, <1>2, <1>3 DEF Inv, Rest

\* Looking finds nothing that is from before a lock.
LEMMA LookFinds ==
    ASSUME Inv, NEW r \in Read, rd[r] \in Asked, Look(r)
    PROVE  /\ cache' \in [Env -> Nat] /\ \A e \in Env : cache[e] = 0 => cache'[e] = 0
           /\ Cached(r) => rd[r].env \notin old.cache
<1> USE DEF Inv, Types
<1>1. rd[r].env \in Env
  BY DEF Asked
<1> QED
  BY <1>1 DEF Look, Cached, OldIsVoid

LEMMA ReadMoves ==
    ASSUME Inv, NEW r \in Read, Advance(r)
    PROVE  Moves(r) /\ Rest
<1> USE BrokerAssumption DEF Inv, SameOld
<1>0. Types /\ rd[r] \in Reading
  BY DEF Types
<1>1. ASSUME Denied(r)
      PROVE  Moves(r) /\ Rest
  <2>1. rd[r] # Idle /\ Answered(r) /\ UNCHANGED control
    BY <1>0, <1>1, StageOf DEF Denied
  <2>2. Moves(r) /\ old' \in History
    BY <1>0, <2>1, AnsweredMoves
  <2> QED
    BY <1>1, <2>2 DEF Denied, Answered, Types, Rest, OldIsVoid, control
<1>2. ASSUME TurnTimeout(r)
      PROVE  Moves(r) /\ Rest
  <2>1. rd[r] # Idle /\ Answered(r) /\ UNCHANGED control
    BY <1>0, <1>2, StageOf DEF TurnTimeout
  <2>2. Moves(r) /\ old' \in History
    BY <1>0, <2>1, AnsweredMoves
  <2> QED
    BY <1>2, <2>2 DEF TurnTimeout, Answered, Types, Rest, OldIsVoid, control
<1>3. ASSUME NotTouched(r)
      PROVE  Moves(r) /\ Rest
  <2>1. rd[r] # Idle /\ Answered(r) /\ UNCHANGED control
    BY <1>0, <1>3, StageOf DEF NotTouched
  <2>2. Moves(r) /\ old' \in History
    BY <1>0, <2>1, AnsweredMoves
  <2>3. turn' = FALSE /\ UNCHANGED <<cache, grants, dialog, session>>
    BY <1>3 DEF NotTouched, Release, control
  <2> QED
    BY <1>3, <2>2, <2>3 DEF NotTouched, Answered, Types, Rest, OldIsVoid, History
<1>4. ASSUME LeaveLate(r)
      PROVE  Moves(r) /\ Rest
  <2>1. rd[r] # Idle /\ Answered(r) /\ UNCHANGED control
    BY <1>0, <1>4, StageOf DEF LeaveLate
  <2>2. Moves(r) /\ old' \in History
    BY <1>0, <2>1, AnsweredMoves
  <2> QED
    BY <1>4, <2>2 DEF LeaveLate, Answered, Types, Rest, OldIsVoid, control, Released
<1>5. ASSUME Serve(r)
      PROVE  Moves(r) /\ Rest
  <2>1. rd[r] # Idle /\ Answered(r) /\ UNCHANGED control
    BY <1>0, <1>5, StageOf DEF Serve
  <2>2. Moves(r) /\ old' \in History
    BY <1>0, <2>1, AnsweredMoves
  <2> QED
    BY <1>5, <2>2 DEF Serve, Answered, Types, Rest, OldIsVoid, control
<1>6. ASSUME Refuse(r)
      PROVE  Moves(r) /\ Rest
  <2>1. rd[r] # Idle /\ Answered(r) /\ UNCHANGED control
    BY <1>0, <1>6, StageOf DEF Refuse
  <2>2. Moves(r) /\ old' \in History
    BY <1>0, <2>1, AnsweredMoves
  <2> QED
    BY <1>6, <2>2 DEF Refuse, Answered, Types, Rest, OldIsVoid, control
<1>7. ASSUME OpenTimeout(r)
      PROVE  Moves(r) /\ Rest
  <2>1. rd[r] \in Asked
    BY <1>0, <1>7, StageOf DEF OpenTimeout
  <2>2. Moves(r)
    BY <1>0, <1>7, <2>1, AtMoves DEF OpenTimeout
  <2> QED
    BY <1>7, <2>2 DEF OpenTimeout, Release, Types, Rest, OldIsVoid, control
<1>8. ASSUME Allowed(r)
      PROVE  Moves(r) /\ Rest
  <2>1. ~old.session
    BY <1>8 DEF Allowed, Unlocked, OldIsVoid
  <2>2. old' \in History /\ SameOld /\ old'.basis = {}
    <3>1. RestsOnNone(r)
      BY <1>8, <2>1 DEF Allowed, Rests, RestsOnNone
    <3> QED
      BY <1>0, <3>1, RestsOnNew DEF OldIsVoid
  <2>3. Moves(r)
    BY <1>0, <1>8, <2>2, StageOf, GotMoves DEF Allowed, Types, History
  <2> QED
    BY <1>8, <2>2, <2>3 DEF Allowed, Types, Rest, OldIsVoid, control, History
<1>9. ASSUME Keep(r)
      PROVE  Moves(r) /\ Rest
  <2>1. rd[r] \in Keeping /\ rd[r] # Idle
    BY <1>0, <1>9, StageOf DEF Keep
  <2>2. /\ old' \in History /\ old'.cache = old.cache \ {rd[r].env}
        /\ \A f \in {"reads", "overtaken", "basis", "grants", "session"} : old'[f] = old[f]
    BY <1>9, <2>1 DEF Keep, Types, History, Keeping
  <2>3. Moves(r)
    BY <1>0, <1>9, <2>1, <2>2, GotMoves DEF Keep, Types, History
  <2>4. cache' \in [Env -> Nat] /\ \A e \in Env \ {rd[r].env} : cache'[e] = cache[e]
    BY <1>9, <2>1 DEF Keep, Types, Keeping
  <2>5. grants' = grants /\ turn' = FALSE /\ dialog' = dialog /\ session' = session
    BY <1>9 DEF Keep, Release, control
  <2>6. OldIsVoid'
    BY <2>2, <2>4, <2>5 DEF OldIsVoid, Types, History
  <2> QED
    BY <2>2, <2>3, <2>4, <2>5, <2>6 DEF Types, Rest
<1>10. ASSUME Touched(r)
      PROVE  Moves(r) /\ Rest
  <2>1. rd[r] \in Asked /\ rd[r] # Idle
    BY <1>0, <1>10, StageOf DEF Touched
  <2>2. old' \in History /\ SameOld /\ old'.basis = {}
    <3>1. RestsOnNone(r)
      BY <1>10 DEF Touched, Rests, RestsOnNone
    <3> QED
      BY <1>0, <3>1, RestsOnNew DEF OldIsVoid
  <2>3. CASE UsesSession(r)
    <3> DEFINE q == [pc |-> "keep", env |-> rd[r].env, forwarded |-> rd[r].forwarded,
                     epoch |-> rd[r].epoch,
                     until |-> IF Unlocked THEN session.expires ELSE now + Hour]
    <3>1. (IF Unlocked THEN session.expires ELSE now + Hour) \in Nat
      BY DEF Types, Session
    <3>2. q \in Keeping /\ q.epoch = rd[r].epoch
      BY <2>1, <3>1 DEF Asked, Keeping
    <3>3. q \in Reading /\ q # Idle
      BY <3>2 DEF Reading, Keeping, Idle
    <3>4. rd' = [rd EXCEPT ![r] = q]
      BY <1>10, <2>3 DEF Touched
    <3> HIDE DEF q
    <3>5. Moves(r)
      BY <1>10, <2>1, <2>2, <3>2, <3>3, <3>4 DEF Touched, Moves, Types, History
    <3> QED
      BY <1>10, <2>2, <2>3, <3>5 DEF Touched, Types, Rest, OldIsVoid, control, History
  <2>4. CASE ~UsesSession(r)
    <3>1. Moves(r)
      BY <1>0, <1>10, <2>1, <2>2, <2>4, GotMoves DEF Touched, Types, History
    <3> QED
      BY <1>10, <2>2, <2>4, <3>1 DEF Touched, Release, Types, Rest, OldIsVoid, control, History
  <2> QED
    BY <2>3, <2>4
<1>11. ASSUME AskGuard(r)
      PROVE  Moves(r) /\ Rest
  <2>1. rd[r] \in Asked /\ rd[r] # Idle /\ Look(r) /\ UNCHANGED control
    BY <1>0, <1>11, StageOf DEF AskGuard
  <2>2. /\ cache' \in [Env -> Nat] /\ \A e \in Env : cache[e] = 0 => cache'[e] = 0
        /\ Cached(r) => rd[r].env \notin old.cache
    BY <2>1, LookFinds
  <2>3. grants' = grants /\ turn' = turn /\ dialog' = dialog /\ session' = session
    BY <1>11 DEF AskGuard, control
  <2>4. CASE Cached(r) /\ Got(r) /\ RestsOnKey(r)
    <3>1. old' \in History /\ SameOld /\ old'.basis = {}
      <4>1. RestsOnNone(r)
        BY <2>2, <2>4 DEF RestsOnKey, RestsOnNone
      <4> QED
        BY <1>0, <4>1, RestsOnNew DEF OldIsVoid
    <3>2. Moves(r)
      BY <1>0, <2>1, <2>4, <3>1, GotMoves DEF Types, History
    <3> QED
      BY <2>2, <2>3, <3>1, <3>2 DEF Types, Rest, OldIsVoid, control, History
  <2>5. CASE Answered(r)
    <3>1. Moves(r) /\ old' \in History
      BY <1>0, <2>1, <2>5, AnsweredMoves
    <3> QED
      BY <2>2, <2>3, <2>5, <3>1 DEF Answered, Types, Rest, OldIsVoid, control, History
  <2>6. CASE At(r, "queued") /\ UNCHANGED old
    <3>1. Moves(r)
      BY <1>0, <2>1, <2>6, AtMoves
    <3> QED
      BY <2>2, <2>3, <2>6, <3>1 DEF Types, Rest, OldIsVoid, control, History
  <2> QED
    BY <1>11, <2>4, <2>5, <2>6 DEF AskGuard
<1>12. ASSUME TakeTurn(r)
      PROVE  Moves(r) /\ Rest
  <2>1. rd[r] \in Asked /\ rd[r] # Idle /\ Look(r) /\ UNCHANGED control
    BY <1>0, <1>12, StageOf DEF TakeTurn
  <2>2. /\ cache' \in [Env -> Nat] /\ \A e \in Env : cache[e] = 0 => cache'[e] = 0
        /\ Cached(r) => rd[r].env \notin old.cache
    BY <2>1, LookFinds
  <2>3. grants' = grants /\ turn' \in BOOLEAN /\ dialog' = dialog /\ session' = session
    BY <1>12 DEF TakeTurn, control, Types
  <2>4. CASE Cached(r)
    <3>1. Got(r) /\ RestsOnKey(r)
      BY <1>12, <2>4 DEF TakeTurn
    <3>2. old' \in History /\ SameOld /\ old'.basis = {}
      <4>1. RestsOnNone(r)
        BY <2>2, <2>4, <3>1 DEF RestsOnKey, RestsOnNone
      <4> QED
        BY <1>0, <4>1, RestsOnNew DEF OldIsVoid
    <3>3. Moves(r)
      BY <1>0, <2>1, <3>1, <3>2, GotMoves DEF Types, History
    <3> QED
      BY <2>2, <2>3, <3>2, <3>3 DEF Types, Rest, OldIsVoid, control, History
  <2>5. CASE ~Cached(r)
    <3>1. At(r, "open") /\ UNCHANGED old
      BY <1>12, <2>5 DEF TakeTurn
    <3>2. Moves(r)
      BY <1>0, <2>1, <3>1, AtMoves
    <3> QED
      BY <2>2, <2>3, <3>1, <3>2 DEF Types, Rest, OldIsVoid, control, History
  <2> QED
    BY <2>4, <2>5
<1>13. ASSUME AskConsent(r)
      PROVE  Moves(r) /\ Rest
  <2>1. rd[r] \in Asked /\ rd[r] # Idle /\ rd[r].env \in Env
    BY <1>0, <1>13, StageOf DEF AskConsent, Asked
  <2>2. cache' = cache /\ grants' = grants /\ turn' = turn /\ UNCHANGED control /\ session' = session
    BY <1>13 DEF AskConsent, control
  <2>3. CASE Granted(r) /\ Got(r) /\ Rests(r, rd[r].env \in old.grants) /\ UNCHANGED dialog
    <3>1. rd[r].env \notin old.grants
      BY <2>1, <2>3 DEF Granted, OldIsVoid, Types, Session, Grants
    <3>2. old' \in History /\ SameOld /\ old'.basis = {}
      <4>1. RestsOnNone(r)
        BY <2>3, <3>1 DEF Rests, RestsOnNone
      <4> QED
        BY <1>0, <4>1, RestsOnNew DEF OldIsVoid
    <3>3. Moves(r)
      BY <1>0, <2>1, <2>2, <2>3, <3>2, GotMoves DEF Types, History
    <3> QED
      BY <2>2, <2>3, <3>2, <3>3 DEF Types, Rest, OldIsVoid, control, History
  <2>4. CASE Answered(r) /\ UNCHANGED dialog
    <3>1. Moves(r) /\ old' \in History
      BY <1>0, <2>1, <2>2, <2>4, AnsweredMoves
    <3> QED
      BY <2>2, <2>4, <3>1 DEF Answered, Types, Rest, OldIsVoid, control, History
  <2> DEFINE q == [pc |-> "asking", env |-> rd[r].env, forwarded |-> rd[r].forwarded,
                   epoch |-> rd[r].epoch, asked |-> session.epoch]
  <2>5. CASE rd' = [rd EXCEPT ![r] = q] /\ dialog' = TRUE /\ UNCHANGED old
    <3>1. q \in Asking /\ q.epoch = rd[r].epoch
      BY <2>1 DEF Asked, Asking, Types, Session
    <3>2. q \in Reading /\ q # Idle
      BY <3>1 DEF Reading, Asking, Idle
    <3> HIDE DEF q
    <3>3. Moves(r)
      BY <2>1, <2>2, <2>5, <3>1, <3>2 DEF Moves, Types
    <3> QED
      BY <2>2, <2>5, <3>3 DEF Types, Rest, OldIsVoid, control
  <2> QED
    BY <1>13, <2>3, <2>4, <2>5 DEF AskConsent
<1>14. ASSUME NEW how \in {"once", "session", "cancel"}, Answer(r, how)
      PROVE  Moves(r) /\ Rest
  <2>1. rd[r] \in Asking /\ rd[r] # Idle /\ rd[r].env \in Env /\ rd[r].asked \in Nat
    BY <1>0, <1>14, StageOf DEF Answer, Asking
  <2>2. cache' = cache /\ dialog' = FALSE /\ turn' = turn /\ UNCHANGED control /\ session' = session
    BY <1>14 DEF Answer, control
  <2>3. CASE Answered(r) /\ UNCHANGED grants
    <3>1. Moves(r) /\ old' \in History
      BY <1>0, <2>1, <2>2, <2>3, AnsweredMoves
    <3> QED
      BY <2>2, <2>3, <3>1 DEF Answered, Types, Rest, OldIsVoid, control, History
  <2>4. CASE Got(r) /\ Rests(r, FALSE) /\ UNCHANGED grants
    <3>1. old' \in History /\ SameOld /\ old'.basis = {}
      <4>1. RestsOnNone(r)
        BY <2>4 DEF Rests, RestsOnNone
      <4> QED
        BY <1>0, <4>1, RestsOnNew DEF OldIsVoid
    <3>2. Moves(r)
      BY <1>0, <2>1, <2>2, <2>4, <3>1, GotMoves DEF Types, History
    <3> QED
      BY <2>2, <2>4, <3>1, <3>2 DEF Types, Rest, OldIsVoid, control, History
  <2>5. CASE /\ Got(r) /\ rd[r].asked = session.epoch
             /\ grants' = [grants EXCEPT ![rd[r].env] = [until |-> now + Hour, epoch |-> rd[r].asked]]
             /\ old' = [old EXCEPT !.grants = @ \ {rd[r].env}, !.basis = @ \ {r},
                                   !.late = @ \ {r}]
    <3>1. old' \in History /\ old'.overtaken = old.overtaken
      BY <2>5 DEF Types, History
    <3>2. Moves(r)
      BY <1>0, <2>1, <2>2, <2>5, <3>1, GotMoves
    <3>3. [until |-> now + Hour, epoch |-> rd[r].asked] \in [until: Nat, epoch: Nat]
      BY <2>1 DEF Types
    <3>4. /\ grants' \in Grants /\ grants'[rd[r].env].epoch = session.epoch
          /\ \A e \in Env \ {rd[r].env} : grants'[e] = grants[e]
      BY <2>1, <2>5, <3>3 DEF Types, Grants
    <3>5. /\ old'.session = old.session /\ old'.cache = old.cache /\ old'.basis = old.basis \ {r}
          /\ old'.grants = old.grants \ {rd[r].env}
      BY <2>5 DEF Types, History
    <3>6. OldIsVoid'
      BY <2>2, <3>4, <3>5 DEF OldIsVoid, Types, Session, History
    <3> QED
      BY <2>2, <3>1, <3>2, <3>4, <3>6 DEF Types, Rest
  <2> QED
    BY <1>14, <2>3, <2>4, <2>5 DEF Answer
<1> QED
  BY <1>1, <1>2, <1>3, <1>4, <1>5, <1>6, <1>7, <1>8, <1>9, <1>10, <1>11, <1>12, <1>13, <1>14 DEF Advance

LEMMA StepInv == Inv /\ [Next]_vars => Inv'
<1> SUFFICES ASSUME Inv, [Next]_vars PROVE Inv'
  OBVIOUS
<1> USE BrokerAssumption DEF Inv
<1>1. ASSUME NEW ttl \in TTLs, Unlock(ttl)
      PROVE  Inv'
  <2>1. ttl \in Nat /\ now + ttl \in Nat /\ session.epoch + 1 \in Nat /\ session.epoch \in Nat
    BY DEF Types, Session
  <2>2. session' = [locked |-> FALSE, expires |-> now + ttl, epoch |-> session.epoch + 1]
    BY <1>1 DEF Unlock
  <2>3. session' \in Session /\ session'.epoch = session.epoch + 1
    BY <2>1, <2>2 DEF Session
  <2>4. PICK kept \in SUBSET timers :
            timers' = kept \union {[epoch |-> session.epoch + 1, at |-> now + ttl]}
    BY <1>1 DEF Unlock
  <2>5. /\ old' \in History /\ old'.session = FALSE
        /\ old'.reads = old.reads /\ old'.overtaken = old.overtaken /\ old'.basis = old.basis
        /\ old'.cache = old.cache /\ old'.grants = old.grants
    BY <1>1 DEF Unlock, Types, History
  <2>6. Types'
    BY <1>1, <2>1, <2>3, <2>4, <2>5 DEF Unlock, Types
  <2>7. TimersOfSessions'
    BY <2>1, <2>2, <2>4 DEF TimersOfSessions, Types
  <2>8. ReadsOfEpochs'
    <3>1. \A r \in Read : rd[r] # Idle => rd[r].epoch \in Nat
      BY EpochOf DEF Types
    <3> QED
      BY <1>1, <2>1, <2>3, <2>5, <3>1 DEF Unlock, ReadsOfEpochs, Types, History
  <2>9. OldIsVoid'
    BY <1>1, <2>1, <2>3, <2>5 DEF Unlock, OldIsVoid, Types, Grants, History
  <2> QED
    BY <2>6, <2>7, <2>8, <2>9
<1>2. ASSUME LockBroker
      PROVE  Inv'
  <2>1. session.epoch + 1 \in Nat /\ session.epoch \in Nat
    BY DEF Types, Session
  <2>2. session' = [locked |-> TRUE, expires |-> 0, epoch |-> session.epoch + 1]
    BY <1>2 DEF LockBroker
  <2>3. session' \in Session /\ session'.epoch = session.epoch + 1 /\ session'.locked
    BY <2>1, <2>2 DEF Session
  <2>4. timers' \in SUBSET timers
    BY <1>2 DEF LockBroker
  <2>5. /\ old' \in History /\ old'.session = TRUE
        /\ old'.reads = old.reads /\ old'.overtaken = old.overtaken \cup InFlight
        /\ old'.basis = old.basis /\ old'.cache = old.cache /\ old'.grants = Env
    BY <1>2 DEF LockBroker, Types, History, InFlight
  <2>6. Types'
    BY <1>2, <2>1, <2>3, <2>4, <2>5 DEF LockBroker, Types
  <2>7. TimersOfSessions'
    BY <2>1, <2>3, <2>4 DEF TimersOfSessions, Types
  <2>8. ReadsOfEpochs'
    <3>1. \A r \in Read : rd[r] # Idle => rd[r].epoch \in Nat
      BY EpochOf DEF Types
    <3>2. \A r \in old.overtaken \cup InFlight :
              r \in Read /\ rd[r] # Idle /\ rd[r].epoch <= session.epoch
      BY <2>1, <3>1 DEF ReadsOfEpochs, Types, History, InFlight
    <3>3. rd' = rd
      BY <1>2 DEF LockBroker
    <3> QED
      BY <2>1, <2>3, <2>5, <3>1, <3>2, <3>3 DEF ReadsOfEpochs
  <2>9. OldIsVoid'
    BY <1>2, <2>1, <2>3, <2>5 DEF LockBroker, OldIsVoid, Types, Grants, History
  <2> QED
    BY <2>6, <2>7, <2>8, <2>9
<1>3. ASSUME ClearGuard
      PROVE  Inv'
  <2>1. /\ old' \in History /\ old'.session = old.session /\ old'.overtaken = old.overtaken
        /\ old'.basis = {} /\ old'.cache = Env /\ old'.grants = old.grants
    BY <1>3 DEF ClearGuard, Types, History, InFlight
  <2>2. Types' /\ TimersOfSessions' /\ ReadsOfEpochs'
    BY <1>3, <2>1 DEF ClearGuard, Types, TimersOfSessions, ReadsOfEpochs
  <2>3. OldIsVoid'
    BY <1>3, <2>1 DEF ClearGuard, OldIsVoid
  <2> QED
    BY <2>2, <2>3
<1>4. ASSUME NEW t \in timers, Fire(t)
      PROVE  Inv'
  <2>1. /\ session' \in Session /\ session'.epoch = session.epoch
        /\ session' = session \/ session'.locked
    BY <1>4 DEF Fire, Types, Session
  <2>2. timers' \in SUBSET timers /\ UNCHANGED <<now, locking, cache, grants, turn, dialog, rd, old>>
    BY <1>4 DEF Fire
  <2>3. Types' /\ TimersOfSessions' /\ ReadsOfEpochs'
    BY <2>1, <2>2 DEF Types, TimersOfSessions, ReadsOfEpochs
  <2>4. OldIsVoid'
    BY <2>1, <2>2 DEF OldIsVoid
  <2> QED
    BY <2>3, <2>4
<1>5. ASSUME Tick
      PROVE  Inv'
  BY <1>5 DEF Tick, Types, TimersOfSessions, ReadsOfEpochs, OldIsVoid
<1>6. ASSUME NEW r \in Read, NEW e \in Env, NEW forwarded \in BOOLEAN, Begin(r, e, forwarded)
      PROVE  Inv'
  <2> DEFINE q == [pc |-> "check", env |-> e, forwarded |-> forwarded, epoch |-> session.epoch]
  <2>1. q \in Asked /\ q.epoch = session.epoch /\ session.epoch \in Nat
    BY DEF Asked, Types, Session
  <2>2. q \in Reading
    BY <2>1 DEF Reading
  <2>3. rd' = [rd EXCEPT ![r] = q] /\ rd[r] = Idle
    BY <1>6 DEF Begin
  <2> HIDE DEF q
  <2>4. UNCHANGED <<now, session, timers, locking, cache, grants, turn, dialog, old>>
    BY <1>6 DEF Begin, control
  <2>5. Types' /\ TimersOfSessions' /\ OldIsVoid'
    BY <2>2, <2>3, <2>4 DEF Types, TimersOfSessions, OldIsVoid
  <2>6. ReadsOfEpochs'
    BY <2>1, <2>3, <2>4 DEF ReadsOfEpochs, Types, History
  <2> QED
    BY <2>5, <2>6
<1>7. ASSUME NEW r \in Read, Advance(r)
      PROVE  Inv'
  BY <1>7, ReadMoves, MovesInv
<1>8. CASE UNCHANGED vars
  BY <1>8 DEF vars, Types, TimersOfSessions, ReadsOfEpochs, OldIsVoid
<1> QED
  BY <1>1, <1>2, <1>3, <1>4, <1>5, <1>6, <1>7, <1>8 DEF Next

LEMMA InvHolds == Spec => []Inv
  BY InitInv, StepInv, PTL DEF Spec

\* An unlocked session ends by a lock or at its own time, whichever timers of
\* earlier sessions still fire (session.expire).
THEOREM SessionsLast == Spec => SessionLastsProperty
<1>1. ASSUME Inv, [Next]_vars PROVE [SessionLasts]_vars
  <2> USE <1>1 DEF Inv, Types
  <2>1. session' = session \/ session'.epoch # session.epoch \/ \E t \in timers : Fire(t)
    <3>1. ASSUME NEW ttl \in TTLs, Unlock(ttl) PROVE session'.epoch # session.epoch
      BY <3>1 DEF Unlock, Session
    <3>2. LockBroker => session'.epoch # session.epoch
      BY DEF LockBroker, Session
    <3>3. ASSUME NEW r \in Read, Advance(r) PROVE session' = session
      BY <3>3, ReadMoves DEF Moves, control
    <3> QED
      BY <3>1, <3>2, <3>3 DEF Next, ClearGuard, Tick, Begin, vars, control
  <2>2. ASSUME NEW t \in timers, Fire(t) PROVE SessionLasts
    BY <2>2 DEF Fire, Expires, TimersOfSessions, SessionLasts, Session
  <2> QED
    BY <2>1, <2>2 DEF SessionLasts
<1> QED
  BY <1>1, InvHolds, PTL DEF Spec, SessionLastsProperty

-----------------------------------------------------------------------------
(* Nothing that reads wait for is lost.                                    *)

AtKey == {r \in Read : rd[r].pc \in {"open", "keep"}}

AtDialog == {r \in Read : rd[r].pc = "asking"}

InLine == {r \in Read : rd[r].pc \in {"queued", "open", "keep", "late"}}

AtMostOne(set) == \A r, s \in set : r = s

\* The turn is taken if someone is at the key, and only then; so is the dialog.
TurnKept == AtMostOne(AtKey) /\ (turn <=> AtKey # {})

DialogKept == AtMostOne(AtDialog) /\ (dialog <=> AtDialog # {})

\* What waits is the questions of the reads in line, each asked once, and no
\* more of them than may wait.
QueueKept ==
    /\ waiting = {Ask(r) : r \in InLine}
    /\ \A r, s \in InLine : Ask(r) = Ask(s) => r = s
    /\ IsFiniteSet(waiting) /\ Cardinality(waiting) <= MaxWaiting

WaitsKept == TurnKept /\ DialogKept /\ QueueKept

AtKeyStages == {"open", "keep"}

InLineStages == {"queued", "open", "keep", "late"}

\* r goes on to q.
Goes(r, q) == rd' = [rd EXCEPT ![r] = q]

LEMMA GoesTo ==
    ASSUME Types, NEW r \in Read, NEW q, Goes(r, q)
    PROVE  /\ rd'[r] = q /\ \A s \in Read \ {r} : rd'[s] = rd[s] /\ Ask(s)' = Ask(s)
           /\ AtKey' = IF q.pc \in AtKeyStages THEN AtKey \cup {r} ELSE AtKey \ {r}
           /\ AtDialog' = IF q.pc = "asking" THEN AtDialog \cup {r} ELSE AtDialog \ {r}
           /\ InLine' = IF q.pc \in InLineStages THEN InLine \cup {r} ELSE InLine \ {r}
<1>1. rd'[r] = q /\ \A s \in Read \ {r} : rd'[s] = rd[s]
  BY DEF Types, Goes
<1>2. \A s \in Read \ {r} : Ask(s)' = Ask(s)
  BY <1>1 DEF Ask
<1> QED
  BY <1>1, <1>2 DEF AtKey, AtDialog, InLine, AtKeyStages, InLineStages

\* Who comes to the key takes the turn, and who leaves it gives it back.
TurnGoes(r, q) ==
    \/ r \notin AtKey /\ q.pc \notin AtKeyStages /\ turn' = turn
    \/ r \notin AtKey /\ q.pc \in AtKeyStages /\ ~turn /\ turn' = TRUE
    \/ r \in AtKey /\ q.pc \in AtKeyStages /\ turn' = turn
    \/ r \in AtKey /\ q.pc \notin AtKeyStages /\ turn' = FALSE

LEMMA TurnStep ==
    ASSUME Types, TurnKept, NEW r \in Read, NEW q, Goes(r, q), TurnGoes(r, q)
    PROVE  TurnKept'
<1>1. AtKey' = IF q.pc \in AtKeyStages THEN AtKey \cup {r} ELSE AtKey \ {r}
  BY GoesTo
<1> QED
  BY <1>1 DEF TurnKept, TurnGoes, AtMostOne, Types

DialogGoes(r, q) ==
    \/ r \notin AtDialog /\ q.pc # "asking" /\ dialog' = dialog
    \/ r \notin AtDialog /\ q.pc = "asking" /\ ~dialog /\ dialog' = TRUE
    \/ r \in AtDialog /\ q.pc # "asking" /\ dialog' = FALSE

LEMMA DialogStep ==
    ASSUME Types, DialogKept, NEW r \in Read, NEW q, Goes(r, q), DialogGoes(r, q)
    PROVE  DialogKept'
<1>1. AtDialog' = IF q.pc = "asking" THEN AtDialog \cup {r} ELSE AtDialog \ {r}
  BY GoesTo
<1> QED
  BY <1>1 DEF DialogKept, DialogGoes, AtMostOne, Types

\* Who joins the line has a question that nobody there has, and keeps it.
QueueGoes(r, q) ==
    \/ r \notin InLine /\ q.pc \notin InLineStages /\ waiting' = waiting
    \/ /\ r \notin InLine /\ q.pc \in InLineStages /\ q.env = rd[r].env /\ q.forwarded = rd[r].forwarded
       /\ Ask(r) \notin waiting /\ Cardinality(waiting) < MaxWaiting
       /\ waiting' = waiting \cup {Ask(r)}
    \/ /\ r \in InLine /\ q.pc \in InLineStages /\ q.env = rd[r].env /\ q.forwarded = rd[r].forwarded
       /\ waiting' = waiting
    \/ r \in InLine /\ q.pc \notin InLineStages /\ waiting' = waiting \ {Ask(r)}

LEMMA QueueStep ==
    ASSUME Types, QueueKept, NEW r \in Read, NEW q, Goes(r, q), QueueGoes(r, q)
    PROVE  QueueKept'
<1>1. /\ InLine' = IF q.pc \in InLineStages THEN InLine \cup {r} ELSE InLine \ {r}
      /\ \A s \in Read \ {r} : Ask(s)' = Ask(s)
      /\ rd'[r] = q
  BY GoesTo
<1>2. InLine \subseteq Read
  BY DEF InLine
<1>3. q.env = rd[r].env /\ q.forwarded = rd[r].forwarded => Ask(r)' = Ask(r)
  BY <1>1 DEF Ask
<1>4. waiting' = {Ask(s)' : s \in InLine'} /\ \A s, t \in InLine' : Ask(s)' = Ask(t)' => s = t
  <2>1. CASE r \notin InLine /\ q.pc \notin InLineStages /\ waiting' = waiting
    BY <1>1, <1>2, <2>1 DEF QueueKept
  <2>2. CASE /\ r \notin InLine /\ q.pc \in InLineStages /\ Ask(r)' = Ask(r)
             /\ Ask(r) \notin waiting /\ waiting' = waiting \cup {Ask(r)}
    BY <1>1, <1>2, <2>2 DEF QueueKept
  <2>3. CASE r \in InLine /\ q.pc \in InLineStages /\ Ask(r)' = Ask(r) /\ waiting' = waiting
    BY <1>1, <1>2, <2>3 DEF QueueKept
  <2>4. CASE r \in InLine /\ q.pc \notin InLineStages /\ waiting' = waiting \ {Ask(r)}
    BY <1>1, <1>2, <2>4 DEF QueueKept
  <2> QED
    BY <1>3, <2>1, <2>2, <2>3, <2>4 DEF QueueGoes
<1>5. IsFiniteSet(waiting') /\ Cardinality(waiting') <= MaxWaiting
  <2>1. /\ IsFiniteSet(waiting) /\ Cardinality(waiting) \in Nat
        /\ Cardinality(waiting) <= MaxWaiting /\ MaxWaiting \in Nat
    BY FS_CardinalityType, BrokerAssumption DEF QueueKept
  <2>2. CASE waiting' = waiting
    BY <2>1, <2>2
  <2>3. CASE waiting' = waiting \cup {Ask(r)} /\ Ask(r) \notin waiting /\ Cardinality(waiting) < MaxWaiting
    <3>1. IsFiniteSet(waiting') /\ Cardinality(waiting') = Cardinality(waiting) + 1
      BY <2>1, <2>3, FS_AddElement
    <3> QED
      BY <2>1, <2>3, <3>1
  <2>4. CASE waiting' = waiting \ {Ask(r)}
    <3>1. IsFiniteSet(waiting') /\ Cardinality(waiting') <= Cardinality(waiting)
      BY <2>1, <2>4, FS_Subset
    <3>2. Cardinality(waiting') \in Nat
      BY <3>1, FS_CardinalityType
    <3> QED
      BY <2>1, <3>1, <3>2
  <2> QED
    BY <2>2, <2>3, <2>4 DEF QueueGoes
<1> QED
  BY <1>4, <1>5 DEF QueueKept

\* A step of a read keeps turn, dialog and queue.
WaitsGo(r, q) == Goes(r, q) /\ TurnGoes(r, q) /\ DialogGoes(r, q) /\ QueueGoes(r, q)

LEMMA WaitsStep ==
    ASSUME Types, WaitsKept, NEW r \in Read, NEW q, WaitsGo(r, q)
    PROVE  WaitsKept'
  BY TurnStep, DialogStep, QueueStep DEF WaitsKept, WaitsGo

LEMMA ReadWaits ==
    ASSUME Types, NEW r \in Read, Advance(r)
    PROVE  \E q : WaitsGo(r, q)
<1> DEFINE have == [pc |-> "have", epoch |-> rd[r].epoch]
<1> USE DEF AtKeyStages, InLineStages, AtKey, AtDialog, InLine, WaitsGo, TurnGoes, DialogGoes, QueueGoes, Goes
<1>0. Idle.pc = "idle" /\ have.pc = "have"
  BY DEF Idle
<1>1. ASSUME NEW p \in STRING, rd[r] \in Asked
      PROVE  /\ [rd[r] EXCEPT !.pc = p].pc = p
             /\ [rd[r] EXCEPT !.pc = p].env = rd[r].env
             /\ [rd[r] EXCEPT !.pc = p].forwarded = rd[r].forwarded
  BY <1>1 DEF Asked
<1>2. ASSUME Denied(r)
      PROVE  \E q : WaitsGo(r, q)
  <2>1. WaitsGo(r, Idle)
    BY <1>0, <1>2 DEF Denied, Answered
  <2> QED
    BY <2>1
<1>3. ASSUME TurnTimeout(r)
      PROVE  \E q : WaitsGo(r, q)
  <2>1. WaitsGo(r, Idle)
    BY <1>0, <1>3 DEF TurnTimeout, Answered
  <2> QED
    BY <2>1
<1>4. ASSUME NotTouched(r)
      PROVE  \E q : WaitsGo(r, q)
  <2>1. WaitsGo(r, Idle)
    BY <1>0, <1>4 DEF NotTouched, Answered, Release
  <2> QED
    BY <2>1
<1>5. ASSUME LeaveLate(r)
      PROVE  \E q : WaitsGo(r, q)
  <2>1. WaitsGo(r, Idle)
    BY <1>0, <1>5 DEF LeaveLate, Answered, Released
  <2> QED
    BY <2>1
<1>6. ASSUME Serve(r)
      PROVE  \E q : WaitsGo(r, q)
  <2>1. WaitsGo(r, Idle)
    BY <1>0, <1>6 DEF Serve, Answered
  <2> QED
    BY <2>1
<1>7. ASSUME Refuse(r)
      PROVE  \E q : WaitsGo(r, q)
  <2>1. WaitsGo(r, Idle)
    BY <1>0, <1>7 DEF Refuse, Answered
  <2> QED
    BY <2>1
<1>8. ASSUME Allowed(r)
      PROVE  \E q : WaitsGo(r, q)
  <2>1. WaitsGo(r, have)
    BY <1>0, <1>8 DEF Allowed, Got
  <2> QED
    BY <2>1
<1>9. ASSUME Keep(r)
      PROVE  \E q : WaitsGo(r, q)
  <2>1. WaitsGo(r, have)
    BY <1>0, <1>9 DEF Keep, Got, Release
  <2> QED
    BY <2>1
<1>10. ASSUME OpenTimeout(r)
      PROVE  \E q : WaitsGo(r, q)
  <2> DEFINE q == [rd[r] EXCEPT !.pc = "late"]
  <2>1. rd[r] \in Asked
    BY <1>10, StageOf DEF OpenTimeout, Types
  <2>2. q.pc = "late" /\ q.env = rd[r].env /\ q.forwarded = rd[r].forwarded
    BY <1>1, <2>1
  <2>3. rd' = [rd EXCEPT ![r] = q] /\ turn' = FALSE /\ UNCHANGED <<dialog, waiting>> /\ rd[r].pc = "open"
    BY <1>10 DEF OpenTimeout, Release, At
  <2> HIDE DEF q
  <2>4. WaitsGo(r, q)
    BY <2>2, <2>3
  <2> QED
    BY <2>4
<1>11. ASSUME Touched(r)
      PROVE  \E q : WaitsGo(r, q)
  <2>1. CASE UsesSession(r)
    <3> DEFINE q == [pc |-> "keep", env |-> rd[r].env, forwarded |-> rd[r].forwarded,
                     epoch |-> rd[r].epoch,
                     until |-> IF Unlocked THEN session.expires ELSE now + Hour]
    <3>1. q.pc = "keep" /\ q.env = rd[r].env /\ q.forwarded = rd[r].forwarded
      OBVIOUS
    <3>2. rd' = [rd EXCEPT ![r] = q] /\ UNCHANGED <<turn, dialog, waiting>> /\ rd[r].pc = "open"
      BY <1>11, <2>1 DEF Touched
    <3> HIDE DEF q
    <3>3. WaitsGo(r, q)
      BY <3>1, <3>2
    <3> QED
      BY <3>3
  <2>2. CASE ~UsesSession(r)
    <3>1. WaitsGo(r, have)
      BY <1>0, <1>11, <2>2 DEF Touched, Got, Release
    <3> QED
      BY <3>1
  <2> QED
    BY <2>1, <2>2
<1>12. ASSUME AskGuard(r)
      PROVE  \E q : WaitsGo(r, q)
  <2>1. rd[r].pc = "check" /\ UNCHANGED <<turn, dialog>> /\ rd[r] \in Asked
    BY <1>12, StageOf DEF AskGuard, Types
  <2>2. CASE Got(r) /\ UNCHANGED waiting
    <3>1. WaitsGo(r, have)
      BY <1>0, <2>1, <2>2 DEF Got
    <3> QED
      BY <3>1
  <2>3. CASE Answered(r) /\ UNCHANGED waiting
    <3>1. WaitsGo(r, Idle)
      BY <1>0, <2>1, <2>3 DEF Answered
    <3> QED
      BY <3>1
  <2>4. CASE /\ Ask(r) \notin waiting /\ Cardinality(waiting) < MaxWaiting
             /\ waiting' = waiting \cup {Ask(r)} /\ At(r, "queued")
    <3> DEFINE q == [rd[r] EXCEPT !.pc = "queued"]
    <3>1. q.pc = "queued" /\ q.env = rd[r].env /\ q.forwarded = rd[r].forwarded
      BY <1>1, <2>1
    <3>2. rd' = [rd EXCEPT ![r] = q]
      BY <2>4 DEF At
    <3> HIDE DEF q
    <3>3. WaitsGo(r, q)
      BY <2>1, <2>4, <3>1, <3>2
    <3> QED
      BY <3>3
  <2> QED
    BY <1>12, <2>2, <2>3, <2>4 DEF AskGuard
<1>13. ASSUME TakeTurn(r)
      PROVE  \E q : WaitsGo(r, q)
  <2>1. rd[r].pc = "queued" /\ ~turn /\ UNCHANGED dialog /\ rd[r] \in Asked
    BY <1>13, StageOf DEF TakeTurn, Types
  <2>2. CASE Cached(r)
    <3>1. WaitsGo(r, have)
      BY <1>0, <1>13, <2>1, <2>2 DEF TakeTurn, Got
    <3> QED
      BY <3>1
  <2>3. CASE ~Cached(r)
    <3> DEFINE q == [rd[r] EXCEPT !.pc = "open"]
    <3>1. q.pc = "open" /\ q.env = rd[r].env /\ q.forwarded = rd[r].forwarded
      BY <1>1, <2>1
    <3>2. rd' = [rd EXCEPT ![r] = q] /\ turn' = TRUE /\ UNCHANGED waiting
      BY <1>13, <2>3 DEF TakeTurn, At
    <3> HIDE DEF q
    <3>3. WaitsGo(r, q)
      BY <2>1, <3>1, <3>2
    <3> QED
      BY <3>3
  <2> QED
    BY <2>2, <2>3
<1>14. ASSUME AskConsent(r)
      PROVE  \E q : WaitsGo(r, q)
  <2>1. rd[r].pc = "check" /\ UNCHANGED <<turn, waiting>>
    BY <1>14 DEF AskConsent
  <2>2. CASE Got(r) /\ UNCHANGED dialog
    <3>1. WaitsGo(r, have)
      BY <1>0, <2>1, <2>2 DEF Got
    <3> QED
      BY <3>1
  <2>3. CASE Answered(r) /\ UNCHANGED dialog
    <3>1. WaitsGo(r, Idle)
      BY <1>0, <2>1, <2>3 DEF Answered
    <3> QED
      BY <3>1
  <2> DEFINE q == [pc |-> "asking", env |-> rd[r].env, forwarded |-> rd[r].forwarded,
                   epoch |-> rd[r].epoch, asked |-> session.epoch]
  <2>4. CASE ~dialog /\ dialog' = TRUE /\ rd' = [rd EXCEPT ![r] = q]
    <3>1. q.pc = "asking"
      OBVIOUS
    <3> HIDE DEF q
    <3>2. WaitsGo(r, q)
      BY <2>1, <2>4, <3>1
    <3> QED
      BY <3>2
  <2> QED
    BY <1>14, <2>2, <2>3, <2>4 DEF AskConsent
<1>15. ASSUME NEW how \in {"once", "session", "cancel"}, Answer(r, how)
      PROVE  \E q : WaitsGo(r, q)
  <2>1. rd[r].pc = "asking" /\ UNCHANGED <<turn, waiting>> /\ dialog' = FALSE
    BY <1>15 DEF Answer
  <2>2. CASE Answered(r)
    <3>1. WaitsGo(r, Idle)
      BY <1>0, <2>1, <2>2 DEF Answered
    <3> QED
      BY <3>1
  <2>3. CASE Got(r)
    <3>1. WaitsGo(r, have)
      BY <1>0, <2>1, <2>3 DEF Got
    <3> QED
      BY <3>1
  <2> QED
    BY <1>15, <2>2, <2>3 DEF Answer
<1> QED
  BY <1>2, <1>3, <1>4, <1>5, <1>6, <1>7, <1>8, <1>9, <1>10, <1>11, <1>12, <1>13, <1>14, <1>15 DEF Advance

\* The turn at the key and the dialog are taken exactly while one read has
\* them, and the queue holds exactly the questions that wait: whoever times
\* out, is refused or served gives back what it took, once.
THEOREM WaitsAreKept == Spec => []WaitsKept
<1>1. Init => WaitsKept
  <2> SUFFICES ASSUME Init PROVE WaitsKept
    OBVIOUS
  <2>1. AtKey = {} /\ AtDialog = {} /\ InLine = {}
    BY DEF Init, Idle, AtKey, AtDialog, InLine
  <2> QED
    BY <2>1, FS_EmptySet, BrokerAssumption
    DEF Init, WaitsKept, TurnKept, DialogKept, QueueKept, AtMostOne
<1>2. Inv /\ WaitsKept /\ [Next]_vars => WaitsKept'
  <2> SUFFICES ASSUME Inv, WaitsKept, [Next]_vars PROVE WaitsKept'
    OBVIOUS
  <2>1. ASSUME UNCHANGED <<rd, turn, dialog, waiting>> PROVE WaitsKept'
    <3>1. AtKey' = AtKey /\ AtDialog' = AtDialog /\ InLine' = InLine
      BY <2>1 DEF AtKey, AtDialog, InLine
    <3>2. \A r \in Read : Ask(r)' = Ask(r)
      BY <2>1 DEF Ask
    <3>3. InLine \subseteq Read
      BY DEF InLine
    <3> QED
      BY <2>1, <3>1, <3>2, <3>3 DEF WaitsKept, TurnKept, DialogKept, QueueKept
  <2>2. ASSUME NEW r \in Read, Advance(r) PROVE WaitsKept'
    BY <2>2, ReadWaits, WaitsStep DEF Inv
  <2>3. ASSUME NEW r \in Read, NEW e \in Env, NEW forwarded \in BOOLEAN, Begin(r, e, forwarded)
        PROVE  WaitsKept'
    <3> DEFINE q == [pc |-> "check", env |-> e, forwarded |-> forwarded, epoch |-> session.epoch]
    <3>1. q.pc = "check" /\ rd[r].pc = "idle"
      BY <2>3 DEF Begin, Idle
    <3>2. rd' = [rd EXCEPT ![r] = q] /\ UNCHANGED <<turn, dialog, waiting>>
      BY <2>3 DEF Begin
    <3> HIDE DEF q
    <3>3. WaitsGo(r, q)
      BY <3>1, <3>2 DEF WaitsGo, Goes, TurnGoes, DialogGoes, QueueGoes, AtKeyStages, InLineStages,
                        AtKey, AtDialog, InLine
    <3> QED
      BY <3>3, WaitsStep DEF Inv
  <2> QED
    BY <2>1, <2>2, <2>3 DEF Next, Unlock, LockBroker, ClearGuard, Fire, Tick, vars
<1> QED
  BY <1>1, <1>2, InvHolds, PTL DEF Spec

\* What a lock misses: the touches whose key was not kept yet are those of
\* reads that still have it in hand, and with one turn that is one read, so the
\* key of at most one environment comes back.
MissedOnce ==
    /\ \A r \in old.touched : rd[r].pc = "keep"
    /\ old.touched = {} \/ old.kept = {}
    /\ AtMostOne(old.kept)

LEMMA MissedStep == Inv /\ WaitsKept /\ MissedOnce /\ [Next]_vars => MissedOnce'
<1> SUFFICES ASSUME Inv, WaitsKept, MissedOnce, [Next]_vars PROVE MissedOnce'
  OBVIOUS
<1>0. old.touched \subseteq AtKey /\ AtMostOne(AtKey) /\ Types /\ old \in History /\ old.basis = {}
  BY DEF Inv, Types, History, MissedOnce, AtKey, WaitsKept, TurnKept, OldIsVoid
<1>1. ASSUME UNCHANGED rd, old'.touched = old.touched, old'.kept = old.kept PROVE MissedOnce'
  BY <1>1 DEF MissedOnce, AtMostOne
<1>2. ASSUME ClearGuard PROVE MissedOnce'
  <2>1. old'.touched = {r \in Read : rd[r].pc = "keep"} /\ old'.kept = {} /\ rd' = rd
    BY <1>0, <1>2 DEF ClearGuard, History
  <2> QED
    BY <2>1 DEF MissedOnce, AtMostOne
<1>3. ASSUME NEW r \in Read, Keep(r) PROVE MissedOnce'
  <2>1. /\ old'.touched = old.touched \ {r}
        /\ old'.kept = IF r \in old.touched THEN old.kept \cup {rd[r].env} ELSE old.kept \ {rd[r].env}
    BY <1>0, <1>3 DEF Keep, History
  <2>2. r \in AtKey
    BY <1>3 DEF Keep, AtKey
  <2>3. old'.touched = {}
    BY <1>0, <2>1, <2>2 DEF AtMostOne
  <2>4. AtMostOne(old'.kept)
    BY <2>1 DEF MissedOnce, AtMostOne
  <2> QED
    BY <2>3, <2>4 DEF MissedOnce, AtMostOne
<1>4. ASSUME NEW r \in Read, Advance(r), rd[r].pc # "keep" PROVE MissedOnce'
  <2>1. \A s \in Read \ {r} : rd'[s] = rd[s]
    BY <1>0, <1>4, ReadMoves DEF Moves, Types
  <2>2. old'.touched = old.touched /\ old'.kept = old.kept
    BY <1>0, <1>4 DEF Advance, Denied, AskGuard, TakeTurn, TurnTimeout, Touched, NotTouched, OpenTimeout,
                      LeaveLate, Keep, Allowed, AskConsent, Answer, Serve, Refuse, Answered, Rests,
                      RestsOnKey, RestsOn, History
  <2> QED
    BY <1>0, <1>4, <2>1, <2>2 DEF MissedOnce, AtMostOne, History
<1>5. ASSUME NEW r \in Read, Advance(r), rd[r].pc = "keep" PROVE Keep(r)
  BY <1>5 DEF Advance, Denied, AskGuard, TakeTurn, TurnTimeout, Touched, NotTouched, OpenTimeout,
              LeaveLate, Allowed, AskConsent, Answer, Serve, Refuse
<1>6. ASSUME NEW r \in Read, NEW e \in Env, NEW forwarded \in BOOLEAN, Begin(r, e, forwarded)
      PROVE  MissedOnce'
  <2>1. rd[r].pc # "keep" /\ old' = old /\ \A s \in Read \ {r} : rd'[s] = rd[s]
    BY <1>0, <1>6 DEF Begin, Types, Idle
  <2> QED
    BY <1>0, <2>1 DEF MissedOnce, AtMostOne, History
<1>7. ASSUME NEW ttl \in TTLs, Unlock(ttl) PROVE MissedOnce'
  BY <1>0, <1>1, <1>7 DEF Unlock, History
<1>8. ASSUME LockBroker PROVE MissedOnce'
  BY <1>0, <1>1, <1>8 DEF LockBroker, History
<1> QED
  BY <1>1, <1>2, <1>3, <1>4, <1>5, <1>6, <1>7, <1>8 DEF Next, Fire, Tick, vars

\* A lock refuses every read that it overtakes, and no read that begins after
\* it rests on an answer, on an unlock or on a key that was kept before it
\* (session.Lock, guarder.clear and the generation that a consent is bound to).
\* A touch whose key was not kept yet when the guard was cleared opens the key
\* of one environment again, at most: whoever keeps a key has the only turn.
THEOREM LockLeavesOneTouch == Spec => LockRevokesProperty
<1>1. Init => MissedOnce
  BY DEF Init, MissedOnce, AtMostOne
<1>2. ASSUME Inv, MissedOnce PROVE LockRevokes
  <2>1. ASSUME NEW r \in Read, Serve(r) PROVE r \notin old.overtaken /\ r \notin old.basis
    BY <1>2, <2>1 DEF Inv, OldIsVoid, ReadsOfEpochs, Serve, MayServe, Types, Session
  <2>2. \A e, f \in old.kept : e = f
    BY <1>2 DEF MissedOnce, AtMostOne
  <2> QED
    BY <2>1, <2>2 DEF LockRevokes
<1> QED
  BY <1>1, <1>2, MissedStep, InvHolds, WaitsAreKept, PTL DEF Spec, LockRevokesProperty

-----------------------------------------------------------------------------
(* The sync of the vault's content.                                        *)

Held == Inventory \cup {None}

Keyring == [local : Values \cup {None, Lost}, base : Held, pending : Held, version : Nat,
            conflict : BOOLEAN]

-----------------------------------------------------------------------------
(* What the operators on inventories do. *)

\* What collectInventory starts from, and what it compares the keyring with.
Sources(k, remote) == Merged(Merged(Merged(Empty, k.base), k.pending), remote)
Previous(k) == IF k.pending # None THEN k.pending ELSE k.base
WithLocal(k, remote) ==
    IF k.local \in Values THEN [Sources(k, remote) EXCEPT !.value = k.local]
    ELSE Sources(k, remote)

Noted(k, remote) ==
    IF Previous(k) = None \/ k.local = Lost THEN WithLocal(k, remote)
    ELSE IF k.local = None /\ Previous(k).value # None
    THEN Recorded(WithLocal(k, remote), Previous(k), Previous(k).value, TRUE)
    ELSE IF k.local \in Values /\ Previous(k).value # k.local
    THEN Recorded(WithLocal(k, remote), Previous(k), k.local, FALSE)
    ELSE WithLocal(k, remote)

\* The versions of alias records only climb.
UpTo(had, new) == \A v \in Values : had.aliases[v].version <= new.aliases[v].version

LEMMA EmptyIsInventory == Empty \in Inventory /\ NoAliases \in Aliases
BY DEF Empty, NoAliases, Inventory, Aliases

LEMMA CollectedParts ==
    ASSUME NEW k, NEW remote
    PROVE  Collected(k, remote) = WithoutRemoved(Noted(k, remote))
BY DEF Collected, Noted, WithLocal, Sources, Previous

\* Merging loses no removal and no version, and invents none.
LEMMA MergedGives ==
    ASSUME NEW inv \in Inventory, NEW source \in Held
    PROVE  /\ Merged(inv, source) \in Inventory
           /\ Merged(inv, source).value
                = IF source # None /\ source.value # None THEN source.value ELSE inv.value
           /\ \A v \in Values :
                /\ Merged(inv, source).aliases[v].removed =>
                     inv.aliases[v].removed \/ (source # None /\ source.aliases[v].removed)
                /\ inv.aliases[v].version <= Merged(inv, source).aliases[v].version
                /\ source # None =>
                     source.aliases[v].version <= Merged(inv, source).aliases[v].version
                /\ Merged(inv, source).aliases[v].version = inv.aliases[v].version
                   \/ (source # None
                         /\ Merged(inv, source).aliases[v].version = source.aliases[v].version)
<1>1. CASE source = None
  BY <1>1 DEF Merged, Inventory, Aliases
<1>2. CASE source # None
  <2> DEFINE al == [v \in Values |-> NewerAlias(inv.aliases[v], source.aliases[v])]
  <2>1. /\ inv.aliases \in Aliases /\ source.aliases \in Aliases
        /\ inv.value \in Values \cup {None} /\ source.value \in Values \cup {None}
    BY <1>2 DEF Held, Inventory
  <2>2. \A v \in Values :
          /\ inv.aliases[v] \in [version : Nat, removed : BOOLEAN]
          /\ source.aliases[v] \in [version : Nat, removed : BOOLEAN]
    BY <2>1 DEF Aliases
  <2>3. \A v \in Values : al[v] = inv.aliases[v] \/ al[v] = source.aliases[v]
    BY DEF NewerAlias
  <2>4. al \in Aliases
    BY <2>2, <2>3 DEF Aliases
  <2>5. Merged(inv, source) =
          [value |-> IF source.value # None THEN source.value ELSE inv.value, aliases |-> al]
    BY <1>2 DEF Merged
  <2>6. \A v \in Values :
          /\ inv.aliases[v].version <= al[v].version
          /\ source.aliases[v].version <= al[v].version
    BY <2>2 DEF NewerAlias
  <2> HIDE DEF al
  <2> QED BY <1>2, <2>1, <2>3, <2>4, <2>5, <2>6 DEF Inventory
<1> QED BY <1>1, <1>2

LEMMA RecordedGives ==
    ASSUME NEW inv \in Inventory, NEW previous \in Inventory, NEW v \in Values,
           NEW removed \in BOOLEAN
    PROVE  /\ Recorded(inv, previous, v, removed) \in Inventory
           /\ Recorded(inv, previous, v, removed).value = inv.value
           /\ \A w \in Values :
                /\ Recorded(inv, previous, v, removed).aliases[w].removed =>
                     inv.aliases[w].removed \/ (w = v /\ removed)
                /\ inv.aliases[w].version
                     <= Recorded(inv, previous, v, removed).aliases[w].version
<1> DEFINE event == [version |-> previous.aliases[v].version + 1, removed |-> removed]
           al == [inv.aliases EXCEPT ![v] = NewerAlias(inv.aliases[v], event)]
<1>1. \A w \in Values :
        /\ inv.aliases[w] \in [version : Nat, removed : BOOLEAN]
        /\ previous.aliases[w] \in [version : Nat, removed : BOOLEAN]
  BY DEF Inventory, Aliases
<1>2. event \in [version : Nat, removed : BOOLEAN] /\ event.removed = removed
  BY <1>1
<1> HIDE DEF event
<1>3. /\ NewerAlias(inv.aliases[v], event) \in [version : Nat, removed : BOOLEAN]
      /\ NewerAlias(inv.aliases[v], event).removed => inv.aliases[v].removed \/ removed
      /\ inv.aliases[v].version <= NewerAlias(inv.aliases[v], event).version
  BY <1>1, <1>2 DEF NewerAlias
<1>4. /\ inv.aliases \in Aliases /\ inv.value \in Values \cup {None}
      /\ inv = [value |-> inv.value, aliases |-> inv.aliases]
  BY DEF Inventory
<1>5. Recorded(inv, previous, v, removed) = [value |-> inv.value, aliases |-> al]
  BY <1>4 DEF Recorded, event
<1>6. /\ al \in Aliases
      /\ \A w \in Values : al[w] = IF w = v THEN NewerAlias(inv.aliases[v], event)
                                   ELSE inv.aliases[w]
  BY <1>3, <1>4 DEF Aliases
<1> HIDE DEF al
<1> QED BY <1>1, <1>3, <1>4, <1>5, <1>6 DEF Inventory

LEMMA WithoutRemovedGives ==
    ASSUME NEW inv \in Inventory
    PROVE  /\ WithoutRemoved(inv) \in Inventory
           /\ WithoutRemoved(inv).aliases = inv.aliases
           /\ WithoutRemoved(inv).value \in {inv.value, None}
           /\ WithoutRemoved(inv).value # None =>
                ~inv.aliases[WithoutRemoved(inv).value].removed
           /\ (inv.value # None => ~inv.aliases[inv.value].removed) => WithoutRemoved(inv) = inv
BY DEF WithoutRemoved, Inventory

LEMMA SourcesGive ==
    ASSUME NEW k \in Keyring, NEW remote \in Held
    PROVE  /\ Sources(k, remote) \in Inventory
           /\ \/ Sources(k, remote).value = None
              \/ k.base # None /\ Sources(k, remote).value = k.base.value
              \/ k.pending # None /\ Sources(k, remote).value = k.pending.value
              \/ remote # None /\ Sources(k, remote).value = remote.value
           /\ remote # None /\ remote.value # None => Sources(k, remote).value = remote.value
           /\ \A v \in Values :
                /\ Sources(k, remote).aliases[v].removed =>
                     \E inv \in {k.base, k.pending, remote} \ {None} : inv.aliases[v].removed
                /\ remote # None =>
                     remote.aliases[v].version <= Sources(k, remote).aliases[v].version
<1> DEFINE one == Merged(Empty, k.base)
           two == Merged(one, k.pending)
<1>1. k.base \in Held /\ k.pending \in Held /\ Empty \in Inventory
  BY EmptyIsInventory DEF Keyring
<1>2. \A v \in Values : ~Empty.aliases[v].removed
  BY DEF Empty, NoAliases
<1>3. /\ one \in Inventory
      /\ one.value = None \/ (k.base # None /\ one.value = k.base.value)
      /\ \A v \in Values : one.aliases[v].removed => k.base # None /\ k.base.aliases[v].removed
  <2>1. /\ one \in Inventory
        /\ one.value = IF k.base # None /\ k.base.value # None THEN k.base.value ELSE Empty.value
        /\ \A v \in Values : one.aliases[v].removed =>
             Empty.aliases[v].removed \/ (k.base # None /\ k.base.aliases[v].removed)
    BY <1>1, MergedGives
  <2> QED BY <2>1, <1>2 DEF Empty
<1> HIDE DEF one
<1>4. /\ two \in Inventory
      /\ \/ two.value = None
         \/ k.base # None /\ two.value = k.base.value
         \/ k.pending # None /\ two.value = k.pending.value
      /\ \A v \in Values : two.aliases[v].removed =>
           \E inv \in {k.base, k.pending} \ {None} : inv.aliases[v].removed
  <2>1. /\ two \in Inventory
        /\ two.value = IF k.pending # None /\ k.pending.value # None THEN k.pending.value
                       ELSE one.value
        /\ \A v \in Values : two.aliases[v].removed =>
             one.aliases[v].removed \/ (k.pending # None /\ k.pending.aliases[v].removed)
    <3>1. one \in Inventory /\ k.pending \in Held
      BY <1>1, <1>3
    <3> QED BY <3>1, MergedGives DEF two
  <2>2. \A v \in Values : two.aliases[v].removed =>
          \E inv \in {k.base, k.pending} \ {None} : inv.aliases[v].removed
    <3> TAKE v \in Values
    <3> HAVE two.aliases[v].removed
    <3>1. CASE one.aliases[v].removed
      BY <3>1, <1>3
    <3>2. CASE k.pending # None /\ k.pending.aliases[v].removed
      BY <3>2
    <3> QED BY <2>1, <3>1, <3>2
  <2>3. \/ two.value = None
        \/ k.base # None /\ two.value = k.base.value
        \/ k.pending # None /\ two.value = k.pending.value
    BY <2>1, <1>3
  <2> QED BY <2>1, <2>2, <2>3
<1> HIDE DEF two
<1>5. Sources(k, remote) = Merged(two, remote)
  BY DEF Sources, one, two
<1> QED BY <1>4, <1>5, MergedGives

LEMMA WithLocalGives ==
    ASSUME NEW k \in Keyring, NEW remote \in Held
    PROVE  /\ WithLocal(k, remote) \in Inventory
           /\ WithLocal(k, remote).aliases = Sources(k, remote).aliases
           /\ WithLocal(k, remote).value
                = IF k.local \in Values THEN k.local ELSE Sources(k, remote).value
<1>1. Sources(k, remote) \in Inventory
  BY SourcesGive
<1> QED BY <1>1 DEF WithLocal, Inventory

LEMMA NotedGives ==
    ASSUME NEW k \in Keyring, NEW remote \in Held
    PROVE  /\ Noted(k, remote) \in Inventory
           /\ Noted(k, remote).value
                = IF k.local \in Values THEN k.local ELSE Sources(k, remote).value
           /\ \A v \in Values :
                /\ Noted(k, remote).aliases[v].removed =>
                     \/ Sources(k, remote).aliases[v].removed
                     \/ k.local = None /\ Previous(k) # None /\ Previous(k).value = v
                /\ Sources(k, remote).aliases[v].version
                     <= Noted(k, remote).aliases[v].version
<1> DEFINE with == WithLocal(k, remote)
           p == Previous(k)
<1>1. /\ with \in Inventory
      /\ with.aliases = Sources(k, remote).aliases
      /\ with.value = IF k.local \in Values THEN k.local ELSE Sources(k, remote).value
  BY WithLocalGives
<1>2. \A v \in Values : with.aliases[v].version \in Nat
  BY <1>1 DEF Inventory, Aliases
<1>3. p \in Held
  BY DEF Previous, Keyring
<1> HIDE DEF with, p
<1>4. CASE p = None \/ k.local = Lost
  <2>1. Noted(k, remote) = with
    BY <1>4 DEF Noted, with, p
  <2> QED BY <2>1, <1>1, <1>2
<1>5. CASE ~(p = None \/ k.local = Lost) /\ k.local = None /\ p.value # None
  <2>1. p \in Inventory /\ p.value \in Values
    BY <1>3, <1>5 DEF Held, Inventory
  <2>2. Noted(k, remote) = Recorded(with, p, p.value, TRUE)
    BY <1>5 DEF Noted, with, p
  <2>3. /\ Recorded(with, p, p.value, TRUE) \in Inventory
        /\ Recorded(with, p, p.value, TRUE).value = with.value
        /\ \A w \in Values :
             /\ Recorded(with, p, p.value, TRUE).aliases[w].removed =>
                  with.aliases[w].removed \/ (w = p.value /\ TRUE)
             /\ with.aliases[w].version <= Recorded(with, p, p.value, TRUE).aliases[w].version
    <3>1. with \in Inventory /\ TRUE \in BOOLEAN
      BY <1>1
    <3> QED BY <3>1, <2>1, RecordedGives, Zenon
  <2>4. Previous(k) = p
    BY DEF p
  <2> QED BY <2>2, <2>3, <2>4, <1>1, <1>5
<1>6. CASE ~(p = None \/ k.local = Lost) /\ ~(k.local = None /\ p.value # None)
             /\ k.local \in Values /\ p.value # k.local
  <2>1. p \in Inventory
    BY <1>3, <1>6 DEF Held
  <2>2. Noted(k, remote) = Recorded(with, p, k.local, FALSE)
    BY <1>6 DEF Noted, with, p
  <2>3. /\ Recorded(with, p, k.local, FALSE) \in Inventory
        /\ Recorded(with, p, k.local, FALSE).value = with.value
        /\ \A w \in Values :
             /\ Recorded(with, p, k.local, FALSE).aliases[w].removed => with.aliases[w].removed
             /\ with.aliases[w].version <= Recorded(with, p, k.local, FALSE).aliases[w].version
    <3>1. with \in Inventory /\ FALSE \in BOOLEAN /\ k.local \in Values
      BY <1>1, <1>6
    <3> QED BY <3>1, <2>1, RecordedGives, Zenon
  <2> QED BY <2>2, <2>3, <1>1
<1>7. CASE ~(p = None \/ k.local = Lost) /\ ~(k.local = None /\ p.value # None)
             /\ ~(k.local \in Values /\ p.value # k.local)
  <2>1. Noted(k, remote) = with
    BY <1>7 DEF Noted, with, p
  <2> QED BY <2>1, <1>1, <1>2
<1> QED BY <1>4, <1>5, <1>6, <1>7

\* What collectInventory names is what is here, else what one of the three
\* inventories names; what it removes one of them removed, or is gone from
\* the keyring; and it names nothing that it removes.
LEMMA CollectedGives ==
    ASSUME NEW k \in Keyring, NEW remote \in Held
    PROVE  /\ Collected(k, remote) \in Inventory
           /\ \/ Collected(k, remote).value = None
              \/ k.local \in Values /\ Collected(k, remote).value = k.local
              \/ /\ k.local \notin Values
                 /\ \E inv \in {k.base, k.pending, remote} \ {None} :
                      Collected(k, remote).value = inv.value
           /\ Collected(k, remote).value # None =>
                ~Collected(k, remote).aliases[Collected(k, remote).value].removed
           /\ k.local \in Values /\ ~Collected(k, remote).aliases[k.local].removed =>
                Collected(k, remote).value = k.local
           /\ \A v \in Values : Collected(k, remote).aliases[v].removed =>
                \/ \E inv \in {k.base, k.pending, remote} \ {None} : inv.aliases[v].removed
                \/ k.local = None /\ Previous(k) # None /\ Previous(k).value = v
           /\ remote # None => UpTo(remote, Collected(k, remote))
<1> DEFINE noted == Noted(k, remote)
<1>1. /\ noted \in Inventory
      /\ noted.value = IF k.local \in Values THEN k.local ELSE Sources(k, remote).value
      /\ \A v \in Values :
           noted.aliases[v].removed =>
             \/ Sources(k, remote).aliases[v].removed
             \/ k.local = None /\ Previous(k) # None /\ Previous(k).value = v
      /\ \A v \in Values :
           Sources(k, remote).aliases[v].version <= noted.aliases[v].version
  BY NotedGives
<1>2. Collected(k, remote) = WithoutRemoved(noted)
  BY CollectedParts
<1> HIDE DEF noted
<1>3. /\ WithoutRemoved(noted) \in Inventory
      /\ WithoutRemoved(noted).aliases = noted.aliases
      /\ WithoutRemoved(noted).value \in {noted.value, None}
      /\ WithoutRemoved(noted).value # None =>
           ~noted.aliases[WithoutRemoved(noted).value].removed
      /\ (noted.value # None => ~noted.aliases[noted.value].removed)
           => WithoutRemoved(noted) = noted
  BY <1>1, WithoutRemovedGives
<1>4. remote # None => UpTo(remote, Collected(k, remote))
  <2> SUFFICES ASSUME remote # None, NEW v \in Values
               PROVE  remote.aliases[v].version <= noted.aliases[v].version
    BY <1>2, <1>3 DEF UpTo
  <2>1. Sources(k, remote) \in Inventory /\ remote \in Inventory
    BY SourcesGive DEF Held
  <2>2. /\ remote.aliases[v].version \in Nat
        /\ Sources(k, remote).aliases[v].version \in Nat
        /\ noted.aliases[v].version \in Nat
    BY <2>1, <1>1 DEF Inventory, Aliases
  <2>3. remote.aliases[v].version <= Sources(k, remote).aliases[v].version
    BY SourcesGive
  <2> QED BY <2>2, <2>3, <1>1
<1> QED BY <1>1, <1>2, <1>3, <1>4, SourcesGive

-----------------------------------------------------------------------------
(* The invariant behind KeepsEdits. *)

Steps == {"idle", "pull", "push", "put", "base", "clear", "record"}
Pulled == {"push", "put", "base", "clear", "record"}
Reconciled == Pulled \ {"push"}
Sent == Reconciled \ {"put"}

Job == [step : Steps, remote : Held, seen : Nat, next : Held,
        person : {"absent", "present", "answered"}]

SyncTypes ==
    /\ server \in [version : Nat, content : Inventory]
    /\ disk \in [Devices -> Keyring]
    /\ job \in [Devices -> Job]
    /\ published \subseteq used /\ used \subseteq Values
    /\ undone \in BOOLEAN
    /\ removals \in Nat /\ crashes \in Nat /\ answers \in Nat

\* What a sync has at each step.
InStep(j) ==
    /\ j.step = "idle" => j = NoSync
    /\ j.step = "pull" => j.remote = None /\ j.next = None /\ j.person # "answered"
    /\ j.step \in Pulled => j.remote # None
    /\ j.step = "push" => j.next = None
    /\ j.step \in Reconciled => j.next # None

Of(inv, values) == inv # None => inv.value \in values \cup {None}

\* The base and what was pulled or sent name keys the server had.
Named(k, j, pub, all) ==
    /\ Of(k.base, pub) /\ Of(j.remote, pub)
    /\ j.step \in Sent => Of(j.next, pub)
    /\ k.local \in all \cup {None, Lost}
    /\ Of(k.pending, all) /\ Of(j.next, all)

\* Key v is an edit that this device still has.
Alive(k, j, v) ==
    \/ k.local = v
    \/ k.pending # None /\ k.pending.value = v
    \/ j.next # None /\ j.next.value = v

Marks(inv, v) == inv # None /\ inv.aliases[v].removed
Marked(k, j, v) ==
    Marks(k.base, v) \/ Marks(k.pending, v) \/ Marks(j.remote, v) \/ Marks(j.next, v)

\* Some inventory, anywhere, says that v was removed.
Dropped(v) ==
    \/ Marks(server.content, v)
    \/ \E d \in Devices : Marked(disk[d], job[d], v)

\* A key that the server never had is alive on one device at most, and while
\* it is, no inventory says that it was removed.
EditsInv ==
    /\ SyncTypes
    /\ server.content.value \in published \cup {None}
    /\ \A d \in Devices : InStep(job[d]) /\ Named(disk[d], job[d], published, used)
    /\ \A v \in Values : Dropped(v) => v \in used
    /\ \A v \in Values \ published, d, e \in Devices :
         Alive(disk[d], job[d], v) /\ Alive(disk[e], job[e], v) => d = e
    /\ \A v \in Values \ published, d \in Devices :
         Alive(disk[d], job[d], v) => ~Dropped(v)

\* What a step of device d may do: keep an edit or draw a new one, and let go
\* of an edit whose removal it notes.
EditsStep(d, k, j) ==
    /\ disk' = [disk EXCEPT ![d] = k] /\ job' = [job EXCEPT ![d] = j]
    /\ k \in Keyring /\ j \in Job /\ InStep(j)
    /\ Named(k, j, published', used')
    /\ server' \in [version : Nat, content : Inventory]
    /\ server'.content.value \in published' \cup {None}
    /\ published \subseteq published' /\ published' \subseteq used'
    /\ used \subseteq used' /\ used' \subseteq Values
    /\ undone' \in BOOLEAN /\ removals' \in Nat /\ crashes' \in Nat /\ answers' \in Nat
    /\ \A v \in Values \ published' :
         Alive(k, j, v) => Alive(disk[d], job[d], v) \/ v \notin used
    /\ \A v \in Values : Marked(k, j, v) \/ Marks(server'.content, v) =>
         /\ v \in used
         /\ v \notin published' =>
              Dropped(v) \/ (Alive(disk[d], job[d], v) /\ ~Alive(k, j, v))

\* The keyring of d keeps an edit.
Keeps(d, k, j) ==
    \A v \in Values \ published :
      disk[d].local = v =>
        k.local = v \/ used' # used \/ removals' # removals
          \/ (job[d].person = "present" /\ j.person = "answered")

LEMMA EditsStepKeeps ==
    ASSUME EditsInv, NEW d \in Devices, NEW k, NEW j, EditsStep(d, k, j)
    PROVE  EditsInv'
<1>1. /\ disk \in [Devices -> Keyring] /\ job \in [Devices -> Job]
      /\ disk' = [disk EXCEPT ![d] = k] /\ job' = [job EXCEPT ![d] = j]
      /\ disk'[d] = k /\ job'[d] = j
      /\ \A e \in Devices \ {d} : disk'[e] = disk[e] /\ job'[e] = job[e]
  BY DEF EditsInv, SyncTypes, EditsStep
<1>2. SyncTypes'
  BY <1>1 DEF EditsInv, SyncTypes, EditsStep
<1>3. \A e \in Devices : InStep(job'[e]) /\ Named(disk'[e], job'[e], published', used')
  <2> TAKE e \in Devices
  <2>1. CASE e = d
    BY <2>1, <1>1 DEF EditsStep
  <2>2. CASE e # d
    <3>1. /\ InStep(job[e]) /\ Named(disk[e], job[e], published, used)
          /\ published \subseteq published' /\ used \subseteq used'
          /\ disk'[e] = disk[e] /\ job'[e] = job[e]
      BY <2>2, <1>1 DEF EditsInv, EditsStep
    <3>2. Named(disk[e], job[e], published', used')
      BY <3>1 DEF Named, Of
    <3> QED BY <3>1, <3>2
  <2> QED BY <2>1, <2>2
<1>4. \A v \in Values : Dropped(v)' =>
        \/ Dropped(v)
        \/ Marked(k, j, v) \/ Marks(server'.content, v)
  BY <1>1 DEF Dropped
<1>5. \A v \in Values : Dropped(v)' => v \in used
  BY <1>4 DEF EditsInv, EditsStep
<1>6. \A v \in Values \ published', e \in Devices :
        Alive(disk'[e], job'[e], v) =>
          Alive(disk[e], job[e], v) \/ (e = d /\ v \notin used)
  BY <1>1 DEF EditsStep
<1>7. \A v \in Values \ used, e \in Devices : ~Alive(disk[e], job[e], v)
  <2> SUFFICES ASSUME NEW v \in Values \ used, NEW e \in Devices, Alive(disk[e], job[e], v)
               PROVE  FALSE
    OBVIOUS
  <2>1. Named(disk[e], job[e], published, used)
    BY DEF EditsInv
  <2> QED BY <2>1, ValuesAssumption DEF Named, Of, Alive
<1>8. \A v \in Values \ published', e, f \in Devices :
        Alive(disk'[e], job'[e], v) /\ Alive(disk'[f], job'[f], v) => e = f
  <2> SUFFICES ASSUME NEW v \in Values \ published', NEW e \in Devices, NEW f \in Devices,
                      Alive(disk'[e], job'[e], v), Alive(disk'[f], job'[f], v)
               PROVE  e = f
    OBVIOUS
  <2>1. v \in Values \ published
    BY DEF EditsStep
  <2>2. CASE v \notin used
    BY <2>2, <1>6, <1>7
  <2>3. CASE v \in used
    BY <2>1, <2>3, <1>6 DEF EditsInv
  <2> QED BY <2>2, <2>3
<1>9. \A v \in Values \ published', e \in Devices :
        Alive(disk'[e], job'[e], v) => ~Dropped(v)'
  <2> SUFFICES ASSUME NEW v \in Values \ published', NEW e \in Devices,
                      Alive(disk'[e], job'[e], v), Dropped(v)'
               PROVE  FALSE
    OBVIOUS
  <2>1. v \in Values \ published /\ v \in used
    BY <1>5 DEF EditsStep
  <2>2. Alive(disk[e], job[e], v) /\ ~Dropped(v)
    BY <2>1, <1>6 DEF EditsInv
  <2>3. Alive(disk[d], job[d], v) /\ ~Alive(k, j, v)
    BY <2>2, <1>4 DEF EditsStep
  <2>4. e = d
    BY <2>1, <2>2, <2>3 DEF EditsInv
  <2> QED BY <2>3, <2>4, <1>1
<1>10. server'.content.value \in published' \cup {None} /\ used \subseteq used'
  BY DEF EditsStep
<1>11. \A v \in Values : Dropped(v)' => v \in used'
  BY <1>5, <1>10
<1> QED BY <1>2, <1>3, <1>8, <1>9, <1>10, <1>11 DEF EditsInv

LEMMA KeepsAll ==
    ASSUME EditsInv, NEW d \in Devices, NEW k, NEW j, EditsStep(d, k, j), Keeps(d, k, j)
    PROVE  KeepsEdits
BY DEF EditsInv, SyncTypes, EditsStep, Keeps, KeepsEdits

-----------------------------------------------------------------------------
(* Every step keeps edits. *)

\* What the invariant says of one device.
LEMMA OneDevice ==
    ASSUME EditsInv, NEW d \in Devices
    PROVE  /\ disk[d] \in Keyring /\ job[d] \in Job
           /\ disk[d].local \in Values \cup {None, Lost}
           /\ disk[d].base \in Held /\ disk[d].pending \in Held
           /\ job[d].remote \in Held /\ job[d].next \in Held
           /\ disk[d].version \in Nat /\ job[d].seen \in Nat
           /\ InStep(job[d]) /\ Named(disk[d], job[d], published, used)
           /\ NoSync \in Job /\ InStep(NoSync)
           /\ None \notin Values /\ None \notin Inventory /\ Lost \notin Values
           /\ \A v \in Values : Marked(disk[d], job[d], v) => Dropped(v)
           /\ server \in [version : Nat, content : Inventory]
           /\ server.content \in Inventory /\ server.version \in Nat
           /\ server.content # None
           /\ server.content.value \in published \cup {None}
           /\ disk = [disk EXCEPT ![d] = disk[d]] /\ job = [job EXCEPT ![d] = job[d]]
<1>1. /\ disk \in [Devices -> Keyring] /\ job \in [Devices -> Job]
      /\ server \in [version : Nat, content : Inventory]
  BY DEF EditsInv, SyncTypes
<1>2. /\ disk[d] \in Keyring /\ job[d] \in Job
      /\ disk = [disk EXCEPT ![d] = disk[d]] /\ job = [job EXCEPT ![d] = job[d]]
  BY <1>1
<1>3. NoSync \in Job /\ InStep(NoSync)
  BY DEF NoSync, Job, Steps, Held, InStep, Pulled, Reconciled
<1>4. \A v \in Values : Marked(disk[d], job[d], v) => Dropped(v)
  BY DEF Dropped
<1> QED BY <1>1, <1>2, <1>3, <1>4, ValuesAssumption DEF EditsInv, Keyring, Job

LEMMA EditKeeps ==
    ASSUME EditsInv, NEW d \in Devices, Edit(d)
    PROVE  EditsInv' /\ KeepsEdits
<1> PICK v \in Values \ used :
      /\ disk' = [disk EXCEPT ![d].local = v]
      /\ used' = used \cup {v}
  BY DEF Edit
<1> DEFINE k == [disk[d] EXCEPT !.local = v]
<1>1. /\ disk[d] \in Keyring /\ job[d] \in Job /\ job[d] = NoSync
      /\ job = [job EXCEPT ![d] = job[d]]
      /\ InStep(job[d]) /\ Named(disk[d], job[d], published, used)
      /\ \A w \in Values : Marked(disk[d], job[d], w) => Dropped(w)
  BY OneDevice DEF Edit
<1>2. /\ k \in Keyring /\ k.local = v /\ k.base = disk[d].base
      /\ k.pending = disk[d].pending
  BY <1>1 DEF Keyring
<1>3. /\ disk' = [disk EXCEPT ![d] = k] /\ job' = [job EXCEPT ![d] = job[d]]
      /\ UNCHANGED <<server, published, undone, answers, removals, crashes>>
  BY <1>1 DEF Edit
<1> HIDE DEF k
<1>4. Named(k, job[d], published', used')
  BY <1>1, <1>2, <1>3 DEF Named, Of
<1>5. \A w \in Values : Alive(k, job[d], w) => Alive(disk[d], job[d], w) \/ w \notin used
  BY <1>2 DEF Alive
<1>6. \A w \in Values : Marked(k, job[d], w) \/ Marks(server'.content, w) => Dropped(w)
  BY <1>1, <1>2, <1>3 DEF Marked, Dropped
<1>7. EditsStep(d, k, job[d])
  BY <1>1, <1>2, <1>3, <1>4, <1>5, <1>6 DEF EditsStep, EditsInv, SyncTypes
<1>8. Keeps(d, k, job[d])
  BY DEF Keeps
<1> QED BY <1>7, <1>8, EditsStepKeeps, KeepsAll

\* A step that writes nothing but the keyring and the job of d, and no
\* inventory that was not there.
LEMMA QuietStep ==
    ASSUME EditsInv, NEW d \in Devices, NEW k \in Keyring, NEW j \in Job,
           disk' = [disk EXCEPT ![d] = k], job' = [job EXCEPT ![d] = j],
           UNCHANGED <<server, published, undone, used>>,
           removals' \in Nat, crashes' \in Nat, answers' \in Nat,
           InStep(j), Named(k, j, published, used),
           \A v \in Values \ published : Alive(k, j, v) => Alive(disk[d], job[d], v),
           \A v \in Values : Marked(k, j, v) => Dropped(v)
    PROVE  EditsInv' /\ (Keeps(d, k, j) => KeepsEdits)
<1>1. \A v \in Values : Marked(k, j, v) \/ Marks(server'.content, v) => Dropped(v)
  BY DEF Dropped
<1>2. EditsStep(d, k, j)
  BY <1>1 DEF EditsStep, EditsInv, SyncTypes
<1> QED BY <1>2, EditsStepKeeps, KeepsAll

LEMMA RemoveKeeps ==
    ASSUME EditsInv, NEW d \in Devices, Remove(d)
    PROVE  EditsInv' /\ KeepsEdits
<1> PICK gone \in {None, Lost} : disk' = [disk EXCEPT ![d].local = gone]
  BY DEF Remove
<1> DEFINE k == [disk[d] EXCEPT !.local = gone]
<1>1. /\ disk[d] \in Keyring /\ job[d] \in Job /\ job[d] = NoSync
      /\ job = [job EXCEPT ![d] = job[d]]
      /\ InStep(job[d]) /\ Named(disk[d], job[d], published, used)
      /\ None \notin Values /\ Lost \notin Values
      /\ \A w \in Values : Marked(disk[d], job[d], w) => Dropped(w)
  BY OneDevice DEF Remove
<1>2. /\ k \in Keyring /\ k.local = gone /\ k.base = disk[d].base
      /\ k.pending = disk[d].pending
  BY <1>1 DEF Keyring
<1>3. /\ disk' = [disk EXCEPT ![d] = k] /\ job' = [job EXCEPT ![d] = job[d]]
      /\ UNCHANGED <<server, published, undone, used, answers, crashes>>
      /\ removals' = removals + 1
  BY <1>1 DEF Remove
<1> HIDE DEF k
<1>4. Named(k, job[d], published, used)
  BY <1>1, <1>2 DEF Named
<1>5. \A w \in Values : Alive(k, job[d], w) => Alive(disk[d], job[d], w)
  BY <1>1, <1>2 DEF Alive
<1>6. \A w \in Values : Marked(k, job[d], w) => Dropped(w)
  BY <1>1, <1>2 DEF Marked
<1>7. removals' \in Nat /\ crashes' \in Nat /\ answers' \in Nat /\ removals' # removals
  BY <1>3 DEF EditsInv, SyncTypes
<1>8. Keeps(d, k, job[d])
  BY <1>7 DEF Keeps
<1> QED BY <1>1, <1>2, <1>3, <1>4, <1>5, <1>6, <1>7, <1>8, QuietStep

\* Pending edits, written before a sync, keep what is in the keyring.
LEMMA StagedGives ==
    ASSUME NEW k \in Keyring
    PROVE  /\ Staged(k) \in Keyring
           /\ Staged(k).local = k.local /\ Staged(k).base = k.base
           /\ Staged(k).version = k.version /\ Staged(k).conflict = k.conflict
           /\ Staged(k).pending
                = IF Collected(k, None) = k.base THEN None ELSE Collected(k, None)
<1>1. Collected(k, None) \in Inventory
  BY CollectedGives DEF Held
<1> QED BY <1>1 DEF Staged, Keyring, Held

LEMMA StagedKeeps ==
    ASSUME EditsInv, NEW d \in Devices, job[d] = NoSync,
           NEW k, k = Staged(disk[d])
    PROVE  /\ k \in Keyring /\ k.local = disk[d].local /\ k.base = disk[d].base
           /\ Named(k, NoSync, published, used)
           /\ \A v \in Values \ published : Alive(k, NoSync, v) => Alive(disk[d], NoSync, v)
           /\ \A v \in Values : Marked(k, NoSync, v) =>
                /\ v \in used
                /\ v \notin published =>
                     Dropped(v) \/ (Alive(disk[d], NoSync, v) /\ ~Alive(k, NoSync, v))
<1> DEFINE c == Collected(disk[d], None)
<1>1. /\ disk[d] \in Keyring /\ disk[d].base \in Held /\ disk[d].pending \in Held
      /\ disk[d].local \in Values \cup {None, Lost}
      /\ Named(disk[d], NoSync, published, used)
      /\ None \notin Values /\ None \notin Inventory /\ Lost \notin Values
      /\ \A v \in Values : Marked(disk[d], NoSync, v) => Dropped(v)
  BY OneDevice
<1>2. /\ k \in Keyring /\ k.local = disk[d].local /\ k.base = disk[d].base
      /\ k.pending = None \/ k.pending = c
  BY <1>1, StagedGives
<1>3. /\ c \in Inventory
      /\ \/ c.value = None
         \/ disk[d].local \in Values /\ c.value = disk[d].local
         \/ /\ disk[d].local \notin Values
            /\ \E inv \in {disk[d].base, disk[d].pending, None} \ {None} : c.value = inv.value
      /\ c.value # None => ~c.aliases[c.value].removed
      /\ \A v \in Values : c.aliases[v].removed =>
           \/ \E inv \in {disk[d].base, disk[d].pending, None} \ {None} : inv.aliases[v].removed
           \/ disk[d].local = None /\ Previous(disk[d]) # None /\ Previous(disk[d]).value = v
  BY <1>1, CollectedGives DEF Held
<1> HIDE DEF c
<1>4. NoSync.remote = None /\ NoSync.next = None /\ NoSync.step = "idle"
  BY DEF NoSync
<1>5. published \subseteq used /\ used \subseteq Values
  BY DEF EditsInv, SyncTypes
<1>6. c.value \in used \cup {None}
  BY <1>1, <1>3, <1>5 DEF Named, Of
<1>7. Named(k, NoSync, published, used)
  BY <1>1, <1>2, <1>4, <1>6 DEF Named, Of
<1>8. \A v \in Values \ published : Alive(k, NoSync, v) => Alive(disk[d], NoSync, v)
  BY <1>1, <1>2, <1>3, <1>4 DEF Named, Of, Alive
<1>9. ASSUME NEW v \in Values, Marked(k, NoSync, v)
      PROVE  /\ v \in used
             /\ v \notin published =>
                  Dropped(v) \/ (Alive(disk[d], NoSync, v) /\ ~Alive(k, NoSync, v))
  <2>1. \A w \in Values : Dropped(w) => w \in used
    BY DEF EditsInv
  <2>2. CASE Marked(disk[d], NoSync, v)
    BY <2>1, <2>2, <1>1
  <2>3. CASE ~Marked(disk[d], NoSync, v)
    <3>1. k.pending = c /\ c.aliases[v].removed
      BY <2>3, <1>9, <1>2, <1>4 DEF Marked, Marks
    <3>2. disk[d].local = None /\ Previous(disk[d]) # None /\ Previous(disk[d]).value = v
      BY <2>3, <3>1, <1>3 DEF Marked, Marks
    <3>3. v \in used
      BY <3>2, <1>1, <1>5 DEF Previous, Named, Of
    <3>4. v \notin published => Alive(disk[d], NoSync, v)
      BY <3>2, <1>1 DEF Previous, Named, Of, Alive
    <3>5. ~Alive(k, NoSync, v)
      BY <3>1, <3>2, <1>1, <1>2, <1>3, <1>4 DEF Alive
    <3> QED BY <3>3, <3>4, <3>5
  <2> QED BY <2>2, <2>3
<1> QED BY <1>2, <1>7, <1>8, <1>9

LEMMA StageKeeps ==
    ASSUME EditsInv, NEW d \in Devices, Stage(d)
    PROVE  EditsInv' /\ KeepsEdits
<1> DEFINE k == Staged(disk[d])
<1>1. /\ job[d] = NoSync /\ job = [job EXCEPT ![d] = NoSync] /\ NoSync \in Job /\ InStep(NoSync)
      /\ disk' = [disk EXCEPT ![d] = k] /\ job' = job
      /\ UNCHANGED <<server, published, undone, used, answers, removals, crashes>>
  BY OneDevice DEF Stage
<1>2. /\ k \in Keyring /\ k.local = disk[d].local
      /\ Named(k, NoSync, published, used)
      /\ \A v \in Values \ published : Alive(k, NoSync, v) => Alive(disk[d], NoSync, v)
      /\ \A v \in Values : Marked(k, NoSync, v) =>
           /\ v \in used
           /\ v \notin published =>
                Dropped(v) \/ (Alive(disk[d], NoSync, v) /\ ~Alive(k, NoSync, v))
  BY <1>1, StagedKeeps
<1> HIDE DEF k
<1>3. \A v \in Values : Marks(server'.content, v) => Dropped(v) /\ v \in used
  BY <1>1 DEF Dropped, EditsInv
<1>4. EditsStep(d, k, NoSync)
  BY <1>1, <1>2, <1>3 DEF EditsStep, EditsInv, SyncTypes
<1>5. Keeps(d, k, NoSync)
  BY <1>2 DEF Keeps
<1> QED BY <1>4, <1>5, EditsStepKeeps, KeepsAll

-----------------------------------------------------------------------------
(* Merging keeps edits. *)

\* merge replaces a key of the keyring only if it is the base's.
LEMMA MergedIntoGives ==
    ASSUME NEW k \in Keyring, NEW value \in Values \cup {None}
    PROVE  /\ MergedInto(k, value) \in Keyring
           /\ MergedInto(k, value).base = k.base /\ MergedInto(k, value).pending = k.pending
           /\ MergedInto(k, value).version = k.version
           /\ MergedInto(k, value).conflict = k.conflict
           /\ MergedInto(k, value).local \in {k.local, value}
           /\ MergedInto(k, value).local # k.local /\ k.local \in Values =>
                k.base # None /\ k.local = k.base.value
           /\ value = None /\ k.local \in Values => MergedInto(k, value).local = k.local
           /\ value # None /\ (k.local \notin Values \/ (k.base # None /\ k.local = k.base.value))
                => MergedInto(k, value).local = value
<1> DEFINE m == IF k.local = Lost \/ (k.local = None /\ value # None) THEN value
                ELSE IF k.base # None /\ k.local = k.base.value /\ value # None THEN value
                ELSE k.local
<1>1. /\ k.local \in Values \cup {None, Lost}
      /\ m \in Values \cup {None, Lost} /\ m \in {k.local, value}
      /\ m # k.local /\ k.local \in Values => k.base # None /\ k.local = k.base.value
      /\ value = None /\ k.local \in Values => m = k.local
      /\ value # None /\ (k.local \notin Values \/ (k.base # None /\ k.local = k.base.value))
           => m = value
  BY ValuesAssumption DEF Keyring
<1>2. MergedInto(k, value) = [k EXCEPT !.local = m]
  BY DEF MergedInto
<1> HIDE DEF m
<1> QED BY <1>1, <1>2 DEF Keyring

LEMMA KeyStateGives ==
    ASSUME NEW k \in Keyring, NEW inv \in Inventory
    PROVE  /\ KeyState(k, inv) \in Keyring
           /\ KeyState(k, inv).base = k.base /\ KeyState(k, inv).pending = k.pending
           /\ KeyState(k, inv).version = k.version /\ KeyState(k, inv).conflict = k.conflict
           /\ KeyState(k, inv).local
                = IF k.local \in Values /\ inv.aliases[k.local].removed THEN None ELSE k.local
BY DEF KeyState, Keyring

\* While an edit is in the keyring, what is collected does not remove it.
LEMMA EditNotRemoved ==
    ASSUME EditsInv, NEW d \in Devices, NEW v \in Values \ published, disk[d].local = v,
           NEW remote \in Held, remote # None => \A w \in Values : Marks(remote, w) => Dropped(w)
    PROVE  ~Collected(disk[d], remote).aliases[v].removed
<1>1. Alive(disk[d], job[d], v) /\ v # None
  BY ValuesAssumption DEF Alive
<1>2. ~Dropped(v)
  BY <1>1 DEF EditsInv
<1>3. disk[d] \in Keyring /\ (Marked(disk[d], job[d], v) => Dropped(v))
  BY OneDevice
<1>4. Collected(disk[d], remote).aliases[v].removed =>
        \E inv \in {disk[d].base, disk[d].pending, remote} \ {None} : inv.aliases[v].removed
  BY <1>1, <1>3, CollectedGives
<1> QED BY <1>2, <1>3, <1>4 DEF Marked, Marks

LEMMA BeginFrom ==
    ASSUME EditsInv, NEW d \in Devices, job[d] = NoSync,
           NEW k \in {disk[d], Staged(disk[d])}
    PROVE  /\ k \in Keyring /\ k.local = disk[d].local /\ k.base = disk[d].base
           /\ Named(k, NoSync, published, used)
           /\ \A v \in Values \ published : Alive(k, NoSync, v) => Alive(disk[d], NoSync, v)
           /\ \A v \in Values : Marked(k, NoSync, v) =>
                /\ v \in used
                /\ v \notin published =>
                     Dropped(v) \/ (Alive(disk[d], NoSync, v) /\ ~Alive(k, NoSync, v))
<1>1. CASE k = disk[d]
  BY <1>1, OneDevice DEF EditsInv
<1>2. CASE k = Staged(disk[d])
  BY <1>2, StagedKeeps
<1> QED BY <1>1, <1>2

LEMMA BeginKeeps ==
    ASSUME EditsInv, NEW d \in Devices, BeginSync(d)
    PROVE  EditsInv' /\ KeepsEdits
<1>1. /\ InStep(job[d]) /\ job[d].step = "idle"
      /\ job = [job EXCEPT ![d] = job[d]] /\ NoSync \in Job /\ InStep(NoSync)
  BY OneDevice DEF BeginSync, JobAt
<1>2. job[d] = NoSync
  BY <1>1 DEF InStep
<1>3. PICK k \in {disk[d], Staged(disk[d])}, person \in {"absent", "present"} :
        IF k.pending # None /\ Conflicting(k, k.pending.value)
        THEN disk' = [disk EXCEPT ![d] = k] /\ UNCHANGED job
        ELSE /\ disk' = [disk EXCEPT ![d] =
                   IF k.pending # None THEN MergedInto(k, k.pending.value) ELSE k]
             /\ Go(d, [NoSync EXCEPT !.step = "pull", !.person = person])
  BY DEF BeginSync
<1>4. UNCHANGED <<server, published, undone, used, answers, removals, crashes>>
  BY DEF BeginSync
<1>5. /\ k \in Keyring /\ k.local = disk[d].local /\ k.base = disk[d].base
      /\ Named(k, NoSync, published, used)
      /\ \A v \in Values \ published : Alive(k, NoSync, v) => Alive(disk[d], NoSync, v)
      /\ \A v \in Values : Marked(k, NoSync, v) =>
           /\ v \in used
           /\ v \notin published =>
                Dropped(v) \/ (Alive(disk[d], NoSync, v) /\ ~Alive(k, NoSync, v))
  BY <1>2, BeginFrom
<1>6. \A v \in Values : Marks(server'.content, v) => Dropped(v) /\ v \in used
  BY <1>4 DEF Dropped, EditsInv
<1>7. CASE k.pending # None /\ Conflicting(k, k.pending.value)
  <2>1. disk' = [disk EXCEPT ![d] = k] /\ job' = [job EXCEPT ![d] = NoSync]
    BY <1>1, <1>2, <1>3, <1>7
  <2>2. EditsStep(d, k, NoSync)
    BY <1>1, <1>2, <1>4, <1>5, <1>6, <2>1 DEF EditsStep, EditsInv, SyncTypes
  <2>3. Keeps(d, k, NoSync)
    BY <1>5 DEF Keeps
  <2> QED BY <2>2, <2>3, EditsStepKeeps, KeepsAll
<1>8. CASE ~(k.pending # None /\ Conflicting(k, k.pending.value))
  <2> DEFINE m == IF k.pending # None THEN MergedInto(k, k.pending.value) ELSE k
             j == [NoSync EXCEPT !.step = "pull", !.person = person]
  <2>1. disk' = [disk EXCEPT ![d] = m] /\ job' = [job EXCEPT ![d] = j]
    BY <1>3, <1>8 DEF Go
  <2>2. /\ j \in Job /\ j.remote = None /\ j.next = None /\ j.step = "pull"
        /\ j.person # "answered" /\ NoSync.remote = None /\ NoSync.next = None
    BY DEF NoSync, Job, Steps, Held
  <2>3. /\ m \in Keyring /\ m.base = k.base /\ m.pending = k.pending
        /\ m.local = k.local \/ (k.pending # None /\ m.local = k.pending.value)
        /\ m.local # k.local /\ k.local \in Values => k.base # None /\ k.local = k.base.value
    <3>1. CASE k.pending = None
      BY <3>1, <1>5
    <3>2. CASE k.pending # None
      <4>1. k.pending.value \in Values \cup {None}
        BY <3>2, <1>5 DEF Keyring, Held, Inventory
      <4> QED BY <3>2, <4>1, <1>5, MergedIntoGives
    <3> QED BY <3>1, <3>2
  <2> HIDE DEF m, j
  <2>4. InStep(j)
    BY <2>2 DEF InStep, Pulled, Reconciled
  <2>5. Named(m, j, published, used)
    BY <1>5, <2>2, <2>3 DEF Named, Of, Sent, Reconciled, Pulled
  <2>6. \A v \in Values : Alive(m, j, v) => Alive(k, NoSync, v)
    BY <2>2, <2>3 DEF Alive
  <2>7. \A v \in Values : Marked(m, j, v) => Marked(k, NoSync, v)
    BY <2>2, <2>3 DEF Marked
  <2>8. EditsStep(d, m, j)
    BY <1>2, <1>4, <1>5, <1>6, <2>1, <2>2, <2>3, <2>4, <2>5, <2>6, <2>7
       DEF EditsStep, EditsInv, SyncTypes
  <2>9. \A v \in Values \ published : k.local = v => m.local = v
    BY <1>5, <2>3, ValuesAssumption DEF Named, Of
  <2>10. Keeps(d, m, j)
    BY <1>5, <2>9 DEF Keeps
  <2> QED BY <2>8, <2>10, EditsStepKeeps, KeepsAll
<1> QED BY <1>7, <1>8

LEMMA PullKeeps ==
    ASSUME EditsInv, NEW d \in Devices, PullVault(d)
    PROVE  EditsInv' /\ KeepsEdits
<1> DEFINE combined == Collected(disk[d], server.content)
           k == KeyState(disk[d], combined)
           remote == WithoutRemoved([server.content EXCEPT !.aliases = combined.aliases])
           needed == server.version # k.version \/ k.conflict
           conflict == needed /\ Conflicting(k, remote.value)
           pulled == [step |-> "push", remote |-> server.content, seen |-> server.version,
                      next |-> None, person |-> job[d].person]
           merged == IF needed THEN [MergedInto(k, remote.value) EXCEPT !.conflict = FALSE] ELSE k
<1>1. /\ disk[d] \in Keyring /\ job[d] \in Job
      /\ disk[d].local \in Values \cup {None, Lost}
      /\ disk[d].base \in Held /\ disk[d].pending \in Held
      /\ job[d].step = "pull"
      /\ InStep(job[d]) /\ Named(disk[d], job[d], published, used)
      /\ NoSync \in Job /\ InStep(NoSync)
      /\ None \notin Values /\ None \notin Inventory /\ Lost \notin Values
      /\ \A v \in Values : Marked(disk[d], job[d], v) => Dropped(v)
      /\ server.content \in Inventory /\ server.version \in Nat
      /\ server.content # None
      /\ server.content.value \in published \cup {None}
      /\ published \subseteq used /\ used \subseteq Values
      /\ removals \in Nat /\ crashes \in Nat /\ answers \in Nat
      /\ UNCHANGED <<server, published, undone, used, removals, crashes>>
  BY OneDevice DEF PullVault, JobAt, EditsInv, SyncTypes
<1>2. job[d].remote = None /\ job[d].next = None /\ job[d].person # "answered"
  BY <1>1 DEF InStep
<1>3. combined \in Inventory
  BY <1>1, CollectedGives DEF Held
<1>4. /\ k \in Keyring /\ k.base = disk[d].base /\ k.pending = disk[d].pending
      /\ k.local = IF disk[d].local \in Values /\ combined.aliases[disk[d].local].removed
                   THEN None ELSE disk[d].local
      /\ k.local \in {disk[d].local, None}
  BY <1>1, <1>3, KeyStateGives
<1>5. remote.value \in {server.content.value, None} /\ remote.value \in Values \cup {None}
  <2>1. /\ [server.content EXCEPT !.aliases = combined.aliases] \in Inventory
        /\ [server.content EXCEPT !.aliases = combined.aliases].value = server.content.value
    BY <1>1, <1>3 DEF Inventory
  <2>2. remote \in Inventory /\ remote.value \in {server.content.value, None}
    BY <2>1, WithoutRemovedGives
  <2> QED BY <2>2 DEF Inventory
<1>6. /\ pulled \in Job /\ pulled.step = "push" /\ pulled.remote = server.content
      /\ pulled.next = None /\ pulled.person = job[d].person
  BY <1>1 DEF Job, Steps, Held
<1>7. ASSUME NEW v \in Values \ published, disk[d].local = v
      PROVE  k.local = v
  <2>1. ~combined.aliases[v].removed
    BY <1>1, <1>7, EditNotRemoved DEF Held, Dropped
  <2> QED BY <2>1, <1>4, <1>7
<1>8. /\ merged \in Keyring /\ merged.base = k.base /\ merged.pending = k.pending
      /\ merged.local \in {k.local, remote.value}
      /\ merged.local # k.local /\ k.local \in Values => k.base # None /\ k.local = k.base.value
  <2>1. CASE needed
    <3> DEFINE m == MergedInto(k, remote.value)
    <3>1. /\ m \in Keyring /\ m.base = k.base /\ m.pending = k.pending
          /\ m.local \in {k.local, remote.value}
          /\ m.local # k.local /\ k.local \in Values => k.base # None /\ k.local = k.base.value
      BY <1>4, <1>5, MergedIntoGives
    <3>2. merged = [m EXCEPT !.conflict = FALSE]
      BY <2>1
    <3> HIDE DEF m, merged
    <3> QED BY <3>1, <3>2 DEF Keyring
  <2>2. CASE ~needed
    <3>1. merged = k
      BY <2>2
    <3> HIDE DEF merged
    <3> QED BY <3>1, <1>4
  <2> QED BY <2>1, <2>2
<1>9. \/ /\ disk' = [disk EXCEPT ![d] = [k EXCEPT !.conflict = TRUE]]
         /\ Go(d, NoSync) /\ UNCHANGED answers
      \/ /\ job[d].person # "absent"
         /\ \E choice \in {k.local, remote.value} :
              /\ disk' = [disk EXCEPT ![d] = [k EXCEPT !.local = choice, !.conflict = FALSE]]
              /\ answers' = answers + 1
         /\ Go(d, [pulled EXCEPT !.person = "answered"])
      \/ disk' = [disk EXCEPT ![d] = merged] /\ Go(d, pulled) /\ UNCHANGED answers
  BY DEF PullVault
<1> HIDE DEF combined, k, remote, needed, conflict, pulled, merged
<1>10. ASSUME NEW n \in Keyring, NEW j \in Job,
              disk' = [disk EXCEPT ![d] = n], job' = [job EXCEPT ![d] = j],
              answers' \in Nat,
              n.base = k.base, n.pending = k.pending, n.local \in {k.local, remote.value},
              InStep(j), j.step \in {"idle", "push"}, j.next = None,
              j.remote \in {None, server.content}
       PROVE  EditsInv' /\ (Keeps(d, n, j) => KeepsEdits)
  <2>1. Named(n, j, published, used)
    BY <1>10, <1>1, <1>4, <1>5 DEF Named, Of, Sent, Reconciled, Pulled
  <2>2. \A v \in Values \ published : Alive(n, j, v) => Alive(disk[d], job[d], v)
    BY <1>10, <1>1, <1>4, <1>5 DEF Alive
  <2>3. ASSUME NEW v \in Values, Marked(n, j, v)
        PROVE  Dropped(v)
    <3>1. Marked(disk[d], job[d], v) \/ Marks(server.content, v)
      BY <2>3, <1>10, <1>4 DEF Marked, Marks
    <3> QED BY <3>1, <1>1 DEF Dropped
  <2>4. \A v \in Values : Marked(n, j, v) => Dropped(v)
    BY <2>3
  <2> QED BY <2>1, <2>2, <2>4, <1>1, <1>10, QuietStep
<1>11. CASE /\ disk' = [disk EXCEPT ![d] = [k EXCEPT !.conflict = TRUE]]
            /\ Go(d, NoSync) /\ UNCHANGED answers
  <2> DEFINE n == [k EXCEPT !.conflict = TRUE]
  <2>1. /\ n \in Keyring /\ n.base = k.base /\ n.pending = k.pending /\ n.local = k.local
        /\ NoSync.step = "idle" /\ NoSync.next = None /\ NoSync.remote = None
    BY <1>4 DEF Keyring, NoSync
  <2>2. disk' = [disk EXCEPT ![d] = n] /\ job' = [job EXCEPT ![d] = NoSync]
    BY <1>11 DEF Go
  <2> HIDE DEF n
  <2>3. Keeps(d, n, NoSync)
    BY <1>7, <2>1 DEF Keeps
  <2> QED BY <1>1, <1>10, <1>11, <2>1, <2>2, <2>3
<1>12. CASE /\ job[d].person # "absent"
            /\ \E choice \in {k.local, remote.value} :
                 /\ disk' = [disk EXCEPT ![d] = [k EXCEPT !.local = choice, !.conflict = FALSE]]
                 /\ answers' = answers + 1
            /\ Go(d, [pulled EXCEPT !.person = "answered"])
  <2> PICK choice \in {k.local, remote.value} :
        /\ disk' = [disk EXCEPT ![d] = [k EXCEPT !.local = choice, !.conflict = FALSE]]
        /\ answers' = answers + 1
    BY <1>12
  <2> DEFINE n == [k EXCEPT !.local = choice, !.conflict = FALSE]
             j == [pulled EXCEPT !.person = "answered"]
  <2>1. choice \in Values \cup {None, Lost}
    BY <1>4, <1>5 DEF Keyring
  <2>2. n \in Keyring /\ n.base = k.base /\ n.pending = k.pending /\ n.local = choice
    BY <1>4, <2>1 DEF Keyring
  <2>3. /\ j \in Job /\ j.step = "push" /\ j.remote = server.content /\ j.next = None
        /\ j.person = "answered"
    BY <1>6 DEF Job
  <2>4. disk' = [disk EXCEPT ![d] = n] /\ job' = [job EXCEPT ![d] = j]
    BY <1>12 DEF Go
  <2> HIDE DEF n, j
  <2>5. InStep(j)
    BY <1>1, <2>3 DEF InStep, Pulled, Reconciled
  <2>6. job[d].person = "present"
    BY <1>1, <1>2, <1>12 DEF Job
  <2>7. Keeps(d, n, j)
    BY <2>3, <2>6 DEF Keeps
  <2>8. answers' \in Nat
    BY <1>1
  <2> QED BY <1>10, <2>2, <2>3, <2>4, <2>5, <2>7, <2>8
<1>13. CASE disk' = [disk EXCEPT ![d] = merged] /\ Go(d, pulled) /\ UNCHANGED answers
  <2>1. disk' = [disk EXCEPT ![d] = merged] /\ job' = [job EXCEPT ![d] = pulled]
    BY <1>13 DEF Go
  <2>2. InStep(pulled)
    BY <1>1, <1>6 DEF InStep, Pulled, Reconciled
  <2>3. ASSUME NEW v \in Values \ published, disk[d].local = v
        PROVE  merged.local = v
    <3>1. k.local = v
      BY <1>7, <2>3
    <3>2. v # None /\ (k.base # None => k.base.value \in published \cup {None})
      BY <1>1, <1>4 DEF Named, Of
    <3> QED BY <3>1, <3>2, <1>8
  <2>4. Keeps(d, merged, pulled)
    BY <2>3 DEF Keeps
  <2> QED BY <1>1, <1>6, <1>8, <1>10, <1>13, <2>1, <2>2, <2>4
<1> QED BY <1>9, <1>11, <1>12, <1>13

-----------------------------------------------------------------------------
(* Sending and acknowledging keep edits. *)

LEMMA PrepareKeeps ==
    ASSUME EditsInv, NEW d \in Devices, Prepare(d)
    PROVE  EditsInv' /\ KeepsEdits
<1> DEFINE inv == Collected(disk[d], job[d].remote)
           ks == KeyState(disk[d], inv)
           k == MergedInto(ks, inv.value)
<1>1. /\ disk[d] \in Keyring /\ job[d] \in Job
      /\ disk[d].local \in Values \cup {None, Lost}
      /\ disk[d].base \in Held /\ disk[d].pending \in Held
      /\ job[d].step = "push" /\ job[d].remote \in Held
      /\ InStep(job[d]) /\ Named(disk[d], job[d], published, used)
      /\ None \notin Values /\ None \notin Inventory /\ Lost \notin Values
      /\ \A v \in Values : Marked(disk[d], job[d], v) => Dropped(v)
      /\ published \subseteq used /\ used \subseteq Values
      /\ UNCHANGED <<server, published, undone, used, answers, removals, crashes>>
  BY OneDevice DEF Prepare, JobAt, EditsInv, SyncTypes
<1>2. job[d].remote \in Inventory /\ job[d].remote # None /\ job[d].next = None
  BY <1>1 DEF InStep, Held, Pulled
<1>3. /\ inv \in Inventory
      /\ \/ inv.value = None
         \/ disk[d].local \in Values /\ inv.value = disk[d].local
         \/ /\ disk[d].local \notin Values
            /\ \E i \in {disk[d].base, disk[d].pending, job[d].remote} \ {None} :
                 inv.value = i.value
      /\ inv.value # None => ~inv.aliases[inv.value].removed
      /\ \A v \in Values : inv.aliases[v].removed =>
           \/ \E i \in {disk[d].base, disk[d].pending, job[d].remote} \ {None} :
                i.aliases[v].removed
           \/ disk[d].local = None /\ Previous(disk[d]) # None /\ Previous(disk[d]).value = v
  BY <1>1, CollectedGives
<1>4. /\ ks \in Keyring /\ ks.base = disk[d].base /\ ks.pending = disk[d].pending
      /\ ks.local = IF disk[d].local \in Values /\ inv.aliases[disk[d].local].removed
                    THEN None ELSE disk[d].local
  BY <1>1, <1>3, KeyStateGives
<1>5. inv.value \in Values \cup {None}
  BY <1>3 DEF Inventory
<1>6. /\ k \in Keyring /\ k.base = disk[d].base /\ k.pending = disk[d].pending
      /\ k.local \in {ks.local, inv.value}
      /\ k.local # ks.local /\ ks.local \in Values => ks.base # None /\ ks.local = ks.base.value
  <2> HIDE DEF ks, inv
  <2> QED BY <1>4, <1>5, MergedIntoGives
<1>7. ASSUME NEW v \in Values \ published, disk[d].local = v
      PROVE  k.local = v
  <2>1. \A w \in Values : Marks(job[d].remote, w) => Dropped(w)
    BY <1>1 DEF Marked
  <2>2. ~inv.aliases[v].removed
    BY <1>1, <1>7, <2>1, EditNotRemoved
  <2>3. ks.local = v
    BY <1>4, <1>7, <2>2
  <2>4. v # None /\ (ks.base # None => ks.base.value \in published \cup {None})
    BY <1>1, <1>4 DEF Named, Of
  <2> QED BY <1>6, <2>3, <2>4
<1>8. IF inv = job[d].remote
      THEN /\ disk' = [disk EXCEPT ![d] = k]
           /\ Go(d, [job[d] EXCEPT !.step = "base", !.next = inv])
      ELSE /\ disk' = [disk EXCEPT ![d] = [k EXCEPT !.pending = inv]]
           /\ Go(d, [job[d] EXCEPT !.step = "put", !.next = inv])
  BY DEF Prepare
<1>9. inv # None /\ inv \in Held
  BY <1>1, <1>3 DEF Held
<1>10. \A v \in Values : Marks(server'.content, v) => Dropped(v) /\ v \in used
  BY <1>1 DEF Dropped, EditsInv
<1>11. \A v \in Values : Dropped(v) => v \in used
  BY DEF EditsInv
<1> HIDE DEF inv, ks, k
<1>12. CASE inv = job[d].remote
  <2> DEFINE j == [job[d] EXCEPT !.step = "base", !.next = inv]
  <2>1. /\ j \in Job /\ j.step = "base" /\ j.next = inv /\ j.remote = job[d].remote
    BY <1>1, <1>9 DEF Job, Steps
  <2>2. disk' = [disk EXCEPT ![d] = k] /\ job' = [job EXCEPT ![d] = j]
    BY <1>8, <1>12 DEF Go
  <2> HIDE DEF j
  <2>3. InStep(j)
    BY <1>2, <1>9, <2>1 DEF InStep, Pulled, Reconciled
  <2>4. inv.value \in published \cup {None}
    BY <1>1, <1>2, <1>12 DEF Named, Of
  <2>5. Named(k, j, published, used)
    BY <1>1, <1>4, <1>6, <2>1, <2>4 DEF Named, Of
  <2>6. \A v \in Values \ published : Alive(k, j, v) => Alive(disk[d], job[d], v)
    BY <1>1, <1>4, <1>6, <2>1, <2>4 DEF Alive
  <2>7. \A v \in Values : Marked(k, j, v) => Dropped(v)
    BY <1>1, <1>6, <1>12, <2>1 DEF Marked
  <2>8. Keeps(d, k, j)
    BY <1>7 DEF Keeps
  <2>9. removals' \in Nat /\ crashes' \in Nat /\ answers' \in Nat
    BY <1>1 DEF EditsInv, SyncTypes
  <2> QED BY <1>1, <1>6, <2>1, <2>2, <2>3, <2>5, <2>6, <2>7, <2>8, <2>9, QuietStep
<1>13. CASE inv # job[d].remote
  <2> DEFINE j == [job[d] EXCEPT !.step = "put", !.next = inv]
             n == [k EXCEPT !.pending = inv]
  <2>1. /\ j \in Job /\ j.step = "put" /\ j.next = inv /\ j.remote = job[d].remote
    BY <1>1, <1>9 DEF Job, Steps
  <2>2. /\ n \in Keyring /\ n.base = disk[d].base /\ n.pending = inv /\ n.local = k.local
    BY <1>6, <1>9 DEF Keyring
  <2>3. disk' = [disk EXCEPT ![d] = n] /\ job' = [job EXCEPT ![d] = j]
    BY <1>8, <1>13 DEF Go
  <2> HIDE DEF j, n
  <2>4. InStep(j)
    BY <1>2, <1>9, <2>1 DEF InStep, Pulled, Reconciled
  <2>5. inv.value \in used \cup {None}
    BY <1>1, <1>3 DEF Named, Of
  <2>6. Named(n, j, published, used)
    BY <1>1, <1>4, <1>6, <2>1, <2>2, <2>5 DEF Named, Of, Sent
  <2>7. \A v \in Values \ published : inv.value = v => Alive(disk[d], job[d], v)
    BY <1>1, <1>3 DEF Named, Of, Alive
  <2>8. \A v \in Values \ published : Alive(n, j, v) => Alive(disk[d], job[d], v)
    BY <1>1, <1>4, <1>6, <2>1, <2>2, <2>7 DEF Alive
  <2>9. ASSUME NEW v \in Values, Marked(n, j, v)
        PROVE  /\ v \in used
               /\ v \notin published =>
                    Dropped(v) \/ (Alive(disk[d], job[d], v) /\ ~Alive(n, j, v))
    <3>1. CASE Marked(disk[d], job[d], v)
      BY <3>1, <1>1, <1>11
    <3>2. CASE ~Marked(disk[d], job[d], v)
      <4>1. inv.aliases[v].removed
        BY <3>2, <2>9, <2>1, <2>2 DEF Marked, Marks
      <4>2. disk[d].local = None /\ Previous(disk[d]) # None /\ Previous(disk[d]).value = v
        BY <3>2, <4>1, <1>3 DEF Marked, Marks
      <4>3. v \in used
        BY <4>2, <1>1 DEF Previous, Named, Of
      <4>4. v \notin published => Alive(disk[d], job[d], v)
        BY <4>2, <1>1 DEF Previous, Named, Of, Alive
      <4>5. v # None /\ inv.value # v
        BY <4>1, <1>1, <1>3
      <4>6. n.local # v
        BY <4>2, <4>5, <1>1, <1>4, <1>6, <2>2
      <4>7. ~Alive(n, j, v)
        BY <4>5, <4>6, <2>1, <2>2 DEF Alive
      <4> QED BY <4>3, <4>4, <4>7
    <3> QED BY <3>1, <3>2
  <2>10. EditsStep(d, n, j)
    BY <1>1, <1>10, <2>1, <2>2, <2>3, <2>4, <2>6, <2>8, <2>9
       DEF EditsStep, EditsInv, SyncTypes
  <2>11. Keeps(d, n, j)
    BY <1>7, <2>2 DEF Keeps
  <2> QED BY <2>10, <2>11, EditsStepKeeps, KeepsAll
<1> QED BY <1>12, <1>13

LEMMA PutKeeps ==
    ASSUME EditsInv, NEW d \in Devices, Put(d)
    PROVE  EditsInv' /\ KeepsEdits
<1>1. /\ disk[d] \in Keyring /\ job[d] \in Job /\ disk' = [disk EXCEPT ![d] = disk[d]]
      /\ disk[d].local \in Values \cup {None, Lost}
      /\ job[d].step = "put" /\ job[d].next \in Held
      /\ InStep(job[d]) /\ Named(disk[d], job[d], published, used)
      /\ None \notin Values /\ None \notin Inventory /\ Lost \notin Values
      /\ \A v \in Values : Marked(disk[d], job[d], v) => Dropped(v)
      /\ NoSync \in Job /\ InStep(NoSync)
      /\ server \in [version : Nat, content : Inventory] /\ server.version \in Nat
      /\ published \subseteq used /\ used \subseteq Values /\ undone \in BOOLEAN
      /\ UNCHANGED <<disk, used, answers, removals, crashes>>
      /\ removals \in Nat /\ crashes \in Nat /\ answers \in Nat
  BY OneDevice DEF Put, JobAt, EditsInv, SyncTypes
<1>2. job[d].next # None /\ job[d].next \in Inventory
  BY <1>1 DEF InStep, Held, Reconciled, Pulled
<1>3. \A v \in Values : Dropped(v) => v \in used
  BY DEF EditsInv
<1>4. CASE server.version = job[d].seen
  <2> DEFINE j == [job[d] EXCEPT !.step = "base", !.seen = @ + 1]
  <2>1. /\ server' = [version |-> server.version + 1, content |-> job[d].next]
        /\ published' = published \cup ({job[d].next.value} \ {None})
        /\ undone' = (undone \/ (/\ job[d].next.value # server.content.value
                                /\ job[d].next.value \in published))
        /\ job' = [job EXCEPT ![d] = j]
    BY <1>4 DEF Put, Go
  <2>2. /\ j \in Job /\ j.step = "base" /\ j.next = job[d].next /\ j.remote = job[d].remote
    <3>1. job[d].seen \in Nat /\ job[d].seen + 1 \in Nat
      BY <1>1 DEF Job
    <3>2. j = [job[d] EXCEPT !.step = "base", !.seen = job[d].seen + 1]
      OBVIOUS
    <3> HIDE DEF j
    <3> QED BY <1>1, <3>1, <3>2 DEF Job, Steps
  <2> HIDE DEF j
  <2>3. /\ job[d].next.value \in used \cup {None}
        /\ server' \in [version : Nat, content : Inventory]
        /\ server'.content = job[d].next
    BY <1>1, <1>2, <2>1 DEF Named, Of
  <2>4. InStep(j)
    BY <1>1, <2>2 DEF InStep, Pulled, Reconciled
  <2>5. /\ published \subseteq published' /\ published' \subseteq used
        /\ job[d].next.value \in published' \cup {None}
    BY <1>1, <2>1, <2>3
  <2>6. Named(disk[d], j, published', used)
    BY <1>1, <2>2, <2>5 DEF Named, Of
  <2>7. \A v \in Values : Alive(disk[d], j, v) => Alive(disk[d], job[d], v)
    BY <2>2 DEF Alive
  <2>8. \A v \in Values : Marked(disk[d], j, v) \/ Marks(server'.content, v) => Dropped(v)
    BY <1>1, <2>2, <2>3 DEF Marked
  <2>9. undone' \in BOOLEAN
    BY <2>1
  <2>10. EditsStep(d, disk[d], j)
    BY <1>1, <1>3, <2>1, <2>2, <2>3, <2>4, <2>5, <2>6, <2>7, <2>8, <2>9 DEF EditsStep
  <2>11. Keeps(d, disk[d], j)
    BY DEF Keeps
  <2> QED BY <2>10, <2>11, EditsStepKeeps, KeepsAll
<1>5. CASE server.version # job[d].seen
  <2>1. /\ \/ Go(d, NoSync)
           \/ Go(d, [NoSync EXCEPT !.step = "pull",
                !.person = IF job[d].person = "absent" THEN "absent" ELSE "present"])
        /\ UNCHANGED <<server, published, undone>>
    BY <1>5 DEF Put
  <2>2. PICK j \in {NoSync, [NoSync EXCEPT !.step = "pull",
                !.person = IF job[d].person = "absent" THEN "absent" ELSE "present"]} :
          job' = [job EXCEPT ![d] = j]
    BY <2>1 DEF Go
  <2>3. /\ j \in Job /\ j.remote = None /\ j.next = None /\ j.step \in {"idle", "pull"}
        /\ InStep(j)
    <3>1. CASE j = NoSync
      BY <1>1, <3>1 DEF NoSync
    <3>2. CASE j # NoSync
      <4> DEFINE p == IF job[d].person = "absent" THEN "absent" ELSE "present"
      <4>1. j = [NoSync EXCEPT !.step = "pull", !.person = p] /\ p \in {"absent", "present"}
        BY <2>2, <3>2
      <4> HIDE DEF p
      <4> QED BY <4>1 DEF NoSync, Job, Steps, Held, InStep, Pulled, Reconciled
    <3> QED BY <3>1, <3>2
  <2>4. Named(disk[d], j, published, used)
    BY <1>1, <2>3 DEF Named, Of, Sent, Reconciled, Pulled
  <2>5. \A v \in Values : Alive(disk[d], j, v) => Alive(disk[d], job[d], v)
    BY <2>3 DEF Alive
  <2>6. \A v \in Values : Marked(disk[d], j, v) => Dropped(v)
    BY <1>1, <2>3 DEF Marked, Marks
  <2>7. Keeps(d, disk[d], j)
    BY DEF Keeps
  <2> QED BY <1>1, <2>1, <2>2, <2>3, <2>4, <2>5, <2>6, <2>7, QuietStep
<1> QED BY <1>4, <1>5

\* The acknowledgement writes what was sent, and drops what is sent.
LEMMA AcknowledgeKeeps ==
    ASSUME EditsInv, NEW d \in Devices, SaveBase(d) \/ ClearPending(d) \/ SaveRecord(d)
    PROVE  EditsInv' /\ KeepsEdits
<1>1. /\ disk[d] \in Keyring /\ job[d] \in Job
      /\ disk[d].base \in Held /\ disk[d].pending \in Held /\ job[d].next \in Held
      /\ job[d].remote \in Held /\ job[d].seen \in Nat /\ disk[d].version \in Nat
      /\ job[d].step \in Sent
      /\ InStep(job[d]) /\ Named(disk[d], job[d], published, used)
      /\ \A v \in Values : Marked(disk[d], job[d], v) => Dropped(v)
      /\ NoSync \in Job /\ InStep(NoSync)
      /\ UNCHANGED <<server, published, undone, used, answers, removals, crashes>>
      /\ published \subseteq used
      /\ removals \in Nat /\ crashes \in Nat /\ answers \in Nat
  BY OneDevice DEF SaveBase, ClearPending, SaveRecord, JobAt, EditsInv, SyncTypes, Sent,
                   Reconciled, Pulled
<1>2. None \notin Values
  BY ValuesAssumption
<1>3. ASSUME NEW k \in Keyring, NEW j \in Job,
             disk' = [disk EXCEPT ![d] = k], job' = [job EXCEPT ![d] = j],
             k.local = disk[d].local, k.base \in {disk[d].base, job[d].next},
             k.pending \in {disk[d].pending, None},
             InStep(j), j = NoSync \/ (j.step \in Sent /\ j.next = job[d].next
                                       /\ j.remote = job[d].remote)
      PROVE  EditsInv' /\ KeepsEdits
  <2>1. NoSync.remote = None /\ NoSync.next = None /\ NoSync.step \notin Sent
    BY DEF NoSync, Sent, Reconciled, Pulled
  <2>2. Named(k, j, published, used)
    BY <1>1, <1>3, <2>1 DEF Named, Of
  <2>3. \A v \in Values \ published : Alive(k, j, v) => Alive(disk[d], job[d], v)
    BY <1>3, <2>1 DEF Alive
  <2>4. \A v \in Values : Marked(k, j, v) => Dropped(v)
    BY <1>1, <1>3, <2>1 DEF Marked, Marks
  <2>5. Keeps(d, k, j)
    BY <1>3 DEF Keeps
  <2> QED BY <1>1, <1>3, <2>2, <2>3, <2>4, <2>5, QuietStep
<1>4. CASE SaveBase(d)
  <2> DEFINE k == [disk[d] EXCEPT !.base = job[d].next]
             j == [job[d] EXCEPT !.step = "clear"]
  <2>1. k \in Keyring /\ k.local = disk[d].local /\ k.base = job[d].next /\ k.pending = disk[d].pending
    BY <1>1 DEF Keyring
  <2>2. j \in Job /\ j.step = "clear" /\ j.next = job[d].next /\ j.remote = job[d].remote
    BY <1>1 DEF Job, Steps
  <2>3. disk' = [disk EXCEPT ![d] = k] /\ job' = [job EXCEPT ![d] = j]
    BY <1>4 DEF SaveBase, Go
  <2> HIDE DEF k, j
  <2>4. InStep(j) /\ j.step \in Sent
    BY <1>1, <2>2 DEF InStep, Sent, Reconciled, Pulled
  <2> QED BY <1>3, <2>1, <2>2, <2>3, <2>4
<1>5. CASE ClearPending(d)
  <2> DEFINE k == [disk[d] EXCEPT !.pending = None]
             j == [job[d] EXCEPT !.step = "record"]
  <2>1. k \in Keyring /\ k.local = disk[d].local /\ k.base = disk[d].base /\ k.pending = None
    BY <1>1 DEF Keyring, Held
  <2>2. j \in Job /\ j.step = "record" /\ j.next = job[d].next /\ j.remote = job[d].remote
    BY <1>1 DEF Job, Steps
  <2>3. disk' = [disk EXCEPT ![d] = k] /\ job' = [job EXCEPT ![d] = j]
    BY <1>5 DEF ClearPending, Go
  <2> HIDE DEF k, j
  <2>4. InStep(j) /\ j.step \in Sent
    BY <1>1, <2>2 DEF InStep, Sent, Reconciled, Pulled
  <2> QED BY <1>3, <2>1, <2>2, <2>3, <2>4
<1>6. CASE SaveRecord(d)
  <2> DEFINE k == [disk[d] EXCEPT !.version = job[d].seen, !.conflict = FALSE]
  <2>1. k \in Keyring /\ k.local = disk[d].local /\ k.base = disk[d].base /\ k.pending = disk[d].pending
    BY <1>1 DEF Keyring
  <2>2. disk' = [disk EXCEPT ![d] = k] /\ job' = [job EXCEPT ![d] = NoSync]
    BY <1>6 DEF SaveRecord, Go
  <2> HIDE DEF k
  <2> QED BY <1>1, <1>3, <2>1, <2>2
<1> QED BY <1>4, <1>5, <1>6

LEMMA CrashKeeps ==
    ASSUME EditsInv, NEW d \in Devices, Stop(d)
    PROVE  EditsInv' /\ KeepsEdits
<1>1. /\ disk[d] \in Keyring /\ disk' = [disk EXCEPT ![d] = disk[d]]
      /\ job' = [job EXCEPT ![d] = NoSync] /\ NoSync \in Job /\ InStep(NoSync)
      /\ Named(disk[d], job[d], published, used)
      /\ \A v \in Values : Marked(disk[d], job[d], v) => Dropped(v)
      /\ UNCHANGED <<server, published, undone, used, removals, answers>>
      /\ crashes' = crashes + 1
      /\ removals \in Nat /\ crashes \in Nat /\ answers \in Nat
  BY OneDevice DEF Stop, Go, EditsInv, SyncTypes
<1>2. NoSync.remote = None /\ NoSync.next = None /\ NoSync.step \notin Sent
  BY DEF NoSync, Sent, Reconciled, Pulled
<1>3. Named(disk[d], NoSync, published, used)
  BY <1>1, <1>2 DEF Named, Of
<1>4. \A v \in Values : Alive(disk[d], NoSync, v) => Alive(disk[d], job[d], v)
  BY <1>2 DEF Alive
<1>5. \A v \in Values : Marked(disk[d], NoSync, v) => Dropped(v)
  BY <1>1, <1>2 DEF Marked, Marks
<1>6. Keeps(d, disk[d], NoSync)
  BY DEF Keeps
<1>7. removals' \in Nat /\ crashes' \in Nat /\ answers' \in Nat
  BY <1>1
<1> QED BY <1>1, <1>3, <1>4, <1>5, <1>6, <1>7, QuietStep

LEMMA InitEdits == SyncInit => EditsInv
<1> SUFFICES ASSUME SyncInit PROVE EditsInv
  OBVIOUS
<1>1. /\ First \in Values /\ None \notin Values /\ Lost \notin Values /\ None \notin Inventory
      /\ None # Lost
  BY ValuesAssumption
<1>2. /\ FirstInventory \in Inventory /\ FirstInventory.value = First
      /\ \A v \in Values : ~FirstInventory.aliases[v].removed
  BY <1>1 DEF FirstInventory, NoAliases, Inventory, Aliases
<1>3. NoSync \in Job /\ NoSync.remote = None /\ NoSync.next = None /\ NoSync.step = "idle" /\ InStep(NoSync)
  BY DEF NoSync, Job, Steps, Held, InStep, Pulled, Reconciled
<1>4. \A d \in Devices :
        /\ disk[d] \in Keyring /\ job[d] = NoSync
        /\ disk[d].local \in {First, Lost} /\ disk[d].base \in {None, FirstInventory}
        /\ disk[d].pending = None
  <2> TAKE d \in Devices
  <2>1. CASE d \in Joining
    BY <2>1 DEF SyncInit, Keyring, Held
  <2>2. CASE d \notin Joining
    BY <2>2, <1>1, <1>2 DEF SyncInit, Keyring, Held
  <2> QED BY <2>1, <2>2
<1>5. /\ server = [version |-> 1, content |-> FirstInventory]
      /\ published = {First} /\ used = {First} /\ undone = FALSE
      /\ removals = 0 /\ crashes = 0 /\ answers = 0
  BY DEF SyncInit
<1>6. /\ \E f \in {disk} : disk = [d \in Devices |-> f[d]]
      /\ job = [d \in Devices |-> NoSync]
  BY DEF SyncInit
<1>7. SyncTypes
  BY <1>1, <1>2, <1>3, <1>4, <1>5, <1>6 DEF SyncTypes
<1>8. \A d \in Devices : InStep(job[d]) /\ Named(disk[d], job[d], published, used)
  BY <1>2, <1>3, <1>4, <1>5 DEF Named, Of, Sent, Reconciled, Pulled
<1>9. \A v \in Values : ~Dropped(v)
  BY <1>2, <1>3, <1>4, <1>5 DEF Dropped, Marked, Marks
<1>10. \A v \in Values \ published, d \in Devices : ~Alive(disk[d], job[d], v)
  BY <1>1, <1>3, <1>4, <1>5 DEF Alive
<1> QED BY <1>2, <1>5, <1>7, <1>8, <1>9, <1>10 DEF EditsInv

LEMMA StepEdits == EditsInv /\ [SyncNext]_syncVars => EditsInv' /\ (syncVars' = syncVars \/ KeepsEdits)
<1> SUFFICES ASSUME EditsInv, [SyncNext]_syncVars PROVE EditsInv' /\ (syncVars' = syncVars \/ KeepsEdits)
  OBVIOUS
<1>1. CASE UNCHANGED syncVars
  BY <1>1 DEF syncVars, EditsInv, SyncTypes, Dropped
<1>2. CASE SyncNext
  <2> PICK d \in Devices :
        \/ Edit(d) \/ Remove(d) \/ Stage(d)
        \/ BeginSync(d) \/ SyncStep(d) \/ Stop(d)
    BY <1>2 DEF SyncNext
  <2> QED BY EditKeeps, RemoveKeeps, StageKeeps, BeginKeeps, PullKeeps, PrepareKeeps,
             PutKeeps, AcknowledgeKeeps, CrashKeeps DEF SyncStep
<1> QED BY <1>1, <1>2

THEOREM EditsHold == SyncSpec => []EditsInv
<1>1. EditsInv /\ [SyncNext]_syncVars => EditsInv'
  BY StepEdits
<1> QED BY InitEdits, <1>1, PTL DEF SyncSpec

\* Nothing a person did here and the server never had is overwritten or
\* dropped by a sync, whatever comes in between (sync.go: collectInventory,
\* merge and the acknowledgement of syncOnce).
THEOREM EditsAreKept == SyncSpec => KeepsEditsProperty
<1>1. EditsInv /\ [SyncNext]_syncVars => [KeepsEdits]_syncVars
  BY StepEdits
<1> QED BY EditsHold, <1>1, PTL DEF SyncSpec, KeepsEditsProperty

-----------------------------------------------------------------------------
(* The invariant behind NoStaleUndo. *)

\* The histories that NoStaleUndo speaks of.
Calm == removals = 0 /\ answers = 0 /\ crashes <= 1

HasValue(inv) == inv # None => inv.value \in Values

\* Only a device that just joined has no key in its keyring; otherwise what is
\* sent is what the keyring has.
Whole(k, j) ==
    /\ HasValue(k.base) /\ HasValue(j.remote) /\ HasValue(j.next)
    /\ k.local \notin Values =>
         /\ k.base = None /\ j.step \notin Pulled
         /\ k.pending # None => k.pending.value = None
    /\ k.base = None => k.version = 0
    /\ j.step \in Reconciled => k.local = j.next.value
    /\ j.step = "put" => k.pending = j.next
    /\ j.step \in {"clear", "record"} => k.base = j.next

\* No inventory of a device is ahead of the server's, but the one it sends.
Ordered(k, j, s) ==
    /\ k.base # None => UpTo(k.base, s.content)
    /\ k.base # None /\ j.step \in {"push", "put"} => UpTo(k.base, j.remote)
    /\ j.step \in {"push", "put"} => UpTo(j.remote, s.content)
    /\ j.step = "put" => UpTo(j.remote, j.next)
    /\ j.step \in Sent => UpTo(j.next, s.content)

\* A version that is the server's still names what the device saw there.
Current(k, j, s) ==
    /\ s.version > 0 /\ k.version <= s.version /\ j.seen <= s.version
    /\ j.step \in Pulled => k.version <= j.seen
    /\ j.step \in {"push", "put"} /\ j.seen = s.version => j.remote = s.content
    /\ j.step \in Sent /\ j.seen = s.version => j.next = s.content
    /\ k.version = s.version => k.base # None /\ k.base.value = s.content.value

\* What the server has as the device's base, and the keyring has not, is an
\* edit; and what would be sent is the server's or an edit.
Newer(k, j, s, pub) ==
    /\ k.base # None /\ k.local \in Values /\ k.base.value = s.content.value =>
         k.local = k.base.value \/ k.local \notin pub
    /\ j.step = "push" /\ k.base # None /\ k.local = k.base.value => k.local = j.remote.value
    /\ j.step \in {"push", "put"} /\ j.seen = s.version =>
         k.local = j.remote.value \/ k.local \notin pub

\* The same of what is pending.
PendingNewer(k, s, pub) ==
    (k.base # None /\ k.pending # None /\ k.pending.value # None
       /\ k.base.value = s.content.value) =>
      k.pending.value = k.base.value \/ k.pending.value \notin pub

\* Before any crash, what is pending has not been acknowledged.
Uncrashed(k, j) ==
    /\ k.base # None /\ k.pending # None /\ j.step # "clear" =>
         k.local # k.base.value /\ k.pending.value \notin {None, k.base.value}
    /\ j.step \in {"pull", "push", "put", "base", "clear"}
         /\ k.pending # None /\ k.pending.value # None => k.local = k.pending.value

Fresh(k, j, s, pub, c) ==
    /\ Whole(k, j) /\ Ordered(k, j, s) /\ Current(k, j, s) /\ Newer(k, j, s, pub)
    /\ c = 0 => Uncrashed(k, j)
    /\ c = 0 \/ j.step # "clear" => PendingNewer(k, s, pub)

UndoInv ==
    Calm =>
      /\ ~undone
      /\ server.content.value \in Values
      /\ \A v \in Values : ~Dropped(v)
      /\ \A d \in Devices : Fresh(disk[d], job[d], server, published, crashes)

\* A step of d that leaves the server alone.
LEMMA FreshStep ==
    ASSUME EditsInv, UndoInv, Calm, NEW d \in Devices, NEW k \in Keyring, NEW j \in Job,
           disk' = [disk EXCEPT ![d] = k], job' = [job EXCEPT ![d] = j],
           UNCHANGED <<server, published, undone>>,
           crashes' = crashes \/ crashes = 0,
           \A v \in Values : ~Marked(k, j, v),
           Fresh(k, j, server, published, crashes')
    PROVE  UndoInv'
<1>1. /\ disk'[d] = k /\ job'[d] = j
      /\ \A e \in Devices \ {d} : disk'[e] = disk[e] /\ job'[e] = job[e]
  BY DEF EditsInv, SyncTypes
<1>2. \A v \in Values : ~Dropped(v)'
  BY <1>1 DEF UndoInv, Dropped
<1>3. \A e \in Devices : Fresh(disk'[e], job'[e], server', published', crashes')
  <2> TAKE e \in Devices
  <2>1. CASE e = d
    BY <2>1, <1>1
  <2>2. CASE e # d
    <3>1. Fresh(disk[e], job[e], server, published, crashes)
      BY DEF UndoInv
    <3>2. Fresh(disk[e], job[e], server, published, crashes')
      BY <3>1 DEF Fresh
    <3> QED BY <2>2, <3>2, <1>1
  <2> QED BY <2>1, <2>2
<1> QED BY <1>2, <1>3 DEF UndoInv

\* What is known of one device, without removals.
LEMMA OneFresh ==
    ASSUME EditsInv, UndoInv, Calm, NEW d \in Devices
    PROVE  /\ Fresh(disk[d], job[d], server, published, crashes)
           /\ Fresh(disk[d], job[d], server, published, 1) \/ crashes = 0
           /\ \A v \in Values : ~Marked(disk[d], job[d], v) /\ ~Marks(server.content, v)
           /\ server.content.value \in Values /\ ~undone
           /\ crashes \in {0, 1}
<1>1. crashes \in {0, 1}
  BY DEF EditsInv, SyncTypes, Calm
<1> QED BY <1>1 DEF UndoInv, Dropped

\* A sync that stops before the pending edits are removed.
LEMMA StoppedIsFresh ==
    ASSUME NEW k, NEW j, NEW s, NEW pub, NEW c, Fresh(k, j, s, pub, c),
           c = 0 \/ j.step # "clear",
           s.version \in Nat
    PROVE  /\ Fresh(k, NoSync, s, pub, 1)
           /\ j.step # "clear" => Fresh(k, NoSync, s, pub, c)
<1>1. /\ NoSync.step = "idle" /\ NoSync.remote = None /\ NoSync.next = None /\ NoSync.seen = 0
  BY DEF NoSync
<1>2. Whole(k, NoSync)
  BY <1>1 DEF Fresh, Whole, HasValue, Pulled, Reconciled
<1>3. Ordered(k, NoSync, s)
  BY <1>1 DEF Fresh, Ordered, Sent, Reconciled, Pulled
<1>4. Current(k, NoSync, s)
  BY <1>1 DEF Fresh, Current, Sent, Reconciled, Pulled
<1>5. Newer(k, NoSync, s, pub)
  BY <1>1 DEF Fresh, Newer
<1>6. PendingNewer(k, s, pub)
  BY DEF Fresh
<1>7. j.step # "clear" /\ c = 0 => Uncrashed(k, NoSync)
  BY <1>1 DEF Fresh, Uncrashed
<1> QED BY <1>1, <1>2, <1>3, <1>4, <1>5, <1>6, <1>7 DEF Fresh

-----------------------------------------------------------------------------
(* What is collected when nothing was removed. *)

LEMMA CollectedPlain ==
    ASSUME NEW k \in Keyring, NEW remote \in Held,
           \A v \in Values : ~Marks(k.base, v) /\ ~Marks(k.pending, v) /\ ~Marks(remote, v),
           k.local \notin Values =>
             k.base = None /\ (k.pending # None => k.pending.value = None)
    PROVE  /\ Collected(k, remote) \in Inventory
           /\ \A v \in Values : ~Collected(k, remote).aliases[v].removed
           /\ k.local \in Values => Collected(k, remote).value = k.local
           /\ k.local \notin Values /\ remote = None => Collected(k, remote).value = None
           /\ remote # None => UpTo(remote, Collected(k, remote))
<1> DEFINE c == Collected(k, remote)
<1>1. /\ c \in Inventory
      /\ \/ c.value = None
         \/ k.local \in Values /\ c.value = k.local
         \/ /\ k.local \notin Values
            /\ \E inv \in {k.base, k.pending, remote} \ {None} : c.value = inv.value
      /\ k.local \in Values /\ ~c.aliases[k.local].removed => c.value = k.local
      /\ \A v \in Values : c.aliases[v].removed =>
           \/ \E inv \in {k.base, k.pending, remote} \ {None} : inv.aliases[v].removed
           \/ k.local = None /\ Previous(k) # None /\ Previous(k).value = v
      /\ remote # None => UpTo(remote, c)
  BY CollectedGives
<1> HIDE DEF c
<1>2. None \notin Values
  BY ValuesAssumption
<1>3. \A v \in Values : ~c.aliases[v].removed
  <2> SUFFICES ASSUME NEW v \in Values, c.aliases[v].removed PROVE FALSE
    OBVIOUS
  <2>1. k.local = None /\ Previous(k) # None /\ Previous(k).value = v
    BY <1>1 DEF Marks
  <2> QED BY <2>1, <1>2 DEF Previous
<1>4. k.local \notin Values /\ remote = None => c.value = None
  BY <1>1
<1> QED BY <1>1, <1>3, <1>4 DEF c

\* Without anything pending, a keyring that is its base's has nothing to send.
LEMMA CollectedSame ==
    ASSUME NEW k \in Keyring, NEW remote \in Held,
           \A v \in Values : ~Marks(k.base, v) /\ ~Marks(remote, v),
           k.local \in Values, k.pending = None, k.base # None, k.local = k.base.value,
           remote # None => remote.value = k.local /\ UpTo(k.base, remote)
    PROVE  Collected(k, remote) = IF remote = None THEN k.base ELSE remote
<1> DEFINE r == IF remote = None THEN k.base ELSE remote
           one == Merged(Empty, k.base)
<1>1. /\ k.base \in Inventory /\ r \in Inventory /\ r.value = k.local
      /\ k.base.aliases \in Aliases /\ r.aliases \in Aliases
  BY DEF Keyring, Held, Inventory
<1>2. \A v \in Values :
        /\ k.base.aliases[v] \in [version : Nat, removed : BOOLEAN]
        /\ r.aliases[v] \in [version : Nat, removed : BOOLEAN]
        /\ ~k.base.aliases[v].removed /\ ~r.aliases[v].removed
        /\ k.base.aliases[v].version <= r.aliases[v].version
  BY <1>1 DEF Aliases, Marks, UpTo
<1>3. one = k.base
  <2> DEFINE al == [v \in Values |-> NewerAlias(Empty.aliases[v], k.base.aliases[v])]
  <2>1. one = [value |-> k.base.value, aliases |-> al]
    BY ValuesAssumption DEF Merged
  <2>2. \A v \in Values : al[v] = k.base.aliases[v]
    <3> TAKE v \in Values
    <3>1. Empty.aliases[v] = [version |-> 0, removed |-> FALSE]
      BY DEF Empty, NoAliases
    <3>2. k.base.aliases[v].version = 0 => k.base.aliases[v] = [version |-> 0, removed |-> FALSE]
      BY <1>2
    <3>3. k.base.aliases[v].version \in Nat
      BY <1>2
    <3> QED BY <3>1, <3>2, <3>3 DEF NewerAlias
  <2>3. al = k.base.aliases
    BY <1>1, <2>2 DEF Aliases
  <2> HIDE DEF al
  <2> QED BY <1>1, <2>1, <2>3 DEF Inventory
<1>4. Merged(one, k.pending) = k.base
  BY <1>3 DEF Merged
<1>5. Sources(k, remote) = r
  <2>1. CASE remote = None
    BY <2>1, <1>4 DEF Sources, Merged
  <2>2. CASE remote # None
    <3> DEFINE al == [v \in Values |-> NewerAlias(k.base.aliases[v], remote.aliases[v])]
    <3>1. Sources(k, remote) = [value |-> remote.value, aliases |-> al]
      BY <2>2, <1>4, ValuesAssumption DEF Sources, Merged
    <3>2. \A v \in Values : al[v] = remote.aliases[v]
      <4> TAKE v \in Values
      <4>1. /\ k.base.aliases[v] \in [version : Nat, removed : BOOLEAN]
            /\ remote.aliases[v] \in [version : Nat, removed : BOOLEAN]
            /\ ~k.base.aliases[v].removed /\ ~remote.aliases[v].removed
            /\ k.base.aliases[v].version <= remote.aliases[v].version
        BY <2>2, <1>2
      <4>2. k.base.aliases[v].version = remote.aliases[v].version =>
              k.base.aliases[v] = remote.aliases[v]
        BY <4>1
      <4> QED BY <4>1, <4>2 DEF NewerAlias
    <3>3. al = remote.aliases
      BY <2>2, <1>1, <3>2 DEF Aliases
    <3> HIDE DEF al
    <3> QED BY <2>2, <1>1, <3>1, <3>3 DEF Inventory
  <2> QED BY <2>1, <2>2
<1> HIDE DEF r, one
<1>6. WithLocal(k, remote) = r
  BY <1>1, <1>5 DEF WithLocal, Inventory
<1>7. Noted(k, remote) = r
  BY <1>6, ValuesAssumption DEF Noted, Previous
<1>8. WithoutRemoved(r) = r
  BY <1>1, <1>2, WithoutRemovedGives
<1> QED BY <1>7, <1>8, CollectedParts DEF r

-----------------------------------------------------------------------------
(* No step undoes. *)

LEMMA EditFresh ==
    ASSUME EditsInv, EditsInv', UndoInv, Calm, NEW d \in Devices, Edit(d)
    PROVE  UndoInv'
<1> PICK v \in Values \ used : disk' = [disk EXCEPT ![d].local = v]
  BY DEF Edit
<1> DEFINE k == [disk[d] EXCEPT !.local = v]
<1>1. /\ disk[d] \in Keyring /\ job[d] \in Job /\ job[d] = NoSync
      /\ job = [job EXCEPT ![d] = job[d]]
      /\ Named(disk[d], job[d], published, used) /\ published \subseteq used
      /\ None \notin Values
  BY OneDevice DEF Edit, EditsInv, SyncTypes
<1>2. /\ k \in Keyring /\ k.local = v /\ k.base = disk[d].base
      /\ k.pending = disk[d].pending /\ k.version = disk[d].version
  BY <1>1 DEF Keyring
<1>3. /\ disk' = [disk EXCEPT ![d] = k] /\ job' = [job EXCEPT ![d] = job[d]]
      /\ UNCHANGED <<server, published, undone, crashes>>
  BY <1>1 DEF Edit
<1>4. /\ Fresh(disk[d], job[d], server, published, crashes)
      /\ \A w \in Values : ~Marked(disk[d], job[d], w)
  BY OneFresh
<1> HIDE DEF k
<1>5. NoSync.step = "idle"
  BY DEF NoSync
<1>6. k.base # None => k.base.value # v
  BY <1>1, <1>2 DEF Named, Of
<1>7. Whole(k, job[d])
  BY <1>1, <1>2, <1>4, <1>5 DEF Fresh, Whole, Reconciled, Pulled
<1>8. Ordered(k, job[d], server) /\ Current(k, job[d], server)
  BY <1>2, <1>4 DEF Fresh, Ordered, Current
<1>9. Newer(k, job[d], server, published)
  BY <1>1, <1>2, <1>4, <1>5 DEF Fresh, Newer
<1>10. PendingNewer(k, server, published)
  BY <1>1, <1>2, <1>4, <1>5 DEF Fresh, PendingNewer
<1>11. crashes = 0 => Uncrashed(k, job[d])
  BY <1>1, <1>2, <1>4, <1>5, <1>6 DEF Fresh, Uncrashed
<1>12. Fresh(k, job[d], server, published, crashes')
  BY <1>3, <1>7, <1>8, <1>9, <1>10, <1>11 DEF Fresh
<1>13. \A w \in Values : ~Marked(k, job[d], w)
  BY <1>2, <1>4 DEF Marked
<1> QED BY <1>1, <1>2, <1>3, <1>12, <1>13, FreshStep

\* Staging notes what the keyring has.
LEMMA StagedFresh ==
    ASSUME EditsInv, UndoInv, Calm, NEW d \in Devices, job[d] = NoSync,
           NEW k \in {disk[d], Staged(disk[d])}
    PROVE  /\ k \in Keyring /\ k.local = disk[d].local /\ k.base = disk[d].base
           /\ Fresh(k, NoSync, server, published, crashes)
           /\ \A v \in Values : ~Marked(k, NoSync, v)
<1>1. /\ Fresh(disk[d], NoSync, server, published, crashes)
      /\ \A w \in Values : ~Marked(disk[d], NoSync, w)
      /\ disk[d] \in Keyring
      /\ None \notin Values /\ None \notin Inventory
      /\ NoSync.step = "idle" /\ NoSync.next = None /\ NoSync.remote = None
  BY OneFresh, OneDevice DEF NoSync
<1>2. CASE k = disk[d]
  BY <1>1, <1>2
<1>3. CASE k = Staged(disk[d])
  <2> DEFINE c == Collected(disk[d], None)
  <2>1. /\ k \in Keyring
        /\ k.local = disk[d].local /\ k.base = disk[d].base
        /\ k.version = disk[d].version
        /\ k.pending = IF c = disk[d].base THEN None ELSE c
    BY <1>1, <1>3, StagedGives
  <2>2. /\ disk[d].local \notin Values =>
             disk[d].base = None /\ (disk[d].pending # None => disk[d].pending.value = None)
        /\ None \in Held
        /\ \A v \in Values :
             ~Marks(disk[d].base, v) /\ ~Marks(disk[d].pending, v) /\ ~Marks(None, v)
    BY <1>1 DEF Fresh, Whole, Marked, Marks, Held
  <2>3. /\ c \in Inventory
        /\ \A v \in Values : ~c.aliases[v].removed
        /\ disk[d].local \in Values => c.value = disk[d].local
        /\ disk[d].local \notin Values => c.value = None
    BY <1>1, <2>2, CollectedPlain
  <2>4. disk[d].local \in Values /\ disk[d].pending = None /\ disk[d].base # None
          /\ disk[d].local = disk[d].base.value => c = disk[d].base
    BY <1>1, <2>2, CollectedSame
  <2> HIDE DEF c
  <2>5. Whole(k, NoSync)
    BY <1>1, <2>1, <2>2, <2>3 DEF Fresh, Whole, Reconciled, Pulled
  <2>6. Ordered(k, NoSync, server) /\ Current(k, NoSync, server) /\ Newer(k, NoSync, server, published)
    BY <1>1, <2>1 DEF Fresh, Ordered, Current, Newer
  <2>7. ASSUME crashes = 0 PROVE Uncrashed(k, NoSync)
    <3>1. Uncrashed(disk[d], NoSync)
      BY <1>1, <2>7 DEF Fresh
    <3>2. k.base # None /\ k.pending # None =>
            k.local # k.base.value /\ k.pending.value \notin {None, k.base.value}
      BY <1>1, <2>1, <2>2, <2>3, <2>4, <3>1 DEF Uncrashed
    <3> QED BY <1>1, <3>2 DEF Uncrashed
  <2>8. PendingNewer(k, server, published)
    BY <1>1, <2>1, <2>2, <2>3 DEF Fresh, Newer, PendingNewer
  <2>9. \A v \in Values : ~Marked(k, NoSync, v)
    BY <1>1, <2>1, <2>3 DEF Marked, Marks
  <2> QED BY <2>1, <2>5, <2>6, <2>7, <2>8, <2>9 DEF Fresh
<1> QED BY <1>2, <1>3

LEMMA StageFresh ==
    ASSUME EditsInv, EditsInv', UndoInv, Calm, NEW d \in Devices, Stage(d)
    PROVE  UndoInv'
<1> DEFINE k == Staged(disk[d])
<1>1. /\ job[d] = NoSync /\ job' = [job EXCEPT ![d] = NoSync] /\ NoSync \in Job
      /\ disk' = [disk EXCEPT ![d] = k]
      /\ UNCHANGED <<server, published, undone, crashes>>
  BY OneDevice DEF Stage
<1>2. /\ k \in Keyring /\ Fresh(k, NoSync, server, published, crashes)
      /\ \A v \in Values : ~Marked(k, NoSync, v)
  BY <1>1, StagedFresh
<1> HIDE DEF k
<1>3. Fresh(k, NoSync, server, published, crashes')
  BY <1>1, <1>2
<1> QED BY <1>1, <1>2, <1>3, FreshStep

LEMMA BeginFresh ==
    ASSUME EditsInv, EditsInv', UndoInv, Calm, NEW d \in Devices, BeginSync(d)
    PROVE  UndoInv'
<1>1. /\ InStep(job[d]) /\ job[d].step = "idle"
      /\ job = [job EXCEPT ![d] = job[d]] /\ NoSync \in Job
      /\ None \notin Values
  BY OneDevice DEF BeginSync, JobAt
<1>2. job[d] = NoSync
  BY <1>1 DEF InStep
<1>3. PICK k \in {disk[d], Staged(disk[d])}, person \in {"absent", "present"} :
        IF k.pending # None /\ Conflicting(k, k.pending.value)
        THEN disk' = [disk EXCEPT ![d] = k] /\ UNCHANGED job
        ELSE /\ disk' = [disk EXCEPT ![d] =
                   IF k.pending # None THEN MergedInto(k, k.pending.value) ELSE k]
             /\ Go(d, [NoSync EXCEPT !.step = "pull", !.person = person])
  BY DEF BeginSync
<1>4. UNCHANGED <<server, published, undone, crashes>>
  BY DEF BeginSync
<1>5. /\ k \in Keyring /\ Fresh(k, NoSync, server, published, crashes)
      /\ \A v \in Values : ~Marked(k, NoSync, v)
  BY <1>2, StagedFresh
<1>6. CASE k.pending # None /\ Conflicting(k, k.pending.value)
  <2>1. disk' = [disk EXCEPT ![d] = k] /\ job' = [job EXCEPT ![d] = NoSync]
    BY <1>1, <1>2, <1>3, <1>6
  <2>2. Fresh(k, NoSync, server, published, crashes')
    BY <1>4, <1>5
  <2> QED BY <1>1, <1>4, <1>5, <2>1, <2>2, FreshStep
<1>7. CASE ~(k.pending # None /\ Conflicting(k, k.pending.value))
  <2> DEFINE m == IF k.pending # None THEN MergedInto(k, k.pending.value) ELSE k
             j == [NoSync EXCEPT !.step = "pull", !.person = person]
  <2>1. disk' = [disk EXCEPT ![d] = m] /\ job' = [job EXCEPT ![d] = j]
    BY <1>3, <1>7 DEF Go
  <2>2. /\ j \in Job /\ j.remote = None /\ j.next = None /\ j.step = "pull" /\ j.seen = NoSync.seen
        /\ NoSync.remote = None /\ NoSync.next = None /\ NoSync.step = "idle"
    BY DEF NoSync, Job, Steps, Held
  <2>3. /\ m \in Keyring /\ m.base = k.base /\ m.pending = k.pending /\ m.version = k.version
        /\ m.local = k.local \/ (k.pending # None /\ m.local = k.pending.value)
        /\ k.local \in Values => m.local \in Values
        /\ k.pending # None /\ k.pending.value # None
             /\ (k.local \notin Values \/ (k.base # None /\ k.local = k.base.value)) =>
             m.local = k.pending.value
    <3>1. CASE k.pending = None
      BY <3>1, <1>5
    <3>2. CASE k.pending # None
      <4>1. k.pending.value \in Values \cup {None}
        BY <3>2, <1>5 DEF Keyring, Held, Inventory
      <4>2. m = MergedInto(k, k.pending.value)
        BY <3>2
      <4> HIDE DEF m
      <4> QED BY <3>2, <4>1, <4>2, <1>5, MergedIntoGives
    <3> QED BY <3>1, <3>2
  <2>4. k.pending # None =>
          ~(/\ k.local \in Values /\ k.pending.value \in Values /\ k.local # k.pending.value
            /\ IF k.base = None THEN TRUE
               ELSE k.base.value # k.local /\ k.base.value # k.pending.value)
    BY <1>7 DEF Conflicting
  <2>5. k.pending # None => k.pending.value \in Values \cup {None}
    BY <1>5 DEF Keyring, Held, Inventory
  <2> HIDE DEF m, j
  <2>6. Whole(m, j)
    BY <1>1, <1>5, <2>2, <2>3 DEF Fresh, Whole, HasValue, Reconciled, Pulled
  <2>7. Ordered(m, j, server)
    BY <1>5, <2>2, <2>3 DEF Fresh, Ordered, Sent, Reconciled, Pulled
  <2>8. Current(m, j, server)
    BY <1>5, <2>2, <2>3 DEF Fresh, Current, Sent, Reconciled, Pulled
  <2>9. PendingNewer(m, server, published)
    BY <1>5, <2>2, <2>3 DEF Fresh, PendingNewer
  <2>10. Newer(m, j, server, published)
    BY <1>1, <1>5, <2>2, <2>3, <2>9 DEF Fresh, Newer, PendingNewer
  <2>11. ASSUME crashes = 0 PROVE Uncrashed(m, j)
    <3>1. k.base # None /\ k.pending # None =>
            k.local # k.base.value /\ k.pending.value \notin {None, k.base.value}
      BY <1>5, <2>2, <2>11 DEF Fresh, Uncrashed
    <3>2. m.base # None /\ m.pending # None =>
            m.local # m.base.value /\ m.pending.value \notin {None, m.base.value}
      BY <2>3, <3>1
    <3>3. m.pending # None /\ m.pending.value # None => m.local = m.pending.value
      BY <2>3, <2>4, <2>5, <3>1
    <3> QED BY <2>2, <3>2, <3>3 DEF Uncrashed
  <2>12. Fresh(m, j, server, published, crashes')
    BY <1>4, <2>6, <2>7, <2>8, <2>9, <2>10, <2>11 DEF Fresh
  <2>13. \A v \in Values : ~Marked(m, j, v)
    BY <1>5, <2>2, <2>3 DEF Marked
  <2> QED BY <1>4, <2>1, <2>2, <2>3, <2>12, <2>13, FreshStep
<1> QED BY <1>6, <1>7

LEMMA PullFresh ==
    ASSUME EditsInv, EditsInv', UndoInv, Calm, Calm', NEW d \in Devices, PullVault(d)
    PROVE  UndoInv'
<1> DEFINE combined == Collected(disk[d], server.content)
           k == KeyState(disk[d], combined)
           remote == WithoutRemoved([server.content EXCEPT !.aliases = combined.aliases])
           needed == server.version # k.version \/ k.conflict
           pulled == [step |-> "push", remote |-> server.content, seen |-> server.version,
                      next |-> None, person |-> job[d].person]
           value == server.content.value
           had == disk[d]
<1>1. /\ had \in Keyring /\ job[d] \in Job /\ NoSync \in Job
      /\ job[d].step = "pull"
      /\ None \notin Values /\ None \notin Inventory
      /\ server.content \in Inventory /\ server.version \in Nat
      /\ server.content # None /\ server.content \in Held
      /\ job[d].remote = None /\ job[d].next = None
      /\ Named(had, job[d], published, used)
      /\ UNCHANGED <<server, published, undone, crashes>>
  BY OneDevice DEF PullVault, JobAt, InStep, Held
<1>2. /\ Fresh(had, job[d], server, published, crashes)
      /\ \A v \in Values : ~Marked(had, job[d], v) /\ ~Marks(server.content, v)
      /\ value \in Values
  BY OneFresh
<1>3. /\ had.local \notin Values =>
           had.base = None /\ (had.pending # None => had.pending.value = None)
      /\ \A v \in Values :
           ~Marks(had.base, v) /\ ~Marks(had.pending, v) /\ ~Marks(server.content, v)
  BY <1>2 DEF Fresh, Whole, Marked
<1>4. combined \in Inventory /\ \A v \in Values : ~combined.aliases[v].removed
  BY <1>1, <1>3, CollectedPlain
<1>5. k = had
  BY <1>4 DEF KeyState
<1>6. remote.value = value
  <2>1. /\ [server.content EXCEPT !.aliases = combined.aliases] \in Inventory
        /\ [server.content EXCEPT !.aliases = combined.aliases].value = value
        /\ [server.content EXCEPT !.aliases = combined.aliases].aliases = combined.aliases
    BY <1>1, <1>4 DEF Inventory
  <2>2. remote = [server.content EXCEPT !.aliases = combined.aliases]
    BY <1>2, <1>4, <2>1, WithoutRemovedGives
  <2> QED BY <2>1, <2>2
<1>7. /\ pulled \in Job /\ pulled.step = "push" /\ pulled.remote = server.content
      /\ pulled.next = None /\ pulled.seen = server.version
  BY <1>1 DEF Job, Steps, Held
<1> DEFINE differ == needed /\ Conflicting(had, value)
           merged == IF needed THEN [MergedInto(had, value) EXCEPT !.conflict = FALSE] ELSE had
<1>8. \/ /\ disk' = [disk EXCEPT ![d] = [had EXCEPT !.conflict = TRUE]]
         /\ Go(d, NoSync)
      \/ answers' = answers + 1
      \/ ~differ /\ disk' = [disk EXCEPT ![d] = merged] /\ Go(d, pulled)
  BY <1>5, <1>6 DEF PullVault
<1>9. needed <=> server.version # had.version \/ had.conflict
  BY <1>5
<1> HIDE DEF combined, k, remote, pulled
<1>10. CASE /\ disk' = [disk EXCEPT ![d] = [had EXCEPT !.conflict = TRUE]]
            /\ Go(d, NoSync)
  <2> DEFINE n == [had EXCEPT !.conflict = TRUE]
  <2>1. /\ n \in Keyring /\ n.local = had.local /\ n.base = had.base
        /\ n.pending = had.pending /\ n.version = had.version
    BY <1>1 DEF Keyring
  <2>2. disk' = [disk EXCEPT ![d] = n] /\ job' = [job EXCEPT ![d] = NoSync]
    BY <1>10 DEF Go
  <2>3. Fresh(had, NoSync, server, published, crashes)
    BY <1>1, <1>2, StoppedIsFresh
  <2> HIDE DEF n
  <2>4. Fresh(n, NoSync, server, published, crashes')
    BY <1>1, <2>1, <2>3 DEF Fresh, Whole, Ordered, Current, Newer, PendingNewer, Uncrashed
  <2>5. \A v \in Values : ~Marked(n, NoSync, v)
    BY <1>1, <1>2, <2>1 DEF Marked, Marks, NoSync
  <2> QED BY <1>1, <2>1, <2>2, <2>4, <2>5, FreshStep
<1>11. CASE answers' = answers + 1
  BY <1>11 DEF Calm, EditsInv, SyncTypes
<1>12. CASE ~differ /\ disk' = [disk EXCEPT ![d] = merged] /\ Go(d, pulled)
  <2>1. /\ merged \in Keyring /\ merged.base = had.base /\ merged.pending = had.pending
        /\ merged.version = had.version
        /\ merged.local \in {had.local, value}
        /\ merged.local # had.local /\ had.local \in Values =>
             had.base # None /\ had.local = had.base.value
    <3>1. CASE needed
      <4> DEFINE m == MergedInto(had, value)
      <4>1. /\ m \in Keyring /\ m.base = had.base /\ m.pending = had.pending
            /\ m.version = had.version
            /\ m.local \in {had.local, value}
            /\ m.local # had.local /\ had.local \in Values =>
                 had.base # None /\ had.local = had.base.value
        BY <1>1, <1>2, MergedIntoGives
      <4>2. merged = [m EXCEPT !.conflict = FALSE]
        BY <3>1
      <4> HIDE DEF m, merged
      <4> QED BY <4>1, <4>2 DEF Keyring
    <3>2. CASE ~needed
      BY <3>2, <1>1
    <3> QED BY <3>1, <3>2
  <2>2. needed /\ (had.local \notin Values \/ (had.base # None /\ had.local = had.base.value)) =>
          merged.local = value
    <3> SUFFICES ASSUME needed,
                        had.local \notin Values \/ (had.base # None /\ had.local = had.base.value)
                 PROVE  merged.local = value
      OBVIOUS
    <3> DEFINE m == MergedInto(had, value)
    <3>1. m \in Keyring /\ m.local = value
      BY <1>1, <1>2, MergedIntoGives
    <3>2. merged = [m EXCEPT !.conflict = FALSE]
      OBVIOUS
    <3> HIDE DEF m, merged
    <3> QED BY <3>1, <3>2 DEF Keyring
  <2>3. needed /\ had.local \in Values /\ had.local # value =>
          had.base # None /\ (had.base.value = had.local \/ had.base.value = value)
    BY <1>2, <1>12 DEF Conflicting
  <2>4. ~needed => had.base # None /\ had.base.value = value /\ had.local \in Values
                     /\ merged = had
    BY <1>2, <1>9 DEF Fresh, Current, Whole
  <2>5. disk' = [disk EXCEPT ![d] = merged] /\ job' = [job EXCEPT ![d] = pulled]
    BY <1>12 DEF Go
  <2> HIDE DEF merged, needed, differ
  <2>6. merged.local \in Values
    BY <1>2, <2>1, <2>2, <2>4
  <2>7. \* it is the server's, or an edit that the server does not conflict with
        \/ merged.local = value
        \/ merged.local = had.local /\ had.local \in Values /\ had.local # value
             /\ had.base # None /\ had.base.value = value
    BY <1>2, <2>1, <2>2, <2>3, <2>4
  <2>8. Whole(merged, pulled)
    BY <1>1, <1>2, <1>7, <2>1, <2>6 DEF Fresh, Whole, HasValue, Reconciled, Pulled
  <2>9. Ordered(merged, pulled, server)
    <3>1. UpTo(server.content, server.content)
      BY <1>1 DEF UpTo, Inventory, Aliases
    <3> QED BY <3>1, <1>2, <1>7, <2>1 DEF Fresh, Ordered, Sent, Reconciled, Pulled
  <2>10. Current(merged, pulled, server)
    BY <1>1, <1>2, <1>7, <2>1 DEF Fresh, Current, Sent, Reconciled, Pulled
  <2>11. Newer(merged, pulled, server, published)
    BY <1>2, <1>7, <2>1, <2>7 DEF Fresh, Newer
  <2>12. PendingNewer(merged, server, published)
    BY <1>1, <1>2, <2>1 DEF Fresh, PendingNewer
  <2>13. ASSUME crashes = 0 PROVE Uncrashed(merged, pulled)
    <3>1. /\ had.base # None /\ had.pending # None =>
               had.local # had.base.value /\ had.pending.value \notin {None, had.base.value}
          /\ had.pending # None /\ had.pending.value # None => had.local = had.pending.value
      BY <1>1, <1>2, <2>13 DEF Fresh, Uncrashed
    <3>2. had.pending # None /\ (had.base # None \/ had.pending.value # None) =>
            merged.local = had.local
      <4>1. had.pending # None => had.pending.value \in Values \cup {None}
        BY <1>1 DEF Keyring, Held, Inventory
      <4> QED BY <4>1, <1>3, <2>1, <3>1
    <3> QED BY <1>7, <2>1, <3>1, <3>2 DEF Uncrashed
  <2>14. Fresh(merged, pulled, server, published, crashes')
    BY <1>1, <2>8, <2>9, <2>10, <2>11, <2>12, <2>13 DEF Fresh
  <2>15. \A v \in Values : ~Marked(merged, pulled, v)
    BY <1>2, <1>7, <2>1 DEF Marked, Marks
  <2> QED BY <1>1, <1>7, <2>1, <2>5, <2>14, <2>15, FreshStep
<1> QED BY <1>8, <1>10, <1>11, <1>12

LEMMA PrepareFresh ==
    ASSUME EditsInv, EditsInv', UndoInv, Calm, NEW d \in Devices, Prepare(d)
    PROVE  UndoInv'
<1> DEFINE inv == Collected(disk[d], job[d].remote)
           had == disk[d]
           remote == job[d].remote
           k == MergedInto(KeyState(had, inv), inv.value)
<1>1. /\ had \in Keyring /\ job[d] \in Job
      /\ job[d].step = "push" /\ remote \in Held /\ remote # None /\ job[d].next = None
      /\ None \notin Values /\ None \notin Inventory
      /\ Named(had, job[d], published, used)
      /\ UNCHANGED <<server, published, undone, crashes>>
  BY OneDevice DEF Prepare, JobAt, InStep, Pulled
<1>2. /\ Fresh(had, job[d], server, published, crashes)
      /\ \A v \in Values : ~Marked(had, job[d], v)
  BY OneFresh
<1>3. had.local \in Values
  BY <1>1, <1>2 DEF Fresh, Whole, Pulled
<1>4. \A v \in Values : ~Marks(had.base, v) /\ ~Marks(had.pending, v) /\ ~Marks(remote, v)
  BY <1>2 DEF Marked
<1>5. /\ inv \in Inventory /\ inv.value = had.local
      /\ \A v \in Values : ~inv.aliases[v].removed
      /\ UpTo(remote, inv)
  BY <1>1, <1>3, <1>4, CollectedPlain
<1>6. /\ k \in Keyring /\ k.local = had.local /\ k.base = had.base
      /\ k.pending = had.pending /\ k.version = had.version
  <2>1. KeyState(had, inv) = had
    BY <1>5 DEF KeyState
  <2>2. k = MergedInto(had, had.local)
    BY <1>5, <2>1
  <2> HIDE DEF k
  <2> QED BY <1>1, <1>3, <2>2, MergedIntoGives
<1>7. had.pending = None /\ had.base # None /\ had.local = had.base.value => inv = remote
  <2> SUFFICES ASSUME had.pending = None, had.base # None, had.local = had.base.value
               PROVE  inv = remote
    OBVIOUS
  <2>1. remote.value = had.local /\ UpTo(had.base, remote)
    BY <1>1, <1>2 DEF Fresh, Newer, Ordered
  <2> QED BY <1>1, <1>3, <1>4, <2>1, CollectedSame
<1>8. IF inv = remote
      THEN /\ disk' = [disk EXCEPT ![d] = k]
           /\ Go(d, [job[d] EXCEPT !.step = "base", !.next = inv])
      ELSE /\ disk' = [disk EXCEPT ![d] = [k EXCEPT !.pending = inv]]
           /\ Go(d, [job[d] EXCEPT !.step = "put", !.next = inv])
  BY DEF Prepare
<1>9. inv # None /\ inv \in Held
  BY <1>1, <1>5 DEF Held
<1> HIDE DEF inv, k
<1>10. CASE inv = remote
  <2> DEFINE j == [job[d] EXCEPT !.step = "base", !.next = inv]
  <2>1. /\ j \in Job /\ j.step = "base" /\ j.next = inv /\ j.remote = remote
        /\ j.seen = job[d].seen
    BY <1>1, <1>9 DEF Job, Steps
  <2>2. disk' = [disk EXCEPT ![d] = k] /\ job' = [job EXCEPT ![d] = j]
    BY <1>8, <1>10 DEF Go
  <2> HIDE DEF j
  <2>3. Whole(k, j)
    BY <1>2, <1>3, <1>5, <1>6, <1>9, <2>1 DEF Fresh, Whole, HasValue, Reconciled, Pulled
  <2>4. Ordered(k, j, server)
    BY <1>1, <1>2, <1>6, <1>10, <2>1 DEF Fresh, Ordered, Sent, Reconciled, Pulled
  <2>5. Current(k, j, server)
    BY <1>1, <1>2, <1>6, <1>10, <2>1 DEF Fresh, Current, Sent, Reconciled, Pulled
  <2>6. Newer(k, j, server, published) /\ PendingNewer(k, server, published)
    BY <1>1, <1>2, <1>6, <2>1 DEF Fresh, Newer, PendingNewer
  <2>7. crashes = 0 => Uncrashed(k, j)
    BY <1>1, <1>2, <1>6, <2>1 DEF Fresh, Uncrashed
  <2>8. Fresh(k, j, server, published, crashes')
    BY <1>1, <2>3, <2>4, <2>5, <2>6, <2>7 DEF Fresh
  <2>9. \A v \in Values : ~Marked(k, j, v)
    BY <1>4, <1>6, <1>10, <2>1 DEF Marked
  <2> QED BY <1>1, <1>6, <2>1, <2>2, <2>8, <2>9, FreshStep
<1>11. CASE inv # remote
  <2> DEFINE j == [job[d] EXCEPT !.step = "put", !.next = inv]
             n == [k EXCEPT !.pending = inv]
  <2>1. /\ j \in Job /\ j.step = "put" /\ j.next = inv /\ j.remote = remote
        /\ j.seen = job[d].seen
    BY <1>1, <1>9 DEF Job, Steps
  <2>2. /\ n \in Keyring /\ n.base = had.base /\ n.pending = inv /\ n.local = had.local
        /\ n.version = had.version
    BY <1>6, <1>9 DEF Keyring
  <2>3. disk' = [disk EXCEPT ![d] = n] /\ job' = [job EXCEPT ![d] = j]
    BY <1>8, <1>11 DEF Go
  <2> HIDE DEF j, n
  <2>4. Whole(n, j)
    BY <1>2, <1>3, <1>5, <1>9, <2>1, <2>2 DEF Fresh, Whole, HasValue, Reconciled, Pulled
  <2>5. Ordered(n, j, server)
    BY <1>1, <1>2, <1>5, <2>1, <2>2 DEF Fresh, Ordered, Sent, Reconciled, Pulled
  <2>6. Current(n, j, server)
    BY <1>1, <1>2, <2>1, <2>2 DEF Fresh, Current, Sent, Reconciled, Pulled
  <2>7. Newer(n, j, server, published)
    BY <1>1, <1>2, <2>1, <2>2 DEF Fresh, Newer
  <2>8. PendingNewer(n, server, published)
    BY <1>2, <1>3, <1>5, <2>2 DEF Fresh, Newer, PendingNewer
  <2>9. ASSUME crashes = 0 PROVE Uncrashed(n, j)
    <3>1. had.base # None => had.local # had.base.value
      BY <1>1, <1>2, <1>7, <1>11, <2>9 DEF Fresh, Uncrashed
    <3> QED BY <1>1, <1>3, <1>5, <2>1, <2>2, <3>1 DEF Uncrashed
  <2>10. Fresh(n, j, server, published, crashes')
    BY <1>1, <2>4, <2>5, <2>6, <2>7, <2>8, <2>9 DEF Fresh
  <2>11. \A v \in Values : ~Marked(n, j, v)
    BY <1>4, <1>5, <2>1, <2>2 DEF Marked, Marks
  <2> QED BY <1>1, <2>1, <2>2, <2>3, <2>10, <2>11, FreshStep
<1> QED BY <1>10, <1>11

LEMMA PutFresh ==
    ASSUME EditsInv, EditsInv', UndoInv, Calm, NEW d \in Devices, Put(d)
    PROVE  UndoInv'
<1> DEFINE had == disk[d]
           next == job[d].next
           value == next.value
<1>1. /\ had \in Keyring /\ job[d] \in Job /\ disk' = [disk EXCEPT ![d] = had]
      /\ job[d].step = "put" /\ next \in Held /\ next # None /\ job[d].remote # None
      /\ job[d].remote \in Held /\ job[d].seen \in Nat /\ had.version \in Nat
      /\ had.base \in Held
      /\ None \notin Values /\ None \notin Inventory /\ NoSync \in Job
      /\ server.version \in Nat /\ server.content \in Inventory
      /\ Named(had, job[d], published, used)
      /\ UNCHANGED <<disk, crashes>>
  BY OneDevice DEF Put, JobAt, InStep, Reconciled, Pulled
<1>2. /\ Fresh(had, job[d], server, published, crashes)
      /\ \A v \in Values : ~Marked(had, job[d], v) /\ ~Marks(server.content, v)
      /\ server.content.value \in Values /\ ~undone
  BY OneFresh
<1>3. CASE server.version # job[d].seen
  <2>1. /\ \/ Go(d, NoSync)
           \/ Go(d, [NoSync EXCEPT !.step = "pull",
                !.person = IF job[d].person = "absent" THEN "absent" ELSE "present"])
        /\ UNCHANGED <<server, published, undone>>
    BY <1>3 DEF Put
  <2>2. PICK j \in {NoSync, [NoSync EXCEPT !.step = "pull",
                !.person = IF job[d].person = "absent" THEN "absent" ELSE "present"]} :
          job' = [job EXCEPT ![d] = j]
    BY <2>1 DEF Go
  <2>3. /\ j.remote = None /\ j.next = None /\ j.step \in {"idle", "pull"} /\ j.seen = 0
    <3>1. CASE j = NoSync
      BY <3>1 DEF NoSync
    <3>2. CASE j # NoSync
      <4> DEFINE p == IF job[d].person = "absent" THEN "absent" ELSE "present"
      <4>1. j = [NoSync EXCEPT !.step = "pull", !.person = p]
        BY <2>2, <3>2
      <4> HIDE DEF p
      <4> QED BY <4>1 DEF NoSync
    <3> QED BY <3>1, <3>2
  <2>4. j \in Job
    <3>1. job'[d] = j /\ job'[d] \in Job
      BY <2>2 DEF EditsInv, SyncTypes
    <3> QED BY <3>1
  <2>5. Whole(had, j)
    BY <1>1, <1>2, <2>3 DEF Fresh, Whole, HasValue, Reconciled, Pulled
  <2>6. Ordered(had, j, server)
    BY <1>2, <2>3 DEF Fresh, Ordered, Sent, Reconciled, Pulled
  <2>7. Current(had, j, server)
    BY <1>1, <1>2, <2>3 DEF Fresh, Current, Sent, Reconciled, Pulled
  <2>8. Newer(had, j, server, published) /\ PendingNewer(had, server, published)
    BY <1>1, <1>2, <2>3 DEF Fresh, Newer, PendingNewer
  <2>9. crashes = 0 => Uncrashed(had, j)
    BY <1>1, <1>2, <2>3 DEF Fresh, Uncrashed
  <2>10. Fresh(had, j, server, published, crashes')
    BY <1>1, <2>5, <2>6, <2>7, <2>8, <2>9 DEF Fresh
  <2>11. \A v \in Values : ~Marked(had, j, v)
    BY <1>2, <2>3 DEF Marked, Marks
  <2> QED BY <1>1, <2>1, <2>2, <2>4, <2>10, <2>11, FreshStep
<1>4. CASE server.version = job[d].seen
  <2> DEFINE j == [job[d] EXCEPT !.step = "base", !.seen = @ + 1]
             pub == published \cup ({value} \ {None})
             s == [version |-> server.version + 1, content |-> next]
  <2>1. /\ server' = s /\ published' = pub
        /\ undone' = (undone \/ (value # server.content.value /\ value \in published))
        /\ job' = [job EXCEPT ![d] = j]
    BY <1>4 DEF Put, Go
  <2>2. /\ j.step = "base" /\ j.next = next /\ j.remote = job[d].remote
        /\ j.seen = server.version + 1
    <3>1. j = [job[d] EXCEPT !.step = "base", !.seen = job[d].seen + 1]
      OBVIOUS
    <3> HIDE DEF j
    <3> QED BY <1>1, <1>4, <3>1 DEF Job
  <2>3. s.version = server.version + 1 /\ s.content = next
    OBVIOUS
  <2>4. next \in Inventory /\ job[d].remote \in Inventory
    BY <1>1 DEF Held
  <2>5. value \in Values /\ had.local = value /\ had.pending = next
    BY <1>1, <1>2 DEF Fresh, Whole, HasValue, Reconciled, Pulled
  <2>6. pub = published \cup {value}
    BY <1>1, <2>5
  <2>7. job[d].remote = server.content
    BY <1>1, <1>2, <1>4 DEF Fresh, Current
  <2>8. value = server.content.value \/ value \notin published
    BY <1>1, <1>2, <1>4, <2>5, <2>7 DEF Fresh, Newer
  <2>9. ~undone'
    BY <1>2, <2>1, <2>8
  <2>10. UpTo(server.content, next)
    BY <1>1, <1>2, <2>7 DEF Fresh, Ordered
  <2> HIDE DEF s, pub, j
  <2>11. Fresh(had, j, s, pub, crashes)
    <3>1. Whole(had, j)
      BY <1>1, <1>2, <2>2, <2>5 DEF Fresh, Whole, HasValue, Reconciled, Pulled
    <3>2. Ordered(had, j, s)
      <4>1. UpTo(next, next)
        BY <2>4 DEF UpTo, Inventory, Aliases
      <4>2. had.base # None => UpTo(had.base, server.content) /\ had.base \in Inventory
        BY <1>1, <1>2 DEF Fresh, Ordered, Held
      <4>3. had.base # None => UpTo(had.base, next)
        BY <1>1, <2>4, <2>10, <4>2 DEF UpTo, Inventory, Aliases
      <4> QED BY <2>2, <2>3, <4>1, <4>3 DEF Ordered, Sent, Reconciled, Pulled
    <3>3. Current(had, j, s)
      BY <1>1, <1>2, <2>2, <2>3 DEF Fresh, Current, Sent, Reconciled, Pulled
    <3>4. Newer(had, j, s, pub)
      BY <2>2, <2>3, <2>5 DEF Newer
    <3>5. PendingNewer(had, s, pub)
      BY <2>3, <2>5 DEF PendingNewer
    <3>6. crashes = 0 => Uncrashed(had, j)
      BY <1>1, <1>2, <2>2 DEF Fresh, Uncrashed
    <3> QED BY <3>1, <3>2, <3>3, <3>4, <3>5, <3>6 DEF Fresh
  <2>12. ASSUME NEW e \in Devices, e # d
         PROVE  Fresh(disk[e], job[e], s, pub, crashes)
    <3>1. /\ disk[e] \in Keyring /\ job[e] \in Job
          /\ Named(disk[e], job[e], published, used) /\ InStep(job[e])
          /\ disk[e].base \in Held /\ job[e].remote \in Held /\ job[e].next \in Held
          /\ disk[e].version \in Nat /\ job[e].seen \in Nat
      BY OneDevice
    <3>2. Fresh(disk[e], job[e], server, published, crashes)
      BY OneFresh
    <3>3. value \notin published => ~Alive(disk[e], job[e], value)
      <4>1. Alive(disk[d], job[d], value)
        BY <1>1 DEF Alive
      <4> QED BY <2>5, <2>12, <4>1 DEF EditsInv
    <3>4. \A inv \in Inventory : UpTo(inv, server.content) => UpTo(inv, next)
      BY <1>1, <2>4, <2>10 DEF UpTo, Inventory, Aliases
    <3>5. Ordered(disk[e], job[e], s)
      <4>1. /\ disk[e].base # None => disk[e].base \in Inventory
            /\ job[e].step \in {"push", "put"} => job[e].remote \in Inventory
            /\ job[e].step \in Sent => job[e].next \in Inventory
        BY <3>1 DEF Held, InStep, Sent, Reconciled, Pulled
      <4> QED BY <2>3, <3>2, <3>4, <4>1 DEF Fresh, Ordered
    <3>6. Current(disk[e], job[e], s)
      BY <1>1, <2>3, <3>1, <3>2 DEF Fresh, Current
    <3>7. /\ disk[e].base # None => disk[e].base.value \in published \cup {None}
      BY <3>1 DEF Named, Of
    <3>8. disk[e].base # None /\ disk[e].base.value = value => value = server.content.value
      BY <1>1, <2>5, <2>8, <3>7
    <3>9. \A v \in Values : Alive(disk[e], job[e], v) /\ v \notin published => v \notin pub
      BY <2>6, <3>3
    <3>10. Newer(disk[e], job[e], s, pub)
      <4>1. disk[e].base # None /\ disk[e].local \in Values /\ disk[e].base.value = s.content.value
              => disk[e].local = disk[e].base.value \/ disk[e].local \notin pub
        BY <2>3, <3>2, <3>8, <3>9 DEF Fresh, Newer, Alive
      <4>2. job[e].seen # s.version
        BY <1>1, <2>3, <3>1, <3>2 DEF Fresh, Current
      <4> QED BY <3>2, <4>1, <4>2 DEF Fresh, Newer
    <3>11. crashes = 0 \/ job[e].step # "clear" => PendingNewer(disk[e], s, pub)
      <4> SUFFICES ASSUME PendingNewer(disk[e], server, published),
                          disk[e].base # None, disk[e].pending # None,
                          disk[e].pending.value # None, disk[e].base.value = s.content.value
                   PROVE  \/ disk[e].pending.value = disk[e].base.value
                          \/ disk[e].pending.value \notin pub
        BY <3>2 DEF Fresh, PendingNewer
      <4>1. disk[e].pending.value \in Values
        BY <3>1 DEF Keyring, Held, Inventory
      <4> QED BY <2>3, <3>8, <3>9, <4>1 DEF PendingNewer, Alive
    <3> QED BY <3>2, <3>5, <3>6, <3>10, <3>11 DEF Fresh
  <2>13. \A e \in Devices : job'[e] = IF e = d THEN j ELSE job[e]
    BY <2>1 DEF EditsInv, SyncTypes
  <2>14. \A e \in Devices : Fresh(disk'[e], job'[e], server', published', crashes')
    BY <1>1, <2>1, <2>11, <2>12, <2>13
  <2>15. \A v \in Values : ~Dropped(v)'
    <3>1. \A v \in Values, e \in Devices : ~Marked(disk[e], job[e], v)
      BY OneFresh
    <3>2. \A v \in Values : ~Marked(disk[d], j, v) /\ ~Marks(next, v)
      BY <2>2, <3>1 DEF Marked
    <3> QED BY <1>1, <2>1, <2>3, <2>13, <3>1, <3>2 DEF Dropped
  <2>16. server'.content.value \in Values
    BY <2>1, <2>3, <2>5
  <2> QED BY <2>9, <2>14, <2>15, <2>16 DEF UndoInv
<1> QED BY <1>3, <1>4

LEMMA SaveBaseFresh ==
    ASSUME EditsInv, EditsInv', UndoInv, Calm, NEW d \in Devices, SaveBase(d)
    PROVE  UndoInv'
<1> DEFINE had == disk[d]
           k == [disk[d] EXCEPT !.base = job[d].next]
           j == [job[d] EXCEPT !.step = "clear"]
<1>1. /\ had \in Keyring /\ job[d] \in Job /\ job[d].step = "base"
      /\ job[d].next \in Held /\ job[d].next # None
      /\ server.version \in Nat /\ had.version \in Nat /\ job[d].seen \in Nat
      /\ UNCHANGED <<server, published, undone, crashes>>
  BY OneDevice DEF SaveBase, JobAt, InStep, Reconciled, Pulled
<1>2. /\ Fresh(had, job[d], server, published, crashes)
      /\ \A v \in Values : ~Marked(had, job[d], v)
  BY OneFresh
<1>3. /\ k \in Keyring /\ k.local = had.local /\ k.base = job[d].next
      /\ k.pending = had.pending /\ k.version = had.version
  BY <1>1 DEF Keyring
<1>4. /\ j \in Job /\ j.step = "clear" /\ j.next = job[d].next /\ j.remote = job[d].remote
      /\ j.seen = job[d].seen
  BY <1>1 DEF Job, Steps
<1>5. disk' = [disk EXCEPT ![d] = k] /\ job' = [job EXCEPT ![d] = j]
  BY DEF SaveBase, Go
<1> HIDE DEF k, j
<1>6. Whole(k, j)
  BY <1>1, <1>2, <1>3, <1>4 DEF Fresh, Whole, HasValue, Reconciled, Pulled
<1>7. Ordered(k, j, server)
  BY <1>1, <1>2, <1>3, <1>4 DEF Fresh, Ordered, Sent, Reconciled, Pulled
<1>8. Current(k, j, server)
  BY <1>1, <1>2, <1>3, <1>4 DEF Fresh, Current, Sent, Reconciled, Pulled
<1>9. Newer(k, j, server, published)
  BY <1>1, <1>2, <1>3, <1>4 DEF Fresh, Whole, Newer, Reconciled, Pulled
<1>10. crashes = 0 => Uncrashed(k, j)
  BY <1>1, <1>2, <1>3, <1>4 DEF Fresh, Uncrashed
<1>11. crashes = 0 => PendingNewer(k, server, published)
  BY <1>1, <1>2, <1>3, <1>4 DEF Fresh, Uncrashed, Whole, PendingNewer, Reconciled, Pulled
<1>12. Fresh(k, j, server, published, crashes')
  BY <1>1, <1>4, <1>6, <1>7, <1>8, <1>9, <1>10, <1>11 DEF Fresh
<1>13. \A v \in Values : ~Marked(k, j, v)
  BY <1>2, <1>3, <1>4 DEF Marked
<1> QED BY <1>1, <1>3, <1>4, <1>5, <1>12, <1>13, FreshStep

LEMMA ClearPendingFresh ==
    ASSUME EditsInv, EditsInv', UndoInv, Calm, NEW d \in Devices, ClearPending(d)
    PROVE  UndoInv'
<1> DEFINE had == disk[d]
           k == [disk[d] EXCEPT !.pending = None]
           j == [job[d] EXCEPT !.step = "record"]
<1>1. /\ had \in Keyring /\ job[d] \in Job /\ job[d].step = "clear"
      /\ job[d].next \in Held /\ job[d].next # None
      /\ UNCHANGED <<server, published, undone, crashes>>
  BY OneDevice DEF ClearPending, JobAt, InStep, Reconciled, Pulled
<1>2. /\ Fresh(had, job[d], server, published, crashes)
      /\ \A v \in Values : ~Marked(had, job[d], v)
  BY OneFresh
<1>3. /\ k \in Keyring /\ k.local = had.local /\ k.base = had.base
      /\ k.pending = None /\ k.version = had.version
  BY <1>1 DEF Keyring, Held
<1>4. /\ j \in Job /\ j.step = "record" /\ j.next = job[d].next /\ j.remote = job[d].remote
      /\ j.seen = job[d].seen
  BY <1>1 DEF Job, Steps
<1>5. disk' = [disk EXCEPT ![d] = k] /\ job' = [job EXCEPT ![d] = j]
  BY DEF ClearPending, Go
<1> HIDE DEF k, j
<1>6. Whole(k, j)
  BY <1>1, <1>2, <1>3, <1>4 DEF Fresh, Whole, Reconciled, Pulled
<1>7. Ordered(k, j, server) /\ Current(k, j, server) /\ Newer(k, j, server, published)
  BY <1>1, <1>2, <1>3, <1>4 DEF Fresh, Ordered, Current, Newer, Sent, Reconciled, Pulled
<1>8. Uncrashed(k, j) /\ PendingNewer(k, server, published)
  BY <1>3 DEF Uncrashed, PendingNewer
<1>9. Fresh(k, j, server, published, crashes')
  BY <1>6, <1>7, <1>8 DEF Fresh
<1>10. \A v \in Values : ~Marked(k, j, v)
  BY <1>2, <1>3, <1>4 DEF Marked, Marks
<1> QED BY <1>1, <1>3, <1>4, <1>5, <1>9, <1>10, FreshStep

LEMMA SaveRecordFresh ==
    ASSUME EditsInv, EditsInv', UndoInv, Calm, NEW d \in Devices, SaveRecord(d)
    PROVE  UndoInv'
<1> DEFINE had == disk[d]
           k == [disk[d] EXCEPT !.version = job[d].seen, !.conflict = FALSE]
<1>1. /\ had \in Keyring /\ job[d] \in Job /\ job[d].step = "record" /\ NoSync \in Job
      /\ job[d].next \in Held /\ job[d].next # None
      /\ server.version \in Nat /\ job[d].seen \in Nat
      /\ UNCHANGED <<server, published, undone, crashes>>
  BY OneDevice DEF SaveRecord, JobAt, InStep, Reconciled, Pulled
<1>2. /\ Fresh(had, job[d], server, published, crashes)
      /\ \A v \in Values : ~Marked(had, job[d], v)
  BY OneFresh
<1>3. /\ k \in Keyring /\ k.local = had.local /\ k.base = had.base
      /\ k.pending = had.pending /\ k.version = job[d].seen
  BY <1>1 DEF Keyring
<1>4. disk' = [disk EXCEPT ![d] = k] /\ job' = [job EXCEPT ![d] = NoSync]
  BY DEF SaveRecord, Go
<1>5. /\ NoSync.step = "idle" /\ NoSync.remote = None /\ NoSync.next = None /\ NoSync.seen = 0
  BY DEF NoSync
<1>6. Fresh(had, NoSync, server, published, crashes)
  BY <1>1, <1>2, StoppedIsFresh
<1> HIDE DEF k
<1>7. had.base = job[d].next
  BY <1>1, <1>2 DEF Fresh, Whole
<1>8. Whole(k, NoSync)
  BY <1>1, <1>3, <1>5, <1>6, <1>7 DEF Fresh, Whole
<1>9. Current(k, NoSync, server)
  BY <1>1, <1>2, <1>3, <1>5, <1>6, <1>7 DEF Fresh, Current, Sent, Reconciled, Pulled
<1>10. /\ Ordered(k, NoSync, server) /\ Newer(k, NoSync, server, published)
       /\ crashes = 0 => Uncrashed(k, NoSync)
       /\ PendingNewer(k, server, published)
  BY <1>3, <1>5, <1>6 DEF Fresh, Ordered, Newer, Uncrashed, PendingNewer
<1>11. Fresh(k, NoSync, server, published, crashes')
  BY <1>1, <1>8, <1>9, <1>10 DEF Fresh
<1>12. \A v \in Values : ~Marked(k, NoSync, v)
  BY <1>2, <1>3, <1>5 DEF Marked, Marks
<1> QED BY <1>1, <1>3, <1>4, <1>11, <1>12, FreshStep

LEMMA CrashFresh ==
    ASSUME EditsInv, EditsInv', UndoInv, Calm, Calm', NEW d \in Devices, Stop(d)
    PROVE  UndoInv'
<1>1. /\ disk[d] \in Keyring /\ disk' = [disk EXCEPT ![d] = disk[d]]
      /\ job' = [job EXCEPT ![d] = NoSync] /\ NoSync \in Job
      /\ server.version \in Nat
      /\ UNCHANGED <<server, published, undone>>
      /\ crashes' = crashes + 1
  BY OneDevice DEF Stop, Go
<1>2. crashes = 0 /\ crashes' = 1
  BY <1>1 DEF Calm, EditsInv, SyncTypes
<1>3. /\ Fresh(disk[d], job[d], server, published, crashes)
      /\ \A v \in Values : ~Marked(disk[d], job[d], v)
  BY OneFresh
<1>4. Fresh(disk[d], NoSync, server, published, 1)
  BY <1>1, <1>2, <1>3, StoppedIsFresh
<1>5. \A v \in Values : ~Marked(disk[d], NoSync, v)
  BY <1>3 DEF Marked, Marks, NoSync
<1> QED BY <1>1, <1>2, <1>4, <1>5, FreshStep

LEMMA InitFresh == SyncInit => UndoInv
<1> SUFFICES ASSUME SyncInit PROVE UndoInv
  OBVIOUS
<1>1. First \in Values /\ None \notin Inventory
  BY ValuesAssumption
<1>2. /\ FirstInventory \in Inventory /\ FirstInventory.value = First
      /\ \A v \in Values : ~FirstInventory.aliases[v].removed
  BY <1>1 DEF FirstInventory, NoAliases, Inventory, Aliases
<1>3. /\ NoSync.step = "idle" /\ NoSync.remote = None /\ NoSync.next = None /\ NoSync.seen = 0
  BY DEF NoSync
<1>4. /\ server.version = 1 /\ server.content = FirstInventory
      /\ published = {First} /\ undone = FALSE
  BY DEF SyncInit
<1>5. FirstInventory # None /\ UpTo(FirstInventory, FirstInventory)
  BY <1>1, <1>2 DEF UpTo, Inventory, Aliases
<1>6. ASSUME NEW d \in Devices
      PROVE  /\ Fresh(disk[d], job[d], server, published, crashes)
             /\ \A v \in Values : ~Marked(disk[d], job[d], v)
  <2>1. job[d] = NoSync
    BY DEF SyncInit
  <2>2. /\ disk[d].pending = None
        /\ \/ disk[d].base = None /\ disk[d].version = 0 /\ disk[d].local = Lost
           \/ disk[d].base = FirstInventory /\ disk[d].version = 1 /\ disk[d].local = First
    BY DEF SyncInit
  <2>3. Whole(disk[d], job[d])
    BY <1>1, <1>2, <1>3, <1>5, <2>1, <2>2 DEF Whole, HasValue, Reconciled, Pulled
  <2>4. Ordered(disk[d], job[d], server)
    BY <1>3, <1>4, <1>5, <2>1, <2>2 DEF Ordered, Sent, Reconciled, Pulled
  <2>5. Current(disk[d], job[d], server)
    BY <1>2, <1>3, <1>4, <1>5, <2>1, <2>2 DEF Current, Sent, Reconciled, Pulled
  <2>6. Newer(disk[d], job[d], server, published)
    BY <1>2, <1>3, <1>4, <2>1, <2>2, ValuesAssumption DEF Newer
  <2>7. Uncrashed(disk[d], job[d]) /\ PendingNewer(disk[d], server, published)
    BY <2>2 DEF Uncrashed, PendingNewer
  <2>8. \A v \in Values : ~Marked(disk[d], job[d], v)
    BY <1>2, <1>3, <2>1, <2>2 DEF Marked, Marks
  <2> QED BY <2>3, <2>4, <2>5, <2>6, <2>7, <2>8 DEF Fresh
<1>7. \A v \in Values : ~Dropped(v)
  BY <1>2, <1>4, <1>6 DEF Dropped, Marks
<1> QED BY <1>1, <1>2, <1>4, <1>6, <1>7 DEF UndoInv

LEMMA CalmBefore == EditsInv /\ [SyncNext]_syncVars /\ Calm' => Calm
<1> SUFFICES ASSUME EditsInv, [SyncNext]_syncVars, Calm' PROVE Calm
  OBVIOUS
<1>1. removals \in Nat /\ crashes \in Nat /\ answers \in Nat
  BY DEF EditsInv, SyncTypes
<1>2. CASE UNCHANGED syncVars
  BY <1>2 DEF syncVars, Calm
<1>3. CASE SyncNext
  <2> PICK d \in Devices :
        \/ Edit(d) \/ Remove(d) \/ Stage(d)
        \/ BeginSync(d) \/ SyncStep(d) \/ Stop(d)
    BY <1>3 DEF SyncNext
  <2>1. /\ removals' = removals \/ removals' = removals + 1
        /\ crashes' = crashes \/ crashes' = crashes + 1
        /\ answers' = answers \/ answers' = answers + 1
    <3>1. CASE PullVault(d)
      BY <3>1 DEF PullVault
    <3>2. CASE ~PullVault(d)
      BY <3>2 DEF Edit, Remove, Stage, BeginSync, SyncStep, Prepare, Put, SaveBase, ClearPending,
                 SaveRecord, Stop
    <3> QED BY <3>1, <3>2
  <2> QED BY <1>1, <2>1 DEF Calm
<1> QED BY <1>2, <1>3

LEMMA StepFresh == EditsInv /\ EditsInv' /\ UndoInv /\ [SyncNext]_syncVars => UndoInv'
<1> SUFFICES ASSUME EditsInv, EditsInv', UndoInv, [SyncNext]_syncVars, Calm' PROVE UndoInv'
  BY DEF UndoInv
<1>1. Calm
  BY CalmBefore
<1>2. CASE UNCHANGED syncVars
  BY <1>2 DEF syncVars, UndoInv, Calm, Dropped
<1>3. CASE SyncNext
  <2> PICK d \in Devices :
        \/ Edit(d) \/ Remove(d) \/ Stage(d)
        \/ BeginSync(d) \/ SyncStep(d) \/ Stop(d)
    BY <1>3 DEF SyncNext
  <2>1. CASE Remove(d)
    BY <2>1 DEF Remove, Calm, EditsInv, SyncTypes
  <2> QED BY <1>1, <2>1, EditFresh, StageFresh, BeginFresh, PullFresh, PrepareFresh, PutFresh,
             SaveBaseFresh, ClearPendingFresh, SaveRecordFresh, CrashFresh DEF SyncStep
<1> QED BY <1>2, <1>3

\* No device, however stale, takes the server back to a key it had before,
\* unless the entry was removed, a person answered a conflict, or syncs
\* stopped half way twice (sync.go: merge against the acknowledged base, and
\* the upload conditional on the version merged).
THEOREM NothingNewerIsUndone == SyncSpec => []NoStaleUndo
<1>1. UndoInv => NoStaleUndo
  BY DEF UndoInv, Calm, NoStaleUndo, NeverGoesBack
<1>2. SyncInit => EditsInv /\ UndoInv
  BY InitEdits, InitFresh
<1>3. (EditsInv /\ UndoInv) /\ [SyncNext]_syncVars => (EditsInv /\ UndoInv)'
  <2>1. EditsInv /\ [SyncNext]_syncVars => EditsInv'
    BY StepEdits
  <2> QED BY <2>1, StepFresh
<1> QED BY <1>1, <1>2, <1>3, PTL DEF SyncSpec
=============================================================================
