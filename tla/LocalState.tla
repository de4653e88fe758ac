----------------------------- MODULE LocalState -----------------------------
(***************************************************************************)
(* The account record of one machine, account.toml (internal/account       *)
(* state.go): the chain link it pinned, the vault generation it applied    *)
(* and the last server event it handled.  Three kinds of process write it. *)
(* Commands and the daemon run under the account lock and reload the file  *)
(* first (Locked).  A login and "index on|off" read the file, work on that *)
(* copy without the lock, and write it back (login.go, cli/index.go).      *)
(*                                                                         *)
(* The chain and the vault are their lengths: the server here only moves   *)
(* forward, Account has the rollbacks.  The kernel drops a dead process's  *)
(* lock.                                                                   *)
(*                                                                         *)
(* Between its syncs the daemon waits for events in a long poll: the       *)
(* server's handler registers for a wake-up, reads the events and sleeps   *)
(* (server api.go apiEvents, server.go notifier).  Whoever changes the     *)
(* account wakes it once the change is stored, which is a later step.      *)
(***************************************************************************)
EXTENDS Integers

CONSTANTS
    Commands,     \* processes of commands that run under the account lock
    Daemon,       \* the daemon, one process
    Lockless,     \* processes of logins and index commands
    Nobody,
    MaxChain, MaxVault, \* bounds: links and vault generations on the server
    MaxRuns       \* bound: commands and logins started, and crashes

ASSUME ProcessesAssumption ==
    /\ Daemon \notin Commands \cup Lockless \cup {Nobody}
    /\ Commands \cap Lockless = {} /\ Nobody \notin Commands \cup Lockless
    /\ MaxChain \in Nat /\ MaxVault \in Nat /\ MaxRuns \in Nat

Lockers == Commands \cup {Daemon}
Processes == Lockers \cup Lockless

VARIABLES
    account,   \* how far the account's chain, vault and events are
    file,     \* account.toml
    lock,     \* the process that holds the account lock
    pc,       \* where each process is
    mem,      \* mem[p]: the copy process p works on
    waiter,   \* the channel of the daemon's long poll: open, closed by a wake-up, or none
    wakes,    \* a change is stored, and its wake-up is still to come
    dirty,    \* history: an unlocked save came since the lock was taken
    runs      \* counter of the bound

recordVars == <<account, file, lock, pc, mem, waiter, wakes, dirty, runs>>

polls == <<waiter, wakes>>

Zero == [chain |-> 0, vault |-> 0, events |-> 0]

\* A machine that has an account, with nothing since.
RecordInit ==
    /\ account = [chain |-> 1, vault |-> 1, events |-> 1]
    /\ file = account
    /\ lock = Nobody
    /\ pc = [p \in Processes |-> "idle"]
    /\ mem = [p \in Processes |-> Zero]
    /\ waiter = "none" /\ wakes = FALSE
    /\ dirty = FALSE
    /\ runs = 0

Goto(p, here, there) == pc[p] = here /\ pc' = [pc EXCEPT ![p] = there]

-----------------------------------------------------------------------------
(* Other devices, through the server. *)

\* addEvent, in the transaction of the change.  The wake-up follows it; one
\* that follows several changes stands for theirs.
Store(change) ==
    /\ account' = [change EXCEPT !.events = @ + 1]
    /\ wakes' = TRUE /\ UNCHANGED waiter

OtherDevice ==
    /\ \/ account.chain < MaxChain /\ Store([account EXCEPT !.chain = @ + 1])
       \/ account.vault < MaxVault /\ Store([account EXCEPT !.vault = @ + 1])
    /\ UNCHANGED <<file, lock, pc, mem, dirty, runs>>

\* Mutant: the channels are forgotten before they are closed.
WakeForgets ==
    /\ wakes /\ wakes' = FALSE
    /\ waiter' = IF waiter = "open" THEN "none" ELSE waiter
    /\ UNCHANGED <<account, file, lock, pc, mem, dirty, runs>>

\* notifier.wake: closes the channels that are there, and forgets them.
Wake ==
    /\ wakes /\ wakes' = FALSE
    /\ waiter' = IF waiter = "open" THEN "closed" ELSE waiter
    /\ UNCHANGED <<account, file, lock, pc, mem, dirty, runs>>

-----------------------------------------------------------------------------
(* Under the account lock. *)

\* Locked: take the lock and reload the record.
Reload(p) ==
    /\ lock = Nobody
    /\ lock' = p
    /\ mem' = [mem EXCEPT ![p] = file]
    /\ dirty' = FALSE

TakeLock(p) ==
    /\ p = Daemon \/ runs < MaxRuns
    /\ Goto(p, "idle", "locked")
    /\ Reload(p)
    /\ runs' = IF p = Daemon THEN runs ELSE runs + 1
    /\ UNCHANGED <<account, file, polls>>

\* Give the lock back; the daemon keeps its copy and goes on to its poll.
GiveLock(p) ==
    /\ lock' = Nobody
    /\ pc' = [pc EXCEPT ![p] = IF p = Daemon THEN "poll" ELSE "idle"]
    /\ mem' = [mem EXCEPT ![p] = IF p = Daemon THEN @ ELSE Zero]

\* VerifiedChain and pin, in the copy.
Verify(p) ==
    /\ Goto(p, "locked", "verified")
    /\ account.chain >= mem[p].chain
    /\ mem' = [mem EXCEPT ![p].chain = account.chain]
    /\ UNCHANGED <<account, file, lock, dirty, runs, polls>>

\* A request fails: without the chain nothing is saved, after it the pin still
\* is.  The daemon goes on to its poll.
Fail(p) ==
    /\ runs < MaxRuns
    /\ runs' = runs + 1
    /\ \/ pc[p] = "locked" /\ GiveLock(p)
       \/ Goto(p, "verified", "save") /\ UNCHANGED <<lock, mem>>
    /\ UNCHANGED <<account, file, dirty, polls>>

\* A command that commits a link on top of the chain it verified, then pins it.
CommitLink(p) ==
    /\ p # Daemon
    /\ Goto(p, "verified", "save")
    /\ account.chain = mem[p].chain /\ account.chain < MaxChain
    /\ Store([account EXCEPT !.chain = @ + 1])
    /\ mem' = [mem EXCEPT ![p].chain = @ + 1]
    /\ UNCHANGED <<file, lock, dirty, runs>>

\* syncOnce: apply the server's vault, or replace it by a new generation.
Pull(p) ==
    /\ Goto(p, "verified", "save")
    /\ account.vault >= mem[p].vault
    /\ mem' = [mem EXCEPT ![p].vault = account.vault]
    /\ UNCHANGED <<account, file, lock, dirty, runs, polls>>

Push(p) ==
    /\ Goto(p, "verified", "save")
    /\ account.vault >= mem[p].vault /\ account.vault < MaxVault
    /\ Store([account EXCEPT !.vault = @ + 1])
    /\ mem' = [mem EXCEPT ![p].vault = account.vault + 1]
    /\ UNCHANGED <<file, lock, dirty, runs>>

\* State.Save, the end of a command.
Save(p) ==
    /\ pc[p] = "save"
    /\ file' = mem[p]
    /\ GiveLock(p)
    /\ UNCHANGED <<account, dirty, runs, polls>>

\* apiEvents: the handler registers first,
Listen ==
    /\ Goto(Daemon, "poll", "listening")
    /\ waiter' = "open"
    /\ UNCHANGED <<account, file, lock, mem, wakes, dirty, runs>>

\* Mutant: a single new event is missed.
ReadOffByOne ==
    /\ Goto(Daemon, "listening", IF account.events > mem[Daemon].events + 1 THEN "polled" ELSE "waiting")
    /\ mem' = [mem EXCEPT ![Daemon].events = IF account.events > @ + 1 THEN account.events ELSE @]
    /\ waiter' = IF account.events > mem[Daemon].events + 1 THEN "none" ELSE waiter
    /\ UNCHANGED <<account, file, lock, wakes, dirty, runs>>

\* then reads the events after the cursor, and answers or sleeps.
ReadEvents ==
    /\ Goto(Daemon, "listening", IF account.events > mem[Daemon].events THEN "polled" ELSE "waiting")
    /\ mem' = [mem EXCEPT ![Daemon].events = account.events]
    /\ waiter' = IF account.events > mem[Daemon].events THEN "none" ELSE waiter
    /\ UNCHANGED <<account, file, lock, wakes, dirty, runs>>

\* A wake-up: once more from the start.
Woken ==
    /\ waiter = "closed"
    /\ Goto(Daemon, "waiting", "poll")
    /\ waiter' = "none"
    /\ UNCHANGED <<account, file, lock, mem, wakes, dirty, runs>>

\* The deadline, or a request that fails: the daemon's loop starts again.
PollEnds ==
    /\ Goto(Daemon, "waiting", "idle")
    /\ waiter' = "none"
    /\ mem' = [mem EXCEPT ![Daemon] = Zero]
    /\ UNCHANGED <<account, file, lock, wakes, dirty, runs>>

\* Mutant: the daemon saves its whole copy instead of reloading first.
SaveCursorStale ==
    /\ Goto(Daemon, "polled", "idle")
    /\ lock = Nobody
    /\ file' = mem[Daemon]
    /\ mem' = [mem EXCEPT ![Daemon] = Zero]
    /\ UNCHANGED <<account, lock, dirty, runs, polls>>

SaveCursor ==
    /\ Goto(Daemon, "polled", "idle")
    /\ lock = Nobody
    /\ file' = [file EXCEPT !.events = mem[Daemon].events]
    /\ mem' = [mem EXCEPT ![Daemon] = Zero]
    /\ UNCHANGED <<account, lock, dirty, runs, polls>>

-----------------------------------------------------------------------------
(* Without the lock. *)

\* Login and IndexCmd.Run: the record is read, and no lock is held.
Load(u) ==
    /\ runs < MaxRuns
    /\ Goto(u, "idle", "loaded")
    /\ mem' = [mem EXCEPT ![u] = file]
    /\ runs' = runs + 1
    /\ UNCHANGED <<account, file, lock, dirty, polls>>

\* The copy is written back: by index, which ends with it, and by a login
\* once the person finished signing in in the browser.
WriteBack(u) ==
    /\ \/ Goto(u, "loaded", "idle") /\ mem' = [mem EXCEPT ![u] = Zero]
       \/ Goto(u, "loaded", "signedIn") /\ UNCHANGED mem
    /\ file' = mem[u]
    /\ dirty' = (lock # Nobody)
    /\ UNCHANGED <<account, lock, runs, polls>>

\* The rest of a login: the chain is verified against the copy's pin and
\* pinned in it.
VerifyLogin(u) ==
    /\ Goto(u, "signedIn", "verified")
    /\ account.chain >= mem[u].chain
    /\ mem' = [mem EXCEPT ![u].chain = account.chain]
    /\ UNCHANGED <<account, file, lock, dirty, runs, polls>>

\* The last save waits for the lock, and does not reload.
SaveLogin(u) ==
    /\ Goto(u, "verified", "idle")
    /\ lock = Nobody
    /\ file' = mem[u]
    /\ mem' = [mem EXCEPT ![u] = Zero]
    /\ dirty' = (lock # Nobody)
    /\ UNCHANGED <<account, lock, runs, polls>>

\* A process dies; the daemon is started again.
Crash(p) ==
    /\ runs < MaxRuns
    /\ pc[p] # "idle"
    /\ pc' = [pc EXCEPT ![p] = "idle"]
    /\ mem' = [mem EXCEPT ![p] = Zero]
    /\ lock' = IF lock = p THEN Nobody ELSE lock
    /\ waiter' = IF p = Daemon THEN "none" ELSE waiter
    /\ runs' = runs + 1
    /\ UNCHANGED <<account, file, wakes, dirty>>

-----------------------------------------------------------------------------
Step(p) == Verify(p) \/ CommitLink(p) \/ Pull(p) \/ Push(p) \/ Save(p)

DaemonStep ==
    \/ TakeLock(Daemon) \/ Step(Daemon)
    \/ Listen \/ ReadEvents \/ Woken \/ PollEnds \/ SaveCursor

RecordNext ==
    \/ OtherDevice
    \/ Wake
    \/ \E p \in Commands : TakeLock(p) \/ Step(p)
    \/ \E p \in Lockers : Fail(p)
    \/ DaemonStep
    \/ \E u \in Lockless : Load(u) \/ WriteBack(u) \/ VerifyLogin(u) \/ SaveLogin(u)
    \/ \E p \in Processes : Crash(p)

RecordSpec == RecordInit /\ [][RecordNext]_recordVars

\* A command under the lock ends (its requests time out), and the daemon's
\* loop runs on.
RecordFairness == WF_recordVars(DaemonStep) /\ \A p \in Commands : WF_recordVars(Step(p))

RecordFairSpec == RecordSpec /\ RecordFairness

-----------------------------------------------------------------------------
(* Properties. *)

\* The daemon never sleeps through a change: while its poll waits and there are
\* events after its cursor, its channel is closed, or a wake-up is on its way.
NoMissedWake ==
    pc[Daemon] = "waiting" /\ account.events > mem[Daemon].events => waiter = "closed" \/ wakes

Forward == file'.chain >= file.chain /\ file'.vault >= file.vault /\ file'.events >= file.events

\* What Locked is for (account.go:74): however commands and the daemon overlap
\* and die, none of them writes back an older pin than another one saved.  A
\* record that moves back is the doing of an unlocked save, which came while
\* the command was running or is the step itself.
LockedKeepsPins ==
    \/ Forward
    \/ \E u \in Lockless : pc'[u] # pc[u]
    \/ dirty /\ lock # Nobody /\ pc'[lock] # pc[lock]
LockedKeepsPinsProperty == [][LockedKeepsPins]_recordVars

\* Whatever was overwritten, the daemon's loop brings the record up to the
\* server again.
RecordCatchesUp == <>[](file = account)
=============================================================================
