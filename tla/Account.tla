------------------------------- MODULE Account -------------------------------
(***************************************************************************)
(* One vault account: the server's tables (src/internal/server/api.go and  *)
(* auth.go) and the devices that change them (src/internal/account).       *)
(*                                                                         *)
(* A client command reads a verified snapshot of the account, builds one   *)
(* request from it and sends it.  The request then goes through three      *)
(* separate steps, with anything else in between: the middleware           *)
(* authenticates it and captures the device row; the handler runs its one  *)
(* database transaction; the client, if it still waits, saves its pin and  *)
(* installs the new user key, each a step of its own.  A client may crash  *)
(* at any point, and a request may outlive the client that sent it.        *)
(*                                                                         *)
(* Not modelled here: how a device signs in (the browser code), the vault's *)
(* content and its merge, proofs and fingerprint words, which a person     *)
(* compares.  SQLite has one connection, so a transaction is one step.     *)
(***************************************************************************)
EXTENDS ChainRules

CONSTANTS
    MaxTime,       \* bound: the server's clock runs from 1 to MaxTime
    PendingTTL,    \* how long a new device may wait for approval
    MaxCommands,   \* bound: commands the user starts on all devices together
    MaxFaults,     \* bound: client crashes and lost requests
    MaxRestores    \* bound: restores of the database from its replica

ASSUME AccountAssumption ==
    /\ Names # {}
    /\ MaxTime \in Nat \ {0} /\ PendingTTL \in Nat \ {0}
    /\ MaxCommands \in Nat /\ MaxFaults \in Nat /\ MaxRestores \in Nat

VARIABLES
    db,        \* the server's database
    replica,   \* the state of the database a restore would bring back
    now,       \* the server's clock
    reqs,      \* requests on their way or being handled
    cl,        \* cl[d]: the pin, the user key and the pending local steps of d
    wrote,     \* history: the device of the last write, and whether it was a member
    commands, faults, restores    \* counters of the bounds

vars == <<db, replica, now, reqs, cl, wrote, commands, faults, restores>>

NoVault == [ifMatch |-> 0, key |-> None]
NoSlotData == [slot |-> None, expires |-> 0, ukv |-> 0, key |-> None]
NoSlotRow == [status |-> "none", expires |-> 0, ukv |-> 0, key |-> None]

EmptyDB ==
    [chain |-> New,
     rows |-> [d \in Devices |-> [status |-> "none", until |-> 0, name |-> None]],
     sessions |-> {},
     boxes |-> {},
     identity |-> None,
     vault |-> [version |-> 0, key |-> None],
     slots |-> [i \in Slots |-> NoSlotRow]]

Init ==
    /\ db = EmptyDB
    /\ replica = EmptyDB
    /\ now = 1
    /\ reqs = {}
    /\ cl = [d \in Devices |-> [pin |-> << >>, key |-> None, todo |-> << >>]]
    /\ wrote = [dev |-> None, member |-> TRUE]
    /\ commands = 0 /\ faults = 0 /\ restores = 0

-----------------------------------------------------------------------------
(* The server: signing in, the middleware, and one transaction per handler. *)

\* apiToken: a new device becomes pending, a known one gets a new session, a
\* suspended or revoked one is denied.
SignIn(d) ==
    /\ d \notin db.sessions
    /\ db.rows[d].status \in {"none", "pending", "active"}
    /\ db' = [db EXCEPT
         !.sessions = @ \cup {d},
         !.rows[d] = IF @.status = "active" THEN @
                     ELSE [status |-> "pending", until |-> now + PendingTTL,
                           name |-> IF @.status = "none" THEN CHOOSE n \in Names : TRUE
                                    ELSE @.name]]
    /\ UNCHANGED <<replica, now, reqs, cl, wrote, commands, faults, restores>>

\* The middleware: a live session of a device that is active, or pending in
\* time where the handler allows it.  What it read of the device row goes with
\* the request.
Authorized(r) ==
    /\ r.dev \in db.sessions
    /\ \/ db.rows[r.dev].status = "active"
       \/ /\ db.rows[r.dev].status = "pending" /\ now < db.rows[r.dev].until
          /\ r.kind = "commit"

Authenticate(r) ==
    /\ r.step = "sent"
    /\ reqs' = (reqs \ {r}) \cup
         (IF Authorized(r)
          THEN {[r EXCEPT !.step = "authed", !.status = db.rows[r.dev].status]}
          ELSE {})
    /\ UNCHANGED <<db, replica, now, cl, wrote, commands, faults, restores>>

\* Mutant: the sessions of a revoked device go on.
SetRevokedKeepsSessions(b, revoked) ==
    [b EXCEPT !.rows = [d \in Devices |->
                          IF d \in revoked THEN [b.rows[d] EXCEPT !.status = "revoked"]
                          ELSE b.rows[d]]]

\* setRevoked: the row and the sessions of a revoked device.
SetRevoked(b, revoked) ==
    [b EXCEPT !.rows = [d \in Devices |->
                          IF d \in revoked THEN [b.rows[d] EXCEPT !.status = "revoked"]
                          ELSE b.rows[d]],
              !.sessions = @ \ revoked]

\* Mutant: the row is not looked at.
JoinAllowedAnyRow(b, l) ==
    l.body.method = "ssh_agent" =>
      b.slots[l.body.slot].status = "enabled" /\ now < b.slots[l.body.slot].expires

\* applyDeviceAdd: the device waits for approval, and the slot it used is still
\* enabled here.
JoinAllowed(b, l) ==
    /\ b.rows[l.body.device].status = "pending"
    /\ now < b.rows[l.body.device].until
    /\ l.body.method = "ssh_agent" =>
         b.slots[l.body.slot].status = "enabled" /\ now < b.slots[l.body.slot].expires

\* What the server checks of a link beyond the chain's own rules.  The devices'
\* clocks are the server's here, so that no link is ahead of it; the server
\* takes one that is ahead by up to ten minutes (UserChain takes any time).
LinkAllowed(b, l, slotData) ==
    /\ ValidNext(b.chain, l)
    /\ l.ctime <= now /\ l.ctime >= now - Day
    /\ l.type = "device_add" => JoinAllowed(b, l)
    /\ l.type = "agent_slot_add" =>
         /\ slotData.slot = l.body.slot
         /\ slotData.expires = l.body.expires
         /\ slotData.ukv = b.chain.ukv

\* Mutant: a rotation leaves the slots enabled.
MirrorRotateKeepsSlots(b, next) ==
    SetRevoked(b, {d \in Devices : /\ b.rows[d].status \in {"active", "suspended"}
                                   /\ next.devices[d].status = "revoked"})

\* applyRotate: rows of devices the rotation revoked, and all slots.
MirrorRotate(b, next) ==
    [SetRevoked(b, {d \in Devices : /\ b.rows[d].status \in {"active", "suspended"}
                                    /\ next.devices[d].status = "revoked"})
       EXCEPT !.slots = [i \in Slots |->
                IF b.slots[i].status = "enabled" THEN [b.slots[i] EXCEPT !.status = "disabled"]
                ELSE b.slots[i]]]

\* applyDeviceAdd: the pending row becomes active.
MirrorDeviceAdd(b, l) ==
    [b EXCEPT !.rows[l.body.device] = [@ EXCEPT !.status = "active", !.until = 0]]

MirrorSlotAdd(b, l, slotData) ==
    [b EXCEPT !.slots[l.body.slot] =
        [status |-> "enabled", expires |-> slotData.expires, ukv |-> slotData.ukv,
         key |-> slotData.key]]

\* The tables after one link.
Mirror(b, l, slotData) ==
    LET next == NextState(b.chain, l)
        m == CASE l.type = "ukey_rotate" -> MirrorRotate(b, next)
               [] l.type = "device_add" -> MirrorDeviceAdd(b, l)
               [] l.type = "device_revoke" -> SetRevoked(b, {l.body.device})
               [] l.type = "device_rename" ->
                    [b EXCEPT !.rows[l.body.device] = [@ EXCEPT !.name = l.body.name]]
               [] l.type = "agent_slot_add" -> MirrorSlotAdd(b, l, slotData)
               [] l.type = "agent_slot_remove" ->
                    [b EXCEPT !.slots[l.body.slot] = [@ EXCEPT !.status = "disabled"]]
               [] OTHER -> b
    IN  [m EXCEPT !.chain = next]

\* The database after the first n links of a commit.
After(b, links, slotData, n) ==
    LET upto[i \in 0..n] == IF i = 0 THEN b ELSE Mirror(upto[i - 1], links[i], slotData)
    IN  upto[n]

LinkTypes(r) == [n \in DOMAIN r.links |-> r.links[n].type]

\* checkPendingCommit: a device that is not approved may only create the
\* account or add itself.
PendingCommitAllowed(b, r) ==
    /\ r.slotData.slot = None
    /\ \A x \in r.boxes : x.dev = r.dev
    /\ \A n \in DOMAIN r.links :
         r.links[n].type = "device_add" => r.links[n].body.device = r.dev
    /\ \/ SeqNo(b.chain) = 0 /\ LinkTypes(r) = <<"init", "device_add">>
       \/ /\ SeqNo(b.chain) > 0 /\ LinkTypes(r) = <<"device_add">>
          /\ r.vault = NoVault /\ r.identity = None

HasNewKey(r) ==
    \E n \in DOMAIN r.links : r.links[n].type \in {"init", "ukey_rotate"}

\* putVault: a new version is signed with the chain's current user key and
\* replaces exactly the version its device saw.
VaultAllowed(b, v) ==
    /\ v.key = b.chain.key
    /\ v.ifMatch = b.vault.version

PutVault(b, v) == [b EXCEPT !.vault = [version |-> v.ifMatch + 1, key |-> v.key]]

BoxAllowed(b, x) ==
    /\ x.dev \in ActiveDevices(b.chain)
    /\ x.ukv = b.chain.ukv
    /\ \A y \in b.boxes : ~(y.dev = x.dev /\ y.ukv = x.ukv)

HasBox(b, d) == \E x \in b.boxes : x.dev = d /\ x.ukv = b.chain.ukv

\* The end of commit: boxes, identity, and the vault, checked against the
\* chain with all the links applied.
RestAllowed(a, r) ==
    /\ r.slotData.slot # None => \E n \in DOMAIN r.links : r.links[n].type = "agent_slot_add"
    /\ \A x \in r.boxes : BoxAllowed(a, x)
    /\ HasNewKey(r) <=> r.identity # None
    /\ r.identity # None => r.identity = a.chain.key
    /\ \A d \in ActiveDevices(a.chain) : HasBox([a EXCEPT !.boxes = @ \cup r.boxes], d)
    /\ IF r.vault # NoVault THEN VaultAllowed(a, r.vault)
       ELSE ~(a.vault.version > 0 /\ \E n \in DOMAIN r.links : r.links[n].type = "ukey_rotate")

CommitAllowed(b, r) ==
    /\ r.status = "pending" => PendingCommitAllowed(b, r)
    /\ SeqNo(b.chain) + Len(r.links) <= MaxLinks
    /\ \A n \in DOMAIN r.links :
         LinkAllowed(After(b, r.links, r.slotData, n - 1), r.links[n], r.slotData)
    /\ RestAllowed(After(b, r.links, r.slotData, Len(r.links)), r)

\* Mutant: the wrapped identity is stored once and never replaced.
CommitResultFirstIdentity(b, r) ==
    LET a == After(b, r.links, r.slotData, Len(r.links))
        c == [a EXCEPT !.boxes = @ \cup r.boxes,
                       !.identity = IF @ = None THEN r.identity ELSE @]
    IN  IF r.vault # NoVault THEN PutVault(c, r.vault) ELSE c

CommitResult(b, r) ==
    LET a == After(b, r.links, r.slotData, Len(r.links))
        c == [a EXCEPT !.boxes = @ \cup r.boxes,
                       !.identity = IF r.identity # None THEN r.identity ELSE @]
    IN  IF r.vault # NoVault THEN PutVault(c, r.vault) ELSE c

\* A client that still waits gets the answer and goes on with its local steps.
Answered(r, ok) ==
    /\ reqs' = reqs \ {r}
    /\ cl' = IF r.live /\ ok THEN [cl EXCEPT ![r.dev].todo = r.then] ELSE cl

\* Ghost: who wrote, and whether it belonged to the account before or after.
Writes(r) ==
    wrote' = [dev |-> r.dev,
              member |-> r.dev \in ActiveDevices(db.chain) \cup ActiveDevices(db'.chain)]

Commit(r) ==
    /\ r.step = "authed" /\ r.kind = "commit"
    /\ IF CommitAllowed(db, r)
       THEN db' = CommitResult(db, r) /\ Writes(r) /\ Answered(r, TRUE)
       ELSE UNCHANGED <<db, wrote>> /\ Answered(r, FALSE)
    /\ UNCHANGED <<replica, now, commands, faults, restores>>

VaultPut(r) ==
    /\ r.step = "authed" /\ r.kind = "vault_put"
    /\ IF VaultAllowed(db, r.vault)
       THEN db' = PutVault(db, r.vault) /\ Writes(r) /\ Answered(r, TRUE)
       ELSE UNCHANGED <<db, wrote>> /\ Answered(r, FALSE)
    /\ UNCHANGED <<replica, now, commands, faults, restores>>

\* suspend: an active or pending device is blocked until it is revoked.
SuspendDevice(r) ==
    /\ r.step = "authed" /\ r.kind = "suspend"
    /\ db' = IF db.rows[r.target].status \in {"active", "pending"}
             THEN [db EXCEPT !.rows[r.target].status = "suspended",
                             !.sessions = @ \ {r.target}]
             ELSE db
    /\ Answered(r, TRUE)
    /\ UNCHANGED <<replica, now, wrote, commands, faults, restores>>

\* disableSlot: the server's row only; the chain still has the slot.
SlotOff(r) ==
    /\ r.step = "authed" /\ r.kind = "slot_off"
    /\ db' = IF db.slots[r.slotData.slot].status = "enabled"
             THEN [db EXCEPT !.slots[r.slotData.slot].status = "disabled"]
             ELSE db
    /\ Answered(r, TRUE)
    /\ UNCHANGED <<replica, now, wrote, commands, faults, restores>>

EndSession(r) ==
    /\ r.step = "authed" /\ r.kind = "logout"
    /\ db' = [db EXCEPT !.sessions = @ \ {r.dev}]
    /\ Answered(r, TRUE)
    /\ UNCHANGED <<replica, now, wrote, commands, faults, restores>>

-----------------------------------------------------------------------------
(* The environment of the server. *)

Tick ==
    /\ now < MaxTime
    /\ now' = now + 1
    /\ UNCHANGED <<db, replica, reqs, cl, wrote, commands, faults, restores>>

\* cleanup: a device that was not approved is forgotten a day after its time.
Cleanup(d) ==
    /\ db.rows[d].status = "pending"
    /\ now >= db.rows[d].until + Day
    /\ db' = [db EXCEPT !.rows[d] = EmptyDB.rows[d], !.sessions = @ \ {d}]
    /\ UNCHANGED <<replica, now, reqs, cl, wrote, commands, faults, restores>>

\* The database is replicated a little behind; a restore brings the replica
\* back and breaks all connections.
Replicate ==
    /\ restores < MaxRestores
    /\ replica # db
    /\ replica' = db
    /\ UNCHANGED <<db, now, reqs, cl, wrote, commands, faults, restores>>

Restore ==
    /\ restores < MaxRestores
    /\ restores' = restores + 1
    /\ db' = replica
    /\ reqs' = {}
    /\ UNCHANGED <<replica, now, cl, wrote, commands, faults>>

-----------------------------------------------------------------------------
(* The client. *)

Waiting(d) == \E r \in reqs : r.dev = d /\ r.live
Idle(d) == ~Waiting(d) /\ cl[d].todo = << >>

CanCall(d) == d \in db.sessions /\ db.rows[d].status = "active"

\* Keys are random, so a new one is nowhere yet.
FreshKeys ==
    Keys \ ({cl[d].key : d \in Devices}
              \cup {db.chain.epochs[i].key : i \in DOMAIN db.chain.epochs}
              \cup {replica.chain.epochs[i].key : i \in DOMAIN replica.chain.epochs}
              \cup {r.identity : r \in reqs}
              \cup UNION {{cl[d].todo[i].key : i \in DOMAIN cl[d].todo} : d \in Devices})

\* VerifiedChain: the server's chain, refused if it lacks the pinned link.
SeesChain(d) == CanCall(d) /\ CheckPin(db.chain, cl[d].pin)

\* userKey: the local identity if it is current, else the one in this device's
\* newest box, installed with the server's copy of the wrapped identity.
HasUserKey(d) ==
    \/ cl[d].key = db.chain.key
    \/ /\ [dev |-> d, ukv |-> db.chain.ukv, key |-> db.chain.key] \in db.boxes
       /\ db.identity = db.chain.key

\* A command under the account lock, on a machine that confirmed its account.
CanRun(d) ==
    /\ Idle(d) /\ commands < MaxCommands
    /\ cl[d].pin # << >>
    /\ SeesChain(d)
    /\ HasUserKey(d)

Request(d, kind) ==
    [dev |-> d, kind |-> kind, step |-> "sent", status |-> "none", live |-> TRUE,
     links |-> << >>, boxes |-> {}, identity |-> None, vault |-> NoVault,
     slotData |-> NoSlotData, target |-> None, then |-> << >>]

Pin(s) == [do |-> "pin", links |-> s.links, key |-> None]
Install(k) == [do |-> "install", links |-> << >>, key |-> k]
Box(s, d) == [dev |-> d, ukv |-> s.ukv, key |-> s.key]

\* The command leaves the key it used installed, and waits for the answer.
Send(d, key, r) ==
    /\ reqs' = reqs \cup {r}
    /\ cl' = [cl EXCEPT ![d].key = key]
    /\ commands' = commands + 1
    /\ UNCHANGED <<db, replica, now, wrote, faults, restores>>

\* A commit of one link signed with the current user key.
SendLink(d, type, body, boxesFor, slotData) ==
    LET l == NewLink(db.chain, type, body, now, {db.chain.key})
        next == NextState(db.chain, l)
    IN  /\ ValidNext(db.chain, l)
        /\ Send(d, db.chain.key,
             [Request(d, "commit") EXCEPT
                !.links = <<l>>, !.boxes = {Box(next, e) : e \in boxesFor},
                !.slotData = slotData, !.then = <<Pin(next)>>])

AddBody(d, method, by, slot) ==
    [device |-> d, proof |-> d, name |-> db.rows[d].name, method |-> method,
     approvedBy |-> by, slot |-> slot]

\* createAccount: init and this device, its box, the identity and a vault.
CreateAccount(d) ==
    /\ Idle(d) /\ commands < MaxCommands
    /\ d \in db.sessions /\ db.rows[d].status = "pending"
    /\ SeqNo(db.chain) = 0 /\ cl[d].pin = << >>
    /\ \E k \in FreshKeys :
         LET l1 == NewLink(New, "init", [key |-> k, rootSig |-> k], now, {k})
             s1 == NextState(New, l1)
             l2 == NewLink(s1, "device_add", AddBody(d, "first", None, None), now, {k})
             s2 == NextState(s1, l2)
         IN  Send(d, k, [Request(d, "commit") EXCEPT
                           !.links = <<l1, l2>>, !.boxes = {Box(s2, d)}, !.identity = k,
                           !.vault = [ifMatch |-> 0, key |-> k], !.then = <<Pin(s2)>>])

\* selfAdd: a pending device that got the user key with the phrase or a slot.
SelfAdd(d, method, slot) ==
    LET l == NewLink(db.chain, "device_add", AddBody(d, method, None, slot), now, {db.chain.key})
        next == NextState(db.chain, l)
    IN  /\ Idle(d) /\ commands < MaxCommands
        /\ d \in db.sessions /\ db.rows[d].status = "pending"
        /\ SeqNo(db.chain) > 0 /\ CheckPin(db.chain, cl[d].pin)
        /\ ValidNext(db.chain, l)
        /\ Send(d, cl[d].key,
             [Request(d, "commit") EXCEPT
                !.links = <<l>>, !.boxes = {Box(next, d)},
                !.then = <<Install(next.key), Pin(next)>>])

\* apiRecovery: the newest wrapped identity, which must be the chain's key.
Recover(d) == db.identity = db.chain.key /\ SelfAdd(d, "recovery", None)

\* apiAgentUnlock: an enabled, unexpired slot of the current key version.
AgentUnlock(d, i) ==
    /\ db.slots[i].status = "enabled" /\ now < db.slots[i].expires
    /\ db.slots[i].ukv = db.chain.ukv /\ db.slots[i].key = db.chain.key
    /\ SelfAdd(d, "ssh_agent", i)

Approve(d, e) ==
    /\ CanRun(d)
    /\ d \in ActiveDevices(db.chain)
    /\ db.rows[e].status = "pending"
    /\ SendLink(d, "device_add", AddBody(e, "approval", d, None), {e}, NoSlotData)

Rename(d, e) ==
    /\ CanRun(d)
    /\ \E name \in Names :
         SendLink(d, "device_rename", [device |-> e, name |-> name], {}, NoSlotData)

EnableAgentSlot(d, i) ==
    /\ CanRun(d)
    /\ \E e \in (now + 1)..MaxTime :
         SendLink(d, "agent_slot_add", [slot |-> i, expires |-> e], {},
           [slot |-> i, expires |-> e, ukv |-> db.chain.ukv, key |-> db.chain.key])

\* disableAgentSlot: off the chain if it is still there, else only its row.
DisableAgentSlot(d, i) ==
    /\ CanRun(d)
    /\ \/ /\ db.chain.slots[i].status = "active"
          /\ SendLink(d, "agent_slot_remove", [slot |-> i], {}, NoSlotData)
       \/ /\ db.chain.slots[i].status # "absent"
          /\ Send(d, cl[d].key,
               [Request(d, "slot_off") EXCEPT !.slotData = [NoSlotData EXCEPT !.slot = i]])

\* rotate: a new user key for every device active in s, after the links of
\* prefix, with the identity and the vault sealed to it, in one commit.
RotateAfter(d, s, prefix) ==
    \E k \in FreshKeys :
      LET l == NewLink(s, "ukey_rotate", [key |-> k, keep |-> ActiveDevices(s)], now,
                       {db.chain.key, k})
          rotated == NextState(s, l)
      IN  /\ ValidNext(s, l)
          /\ db.vault.key = db.chain.key    \* openRemote
          /\ Send(d, db.chain.key,
               [Request(d, "commit") EXCEPT
                  !.links = Append(prefix, l),
                  !.boxes = {Box(rotated, e) : e \in ActiveDevices(rotated)},
                  !.identity = k,
                  !.vault = [ifMatch |-> db.vault.version, key |-> k],
                  !.then = <<Pin(rotated), Install(k)>>])

RotateUserKey(d) ==
    /\ CanRun(d) /\ d \in ActiveDevices(db.chain)
    /\ RotateAfter(d, db.chain, << >>)

\* Mutant: a revocation does not rotate the user key.
RevokeWithoutRotation(d, e) ==
    /\ CanRun(d) /\ d \in ActiveDevices(db.chain)
    /\ e # d
    /\ SendLink(d, "device_revoke", [device |-> e], {}, NoSlotData)

Revoke(d, e) ==
    LET l == NewLink(db.chain, "device_revoke", [device |-> e], now, {db.chain.key})
    IN  /\ CanRun(d) /\ d \in ActiveDevices(db.chain)
        /\ e # d
        /\ ValidNext(db.chain, l)
        /\ RotateAfter(d, NextState(db.chain, l), <<l>>)

\* The push at the end of a sync.
SyncPush(d) ==
    /\ CanRun(d) /\ d \in ActiveDevices(db.chain)
    /\ db.vault.key = db.chain.key
    /\ Send(d, db.chain.key,
         [Request(d, "vault_put") EXCEPT
            !.vault = [ifMatch |-> db.vault.version, key |-> db.chain.key]])

\* Any signed-in device may suspend another (the web pages do too).
Suspend(d, e) ==
    /\ Idle(d) /\ commands < MaxCommands /\ CanCall(d)
    /\ e # d
    /\ db.rows[e].status \in {"active", "pending"}
    /\ Send(d, cl[d].key, [Request(d, "suspend") EXCEPT !.target = e])

Logout(d) ==
    /\ Idle(d) /\ commands < MaxCommands /\ d \in db.sessions
    /\ db.rows[d].status = "active"
    /\ Send(d, cl[d].key, Request(d, "logout"))

\* Mutant: a client whose pin is current takes its user key for current.
RefreshOnNewLinks(d) ==
    /\ Idle(d)
    /\ SeesChain(d) /\ HasUserKey(d)
    /\ d \in ActiveDevices(db.chain)
    /\ cl[d].pin # db.chain.links
    /\ cl' = [cl EXCEPT ![d].todo = <<Install(db.chain.key), Pin(db.chain)>>]
    /\ UNCHANGED <<db, replica, now, reqs, wrote, commands, faults, restores>>

\* The pull of a sync, and the end of a login: the chain is verified, the user
\* key installed if it is not the current one, and the chain pinned.
Refresh(d) ==
    /\ Idle(d)
    /\ SeesChain(d) /\ HasUserKey(d)
    /\ d \in ActiveDevices(db.chain)
    /\ cl[d].key # db.chain.key \/ cl[d].pin # db.chain.links
    /\ cl' = [cl EXCEPT ![d].todo = <<Install(db.chain.key), Pin(db.chain)>>]
    /\ UNCHANGED <<db, replica, now, reqs, wrote, commands, faults, restores>>

\* The next local step of a command: save the pin, or install the key with the
\* server's copy of the identity, without which the command ends.
ClientStep(d) ==
    /\ cl[d].todo # << >>
    /\ LET c == cl[d]
           step == Head(c.todo)
           rest == Tail(c.todo)
       IN  cl' = [cl EXCEPT ![d] =
             CASE step.do = "pin" -> [c EXCEPT !.pin = step.links, !.todo = rest]
               [] step.do = "install" /\ (c.key = step.key \/ (CanCall(d) /\ db.identity = step.key)) ->
                    [c EXCEPT !.key = step.key, !.todo = rest]
               [] OTHER -> [c EXCEPT !.todo = << >>]]
    /\ UNCHANGED <<db, replica, now, reqs, wrote, commands, faults, restores>>

\* A client dies, or gives up waiting; what it sent may still be handled.
Crash(d) ==
    /\ faults < MaxFaults
    /\ ~Idle(d)
    /\ faults' = faults + 1
    /\ cl' = [cl EXCEPT ![d].todo = << >>]
    /\ reqs' = {IF r.dev = d THEN [r EXCEPT !.live = FALSE] ELSE r : r \in reqs}
    /\ UNCHANGED <<db, replica, now, wrote, commands, restores>>

\* A request is lost on its way, and its client is told.
Lose(r) ==
    /\ faults < MaxFaults
    /\ r.step = "sent"
    /\ faults' = faults + 1
    /\ reqs' = reqs \ {r}
    /\ UNCHANGED <<db, replica, now, cl, wrote, commands, restores>>

-----------------------------------------------------------------------------
Handle(r) ==
    \/ Authenticate(r) \/ Commit(r) \/ VaultPut(r)
    \/ SuspendDevice(r) \/ SlotOff(r) \/ EndSession(r)

Command(d) ==
    \/ CreateAccount(d) \/ Recover(d) \/ RotateUserKey(d) \/ SyncPush(d) \/ Logout(d)
    \/ \E i \in Slots : AgentUnlock(d, i) \/ EnableAgentSlot(d, i) \/ DisableAgentSlot(d, i)
    \/ \E e \in Devices : Approve(d, e) \/ Rename(d, e) \/ Revoke(d, e) \/ Suspend(d, e)

\* What happens without a command.
Unasked ==
    \/ Tick \/ Replicate \/ Restore
    \/ \E r \in reqs : Handle(r) \/ Lose(r)
    \/ \E d \in Devices : SignIn(d) \/ Cleanup(d) \/ Refresh(d) \/ ClientStep(d) \/ Crash(d)

Next == Unasked \/ \E d \in Devices : Command(d)

Spec == Init /\ [][Next]_vars

\* The server handles what it received, a running client takes its next step,
\* and the daemon's loop syncs again after a while.
Fairness ==
    /\ WF_vars(\E r \in reqs : Handle(r))
    /\ \A d \in Devices : WF_vars(ClientStep(d)) /\ WF_vars(Refresh(d))

FairSpec == Spec /\ Fairness

-----------------------------------------------------------------------------
(* Properties. *)

\* Whatever raced or failed, the active devices read the account and revoked
\* ones do not: every active device can open the current user key from its box,
\* the phrase recovers it, and the newest vault opens with it; a revoked device
\* has that key neither on its disk nor in a box it could fetch.
ReadersAreMembers ==
    SeqNo(db.chain) > 0 =>
      /\ \A d \in ActiveDevices(db.chain) :
           [dev |-> d, ukv |-> db.chain.ukv, key |-> db.chain.key] \in db.boxes
      /\ db.identity = db.chain.key
      /\ db.vault.key = db.chain.key
      /\ \A d \in Devices : db.chain.devices[d].status = "revoked" =>
           /\ cl[d].key # db.vault.key
           /\ \A x \in db.boxes : x.dev = d => x.key # db.vault.key

\* The device table says what the chain says; it may only be ahead in having
\* suspended a device.  A revoked or suspended device has no session.
RowsMirrorChain ==
    \A d \in Devices :
      /\ db.chain.devices[d].status = "active" => db.rows[d].status \in {"active", "suspended"}
      /\ db.chain.devices[d].status = "revoked" <=> db.rows[d].status = "revoked"
      /\ db.rows[d].status = "active" =>
           /\ db.chain.devices[d].status = "active"
           /\ db.rows[d].name = db.chain.devices[d].name
      /\ d \in db.sessions => db.rows[d].status \in {"pending", "active"}

\* An unlock slot the server would still serve is one of the chain, and holds
\* the current user key.
SlotsMirrorChain ==
    \A i \in Slots : db.slots[i].status = "enabled" =>
      /\ db.chain.slots[i].status = "active"
      /\ db.slots[i].expires = db.chain.slots[i].expires
      /\ db.slots[i].key = db.chain.key

\* The account never loses its last device, however revocations race.
NeverOrphaned == SeqNo(db.chain) > 0 => ActiveDevices(db.chain) # {}

\* Only a device of the account changes the chain or the vault: a request that
\* was authenticated before its device was revoked changes nothing.
OnlyMembersWrite == wrote.member

\* A pin only moves forward along one history, even if the server is restored
\* to an older database and forks from it.
PinsMoveForward ==
    \A d \in Devices :
      /\ Len(cl[d].pin) <= Len(cl'[d].pin)
      /\ SubSeq(cl'[d].pin, 1, Len(cl[d].pin)) = cl[d].pin
PinsMoveForwardProperty == [][PinsMoveForward]_vars

\* A device that was suspended before it was approved stays out, although its
\* own request may be past authentication already.
SuspendedStaysOut ==
    \A d \in Devices :
      (db.rows[d].status = "suspended" /\ db.chain.devices[d].status = "absent") =>
        db'.chain.devices[d].status = "absent"
SuspendedStaysOutProperty == [][SuspendedStaysOut \/ restores' # restores]_vars

\* After the last change, every signed-in device of the account ends up with
\* the current user key and the whole chain pinned, whichever step it or the
\* rotating device crashed at.
AllCatchUp ==
    <>[](\A d \in ActiveDevices(db.chain) :
           CanCall(d) => cl[d].key = db.chain.key /\ cl[d].pin = db.chain.links)
=============================================================================
