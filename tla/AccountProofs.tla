--------------------------- MODULE AccountProofs ----------------------------
(***************************************************************************)
(* Theorems about Account, for any devices, slots, keys, clocks and any    *)
(* number of commands, lost requests, crashes and restores.                *)
(***************************************************************************)
EXTENDS Account, TLAPS

-----------------------------------------------------------------------------
(* What the state is made of.                                              *)

FirstName == CHOOSE n \in Names : TRUE

KeyOrNone == Keys \cup {None}

FullLink == [seq: Nat, prev: Seq(Link), ctime: Nat, type: Types, ukv: Nat,
             body: Bodies, sigs: SUBSET KeyOrNone]

\* The body of a link is of its type.
BodyOK(l) ==
    /\ l.type = "init" => l.body \in InitBody
    /\ l.type = "ukey_rotate" => l.body \in UKeyRotateBody
    /\ l.type = "device_add" => l.body \in DeviceAddBody
    /\ l.type = "device_revoke" => l.body \in DeviceRevokeBody
    /\ l.type = "device_rename" => l.body \in DeviceRenameBody
    /\ l.type = "agent_slot_add" => l.body \in AgentSlotAddBody
    /\ l.type = "agent_slot_remove" => l.body \in AgentSlotRemoveBody

\* The types of link that the commands of an account send.
SentTypes == {"init", "ukey_rotate", "device_add", "device_revoke", "device_rename",
              "agent_slot_add", "agent_slot_remove"}

LinkOK(l) == l \in FullLink /\ l.type \in SentTypes /\ BodyOK(l)

Row == [status: {"none", "pending", "active", "suspended", "revoked"}, until: Nat,
        name: Names \cup {None}]

SlotRow == [status: {"none", "enabled", "disabled"}, expires: Nat, ukv: Nat, key: KeyOrNone]

KeyBox == [dev: Devices, ukv: Nat, key: Keys]

Database ==
    [chain: State, rows: [Devices -> Row], sessions: SUBSET Devices, boxes: SUBSET KeyBox,
     identity: KeyOrNone, vault: [version: Nat, key: KeyOrNone], slots: [Slots -> SlotRow]]

LocalStep == [do: {"pin", "install"}, links: Seq(Link), key: KeyOrNone]

SlotData == [slot: Slots \cup {None}, expires: Nat, ukv: Nat, key: KeyOrNone]

Requests ==
    [dev: Devices, kind: {"commit", "vault_put", "suspend", "slot_off", "logout"},
     step: {"sent", "authed"}, status: {"none", "pending", "active", "suspended", "revoked"},
     live: BOOLEAN, links: Seq(FullLink), boxes: SUBSET KeyBox, identity: KeyOrNone,
     vault: [ifMatch: Nat, key: KeyOrNone], slotData: SlotData,
     target: Devices \cup {None}, then: Seq(LocalStep)]

Client == [pin: Seq(Link), key: KeyOrNone, todo: Seq(LocalStep)]

-----------------------------------------------------------------------------
(* The invariant.                                                          *)

EpochKeys(s) == {s.epochs[i].key : i \in DOMAIN s.epochs}

\* Row a of the device table agrees with the chain n; only devices that were
\* never approved wait, under the name they signed in with.
RowAgrees(n, rows, sessions, a) ==
    /\ n.devices[a].status = "active" => rows[a].status \in {"active", "suspended"}
    /\ n.devices[a].status = "revoked" <=> rows[a].status = "revoked"
    /\ rows[a].status = "active" =>
         n.devices[a].status = "active" /\ rows[a].name = n.devices[a].name
    /\ a \in sessions => rows[a].status \in {"pending", "active"}
    /\ rows[a].status = "pending" => rows[a].name = FirstName

SlotAgrees(n, slots, i) ==
    slots[i].status = "enabled" =>
      /\ n.slots[i].status = "active"
      /\ slots[i].expires = n.slots[i].expires
      /\ slots[i].key = n.key

\* The tables agree with the chain, after every link of a commit.
Tables(b) ==
    /\ b \in Database
    /\ SeqNo(b.chain) = 0 => b.chain = New
    /\ \A a \in Devices : RowAgrees(b.chain, b.rows, b.sessions, a)
    /\ \A i \in Slots : SlotAgrees(b.chain, b.slots, i)

\* A box holds the key of its version: the current key if it is of the current
\* version, and then it is a member's, else one that was replaced.
BoxesOK(b) ==
    \A x \in b.boxes :
      /\ x.ukv <= b.chain.ukv /\ x.key \in EpochKeys(b.chain)
      /\ x.ukv = b.chain.ukv => x.key = b.chain.key /\ x.dev \in ActiveDevices(b.chain)
      /\ x.ukv # b.chain.ukv => x.key # b.chain.key

\* What is stored is stored for the members and the current key.
Stored(b) ==
    IF SeqNo(b.chain) = 0 THEN b.boxes = {}
    ELSE /\ b.chain.key \in EpochKeys(b.chain)
         /\ ActiveDevices(b.chain) # {}
         /\ \A d \in ActiveDevices(b.chain) :
              [dev |-> d, ukv |-> b.chain.ukv, key |-> b.chain.key] \in b.boxes
         /\ b.identity = b.chain.key /\ b.vault.key = b.chain.key

DatabaseOK(b) == Tables(b) /\ BoxesOK(b) /\ Stored(b)

Revoked(s) == {d \in Devices : s.devices[d].status = "revoked"}

\* The keys that the local steps of a command install.
Installs(todo) == {todo[i].key : i \in {i \in DOMAIN todo : todo[i].do = "install"}}

\* The keys that d has, or is about to install.
KeysOf(d) == {cl[d].key} \cup Installs(cl[d].todo)

\* No revoked device has the current key of b.
RevokedWithout(b) == \A d \in Revoked(b.chain) : b.chain.key \notin KeysOf(d)

\* What a commit says of the chain s that it follows.
Creates(r, s) ==
    /\ Len(r.links) = 2
    /\ r.links[1].type = "init" /\ r.identity = r.links[1].body.key
    /\ r.links[2].type = "device_add"
    /\ r.links[2].body.device = r.dev /\ r.links[2].body.name = FirstName
    /\ \A x \in r.boxes : x.key = r.identity
    /\ r.vault # NoVault
    /\ Installs(r.then) = {}

Adds(r, s) ==
    /\ SeqNo(s) > 0
    /\ Len(r.links) = 1
    /\ r.links[1].type \in {"device_add", "device_rename", "agent_slot_add", "agent_slot_remove"}
    /\ r.identity = None /\ r.vault = NoVault
    /\ \A x \in r.boxes : x.key = s.key
    /\ r.links[1].type = "device_add" => r.links[1].body.name = FirstName
    /\ r.links[1].type = "agent_slot_add" => r.slotData.key = s.key
    /\ Installs(r.then) \subseteq {s.key}
    /\ \/ r.dev \in ActiveDevices(s)
       \/ r.links[1].type = "device_add" /\ r.links[1].body.device = r.dev

Rotates(r, s) ==
    /\ SeqNo(s) > 0
    /\ Len(r.links) \in {1, 2}
    /\ LET l == r.links[Len(r.links)]
       IN  /\ l.type = "ukey_rotate" /\ l.body.key = r.identity /\ r.dev \in l.body.keep
    /\ Len(r.links) = 2 => r.links[1].type = "device_revoke" /\ r.links[1].body.device # r.dev
    /\ r.dev \in ActiveDevices(s)
    /\ \A x \in r.boxes : x.key = r.identity
    /\ r.vault # NoVault
    /\ Installs(r.then) \subseteq {r.identity}

\* A request's key is of nobody else, and in no chain.
OwnKey(r) ==
    /\ r.identity \notin EpochKeys(db.chain)
    /\ \A d \in Devices : r.identity \notin KeysOf(d)

\* A commit follows the chain that its client saw, or one that is gone; if it
\* follows the chain that there is, it is one of three.
CommitOK(r) ==
    /\ r.links # << >> /\ \A n \in DOMAIN r.links : LinkOK(r.links[n])
    /\ r.links[1].seq <= SeqNo(db.chain) + 1
    /\ r.links[1].seq = SeqNo(db.chain) + 1 =>
         Creates(r, db.chain) \/ Adds(r, db.chain) \/ Rotates(r, db.chain)
    /\ r.identity # None /\ r.links[1].type # "init" => OwnKey(r)

\* A vault that is pushed is sealed to a key of the chain, to the current one
\* only by members.
PushOK(r) ==
    /\ r.vault.key \in EpochKeys(db.chain) /\ r.identity = None
    /\ r.vault.key = db.chain.key => r.dev \in ActiveDevices(db.chain)

RequestOK(r) ==
    /\ r \in Requests
    /\ r.kind = "commit" => CommitOK(r)
    /\ r.kind = "vault_put" => PushOK(r)
    /\ r.kind \notin {"commit", "vault_put"} => r.identity = None /\ r.then = << >>
    /\ r.kind = "vault_put" => r.then = << >>
    /\ r.kind = "slot_off" => r.slotData.slot \in Slots
    /\ r.kind = "suspend" => r.target \in Devices

\* Where steps begin that save a pin, and where they lead, is one history.
Prefix(p, q) == Len(p) <= Len(q) /\ \A i \in 1..Len(p) : p[i] = q[i]

OnePin(p, todo) ==
    \A i \in DOMAIN todo : todo[i].do = "pin" =>
      /\ Prefix(p, todo[i].links)
      /\ \A j \in DOMAIN todo : todo[j].do = "pin" => j = i

PinsOK ==
    /\ \A d \in Devices : OnePin(cl[d].pin, cl[d].todo)
    /\ \A r \in reqs : r.live => cl[r.dev].todo = << >> /\ OnePin(cl[r.dev].pin, r.then)
    /\ \A r, q \in reqs : r.live /\ q.live /\ r.dev = q.dev => r = q

IInv ==
    /\ DatabaseOK(db) /\ DatabaseOK(replica)
    /\ now \in Nat \ {0}
    /\ cl \in [Devices -> Client]
    /\ \A r \in reqs : RequestOK(r)
    /\ \A r, q \in reqs : r.identity # None /\ r.identity = q.identity => r = q
    /\ RevokedWithout(db) /\ RevokedWithout(replica)
    /\ Revoked(replica.chain) \subseteq Revoked(db.chain)
    /\ wrote.member
    /\ PinsOK

-----------------------------------------------------------------------------
(* What a link makes of the chain.                                         *)

LEMMA NoneIsNoKey == None \notin Keys /\ None \notin Devices /\ None \notin Slots
  BY SetsAssumption

LEMMA StateFields ==
    ASSUME NEW s \in State
    PROVE  /\ s.links \in Seq(Link) /\ s.lastTime \in Nat /\ s.ukv \in Nat
           /\ s.key \in KeyOrNone /\ s.epochs \in Seq(KeyEpoch)
           /\ s.devices \in [Devices -> DeviceState]
           /\ s.slots \in [Slots -> SlotState]
  BY DEF State, KeyOrNone

LEMMA DeviceFields ==
    ASSUME NEW s \in State, NEW d \in Devices
    PROVE  /\ s.devices[d] \in DeviceState
           /\ s.devices[d].status \in {"absent", "active", "revoked"}
<1>1. s.devices[d] \in DeviceState
  BY StateFields
<1> QED  BY <1>1 DEF DeviceState

LinkRecord(l) == [type |-> l.type, ctime |-> l.ctime, ukv |-> l.ukv, body |-> l.body]

LEMMA LinkFields ==
    ASSUME NEW l, LinkOK(l)
    PROVE  /\ l.seq \in Nat /\ l.ctime \in Nat /\ l.ukv \in Nat /\ l.type \in SentTypes
           /\ LinkRecord(l) \in Link /\ BodyOK(l)
  BY DEF LinkOK, FullLink, LinkRecord, Link

\* n is x with l noted.
Notes(n, x, l) ==
    /\ n \in State /\ n.links = Append(x.links, LinkRecord(l))
    /\ n.ukv = x.ukv /\ n.key = x.key /\ n.epochs = x.epochs
    /\ n.devices = x.devices /\ n.slots = x.slots

\* NextState, of what Apply makes of s.
LEMMA Noted ==
    ASSUME NEW s, NEW l, LinkOK(l), NEW x \in State, x = Apply(s, l)
    PROVE  Notes(NextState(s, l), x, l)
<1> DEFINE q == Append(x.links, LinkRecord(l))
           n == NextState(s, l)
<1>1. n = [x EXCEPT !.links = q, !.lastTime = l.ctime]
  BY DEF NextState, LinkRecord
<1>2. q \in Seq(Link) /\ l.ctime \in Nat
  BY LinkFields, StateFields
<1> HIDE DEF q, n
<1>3. n \in State
  BY <1>1, <1>2 DEF State
<1>4. /\ n.links = q /\ n.ukv = x.ukv /\ n.key = x.key /\ n.epochs = x.epochs
      /\ n.devices = x.devices /\ n.slots = x.slots
  BY <1>1 DEF State
<1> QED  BY <1>3, <1>4 DEF Notes, q, n

\* The user key and its versions stay.
SameKey(s, n) == n.ukv = s.ukv /\ n.key = s.key /\ n.epochs = s.epochs

\* Links of one device.
LEMMA DeviceNext ==
    ASSUME NEW s \in State, NEW l, LinkOK(l), NEW d \in Devices, NEW e \in DeviceState,
           Apply(s, l) = [s EXCEPT !.devices = [s.devices EXCEPT ![d] = e]],
           NEW n, n = NextState(s, l)
    PROVE  /\ n \in State /\ n.links = Append(s.links, LinkRecord(l))
           /\ SameKey(s, n) /\ n.slots = s.slots
           /\ n.devices[d] = e
           /\ \A c \in Devices \ {d} : n.devices[c] = s.devices[c]
<1> DEFINE D == [s.devices EXCEPT ![d] = e]
<1>1. D \in [Devices -> DeviceState] /\ D[d] = e /\ \A c \in Devices \ {d} : D[c] = s.devices[c]
  BY StateFields
<1> HIDE DEF D
<1>2. Apply(s, l) = [s EXCEPT !.devices = D]
  BY DEF D
<1> DEFINE x == Apply(s, l)
<1>3. /\ x \in State /\ x.devices = D /\ x.links = s.links /\ x.ukv = s.ukv
      /\ x.key = s.key /\ x.epochs = s.epochs /\ x.slots = s.slots
  BY <1>1, <1>2 DEF State
<1>4. Notes(n, x, l)
  BY <1>3, Noted
<1> HIDE DEF x
<1> QED  BY <1>1, <1>3, <1>4 DEF SameKey, Notes

\* applyDeviceAdd
LEMMA DeviceAddNext ==
    ASSUME NEW s \in State, NEW l, LinkOK(l), l.type = "device_add",
           NEW n, n = NextState(s, l)
    PROVE  /\ n \in State /\ n.links = Append(s.links, LinkRecord(l))
           /\ SameKey(s, n) /\ n.slots = s.slots
           /\ l.body.device \in Devices
           /\ n.devices[l.body.device].status = "active"
           /\ n.devices[l.body.device].name = l.body.name
           /\ \A c \in Devices \ {l.body.device} : n.devices[c] = s.devices[c]
<1> DEFINE e == [status |-> "active", name |-> l.body.name, method |-> l.body.method,
                 approvedBy |-> l.body.approvedBy, slot |-> l.body.slot,
                 addedSeq |-> l.seq, revokedSeq |-> 0]
<1>1. l.body \in DeviceAddBody /\ l.seq \in Nat
  BY LinkFields DEF BodyOK
<1>2. l.body.device \in Devices /\ e \in DeviceState
  BY <1>1 DEF DeviceAddBody, DeviceState
<1>3. Apply(s, l) = [s EXCEPT !.devices = [s.devices EXCEPT ![l.body.device] = e]]
  BY DEF Apply, ApplyDeviceAdd
<1>4. e.status = "active" /\ e.name = l.body.name
  OBVIOUS
<1> HIDE DEF e
<1> QED  BY <1>2, <1>3, <1>4, DeviceNext

\* applyDeviceRevoke
LEMMA DeviceRevokeNext ==
    ASSUME NEW s \in State, NEW l, LinkOK(l), l.type = "device_revoke",
           NEW n, n = NextState(s, l)
    PROVE  /\ n \in State /\ n.links = Append(s.links, LinkRecord(l))
           /\ SameKey(s, n) /\ n.slots = s.slots
           /\ l.body.device \in Devices
           /\ n.devices[l.body.device].status = "revoked"
           /\ \A c \in Devices \ {l.body.device} : n.devices[c] = s.devices[c]
<1> DEFINE d == l.body.device
           q == s.devices[d]
           e == [q EXCEPT !.status = "revoked", !.revokedSeq = l.seq]
<1>1. d \in Devices /\ l.seq \in Nat
  BY LinkFields DEF BodyOK, DeviceRevokeBody
<1>2. q \in DeviceState
  BY <1>1, DeviceFields
<1>3. Apply(s, l) = [s EXCEPT !.devices = [s.devices EXCEPT ![d] = e]]
  <2>1. Apply(s, l) = [s EXCEPT !.devices[d] = [@ EXCEPT !.status = "revoked", !.revokedSeq = l.seq]]
    BY DEF Apply, ApplyDeviceRevoke
  <2> QED  BY <1>1, <2>1, StateFields DEF State
<1> HIDE DEF q
<1>4. e \in DeviceState /\ e.status = "revoked"
  BY <1>1, <1>2 DEF DeviceState
<1> HIDE DEF e
<1> QED  BY <1>1, <1>3, <1>4, DeviceNext

\* applyDeviceRename
LEMMA DeviceRenameNext ==
    ASSUME NEW s \in State, NEW l, LinkOK(l), l.type = "device_rename",
           NEW n, n = NextState(s, l)
    PROVE  /\ n \in State /\ n.links = Append(s.links, LinkRecord(l))
           /\ SameKey(s, n) /\ n.slots = s.slots
           /\ l.body.device \in Devices
           /\ n.devices[l.body.device].status = s.devices[l.body.device].status
           /\ n.devices[l.body.device].name = l.body.name
           /\ \A c \in Devices \ {l.body.device} : n.devices[c] = s.devices[c]
<1> DEFINE d == l.body.device
           q == s.devices[d]
           e == [q EXCEPT !.name = l.body.name]
<1>1. d \in Devices /\ l.body.name \in Names
  BY LinkFields DEF BodyOK, DeviceRenameBody
<1>2. q \in DeviceState
  BY <1>1, DeviceFields
<1>3. Apply(s, l) = [s EXCEPT !.devices = [s.devices EXCEPT ![d] = e]]
  <2>1. Apply(s, l) = [s EXCEPT !.devices[d] = [@ EXCEPT !.name = l.body.name]]
    BY DEF Apply, ApplyDeviceRename
  <2> QED  BY <1>1, <2>1, StateFields DEF State
<1> HIDE DEF q
<1>4. e \in DeviceState /\ e.status = q.status /\ e.name = l.body.name
  BY <1>1, <1>2 DEF DeviceState
<1> HIDE DEF e
<1> QED  BY <1>1, <1>3, <1>4, DeviceNext DEF q

\* Links of one slot.
LEMMA SlotNext ==
    ASSUME NEW s \in State, NEW l, LinkOK(l), NEW i \in Slots, NEW e \in SlotState,
           Apply(s, l) = [s EXCEPT !.slots = [s.slots EXCEPT ![i] = e]],
           NEW n, n = NextState(s, l)
    PROVE  /\ n \in State /\ n.links = Append(s.links, LinkRecord(l))
           /\ SameKey(s, n) /\ n.devices = s.devices
           /\ n.slots[i] = e
           /\ \A j \in Slots \ {i} : n.slots[j] = s.slots[j]
<1> DEFINE S == [s.slots EXCEPT ![i] = e]
<1>1. S \in [Slots -> SlotState] /\ S[i] = e /\ \A j \in Slots \ {i} : S[j] = s.slots[j]
  BY StateFields
<1> HIDE DEF S
<1>2. Apply(s, l) = [s EXCEPT !.slots = S]
  BY DEF S
<1> DEFINE x == Apply(s, l)
<1>3. /\ x \in State /\ x.slots = S /\ x.links = s.links /\ x.ukv = s.ukv /\ x.key = s.key
      /\ x.epochs = s.epochs /\ x.devices = s.devices
  BY <1>1, <1>2 DEF State
<1>4. Notes(n, x, l)
  BY <1>3, Noted
<1> HIDE DEF x
<1> QED  BY <1>1, <1>3, <1>4 DEF SameKey, Notes

\* applyAgentSlotAdd
LEMMA SlotAddNext ==
    ASSUME NEW s \in State, NEW l, LinkOK(l), l.type = "agent_slot_add",
           NEW n, n = NextState(s, l)
    PROVE  /\ n \in State /\ n.links = Append(s.links, LinkRecord(l))
           /\ SameKey(s, n) /\ n.devices = s.devices
           /\ l.body.slot \in Slots
           /\ n.slots[l.body.slot].status = "active"
           /\ n.slots[l.body.slot].expires = l.body.expires
           /\ \A j \in Slots \ {l.body.slot} : n.slots[j] = s.slots[j]
<1> DEFINE e == [status |-> "active", expires |-> l.body.expires, ukv |-> s.ukv]
<1>1. l.body.slot \in Slots /\ l.body.expires \in Nat /\ s.ukv \in Nat
  BY LinkFields, StateFields DEF BodyOK, AgentSlotAddBody
<1>2. e \in SlotState /\ e.status = "active" /\ e.expires = l.body.expires
  BY <1>1 DEF SlotState
<1>3. Apply(s, l) = [s EXCEPT !.slots = [s.slots EXCEPT ![l.body.slot] = e]]
  BY DEF Apply, ApplySlotAdd
<1> HIDE DEF e
<1> QED  BY <1>1, <1>2, <1>3, SlotNext

\* applyAgentSlotRemove
LEMMA SlotRemoveNext ==
    ASSUME NEW s \in State, NEW l, LinkOK(l), l.type = "agent_slot_remove",
           NEW n, n = NextState(s, l)
    PROVE  /\ n \in State /\ n.links = Append(s.links, LinkRecord(l))
           /\ SameKey(s, n) /\ n.devices = s.devices
           /\ l.body.slot \in Slots
           /\ \A j \in Slots \ {l.body.slot} : n.slots[j] = s.slots[j]
<1> DEFINE i == l.body.slot
           q == s.slots[i]
           e == [q EXCEPT !.status = "inactive"]
<1>1. i \in Slots
  BY LinkFields DEF BodyOK, AgentSlotRemoveBody
<1>2. q \in SlotState
  BY <1>1, StateFields
<1>3. Apply(s, l) = [s EXCEPT !.slots = [s.slots EXCEPT ![i] = e]]
  <2>1. Apply(s, l) = [s EXCEPT !.slots[i] = [@ EXCEPT !.status = "inactive"]]
    BY DEF Apply, ApplySlotRemove
  <2> QED  BY <1>1, <2>1, StateFields DEF State
<1> HIDE DEF q
<1>4. e \in SlotState
  BY <1>2 DEF SlotState
<1> HIDE DEF e
<1> QED  BY <1>1, <1>3, <1>4, SlotNext

\* A new user key, with its version.
NewKey(s, n, k) ==
    /\ n.key = k /\ k \in Keys
    /\ EpochKeys(n) = EpochKeys(s) \cup {k}

LEMMA EpochKeysType == \A s \in State : EpochKeys(s) \subseteq Keys
<1> SUFFICES ASSUME NEW s \in State, NEW i \in DOMAIN s.epochs
             PROVE  s.epochs[i].key \in Keys
  BY DEF EpochKeys
<1>1. s.epochs[i] \in KeyEpoch
  BY StateFields
<1> QED  BY <1>1 DEF KeyEpoch

LEMMA AppendKeys ==
    ASSUME NEW T, NEW q \in Seq(T), NEW e \in T
    PROVE  {Append(q, e)[i].key : i \in DOMAIN Append(q, e)}
             = {q[i].key : i \in DOMAIN q} \cup {e.key}
<1> DEFINE a == Append(q, e)
<1>1. /\ DOMAIN a = 1..(Len(q) + 1) /\ DOMAIN q = 1..Len(q) /\ Len(q) \in Nat
      /\ \A i \in 1..Len(q) : a[i] = q[i]
      /\ a[Len(q) + 1] = e
  OBVIOUS
<1> HIDE DEF a
<1>2. \A i \in DOMAIN a : i \in DOMAIN q \/ i = Len(q) + 1
  BY <1>1
<1>3. \A i \in DOMAIN q : i \in DOMAIN a /\ a[i].key = q[i].key
  BY <1>1
<1>4. Len(q) + 1 \in DOMAIN a
  BY <1>1
<1> QED  BY <1>1, <1>2, <1>3, <1>4 DEF a

\* applyInit
LEMMA InitNext ==
    ASSUME NEW s \in State, NEW l, LinkOK(l), l.type = "init", s.epochs = << >>,
           NEW n, n = NextState(s, l)
    PROVE  /\ n \in State /\ n.links = Append(s.links, LinkRecord(l))
           /\ NewKey(s, n, l.body.key) /\ n.ukv = 1
           /\ n.devices = s.devices /\ n.slots = s.slots
<1> DEFINE r == [version |-> 1, key |-> l.body.key, seq |-> l.seq]
           e == <<r>>
           v == 1
           k == l.body.key
<1>1. l.seq \in Nat /\ k \in Keys
  BY LinkFields DEF BodyOK, InitBody
<1>2. r \in KeyEpoch /\ r.key = k
  BY <1>1 DEF KeyEpoch
<1>3. Apply(s, l) = [s EXCEPT !.ukv = v, !.key = k, !.epochs = e]
  BY DEF Apply, ApplyInit
<1> HIDE DEF r
<1>4. e \in Seq(KeyEpoch) /\ {e[i].key : i \in DOMAIN e} = {k}
  <2>1. DOMAIN e = {1} /\ e[1] = r
    OBVIOUS
  <2> QED  BY <1>2, <2>1
<1>5. v \in Nat /\ v = 1
  OBVIOUS
<1> DEFINE x == Apply(s, l)
<1> HIDE DEF e, v, k
<1>6. /\ x \in State /\ x.epochs = e /\ x.links = s.links /\ x.ukv = v /\ x.key = k
      /\ x.devices = s.devices /\ x.slots = s.slots
  BY <1>1, <1>3, <1>4, <1>5 DEF State
<1>7. Notes(n, x, l)
  BY <1>6, Noted
<1> HIDE DEF x
<1>8. EpochKeys(n) = {k}
  <2>1. n.epochs = e
    BY <1>6, <1>7 DEF Notes
  <2> QED  BY <1>4, <2>1 DEF EpochKeys
<1>9. EpochKeys(s) = {}
  BY DEF EpochKeys
<1> QED  BY <1>1, <1>5, <1>6, <1>7, <1>8, <1>9 DEF NewKey, Notes, k

\* applyRotate
LEMMA RotateNext ==
    ASSUME NEW s \in State, NEW l, LinkOK(l), l.type = "ukey_rotate", l.ukv = s.ukv + 1,
           NEW n, n = NextState(s, l)
    PROVE  /\ n \in State /\ n.links = Append(s.links, LinkRecord(l))
           /\ NewKey(s, n, l.body.key) /\ n.ukv = s.ukv + 1
           /\ \A d \in Devices :
                IF s.devices[d].status = "active" /\ d \notin l.body.keep
                THEN n.devices[d].status = "revoked" ELSE n.devices[d] = s.devices[d]
<1> DEFINE r == [version |-> l.ukv, key |-> l.body.key, seq |-> l.seq]
           e == Append(s.epochs, r)
           dr(d) == [s.devices[d] EXCEPT !.status = "revoked", !.revokedSeq = l.seq]
           gr(d) == [s.delegates[d] EXCEPT !.status = "removed", !.removedSeq = l.seq]
           sr(i) == [s.slots[i] EXCEPT !.status = "inactive"]
           D == [d \in Devices |->
                   IF s.devices[d].status = "active" /\ d \notin l.body.keep
                   THEN dr(d) ELSE s.devices[d]]
           S == [i \in Slots |-> IF s.slots[i].status = "active" THEN sr(i) ELSE s.slots[i]]
           G == [i \in Delegates |->
                   IF s.delegates[i].status = "active" THEN gr(i) ELSE s.delegates[i]]
           k == l.body.key
<1>1. l.seq \in Nat /\ l.ukv \in Nat /\ k \in Keys
  BY LinkFields DEF BodyOK, UKeyRotateBody
<1>2. r \in KeyEpoch /\ r.key = k
  BY <1>1 DEF KeyEpoch
<1>3. Apply(s, l) = [s EXCEPT !.devices = D, !.slots = S, !.delegates = G,
                              !.ukv = l.ukv, !.key = k, !.epochs = e]
  BY DEF Apply, ApplyRotate
<1> HIDE DEF r, k
<1>4. /\ e \in Seq(KeyEpoch)
      /\ {e[i].key : i \in DOMAIN e} = {s.epochs[i].key : i \in DOMAIN s.epochs} \cup {k}
  <2> DEFINE q == s.epochs
  <2>1. q \in Seq(KeyEpoch)
    BY StateFields
  <2>2. e = Append(q, r)
    BY DEF e
  <2> HIDE DEF q, e
  <2>3. e \in Seq(KeyEpoch)
    BY <1>2, <2>1, <2>2
  <2>4. {Append(q, r)[i].key : i \in DOMAIN Append(q, r)} = {q[i].key : i \in DOMAIN q} \cup {r.key}
    BY <1>2, <2>1, AppendKeys
  <2> QED  BY <1>2, <2>2, <2>3, <2>4 DEF q
<1>5. \A d \in Devices : s.devices[d] \in DeviceState
  BY StateFields
<1>6. \A d \in Devices : dr(d) \in DeviceState /\ dr(d).status = "revoked"
  BY <1>1, <1>5 DEF DeviceState
<1>7. \A i \in Slots : s.slots[i] \in SlotState
  BY StateFields
<1>8. \A i \in Slots : sr(i) \in SlotState
  BY <1>7 DEF SlotState
<1>9. \A i \in Delegates : s.delegates[i] \in DelegateState
  BY DEF State
<1>10. \A i \in Delegates : gr(i) \in DelegateState
  BY <1>1, <1>9 DEF DelegateState
<1> HIDE DEF dr, sr, gr, e
<1>11. /\ D \in [Devices -> DeviceState] /\ S \in [Slots -> SlotState]
       /\ G \in [Delegates -> DelegateState]
  BY <1>5, <1>6, <1>7, <1>8, <1>9, <1>10
<1>12. \A d \in Devices :
         IF s.devices[d].status = "active" /\ d \notin l.body.keep
         THEN D[d].status = "revoked" ELSE D[d] = s.devices[d]
  BY <1>6
<1> DEFINE x == Apply(s, l)
<1> HIDE DEF D, S, G
<1>13. /\ x \in State /\ x.epochs = e /\ x.links = s.links /\ x.ukv = l.ukv /\ x.key = k
       /\ x.devices = D
  <2> DEFINE u == l.ukv
  <2>1. x = [s EXCEPT !.devices = D, !.slots = S, !.delegates = G, !.ukv = u, !.key = k,
                      !.epochs = e]
    BY <1>3
  <2>2. u \in Nat /\ k \in Keys /\ e \in Seq(KeyEpoch)
    BY <1>1, <1>4
  <2> HIDE DEF x, u
  <2>3. x \in State
    BY <1>11, <2>1, <2>2 DEF State
  <2>4. x.epochs = e /\ x.links = s.links /\ x.ukv = u /\ x.key = k /\ x.devices = D
    BY <2>1 DEF State
  <2> QED  BY <2>3, <2>4 DEF u
<1>14. Notes(n, x, l)
  BY <1>13, Noted
<1> HIDE DEF x
<1>15. EpochKeys(n) = EpochKeys(s) \cup {k}
  <2>1. n.epochs = e
    BY <1>13, <1>14 DEF Notes
  <2> QED  BY <1>4, <2>1 DEF EpochKeys
<1> QED  BY <1>1, <1>12, <1>13, <1>14, <1>15 DEF NewKey, Notes, k

\* What the rules say of a link of each type.
LEMMA RuleOf ==
    ASSUME NEW s \in State, NEW l, LinkOK(l), ValidNext(s, l)
    PROVE  /\ l.seq = SeqNo(s) + 1 /\ SeqNo(s) \in Nat
           /\ l.type = "init" <=> SeqNo(s) = 0
           /\ l.type = "ukey_rotate" => ValidRotate(s, l)
           /\ l.type = "device_add" => ValidDeviceAdd(s, l)
           /\ l.type = "device_revoke" => ValidDeviceRevoke(s, l)
           /\ l.type = "device_rename" => ValidDeviceRename(s, l)
           /\ l.type = "agent_slot_add" => ValidSlotAdd(s, l)
           /\ l.type = "agent_slot_remove" => ValidSlotRemove(s, l)
<1>1. SeqNo(s) \in Nat /\ l.seq = SeqNo(s) + 1
  BY StateFields DEF SeqNo, ValidNext, InSequence
<1>2. CASE l.seq = 1
  BY <1>1, <1>2 DEF ValidNext, ValidInit
<1>3. CASE l.seq # 1
  <2>1. ValidApply(s, l)
    BY <1>3 DEF ValidNext
  <2>2. l.type # "init" /\ SeqNo(s) # 0
    BY <1>1, <1>3, <2>1 DEF ValidApply
  <2> QED  BY <1>1, <2>1, <2>2 DEF ValidApply
<1> QED  BY <1>2, <1>3

LEMMA LinksGrow ==
    ASSUME NEW s \in State, NEW l, LinkOK(l), NEW n, n.links = Append(s.links, LinkRecord(l))
    PROVE  SeqNo(n) = SeqNo(s) + 1 /\ SeqNo(n) \in Nat /\ SeqNo(n) # 0
<1> DEFINE q == s.links
           e == LinkRecord(l)
<1>1. q \in Seq(Link) /\ e \in Link
  BY StateFields, LinkFields
<1> HIDE DEF q, e
<1>2. Len(Append(q, e)) = Len(q) + 1 /\ Len(q) \in Nat
  BY <1>1
<1> QED  BY <1>2 DEF SeqNo, q, e

-----------------------------------------------------------------------------
(* What a link makes of the tables.                                        *)

LEMMA DatabaseFields ==
    ASSUME NEW b \in Database
    PROVE  /\ b.chain \in State /\ b.rows \in [Devices -> Row] /\ b.sessions \in SUBSET Devices
           /\ b.boxes \in SUBSET KeyBox /\ b.identity \in KeyOrNone
           /\ b.vault \in [version: Nat, key: KeyOrNone] /\ b.slots \in [Slots -> SlotRow]
  BY DEF Database

\* A database c with a new chain and the tables that go with it.
Becomes(b, c, n, rows, sessions, slots) ==
    /\ c \in Database /\ c.chain = n /\ c.rows = rows /\ c.sessions = sessions /\ c.slots = slots
    /\ c.boxes = b.boxes /\ c.identity = b.identity /\ c.vault = b.vault

LEMMA NewRows ==
    ASSUME NEW b \in Database, NEW n \in State, NEW rows \in [Devices -> Row]
    PROVE  Becomes(b, [b EXCEPT !.rows = rows, !.chain = n], n, rows, b.sessions, b.slots)
  BY DEF Becomes, Database

LEMMA NewSlots ==
    ASSUME NEW b \in Database, NEW n \in State, NEW slots \in [Slots -> SlotRow]
    PROVE  Becomes(b, [b EXCEPT !.slots = slots, !.chain = n], n, b.rows, b.sessions, slots)
  BY DEF Becomes, Database

\* setRevoked, with the chain and, after a rotation, the slots.
RevokedRows(b, R) ==
    [d \in Devices |-> IF d \in R THEN [b.rows[d] EXCEPT !.status = "revoked"] ELSE b.rows[d]]

WithChain(b, R, n) == [SetRevoked(b, R) EXCEPT !.chain = n]
WithSlots(b, R, slots, n) == [SetRevoked(b, R) EXCEPT !.slots = slots, !.chain = n]

LEMMA RevokedRowsAre ==
    ASSUME NEW b \in Database, NEW R \in SUBSET Devices
    PROVE  /\ RevokedRows(b, R) \in [Devices -> Row]
           /\ b.sessions \ R \in SUBSET Devices
           /\ \A a \in Devices : IF a \in R THEN RevokedRows(b, R)[a].status = "revoked"
                                 ELSE RevokedRows(b, R)[a] = b.rows[a]
<1> DEFINE e(d) == [b.rows[d] EXCEPT !.status = "revoked"]
           rows == [d \in Devices |-> IF d \in R THEN e(d) ELSE b.rows[d]]
<1>1. \A d \in Devices : b.rows[d] \in Row
  BY DatabaseFields
<1>2. \A d \in Devices : e(d) \in Row /\ e(d).status = "revoked"
  BY <1>1 DEF Row
<1>3. RevokedRows(b, R) = rows
  BY DEF RevokedRows
<1> HIDE DEF e
<1>4. rows \in [Devices -> Row]
  BY <1>1, <1>2
<1>5. \A a \in Devices : IF a \in R THEN rows[a].status = "revoked" ELSE rows[a] = b.rows[a]
  BY <1>2
<1>6. b.sessions \ R \in SUBSET Devices
  BY DatabaseFields
<1> HIDE DEF rows
<1> QED  BY <1>3, <1>4, <1>5, <1>6

LEMMA NewRevoked ==
    ASSUME NEW b \in Database, NEW n \in State, NEW R \in SUBSET Devices
    PROVE  Becomes(b, WithChain(b, R, n), n, RevokedRows(b, R), b.sessions \ R, b.slots)
<1> DEFINE rows == RevokedRows(b, R)
           ss == b.sessions \ R
<1>1. WithChain(b, R, n) = [b EXCEPT !.rows = rows, !.sessions = ss, !.chain = n]
  BY DEF SetRevoked, Database, WithChain, RevokedRows
<1>2. rows \in [Devices -> Row] /\ ss \in SUBSET Devices
  BY RevokedRowsAre
<1> DEFINE c == WithChain(b, R, n)
<1> HIDE DEF rows, ss, c
<1>3. Becomes(b, c, n, rows, ss, b.slots)
  BY <1>1, <1>2 DEF Becomes, Database, c
<1> QED  BY <1>3 DEF c, ss, rows

LEMMA NewRevokedSlots ==
    ASSUME NEW b \in Database, NEW n \in State, NEW R \in SUBSET Devices,
           NEW slots \in [Slots -> SlotRow]
    PROVE  Becomes(b, WithSlots(b, R, slots, n), n, RevokedRows(b, R), b.sessions \ R, slots)
<1> DEFINE rows == RevokedRows(b, R)
           ss == b.sessions \ R
<1>1. WithSlots(b, R, slots, n)
        = [b EXCEPT !.rows = rows, !.sessions = ss, !.slots = slots, !.chain = n]
  BY DEF SetRevoked, Database, WithSlots, RevokedRows
<1>2. rows \in [Devices -> Row] /\ ss \in SUBSET Devices
  BY RevokedRowsAre
<1> DEFINE c == WithSlots(b, R, slots, n)
<1> HIDE DEF rows, ss, c
<1>3. Becomes(b, c, n, rows, ss, slots)
  BY <1>1, <1>2 DEF Becomes, Database, c
<1> QED  BY <1>3 DEF c, ss, rows

\* What is stored stays, while the chain becomes n and the tables follow it.
Mirrored(b, c, n) ==
    /\ Tables(c) /\ c.chain = n
    /\ c.boxes = b.boxes /\ c.identity = b.identity /\ c.vault = b.vault

LEMMA TablesOf ==
    ASSUME NEW b, NEW c, NEW n \in State, SeqNo(n) # 0, NEW rows, NEW sessions, NEW slots,
           Becomes(b, c, n, rows, sessions, slots),
           \A a \in Devices : RowAgrees(n, rows, sessions, a),
           \A i \in Slots : SlotAgrees(n, slots, i)
    PROVE  Mirrored(b, c, n)
  BY DEF Becomes, Mirrored, Tables

\* applyDeviceAdd: the pending row becomes active.
LEMMA MirrorDeviceAddIs ==
    ASSUME NEW b, Tables(b), NEW l, LinkOK(l), NEW sd, LinkAllowed(b, l, sd),
           l.type = "device_add", l.body.name = FirstName
    PROVE  Mirrored(b, Mirror(b, l, sd), NextState(b.chain, l))
<1> DEFINE n == NextState(b.chain, l)
           d == l.body.device
           q == b.rows[d]
           e == [q EXCEPT !.status = "active", !.until = 0]
           rows == [b.rows EXCEPT ![d] = e]
           c == Mirror(b, l, sd)
<1>1. b \in Database /\ b.chain \in State /\ b.rows \in [Devices -> Row]
  BY DatabaseFields DEF Tables
<1>2. /\ n \in State /\ n.links = Append(b.chain.links, LinkRecord(l))
      /\ SameKey(b.chain, n) /\ n.slots = b.chain.slots
      /\ d \in Devices
      /\ n.devices[d].status = "active" /\ n.devices[d].name = FirstName
      /\ \A a \in Devices \ {d} : n.devices[a] = b.chain.devices[a]
  <2> DEFINE s == b.chain
  <2>1. s \in State /\ n = NextState(s, l)
    BY <1>1
  <2> HIDE DEF n, s
  <2>2. /\ n \in State /\ n.links = Append(s.links, LinkRecord(l))
        /\ SameKey(s, n) /\ n.slots = s.slots
        /\ d \in Devices
        /\ n.devices[d].status = "active" /\ n.devices[d].name = FirstName
        /\ \A a \in Devices \ {d} : n.devices[a] = s.devices[a]
    BY <2>1, DeviceAddNext
  <2> QED  BY <2>2 DEF s
<1>3. q \in Row /\ q.status = "pending" /\ q.name = FirstName
  BY <1>1, <1>2 DEF LinkAllowed, JoinAllowed, Tables, RowAgrees
<1>4. SeqNo(n) # 0
  BY <1>1, <1>2, LinksGrow
<1>5. c = [b EXCEPT !.rows = rows, !.chain = n]
  BY <1>1 DEF Mirror, MirrorDeviceAdd, Database
<1> HIDE DEF n, q
<1>6. e \in Row /\ e.status = "active" /\ e.name = FirstName
  BY <1>3 DEF Row
<1> HIDE DEF e
<1>7. rows \in [Devices -> Row] /\ rows[d] = e /\ \A a \in Devices \ {d} : rows[a] = b.rows[a]
  BY <1>1, <1>2, <1>6
<1> HIDE DEF rows, c
<1>8. Becomes(b, c, n, rows, b.sessions, b.slots)
  BY <1>1, <1>2, <1>5, <1>7, NewRows
<1>9. ASSUME NEW a \in Devices
      PROVE  RowAgrees(n, rows, b.sessions, a)
  <2>1. CASE a = d
    BY <1>2, <1>6, <1>7, <2>1 DEF RowAgrees
  <2>2. CASE a # d
    BY <1>2, <1>7, <2>2 DEF Tables, RowAgrees
  <2> QED  BY <2>1, <2>2
<1>10. \A i \in Slots : SlotAgrees(n, b.slots, i)
  BY <1>2 DEF Tables, SlotAgrees, SameKey
<1>11. Mirrored(b, c, n)
  BY <1>2, <1>4, <1>8, <1>9, <1>10, TablesOf
<1> QED  BY <1>11 DEF c, n

LEMMA MirrorDeviceRevokeIs ==
    ASSUME NEW b, Tables(b), NEW l, LinkOK(l), NEW sd, l.type = "device_revoke"
    PROVE  Mirrored(b, Mirror(b, l, sd), NextState(b.chain, l))
<1> DEFINE n == NextState(b.chain, l)
           d == l.body.device
           R == {d}
           rows == RevokedRows(b, R)
           c == Mirror(b, l, sd)
<1>1. b \in Database /\ b.chain \in State /\ b.slots \in [Slots -> SlotRow]
  BY DatabaseFields DEF Tables
<1>2. /\ n \in State /\ n.links = Append(b.chain.links, LinkRecord(l))
      /\ SameKey(b.chain, n) /\ n.slots = b.chain.slots
      /\ d \in Devices
      /\ n.devices[d].status = "revoked"
      /\ \A a \in Devices \ {d} : n.devices[a] = b.chain.devices[a]
  BY <1>1, DeviceRevokeNext
<1>3. SeqNo(n) # 0
  BY <1>1, <1>2, LinksGrow
<1>4. c = WithChain(b, R, n)
  BY DEF Mirror, WithChain
<1> HIDE DEF n, c
<1>5. /\ rows \in [Devices -> Row]
      /\ \A a \in Devices : IF a \in R THEN rows[a].status = "revoked" ELSE rows[a] = b.rows[a]
      /\ Becomes(b, WithChain(b, R, n), n, rows, b.sessions \ R, b.slots)
  <2>1. R \in SUBSET Devices
    BY <1>2
  <2> HIDE DEF R
  <2> QED  BY <1>1, <1>2, <2>1, NewRevoked, RevokedRowsAre
<1> HIDE DEF rows
<1>6. ASSUME NEW a \in Devices
      PROVE  RowAgrees(n, rows, b.sessions \ R, a)
  <2>1. CASE a = d
    BY <1>2, <1>5, <2>1 DEF RowAgrees
  <2>2. CASE a # d
    BY <1>2, <1>5, <2>2 DEF Tables, RowAgrees
  <2> QED  BY <2>1, <2>2
<1>7. \A i \in Slots : SlotAgrees(n, b.slots, i)
  BY <1>2 DEF Tables, SlotAgrees, SameKey
<1>8. Mirrored(b, c, n)
  BY <1>2, <1>3, <1>4, <1>5, <1>6, <1>7, TablesOf
<1> QED  BY <1>8 DEF c, n

LEMMA MirrorDeviceRenameIs ==
    ASSUME NEW b, Tables(b), NEW l, LinkOK(l), NEW sd, LinkAllowed(b, l, sd),
           l.type = "device_rename"
    PROVE  Mirrored(b, Mirror(b, l, sd), NextState(b.chain, l))
<1> DEFINE n == NextState(b.chain, l)
           d == l.body.device
           q == b.rows[d]
           e == [q EXCEPT !.name = l.body.name]
           rows == [b.rows EXCEPT ![d] = e]
           c == Mirror(b, l, sd)
<1>1. b \in Database /\ b.chain \in State /\ b.rows \in [Devices -> Row]
  BY DatabaseFields DEF Tables
<1>2. /\ n \in State /\ n.links = Append(b.chain.links, LinkRecord(l))
      /\ SameKey(b.chain, n) /\ n.slots = b.chain.slots
      /\ d \in Devices
      /\ n.devices[d].status = b.chain.devices[d].status /\ n.devices[d].name = l.body.name
      /\ \A a \in Devices \ {d} : n.devices[a] = b.chain.devices[a]
  <2> DEFINE s == b.chain
  <2>1. s \in State /\ n = NextState(s, l)
    BY <1>1
  <2> HIDE DEF n, s
  <2>2. /\ n \in State /\ n.links = Append(s.links, LinkRecord(l))
        /\ SameKey(s, n) /\ n.slots = s.slots
        /\ d \in Devices
        /\ n.devices[d].status = s.devices[d].status /\ n.devices[d].name = l.body.name
        /\ \A a \in Devices \ {d} : n.devices[a] = s.devices[a]
    BY <2>1, DeviceRenameNext
  <2> QED  BY <2>2 DEF s
<1>3. b.chain.devices[d].status = "active"
  BY <1>1, RuleOf DEF LinkAllowed, ValidDeviceRename, ActiveDevices
<1>4. q \in Row /\ q.status \in {"active", "suspended"} /\ l.body.name \in Names
  BY <1>1, <1>2, <1>3, LinkFields DEF Tables, RowAgrees, BodyOK, DeviceRenameBody
<1>5. SeqNo(n) # 0
  BY <1>1, <1>2, LinksGrow
<1>6. c = [b EXCEPT !.rows = rows, !.chain = n]
  BY <1>1 DEF Mirror, Database
<1> HIDE DEF n, q
<1>7. e \in Row /\ e.status = q.status /\ e.name = l.body.name
  BY <1>4 DEF Row
<1> HIDE DEF e
<1>8. rows \in [Devices -> Row] /\ rows[d] = e /\ \A a \in Devices \ {d} : rows[a] = b.rows[a]
  BY <1>1, <1>2, <1>7
<1> HIDE DEF rows, c
<1>9. Becomes(b, c, n, rows, b.sessions, b.slots)
  BY <1>1, <1>2, <1>6, <1>8, NewRows
<1>10. ASSUME NEW a \in Devices
      PROVE  RowAgrees(n, rows, b.sessions, a)
  <2>1. CASE a = d
    BY <1>2, <1>3, <1>4, <1>7, <1>8, <2>1 DEF Tables, RowAgrees, q
  <2>2. CASE a # d
    BY <1>2, <1>8, <2>2 DEF Tables, RowAgrees
  <2> QED  BY <2>1, <2>2
<1>11. \A i \in Slots : SlotAgrees(n, b.slots, i)
  BY <1>2 DEF Tables, SlotAgrees, SameKey
<1>12. Mirrored(b, c, n)
  BY <1>2, <1>5, <1>9, <1>10, <1>11, TablesOf
<1> QED  BY <1>12 DEF c, n

\* A slot that is enabled holds the current key.
LEMMA MirrorSlotAddIs ==
    ASSUME NEW b, Tables(b), NEW l, LinkOK(l), NEW sd \in SlotData, LinkAllowed(b, l, sd),
           l.type = "agent_slot_add", sd.key = b.chain.key
    PROVE  Mirrored(b, Mirror(b, l, sd), NextState(b.chain, l))
<1> DEFINE n == NextState(b.chain, l)
           i == l.body.slot
           e == [status |-> "enabled", expires |-> sd.expires, ukv |-> sd.ukv, key |-> sd.key]
           slots == [b.slots EXCEPT ![i] = e]
           c == Mirror(b, l, sd)
<1>1. b \in Database /\ b.chain \in State /\ b.slots \in [Slots -> SlotRow]
  BY DatabaseFields DEF Tables
<1>2. /\ n \in State /\ n.links = Append(b.chain.links, LinkRecord(l))
      /\ SameKey(b.chain, n) /\ n.devices = b.chain.devices
      /\ i \in Slots
      /\ n.slots[i].status = "active" /\ n.slots[i].expires = l.body.expires
      /\ \A j \in Slots \ {i} : n.slots[j] = b.chain.slots[j]
  BY <1>1, SlotAddNext
<1>3. SeqNo(n) # 0
  BY <1>1, <1>2, LinksGrow
<1>4. c = [b EXCEPT !.slots = slots, !.chain = n]
  BY <1>1 DEF Mirror, MirrorSlotAdd, Database
<1>5. e \in SlotRow /\ e.expires = l.body.expires /\ e.key = b.chain.key
  BY DEF LinkAllowed, SlotRow, SlotData
<1> HIDE DEF n, e
<1>6. slots \in [Slots -> SlotRow] /\ slots[i] = e /\ \A j \in Slots \ {i} : slots[j] = b.slots[j]
  BY <1>1, <1>2, <1>5
<1> HIDE DEF slots, c
<1>7. Becomes(b, c, n, b.rows, b.sessions, slots)
  BY <1>1, <1>2, <1>4, <1>6, NewSlots
<1>8. \A a \in Devices : RowAgrees(n, b.rows, b.sessions, a)
  BY <1>2 DEF Tables, RowAgrees
<1>9. ASSUME NEW j \in Slots
      PROVE  SlotAgrees(n, slots, j)
  <2>1. CASE j = i
    BY <1>2, <1>5, <1>6, <2>1 DEF SlotAgrees, SameKey
  <2>2. CASE j # i
    BY <1>2, <1>6, <2>2 DEF Tables, SlotAgrees, SameKey
  <2> QED  BY <2>1, <2>2
<1>10. Mirrored(b, c, n)
  BY <1>2, <1>3, <1>7, <1>8, <1>9, TablesOf
<1> QED  BY <1>10 DEF c, n

LEMMA MirrorSlotRemoveIs ==
    ASSUME NEW b, Tables(b), NEW l, LinkOK(l), NEW sd, l.type = "agent_slot_remove"
    PROVE  Mirrored(b, Mirror(b, l, sd), NextState(b.chain, l))
<1> DEFINE n == NextState(b.chain, l)
           i == l.body.slot
           q == b.slots[i]
           e == [q EXCEPT !.status = "disabled"]
           slots == [b.slots EXCEPT ![i] = e]
           c == Mirror(b, l, sd)
<1>1. b \in Database /\ b.chain \in State /\ b.slots \in [Slots -> SlotRow]
  BY DatabaseFields DEF Tables
<1>2. /\ n \in State /\ n.links = Append(b.chain.links, LinkRecord(l))
      /\ SameKey(b.chain, n) /\ n.devices = b.chain.devices
      /\ i \in Slots
      /\ \A j \in Slots \ {i} : n.slots[j] = b.chain.slots[j]
  BY <1>1, SlotRemoveNext
<1>3. SeqNo(n) # 0
  BY <1>1, <1>2, LinksGrow
<1>4. c = [b EXCEPT !.slots = slots, !.chain = n]
  BY <1>1 DEF Mirror, Database
<1>5. q \in SlotRow
  BY <1>1, <1>2
<1> HIDE DEF n, q
<1>6. e \in SlotRow /\ e.status = "disabled"
  BY <1>5 DEF SlotRow
<1> HIDE DEF e
<1>7. slots \in [Slots -> SlotRow] /\ slots[i] = e /\ \A j \in Slots \ {i} : slots[j] = b.slots[j]
  BY <1>1, <1>2, <1>6
<1> HIDE DEF slots, c
<1>8. Becomes(b, c, n, b.rows, b.sessions, slots)
  BY <1>1, <1>2, <1>4, <1>7, NewSlots
<1>9. \A a \in Devices : RowAgrees(n, b.rows, b.sessions, a)
  BY <1>2 DEF Tables, RowAgrees
<1>10. ASSUME NEW j \in Slots
      PROVE  SlotAgrees(n, slots, j)
  <2>1. CASE j = i
    BY <1>6, <1>7, <2>1 DEF SlotAgrees
  <2>2. CASE j # i
    BY <1>2, <1>7, <2>2 DEF Tables, SlotAgrees, SameKey
  <2> QED  BY <2>1, <2>2
<1>11. Mirrored(b, c, n)
  BY <1>2, <1>3, <1>8, <1>9, <1>10, TablesOf
<1> QED  BY <1>11 DEF c, n

LEMMA MirrorInitIs ==
    ASSUME NEW b, Tables(b), b.chain = New, NEW l, LinkOK(l), NEW sd, l.type = "init"
    PROVE  Mirrored(b, Mirror(b, l, sd), NextState(b.chain, l))
<1> DEFINE n == NextState(b.chain, l)
           c == Mirror(b, l, sd)
<1>1. /\ b \in Database /\ b.chain \in State /\ b.rows \in [Devices -> Row]
      /\ b.slots \in [Slots -> SlotRow] /\ b.sessions \in SUBSET Devices
  BY DatabaseFields DEF Tables
<1>2. b.chain.epochs = << >> /\ \A i \in Slots : b.chain.slots[i].status = "absent"
  BY DEF New
<1>3. /\ n \in State /\ n.links = Append(b.chain.links, LinkRecord(l))
      /\ n.devices = b.chain.devices /\ n.slots = b.chain.slots
  BY <1>1, <1>2, InitNext
<1>4. SeqNo(n) # 0
  BY <1>1, <1>3, LinksGrow
<1>5. c = [b EXCEPT !.chain = n]
  BY DEF Mirror
<1> HIDE DEF n, c
<1>6. Becomes(b, c, n, b.rows, b.sessions, b.slots)
  BY <1>1, <1>3, <1>5 DEF Becomes, Database
<1>7. \A a \in Devices : RowAgrees(n, b.rows, b.sessions, a)
  BY <1>3 DEF Tables, RowAgrees
<1>8. \A i \in Slots : SlotAgrees(n, b.slots, i)
  BY <1>2, <1>3 DEF Tables, SlotAgrees
<1>9. Mirrored(b, c, n)
  BY <1>3, <1>4, <1>6, <1>7, <1>8, TablesOf
<1> QED  BY <1>9 DEF c, n

\* applyRotate: rows of devices that the rotation revoked, and all slots.
LEMMA MirrorRotateIs ==
    ASSUME NEW b, Tables(b), NEW l, LinkOK(l), NEW sd, l.type = "ukey_rotate",
           l.ukv = b.chain.ukv + 1
    PROVE  Mirrored(b, Mirror(b, l, sd), NextState(b.chain, l))
<1> DEFINE n == NextState(b.chain, l)
           R == {d \in Devices : /\ b.rows[d].status \in {"active", "suspended"}
                                 /\ n.devices[d].status = "revoked"}
           rows == RevokedRows(b, R)
           off(i) == [b.slots[i] EXCEPT !.status = "disabled"]
           slots == [i \in Slots |-> IF b.slots[i].status = "enabled" THEN off(i) ELSE b.slots[i]]
           c == Mirror(b, l, sd)
<1>1. b \in Database /\ b.chain \in State /\ b.slots \in [Slots -> SlotRow]
  BY DatabaseFields DEF Tables
<1>2. /\ n \in State /\ n.links = Append(b.chain.links, LinkRecord(l))
      /\ \A d \in Devices :
           IF b.chain.devices[d].status = "active" /\ d \notin l.body.keep
           THEN n.devices[d].status = "revoked" ELSE n.devices[d] = b.chain.devices[d]
  BY <1>1, RotateNext
<1>3. SeqNo(n) # 0
  BY <1>1, <1>2, LinksGrow
<1>4. c = WithSlots(b, R, slots, n)
  <2>1. SetRevoked(b, R).slots = b.slots
    BY <1>1 DEF SetRevoked, Database
  <2> QED  BY <2>1 DEF Mirror, MirrorRotate, WithSlots
<1>5. \A i \in Slots : b.slots[i] \in SlotRow
  BY <1>1
<1>6. \A i \in Slots : off(i) \in SlotRow /\ off(i).status = "disabled"
  BY <1>5 DEF SlotRow
<1> HIDE DEF off
<1>7. slots \in [Slots -> SlotRow] /\ \A i \in Slots : slots[i].status # "enabled"
  BY <1>5, <1>6
<1> HIDE DEF n, c, slots
<1>8. R \in SUBSET Devices
  OBVIOUS
<1>9. /\ rows \in [Devices -> Row]
      /\ \A a \in Devices : IF a \in R THEN rows[a].status = "revoked" ELSE rows[a] = b.rows[a]
      /\ Becomes(b, WithSlots(b, R, slots, n), n, rows, b.sessions \ R, slots)
  <2> HIDE DEF R
  <2> QED  BY <1>1, <1>2, <1>7, <1>8, NewRevokedSlots, RevokedRowsAre
<1> HIDE DEF rows
<1>10. ASSUME NEW a \in Devices
       PROVE  RowAgrees(n, rows, b.sessions \ R, a)
  <2>1. RowAgrees(b.chain, b.rows, b.sessions, a)
    BY DEF Tables
  <2>2. CASE b.chain.devices[a].status = "active" /\ a \notin l.body.keep
    <3>1. n.devices[a].status = "revoked" /\ a \in R
      BY <1>2, <2>1, <2>2 DEF RowAgrees
    <3>2. rows[a].status = "revoked"
      BY <1>9, <3>1
    <3> QED  BY <3>1, <3>2 DEF RowAgrees
  <2>3. CASE ~(b.chain.devices[a].status = "active" /\ a \notin l.body.keep)
    <3>1. n.devices[a] = b.chain.devices[a]
      BY <1>2, <2>3
    <3>2. a \notin R
      BY <2>1, <3>1 DEF RowAgrees
    <3>3. rows[a] = b.rows[a]
      BY <1>9, <3>2
    <3> QED  BY <2>1, <3>1, <3>3 DEF RowAgrees
  <2> QED  BY <2>2, <2>3
<1>11. \A i \in Slots : SlotAgrees(n, slots, i)
  BY <1>7 DEF SlotAgrees
<1>12. Mirrored(b, c, n)
  <2> HIDE DEF R
  <2> QED  BY <1>2, <1>3, <1>4, <1>9, <1>10, <1>11, TablesOf
<1> QED  BY <1>12 DEF c, n

\* What a link makes of the tables, whatever its type.
LEMMA MirrorIs ==
    ASSUME NEW b, Tables(b), NEW l, LinkOK(l), NEW sd \in SlotData, LinkAllowed(b, l, sd),
           l.type = "device_add" => l.body.name = FirstName,
           l.type = "agent_slot_add" => sd.key = b.chain.key
    PROVE  Mirrored(b, Mirror(b, l, sd), NextState(b.chain, l))
<1>1. b.chain \in State /\ ValidNext(b.chain, l)
  BY DatabaseFields DEF Tables, LinkAllowed
<1>2. CASE l.type = "init"
  <2>1. b.chain = New
    BY <1>1, <1>2, RuleOf DEF Tables
  <2> QED  BY <1>2, <2>1, MirrorInitIs
<1>3. CASE l.type = "ukey_rotate"
  <2>1. l.ukv = b.chain.ukv + 1
    BY <1>1, <1>3, RuleOf DEF ValidRotate
  <2> QED  BY <1>3, <2>1, MirrorRotateIs
<1>4. CASE l.type = "device_add"
  BY <1>4, MirrorDeviceAddIs
<1>5. CASE l.type = "device_revoke"
  BY <1>5, MirrorDeviceRevokeIs
<1>6. CASE l.type = "device_rename"
  BY <1>6, MirrorDeviceRenameIs
<1>7. CASE l.type = "agent_slot_add"
  BY <1>7, MirrorSlotAddIs
<1>8. CASE l.type = "agent_slot_remove"
  BY <1>8, MirrorSlotRemoveIs
<1> QED  BY <1>2, <1>3, <1>4, <1>5, <1>6, <1>7, <1>8, LinkFields DEF SentTypes

\* The database after none, one and two links of a commit.
LEMMA AfterNone == \A b, links, sd : After(b, links, sd, 0) = b
<1> SUFFICES ASSUME NEW b, NEW links, NEW sd
             PROVE  After(b, links, sd, 0) = b
  OBVIOUS
<1> DEFINE F(f) == [i \in 0..0 |-> IF i = 0 THEN b ELSE Mirror(f[i - 1], links[i], sd)]
           g == [i \in 0..0 |-> b]
           u == CHOOSE f : f = F(f)
<1>1. g = F(g)
  OBVIOUS
<1>2. u = F(u)
  BY <1>1
<1>3. After(b, links, sd, 0) = u[0]
  BY DEF After
<1>4. F(u)[0] = b
  OBVIOUS
<1> HIDE DEF u
<1> QED  BY <1>2, <1>3, <1>4

LEMMA AfterOne == \A b, links, sd : After(b, links, sd, 1) = Mirror(b, links[1], sd)
<1> SUFFICES ASSUME NEW b, NEW links, NEW sd
             PROVE  After(b, links, sd, 1) = Mirror(b, links[1], sd)
  OBVIOUS
<1> DEFINE F(f) == [i \in 0..1 |-> IF i = 0 THEN b ELSE Mirror(f[i - 1], links[i], sd)]
           g == [i \in 0..1 |-> IF i = 0 THEN b ELSE Mirror(b, links[1], sd)]
           u == CHOOSE f : f = F(f)
<1>1. g = F(g)
  <2>1. \A i \in 0..1 : g[i] = F(g)[i]
    <3>1. g[0] = b
      OBVIOUS
    <3>2. \A i \in 0..1 : i = 0 \/ i = 1
      OBVIOUS
    <3> QED  BY <3>1, <3>2
  <2> QED  BY <2>1
<1>2. u = F(u)
  BY <1>1
<1>3. After(b, links, sd, 1) = u[1]
  BY DEF After
<1>4. F(u)[0] = b /\ F(u)[1] = Mirror(u[0], links[1], sd)
  OBVIOUS
<1> HIDE DEF u
<1> QED  BY <1>2, <1>3, <1>4

LEMMA AfterTwo ==
    \A b, links, sd :
      After(b, links, sd, 2) = Mirror(Mirror(b, links[1], sd), links[2], sd)
<1> SUFFICES ASSUME NEW b, NEW links, NEW sd
             PROVE  After(b, links, sd, 2) = Mirror(Mirror(b, links[1], sd), links[2], sd)
  OBVIOUS
<1> DEFINE m == Mirror(b, links[1], sd)
           F(f) == [i \in 0..2 |-> IF i = 0 THEN b ELSE Mirror(f[i - 1], links[i], sd)]
           g == [i \in 0..2 |-> IF i = 0 THEN b ELSE IF i = 1 THEN m ELSE Mirror(m, links[2], sd)]
           u == CHOOSE f : f = F(f)
<1>1. g = F(g)
  <2>1. \A i \in 0..2 : g[i] = F(g)[i]
    <3>1. g[0] = b /\ g[1] = m
      OBVIOUS
    <3>2. \A i \in 0..2 : i = 0 \/ i = 1 \/ i = 2
      OBVIOUS
    <3> QED  BY <3>1, <3>2
  <2> QED  BY <2>1
<1>2. u = F(u)
  BY <1>1
<1>3. After(b, links, sd, 2) = u[2]
  BY DEF After
<1>4. F(u)[0] = b /\ F(u)[1] = Mirror(u[0], links[1], sd) /\ F(u)[2] = Mirror(u[1], links[2], sd)
  OBVIOUS
<1> HIDE DEF u
<1> QED  BY <1>2, <1>3, <1>4

-----------------------------------------------------------------------------
(* What a commit stores.                                                   *)

LEMMA RequestFields ==
    ASSUME NEW r \in Requests
    PROVE  /\ r.dev \in Devices /\ r.links \in Seq(FullLink) /\ r.boxes \in SUBSET KeyBox
           /\ r.identity \in KeyOrNone /\ r.vault \in [ifMatch: Nat, key: KeyOrNone]
           /\ r.slotData \in SlotData /\ r.then \in Seq(LocalStep) /\ r.live \in BOOLEAN
  BY DEF Requests

\* The end of commit, on the database a with all the links applied.
Finish(a, r) ==
    LET c == [a EXCEPT !.boxes = @ \cup r.boxes,
                       !.identity = IF r.identity # None THEN r.identity ELSE @]
    IN  IF r.vault # NoVault THEN PutVault(c, r.vault) ELSE c

LEMMA FinishFields ==
    ASSUME NEW a \in Database, NEW r \in Requests, NEW c, c = Finish(a, r)
    PROVE  /\ c \in Database
           /\ c.chain = a.chain /\ c.rows = a.rows /\ c.sessions = a.sessions /\ c.slots = a.slots
           /\ c.boxes = a.boxes \cup r.boxes
           /\ c.identity = IF r.identity # None THEN r.identity ELSE a.identity
           /\ c.vault.key = IF r.vault # NoVault THEN r.vault.key ELSE a.vault.key
<1> DEFINE boxes == a.boxes \cup r.boxes
           identity == IF r.identity # None THEN r.identity ELSE a.identity
           p == [version |-> r.vault.ifMatch + 1, key |-> r.vault.key]
           vault == IF r.vault # NoVault THEN p ELSE a.vault
<1>1. boxes \in SUBSET KeyBox /\ identity \in KeyOrNone
  BY RequestFields, DatabaseFields
<1>2. p \in [version: Nat, key: KeyOrNone] /\ p.key = r.vault.key
  BY RequestFields
<1>3. c = [a EXCEPT !.boxes = boxes, !.identity = identity, !.vault = vault]
  BY DEF Finish, PutVault, Database
<1> HIDE DEF p
<1>4. /\ vault \in [version: Nat, key: KeyOrNone]
      /\ vault.key = IF r.vault # NoVault THEN r.vault.key ELSE a.vault.key
  BY <1>2, DatabaseFields
<1> HIDE DEF boxes, identity, vault
<1>5. /\ c \in Database
      /\ c.chain = a.chain /\ c.rows = a.rows /\ c.sessions = a.sessions /\ c.slots = a.slots
      /\ c.boxes = boxes /\ c.identity = identity /\ c.vault = vault
  BY <1>1, <1>3, <1>4 DEF Database
<1> QED  BY <1>4, <1>5 DEF boxes, identity

LEMMA ResultIs ==
    \A b, r : CommitResult(b, r) = Finish(After(b, r.links, r.slotData, Len(r.links)), r)
  BY DEF CommitResult, Finish

LEMMA BoxIs ==
    ASSUME NEW x \in KeyBox, NEW d, NEW v, NEW k, x.dev = d, x.ukv = v, x.key = k
    PROVE  x = [dev |-> d, ukv |-> v, key |-> k]
  BY DEF KeyBox

\* A chain whose members only grew, under the same key.
Kept(s, n) ==
    /\ SameKey(s, n) /\ ActiveDevices(s) \subseteq ActiveDevices(n)
    /\ Revoked(s) = Revoked(n)

\* A chain with a new key, of a later version.
Renewed(s, n, k) ==
    /\ NewKey(s, n, k) /\ k \notin EpochKeys(s)
    /\ s.ukv \in Nat /\ n.ukv \in Nat /\ s.ukv < n.ukv

LEMMA FinishKept ==
    ASSUME NEW b, DatabaseOK(b), SeqNo(b.chain) # 0,
           NEW a, NEW n, Mirrored(b, a, n), Kept(b.chain, n), SeqNo(n) # 0,
           NEW r \in Requests, RestAllowed(a, r), r.identity = None, r.vault = NoVault,
           \A x \in r.boxes : x.key = b.chain.key
    PROVE  DatabaseOK(Finish(a, r)) /\ Finish(a, r).chain = n
<1> DEFINE c == Finish(a, r)
           s == b.chain
<1>1. a \in Database /\ a.chain = n /\ a.boxes = b.boxes /\ a.identity = b.identity /\ a.vault = b.vault
  BY DEF Mirrored, Tables
<1>2. /\ c \in Database
      /\ c.chain = n /\ c.rows = a.rows /\ c.sessions = a.sessions /\ c.slots = a.slots
      /\ c.boxes = b.boxes \cup r.boxes /\ c.identity = b.identity
      /\ c.vault.key = b.vault.key
  BY <1>1, FinishFields
<1> HIDE DEF c
<1>3. Tables(c)
  BY <1>1, <1>2 DEF Mirrored, Tables
<1>4. n.ukv = s.ukv /\ n.key = s.key /\ EpochKeys(n) = EpochKeys(s)
  BY DEF Kept, SameKey, EpochKeys
<1>5. /\ s.key \in EpochKeys(s) /\ ActiveDevices(s) # {}
      /\ b.identity = s.key /\ b.vault.key = s.key
  BY DEF DatabaseOK, Stored
<1>6. \A x \in r.boxes : x \in KeyBox /\ x.dev \in ActiveDevices(n) /\ x.ukv = n.ukv /\ x.key = n.key
  BY <1>1, <1>4, RequestFields DEF RestAllowed, BoxAllowed
<1>7. s.ukv \in Nat /\ b.boxes \in SUBSET KeyBox
  BY StateFields, DatabaseFields DEF DatabaseOK, Tables
<1>8. BoxesOK(c)
  <2> SUFFICES ASSUME NEW x \in c.boxes
               PROVE  /\ x.ukv <= n.ukv /\ x.key \in EpochKeys(n)
                      /\ x.ukv = n.ukv => x.key = n.key /\ x.dev \in ActiveDevices(n)
                      /\ x.ukv # n.ukv => x.key # n.key
    BY <1>2 DEF BoxesOK
  <2>1. CASE x \in b.boxes
    BY <1>4, <2>1 DEF DatabaseOK, BoxesOK, Kept
  <2>2. CASE x \in r.boxes
    BY <1>4, <1>5, <1>6, <1>7, <2>2
  <2> QED  BY <1>2, <2>1, <2>2
<1>9. ASSUME NEW d \in ActiveDevices(n)
      PROVE  [dev |-> d, ukv |-> n.ukv, key |-> n.key] \in c.boxes
  <2>1. \E x \in b.boxes \cup r.boxes : x.dev = d /\ x.ukv = n.ukv
    <3> DEFINE e == [a EXCEPT !.boxes = @ \cup r.boxes]
    <3>1. HasBox(e, d)
      BY <1>1 DEF RestAllowed
    <3>2. e.boxes = b.boxes \cup r.boxes /\ e.chain = n
      BY <1>1 DEF Database
    <3> QED  BY <3>1, <3>2 DEF HasBox
  <2>2. PICK x \in b.boxes \cup r.boxes : x.dev = d /\ x.ukv = n.ukv
    BY <2>1
  <2>3. x \in KeyBox /\ x.key = n.key
    BY <1>2, <1>6, <1>7, <1>8, <2>2 DEF BoxesOK
  <2>4. x = [dev |-> d, ukv |-> n.ukv, key |-> n.key]
    BY <2>2, <2>3, BoxIs
  <2> QED  BY <1>2, <2>4
<1>10. Stored(c)
  BY <1>2, <1>4, <1>5, <1>9 DEF Stored, Kept
<1>11. DatabaseOK(c) /\ c.chain = n
  BY <1>2, <1>3, <1>8, <1>10 DEF DatabaseOK
<1> QED  BY <1>11 DEF c

LEMMA FinishRenewed ==
    ASSUME NEW b, DatabaseOK(b),
           NEW a, NEW n, Mirrored(b, a, n), SeqNo(n) # 0, ActiveDevices(n) # {},
           NEW r \in Requests, RestAllowed(a, r), Renewed(b.chain, n, r.identity),
           r.vault # NoVault, \A x \in r.boxes : x.key = r.identity
    PROVE  DatabaseOK(Finish(a, r)) /\ Finish(a, r).chain = n
<1> DEFINE c == Finish(a, r)
           s == b.chain
           k == r.identity
<1>1. a \in Database /\ a.chain = n /\ a.boxes = b.boxes /\ a.identity = b.identity /\ a.vault = b.vault
  BY DEF Mirrored, Tables
<1>2. k # None /\ n.key = k /\ EpochKeys(n) = EpochKeys(s) \cup {k} /\ k \notin EpochKeys(s)
  BY NoneIsNoKey DEF Renewed, NewKey
<1>3. /\ c \in Database
      /\ c.chain = n /\ c.rows = a.rows /\ c.sessions = a.sessions /\ c.slots = a.slots
      /\ c.boxes = b.boxes \cup r.boxes /\ c.identity = k
      /\ c.vault.key = r.vault.key
  BY <1>1, <1>2, FinishFields
<1>4. r.vault.key = n.key
  BY <1>1 DEF RestAllowed, VaultAllowed
<1> HIDE DEF c
<1>5. Tables(c)
  BY <1>1, <1>3 DEF Mirrored, Tables
<1>6. \A x \in r.boxes : x \in KeyBox /\ x.dev \in ActiveDevices(n) /\ x.ukv = n.ukv /\ x.key = n.key
  BY <1>1, <1>2, RequestFields DEF RestAllowed, BoxAllowed
<1>7. s.ukv \in Nat /\ n.ukv \in Nat /\ s.ukv < n.ukv /\ b.boxes \in SUBSET KeyBox
  BY DatabaseFields DEF DatabaseOK, Tables, Renewed
<1>8. BoxesOK(c)
  <2> SUFFICES ASSUME NEW x \in c.boxes
               PROVE  /\ x.ukv <= n.ukv /\ x.key \in EpochKeys(n)
                      /\ x.ukv = n.ukv => x.key = n.key /\ x.dev \in ActiveDevices(n)
                      /\ x.ukv # n.ukv => x.key # n.key
    BY <1>3 DEF BoxesOK
  <2>1. CASE x \in b.boxes
    <3>1. x.ukv \in Nat
      BY <1>7, <2>1 DEF KeyBox
    <3>2. x.ukv <= s.ukv /\ x.key \in EpochKeys(s)
      BY <2>1 DEF DatabaseOK, BoxesOK
    <3> QED  BY <1>2, <1>7, <3>1, <3>2
  <2>2. CASE x \in r.boxes
    BY <1>2, <1>6, <1>7, <2>2
  <2> QED  BY <1>3, <2>1, <2>2
<1>9. ASSUME NEW d \in ActiveDevices(n)
      PROVE  [dev |-> d, ukv |-> n.ukv, key |-> n.key] \in c.boxes
  <2>1. \E x \in b.boxes \cup r.boxes : x.dev = d /\ x.ukv = n.ukv
    <3> DEFINE e == [a EXCEPT !.boxes = @ \cup r.boxes]
    <3>1. HasBox(e, d)
      BY <1>1 DEF RestAllowed
    <3>2. e.boxes = b.boxes \cup r.boxes /\ e.chain = n
      BY <1>1 DEF Database
    <3> QED  BY <3>1, <3>2 DEF HasBox
  <2>2. PICK x \in b.boxes \cup r.boxes : x.dev = d /\ x.ukv = n.ukv
    BY <2>1
  <2>3. x \in KeyBox /\ x.key = n.key
    BY <1>3, <1>6, <1>7, <1>8, <2>2 DEF BoxesOK
  <2>4. x = [dev |-> d, ukv |-> n.ukv, key |-> n.key]
    BY <2>2, <2>3, BoxIs
  <2> QED  BY <1>3, <2>4
<1>10. Stored(c)
  BY <1>2, <1>3, <1>4, <1>9 DEF Stored
<1>11. DatabaseOK(c) /\ c.chain = n
  BY <1>3, <1>5, <1>8, <1>10 DEF DatabaseOK
<1> QED  BY <1>11 DEF c

-----------------------------------------------------------------------------
(* What a commit makes of the database.                                    *)

\* A device that is not in the chain s is not in n either.
StillAbsent(s, n, c) == s.devices[c].status = "absent" => n.devices[c].status = "absent"

LEMMA AddedLink ==
    ASSUME NEW s \in State, NEW l, LinkOK(l), ValidNext(s, l), NEW n, n = NextState(s, l),
           l.type \in {"device_add", "device_rename", "agent_slot_add", "agent_slot_remove"}
    PROVE  /\ n \in State /\ Kept(s, n) /\ n.links = Append(s.links, LinkRecord(l))
           /\ SeqNo(n) = SeqNo(s) + 1 /\ SeqNo(n) \in Nat /\ SeqNo(n) # 0
           /\ l.type = "device_add" => l.body.device \in ActiveDevices(n)
           /\ \A c \in Devices : StillAbsent(s, n, c) \/ (l.type = "device_add" /\ c = l.body.device)
<1>1. CASE l.type = "device_add"
  <2>1. s.devices[l.body.device].status = "absent"
    BY <1>1, RuleOf DEF ValidDeviceAdd
  <2>2. /\ n \in State /\ n.links = Append(s.links, LinkRecord(l)) /\ SameKey(s, n)
        /\ l.body.device \in Devices /\ n.devices[l.body.device].status = "active"
        /\ \A c \in Devices \ {l.body.device} : n.devices[c] = s.devices[c]
    BY <1>1, DeviceAddNext
  <2>3. SeqNo(n) = SeqNo(s) + 1 /\ SeqNo(n) \in Nat /\ SeqNo(n) # 0
    BY <2>2, LinksGrow
  <2>4. Kept(s, n)
    BY <2>1, <2>2 DEF Kept, ActiveDevices, Revoked
  <2> QED  BY <1>1, <2>2, <2>3, <2>4 DEF ActiveDevices, StillAbsent
<1>2. CASE l.type = "device_rename"
  <2> DEFINE d == l.body.device
  <2>1. /\ n \in State /\ n.links = Append(s.links, LinkRecord(l)) /\ SameKey(s, n)
        /\ n.devices[d].status = s.devices[d].status
        /\ \A c \in Devices \ {d} : n.devices[c] = s.devices[c]
    BY <1>2, DeviceRenameNext
  <2> HIDE DEF d
  <2>2. SeqNo(n) = SeqNo(s) + 1 /\ SeqNo(n) \in Nat /\ SeqNo(n) # 0
    BY <2>1, LinksGrow
  <2> QED  BY <1>2, <2>1, <2>2 DEF Kept, ActiveDevices, Revoked, StillAbsent
<1>3. CASE l.type = "agent_slot_add"
  <2>1. /\ n \in State /\ n.links = Append(s.links, LinkRecord(l)) /\ SameKey(s, n)
        /\ n.devices = s.devices
    BY <1>3, SlotAddNext
  <2>2. SeqNo(n) = SeqNo(s) + 1 /\ SeqNo(n) \in Nat /\ SeqNo(n) # 0
    BY <2>1, LinksGrow
  <2> QED  BY <1>3, <2>1, <2>2 DEF Kept, ActiveDevices, Revoked, StillAbsent
<1>4. CASE l.type = "agent_slot_remove"
  <2>1. /\ n \in State /\ n.links = Append(s.links, LinkRecord(l)) /\ SameKey(s, n)
        /\ n.devices = s.devices
    BY <1>4, SlotRemoveNext
  <2>2. SeqNo(n) = SeqNo(s) + 1 /\ SeqNo(n) \in Nat /\ SeqNo(n) # 0
    BY <2>1, LinksGrow
  <2> QED  BY <1>4, <2>1, <2>2 DEF Kept, ActiveDevices, Revoked, StillAbsent
<1> QED  BY <1>1, <1>2, <1>3, <1>4

LEMMA RevokedLink ==
    ASSUME NEW s \in State, NEW l, LinkOK(l), ValidNext(s, l), NEW n, n = NextState(s, l),
           l.type = "device_revoke"
    PROVE  /\ n \in State /\ SameKey(s, n) /\ n.links = Append(s.links, LinkRecord(l))
           /\ SeqNo(n) = SeqNo(s) + 1 /\ SeqNo(n) \in Nat /\ SeqNo(n) # 0
           /\ Revoked(s) \subseteq Revoked(n)
           /\ ActiveDevices(n) = ActiveDevices(s) \ {l.body.device}
           /\ \A c \in Devices : StillAbsent(s, n, c)
<1>1. s.devices[l.body.device].status = "active"
  BY RuleOf DEF ValidDeviceRevoke, ActiveDevices
<1>2. /\ n \in State /\ n.links = Append(s.links, LinkRecord(l)) /\ SameKey(s, n)
      /\ l.body.device \in Devices /\ n.devices[l.body.device].status = "revoked"
      /\ \A c \in Devices \ {l.body.device} : n.devices[c] = s.devices[c]
  BY DeviceRevokeNext
<1>3. SeqNo(n) = SeqNo(s) + 1 /\ SeqNo(n) \in Nat /\ SeqNo(n) # 0
  BY <1>2, LinksGrow
<1>4. \A c \in Devices : StillAbsent(s, n, c)
  BY <1>1, <1>2 DEF StillAbsent
<1>5. Revoked(s) \subseteq Revoked(n)
  BY <1>1, <1>2 DEF Revoked
<1>6. ActiveDevices(n) = ActiveDevices(s) \ {l.body.device}
  BY <1>1, <1>2 DEF ActiveDevices
<1> QED  BY <1>2, <1>3, <1>4, <1>5, <1>6

LEMMA RotatedLink ==
    ASSUME NEW s \in State, NEW l, LinkOK(l), ValidNext(s, l), NEW n, n = NextState(s, l),
           l.type = "ukey_rotate", l.body.key \notin EpochKeys(s)
    PROVE  /\ n \in State /\ Renewed(s, n, l.body.key) /\ n.links = Append(s.links, LinkRecord(l))
           /\ SeqNo(n) = SeqNo(s) + 1 /\ SeqNo(n) \in Nat /\ SeqNo(n) # 0
           /\ Revoked(s) \subseteq Revoked(n)
           /\ l.body.keep \subseteq ActiveDevices(n)
           /\ \A c \in Devices : StillAbsent(s, n, c)
<1>1. ValidRotate(s, l)
  BY RuleOf
<1>2. l.ukv = s.ukv + 1 /\ l.body.keep \subseteq ActiveDevices(s) /\ s.ukv \in Nat
  BY <1>1, StateFields DEF ValidRotate
<1>3. /\ n \in State /\ n.links = Append(s.links, LinkRecord(l))
      /\ NewKey(s, n, l.body.key) /\ n.ukv = s.ukv + 1
      /\ \A d \in Devices :
           IF s.devices[d].status = "active" /\ d \notin l.body.keep
           THEN n.devices[d].status = "revoked" ELSE n.devices[d] = s.devices[d]
  BY <1>2, RotateNext
<1>4. SeqNo(n) = SeqNo(s) + 1 /\ SeqNo(n) \in Nat /\ SeqNo(n) # 0
  BY <1>3, LinksGrow
<1>5. Renewed(s, n, l.body.key)
  BY <1>2, <1>3 DEF Renewed
<1>6. \A c \in Devices : StillAbsent(s, n, c)
  BY <1>3 DEF StillAbsent
<1>7. Revoked(s) \subseteq Revoked(n) /\ l.body.keep \subseteq ActiveDevices(n)
  BY <1>2, <1>3 DEF Revoked, ActiveDevices
<1> QED  BY <1>3, <1>4, <1>5, <1>6, <1>7

LEMMA InitLink ==
    ASSUME NEW l, LinkOK(l), New \in State, NEW n, n = NextState(New, l), l.type = "init"
    PROVE  /\ n \in State /\ Renewed(New, n, l.body.key)
           /\ SeqNo(n) = 1 /\ Revoked(n) = {} /\ EpochKeys(New) = {}
<1>1. New.epochs = << >> /\ New.links = << >> /\ New.ukv = 0 /\ \A d \in Devices : New.devices[d].status = "absent"
  BY DEF New
<1>2. /\ n \in State /\ n.links = Append(New.links, LinkRecord(l))
      /\ NewKey(New, n, l.body.key) /\ n.ukv = 1 /\ n.devices = New.devices
  BY <1>1, InitNext
<1>3. SeqNo(n) = SeqNo(New) + 1 /\ SeqNo(New) = 0
  BY <1>1, <1>2, LinksGrow DEF SeqNo
<1>4. EpochKeys(New) = {}
  BY <1>1 DEF EpochKeys
<1>5. Revoked(n) = {}
  BY <1>1, <1>2 DEF Revoked
<1> QED  BY <1>1, <1>2, <1>3, <1>4, <1>5 DEF Renewed

\* What every commit keeps, whatever it changes.
Committed(b, c, r) ==
    /\ DatabaseOK(c)
    /\ SeqNo(b.chain) \in Nat /\ SeqNo(c.chain) \in Nat /\ SeqNo(b.chain) < SeqNo(c.chain)
    /\ r.dev \in ActiveDevices(c.chain)
    /\ Revoked(b.chain) \subseteq Revoked(c.chain)
    /\ Installs(r.then) \subseteq {c.chain.key}
    /\ \/ Kept(b.chain, c.chain)
       \/ /\ Renewed(b.chain, c.chain, r.identity)
          /\ Revoked(c.chain) = {} \/ OwnKey(r)
    /\ \A d \in Devices :
         b.rows[d].status = "suspended" => StillAbsent(b.chain, c.chain, d)

CommitLinks(r) ==
    /\ r \in Requests /\ r.links # << >> /\ \A n \in DOMAIN r.links : LinkOK(r.links[n])

LEMMA AddsCommit ==
    ASSUME DatabaseOK(db), NEW r, CommitLinks(r), Adds(r, db.chain), CommitAllowed(db, r)
    PROVE  Committed(db, CommitResult(db, r), r)
<1> DEFINE s == db.chain
           l == r.links[1]
           a == Mirror(db, l, r.slotData)
           n == NextState(s, l)
<1>1. DOMAIN r.links = {1} /\ Len(r.links) = 1 /\ LinkOK(l)
  BY RequestFields DEF CommitLinks, Adds
<1>2. LinkAllowed(db, l, r.slotData)
  BY <1>1, AfterNone DEF CommitAllowed
<1>3. RestAllowed(a, r) /\ CommitResult(db, r) = Finish(a, r)
  <2>1. After(db, r.links, r.slotData, Len(r.links)) = a
    BY <1>1, AfterOne
  <2> HIDE DEF a
  <2> QED  BY <2>1, ResultIs DEF CommitAllowed
<1>4. s \in State /\ r.slotData \in SlotData /\ r \in Requests
  BY DatabaseFields, RequestFields DEF DatabaseOK, Tables, CommitLinks
<1>5. Mirrored(db, a, n)
  BY <1>1, <1>2, <1>4, MirrorIs DEF DatabaseOK, Adds
<1>6. /\ n \in State /\ Kept(s, n) /\ SeqNo(n) = SeqNo(s) + 1 /\ SeqNo(n) \in Nat /\ SeqNo(n) # 0
      /\ l.type = "device_add" => l.body.device \in ActiveDevices(n)
      /\ \A c \in Devices : StillAbsent(s, n, c) \/ (l.type = "device_add" /\ c = l.body.device)
  BY <1>1, <1>2, <1>4, AddedLink DEF LinkAllowed, Adds
<1>7. SeqNo(s) \in Nat /\ SeqNo(s) # 0
  BY <1>1, <1>2, <1>4, RuleOf DEF LinkAllowed, Adds
<1> HIDE DEF a, n
<1>8. DatabaseOK(Finish(a, r)) /\ Finish(a, r).chain = n
  BY <1>3, <1>4, <1>5, <1>6, <1>7, FinishKept DEF Adds
<1>9. r.dev \in ActiveDevices(n)
  BY <1>6 DEF Adds, Kept
<1>10. Installs(r.then) \subseteq {n.key} /\ Revoked(s) \subseteq Revoked(n)
  BY <1>6 DEF Adds, Kept, SameKey
<1>11. \A d \in Devices : db.rows[d].status = "suspended" => StillAbsent(s, n, d)
  BY <1>2, <1>6 DEF LinkAllowed, JoinAllowed
<1> QED  BY <1>3, <1>6, <1>7, <1>8, <1>9, <1>10, <1>11 DEF Committed

LEMMA RotateAlone ==
    ASSUME DatabaseOK(db), NEW r, CommitLinks(r), Rotates(r, db.chain), CommitAllowed(db, r),
           OwnKey(r), Len(r.links) = 1
    PROVE  Committed(db, CommitResult(db, r), r)
<1> DEFINE s == db.chain
           l == r.links[1]
           a == Mirror(db, l, r.slotData)
           n == NextState(s, l)
<1>1. DOMAIN r.links = {1} /\ LinkOK(l)
  BY RequestFields DEF CommitLinks
<1>2. l.type = "ukey_rotate" /\ l.body.key = r.identity /\ r.dev \in l.body.keep
  BY DEF Rotates
<1>3. LinkAllowed(db, l, r.slotData)
  BY <1>1, AfterNone DEF CommitAllowed
<1>4. RestAllowed(a, r) /\ CommitResult(db, r) = Finish(a, r)
  <2>1. After(db, r.links, r.slotData, Len(r.links)) = a
    BY AfterOne
  <2> HIDE DEF a
  <2> QED  BY <2>1, ResultIs DEF CommitAllowed
<1>5. s \in State /\ r.slotData \in SlotData /\ r \in Requests
  BY DatabaseFields, RequestFields DEF DatabaseOK, Tables, CommitLinks
<1>6. Mirrored(db, a, n)
  BY <1>1, <1>2, <1>3, <1>5, MirrorIs DEF DatabaseOK
<1>7. /\ n \in State /\ Renewed(s, n, r.identity)
      /\ SeqNo(n) = SeqNo(s) + 1 /\ SeqNo(n) \in Nat /\ SeqNo(n) # 0
      /\ Revoked(s) \subseteq Revoked(n) /\ r.dev \in ActiveDevices(n)
      /\ \A c \in Devices : StillAbsent(s, n, c)
  BY <1>1, <1>2, <1>3, <1>5, RotatedLink DEF LinkAllowed, OwnKey
<1>8. SeqNo(s) \in Nat
  BY <1>1, <1>3, <1>5, RuleOf DEF LinkAllowed
<1> HIDE DEF a, n
<1>9. DatabaseOK(Finish(a, r)) /\ Finish(a, r).chain = n
  BY <1>4, <1>5, <1>6, <1>7, FinishRenewed DEF Rotates
<1>10. Installs(r.then) \subseteq {n.key}
  BY <1>7 DEF Rotates, Renewed, NewKey
<1> QED  BY <1>4, <1>7, <1>8, <1>9, <1>10 DEF Committed

LEMMA TwoLinks ==
    ASSUME NEW r, CommitLinks(r), Len(r.links) = 2, CommitAllowed(db, r),
           NEW m, m = Mirror(db, r.links[1], r.slotData),
           NEW a, a = Mirror(m, r.links[2], r.slotData)
    PROVE  /\ LinkOK(r.links[1]) /\ LinkOK(r.links[2])
           /\ LinkAllowed(db, r.links[1], r.slotData)
           /\ LinkAllowed(m, r.links[2], r.slotData)
           /\ RestAllowed(a, r) /\ CommitResult(db, r) = Finish(a, r)
<1>1. DOMAIN r.links = {1, 2}
  BY RequestFields DEF CommitLinks
<1>2. LinkOK(r.links[1]) /\ LinkOK(r.links[2])
  BY <1>1 DEF CommitLinks
<1>3. After(db, r.links, r.slotData, 1 - 1) = db /\ After(db, r.links, r.slotData, 2 - 1) = m
  BY AfterNone, AfterOne
<1>4. After(db, r.links, r.slotData, Len(r.links)) = a
  BY AfterTwo
<1>5. LinkAllowed(db, r.links[1], r.slotData) /\ LinkAllowed(m, r.links[2], r.slotData)
  <2>1. \A i \in {1, 2} : LinkAllowed(After(db, r.links, r.slotData, i - 1), r.links[i], r.slotData)
    BY <1>1 DEF CommitAllowed
  <2>2. /\ LinkAllowed(After(db, r.links, r.slotData, 1 - 1), r.links[1], r.slotData)
        /\ LinkAllowed(After(db, r.links, r.slotData, 2 - 1), r.links[2], r.slotData)
    BY <2>1
  <2> QED  BY <1>3, <2>2
<1>6. RestAllowed(a, r) /\ CommitResult(db, r) = Finish(a, r)
  BY <1>4, ResultIs DEF CommitAllowed
<1> QED  BY <1>2, <1>5, <1>6

LEMMA RevokeAndRotate ==
    ASSUME DatabaseOK(db), NEW r, CommitLinks(r), Rotates(r, db.chain), CommitAllowed(db, r),
           OwnKey(r), Len(r.links) = 2
    PROVE  Committed(db, CommitResult(db, r), r)
<1> DEFINE s == db.chain
           l1 == r.links[1]
           l2 == r.links[2]
           m == Mirror(db, l1, r.slotData)
           a == Mirror(m, l2, r.slotData)
           n1 == NextState(s, l1)
           n == NextState(n1, l2)
<1>1. /\ LinkOK(l1) /\ LinkOK(l2) /\ LinkAllowed(db, l1, r.slotData) /\ LinkAllowed(m, l2, r.slotData)
      /\ RestAllowed(a, r) /\ CommitResult(db, r) = Finish(a, r)
  BY TwoLinks
<1>2. l2.type = "ukey_rotate" /\ l2.body.key = r.identity /\ r.dev \in l2.body.keep
  BY DEF Rotates
<1>3. l1.type = "device_revoke"
  BY DEF Rotates
<1>4. s \in State /\ r.slotData \in SlotData /\ r \in Requests
  BY DatabaseFields, RequestFields DEF DatabaseOK, Tables, CommitLinks
<1>5. Mirrored(db, m, n1)
  BY <1>1, <1>3, <1>4, MirrorIs DEF DatabaseOK
<1>6. /\ n1 \in State /\ SameKey(s, n1)
      /\ SeqNo(n1) = SeqNo(s) + 1 /\ SeqNo(n1) \in Nat
      /\ Revoked(s) \subseteq Revoked(n1)
      /\ \A c \in Devices : StillAbsent(s, n1, c)
  BY <1>1, <1>3, <1>4, RevokedLink DEF LinkAllowed
<1>7. SeqNo(s) \in Nat
  BY <1>1, <1>4, RuleOf DEF LinkAllowed
<1> HIDE DEF m, n1
<1>8. Mirrored(m, a, n) /\ m.chain = n1
  BY <1>1, <1>2, <1>4, <1>5, MirrorIs DEF Mirrored
<1>9. EpochKeys(n1) = EpochKeys(s) /\ n1.ukv = s.ukv
  BY <1>6 DEF SameKey, EpochKeys
<1>10. /\ n \in State /\ Renewed(n1, n, r.identity)
       /\ SeqNo(n) = SeqNo(n1) + 1 /\ SeqNo(n) \in Nat /\ SeqNo(n) # 0
       /\ Revoked(n1) \subseteq Revoked(n) /\ r.dev \in ActiveDevices(n)
       /\ \A c \in Devices : StillAbsent(n1, n, c)
  BY <1>1, <1>2, <1>6, <1>8, <1>9, RotatedLink DEF LinkAllowed, OwnKey
<1> HIDE DEF a, n
<1>11. Mirrored(db, a, n)
  BY <1>5, <1>8 DEF Mirrored
<1>12. Renewed(s, n, r.identity)
  BY <1>9, <1>10 DEF Renewed, NewKey
<1>13. DatabaseOK(Finish(a, r)) /\ Finish(a, r).chain = n
  BY <1>1, <1>4, <1>10, <1>11, <1>12, FinishRenewed DEF Rotates
<1>14. Installs(r.then) \subseteq {n.key}
  BY <1>10 DEF Rotates, Renewed, NewKey
<1>15. \A c \in Devices : StillAbsent(s, n, c)
  BY <1>6, <1>10 DEF StillAbsent
<1>16. Revoked(s) \subseteq Revoked(n)
  BY <1>6, <1>10
<1>17. SeqNo(s) < SeqNo(n)
  BY <1>6, <1>7, <1>10
<1> QED  BY <1>1, <1>7, <1>10, <1>12, <1>13, <1>14, <1>15, <1>16, <1>17 DEF Committed

LEMMA CreatesCommit ==
    ASSUME DatabaseOK(db), NEW r, CommitLinks(r), Creates(r, db.chain), CommitAllowed(db, r)
    PROVE  Committed(db, CommitResult(db, r), r)
<1> DEFINE s == db.chain
           l1 == r.links[1]
           l2 == r.links[2]
           m == Mirror(db, l1, r.slotData)
           a == Mirror(m, l2, r.slotData)
           n1 == NextState(s, l1)
           n == NextState(n1, l2)
<1>1. /\ LinkOK(l1) /\ LinkOK(l2) /\ LinkAllowed(db, l1, r.slotData) /\ LinkAllowed(m, l2, r.slotData)
      /\ RestAllowed(a, r) /\ CommitResult(db, r) = Finish(a, r)
  BY TwoLinks DEF Creates
<1>2. l1.type = "init" /\ r.identity = l1.body.key
  BY DEF Creates
<1>3. l2.type = "device_add" /\ l2.body.device = r.dev /\ l2.body.name = FirstName
  BY DEF Creates
<1>4. s \in State /\ r.slotData \in SlotData /\ r \in Requests
  BY DatabaseFields, RequestFields DEF DatabaseOK, Tables, CommitLinks
<1>5. Mirrored(db, m, n1)
  BY <1>1, <1>2, <1>4, MirrorIs DEF DatabaseOK
<1>6. s = New /\ SeqNo(s) = 0
  BY <1>1, <1>2, <1>4, RuleOf DEF LinkAllowed, DatabaseOK, Tables
<1>7. m.rows = db.rows
  BY <1>2, <1>4 DEF Mirror, DatabaseOK, Tables, Database
<1>8. n1 \in State /\ Renewed(s, n1, r.identity) /\ SeqNo(n1) = 1 /\ Revoked(n1) = {}
  BY <1>1, <1>2, <1>4, <1>6, InitLink
<1> HIDE DEF m, n1
<1>9. Mirrored(m, a, n) /\ m.chain = n1
  BY <1>1, <1>3, <1>4, <1>5, MirrorIs DEF Mirrored
<1>10. /\ n \in State /\ Kept(n1, n) /\ SeqNo(n) = SeqNo(n1) + 1 /\ SeqNo(n) \in Nat /\ SeqNo(n) # 0
       /\ r.dev \in ActiveDevices(n)
       /\ \A c \in Devices : StillAbsent(n1, n, c) \/ c = r.dev
  BY <1>1, <1>3, <1>8, <1>9, AddedLink DEF LinkAllowed
<1> HIDE DEF a, n
<1>11. Mirrored(db, a, n)
  BY <1>5, <1>9 DEF Mirrored
<1>12. Renewed(s, n, r.identity)
  <2>1. EpochKeys(n) = EpochKeys(n1) /\ n.key = n1.key /\ n.ukv = n1.ukv
    BY <1>10 DEF Kept, SameKey, EpochKeys
  <2> QED  BY <1>8, <2>1 DEF Renewed, NewKey
<1>13. DatabaseOK(Finish(a, r)) /\ Finish(a, r).chain = n
  BY <1>1, <1>4, <1>10, <1>11, <1>12, FinishRenewed DEF Creates
<1>14. Revoked(n) = {} /\ Revoked(s) = {}
  <2>1. \A d \in Devices : s.devices[d].status = "absent"
    BY <1>6 DEF New
  <2> QED  BY <1>8, <1>10, <2>1 DEF Kept, Revoked
<1>15. Installs(r.then) \subseteq {n.key}
  BY DEF Creates
<1>16. ASSUME NEW d \in Devices, db.rows[d].status = "suspended"
       PROVE  StillAbsent(s, n, d)
  <2>1. d # r.dev
    BY <1>1, <1>3, <1>7, <1>16 DEF LinkAllowed, JoinAllowed
  <2>2. n1.devices[d].status = "absent"
    <3>1. n1.devices = New.devices
      BY <1>1, <1>2, <1>4, <1>6, InitNext DEF n1, New
    <3> QED  BY <3>1 DEF New
  <2> QED  BY <1>10, <2>1, <2>2 DEF StillAbsent
<1> QED  BY <1>1, <1>6, <1>8, <1>10, <1>12, <1>13, <1>14, <1>15, <1>16 DEF Committed

-----------------------------------------------------------------------------
(* What every step keeps.                                                  *)

\* q is r, further on its way.
Like(q, r) ==
    /\ q \in Requests
    /\ q.dev = r.dev /\ q.kind = r.kind /\ q.links = r.links /\ q.boxes = r.boxes
    /\ q.identity = r.identity /\ q.vault = r.vault /\ q.slotData = r.slotData
    /\ q.target = r.target /\ q.then = r.then
    /\ q.live => r.live

Forward == \A d \in Devices : Prefix(cl[d].pin, cl'[d].pin)

StepOK ==
    /\ IInv' /\ Forward
    /\ SuspendedStaysOut \/ restores' # restores

\* A request stays as it should be, when no key but those of K spreads and the
\* chain stays or grows.
LEMMA RequestStays ==
    ASSUME NEW r, RequestOK(r), NEW q, Like(q, r), NEW K,
           \A d \in Devices : KeysOf(d)' \subseteq KeysOf(d) \cup K,
           EpochKeys(db.chain) \subseteq EpochKeys(db'.chain),
           EpochKeys(db'.chain) \subseteq EpochKeys(db.chain) \cup K,
           r.identity # None /\ r.links[1].type # "init" =>
             r.identity \notin K \/ r.identity \in EpochKeys(db.chain),
           \/ db'.chain = db.chain
           \/ /\ SeqNo(db.chain) \in Nat /\ SeqNo(db'.chain) \in Nat
              /\ SeqNo(db.chain) < SeqNo(db'.chain),
           \/ /\ db'.chain.key = db.chain.key
              /\ ActiveDevices(db.chain) \subseteq ActiveDevices(db'.chain)
           \/ db'.chain.key \notin EpochKeys(db.chain)
    PROVE  RequestOK(q)'
<1>1. CASE q.kind = "commit"
  <2>1. CommitOK(r)
    BY <1>1 DEF RequestOK, Like
  <2>2. q.links # << >> /\ \A n \in DOMAIN q.links : LinkOK(q.links[n])
    BY <2>1 DEF CommitOK, Like
  <2>3. r.links[1].seq \in Nat
    <3>1. 1 \in DOMAIN r.links
      BY <2>1, RequestFields DEF CommitOK, RequestOK
    <3> QED  BY <2>1, <3>1, LinkFields DEF CommitOK
  <2>4. /\ q.links[1].seq <= SeqNo(db'.chain) + 1
        /\ q.links[1].seq = SeqNo(db'.chain) + 1 =>
             Creates(q, db'.chain) \/ Adds(q, db'.chain) \/ Rotates(q, db'.chain)
    <3>1. CASE db'.chain = db.chain
      <4>1. Creates(r, db.chain) => Creates(q, db.chain)
        BY DEF Like, Creates
      <4>2. Adds(r, db.chain) => Adds(q, db.chain)
        BY DEF Like, Adds
      <4>3. Rotates(r, db.chain) => Rotates(q, db.chain)
        BY DEF Like, Rotates
      <4> QED  BY <2>1, <3>1, <4>1, <4>2, <4>3 DEF CommitOK, Like
    <3>2. CASE db'.chain # db.chain
      <4>1. q.links[1].seq \in Nat /\ q.links[1].seq <= SeqNo(db.chain) + 1
        BY <2>1, <2>3 DEF CommitOK, Like
      <4>2. q.links[1].seq < SeqNo(db'.chain) + 1
        BY <3>2, <4>1
      <4> QED  BY <3>2, <4>1, <4>2
    <3> QED  BY <3>1, <3>2
  <2>5. q.identity # None /\ q.links[1].type # "init" => OwnKey(q)'
    <3> SUFFICES ASSUME q.identity # None, q.links[1].type # "init"
                 PROVE  OwnKey(q)'
      OBVIOUS
    <3>1. q.identity = r.identity /\ q.links = r.links
      BY DEF Like
    <3>2. OwnKey(r)
      BY <2>1, <3>1 DEF CommitOK
    <3>3. r.identity \notin K
      BY <3>1, <3>2 DEF OwnKey
    <3>4. r.identity \notin EpochKeys(db'.chain)
      BY <3>2, <3>3 DEF OwnKey
    <3>5. \A d \in Devices : r.identity \notin KeysOf(d)'
      BY <3>2, <3>3 DEF OwnKey
    <3> QED  BY <3>1, <3>4, <3>5 DEF OwnKey
  <2>6. CommitOK(q)'
    BY <2>2, <2>4, <2>5 DEF CommitOK
  <2> QED  BY <1>1, <2>6 DEF RequestOK, Like
<1>2. CASE q.kind = "vault_put"
  <2>1. PushOK(r) /\ r.then = << >>
    BY <1>2 DEF RequestOK, Like
  <2>2. PushOK(q)'
    BY <2>1 DEF PushOK, Like
  <2> QED  BY <1>2, <2>1, <2>2 DEF RequestOK, Like
<1>3. CASE q.kind \notin {"commit", "vault_put"}
  BY <1>3 DEF RequestOK, Like
<1> QED  BY <1>1, <1>2, <1>3

\* A step that leaves the chain alone, and gives no device a key.
LEMMA Local ==
    ASSUME IInv, DatabaseOK(db'), db'.chain = db.chain, replica' = replica,
           now' \in Nat \ {0}, wrote'.member, cl' \in [Devices -> Client],
           \A d \in Devices : KeysOf(d)' \subseteq KeysOf(d),
           \A q \in reqs' : \E r \in reqs : Like(q, r),
           \A p, q \in reqs' : p.identity # None /\ p.identity = q.identity => p = q,
           PinsOK', Forward
    PROVE  StepOK
<1>1. ASSUME NEW q \in reqs'
      PROVE  RequestOK(q)'
  <2>1. PICK r \in reqs : Like(q, r)
    OBVIOUS
  <2>2. RequestOK(r)
    BY DEF IInv
  <2> DEFINE K == {}
  <2>3. /\ \A d \in Devices : KeysOf(d)' \subseteq KeysOf(d) \cup K
        /\ EpochKeys(db.chain) \subseteq EpochKeys(db'.chain)
        /\ EpochKeys(db'.chain) \subseteq EpochKeys(db.chain) \cup K
        /\ r.identity \notin K
        /\ db'.chain.key = db.chain.key
        /\ ActiveDevices(db.chain) \subseteq ActiveDevices(db'.chain)
    OBVIOUS
  <2> HIDE DEF K
  <2> QED  BY <2>1, <2>2, <2>3, RequestStays
<1>2. (\A q \in reqs : RequestOK(q))'
  BY <1>1
<1>3. RevokedWithout(db)' /\ RevokedWithout(replica)'
  <2>1. RevokedWithout(db) /\ RevokedWithout(replica)
    BY DEF IInv
  <2>2. \A b : Revoked(b.chain) \subseteq Devices
    BY DEF Revoked
  <2>3. \A d \in Revoked(db'.chain) : db'.chain.key \notin KeysOf(d)'
    BY <2>1, <2>2 DEF RevokedWithout
  <2>4. \A d \in Revoked(replica'.chain) : replica'.chain.key \notin KeysOf(d)'
    BY <2>1, <2>2 DEF RevokedWithout
  <2> QED  BY <2>3, <2>4 DEF RevokedWithout
<1>4. SuspendedStaysOut
  BY DEF SuspendedStaysOut
<1> QED  BY <1>2, <1>3, <1>4 DEF IInv, StepOK

-----------------------------------------------------------------------------
(* The clients.                                                            *)

LEMMA ClientFields ==
    ASSUME cl \in [Devices -> Client], NEW d \in Devices
    PROVE  /\ cl[d] \in Client
           /\ cl[d].pin \in Seq(Link) /\ cl[d].key \in KeyOrNone /\ cl[d].todo \in Seq(LocalStep)
<1>1. cl[d] \in Client
  OBVIOUS
<1> QED  BY <1>1 DEF Client

\* One client changes.
LEMMA OneClient ==
    ASSUME cl \in [Devices -> Client], NEW d \in Devices, NEW e \in Client,
           cl' = [cl EXCEPT ![d] = e]
    PROVE  /\ cl' \in [Devices -> Client] /\ cl'[d] = e
           /\ \A c \in Devices \ {d} : cl'[c] = cl[c]
  OBVIOUS

LEMMA PrefixSelf == \A p \in Seq(Link) : Prefix(p, p)
  BY DEF Prefix

LEMMA SameClients ==
    ASSUME cl \in [Devices -> Client], cl' = cl
    PROVE  Forward /\ \A d \in Devices : KeysOf(d)' \subseteq KeysOf(d)
  BY ClientFields, PrefixSelf DEF Forward, KeysOf

LEMMA NothingToDo == Installs(<< >>) = {} /\ \A p : OnePin(p, << >>)
  BY DEF Installs, OnePin

\* The answer to a request, with the steps that its client goes on with.
LEMMA AnsweredIs ==
    ASSUME PinsOK, cl \in [Devices -> Client], NEW r \in reqs, r \in Requests,
           NEW ok \in BOOLEAN, Answered(r, ok)
    PROVE  /\ cl' \in [Devices -> Client] /\ reqs' \subseteq reqs
           /\ PinsOK' /\ Forward
           /\ \A d \in Devices \ {r.dev} : KeysOf(d)' = KeysOf(d)
           /\ KeysOf(r.dev)' \subseteq KeysOf(r.dev) \cup Installs(r.then)
<1>1. reqs' = reqs \ {r} /\ r.dev \in Devices /\ r.then \in Seq(LocalStep)
  BY RequestFields DEF Answered
<1>2. CASE r.live /\ ok
  <2> DEFINE d == r.dev
             q == cl[d]
             e == [q EXCEPT !.todo = r.then]
  <2>1. cl' = [cl EXCEPT ![d] = e]
    BY <1>2 DEF Answered
  <2>2. q \in Client
    BY <1>1
  <2> HIDE DEF q
  <2>3. e \in Client /\ e.pin = q.pin /\ e.key = q.key /\ e.todo = r.then
    BY <1>1, <2>2 DEF Client
  <2> HIDE DEF e
  <2>4. cl' \in [Devices -> Client] /\ cl'[d] = e /\ \A c \in Devices \ {d} : cl'[c] = cl[c]
    BY <1>1, <2>1, <2>3, OneClient
  <2>5. Forward
    <3> SUFFICES ASSUME NEW c \in Devices PROVE Prefix(cl[c].pin, cl'[c].pin)
      BY DEF Forward
    <3>1. cl'[c].pin = cl[c].pin
      BY <2>3, <2>4 DEF q
    <3> QED  BY <3>1, PrefixSelf, ClientFields
  <2>6. \A p \in reqs' : p.live => p.dev # d
    BY <1>1, <1>2 DEF PinsOK
  <2>7. OnePin(q.pin, r.then)
    BY <1>2 DEF PinsOK, q
  <2>8. PinsOK'
    <3>1. \A c \in Devices : OnePin(cl'[c].pin, cl'[c].todo)
      BY <2>3, <2>4, <2>7 DEF PinsOK
    <3>2. \A p \in reqs' : p.live => cl'[p.dev].todo = << >> /\ OnePin(cl'[p.dev].pin, p.then)
      <4> SUFFICES ASSUME NEW p \in reqs', p.live
                   PROVE  cl'[p.dev].todo = << >> /\ OnePin(cl'[p.dev].pin, p.then)
        OBVIOUS
      <4>1. p \in reqs /\ p.dev # d
        BY <1>1, <2>6
      <4>2. cl'[p.dev] = cl[p.dev]
        BY <2>1, <4>1
      <4> QED  BY <4>1, <4>2 DEF PinsOK
    <3>3. \A p, o \in reqs' : p.live /\ o.live /\ p.dev = o.dev => p = o
      BY <1>1 DEF PinsOK
    <3> QED  BY <3>1, <3>2, <3>3 DEF PinsOK
  <2>9. \A c \in Devices \ {d} : KeysOf(c)' = KeysOf(c)
    BY <2>4 DEF KeysOf
  <2>10. KeysOf(d)' \subseteq KeysOf(d) \cup Installs(r.then)
    BY <2>3, <2>4 DEF KeysOf, q
  <2> QED  BY <1>1, <2>4, <2>5, <2>8, <2>9, <2>10
<1>3. CASE ~(r.live /\ ok)
  <2>1. cl' = cl
    BY <1>3 DEF Answered
  <2>2. PinsOK'
    BY <1>1, <2>1 DEF PinsOK
  <2>3. \A c \in Devices : KeysOf(c)' = KeysOf(c)
    BY <2>1 DEF KeysOf
  <2> QED  BY <1>1, <2>1, <2>2, <2>3, SameClients
<1> QED  BY <1>2, <1>3

-----------------------------------------------------------------------------
(* Steps that leave the chain alone.                                       *)

LEMMA Parts ==
    ASSUME IInv
    PROVE  /\ DatabaseOK(db) /\ DatabaseOK(replica) /\ db \in Database /\ db.chain \in State
           /\ now \in Nat \ {0} /\ cl \in [Devices -> Client] /\ PinsOK /\ wrote.member
           /\ \A r \in reqs : RequestOK(r) /\ r \in Requests
  BY DatabaseFields DEF IInv, DatabaseOK, Tables, RequestOK

LEMMA LikeSelf == \A q \in Requests : Like(q, q)
  BY DEF Like

LEMMA OnlyDatabase ==
    ASSUME IInv, DatabaseOK(db'), db'.chain = db.chain, now' \in Nat \ {0},
           UNCHANGED <<replica, reqs, cl, wrote>>
    PROVE  StepOK
<1>1. \A q \in reqs' : \E r \in reqs : Like(q, r)
  BY Parts, LikeSelf
<1>2. \A p, q \in reqs' : p.identity # None /\ p.identity = q.identity => p = q
  BY DEF IInv
<1>3. PinsOK'
  BY Parts DEF PinsOK
<1>4. Forward /\ \A d \in Devices : KeysOf(d)' \subseteq KeysOf(d)
  BY Parts, SameClients
<1> QED  BY <1>1, <1>2, <1>3, <1>4, Parts, Local

LEMMA OnlyAnswered ==
    ASSUME IInv, NEW r \in reqs, NEW ok \in BOOLEAN, Answered(r, ok), ~ok \/ r.then = << >>,
           DatabaseOK(db'), db'.chain = db.chain, UNCHANGED <<replica, now>>, wrote'.member
    PROVE  StepOK
<1>1. /\ cl' \in [Devices -> Client] /\ reqs' \subseteq reqs
      /\ PinsOK' /\ Forward
      /\ \A d \in Devices \ {r.dev} : KeysOf(d)' = KeysOf(d)
      /\ KeysOf(r.dev)' \subseteq KeysOf(r.dev) \cup Installs(r.then)
  BY Parts, AnsweredIs
<1>2. \A d \in Devices : KeysOf(d)' \subseteq KeysOf(d)
  <2>1. CASE ~ok
    BY <2>1, Parts, SameClients DEF Answered
  <2>2. CASE r.then = << >>
    BY <1>1, <2>2, NothingToDo
  <2> QED  BY <2>1, <2>2
<1>3. \A q \in reqs' : \E p \in reqs : Like(q, p)
  BY <1>1, Parts, LikeSelf
<1>4. \A p, q \in reqs' : p.identity # None /\ p.identity = q.identity => p = q
  BY <1>1 DEF IInv
<1>5. now' \in Nat \ {0}
  BY Parts
<1> QED  BY <1>1, <1>2, <1>3, <1>4, <1>5, Local

\* The tables change, and what is stored does not.
LEMMA SameChain ==
    ASSUME NEW b, DatabaseOK(b), NEW c, NEW rows, NEW sessions, NEW slots,
           Becomes(b, c, b.chain, rows, sessions, slots),
           \A a \in Devices : RowAgrees(b.chain, rows, sessions, a),
           \A i \in Slots : SlotAgrees(b.chain, slots, i)
    PROVE  DatabaseOK(c) /\ c.chain = b.chain
<1>1. Tables(c)
  BY DEF Becomes, DatabaseOK, Tables
<1>2. BoxesOK(c) /\ Stored(c)
  BY DEF Becomes, DatabaseOK, BoxesOK, Stored
<1> QED  BY <1>1, <1>2 DEF DatabaseOK, Becomes

LEMMA Agree ==
    ASSUME NEW b, DatabaseOK(b)
    PROVE  /\ \A a \in Devices : RowAgrees(b.chain, b.rows, b.sessions, a)
           /\ \A i \in Slots : SlotAgrees(b.chain, b.slots, i)
  BY DEF DatabaseOK, Tables

NewRow(b, d, e, ss) == [b EXCEPT !.rows = [b.rows EXCEPT ![d] = e], !.sessions = ss]

LEMMA OneRow ==
    ASSUME NEW b \in Database, NEW d \in Devices, NEW e \in Row, NEW ss \in SUBSET Devices
    PROVE  /\ Becomes(b, NewRow(b, d, e, ss), b.chain, [b.rows EXCEPT ![d] = e], ss, b.slots)
           /\ [b.rows EXCEPT ![d] = e][d] = e
           /\ \A a \in Devices \ {d} : [b.rows EXCEPT ![d] = e][a] = b.rows[a]
<1> DEFINE rows == [b.rows EXCEPT ![d] = e]
           c == NewRow(b, d, e, ss)
<1>1. rows \in [Devices -> Row] /\ rows[d] = e /\ \A a \in Devices \ {d} : rows[a] = b.rows[a]
  BY DatabaseFields
<1>2. c = [b EXCEPT !.rows = rows, !.sessions = ss]
  BY DEF NewRow
<1> HIDE DEF c, rows
<1>3. Becomes(b, c, b.chain, rows, ss, b.slots)
  BY <1>1, <1>2 DEF Becomes, Database
<1> QED  BY <1>1, <1>3 DEF c, rows

LEMMA FirstNameIsName == FirstName \in Names
  BY AccountAssumption DEF FirstName

LEMMA SignInStep ==
    ASSUME IInv, NEW d \in Devices, SignIn(d)
    PROVE  StepOK
<1> DEFINE q == db.rows[d]
           e == IF q.status = "active" THEN q
                ELSE [status |-> "pending", until |-> now + PendingTTL,
                      name |-> IF q.status = "none" THEN FirstName ELSE q.name]
           ss == db.sessions \cup {d}
           rows == [db.rows EXCEPT ![d] = e]
<1>1. q \in Row /\ q.status \in {"none", "pending", "active"} /\ ss \in SUBSET Devices
  BY Parts, DatabaseFields DEF SignIn
<1>2. \A a \in Devices : RowAgrees(db.chain, db.rows, db.sessions, a)
  BY Parts DEF DatabaseOK, Tables
<1>3. db' = NewRow(db, d, e, ss)
  <2>1. rows = [db.rows EXCEPT ![d] = IF @.status = "active" THEN @
                     ELSE [status |-> "pending", until |-> now + PendingTTL,
                           name |-> IF @.status = "none" THEN CHOOSE n \in Names : TRUE
                                    ELSE @.name]]
    BY <1>1, Parts, DatabaseFields DEF FirstName
  <2> QED  BY <2>1, Parts DEF SignIn, Database, NewRow
<1>4. now + PendingTTL \in Nat
  BY Parts, AccountAssumption
<1>5. /\ e \in Row /\ e.status \in {"pending", "active"}
      /\ e.status = "active" => e = q
      /\ e.status = "pending" => q.status \in {"none", "pending"} /\ e.name = FirstName
  <2>1. q.status = "pending" => q.name = FirstName
    BY <1>2 DEF RowAgrees
  <2>2. CASE q.status = "active"
    BY <1>1, <2>2
  <2>3. CASE q.status # "active"
    <3>1. e = [status |-> "pending", until |-> now + PendingTTL, name |-> FirstName]
      BY <1>1, <2>1, <2>3
    <3>2. e \in Row /\ e.status = "pending" /\ e.name = FirstName
      BY <1>4, <3>1, FirstNameIsName DEF Row
    <3> QED  BY <1>1, <2>3, <3>2
  <2> QED  BY <2>2, <2>3
<1> HIDE DEF e
<1>6. /\ Becomes(db, db', db.chain, rows, ss, db.slots)
      /\ rows[d] = e /\ \A a \in Devices \ {d} : rows[a] = db.rows[a]
  BY <1>1, <1>3, <1>5, Parts, OneRow
<1> HIDE DEF rows
<1>7. ASSUME NEW a \in Devices
      PROVE  RowAgrees(db.chain, rows, ss, a)
  <2>1. CASE a = d
    BY <1>2, <1>5, <1>6, <2>1, DeviceFields, Parts DEF RowAgrees
  <2>2. CASE a # d
    BY <1>2, <1>6, <2>2 DEF RowAgrees
  <2> QED  BY <2>1, <2>2
<1>8. DatabaseOK(db') /\ db'.chain = db.chain
  BY <1>6, <1>7, Parts, Agree, SameChain
<1> QED  BY <1>8, Parts, OnlyDatabase DEF SignIn

LEMMA CleanupStep ==
    ASSUME IInv, NEW d \in Devices, Cleanup(d)
    PROVE  StepOK
<1> DEFINE e == EmptyDB.rows[d]
           ss == db.sessions \ {d}
           rows == [db.rows EXCEPT ![d] = e]
<1>1. ss \in SUBSET Devices /\ db.rows[d].status = "pending"
  BY Parts, DatabaseFields DEF Cleanup
<1>2. \A a \in Devices : RowAgrees(db.chain, db.rows, db.sessions, a)
  BY Parts DEF DatabaseOK, Tables
<1>3. db' = NewRow(db, d, e, ss)
  BY Parts DEF Cleanup, Database, NewRow
<1>4. e \in Row /\ e.status = "none"
  BY DEF EmptyDB, Row
<1> HIDE DEF e
<1>5. /\ Becomes(db, db', db.chain, rows, ss, db.slots)
      /\ rows[d] = e /\ \A a \in Devices \ {d} : rows[a] = db.rows[a]
  BY <1>1, <1>3, <1>4, Parts, OneRow
<1> HIDE DEF rows
<1>6. ASSUME NEW a \in Devices
      PROVE  RowAgrees(db.chain, rows, ss, a)
  <2>1. CASE a = d
    BY <1>1, <1>2, <1>4, <1>5, <2>1 DEF RowAgrees
  <2>2. CASE a # d
    BY <1>2, <1>5, <2>2 DEF RowAgrees
  <2> QED  BY <2>1, <2>2
<1>7. DatabaseOK(db') /\ db'.chain = db.chain
  BY <1>5, <1>6, Parts, Agree, SameChain
<1> QED  BY <1>7, Parts, OnlyDatabase DEF Cleanup

LEMMA SuspendStep ==
    ASSUME IInv, NEW r \in reqs, SuspendDevice(r)
    PROVE  StepOK
<1> DEFINE d == r.target
           q == db.rows[d]
           e == [q EXCEPT !.status = "suspended"]
           ss == db.sessions \ {d}
           rows == [db.rows EXCEPT ![d] = e]
<1>1. d \in Devices /\ r.then = << >>
  BY Parts DEF SuspendDevice, RequestOK
<1>2. CASE q.status \in {"active", "pending"}
  <2>1. ss \in SUBSET Devices /\ q \in Row
    BY <1>1, Parts, DatabaseFields
  <2>2. \A a \in Devices : RowAgrees(db.chain, db.rows, db.sessions, a)
    BY Parts DEF DatabaseOK, Tables
  <2>3. db' = NewRow(db, d, e, ss)
    <3>1. rows = [db.rows EXCEPT ![d].status = "suspended"]
      BY <1>1, Parts, DatabaseFields DEF Row
    <3> QED  BY <1>2, <3>1, Parts DEF SuspendDevice, Database, NewRow
  <2> HIDE DEF q
  <2>4. e \in Row /\ e.status = "suspended"
    BY <2>1 DEF Row
  <2> HIDE DEF e
  <2>5. /\ Becomes(db, db', db.chain, rows, ss, db.slots)
        /\ rows[d] = e /\ \A a \in Devices \ {d} : rows[a] = db.rows[a]
    BY <1>1, <2>1, <2>3, <2>4, Parts, OneRow
  <2> HIDE DEF rows
  <2>6. ASSUME NEW a \in Devices
        PROVE  RowAgrees(db.chain, rows, ss, a)
    <3>1. CASE a = d
      BY <1>2, <2>2, <2>4, <2>5, <3>1 DEF RowAgrees, q
    <3>2. CASE a # d
      BY <2>2, <2>5, <3>2 DEF RowAgrees
    <3> QED  BY <3>1, <3>2
  <2>7. DatabaseOK(db') /\ db'.chain = db.chain
    BY <2>5, <2>6, Parts, Agree, SameChain
  <2> QED  BY <1>1, <2>7, Parts, OnlyAnswered DEF SuspendDevice
<1>3. CASE q.status \notin {"active", "pending"}
  <2>1. db' = db
    BY <1>3 DEF SuspendDevice
  <2> QED  BY <1>1, <2>1, Parts, OnlyAnswered DEF SuspendDevice
<1> QED  BY <1>2, <1>3

LEMMA SlotOffStep ==
    ASSUME IInv, NEW r \in reqs, SlotOff(r)
    PROVE  StepOK
<1> DEFINE i == r.slotData.slot
           q == db.slots[i]
           e == [q EXCEPT !.status = "disabled"]
           slots == [db.slots EXCEPT ![i] = e]
<1>1. i \in Slots /\ r.then = << >>
  BY Parts DEF SlotOff, RequestOK
<1>2. CASE q.status = "enabled"
  <2>1. q \in SlotRow /\ db.slots \in [Slots -> SlotRow]
    BY <1>1, Parts, DatabaseFields
  <2>2. db' = [db EXCEPT !.slots = slots]
    <3>1. slots = [db.slots EXCEPT ![i].status = "disabled"]
      BY <1>1, <2>1 DEF SlotRow
    <3> QED  BY <1>2, <3>1, Parts DEF SlotOff, Database
  <2> HIDE DEF q
  <2>3. e \in SlotRow /\ e.status = "disabled"
    BY <2>1 DEF SlotRow
  <2> HIDE DEF e
  <2>4. slots \in [Slots -> SlotRow] /\ slots[i] = e /\ \A j \in Slots \ {i} : slots[j] = db.slots[j]
    BY <1>1, <2>1, <2>3
  <2> HIDE DEF slots
  <2>5. Becomes(db, db', db.chain, db.rows, db.sessions, slots)
    BY <2>2, <2>4, Parts DEF Becomes, Database
  <2>6. ASSUME NEW j \in Slots
        PROVE  SlotAgrees(db.chain, slots, j)
    <3>1. CASE j = i
      BY <2>3, <2>4, <3>1 DEF SlotAgrees
    <3>2. CASE j # i
      BY <2>4, <3>2, Parts DEF SlotAgrees, DatabaseOK, Tables
    <3> QED  BY <3>1, <3>2
  <2>7. DatabaseOK(db') /\ db'.chain = db.chain
    BY <2>5, <2>6, Parts, Agree, SameChain
  <2> QED  BY <1>1, <2>7, Parts, OnlyAnswered DEF SlotOff
<1>3. CASE q.status # "enabled"
  <2>1. db' = db
    BY <1>3 DEF SlotOff
  <2> QED  BY <1>1, <2>1, Parts, OnlyAnswered DEF SlotOff
<1> QED  BY <1>2, <1>3

LEMMA EndSessionStep ==
    ASSUME IInv, NEW r \in reqs, EndSession(r)
    PROVE  StepOK
<1> DEFINE ss == db.sessions \ {r.dev}
<1>1. ss \in SUBSET Devices /\ r.then = << >>
  BY Parts, DatabaseFields DEF EndSession, RequestOK
<1>2. db' = [db EXCEPT !.sessions = ss]
  BY Parts DEF EndSession, Database
<1> HIDE DEF ss
<1>3. Becomes(db, db', db.chain, db.rows, ss, db.slots)
  BY <1>1, <1>2, Parts DEF Becomes, Database
<1>4. \A a \in Devices : RowAgrees(db.chain, db.rows, ss, a)
  BY Parts DEF RowAgrees, DatabaseOK, Tables, ss
<1>5. DatabaseOK(db') /\ db'.chain = db.chain
  BY <1>3, <1>4, Parts, Agree, SameChain
<1> QED  BY <1>1, <1>5, Parts, OnlyAnswered DEF EndSession

\* putVault keeps the vault sealed to the current key, and takes it from a
\* member only.
LEMMA VaultPutStep ==
    ASSUME IInv, NEW r \in reqs, VaultPut(r)
    PROVE  StepOK
<1>1. PushOK(r) /\ r.then = << >> /\ r \in Requests
  BY Parts DEF VaultPut, RequestOK
<1>2. CASE VaultAllowed(db, r.vault)
  <2> DEFINE p == [version |-> r.vault.ifMatch + 1, key |-> r.vault.key]
  <2>1. p \in [version: Nat, key: KeyOrNone] /\ p.key = db.chain.key
    BY <1>1, <1>2, RequestFields DEF VaultAllowed
  <2>2. db' = [db EXCEPT !.vault = p]
    BY <1>2 DEF VaultPut, PutVault
  <2> HIDE DEF p
  <2>3. /\ db' \in Database /\ db'.chain = db.chain /\ db'.rows = db.rows
        /\ db'.sessions = db.sessions /\ db'.slots = db.slots /\ db'.boxes = db.boxes
        /\ db'.identity = db.identity /\ db'.vault = p
    BY <2>1, <2>2, Parts DEF Database
  <2>4. Tables(db')
    BY <2>3, Parts DEF DatabaseOK, Tables
  <2>5. BoxesOK(db') /\ Stored(db')
    BY <2>1, <2>3, Parts DEF DatabaseOK, BoxesOK, Stored
  <2>6. wrote'.member
    <3>1. r.dev \in ActiveDevices(db.chain)
      BY <1>1, <1>2 DEF PushOK, VaultAllowed
    <3> DEFINE A == ActiveDevices(db.chain) \cup ActiveDevices(db'.chain)
    <3>2. wrote' = [dev |-> r.dev, member |-> r.dev \in A]
      BY <1>2 DEF VaultPut, Writes
    <3>3. (r.dev \in A) = TRUE
      BY <3>1
    <3> HIDE DEF A
    <3>4. wrote' = [dev |-> r.dev, member |-> TRUE]
      BY <3>2, <3>3
    <3> QED  BY <3>4
  <2> QED  BY <1>1, <1>2, <2>3, <2>4, <2>5, <2>6, OnlyAnswered DEF VaultPut, DatabaseOK
<1>3. CASE ~VaultAllowed(db, r.vault)
  BY <1>1, <1>3, Parts, OnlyAnswered DEF VaultPut
<1> QED  BY <1>2, <1>3

LEMMA TickStep ==
    ASSUME IInv, Tick
    PROVE  StepOK
  BY Parts, OnlyDatabase DEF Tick

-----------------------------------------------------------------------------
(* Requests on their way, and the server's environment.                    *)

\* The requests that there are become others that are like them.
LEMMA Images ==
    ASSUME IInv, NEW kept \in SUBSET reqs,
           NEW F \in [kept -> Requests], reqs' = {F[r] : r \in kept},
           \A r \in kept : Like(F[r], r)
    PROVE  /\ \A q \in reqs' : \E r \in kept : q = F[r] /\ Like(q, r)
           /\ \A p, q \in reqs' : p.identity # None /\ p.identity = q.identity => p = q
           /\ \A p, q \in reqs' : p.live /\ q.live /\ p.dev = q.dev => p = q
<1>1. \A q \in reqs' : \E r \in kept : q = F[r] /\ Like(q, r)
  OBVIOUS
<1>2. ASSUME NEW p \in reqs', NEW q \in reqs', p.identity # None, p.identity = q.identity
      PROVE  p = q
  <2>1. PICK r \in kept, o \in kept : p = F[r] /\ q = F[o]
    OBVIOUS
  <2>2. r.identity = p.identity /\ o.identity = q.identity
    BY <2>1 DEF Like
  <2>3. r = o
    BY <1>2, <2>2 DEF IInv
  <2> QED  BY <2>1, <2>3
<1>3. ASSUME NEW p \in reqs', NEW q \in reqs', p.live, q.live, p.dev = q.dev
      PROVE  p = q
  <2>1. PICK r \in kept, o \in kept : p = F[r] /\ q = F[o]
    OBVIOUS
  <2>2. r.live /\ o.live /\ r.dev = o.dev
    BY <1>3, <2>1 DEF Like
  <2>3. r = o
    BY <2>2, Parts DEF PinsOK
  <2> QED  BY <2>1, <2>3
<1> QED  BY <1>1, <1>2, <1>3

\* Only requests change.
LEMMA OnlyRequests ==
    ASSUME IInv, UNCHANGED <<db, replica, now, cl, wrote>>, NEW kept \in SUBSET reqs,
           NEW F \in [kept -> Requests], reqs' = {F[r] : r \in kept},
           \A r \in kept : Like(F[r], r)
    PROVE  StepOK
<1>1. /\ \A q \in reqs' : \E r \in kept : q = F[r] /\ Like(q, r)
      /\ \A p, q \in reqs' : p.identity # None /\ p.identity = q.identity => p = q
      /\ \A p, q \in reqs' : p.live /\ q.live /\ p.dev = q.dev => p = q
  BY Images
<1>2. PinsOK'
  <2>1. \A d \in Devices : OnePin(cl'[d].pin, cl'[d].todo)
    BY Parts DEF PinsOK
  <2>2. ASSUME NEW p \in reqs', p.live
        PROVE  cl'[p.dev].todo = << >> /\ OnePin(cl'[p.dev].pin, p.then)
    <3>1. PICK r \in kept : p = F[r] /\ Like(p, r)
      BY <1>1
    <3>2. r \in reqs /\ r.live /\ p.dev = r.dev /\ p.then = r.then
      BY <2>2, <3>1 DEF Like
    <3> QED  BY <3>2, Parts DEF PinsOK
  <2> QED  BY <1>1, <2>1, <2>2 DEF PinsOK
<1>3. Forward /\ \A d \in Devices : KeysOf(d)' \subseteq KeysOf(d)
  BY Parts, SameClients
<1>4. \A q \in reqs' : \E r \in reqs : Like(q, r)
  BY <1>1
<1> QED  BY <1>1, <1>2, <1>3, <1>4, Parts, Local

LEMMA AuthenticateStep ==
    ASSUME IInv, NEW r \in reqs, Authenticate(r)
    PROVE  StepOK
<1> DEFINE q == [r EXCEPT !.step = "authed", !.status = db.rows[r.dev].status]
<1>1. r \in Requests /\ r.dev \in Devices
  BY Parts, RequestFields
<1>2. db.rows[r.dev].status \in {"none", "pending", "active", "suspended", "revoked"}
  <2>1. db.rows[r.dev] \in Row
    BY <1>1, Parts, DatabaseFields
  <2> QED  BY <2>1 DEF Row
<1>3. Like(q, r)
  BY <1>1, <1>2 DEF Like, Requests
<1> HIDE DEF q
<1>4. q \in Requests
  BY <1>3 DEF Like
<1>5. CASE Authorized(r)
  <2> DEFINE F == [p \in reqs |-> IF p = r THEN q ELSE p]
  <2>1. F \in [reqs -> Requests]
    BY <1>4, Parts
  <2>2. \A p \in reqs : Like(F[p], p)
    BY <1>3, Parts, LikeSelf
  <2>3. reqs' = {F[p] : p \in reqs}
    <3>1. reqs' = (reqs \ {r}) \cup {q}
      BY <1>5 DEF Authenticate, q
    <3> QED  BY <3>1
  <2> HIDE DEF F
  <2> QED  BY <2>1, <2>2, <2>3, OnlyRequests DEF Authenticate
<1>6. CASE ~Authorized(r)
  <2> DEFINE kept == reqs \ {r}
             F == [p \in kept |-> p]
  <2>1. F \in [kept -> Requests]
    BY Parts
  <2>2. \A p \in kept : Like(F[p], p)
    BY Parts, LikeSelf
  <2>3. reqs' = {F[p] : p \in kept}
    BY <1>6 DEF Authenticate
  <2>4. kept \in SUBSET reqs
    OBVIOUS
  <2> HIDE DEF F, kept
  <2> QED  BY <2>1, <2>2, <2>3, <2>4, OnlyRequests DEF Authenticate
<1> QED  BY <1>5, <1>6

LEMMA LoseStep ==
    ASSUME IInv, NEW r \in reqs, Lose(r)
    PROVE  StepOK
<1> DEFINE kept == reqs \ {r}
           F == [p \in kept |-> p]
<1>1. F \in [kept -> Requests]
  BY Parts
<1>2. \A p \in kept : Like(F[p], p)
  BY Parts, LikeSelf
<1>3. reqs' = {F[p] : p \in kept}
  BY DEF Lose
<1>4. kept \in SUBSET reqs
  OBVIOUS
<1> HIDE DEF F, kept
<1> QED  BY <1>1, <1>2, <1>3, <1>4, OnlyRequests DEF Lose

LEMMA ReplicateStep ==
    ASSUME IInv, Replicate
    PROVE  StepOK
<1>1. Forward /\ \A d \in Devices : KeysOf(d)' = KeysOf(d)
  BY Parts, SameClients DEF Replicate, KeysOf
<1>2. \A r \in reqs : RequestOK(r)'
  BY DEF IInv, RequestOK, CommitOK, PushOK, OwnKey, KeysOf, Replicate
<1>3. PinsOK'
  BY Parts DEF PinsOK, Replicate
<1>4. (RevokedWithout(db) /\ RevokedWithout(replica))'
  <2>1. RevokedWithout(db)
    BY DEF IInv
  <2>2. \A d \in Revoked(db.chain) : db.chain.key \notin KeysOf(d)'
    BY <1>1, <2>1 DEF RevokedWithout, Revoked
  <2> QED  BY <2>2 DEF RevokedWithout, Replicate
<1>5. IInv'
  BY <1>2, <1>3, <1>4, Parts DEF IInv, Replicate
<1>6. SuspendedStaysOut
  BY DEF SuspendedStaysOut, Replicate
<1> QED  BY <1>1, <1>5, <1>6 DEF StepOK

\* A restore forgets revocations, and no key that a device it brings back has
\* not.
LEMMA RestoreStep ==
    ASSUME IInv, restores \in Nat, Restore
    PROVE  StepOK
<1>1. Forward /\ \A d \in Devices : KeysOf(d)' = KeysOf(d)
  BY Parts, SameClients DEF Restore, KeysOf
<1>2. PinsOK'
  BY Parts DEF PinsOK, Restore
<1>3. (RevokedWithout(db) /\ RevokedWithout(replica))'
  <2>1. RevokedWithout(replica)
    BY DEF IInv
  <2>2. \A d \in Revoked(replica.chain) : replica.chain.key \notin KeysOf(d)'
    BY <1>1, <2>1 DEF RevokedWithout, Revoked
  <2> QED  BY <2>2 DEF RevokedWithout, Restore
<1>4. IInv'
  BY <1>2, <1>3, Parts DEF IInv, Restore
<1>5. restores' # restores
  BY DEF Restore
<1> QED  BY <1>1, <1>4, <1>5 DEF StepOK

LEMMA CrashStep ==
    ASSUME IInv, NEW d \in Devices, Crash(d)
    PROVE  StepOK
<1> DEFINE stopped(r) == [r EXCEPT !.live = FALSE]
           F == [r \in reqs |-> IF r.dev = d THEN stopped(r) ELSE r]
           q == cl[d]
           none == << >>
           e == [q EXCEPT !.todo = none]
<1>1. \A r \in Requests : Like(stopped(r), r) /\ ~stopped(r).live
  BY DEF Like, Requests
<1>2. reqs' = {F[r] : r \in reqs}
  <2>1. reqs' = {IF r.dev = d THEN stopped(r) ELSE r : r \in reqs}
    BY DEF Crash
  <2> HIDE DEF stopped
  <2> QED  BY <2>1
<1> HIDE DEF stopped
<1>3. \A r \in reqs : Like(F[r], r) /\ (F[r].live => r.dev # d)
  BY <1>1, Parts, LikeSelf
<1>4. F \in [reqs -> Requests]
  BY <1>1, Parts DEF Like
<1> HIDE DEF F
<1>5. /\ \A p \in reqs' : \E r \in reqs : p = F[r] /\ Like(p, r)
      /\ \A p, o \in reqs' : p.identity # None /\ p.identity = o.identity => p = o
      /\ \A p, o \in reqs' : p.live /\ o.live /\ p.dev = o.dev => p = o
  BY <1>2, <1>3, <1>4, Images
<1>6. cl' = [cl EXCEPT ![d] = e]
  BY DEF Crash
<1>7. q \in Client
  BY Parts
<1> HIDE DEF q
<1>8. e \in Client /\ e.pin = q.pin /\ e.key = q.key /\ e.todo = << >>
  <2>1. none \in Seq(LocalStep) /\ none = << >>
    OBVIOUS
  <2> HIDE DEF none
  <2>2. e \in Client /\ e.pin = q.pin /\ e.key = q.key /\ e.todo = none
    BY <1>7, <2>1 DEF Client
  <2> HIDE DEF e
  <2> QED  BY <2>1, <2>2
<1> HIDE DEF e
<1>9. cl' \in [Devices -> Client] /\ cl'[d] = e /\ \A c \in Devices \ {d} : cl'[c] = cl[c]
  BY <1>6, <1>8, Parts, OneClient
<1>10. \A c \in Devices : KeysOf(c)' \subseteq KeysOf(c)
  BY <1>8, <1>9, NothingToDo DEF KeysOf, q
<1>11. Forward
  <2> SUFFICES ASSUME NEW c \in Devices PROVE Prefix(cl[c].pin, cl'[c].pin)
    BY DEF Forward
  <2>1. cl'[c].pin = cl[c].pin
    BY <1>8, <1>9 DEF q
  <2> QED  BY <2>1, PrefixSelf, ClientFields, Parts
<1>12. PinsOK'
  <2>1. \A c \in Devices : OnePin(cl'[c].pin, cl'[c].todo)
    BY <1>8, <1>9, NothingToDo, Parts DEF PinsOK
  <2>2. ASSUME NEW p \in reqs', p.live
        PROVE  cl'[p.dev].todo = << >> /\ OnePin(cl'[p.dev].pin, p.then)
    <3>1. PICK r \in reqs : p = F[r] /\ Like(p, r)
      BY <1>5
    <3>2. r.live /\ p.dev = r.dev /\ p.then = r.then /\ r.dev # d /\ r.dev \in Devices
      BY <1>3, <2>2, <3>1, Parts, RequestFields DEF Like
    <3>3. cl'[r.dev] = cl[r.dev]
      BY <1>9, <3>2
    <3> QED  BY <3>2, <3>3, Parts DEF PinsOK
  <2> QED  BY <1>5, <2>1, <2>2 DEF PinsOK
<1>13. \A p \in reqs' : \E r \in reqs : Like(p, r)
  BY <1>5
<1> QED  BY <1>5, <1>9, <1>10, <1>11, <1>12, <1>13, Parts, Local DEF Crash

-----------------------------------------------------------------------------
(* Steps of a client, and the requests that it sends.                      *)

\* What d may become: its pin grows, and no answer waits for it.
MayMove(d, e) ==
    /\ Prefix(cl[d].pin, e.pin) /\ OnePin(e.pin, e.todo)
    /\ \A r \in reqs : r.live => r.dev # d

\* The keys of e are those of d and K, and d may learn K.
MayLearn(d, e, K) ==
    /\ {e.key} \cup Installs(e.todo) \subseteq KeysOf(d) \cup K
    /\ K = {} \/ d \notin Revoked(db.chain)
    /\ \A q \in reqs : q.identity # None => q.identity \notin K \/ q.identity \in EpochKeys(db.chain)

\* The only request r of R may be sent by d, once it is e.
SentOK(r, d, e, R) ==
    /\ RequestOK(r)' /\ r.dev = d
    /\ e.todo = << >> /\ OnePin(e.pin, r.then)
    /\ \A q \in R : q = r
    /\ r.identity # None => \A q \in reqs : q.identity # r.identity

\* Client d becomes e and sends the requests R, at most one; it may learn keys
\* of K, if it is not a revoked device.
LEMMA ClientMoves ==
    ASSUME IInv, UNCHANGED <<db, replica, now, wrote>>,
           NEW d \in Devices, NEW e \in Client, cl' = [cl EXCEPT ![d] = e], MayMove(d, e),
           NEW K, MayLearn(d, e, K),
           NEW R, reqs' = reqs \cup R, \A r \in R : SentOK(r, d, e, R)
    PROVE  StepOK
<1> SUFFICES
      ASSUME Prefix(cl[d].pin, e.pin), OnePin(e.pin, e.todo),
             \A r \in reqs : r.live => r.dev # d,
             {e.key} \cup Installs(e.todo) \subseteq KeysOf(d) \cup K,
             K = {} \/ d \notin Revoked(db.chain),
             \A q \in reqs : q.identity # None => q.identity \notin K \/ q.identity \in EpochKeys(db.chain),
             \A r \in R :
               /\ RequestOK(r)' /\ r.dev = d
               /\ e.todo = << >> /\ OnePin(e.pin, r.then)
               /\ \A q \in R : q = r
               /\ r.identity # None => \A q \in reqs : q.identity # r.identity
      PROVE  StepOK
  BY DEF MayMove, MayLearn, SentOK
<1>1. cl' \in [Devices -> Client] /\ cl'[d] = e /\ \A c \in Devices \ {d} : cl'[c] = cl[c]
  BY Parts, OneClient
<1>2. KeysOf(d)' \subseteq KeysOf(d) \cup K /\ \A c \in Devices \ {d} : KeysOf(c)' = KeysOf(c)
  BY <1>1 DEF KeysOf
<1>3. \A c \in Devices : KeysOf(c)' \subseteq KeysOf(c) \cup K
  BY <1>2
<1>4. ASSUME NEW r \in reqs
      PROVE  RequestOK(r)'
  <2>1. RequestOK(r) /\ Like(r, r)
    BY Parts, LikeSelf
  <2>2. /\ EpochKeys(db.chain) \subseteq EpochKeys(db'.chain)
        /\ EpochKeys(db'.chain) \subseteq EpochKeys(db.chain) \cup K
        /\ db'.chain = db.chain /\ db'.chain.key = db.chain.key
        /\ ActiveDevices(db.chain) \subseteq ActiveDevices(db'.chain)
    OBVIOUS
  <2> QED  BY <1>3, <2>1, <2>2, RequestStays
<1>5. (\A r \in reqs : RequestOK(r))'
  BY <1>4
<1>6. (RevokedWithout(db) /\ RevokedWithout(replica))'
  <2>1. RevokedWithout(db) /\ RevokedWithout(replica) /\ Revoked(replica.chain) \subseteq Revoked(db.chain)
    BY DEF IInv
  <2>2. \A b : Revoked(b.chain) \subseteq Devices
    BY DEF Revoked
  <2>3. \A c \in Revoked(db.chain) : KeysOf(c)' \subseteq KeysOf(c)
    BY <1>2, <2>2
  <2>4. \A c \in Revoked(db.chain) : db.chain.key \notin KeysOf(c)'
    BY <2>1, <2>3 DEF RevokedWithout
  <2>5. \A c \in Revoked(replica.chain) : replica.chain.key \notin KeysOf(c)'
    BY <2>1, <2>3 DEF RevokedWithout
  <2> QED  BY <2>4, <2>5 DEF RevokedWithout
<1>7. \A r, q \in reqs' : r.identity # None /\ r.identity = q.identity => r = q
  BY DEF IInv
<1>8. PinsOK'
  <2>1. \A c \in Devices : OnePin(cl'[c].pin, cl'[c].todo)
    BY <1>1, Parts DEF PinsOK
  <2>2. ASSUME NEW p \in reqs', p.live
        PROVE  cl'[p.dev].todo = << >> /\ OnePin(cl'[p.dev].pin, p.then)
    <3>1. CASE p \in R
      BY <1>1, <3>1
    <3>2. CASE p \in reqs
      <4>1. p.dev \in Devices \ {d}
        BY <2>2, <3>2, Parts, RequestFields
      <4> QED  BY <1>1, <2>2, <3>2, <4>1, Parts DEF PinsOK
    <3> QED  BY <3>1, <3>2
  <2>3. ASSUME NEW p \in reqs', NEW q \in reqs', p.live, q.live, p.dev = q.dev
        PROVE  p = q
    BY <2>3, Parts DEF PinsOK
  <2> QED  BY <2>1, <2>2, <2>3 DEF PinsOK
<1>9. Forward
  <2> SUFFICES ASSUME NEW c \in Devices PROVE Prefix(cl[c].pin, cl'[c].pin)
    BY DEF Forward
  <2>1. CASE c = d
    BY <1>1, <2>1
  <2>2. CASE c # d
    BY <1>1, <2>2, PrefixSelf, ClientFields, Parts
  <2> QED  BY <2>1, <2>2
<1>10. IInv'
  BY <1>1, <1>5, <1>6, <1>7, <1>8, Parts DEF IInv
<1>11. SuspendedStaysOut
  BY DEF SuspendedStaysOut
<1> QED  BY <1>9, <1>10, <1>11 DEF StepOK

LEMMA ClientStays ==
    ASSUME IInv, UNCHANGED <<db, replica, now, wrote, reqs>>,
           NEW d \in Devices, NEW e \in Client, cl' = [cl EXCEPT ![d] = e], MayMove(d, e),
           NEW K, MayLearn(d, e, K)
    PROVE  StepOK
<1> DEFINE R == {}
<1>1. reqs' = reqs \cup R /\ \A r \in R : SentOK(r, d, e, R)
  OBVIOUS
<1>2. UNCHANGED <<db, replica, now, wrote>>
  OBVIOUS
<1> HIDE DEF R
<1> QED  BY <1>1, <1>2, ClientMoves

LEMMA StepsLeft ==
    ASSUME NEW todo \in Seq(LocalStep), todo # << >>
    PROVE  /\ Head(todo) \in LocalStep /\ Tail(todo) \in Seq(LocalStep)
           /\ Installs(Tail(todo)) \subseteq Installs(todo)
           /\ Head(todo).do = "install" => Head(todo).key \in Installs(todo)
           /\ \A p : OnePin(p, todo) => OnePin(p, Tail(todo))
           /\ Head(todo).do = "pin" => \A p : OnePin(p, todo) =>
                /\ Prefix(p, Head(todo).links)
                /\ \A q : OnePin(q, Tail(todo))
<1> DEFINE t == Tail(todo)
<1>1. /\ Head(todo) \in LocalStep /\ t \in Seq(LocalStep) /\ Head(todo) = todo[1]
      /\ DOMAIN todo = 1..Len(todo) /\ Len(todo) \in Nat /\ 1 \in DOMAIN todo
      /\ DOMAIN t = 1..(Len(todo) - 1) /\ \A i \in DOMAIN t : t[i] = todo[i + 1]
  OBVIOUS
<1> HIDE DEF t
<1>2. \A i \in DOMAIN t : i + 1 \in DOMAIN todo /\ t[i] = todo[i + 1] /\ i + 1 # 1 /\ i \in Nat
  BY <1>1
<1>3. Installs(t) \subseteq Installs(todo)
  BY <1>2 DEF Installs
<1>4. Head(todo).do = "install" => Head(todo).key \in Installs(todo)
  BY <1>1 DEF Installs
<1>5. ASSUME NEW p, OnePin(p, todo)
      PROVE  OnePin(p, t)
  <2> SUFFICES ASSUME NEW i \in DOMAIN t, t[i].do = "pin"
               PROVE  Prefix(p, t[i].links) /\ \A j \in DOMAIN t : t[j].do = "pin" => j = i
    BY DEF OnePin
  <2>1. Prefix(p, t[i].links)
    BY <1>2, <1>5 DEF OnePin
  <2>2. ASSUME NEW j \in DOMAIN t, t[j].do = "pin"
        PROVE  j = i
    <3>1. i + 1 = j + 1
      BY <1>2, <1>5, <2>2 DEF OnePin
    <3> QED  BY <1>2, <3>1
  <2> QED  BY <2>1, <2>2
<1>6. ASSUME Head(todo).do = "pin", NEW p, OnePin(p, todo)
      PROVE  Prefix(p, Head(todo).links) /\ \A q : OnePin(q, t)
  <2>1. Prefix(p, Head(todo).links)
    BY <1>1, <1>6 DEF OnePin
  <2>2. \A i \in DOMAIN t : t[i].do # "pin"
    BY <1>1, <1>2, <1>6 DEF OnePin
  <2> QED  BY <2>1, <2>2 DEF OnePin
<1> QED  BY <1>1, <1>3, <1>4, <1>5, <1>6 DEF t

\* A local step saves the chain that its command saw, or installs a key that
\* the device was about to have.
LEMMA ClientStepStep ==
    ASSUME IInv, NEW d \in Devices, ClientStep(d)
    PROVE  StepOK
<1> DEFINE q == cl[d]
           step == Head(q.todo)
           none == << >>
           pin == [q EXCEPT !.pin = step.links, !.todo = Tail(q.todo)]
           install == [q EXCEPT !.key = step.key, !.todo = Tail(q.todo)]
           stop == [q EXCEPT !.todo = none]
           Moves(e) == /\ e \in Client /\ Prefix(q.pin, e.pin) /\ OnePin(e.pin, e.todo)
                       /\ {e.key} \cup Installs(e.todo) \subseteq KeysOf(d)
<1>1. /\ q \in Client /\ q.pin \in Seq(Link) /\ q.key \in KeyOrNone /\ q.todo \in Seq(LocalStep)
      /\ q.todo # << >> /\ OnePin(q.pin, q.todo)
  BY Parts, ClientFields DEF ClientStep, PinsOK
<1>2. KeysOf(d) = {q.key} \cup Installs(q.todo)
  BY DEF KeysOf
<1>3. \A r \in reqs : r.live => r.dev # d
  BY <1>1, Parts DEF PinsOK
<1>4. \E e : Moves(e) /\ cl' = [cl EXCEPT ![d] = e]
  <2> DEFINE got == step.do = "install" /\ (q.key = step.key \/ (CanCall(d) /\ db.identity = step.key))
  <2>0. /\ step.do = "pin" => cl' = [cl EXCEPT ![d] = pin]
        /\ got => cl' = [cl EXCEPT ![d] = install]
        /\ step.do # "pin" /\ ~got => cl' = [cl EXCEPT ![d] = stop]
    <3>1. ASSUME step.do = "pin"
          PROVE  cl' = [cl EXCEPT ![d] = pin]
      BY <3>1 DEF ClientStep
    <3>2. ASSUME got
          PROVE  cl' = [cl EXCEPT ![d] = install]
      BY <3>2 DEF ClientStep
    <3>3. ASSUME step.do # "pin", ~got
          PROVE  cl' = [cl EXCEPT ![d] = stop]
      BY <3>3 DEF ClientStep
    <3> QED  BY <3>1, <3>2, <3>3
  <2> HIDE DEF q
  <2>1. /\ step \in LocalStep /\ Tail(q.todo) \in Seq(LocalStep)
        /\ Installs(Tail(q.todo)) \subseteq Installs(q.todo)
        /\ step.do = "install" => step.key \in Installs(q.todo)
        /\ OnePin(q.pin, Tail(q.todo))
        /\ step.do = "pin" => Prefix(q.pin, step.links) /\ \A p : OnePin(p, Tail(q.todo))
    BY <1>1, StepsLeft
  <2> DEFINE t == Tail(q.todo)
  <2> HIDE DEF step, t
  <2>2. step.links \in Seq(Link) /\ step.key \in KeyOrNone
    BY <2>1 DEF LocalStep
  <2>3. /\ pin \in Client /\ pin.pin = step.links /\ pin.key = q.key /\ pin.todo = t
        /\ install \in Client /\ install.pin = q.pin /\ install.key = step.key /\ install.todo = t
    BY <1>1, <2>1, <2>2 DEF Client, t
  <2>4. stop \in Client /\ stop.pin = q.pin /\ stop.key = q.key /\ stop.todo = << >>
    <3>1. none \in Seq(LocalStep) /\ none = << >>
      OBVIOUS
    <3> HIDE DEF none
    <3>2. stop \in Client /\ stop.pin = q.pin /\ stop.key = q.key /\ stop.todo = none
      BY <1>1, <3>1 DEF Client
    <3> HIDE DEF stop
    <3> QED  BY <3>1, <3>2
  <2> HIDE DEF pin, install, stop
  <2>5. step.do = "pin" => Moves(pin)
    BY <1>2, <2>1, <2>3 DEF t
  <2>6. step.do = "install" => Moves(install)
    BY <1>1, <1>2, <2>1, <2>3, PrefixSelf DEF t
  <2>7. Moves(stop)
    BY <1>1, <1>2, <2>4, PrefixSelf, NothingToDo
  <2> HIDE DEF Moves
  <2>8. got => step.do = "install"
    OBVIOUS
  <2> HIDE DEF got
  <2>9. CASE step.do = "pin"
    BY <2>0, <2>5, <2>9
  <2>10. CASE got
    BY <2>0, <2>6, <2>8, <2>10
  <2>11. CASE step.do # "pin" /\ ~got
    BY <2>0, <2>7, <2>11
  <2> QED  BY <2>9, <2>10, <2>11
<1>5. PICK e : Moves(e) /\ cl' = [cl EXCEPT ![d] = e]
  BY <1>4
<1> DEFINE K == {}
<1>6. MayMove(d, e) /\ e \in Client
  BY <1>3, <1>5 DEF MayMove
<1>7. MayLearn(d, e, K)
  BY <1>5 DEF MayLearn
<1>8. UNCHANGED <<db, replica, now, wrote, reqs>>
  BY DEF ClientStep
<1> HIDE DEF K, Moves
<1> QED  BY <1>5, <1>6, <1>7, <1>8, ClientStays

LEMMA CheckedPin ==
    ASSUME NEW s \in State, NEW p \in Seq(Link), CheckPin(s, p)
    PROVE  Prefix(p, s.links)
<1> DEFINE q == s.links
<1>1. q \in Seq(Link)
  BY StateFields
<1>2. p = << >> \/ (Len(p) <= Len(q) /\ SubSeq(q, 1, Len(p)) = p)
  BY DEF CheckPin, SeqNo, Hash
<1> HIDE DEF q
<1>3. CASE p = << >>
  BY <1>1, <1>3 DEF Prefix
<1>4. CASE Len(p) <= Len(q) /\ SubSeq(q, 1, Len(p)) = p
  <2>1. \A i \in 1..Len(p) : SubSeq(q, 1, Len(p))[i] = q[i]
    BY <1>1, <1>4
  <2> DEFINE h == SubSeq(q, 1, Len(p))
  <2>2. h = p /\ Len(p) <= Len(q) /\ \A i \in 1..Len(p) : h[i] = q[i]
    BY <1>4, <2>1
  <2> HIDE DEF h
  <2>3. \A i \in 1..Len(p) : p[i] = q[i]
    BY <2>2
  <2> QED  BY <2>2, <2>3 DEF Prefix, q
<1> QED  BY <1>2, <1>3, <1>4 DEF q

LEMMA PrefixGrows ==
    ASSUME NEW p \in Seq(Link), NEW q \in Seq(Link), Prefix(p, q), NEW x \in Link
    PROVE  Prefix(p, Append(q, x)) /\ Append(q, x) \in Seq(Link)
<1>1. Len(Append(q, x)) = Len(q) + 1 /\ \A i \in 1..Len(q) : Append(q, x)[i] = q[i]
  OBVIOUS
<1> QED  BY <1>1 DEF Prefix

\* The local steps that commands end with.
LEMMA LocalSteps ==
    ASSUME NEW s \in State, NEW k \in KeyOrNone, NEW p, Prefix(p, s.links)
    PROVE  /\ <<Pin(s)>> \in Seq(LocalStep) /\ OnePin(p, <<Pin(s)>>) /\ Installs(<<Pin(s)>>) = {}
           /\ <<Install(k), Pin(s)>> \in Seq(LocalStep) /\ OnePin(p, <<Install(k), Pin(s)>>)
           /\ Installs(<<Install(k), Pin(s)>>) = {k}
           /\ <<Pin(s), Install(k)>> \in Seq(LocalStep) /\ OnePin(p, <<Pin(s), Install(k)>>)
           /\ Installs(<<Pin(s), Install(k)>>) = {k}
<1> DEFINE a == Pin(s)
           b == Install(k)
<1>1. a \in LocalStep /\ a.do = "pin" /\ a.links = s.links
  BY StateFields DEF Pin, LocalStep, KeyOrNone
<1>2. b \in LocalStep /\ b.do = "install" /\ b.key = k
  <2>1. << >> \in Seq(Link)
    OBVIOUS
  <2> QED  BY <2>1 DEF Install, LocalStep
<1> HIDE DEF a, b
<1>3. <<a>> \in Seq(LocalStep) /\ OnePin(p, <<a>>) /\ Installs(<<a>>) = {}
  <2>1. DOMAIN <<a>> = {1} /\ <<a>>[1] = a /\ <<a>> \in Seq(LocalStep)
    BY <1>1
  <2> QED  BY <1>1, <2>1 DEF OnePin, Installs
<1>4. <<b, a>> \in Seq(LocalStep) /\ OnePin(p, <<b, a>>) /\ Installs(<<b, a>>) = {k}
  <2>1. DOMAIN <<b, a>> = {1, 2} /\ <<b, a>>[1] = b /\ <<b, a>>[2] = a /\ <<b, a>> \in Seq(LocalStep)
    BY <1>1, <1>2
  <2> DEFINE t == <<b, a>>
  <2> HIDE DEF t
  <2>2. OnePin(p, t) /\ Installs(t) = {k}
    BY <1>1, <1>2, <2>1 DEF OnePin, Installs, t
  <2> QED  BY <2>1, <2>2 DEF t
<1>5. <<a, b>> \in Seq(LocalStep) /\ OnePin(p, <<a, b>>) /\ Installs(<<a, b>>) = {k}
  <2>1. DOMAIN <<a, b>> = {1, 2} /\ <<a, b>>[1] = a /\ <<a, b>>[2] = b /\ <<a, b>> \in Seq(LocalStep)
    BY <1>1, <1>2
  <2> DEFINE t == <<a, b>>
  <2> HIDE DEF t
  <2>2. OnePin(p, t) /\ Installs(t) = {k}
    BY <1>1, <1>2, <2>1 DEF OnePin, Installs, t
  <2> QED  BY <2>1, <2>2 DEF t
<1> QED  BY <1>3, <1>4, <1>5 DEF a, b

LEMMA MemberKey ==
    ASSUME NEW b, DatabaseOK(b), SeqNo(b.chain) # 0 \/ ActiveDevices(b.chain) # {}
    PROVE  /\ SeqNo(b.chain) \in Nat /\ SeqNo(b.chain) # 0
           /\ b.chain.key \in EpochKeys(b.chain) /\ b.chain.key \in Keys
<1>1. b.chain \in State
  BY DatabaseFields DEF DatabaseOK, Tables
<1>2. SeqNo(b.chain) \in Nat
  BY <1>1, StateFields DEF SeqNo
<1>3. SeqNo(b.chain) # 0
  BY DEF DatabaseOK, Tables, New, ActiveDevices
<1>4. b.chain.key \in EpochKeys(b.chain)
  BY <1>3 DEF DatabaseOK, Stored
<1> QED  BY <1>1, <1>2, <1>3, <1>4, EpochKeysType

LEMMA IdleIs ==
    ASSUME NEW d, Idle(d)
    PROVE  /\ \A r \in reqs : r.live => r.dev # d
           /\ cl[d].todo = << >>
  BY DEF Idle, Waiting

LEMMA RefreshStep ==
    ASSUME IInv, NEW d \in Devices, Refresh(d)
    PROVE  StepOK
<1> DEFINE q == cl[d]
           k == db.chain.key
           todo == <<Install(k), Pin(db.chain)>>
           e == [q EXCEPT !.todo = todo]
           K == {k}
<1>1. q \in Client /\ q.pin \in Seq(Link)
  BY Parts, ClientFields
<1>2. d \in ActiveDevices(db.chain) /\ d \notin Revoked(db.chain)
  BY DEF Refresh, ActiveDevices, Revoked
<1>3. k \in EpochKeys(db.chain) /\ k \in KeyOrNone
  BY <1>2, Parts, MemberKey DEF KeyOrNone
<1>4. Prefix(q.pin, db.chain.links)
  BY <1>1, Parts, CheckedPin DEF Refresh, SeesChain
<1>5. todo \in Seq(LocalStep) /\ OnePin(q.pin, todo) /\ Installs(todo) = {k}
  BY <1>3, <1>4, Parts, LocalSteps
<1>6. cl' = [cl EXCEPT ![d] = e]
  BY DEF Refresh
<1> HIDE DEF q, todo
<1>7. e \in Client /\ e.pin = q.pin /\ e.key = q.key /\ e.todo = todo
  BY <1>1, <1>5 DEF Client
<1> HIDE DEF e
<1>8. {e.key} \cup Installs(e.todo) \subseteq KeysOf(d) \cup K
  BY <1>5, <1>7 DEF KeysOf, q
<1>9. MayMove(d, e)
  <2>1. Prefix(q.pin, e.pin) /\ OnePin(e.pin, e.todo)
    BY <1>1, <1>5, <1>7, PrefixSelf
  <2> QED  BY <2>1, IdleIs DEF MayMove, Refresh, q
<1>10. MayLearn(d, e, K)
  BY <1>2, <1>3, <1>8 DEF MayLearn
<1>11. UNCHANGED <<db, replica, now, wrote, reqs>>
  BY DEF Refresh
<1> HIDE DEF K, k
<1> QED  BY <1>6, <1>7, <1>9, <1>10, <1>11, ClientStays

-----------------------------------------------------------------------------
(* A commit.                                                               *)

LEMMA CommitIs ==
    ASSUME IInv, NEW r \in reqs, Commit(r), CommitAllowed(db, r)
    PROVE  Committed(db, db', r) /\ CommitLinks(r)
<1>1. CommitOK(r) /\ r \in Requests
  BY Parts DEF Commit, RequestOK
<1>2. CommitLinks(r) /\ 1 \in DOMAIN r.links
  BY <1>1, RequestFields DEF CommitOK, CommitLinks
<1>3. r.links[1].seq = SeqNo(db.chain) + 1 /\ (r.links[1].type = "init" <=> SeqNo(db.chain) = 0)
  <2>1. LinkAllowed(After(db, r.links, r.slotData, 1 - 1), r.links[1], r.slotData)
    BY <1>2 DEF CommitAllowed
  <2>2. After(db, r.links, r.slotData, 1 - 1) = db
    BY AfterNone
  <2>3. LinkOK(r.links[1])
    BY <1>2 DEF CommitLinks
  <2> QED  BY <2>1, <2>2, <2>3, Parts, RuleOf DEF LinkAllowed
<1>4. db' = CommitResult(db, r)
  BY DEF Commit
<1>5. Creates(r, db.chain) \/ Adds(r, db.chain) \/ Rotates(r, db.chain)
  BY <1>1, <1>3 DEF CommitOK
<1>6. CASE Creates(r, db.chain)
  BY <1>2, <1>4, <1>6, Parts, CreatesCommit
<1>7. CASE Adds(r, db.chain)
  BY <1>2, <1>4, <1>7, Parts, AddsCommit
<1>8. CASE Rotates(r, db.chain)
  <2>1. OwnKey(r)
    <3>1. r.links[1].type # "init"
      BY <1>3, <1>8 DEF Rotates
    <3>2. r.identity # None
      <4>1. Len(r.links) \in DOMAIN r.links
        BY <1>2, <1>8, RequestFields DEF CommitLinks, Rotates
      <4>2. r.identity \in Keys
        BY <1>2, <1>8, <4>1, LinkFields DEF CommitLinks, Rotates, BodyOK, UKeyRotateBody
      <4> QED  BY <4>2, NoneIsNoKey
    <3> QED  BY <1>1, <3>1, <3>2 DEF CommitOK
  <2> QED  BY <1>2, <1>4, <1>8, <2>1, Parts, RotateAlone, RevokeAndRotate DEF Rotates
<1> QED  BY <1>2, <1>5, <1>6, <1>7, <1>8

\* A commit keeps the invariant: the requests that follow the old chain are
\* late, and a new key is nobody's but its author's.
LEMMA CommitStep ==
    ASSUME IInv, NEW r \in reqs, Commit(r)
    PROVE  StepOK
<1>1. CASE ~CommitAllowed(db, r)
  <2>1. db' = db /\ wrote' = wrote /\ Answered(r, FALSE) /\ UNCHANGED <<replica, now>>
    BY <1>1 DEF Commit
  <2> QED  BY <2>1, Parts, OnlyAnswered
<1>2. CASE CommitAllowed(db, r)
  <2> DEFINE s == db.chain
             n == db'.chain
             K == {n.key}
  <2>1. Committed(db, db', r) /\ CommitLinks(r)
    BY <1>2, CommitIs
  <2>2. Answered(r, TRUE) /\ UNCHANGED <<replica, now, restores>> /\ Writes(r)
    BY <1>2 DEF Commit
  <2>3. /\ cl' \in [Devices -> Client] /\ reqs' \subseteq reqs
        /\ PinsOK' /\ Forward
        /\ \A d \in Devices \ {r.dev} : KeysOf(d)' = KeysOf(d)
        /\ KeysOf(r.dev)' \subseteq KeysOf(r.dev) \cup Installs(r.then)
    BY <2>2, Parts, AnsweredIs
  <2>4. r \notin reqs' /\ r.dev \in Devices
    BY <2>2, Parts, RequestFields DEF Answered
  <2>5. DatabaseOK(db') /\ SeqNo(s) \in Nat /\ SeqNo(n) \in Nat /\ SeqNo(s) < SeqNo(n)
    BY <2>1 DEF Committed
  <2>6. r.dev \in ActiveDevices(n) /\ Revoked(s) \subseteq Revoked(n) /\ Installs(r.then) \subseteq K
    BY <2>1 DEF Committed
  <2>7. r.dev \notin Revoked(n)
    BY <2>6 DEF ActiveDevices, Revoked
  <2>8. \/ Kept(s, n)
        \/ Renewed(s, n, r.identity) /\ (Revoked(n) = {} \/ OwnKey(r))
    BY <2>1 DEF Committed
  <2>9. EpochKeys(s) \subseteq EpochKeys(n) /\ EpochKeys(n) \subseteq EpochKeys(s) \cup K
    BY <2>8 DEF Kept, SameKey, EpochKeys, Renewed, NewKey
  <2>10. \/ n.key = s.key /\ ActiveDevices(s) \subseteq ActiveDevices(n)
         \/ n.key \notin EpochKeys(s)
    BY <2>8 DEF Kept, SameKey, Renewed, NewKey
  <2>11. \A d \in Devices : KeysOf(d)' \subseteq KeysOf(d) \cup K
    BY <2>3, <2>6
  <2>12. ASSUME NEW q \in reqs'
         PROVE  RequestOK(q)'
    <3>1. q \in reqs /\ RequestOK(q) /\ Like(q, q) /\ q # r
      BY <2>3, <2>4, Parts, LikeSelf
    <3>2. q.identity # None => q.identity \notin K \/ q.identity \in EpochKeys(s)
      <4>1. CASE Kept(s, n)
        <5>1. n.key = s.key /\ EpochKeys(n) = EpochKeys(s)
          BY <4>1 DEF Kept, SameKey, EpochKeys
        <5>2. n.key \in EpochKeys(n)
          BY <2>5, MemberKey
        <5> QED  BY <5>1, <5>2
      <4>2. CASE Renewed(s, n, r.identity)
        <5>1. n.key = r.identity
          BY <4>2 DEF Renewed, NewKey
        <5>2. q.identity # None => q.identity # r.identity
          BY <3>1 DEF IInv
        <5> QED  BY <5>1, <5>2
      <4> QED  BY <2>8, <4>1, <4>2
    <3> HIDE DEF K
    <3> QED  BY <2>5, <2>9, <2>10, <2>11, <3>1, <3>2, RequestStays
  <2>13. (\A q \in reqs : RequestOK(q))'
    BY <2>12
  <2>14. \A p, q \in reqs' : p.identity # None /\ p.identity = q.identity => p = q
    BY <2>3 DEF IInv
  <2>15. \A d \in Revoked(n) : n.key \notin KeysOf(d)'
    <3> SUFFICES ASSUME NEW d \in Revoked(n)
                 PROVE  n.key \notin KeysOf(d)
      <4>1. \A d \in Revoked(n) : d \in Devices \ {r.dev}
        BY <2>7 DEF Revoked
      <4> QED  BY <2>3, <4>1
    <3>1. CASE Kept(s, n)
      BY <3>1 DEF Kept, SameKey, IInv, RevokedWithout
    <3>2. CASE Renewed(s, n, r.identity) /\ OwnKey(r)
      <4>1. d \in Devices /\ n.key = r.identity
        BY <3>2 DEF Revoked, Renewed, NewKey
      <4> QED  BY <3>2, <4>1 DEF OwnKey
    <3> QED  BY <2>8, <3>1, <3>2
  <2>16. \A d \in Revoked(replica.chain) : replica.chain.key \notin KeysOf(d)'
    <3>1. \A d \in Revoked(replica.chain) : d \in Devices \ {r.dev}
      BY <2>6, <2>7 DEF IInv, Revoked
    <3> QED  BY <2>3, <3>1 DEF IInv, RevokedWithout
  <2>17. RevokedWithout(db)' /\ RevokedWithout(replica)'
    BY <2>2, <2>15, <2>16 DEF RevokedWithout
  <2>18. wrote'.member
    <3> DEFINE A == ActiveDevices(s) \cup ActiveDevices(n)
    <3>1. wrote' = [dev |-> r.dev, member |-> r.dev \in A]
      BY <2>2 DEF Writes
    <3>2. (r.dev \in A) = TRUE
      BY <2>6
    <3> HIDE DEF A
    <3>3. wrote' = [dev |-> r.dev, member |-> TRUE]
      BY <3>1, <3>2
    <3> QED  BY <3>3
  <2>19. Revoked(replica'.chain) \subseteq Revoked(n)
    BY <2>2, <2>6 DEF IInv
  <2>20. IInv'
    <3> HIDE DEF s, n
    <3> QED  BY <2>2, <2>3, <2>5, <2>13, <2>14, <2>17, <2>18, <2>19, Parts DEF IInv, n
  <2>21. SuspendedStaysOut
    BY <2>1 DEF Committed, SuspendedStaysOut, StillAbsent
  <2> QED  BY <2>3, <2>20, <2>21 DEF StepOK
<1> QED  BY <1>1, <1>2

-----------------------------------------------------------------------------
(* The requests that commands send.                                        *)

LEMMA SendStep ==
    ASSUME IInv, NEW d \in Devices, NEW key \in KeyOrNone, NEW r, RequestOK(r),
           Send(d, key, r), Idle(d), r.dev = d, OnePin(cl[d].pin, r.then),
           r.identity # None /\ r.links[1].type # "init" => r.identity # key,
           r.identity # None => \A q \in reqs : q.identity # r.identity,
           \/ key = cl[d].key
           \/ /\ d \notin Revoked(db.chain)
              /\ \A q \in reqs : q.identity # None => q.identity # key \/ q.identity \in EpochKeys(db.chain)
    PROVE  StepOK
<1> DEFINE q == cl[d]
           e == [q EXCEPT !.key = key]
           K == IF key = q.key THEN {} ELSE {key}
           R == {r}
<1>1. q \in Client /\ q.pin \in Seq(Link) /\ q.todo = << >>
  BY Parts, ClientFields, IdleIs
<1>2. cl' = [cl EXCEPT ![d] = e]
  <2>1. [q EXCEPT !.key = key] = e
    OBVIOUS
  <2> QED  BY <1>1, <2>1, Parts DEF Send, Client
<1> HIDE DEF q
<1>3. e \in Client /\ e.pin = q.pin /\ e.key = key /\ e.todo = q.todo
  BY <1>1 DEF Client
<1> HIDE DEF e
<1>4. {e.key} \cup Installs(e.todo) \subseteq KeysOf(d) \cup K
  BY <1>3 DEF KeysOf, q
<1>5. UNCHANGED <<db, replica, now, wrote>> /\ reqs' = reqs \cup R
  BY DEF Send
<1>6. MayMove(d, e)
  BY <1>1, <1>3, PrefixSelf, NothingToDo, IdleIs DEF MayMove, q
<1>7. MayLearn(d, e, K)
  <2>1. \A p \in reqs : p.identity # None => p.identity \notin K \/ p.identity \in EpochKeys(db.chain)
    BY DEF q
  <2>2. K = {} \/ d \notin Revoked(db.chain)
    BY DEF q
  <2> QED  BY <1>4, <2>1, <2>2 DEF MayLearn
<1>8. r.identity # None /\ r.links[1].type # "init" => r.identity \notin K
  OBVIOUS
<1> HIDE DEF K
<1>10. RequestOK(r)'
  <2>1. cl'[d] = e /\ \A c \in Devices \ {d} : cl'[c] = cl[c]
    BY <1>2, <1>3, Parts, OneClient
  <2>2. \A c \in Devices : KeysOf(c)' \subseteq KeysOf(c) \cup K
    BY <1>4, <2>1 DEF KeysOf
  <2>3. /\ EpochKeys(db.chain) \subseteq EpochKeys(db'.chain)
        /\ EpochKeys(db'.chain) \subseteq EpochKeys(db.chain) \cup K
        /\ db'.chain = db.chain /\ db'.chain.key = db.chain.key
        /\ ActiveDevices(db.chain) \subseteq ActiveDevices(db'.chain)
    BY <1>5
  <2>4. Like(r, r)
    BY LikeSelf DEF RequestOK
  <2> QED  BY <1>8, <2>2, <2>3, <2>4, RequestStays
<1>11. \A p \in R : SentOK(p, d, e, R)
  BY <1>1, <1>3, <1>10 DEF q, SentOK
<1> HIDE DEF R
<1> QED  BY <1>2, <1>3, <1>5, <1>6, <1>7, <1>11, ClientMoves

LEMMA NoneTypes ==
    /\ NoVault \in [ifMatch: Nat, key: KeyOrNone] /\ NoSlotData \in SlotData
    /\ None \in KeyOrNone /\ << >> \in Seq(FullLink) /\ << >> \in Seq(LocalStep)
  BY DEF NoVault, NoSlotData, SlotData, KeyOrNone

LEMMA RequestIs ==
    ASSUME NEW d \in Devices, NEW kind \in {"commit", "vault_put", "suspend", "slot_off", "logout"},
           NEW r, r = Request(d, kind)
    PROVE  /\ r \in Requests /\ r.dev = d /\ r.kind = kind /\ r.links = << >> /\ r.boxes = {}
           /\ r.identity = None /\ r.vault = NoVault /\ r.slotData = NoSlotData
           /\ r.target = None /\ r.then = << >>
<1> DEFINE links == << >>
           then == << >>
<1>1. links \in Seq(FullLink) /\ then \in Seq(LocalStep)
  OBVIOUS
<1>2. r = [dev |-> d, kind |-> kind, step |-> "sent", status |-> "none", live |-> TRUE,
           links |-> links, boxes |-> {}, identity |-> None, vault |-> NoVault,
           slotData |-> NoSlotData, target |-> None, then |-> then]
  BY DEF Request
<1> HIDE DEF links, then
<1>3. /\ r \in Requests /\ r.dev = d /\ r.kind = kind /\ r.links = links /\ r.boxes = {}
      /\ r.identity = None /\ r.vault = NoVault /\ r.slotData = NoSlotData
      /\ r.target = None /\ r.then = then
  BY <1>1, <1>2, NoneTypes DEF Requests
<1> QED  BY <1>3 DEF links, then

LEMMA NewLinkFields ==
    ASSUME NEW s, NEW type, NEW body, NEW ctime, NEW signers,
           NEW l, l = NewLink(s, type, body, ctime, signers)
    PROVE  l.type = type /\ l.body = body /\ l.seq = SeqNo(s) + 1
  BY DEF NewLink

LEMMA NewLinkOK ==
    ASSUME NEW s \in State, NEW type \in SentTypes, NEW body, NEW ctime \in Nat,
           NEW signers \in SUBSET KeyOrNone,
           NEW l, l = NewLink(s, type, body, ctime, signers), BodyOK(l)
    PROVE  LinkOK(l)
<1> DEFINE v == CASE type = "init" -> 1
                  [] type = "ukey_rotate" -> s.ukv + 1
                  [] OTHER -> s.ukv
           q == s.links
           n == SeqNo(s) + 1
<1>1. l = [seq |-> n, prev |-> q, ctime |-> ctime, type |-> type, ukv |-> v, body |-> body,
           sigs |-> signers]
  BY DEF NewLink, HeadHash
<1>2. q \in Seq(Link) /\ n \in Nat /\ s.ukv \in Nat
  BY StateFields DEF SeqNo
<1>3. v \in Nat
  BY <1>2
<1>4. type \in Types /\ l.type = type /\ l.body = body
  BY <1>1 DEF SentTypes, Types
<1>5. body \in Bodies
  BY <1>4 DEF BodyOK, SentTypes, Bodies
<1> HIDE DEF v, q, n
<1>6. l \in FullLink
  BY <1>1, <1>2, <1>3, <1>4, <1>5 DEF FullLink
<1> QED  BY <1>4, <1>6 DEF LinkOK

LEMMA BoxType ==
    ASSUME NEW s \in State, s.key \in Keys, NEW E \in SUBSET Devices
    PROVE  /\ {Box(s, e) : e \in E} \in SUBSET KeyBox
           /\ \A x \in {Box(s, e) : e \in E} : x.key = s.key
<1>1. s.ukv \in Nat
  BY StateFields
<1>2. \A e \in E : Box(s, e) \in KeyBox /\ Box(s, e).key = s.key
  BY <1>1 DEF Box, KeyBox
<1> QED  BY <1>2

\* A device that runs a command is a member, and has the current key.
LEMMA RunsAsMember ==
    ASSUME IInv, NEW d \in Devices, CanRun(d)
    PROVE  /\ Idle(d) /\ d \in ActiveDevices(db.chain) /\ d \notin Revoked(db.chain)
           /\ SeqNo(db.chain) \in Nat /\ SeqNo(db.chain) # 0
           /\ db.chain.key \in EpochKeys(db.chain) /\ db.chain.key \in Keys
           /\ cl[d].pin \in Seq(Link) /\ Prefix(cl[d].pin, db.chain.links)
<1>1. Idle(d) /\ SeesChain(d) /\ db.rows[d].status = "active"
  BY DEF CanRun, SeesChain, CanCall
<1>2. d \in ActiveDevices(db.chain) /\ d \notin Revoked(db.chain)
  BY <1>1, Parts, Agree DEF RowAgrees, ActiveDevices, Revoked
<1>3. cl[d].pin \in Seq(Link)
  BY Parts, ClientFields
<1>4. Prefix(cl[d].pin, db.chain.links)
  BY <1>1, <1>3, Parts, CheckedPin DEF SeesChain
<1> QED  BY <1>1, <1>2, <1>3, <1>4, Parts, MemberKey

LEMMA OneLink ==
    ASSUME NEW l, LinkOK(l)
    PROVE  /\ <<l>> \in Seq(FullLink) /\ <<l>> # << >> /\ Len(<<l>>) = 1 /\ <<l>>[1] = l
           /\ \A n \in DOMAIN <<l>> : LinkOK(<<l>>[n])
<1>1. l \in FullLink
  BY DEF LinkOK
<1>2. DOMAIN <<l>> = {1} /\ <<l>>[1] = l /\ <<l>> \in Seq(FullLink)
  BY <1>1
<1> QED  BY <1>2

\* What SendLink needs of the body, of a link of the type.
Fits(type, body, sd) ==
    /\ type \in {"device_add", "device_rename", "agent_slot_add", "agent_slot_remove"}
    /\ type = "device_add" => body \in DeviceAddBody /\ body.name = FirstName
    /\ type = "device_rename" => body \in DeviceRenameBody
    /\ type = "agent_slot_add" => body \in AgentSlotAddBody /\ sd.key = db.chain.key
    /\ type = "agent_slot_remove" => body \in AgentSlotRemoveBody
    /\ sd \in SlotData

LEMMA OneLinkNext ==
    ASSUME NEW s \in State, NEW l, LinkOK(l),
           l.type \in {"device_add", "device_rename", "agent_slot_add", "agent_slot_remove"},
           NEW n, n = NextState(s, l)
    PROVE  /\ n \in State /\ n.links = Append(s.links, LinkRecord(l)) /\ SameKey(s, n)
           /\ LinkRecord(l) \in Link
<1>1. CASE l.type = "device_add"
  BY <1>1, DeviceAddNext, LinkFields
<1>2. CASE l.type = "device_rename"
  BY <1>2, DeviceRenameNext, LinkFields
<1>3. CASE l.type = "agent_slot_add"
  BY <1>3, SlotAddNext, LinkFields
<1>4. CASE l.type = "agent_slot_remove"
  BY <1>4, SlotRemoveNext, LinkFields
<1> QED  BY <1>1, <1>2, <1>3, <1>4

\* A command that commits one link, signed with the current user key.
LEMMA SendLinkStep ==
    ASSUME IInv, NEW d \in Devices, CanRun(d), NEW type, NEW body, NEW E \in SUBSET Devices,
           NEW sd, Fits(type, body, sd), SendLink(d, type, body, E, sd)
    PROVE  StepOK
<1> DEFINE s == db.chain
           l == NewLink(s, type, body, now, {s.key})
           n == NextState(s, l)
           boxes == {Box(n, e) : e \in E}
           then == <<Pin(n)>>
           links == <<l>>
           q == Request(d, "commit")
           r == [q EXCEPT !.links = links, !.boxes = boxes, !.slotData = sd, !.then = then]
<1>1. /\ Idle(d) /\ d \in ActiveDevices(s) /\ d \notin Revoked(s)
      /\ SeqNo(s) \in Nat /\ SeqNo(s) # 0 /\ s.key \in EpochKeys(s) /\ s.key \in Keys
      /\ cl[d].pin \in Seq(Link) /\ Prefix(cl[d].pin, s.links)
  BY RunsAsMember
<1>2. s \in State /\ now \in Nat /\ sd \in SlotData
  BY Parts DEF Fits
<1>3. Send(d, s.key, r)
  BY DEF SendLink
<1>4. l.type = type /\ l.body = body /\ l.seq = SeqNo(s) + 1
  BY NewLinkFields
<1>5. LinkOK(l)
  <2>1. BodyOK(l) /\ type \in SentTypes
    BY <1>4 DEF Fits, BodyOK, SentTypes
  <2>2. {s.key} \in SUBSET KeyOrNone
    BY <1>1 DEF KeyOrNone
  <2> QED  BY <1>2, <2>1, <2>2, NewLinkOK
<1>6. n \in State /\ n.links = Append(s.links, LinkRecord(l)) /\ SameKey(s, n) /\ LinkRecord(l) \in Link
  BY <1>2, <1>4, <1>5, OneLinkNext DEF Fits
<1> HIDE DEF l, n
<1>7. links \in Seq(FullLink) /\ links # << >> /\ Len(links) = 1 /\ links[1] = l
      /\ \A i \in DOMAIN links : LinkOK(links[i])
  BY <1>5, OneLink
<1>8. boxes \in SUBSET KeyBox /\ \A x \in boxes : x.key = s.key
  BY <1>1, <1>6, BoxType DEF SameKey
<1>9. then \in Seq(LocalStep) /\ OnePin(cl[d].pin, then) /\ Installs(then) = {}
  <2>1. Prefix(cl[d].pin, n.links)
    BY <1>1, <1>2, <1>6, PrefixGrows, StateFields
  <2> QED  BY <1>6, <2>1, LocalSteps, NoneTypes
<1> HIDE DEF links, boxes, then
<1>10. /\ r \in Requests /\ r.dev = d /\ r.kind = "commit" /\ r.links = links /\ r.boxes = boxes
       /\ r.identity = None /\ r.vault = NoVault /\ r.slotData = sd /\ r.then = then
  <2>1. /\ q \in Requests /\ q.dev = d /\ q.kind = "commit" /\ q.identity = None
        /\ q.vault = NoVault
    BY RequestIs
  <2> HIDE DEF q
  <2> QED  BY <1>2, <1>7, <1>8, <1>9, <2>1 DEF Requests
<1> HIDE DEF r
<1>11. Adds(r, s)
  BY <1>1, <1>4, <1>7, <1>8, <1>9, <1>10 DEF Adds, Fits
<1>12. RequestOK(r)
  <2>1. CommitOK(r)
    BY <1>1, <1>4, <1>7, <1>10, <1>11 DEF CommitOK
  <2> QED  BY <1>10, <2>1 DEF RequestOK
<1>13. \A p \in reqs : p.identity # None => p.identity # s.key \/ p.identity \in EpochKeys(s)
  BY <1>1
<1>14. s.key \in KeyOrNone /\ OnePin(cl[d].pin, r.then) /\ r.identity = None
  BY <1>1, <1>9, <1>10 DEF KeyOrNone
<1> HIDE DEF s
<1> QED  BY <1>1, <1>3, <1>10, <1>12, <1>13, <1>14, SendStep DEF s

LEMMA ApproveStep ==
    ASSUME IInv, NEW d \in Devices, NEW e \in Devices, Approve(d, e)
    PROVE  StepOK
<1> DEFINE body == AddBody(e, "approval", d, None)
<1>1. CanRun(d) /\ SendLink(d, "device_add", body, {e}, NoSlotData)
  BY DEF Approve
<1>2. body \in DeviceAddBody /\ body.name = FirstName
  <2>1. db.rows[e].name = FirstName
    BY Parts, Agree DEF Approve, RowAgrees
  <2> QED  BY <2>1, FirstNameIsName DEF AddBody, DeviceAddBody, Methods
<1> HIDE DEF body
<1>3. Fits("device_add", body, NoSlotData) /\ {e} \in SUBSET Devices
  BY <1>2, NoneTypes DEF Fits
<1> QED  BY <1>1, <1>3, SendLinkStep

LEMMA RenameStep ==
    ASSUME IInv, NEW d \in Devices, NEW e \in Devices, Rename(d, e)
    PROVE  StepOK
<1> PICK name \in Names :
      SendLink(d, "device_rename", [device |-> e, name |-> name], {}, NoSlotData)
  BY DEF Rename
<1> DEFINE body == [device |-> e, name |-> name]
<1>1. CanRun(d) /\ SendLink(d, "device_rename", body, {}, NoSlotData)
  BY DEF Rename
<1>2. body \in DeviceRenameBody
  BY DEF DeviceRenameBody
<1> HIDE DEF body
<1>3. Fits("device_rename", body, NoSlotData) /\ {} \in SUBSET Devices
  BY <1>2, NoneTypes DEF Fits
<1> QED  BY <1>1, <1>3, SendLinkStep

LEMMA EnableSlotStep ==
    ASSUME IInv, NEW d \in Devices, NEW i \in Slots, EnableAgentSlot(d, i)
    PROVE  StepOK
<1> PICK e \in (now + 1)..MaxTime :
      SendLink(d, "agent_slot_add", [slot |-> i, expires |-> e], {},
        [slot |-> i, expires |-> e, ukv |-> db.chain.ukv, key |-> db.chain.key])
  BY DEF EnableAgentSlot
<1> DEFINE body == [slot |-> i, expires |-> e]
           sd == [slot |-> i, expires |-> e, ukv |-> db.chain.ukv, key |-> db.chain.key]
<1>1. CanRun(d) /\ SendLink(d, "agent_slot_add", body, {}, sd)
  BY DEF EnableAgentSlot
<1>2. e \in Nat
  BY Parts, AccountAssumption
<1>3. body \in AgentSlotAddBody
  BY <1>2 DEF AgentSlotAddBody
<1>4. sd \in SlotData /\ sd.key = db.chain.key
  BY <1>2, Parts, StateFields DEF SlotData
<1> HIDE DEF body, sd
<1>5. Fits("agent_slot_add", body, sd) /\ {} \in SUBSET Devices
  BY <1>3, <1>4 DEF Fits
<1> QED  BY <1>1, <1>5, SendLinkStep

\* A request that is no commit.
LEMMA PlainStep ==
    ASSUME IInv, NEW d \in Devices, Idle(d), NEW r, RequestOK(r), r.dev = d,
           r.identity = None, r.then = << >>, Send(d, cl[d].key, r)
    PROVE  StepOK
<1>1. cl[d].key \in KeyOrNone
  BY Parts, ClientFields
<1>2. OnePin(cl[d].pin, r.then)
  BY NothingToDo
<1> QED  BY <1>1, <1>2, SendStep

LEMMA DisableSlotStep ==
    ASSUME IInv, NEW d \in Devices, NEW i \in Slots, DisableAgentSlot(d, i)
    PROVE  StepOK
<1>1. CASE SendLink(d, "agent_slot_remove", [slot |-> i], {}, NoSlotData)
  <2> DEFINE body == [slot |-> i]
  <2>1. CanRun(d) /\ SendLink(d, "agent_slot_remove", body, {}, NoSlotData)
    BY <1>1 DEF DisableAgentSlot
  <2>2. body \in AgentSlotRemoveBody
    BY DEF AgentSlotRemoveBody
  <2> HIDE DEF body
  <2>3. Fits("agent_slot_remove", body, NoSlotData) /\ {} \in SUBSET Devices
    BY <2>2, NoneTypes DEF Fits
  <2> QED  BY <2>1, <2>3, SendLinkStep
<1>2. CASE Send(d, cl[d].key,
             [Request(d, "slot_off") EXCEPT !.slotData = [NoSlotData EXCEPT !.slot = i]])
  <2> DEFINE q == Request(d, "slot_off")
             sd == [NoSlotData EXCEPT !.slot = i]
             r == [q EXCEPT !.slotData = sd]
  <2>1. Send(d, cl[d].key, r)
    BY <1>2
  <2>2. q \in Requests /\ q.dev = d /\ q.kind = "slot_off" /\ q.identity = None /\ q.then = << >>
    BY RequestIs
  <2>3. sd \in SlotData /\ sd.slot = i
    BY NoneTypes DEF SlotData
  <2> HIDE DEF q, sd
  <2>4. /\ r \in Requests /\ r.dev = d /\ r.kind = "slot_off" /\ r.identity = None
        /\ r.then = q.then /\ r.slotData = sd
    BY <2>2, <2>3 DEF Requests
  <2> HIDE DEF r
  <2>5. RequestOK(r)
    BY <2>2, <2>3, <2>4 DEF RequestOK
  <2>6. Idle(d)
    BY DEF DisableAgentSlot, CanRun
  <2> QED  BY <2>1, <2>2, <2>4, <2>5, <2>6, PlainStep
<1> QED  BY <1>1, <1>2 DEF DisableAgentSlot

LEMMA SuspendCommandStep ==
    ASSUME IInv, NEW d \in Devices, NEW e \in Devices, Suspend(d, e)
    PROVE  StepOK
<1> DEFINE q == Request(d, "suspend")
           r == [q EXCEPT !.target = e]
<1>1. Send(d, cl[d].key, r) /\ Idle(d)
  BY DEF Suspend
<1>2. q \in Requests /\ q.dev = d /\ q.kind = "suspend" /\ q.identity = None /\ q.then = << >>
  BY RequestIs
<1> HIDE DEF q
<1>3. /\ r \in Requests /\ r.dev = d /\ r.kind = "suspend" /\ r.identity = None
      /\ r.then = q.then /\ r.target = e
  BY <1>2 DEF Requests
<1> HIDE DEF r
<1>4. RequestOK(r)
  BY <1>2, <1>3 DEF RequestOK
<1> QED  BY <1>1, <1>2, <1>3, <1>4, PlainStep

LEMMA LogoutStep ==
    ASSUME IInv, NEW d \in Devices, Logout(d)
    PROVE  StepOK
<1> DEFINE r == Request(d, "logout")
<1>1. Send(d, cl[d].key, r) /\ Idle(d)
  BY DEF Logout
<1>2. r \in Requests /\ r.dev = d /\ r.kind = "logout" /\ r.identity = None /\ r.then = << >>
  BY RequestIs
<1> HIDE DEF r
<1>3. RequestOK(r)
  BY <1>2 DEF RequestOK
<1> QED  BY <1>1, <1>2, <1>3, PlainStep

LEMMA SyncPushStep ==
    ASSUME IInv, NEW d \in Devices, SyncPush(d)
    PROVE  StepOK
<1> DEFINE k == db.chain.key
           q == Request(d, "vault_put")
           v == [ifMatch |-> db.vault.version, key |-> k]
           r == [q EXCEPT !.vault = v]
<1>1. Send(d, k, r) /\ CanRun(d)
  BY DEF SyncPush
<1>2. Idle(d) /\ d \in ActiveDevices(db.chain) /\ d \notin Revoked(db.chain)
      /\ k \in EpochKeys(db.chain) /\ k \in Keys
  BY <1>1, RunsAsMember
<1>3. /\ q \in Requests /\ q.dev = d /\ q.kind = "vault_put" /\ q.identity = None /\ q.then = << >>
  BY RequestIs
<1>4. v \in [ifMatch: Nat, key: KeyOrNone] /\ v.key = k
  BY <1>2, Parts, DatabaseFields DEF KeyOrNone
<1> HIDE DEF q, v
<1>5. /\ r \in Requests /\ r.dev = d /\ r.kind = "vault_put" /\ r.identity = None
      /\ r.then = q.then /\ r.vault = v
  BY <1>3, <1>4 DEF Requests
<1> HIDE DEF r
<1>6. RequestOK(r)
  <2>1. PushOK(r)
    BY <1>2, <1>4, <1>5 DEF PushOK
  <2> QED  BY <1>3, <1>5, <2>1 DEF RequestOK
<1>7. OnePin(cl[d].pin, r.then)
  BY <1>3, <1>5, NothingToDo
<1>8. \A p \in reqs : p.identity # None => p.identity # k \/ p.identity \in EpochKeys(db.chain)
  BY <1>2
<1>9. k \in KeyOrNone
  BY <1>2 DEF KeyOrNone
<1> HIDE DEF k
<1> QED  BY <1>1, <1>2, <1>5, <1>6, <1>7, <1>8, <1>9, SendStep

LEMMA OneBox ==
    ASSUME NEW s \in State, s.key \in Keys, NEW d \in Devices
    PROVE  {Box(s, d)} \in SUBSET KeyBox /\ \A x \in {Box(s, d)} : x.key = s.key
<1>1. s.ukv \in Nat
  BY StateFields
<1> QED  BY <1>1 DEF Box, KeyBox

\* A device that waits adds itself, with the current key from the phrase or a
\* slot; it installs that key once it is a member.
LEMMA SelfAddStep ==
    ASSUME IInv, NEW d \in Devices, NEW method \in {"recovery", "ssh_agent"},
           NEW slot \in Slots \cup {None}, SelfAdd(d, method, slot)
    PROVE  StepOK
<1> DEFINE s == db.chain
           body == AddBody(d, method, None, slot)
           l == NewLink(s, "device_add", body, now, {s.key})
           n == NextState(s, l)
           boxes == {Box(n, d)}
           then == <<Install(n.key), Pin(n)>>
           links == <<l>>
           q == Request(d, "commit")
           r == [q EXCEPT !.links = links, !.boxes = boxes, !.then = then]
<1>1. Send(d, cl[d].key, r) /\ Idle(d) /\ SeqNo(s) > 0 /\ CheckPin(s, cl[d].pin)
      /\ db.rows[d].status = "pending"
  BY DEF SelfAdd
<1>2. s \in State /\ now \in Nat /\ cl[d].pin \in Seq(Link) /\ SeqNo(s) \in Nat
  BY Parts, ClientFields, StateFields DEF SeqNo
<1>3. s.key \in EpochKeys(s) /\ s.key \in Keys
  BY <1>1, <1>2, Parts, MemberKey
<1>4. Prefix(cl[d].pin, s.links)
  BY <1>1, <1>2, CheckedPin
<1>5. body \in DeviceAddBody /\ body.name = FirstName /\ body.device = d
  <2>1. db.rows[d].name = FirstName
    BY <1>1, Parts, Agree DEF RowAgrees
  <2> QED  BY <2>1, FirstNameIsName DEF AddBody, DeviceAddBody, Methods
<1> HIDE DEF body
<1>6. l.type = "device_add" /\ l.body = body /\ l.seq = SeqNo(s) + 1
  BY NewLinkFields
<1>7. LinkOK(l)
  <2>1. BodyOK(l) /\ "device_add" \in SentTypes
    BY <1>5, <1>6 DEF BodyOK, SentTypes
  <2>2. {s.key} \in SUBSET KeyOrNone
    BY <1>3 DEF KeyOrNone
  <2> QED  BY <1>2, <2>1, <2>2, NewLinkOK
<1>8. n \in State /\ n.links = Append(s.links, LinkRecord(l)) /\ SameKey(s, n) /\ LinkRecord(l) \in Link
  BY <1>2, <1>6, <1>7, OneLinkNext
<1> HIDE DEF l, n
<1>9. links \in Seq(FullLink) /\ links # << >> /\ Len(links) = 1 /\ links[1] = l
      /\ \A i \in DOMAIN links : LinkOK(links[i])
  BY <1>7, OneLink
<1>10. n.key = s.key
  BY <1>8 DEF SameKey
<1>11. boxes \in SUBSET KeyBox /\ \A x \in boxes : x.key = s.key
  BY <1>3, <1>8, <1>10, OneBox
<1>12. then \in Seq(LocalStep) /\ OnePin(cl[d].pin, then) /\ Installs(then) = {s.key}
  <2>1. Prefix(cl[d].pin, n.links)
    BY <1>2, <1>4, <1>8, PrefixGrows, StateFields
  <2>2. n.key \in KeyOrNone
    BY <1>3, <1>10 DEF KeyOrNone
  <2> QED  BY <1>8, <1>10, <2>1, <2>2, LocalSteps
<1> HIDE DEF links, boxes, then
<1>13. /\ r \in Requests /\ r.dev = d /\ r.kind = "commit" /\ r.links = links /\ r.boxes = boxes
       /\ r.identity = None /\ r.vault = NoVault /\ r.then = then
  <2>1. /\ q \in Requests /\ q.dev = d /\ q.kind = "commit" /\ q.identity = None
        /\ q.vault = NoVault
    BY RequestIs
  <2> HIDE DEF q
  <2> QED  BY <1>2, <1>9, <1>11, <1>12, <2>1 DEF Requests
<1> HIDE DEF r
<1>14. Adds(r, s)
  BY <1>1, <1>5, <1>6, <1>9, <1>11, <1>12, <1>13 DEF Adds
<1>15. RequestOK(r)
  <2>1. CommitOK(r)
    BY <1>2, <1>6, <1>9, <1>13, <1>14 DEF CommitOK
  <2> QED  BY <1>13, <2>1 DEF RequestOK
<1>16. cl[d].key \in KeyOrNone /\ OnePin(cl[d].pin, r.then)
  BY <1>12, <1>13, Parts, ClientFields
<1> HIDE DEF s
<1> QED  BY <1>1, <1>13, <1>15, <1>16, SendStep

-----------------------------------------------------------------------------
(* Requests with a new key.                                                *)

LEMMA FreshKey ==
    ASSUME IInv, NEW k \in FreshKeys
    PROVE  /\ k \in Keys /\ k # None
           /\ k \notin EpochKeys(db.chain)
           /\ \A d \in Devices : k \notin KeysOf(d)
           /\ \A q \in reqs : q.identity # k
<1>1. k \in Keys /\ k # None
  BY NoneIsNoKey DEF FreshKeys
<1>2. k \notin EpochKeys(db.chain)
  BY DEF FreshKeys, EpochKeys
<1>3. \A q \in reqs : q.identity # k
  BY DEF FreshKeys
<1>4. ASSUME NEW d \in Devices
      PROVE  k \notin KeysOf(d)
  <2>1. k # cl[d].key
    BY DEF FreshKeys
  <2>2. k \notin {cl[d].todo[i].key : i \in DOMAIN cl[d].todo}
    BY DEF FreshKeys
  <2> QED  BY <2>1, <2>2 DEF KeysOf, Installs
<1> QED  BY <1>1, <1>2, <1>3, <1>4

\* Link l renews the user key after the chain x, to k, and keeps its members.
RotatesTo(l, x, k) ==
    /\ LinkOK(l) /\ l.type = "ukey_rotate" /\ l.ukv = x.ukv + 1
    /\ l.body.key = k /\ l.body.keep = ActiveDevices(x)

LEMMA NewRotateLink ==
    ASSUME NEW x \in State, NEW k \in Keys, NEW old \in Keys, NEW ctime \in Nat,
           NEW l, l = NewLink(x, "ukey_rotate", [key |-> k, keep |-> ActiveDevices(x)], ctime,
                              {old, k})
    PROVE  RotatesTo(l, x, k) /\ l.seq = SeqNo(x) + 1
<1> DEFINE keep == ActiveDevices(x)
           body == [key |-> k, keep |-> keep]
<1>1. body \in UKeyRotateBody /\ body.key = k /\ body.keep = keep
  <2>1. keep \in SUBSET Devices
    BY DEF ActiveDevices
  <2> HIDE DEF keep
  <2> QED  BY <2>1 DEF UKeyRotateBody
<1> HIDE DEF body
<1>2. l = NewLink(x, "ukey_rotate", body, ctime, {old, k})
  BY DEF body
<1>3. l.type = "ukey_rotate" /\ l.body = body /\ l.seq = SeqNo(x) + 1
  BY <1>2, NewLinkFields
<1>4. l.ukv = x.ukv + 1
  BY <1>2 DEF NewLink
<1>5. BodyOK(l) /\ "ukey_rotate" \in SentTypes
  BY <1>1, <1>3 DEF BodyOK, SentTypes
<1>6. {old, k} \in SUBSET KeyOrNone
  BY DEF KeyOrNone
<1>7. LinkOK(l)
  BY <1>2, <1>5, <1>6, NewLinkOK
<1> QED  BY <1>1, <1>3, <1>4, <1>7 DEF RotatesTo

\* The links of a commit that ends with the rotation l.
RotateLinks(links, l, d) ==
    /\ links \in Seq(FullLink) /\ Len(links) \in {1, 2} /\ links[Len(links)] = l
    /\ \A i \in DOMAIN links : LinkOK(links[i])
    /\ links[1].seq = SeqNo(db.chain) + 1
    /\ Len(links) = 2 => links[1].type = "device_revoke" /\ links[1].body.device # d

\* The request of a rotation to k, after which the chain is n.
RotateRequest(d, k, n, links) ==
    [Request(d, "commit") EXCEPT
       !.links = links,
       !.boxes = {Box(n, e) : e \in ActiveDevices(n)},
       !.identity = k,
       !.vault = [ifMatch |-> db.vault.version, key |-> k],
       !.then = <<Pin(n), Install(k)>>]

\* A command that rotates the user key, after the chain x.
LEMMA RotateSendStep ==
    ASSUME IInv, NEW d \in Devices, CanRun(d), NEW k \in FreshKeys,
           NEW x \in State, d \in ActiveDevices(x), Prefix(cl[d].pin, x.links),
           NEW l, RotatesTo(l, x, k), NEW n, n = NextState(x, l),
           NEW links, RotateLinks(links, l, d),
           Send(d, db.chain.key, RotateRequest(d, k, n, links))
    PROVE  StepOK
<1> DEFINE s == db.chain
           boxes == {Box(n, e) : e \in ActiveDevices(n)}
           v == [ifMatch |-> db.vault.version, key |-> k]
           then == <<Pin(n), Install(k)>>
           q == Request(d, "commit")
           r == [q EXCEPT !.links = links, !.boxes = boxes, !.identity = k, !.vault = v,
                          !.then = then]
<1>1. /\ Idle(d) /\ d \in ActiveDevices(s) /\ d \notin Revoked(s)
      /\ SeqNo(s) \in Nat /\ SeqNo(s) # 0 /\ s.key \in EpochKeys(s) /\ s.key \in Keys
      /\ cl[d].pin \in Seq(Link)
  BY RunsAsMember
<1>2. Send(d, s.key, r)
  BY DEF RotateRequest
<1>3. /\ k \in Keys /\ k # None /\ k \in KeyOrNone /\ k \notin EpochKeys(s)
      /\ \A c \in Devices : k \notin KeysOf(c)
      /\ \A p \in reqs : p.identity # k
  BY FreshKey DEF KeyOrNone
<1>4. s \in State /\ now \in Nat /\ db.vault.version \in Nat
  BY Parts, DatabaseFields
<1>5. /\ LinkOK(l) /\ l.type = "ukey_rotate" /\ l.body.key = k /\ l.body.keep = ActiveDevices(x)
      /\ l.ukv = x.ukv + 1
  BY DEF RotatesTo
<1>6. n \in State /\ n.links = Append(x.links, LinkRecord(l)) /\ n.key = k
  <2>1. n \in State /\ n.links = Append(x.links, LinkRecord(l)) /\ NewKey(x, n, l.body.key)
    BY <1>5, RotateNext
  <2> QED  BY <1>5, <2>1 DEF NewKey
<1>7. LinkRecord(l) \in Link
  BY <1>5, LinkFields
<1>8. boxes \in SUBSET KeyBox /\ \A y \in boxes : y.key = k
  <2>1. ActiveDevices(n) \in SUBSET Devices
    BY DEF ActiveDevices
  <2> QED  BY <1>3, <1>6, <2>1, BoxType
<1>9. then \in Seq(LocalStep) /\ OnePin(cl[d].pin, then) /\ Installs(then) = {k}
  <2>1. x.links \in Seq(Link)
    BY StateFields
  <2>2. Prefix(cl[d].pin, Append(x.links, LinkRecord(l)))
    BY <1>1, <1>7, <2>1, PrefixGrows
  <2>3. Prefix(cl[d].pin, n.links)
    BY <1>6, <2>2
  <2> QED  BY <1>3, <1>6, <2>3, LocalSteps
<1>10. v \in [ifMatch: Nat, key: KeyOrNone] /\ v # NoVault
  BY <1>3, <1>4 DEF NoVault
<1> HIDE DEF boxes, then, v
<1>11. /\ r \in Requests /\ r.dev = d /\ r.kind = "commit" /\ r.links = links /\ r.boxes = boxes
       /\ r.identity = k /\ r.vault = v /\ r.then = then
  <2>1. q \in Requests /\ q.dev = d /\ q.kind = "commit"
    BY RequestIs
  <2>2. links \in Seq(FullLink)
    BY DEF RotateLinks
  <2> HIDE DEF q
  <2> QED  BY <1>3, <1>8, <1>9, <1>10, <2>1, <2>2 DEF Requests
<1> HIDE DEF r
<1>12. Rotates(r, s)
  BY <1>1, <1>5, <1>8, <1>9, <1>10, <1>11 DEF Rotates, RotateLinks
<1>13. RequestOK(r)
  <2>1. OwnKey(r)
    BY <1>3, <1>11 DEF OwnKey
  <2>2. links # << >>
    BY DEF RotateLinks
  <2>3. CommitOK(r)
    BY <1>1, <1>11, <1>12, <2>1, <2>2 DEF CommitOK, RotateLinks
  <2> QED  BY <1>11, <2>3 DEF RequestOK
<1>14. \A p \in reqs : p.identity # None => p.identity # s.key \/ p.identity \in EpochKeys(s)
  BY <1>1
<1>15. /\ s.key \in KeyOrNone /\ OnePin(cl[d].pin, r.then) /\ r.identity # s.key
       /\ \A p \in reqs : p.identity # r.identity
  BY <1>1, <1>3, <1>9, <1>11 DEF KeyOrNone
<1> HIDE DEF s
<1> QED  BY <1>1, <1>2, <1>11, <1>13, <1>14, <1>15, SendStep DEF s

LEMMA RotateUserKeyStep ==
    ASSUME IInv, NEW d \in Devices, RotateUserKey(d)
    PROVE  StepOK
<1> DEFINE x == db.chain
           body(k) == [key |-> k, keep |-> ActiveDevices(x)]
           l(k) == NewLink(x, "ukey_rotate", body(k), now, {db.chain.key, k})
           n(k) == NextState(x, l(k))
           prefix == << >>
<1>1. PICK k \in FreshKeys :
        Send(d, db.chain.key, RotateRequest(d, k, n(k), Append(prefix, l(k))))
  BY DEF RotateUserKey, RotateAfter, RotateRequest
<1>2. CanRun(d)
  BY DEF RotateUserKey
<1>3. /\ d \in ActiveDevices(x) /\ Prefix(cl[d].pin, x.links) /\ x.key \in Keys
  BY <1>2, RunsAsMember
<1>4. x \in State /\ now \in Nat
  BY Parts
<1>5. RotatesTo(l(k), x, k) /\ l(k).seq = SeqNo(x) + 1
  <2>1. k \in Keys
    BY FreshKey
  <2> QED  BY <1>3, <1>4, <2>1, NewRotateLink
<1> DEFINE a == l(k)
           m == n(k)
           links == Append(prefix, a)
<1>6. m = NextState(x, a) /\ Send(d, db.chain.key, RotateRequest(d, k, m, links))
  BY <1>1
<1>7. RotatesTo(a, x, k) /\ LinkOK(a) /\ a.seq = SeqNo(db.chain) + 1
  BY <1>5 DEF RotatesTo
<1> HIDE DEF l, n, a, m
<1>8. links = <<a>>
  OBVIOUS
<1> HIDE DEF links
<1>9. RotateLinks(links, a, d)
  BY <1>7, <1>8, OneLink DEF RotateLinks
<1> HIDE DEF x
<1> QED  BY <1>2, <1>3, <1>4, <1>6, <1>7, <1>9, RotateSendStep

LEMMA TwoLinksAre ==
    ASSUME NEW a, LinkOK(a), NEW b, LinkOK(b)
    PROVE  /\ Append(<<a>>, b) = <<a, b>> /\ <<a, b>> \in Seq(FullLink) /\ Len(<<a, b>>) = 2
           /\ <<a, b>>[1] = a /\ <<a, b>>[2] = b
           /\ \A i \in DOMAIN <<a, b>> : LinkOK(<<a, b>>[i])
<1>1. a \in FullLink /\ b \in FullLink
  BY DEF LinkOK
<1>2. /\ <<a, b>> \in Seq(FullLink) /\ DOMAIN <<a, b>> = {1, 2}
      /\ <<a, b>>[1] = a /\ <<a, b>>[2] = b
  BY <1>1
<1>3. Append(<<a>>, b) = <<a, b>>
  <2> DEFINE p == <<a>>
             q == Append(p, b)
             o == <<a, b>>
  <2>0. p \in Seq(FullLink)
    BY <1>1
  <2>1. Len(p) = 1 /\ p[1] = a
    BY <1>1
  <2> HIDE DEF p
  <2>2. q \in Seq(FullLink) /\ Len(q) = 2 /\ q[1] = a /\ q[2] = b
    <3>1. q \in Seq(FullLink) /\ Len(q) = Len(p) + 1 /\ q[Len(p) + 1] = b
      BY <1>1, <2>0
    <3>2. \A i \in 1..Len(p) : q[i] = p[i]
      BY <1>1, <2>0
    <3> HIDE DEF q
    <3> QED  BY <2>1, <3>1, <3>2
  <2>3. o \in Seq(FullLink) /\ Len(o) = 2 /\ o[1] = a /\ o[2] = b
    BY <1>2
  <2> HIDE DEF q, o
  <2>4. q = o
    BY <2>2, <2>3
  <2> QED  BY <2>4 DEF p, q, o
<1> DEFINE t == <<a, b>>
<1> HIDE DEF t
<1>4. \A i \in DOMAIN t : LinkOK(t[i])
  <2>1. DOMAIN t = {1, 2} /\ t[1] = a /\ t[2] = b
    BY <1>2 DEF t
  <2> QED  BY <2>1
<1>5. Len(<<a, b>>) = 2
  OBVIOUS
<1> QED  BY <1>2, <1>3, <1>4, <1>5 DEF t

LEMMA RevokeStep ==
    ASSUME IInv, NEW d \in Devices, NEW c \in Devices, Revoke(d, c)
    PROVE  StepOK
<1> DEFINE s == db.chain
           l1 == NewLink(s, "device_revoke", [device |-> c], now, {s.key})
           x == NextState(s, l1)
           body(k) == [key |-> k, keep |-> ActiveDevices(x)]
           l(k) == NewLink(x, "ukey_rotate", body(k), now, {db.chain.key, k})
           n(k) == NextState(x, l(k))
           prefix == <<l1>>
<1>1. PICK k \in FreshKeys :
        Send(d, db.chain.key, RotateRequest(d, k, n(k), Append(prefix, l(k))))
  BY DEF Revoke, RotateAfter, RotateRequest
<1>2. CanRun(d) /\ c # d /\ ValidNext(s, l1)
  BY DEF Revoke
<1>3. /\ d \in ActiveDevices(s) /\ Prefix(cl[d].pin, s.links) /\ s.key \in Keys
      /\ cl[d].pin \in Seq(Link)
  BY <1>2, RunsAsMember
<1>4. s \in State /\ now \in Nat
  BY Parts
<1>5. LinkOK(l1) /\ l1.type = "device_revoke" /\ l1.body.device = c /\ l1.seq = SeqNo(s) + 1
  <2> DEFINE body1 == [device |-> c]
  <2>1. body1 \in DeviceRevokeBody /\ body1.device = c
    BY DEF DeviceRevokeBody
  <2> HIDE DEF body1
  <2>2. l1 = NewLink(s, "device_revoke", body1, now, {s.key})
    BY DEF body1
  <2> HIDE DEF l1
  <2>3. l1.type = "device_revoke" /\ l1.body = body1 /\ l1.seq = SeqNo(s) + 1
    BY <2>2, NewLinkFields
  <2>4. BodyOK(l1) /\ "device_revoke" \in SentTypes
    BY <2>1, <2>3 DEF BodyOK, SentTypes
  <2>5. {s.key} \in SUBSET KeyOrNone
    BY <1>3 DEF KeyOrNone
  <2>6. LinkOK(l1)
    BY <1>4, <2>2, <2>4, <2>5, NewLinkOK
  <2> QED  BY <2>1, <2>3, <2>6
<1>6. /\ x \in State /\ x.links = Append(s.links, LinkRecord(l1))
      /\ ActiveDevices(x) = ActiveDevices(s) \ {c}
  <2>1. x = NextState(s, l1)
    OBVIOUS
  <2> HIDE DEF x, l1, s
  <2> QED  BY <1>2, <1>4, <1>5, <2>1, RevokedLink
<1>7. d \in ActiveDevices(x) /\ Prefix(cl[d].pin, x.links)
  <2> HIDE DEF x, l1, s
  <2>1. LinkRecord(l1) \in Link
    BY <1>5, LinkFields
  <2> QED  BY <1>2, <1>3, <1>4, <1>6, <2>1, PrefixGrows, StateFields
<1> DEFINE a == l(k)
           m == n(k)
           links == Append(prefix, a)
<1>8. /\ a = NewLink(x, "ukey_rotate", [key |-> k, keep |-> ActiveDevices(x)], now, {db.chain.key, k})
      /\ m = NextState(x, a)
      /\ Send(d, db.chain.key, RotateRequest(d, k, m, links))
  BY <1>1
<1> HIDE DEF l, n, a, m, x, l1
<1>9. RotatesTo(a, x, k) /\ LinkOK(a)
  <2>1. k \in Keys
    BY FreshKey
  <2>2. RotatesTo(a, x, k)
    BY <1>3, <1>4, <1>6, <1>8, <2>1, NewRotateLink
  <2> QED  BY <2>2 DEF RotatesTo
<1>10. RotateLinks(links, a, d)
  <2>1. links = <<l1, a>>
    BY <1>5, <1>9, TwoLinksAre
  <2> HIDE DEF links
  <2> QED  BY <1>2, <1>5, <1>9, <2>1, TwoLinksAre DEF RotateLinks
<1> HIDE DEF links, s
<1> QED  BY <1>2, <1>6, <1>7, <1>8, <1>9, <1>10, RotateSendStep

\* createAccount: the new key is in the request and on the device, and the
\* chain that it was built on is empty.
LEMMA CreateAccountStep ==
    ASSUME IInv, NEW d \in Devices, CreateAccount(d)
    PROVE  StepOK
<1> DEFINE b1(k) == [key |-> k, rootSig |-> k]
           l1(k) == NewLink(New, "init", b1(k), now, {k})
           n1(k) == NextState(New, l1(k))
           b2 == AddBody(d, "first", None, None)
           l2(k) == NewLink(n1(k), "device_add", b2, now, {k})
           n2(k) == NextState(n1(k), l2(k))
           v(k) == [ifMatch |-> 0, key |-> k]
           q == Request(d, "commit")
           r(k) == [q EXCEPT !.links = <<l1(k), l2(k)>>, !.boxes = {Box(n2(k), d)}, !.identity = k,
                             !.vault = v(k), !.then = <<Pin(n2(k))>>]
<1>1. PICK k \in FreshKeys : Send(d, k, r(k))
  BY DEF CreateAccount
<1>2. Idle(d) /\ db.rows[d].status = "pending" /\ SeqNo(db.chain) = 0 /\ cl[d].pin = << >>
  BY DEF CreateAccount
<1>3. /\ k \in Keys /\ k # None /\ k \in KeyOrNone
      /\ \A p \in reqs : p.identity # k
  BY FreshKey DEF KeyOrNone
<1>4. db.chain = New /\ New \in State /\ now \in Nat
  BY <1>2, Parts DEF DatabaseOK, Tables
<1>5. New.epochs = << >> /\ New.links = << >> /\ SeqNo(New) = 0 /\ Revoked(New) = {}
  BY DEF New, SeqNo, Revoked
<1> DEFINE body1 == b1(k)
           a == l1(k)
           s1 == n1(k)
           b == l2(k)
           s2 == n2(k)
           w == v(k)
           links == <<a, b>>
           boxes == {Box(s2, d)}
           then == <<Pin(s2)>>
           o == [q EXCEPT !.links = links, !.boxes = boxes, !.identity = k, !.vault = w,
                          !.then = then]
<1>6. /\ a = NewLink(New, "init", body1, now, {k}) /\ s1 = NextState(New, a)
      /\ b = NewLink(s1, "device_add", b2, now, {k}) /\ s2 = NextState(s1, b)
  OBVIOUS
<1>7. Send(d, k, o)
  BY <1>1
<1>8. body1 \in InitBody /\ body1.key = k /\ {k} \in SUBSET KeyOrNone
  BY <1>3 DEF InitBody
<1>9. b2 \in DeviceAddBody /\ b2.name = FirstName /\ b2.device = d
  <2>1. db.rows[d].name = FirstName
    BY <1>2, Parts, Agree DEF RowAgrees
  <2> QED  BY <2>1, FirstNameIsName DEF AddBody, DeviceAddBody, Methods
<1>10. w \in [ifMatch: Nat, key: KeyOrNone] /\ w # NoVault
  BY <1>3 DEF NoVault
<1> HIDE DEF b1, l1, n1, b2, l2, n2, v, body1, a, s1, b, s2, w
<1>11. a.type = "init" /\ a.body = body1 /\ a.seq = 1
  BY <1>5, <1>6, NewLinkFields
<1>12. LinkOK(a)
  <2>1. BodyOK(a) /\ "init" \in SentTypes
    BY <1>8, <1>11 DEF BodyOK, SentTypes
  <2> QED  BY <1>4, <1>6, <1>8, <2>1, NewLinkOK
<1>13. s1 \in State /\ s1.key = k
  <2>1. New \in State /\ s1 = NextState(New, a) /\ a.type = "init"
    BY <1>4, <1>6, <1>11
  <2>2. s1 \in State /\ Renewed(New, s1, a.body.key)
    BY <1>12, <2>1, InitLink
  <2>3. a.body.key = k
    BY <1>8, <1>11
  <2> QED  BY <2>2, <2>3 DEF Renewed, NewKey
<1>14. b.type = "device_add" /\ b.body = b2
  BY <1>6, NewLinkFields
<1>15. LinkOK(b)
  <2>1. BodyOK(b) /\ "device_add" \in SentTypes
    BY <1>9, <1>14 DEF BodyOK, SentTypes
  <2> QED  BY <1>4, <1>6, <1>8, <1>13, <2>1, NewLinkOK
<1>16. s2 \in State /\ s2.key = k
  BY <1>6, <1>13, <1>14, <1>15, OneLinkNext DEF SameKey
<1>17. links \in Seq(FullLink) /\ links # << >> /\ Len(links) = 2
       /\ links[1] = a /\ links[2] = b /\ \A i \in DOMAIN links : LinkOK(links[i])
  <2>1. links # << >>
    OBVIOUS
  <2> QED  BY <1>12, <1>15, <2>1, TwoLinksAre
<1>18. boxes \in SUBSET KeyBox /\ \A y \in boxes : y.key = k
  BY <1>3, <1>16, OneBox
<1>19. then \in Seq(LocalStep) /\ OnePin(cl[d].pin, then) /\ Installs(then) = {}
  <2>1. Prefix(<< >>, s2.links)
    BY <1>16, StateFields DEF Prefix
  <2> QED  BY <1>2, <1>16, <2>1, LocalSteps, NoneTypes
<1> HIDE DEF links, boxes, then
<1>20. /\ o \in Requests /\ o.dev = d /\ o.kind = "commit" /\ o.links = links /\ o.boxes = boxes
       /\ o.identity = k /\ o.vault = w /\ o.then = then
  <2>1. q \in Requests /\ q.dev = d /\ q.kind = "commit"
    BY RequestIs
  <2> HIDE DEF q
  <2> QED  BY <1>3, <1>10, <1>17, <1>18, <1>19, <2>1 DEF Requests
<1> HIDE DEF o
<1>21. Creates(o, db.chain)
  BY <1>8, <1>9, <1>10, <1>11, <1>14, <1>17, <1>18, <1>19, <1>20 DEF Creates
<1>22. RequestOK(o)
  <2>1. CommitOK(o)
    BY <1>2, <1>11, <1>17, <1>20, <1>21 DEF CommitOK
  <2> QED  BY <1>20, <2>1 DEF RequestOK
<1>23. d \notin Revoked(db.chain)
  BY <1>4, <1>5
<1>24. OnePin(cl[d].pin, o.then) /\ o.links[1].type = "init" /\ o.identity = k
  BY <1>11, <1>17, <1>19, <1>20
<1> QED  BY <1>2, <1>3, <1>7, <1>20, <1>22, <1>23, <1>24, SendStep

-----------------------------------------------------------------------------
(* The invariant, of every behaviour.                                      *)

LEMMA EmptyOK == DatabaseOK(EmptyDB) /\ EmptyDB.chain = New /\ Revoked(New) = {}
<1> DEFINE s == New
           rows == [d \in Devices |-> [status |-> "none", until |-> 0, name |-> None]]
           v == [version |-> 0, key |-> None]
           slots == [i \in Slots |-> NoSlotRow]
           b == EmptyDB
<1>1. s \in State
  <2> DEFINE none == << >>
             ds == [d \in Devices |->
                      [status |-> "absent", name |-> None, method |-> None, approvedBy |-> None,
                       slot |-> None, addedSeq |-> 0, revokedSeq |-> 0]]
             ss == [i \in Slots |-> [status |-> "absent", expires |-> 0, ukv |-> 0]]
             gs == [i \in Delegates |-> [status |-> "absent", addedSeq |-> 0, removedSeq |-> 0]]
             ks == [i \in SecurityKeys |-> [status |-> "absent", addedSeq |-> 0, removedSeq |-> 0]]
  <2>1. none \in Seq(Link) /\ none \in Seq(KeyEpoch)
    OBVIOUS
  <2>2. ds \in [Devices -> DeviceState]
    BY DEF DeviceState
  <2>3. ss \in [Slots -> SlotState]
    BY DEF SlotState
  <2>4. gs \in [Delegates -> DelegateState] /\ ks \in [SecurityKeys -> DelegateState]
    BY DEF DelegateState
  <2>5. s = [links |-> none, lastTime |-> 0, ukv |-> 0, key |-> None, epochs |-> none,
             devices |-> ds, slots |-> ss, delegates |-> gs, securityKeys |-> ks]
    BY DEF New
  <2> HIDE DEF none, ds, ss, gs, ks, s
  <2> QED  BY <2>1, <2>2, <2>3, <2>4, <2>5 DEF State
<1>2. SeqNo(s) = 0 /\ \A d \in Devices : s.devices[d].status = "absent"
  BY DEF New, SeqNo
<1>3. rows \in [Devices -> Row] /\ \A d \in Devices : rows[d].status = "none"
  BY DEF Row
<1>4. slots \in [Slots -> SlotRow] /\ \A i \in Slots : slots[i].status = "none"
  BY DEF SlotRow, NoSlotRow, KeyOrNone
<1>5. v \in [version: Nat, key: KeyOrNone]
  BY DEF KeyOrNone
<1>6. b = [chain |-> s, rows |-> rows, sessions |-> {}, boxes |-> {}, identity |-> None,
           vault |-> v, slots |-> slots]
  BY DEF EmptyDB
<1> HIDE DEF s, rows, v, slots, b
<1>7. /\ b \in Database /\ b.chain = s /\ b.rows = rows /\ b.sessions = {} /\ b.boxes = {}
      /\ b.slots = slots
  BY <1>1, <1>3, <1>4, <1>5, <1>6, NoneTypes DEF Database
<1>8. Tables(b)
  BY <1>2, <1>3, <1>4, <1>7 DEF Tables, RowAgrees, SlotAgrees, s
<1>9. BoxesOK(b) /\ Stored(b)
  BY <1>2, <1>7 DEF BoxesOK, Stored
<1>10. Revoked(s) = {}
  BY <1>2 DEF Revoked
<1> QED  BY <1>7, <1>8, <1>9, <1>10 DEF DatabaseOK, b, s

LEMMA InitOK == Init => IInv /\ restores \in Nat
<1> SUFFICES ASSUME Init
             PROVE  IInv /\ restores \in Nat
  OBVIOUS
<1>1. db = EmptyDB /\ replica = EmptyDB /\ reqs = {} /\ now = 1 /\ restores = 0
      /\ wrote = [dev |-> None, member |-> TRUE]
  BY DEF Init
<1>2. DatabaseOK(db) /\ DatabaseOK(replica) /\ Revoked(db.chain) = {} /\ Revoked(replica.chain) = {}
  BY <1>1, EmptyOK
<1> DEFINE none == << >>
           c == [pin |-> none, key |-> None, todo |-> none]
<1>3. none \in Seq(Link) /\ none \in Seq(LocalStep) /\ none = << >>
  OBVIOUS
<1>4. cl = [d \in Devices |-> c]
  BY DEF Init
<1> HIDE DEF none
<1>5. c \in Client /\ c.todo = none
  BY <1>3, NoneTypes DEF Client
<1> HIDE DEF c
<1>6. cl \in [Devices -> Client] /\ \A d \in Devices : cl[d].todo = << >>
  BY <1>3, <1>4, <1>5
<1>7. PinsOK
  BY <1>1, <1>6, NothingToDo DEF PinsOK
<1>8. RevokedWithout(db) /\ RevokedWithout(replica)
  BY <1>2 DEF RevokedWithout
<1>9. wrote.member
  BY <1>1
<1> QED  BY <1>1, <1>2, <1>6, <1>7, <1>8, <1>9 DEF IInv

\* Restores are counted, and only by a restore.
LEMMA RestoresCounted == restores \in Nat /\ [Next]_vars => restores' \in Nat
<1> SUFFICES ASSUME restores \in Nat, [Next]_vars
             PROVE  restores' = restores \/ restores' = restores + 1
  OBVIOUS
<1>1. CASE Tick \/ Replicate \/ Restore
  BY <1>1 DEF Tick, Replicate, Restore
<1>2. CASE \E r \in reqs : Handle(r) \/ Lose(r)
  BY <1>2 DEF Handle, Lose, Authenticate, Commit, VaultPut, SuspendDevice, SlotOff, EndSession
<1>3. CASE \E d \in Devices : SignIn(d) \/ Cleanup(d) \/ Refresh(d) \/ ClientStep(d) \/ Crash(d)
  BY <1>3 DEF SignIn, Cleanup, Refresh, ClientStep, Crash
<1>4. CASE \E d \in Devices : Command(d)
  <2> PICK d \in Devices : Command(d)
    BY <1>4
  <2>1. \A key, r : Send(d, key, r) => restores' = restores
    BY DEF Send
  <2>2. \A type, body, E, sd : SendLink(d, type, body, E, sd) => restores' = restores
    BY DEF SendLink, Send
  <2>3. \A s, prefix : RotateAfter(d, s, prefix) => restores' = restores
    BY DEF RotateAfter, Send
  <2>4. \A method, slot : SelfAdd(d, method, slot) => restores' = restores
    BY DEF SelfAdd, Send
  <2>5. CreateAccount(d) => restores' = restores
    BY DEF CreateAccount, Send
  <2>6. Recover(d) \/ RotateUserKey(d) \/ SyncPush(d) \/ Logout(d) => restores' = restores
    BY <2>1, <2>3, <2>4 DEF Recover, RotateUserKey, SyncPush, Logout
  <2>7. ASSUME NEW i \in Slots, AgentUnlock(d, i) \/ EnableAgentSlot(d, i) \/ DisableAgentSlot(d, i)
        PROVE  restores' = restores
    BY <2>1, <2>2, <2>4, <2>7 DEF AgentUnlock, EnableAgentSlot, DisableAgentSlot
  <2>8. ASSUME NEW e \in Devices, Approve(d, e) \/ Rename(d, e) \/ Revoke(d, e) \/ Suspend(d, e)
        PROVE  restores' = restores
    BY <2>1, <2>2, <2>3, <2>8 DEF Approve, Rename, Revoke, Suspend
  <2> QED  BY <2>5, <2>6, <2>7, <2>8 DEF Command
<1>5. CASE UNCHANGED vars
  BY <1>5 DEF vars
<1> QED  BY <1>1, <1>2, <1>3, <1>4, <1>5 DEF Next, Unasked

LEMMA CommandStep ==
    ASSUME IInv, NEW d \in Devices, Command(d)
    PROVE  StepOK
<1>1. CASE CreateAccount(d)
  BY <1>1, CreateAccountStep
<1>2. CASE Recover(d)
  <2>1. SelfAdd(d, "recovery", None)
    BY <1>2 DEF Recover
  <2> QED  BY <2>1, SelfAddStep
<1>3. CASE RotateUserKey(d)
  BY <1>3, RotateUserKeyStep
<1>4. CASE SyncPush(d)
  BY <1>4, SyncPushStep
<1>5. CASE Logout(d)
  BY <1>5, LogoutStep
<1>6. ASSUME NEW i \in Slots, AgentUnlock(d, i) \/ EnableAgentSlot(d, i) \/ DisableAgentSlot(d, i)
      PROVE  StepOK
  <2>1. CASE AgentUnlock(d, i)
    <3>1. SelfAdd(d, "ssh_agent", i)
      BY <2>1 DEF AgentUnlock
    <3> QED  BY <3>1, SelfAddStep
  <2>2. CASE EnableAgentSlot(d, i)
    BY <2>2, EnableSlotStep
  <2>3. CASE DisableAgentSlot(d, i)
    BY <2>3, DisableSlotStep
  <2> QED  BY <1>6, <2>1, <2>2, <2>3
<1>7. ASSUME NEW e \in Devices, Approve(d, e) \/ Rename(d, e) \/ Revoke(d, e) \/ Suspend(d, e)
      PROVE  StepOK
  BY <1>7, ApproveStep, RenameStep, RevokeStep, SuspendCommandStep
<1> QED  BY <1>1, <1>2, <1>3, <1>4, <1>5, <1>6, <1>7 DEF Command

LEMMA HandleStep ==
    ASSUME IInv, NEW r \in reqs, Handle(r)
    PROVE  StepOK
  BY AuthenticateStep, CommitStep, VaultPutStep, SuspendStep, SlotOffStep, EndSessionStep DEF Handle

LEMMA NextStep ==
    ASSUME IInv, restores \in Nat, [Next]_vars
    PROVE  StepOK
<1>1. CASE Tick
  BY <1>1, TickStep
<1>2. CASE Replicate
  BY <1>2, ReplicateStep
<1>3. CASE Restore
  BY <1>3, RestoreStep
<1>4. ASSUME NEW r \in reqs, Handle(r) \/ Lose(r)
      PROVE  StepOK
  BY <1>4, HandleStep, LoseStep
<1>5. ASSUME NEW d \in Devices,
             SignIn(d) \/ Cleanup(d) \/ Command(d) \/ Refresh(d) \/ ClientStep(d) \/ Crash(d)
      PROVE  StepOK
  BY <1>5, SignInStep, CleanupStep, CommandStep, RefreshStep, ClientStepStep, CrashStep
<1>6. CASE UNCHANGED vars
  <2>1. db' = db /\ UNCHANGED <<replica, now, reqs, cl, wrote>>
    BY <1>6 DEF vars
  <2> QED  BY <2>1, Parts, OnlyDatabase
<1> QED  BY <1>1, <1>2, <1>3, <1>4, <1>5, <1>6 DEF Next, Unasked

\* Every reachable state of an account is as IInv says.
THEOREM AlwaysIInv == Spec => [](IInv /\ restores \in Nat)
<1>1. Init => IInv /\ restores \in Nat
  BY InitOK
<1>2. (IInv /\ restores \in Nat) /\ [Next]_vars => (IInv /\ restores \in Nat)'
  <2> SUFFICES ASSUME IInv, restores \in Nat, [Next]_vars
               PROVE  (IInv /\ restores \in Nat)'
    OBVIOUS
  <2>1. StepOK
    BY NextStep
  <2>2. restores' \in Nat
    BY RestoresCounted
  <2> QED  BY <2>1, <2>2 DEF StepOK
<1> QED  BY <1>1, <1>2, PTL DEF Spec

-----------------------------------------------------------------------------
(* What the invariant is for.                                              *)

\* The device table never says more than the chain, and a revoked or suspended
\* device has no session, whatever request was on its way when it was revoked
\* (setRevoked, applyDeviceAdd and suspend of the server).
THEOREM RowsAlwaysMirrorChain == Spec => []RowsMirrorChain
<1>1. IInv => RowsMirrorChain
  BY Parts, Agree DEF RowsMirrorChain, RowAgrees
<1> QED  BY <1>1, AlwaysIInv, PTL

\* A slot that the server would serve is on the chain, unexpired there as here,
\* and seals the current user key (applyAgentSlotAdd and applyRotate).
THEOREM SlotsAlwaysMirrorChain == Spec => []SlotsMirrorChain
<1>1. IInv => SlotsMirrorChain
  BY Parts, Agree DEF SlotsMirrorChain, SlotAgrees
<1> QED  BY <1>1, AlwaysIInv, PTL

\* An account that exists has a device, however its members revoke each other
\* at the same time.
THEOREM NeverAnOrphan == Spec => []NeverOrphaned
<1>1. IInv => NeverOrphaned
  BY Parts DEF DatabaseOK, Stored, NeverOrphaned
<1> QED  BY <1>1, AlwaysIInv, PTL

\* Only a device of the account changes the chain or the vault, even when it
\* was authenticated before it was revoked (commit and putVault).
THEOREM OnlyMembersEverWrite == Spec => []OnlyMembersWrite
<1>1. IInv => OnlyMembersWrite
  BY DEF IInv, OnlyMembersWrite
<1> QED  BY <1>1, AlwaysIInv, PTL

\* The members of an account, and nobody whom it revoked, can open what is
\* stored: each has its box of the current user key, the phrase recovers that
\* key, the vault opens with it, and a revoked device has it nowhere.
THEOREM ReadersStayMembers == Spec => []ReadersAreMembers
<1>1. IInv => ReadersAreMembers
  <2> SUFFICES ASSUME IInv, SeqNo(db.chain) > 0
               PROVE  /\ \A d \in ActiveDevices(db.chain) :
                           [dev |-> d, ukv |-> db.chain.ukv, key |-> db.chain.key] \in db.boxes
                      /\ db.identity = db.chain.key
                      /\ db.vault.key = db.chain.key
                      /\ \A d \in Devices : db.chain.devices[d].status = "revoked" =>
                           /\ cl[d].key # db.vault.key
                           /\ \A x \in db.boxes : x.dev = d => x.key # db.vault.key
    BY DEF ReadersAreMembers
  <2>1. Stored(db) /\ BoxesOK(db) /\ RevokedWithout(db)
    BY DEF IInv, DatabaseOK
  <2>2. SeqNo(db.chain) # 0
    OBVIOUS
  <2>3. /\ \A d \in ActiveDevices(db.chain) :
             [dev |-> d, ukv |-> db.chain.ukv, key |-> db.chain.key] \in db.boxes
        /\ db.identity = db.chain.key
        /\ db.vault.key = db.chain.key
    BY <2>1, <2>2 DEF Stored
  <2>4. ASSUME NEW d \in Devices, db.chain.devices[d].status = "revoked"
        PROVE  /\ cl[d].key # db.chain.key
               /\ \A x \in db.boxes : x.dev = d => x.key # db.chain.key
    <3>1. d \in Revoked(db.chain) /\ d \notin ActiveDevices(db.chain)
      BY <2>4 DEF Revoked, ActiveDevices
    <3>2. cl[d].key # db.chain.key
      BY <2>1, <3>1 DEF RevokedWithout, KeysOf
    <3>3. \A x \in db.boxes : x.dev = d => x.key # db.chain.key
      BY <2>1, <3>1 DEF BoxesOK
    <3> QED  BY <3>2, <3>3
  <2> QED  BY <2>3, <2>4
<1> QED  BY <1>1, AlwaysIInv, PTL

LEMMA PrefixIs ==
    ASSUME NEW p \in Seq(Link), NEW q \in Seq(Link), Prefix(p, q)
    PROVE  Len(p) <= Len(q) /\ SubSeq(q, 1, Len(p)) = p
<1> DEFINE o == SubSeq(q, 1, Len(p))
<1>1. Len(p) <= Len(q) /\ \A i \in 1..Len(p) : p[i] = q[i]
  BY DEF Prefix
<1>2. o \in Seq(Link) /\ Len(o) = Len(p) /\ \A i \in 1..Len(p) : o[i] = q[i]
  BY <1>1
<1> HIDE DEF o
<1>3. o = p
  BY <1>1, <1>2
<1> QED  BY <1>1, <1>3 DEF o

\* A client's pin only moves forward along one history: neither a commit whose
\* answer is late, nor a restored server that forks, makes a client accept a
\* chain without the links it has seen (CheckPin, and the pin that a command
\* saves last).
THEOREM PinsAlwaysMoveForward == Spec => PinsMoveForwardProperty
<1>1. IInv /\ restores \in Nat /\ [Next]_vars => [PinsMoveForward]_vars
  <2> SUFFICES ASSUME IInv, restores \in Nat, [Next]_vars
               PROVE  PinsMoveForward
    OBVIOUS
  <2>1. IInv' /\ Forward
    BY NextStep DEF StepOK
  <2>2. cl' \in [Devices -> Client] /\ cl \in [Devices -> Client]
    BY <2>1, Parts DEF IInv
  <2> SUFFICES ASSUME NEW d \in Devices
               PROVE  /\ Len(cl[d].pin) <= Len(cl'[d].pin)
                      /\ SubSeq(cl'[d].pin, 1, Len(cl[d].pin)) = cl[d].pin
    BY DEF PinsMoveForward
  <2>3. cl[d] \in Client /\ cl'[d] \in Client
    BY <2>2
  <2>4. cl[d].pin \in Seq(Link) /\ cl'[d].pin \in Seq(Link)
    BY <2>3 DEF Client
  <2>5. Prefix(cl[d].pin, cl'[d].pin)
    BY <2>1 DEF Forward
  <2> QED  BY <2>4, <2>5, PrefixIs
<1> QED  BY <1>1, AlwaysIInv, PTL DEF PinsMoveForwardProperty, Spec

\* A device that was suspended while it waited never becomes a member, however
\* far its own request had come (applyDeviceAdd looks at the row again).
THEOREM SuspendedAlwaysStaysOut == Spec => SuspendedStaysOutProperty
<1>1. IInv /\ restores \in Nat /\ [Next]_vars => [SuspendedStaysOut \/ restores' # restores]_vars
  BY NextStep DEF StepOK
<1> QED  BY <1>1, AlwaysIInv, PTL DEF SuspendedStaysOutProperty, Spec
=============================================================================
