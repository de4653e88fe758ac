----------------------------- MODULE ChainRules -----------------------------
(***************************************************************************)
(* The rules of a user chain (src/internal/chain): which link may follow a *)
(* verified State, and the State it leads to.  Everything here is a pure   *)
(* operator, because the same rules are run by every client and by the     *)
(* server; UserChain and Account give them state.                          *)
(*                                                                         *)
(* What is abstracted:                                                     *)
(*  - a user key (an X25519 and an Ed25519 key that are always drawn and   *)
(*    replaced together) is one member of Keys, and an envelope's          *)
(*    signatures are the set of keys that signed it;                       *)
(*  - the hash of link n commits, through Prev, to all the links up to n,  *)
(*    so it is modelled by that prefix of the chain: two hashes are equal  *)
(*    exactly if the prefixes are (a hash leaves the signatures out);      *)
(*  - a map from ids is a function on all the ids, "absent" where the map  *)
(*    has no entry;                                                        *)
(*  - one unit of time is Day, the backdating a link may have.             *)
(***************************************************************************)
EXTENDS Integers, Sequences, FiniteSets

CONSTANTS
    Devices,          \* device ids
    PubOf,            \* the device's own two public keys, as one value
    Names,            \* device names
    Slots,            \* ids of SSH-agent unlock slots
    Delegates,        \* delegate ids
    KindOf,           \* the kind of a delegate, "passkey" or "server"
    CredentialOf,     \* the WebAuthn credential of a passkey delegate
    SecurityKeys,     \* ids of hardware security keys
    RecipientOf,      \* the age recipient of a security key
    Keys,             \* user keys
    None,             \* no key, device or slot
    Day,              \* 24 hours, in units of the model's clock
    MaxSlotLifetime,
    MaxDelegates,
    MaxSecurityKeys,
    MaxLinks

ASSUME SetsAssumption ==
    /\ None \notin Devices \cup Slots \cup Keys
    /\ PubOf \in [Devices -> Devices]
    /\ KindOf \in [Delegates -> {"passkey", "server"}]
    /\ CredentialOf \in [Delegates -> Delegates]
    /\ RecipientOf \in [SecurityKeys -> SecurityKeys]

ASSUME BoundsAssumption ==
    /\ Day \in Nat \ {0}
    /\ MaxSlotLifetime \in Nat \ {0}
    /\ MaxDelegates \in Nat \ {0}
    /\ MaxSecurityKeys \in Nat \ {0}
    /\ MaxLinks \in Nat \ {0}

Methods == {"first", "approval", "recovery", "ssh_agent"}

-----------------------------------------------------------------------------
(* The verified State, and what a link carries. *)

DeviceState ==
    [status: {"absent", "active", "revoked"}, name: Names \cup {None},
     method: Methods \cup {None}, approvedBy: Devices \cup {None},
     slot: Slots \cup {None}, addedSeq: Nat, revokedSeq: Nat]

SlotState == [status: {"absent", "active", "inactive"}, expires: Nat, ukv: Nat]

DelegateState ==
    [status: {"absent", "active", "removed"}, addedSeq: Nat, removedSeq: Nat]

KeyEpoch == [version: Nat, key: Keys, seq: Nat]

\* What each type of link carries.
InitBody == [key: Keys, rootSig: Keys]
UKeyRotateBody == [key: Keys, keep: SUBSET Devices]
DeviceAddBody ==
    [device: Devices, proof: Devices, name: Names, method: Methods,
     approvedBy: Devices \cup {None}, slot: Slots \cup {None}]
DeviceRevokeBody == [device: Devices]
DeviceRenameBody == [device: Devices, name: Names]
AgentSlotAddBody == [slot: Slots, expires: Nat]
AgentSlotRemoveBody == [slot: Slots]
DelegateBody == [delegate: Delegates]
SecurityKeyBody == [securityKey: SecurityKeys]

Bodies ==
    InitBody \cup UKeyRotateBody \cup DeviceAddBody \cup DeviceRevokeBody
      \cup DeviceRenameBody \cup AgentSlotAddBody \cup AgentSlotRemoveBody
      \cup DelegateBody \cup SecurityKeyBody

Types ==
    {"init", "ukey_rotate", "device_add", "device_revoke", "device_rename",
     "agent_slot_add", "agent_slot_remove", "delegate_add", "delegate_remove",
     "security_key_add", "security_key_remove"}

Link == [type: Types, ctime: Nat, ukv: Nat, body: Bodies]

State ==
    [links: Seq(Link), lastTime: Nat, ukv: Nat, key: Keys \cup {None},
     epochs: Seq(KeyEpoch), devices: [Devices -> DeviceState],
     slots: [Slots -> SlotState], delegates: [Delegates -> DelegateState],
     securityKeys: [SecurityKeys -> DelegateState]]

\* The state of an empty chain.
New ==
    [links |-> << >>, lastTime |-> 0, ukv |-> 0, key |-> None, epochs |-> << >>,
     devices |-> [d \in Devices |->
         [status |-> "absent", name |-> None, method |-> None, approvedBy |-> None,
          slot |-> None, addedSeq |-> 0, revokedSeq |-> 0]],
     slots |-> [i \in Slots |-> [status |-> "absent", expires |-> 0, ukv |-> 0]],
     delegates |-> [i \in Delegates |->
         [status |-> "absent", addedSeq |-> 0, removedSeq |-> 0]],
     securityKeys |-> [i \in SecurityKeys |->
         [status |-> "absent", addedSeq |-> 0, removedSeq |-> 0]]]

SeqNo(s) == Len(s.links)

\* The hash of link n of the chain; the hash of the last link is the Head.
Hash(s, n) == SubSeq(s.links, 1, n)
HeadHash(s) == s.links

\* Mutant: only the pin's position is looked at.
CheckPinPosition(s, pin) == Len(pin) <= SeqNo(s)

\* A pin (seq, hash) that a client keeps: s must contain the pinned link.
CheckPin(s, pin) ==
    \/ pin = << >>
    \/ /\ Len(pin) <= SeqNo(s)
       /\ Hash(s, Len(pin)) = pin

ActiveDevices(s) == {d \in Devices : s.devices[d].status = "active"}

\* A slot is usable while it is active, unexpired and wraps the current key.
UsableSlot(s, id, now) ==
    /\ id \in Slots
    /\ s.slots[id].status = "active"
    /\ now < s.slots[id].expires
    /\ s.slots[id].ukv = s.ukv

\* The user key that was current once the chain had n links.
EpochAt(s, n) ==
    LET started == {i \in DOMAIN s.epochs : s.epochs[i].seq <= n}
    IN  s.epochs[CHOOSE i \in started : \A j \in started : j <= i]

\* Mutant: a delegate is still in force at the position that removed it.
DelegateAtLate(s, id, n) ==
    LET d == s.delegates[id]
    IN  /\ d.status # "absent"
        /\ n # 0 /\ n <= SeqNo(s)
        /\ d.addedSeq <= n
        /\ ~(d.removedSeq # 0 /\ d.removedSeq < n)

\* Delegate id as it was once the chain had n links: added by then and not
\* removed, nor dropped by a new user key.
DelegateAt(s, id, n) ==
    LET d == s.delegates[id]
    IN  /\ d.status # "absent"
        /\ n # 0 /\ n <= SeqNo(s)
        /\ d.addedSeq <= n
        /\ ~(d.removedSeq # 0 /\ d.removedSeq <= n)

ActiveDelegates(s) == {i \in Delegates : s.delegates[i].status = "active"}
ActiveSecurityKeys(s) == {i \in SecurityKeys : s.securityKeys[i].status = "active"}

\* The next link after s: NewLink fills in the position and the key version.
NewLink(s, type, body, ctime, signers) ==
    [seq |-> SeqNo(s) + 1, prev |-> HeadHash(s), ctime |-> ctime, type |-> type,
     ukv |-> CASE type = "init" -> 1
               [] type = "ukey_rotate" -> s.ukv + 1
               [] OTHER -> s.ukv,
     body |-> body, sigs |-> signers]

-----------------------------------------------------------------------------
(* One rule per link type: Valid... is what the code checks before it       *)
(* changes the State, Apply... what it changes.                             *)

\* The chain starts with an init link, signed by the user key it introduces
\* and authorized by the signing key of the recovery phrase.
ValidInit(s, l) ==
    /\ l.type = "init"
    /\ l.ukv = 1
    /\ l.body.rootSig = l.body.key
    /\ l.body.key \in l.sigs

ApplyInit(s, l) ==
    [s EXCEPT !.ukv = 1, !.key = l.body.key,
              !.epochs = <<[version |-> 1, key |-> l.body.key, seq |-> l.seq]>>]

\* Mutant: a device that was revoked may still approve.
ValidMethodAnyApprover(s, l) ==
    LET b == l.body
    IN  \/ b.method = "approval" /\ s.devices[b.approvedBy].status # "absent"
        \/ b.method = "recovery"
        \/ b.method = "first" /\ \A d \in Devices : s.devices[d].status = "absent"
        \/ b.method = "ssh_agent" /\ UsableSlot(s, b.slot, l.ctime)

ValidMethod(s, l) ==
    LET b == l.body
    IN  \/ /\ b.method = "first"
           /\ \A d \in Devices : s.devices[d].status = "absent"
           /\ b.approvedBy = None /\ b.slot = None
        \/ /\ b.method = "approval"
           /\ b.approvedBy \in ActiveDevices(s) /\ b.slot = None
        \/ /\ b.method = "recovery"
           /\ b.approvedBy = None /\ b.slot = None
        \/ /\ b.method = "ssh_agent"
           /\ UsableSlot(s, b.slot, l.ctime) /\ b.approvedBy = None

\* Mutant: the id of a revoked device may be used again.
ValidDeviceAddAgain(s, l) ==
    /\ l.body.device \notin ActiveDevices(s)
    /\ \A d \in ActiveDevices(s) : PubOf[d] # PubOf[l.body.device]
    /\ l.body.proof = l.body.device
    /\ ValidMethod(s, l)

\* Device ids and device keys are used once, for good.
ValidDeviceAdd(s, l) ==
    /\ s.devices[l.body.device].status = "absent"
    /\ \A d \in Devices :
         s.devices[d].status # "absent" => PubOf[d] # PubOf[l.body.device]
    /\ l.body.proof = l.body.device
    /\ ValidMethod(s, l)

ApplyDeviceAdd(s, l) ==
    [s EXCEPT !.devices[l.body.device] =
        [status |-> "active", name |-> l.body.name, method |-> l.body.method,
         approvedBy |-> l.body.approvedBy, slot |-> l.body.slot,
         addedSeq |-> l.seq, revokedSeq |-> 0]]

ValidDeviceRevoke(s, l) == l.body.device \in ActiveDevices(s)

ApplyDeviceRevoke(s, l) ==
    [s EXCEPT !.devices[l.body.device] =
        [@ EXCEPT !.status = "revoked", !.revokedSeq = l.seq]]

ValidDeviceRename(s, l) == l.body.device \in ActiveDevices(s)

ApplyDeviceRename(s, l) ==
    [s EXCEPT !.devices[l.body.device] = [@ EXCEPT !.name = l.body.name]]

ValidSlotAdd(s, l) ==
    /\ s.slots[l.body.slot].status = "absent"
    /\ l.body.expires > l.ctime
    /\ l.body.expires <= l.ctime + MaxSlotLifetime

ApplySlotAdd(s, l) ==
    [s EXCEPT !.slots[l.body.slot] =
        [status |-> "active", expires |-> l.body.expires, ukv |-> s.ukv]]

ValidSlotRemove(s, l) == s.slots[l.body.slot].status = "active"

ApplySlotRemove(s, l) ==
    [s EXCEPT !.slots[l.body.slot] = [@ EXCEPT !.status = "inactive"]]

\* Among the active delegates a credential occurs once, and so does the server.
ValidDelegateAdd(s, l) ==
    LET id == l.body.delegate
    IN  /\ s.delegates[id].status = "absent"
        /\ \A o \in ActiveDelegates(s) :
             /\ ~(KindOf[id] = "passkey" /\ CredentialOf[o] = CredentialOf[id])
             /\ ~(KindOf[id] = "server" /\ KindOf[o] = "server")
        /\ Cardinality(ActiveDelegates(s)) < MaxDelegates

ApplyDelegateAdd(s, l) ==
    [s EXCEPT !.delegates[l.body.delegate] =
        [status |-> "active", addedSeq |-> l.seq, removedSeq |-> 0]]

ValidDelegateRemove(s, l) == l.body.delegate \in ActiveDelegates(s)

ApplyDelegateRemove(s, l) ==
    [s EXCEPT !.delegates[l.body.delegate] =
        [@ EXCEPT !.status = "removed", !.removedSeq = l.seq]]

\* A recipient is never used again, not even after its key was removed.
ValidSecurityKeyAdd(s, l) ==
    LET id == l.body.securityKey
    IN  /\ s.securityKeys[id].status = "absent"
        /\ \A k \in SecurityKeys :
             s.securityKeys[k].status # "absent" => RecipientOf[k] # RecipientOf[id]
        /\ Cardinality(ActiveSecurityKeys(s)) < MaxSecurityKeys

ApplySecurityKeyAdd(s, l) ==
    [s EXCEPT !.securityKeys[l.body.securityKey] =
        [status |-> "active", addedSeq |-> l.seq, removedSeq |-> 0]]

ValidSecurityKeyRemove(s, l) == l.body.securityKey \in ActiveSecurityKeys(s)

ApplySecurityKeyRemove(s, l) ==
    [s EXCEPT !.securityKeys[l.body.securityKey] =
        [@ EXCEPT !.status = "removed", !.removedSeq = l.seq]]

\* Mutant: the new key alone signs a rotation.
ValidRotateByNewKey(s, l) ==
    /\ l.ukv = s.ukv + 1
    /\ l.body.key # s.key
    /\ l.body.key \in l.sigs
    /\ l.body.keep # {}
    /\ l.body.keep \subseteq ActiveDevices(s)

\* A rotation is signed by the old and the new key, and keeps some of the
\* active devices.
ValidRotate(s, l) ==
    /\ l.ukv = s.ukv + 1
    /\ l.body.key # s.key
    /\ {s.key, l.body.key} \subseteq l.sigs
    /\ l.body.keep # {}
    /\ l.body.keep \subseteq ActiveDevices(s)

\* Mutant: a rotation leaves slots and delegates as they are.
ApplyRotateKeepsWays(s, l) ==
    [s EXCEPT
      !.devices = [d \in Devices |->
          IF s.devices[d].status = "active" /\ d \notin l.body.keep
          THEN [s.devices[d] EXCEPT !.status = "revoked", !.revokedSeq = l.seq]
          ELSE s.devices[d]],
      !.ukv = l.ukv,
      !.key = l.body.key,
      !.epochs = Append(@, [version |-> l.ukv, key |-> l.body.key, seq |-> l.seq])]

\* Mutant: a rotation revokes the devices it should keep.
ApplyRotateInverted(s, l) ==
    [s EXCEPT
      !.devices = [d \in Devices |->
          IF s.devices[d].status = "active" /\ d \in l.body.keep
          THEN [s.devices[d] EXCEPT !.status = "revoked", !.revokedSeq = l.seq]
          ELSE s.devices[d]],
      !.ukv = l.ukv,
      !.key = l.body.key,
      !.epochs = Append(@, [version |-> l.ukv, key |-> l.body.key, seq |-> l.seq])]

\* Every other device is revoked, every slot and every delegate dropped.
ApplyRotate(s, l) ==
    [s EXCEPT
      !.devices = [d \in Devices |->
          IF s.devices[d].status = "active" /\ d \notin l.body.keep
          THEN [s.devices[d] EXCEPT !.status = "revoked", !.revokedSeq = l.seq]
          ELSE s.devices[d]],
      !.slots = [i \in Slots |->
          IF s.slots[i].status = "active"
          THEN [s.slots[i] EXCEPT !.status = "inactive"]
          ELSE s.slots[i]],
      !.delegates = [i \in Delegates |->
          IF s.delegates[i].status = "active"
          THEN [s.delegates[i] EXCEPT !.status = "removed", !.removedSeq = l.seq]
          ELSE s.delegates[i]],
      !.ukv = l.ukv,
      !.key = l.body.key,
      !.epochs = Append(@, [version |-> l.ukv, key |-> l.body.key, seq |-> l.seq])]

\* Mutant: any user key the chain ever had will do.
SignedByAnyKey(s, l) ==
    /\ l.ukv = s.ukv
    /\ \E i \in DOMAIN s.epochs : s.epochs[i].key \in l.sigs

\* Any link but the first and a rotation names, and is signed by, the current
\* user key.
SignedByCurrent(s, l) ==
    /\ l.ukv = s.ukv
    /\ s.key \in l.sigs

-----------------------------------------------------------------------------
(* step: the checks common to all links, then the rule of the type. *)

InSequence(s, l) ==
    /\ l.seq = SeqNo(s) + 1
    /\ l.prev = HeadHash(s)

NotBackwards(s, l) ==
    /\ l.ctime # 0
    /\ s.lastTime # 0 => l.ctime >= s.lastTime - Day

ValidApply(s, l) ==
    \/ l.type = "ukey_rotate" /\ ValidRotate(s, l)
    \/ /\ SignedByCurrent(s, l)
       /\ \/ l.type = "device_add" /\ ValidDeviceAdd(s, l)
          \/ l.type = "device_revoke" /\ ValidDeviceRevoke(s, l)
          \/ l.type = "device_rename" /\ ValidDeviceRename(s, l)
          \/ l.type = "agent_slot_add" /\ ValidSlotAdd(s, l)
          \/ l.type = "agent_slot_remove" /\ ValidSlotRemove(s, l)
          \/ l.type = "delegate_add" /\ ValidDelegateAdd(s, l)
          \/ l.type = "delegate_remove" /\ ValidDelegateRemove(s, l)
          \/ l.type = "security_key_add" /\ ValidSecurityKeyAdd(s, l)
          \/ l.type = "security_key_remove" /\ ValidSecurityKeyRemove(s, l)

Apply(s, l) ==
    CASE l.type = "init" -> ApplyInit(s, l)
      [] l.type = "ukey_rotate" -> ApplyRotate(s, l)
      [] l.type = "device_add" -> ApplyDeviceAdd(s, l)
      [] l.type = "device_revoke" -> ApplyDeviceRevoke(s, l)
      [] l.type = "device_rename" -> ApplyDeviceRename(s, l)
      [] l.type = "agent_slot_add" -> ApplySlotAdd(s, l)
      [] l.type = "agent_slot_remove" -> ApplySlotRemove(s, l)
      [] l.type = "delegate_add" -> ApplyDelegateAdd(s, l)
      [] l.type = "delegate_remove" -> ApplyDelegateRemove(s, l)
      [] l.type = "security_key_add" -> ApplySecurityKeyAdd(s, l)
      [] l.type = "security_key_remove" -> ApplySecurityKeyRemove(s, l)

\* Whether State.Next accepts l after s.
ValidNext(s, l) ==
    /\ InSequence(s, l)
    /\ NotBackwards(s, l)
    /\ IF l.seq = 1 THEN ValidInit(s, l) ELSE ValidApply(s, l)

\* The State after an accepted link.
NextState(s, l) ==
    [Apply(s, l) EXCEPT
       !.links = Append(@, [type |-> l.type, ctime |-> l.ctime, ukv |-> l.ukv,
                            body |-> l.body]),
       !.lastTime = l.ctime]
=============================================================================
