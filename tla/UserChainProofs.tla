--------------------------- MODULE UserChainProofs ---------------------------
(***************************************************************************)
(* Machine-checked proofs about UserChain, for any number of devices,      *)
(* slots, delegates, keys and links.  First the type invariant, that a     *)
(* device a rotation left out never signs a link again, and that the       *)
(* current key is on no device that was revoked before the key was drawn.  *)
(* Then, from what one link does to a device, a slot or a delegate, that a *)
(* chain only grows, that positions name the keys that signed them, that   *)
(* who was let in had authority, and that answers about the past are those *)
(* of a replay.                                                            *)
(***************************************************************************)
EXTENDS UserChain, TLAPS

\* The body a link of this type carries.
BodyOK(type, body) ==
    /\ body \in Bodies
    /\ type = "init" => body \in InitBody
    /\ type = "ukey_rotate" => body \in UKeyRotateBody
    /\ type = "device_add" => body \in DeviceAddBody
    /\ type = "device_revoke" => body \in DeviceRevokeBody
    /\ type = "device_rename" => body \in DeviceRenameBody
    /\ type = "agent_slot_add" => body \in AgentSlotAddBody
    /\ type = "agent_slot_remove" => body \in AgentSlotRemoveBody
    /\ type \in {"delegate_add", "delegate_remove"} => body \in DelegateBody
    /\ type \in {"security_key_add", "security_key_remove"} => body \in SecurityKeyBody

\* A link as the devices build it: every field typed, the body of its type.
WellFormed(l) ==
    /\ l \in [seq: Nat, prev: Seq(Link), ctime: Nat, type: Types, ukv: Nat,
              body: Bodies, sigs: SUBSET Keys]
    /\ BodyOK(l.type, l.body)

-----------------------------------------------------------------------------
(* What one accepted link does to the State. *)

\* The fields of a State.
LEMMA StateFields ==
    ASSUME NEW s \in State
    PROVE  /\ s.links \in Seq(Link)
           /\ s.ukv \in Nat
           /\ s.key \in Keys \cup {None}
           /\ s.epochs \in Seq(KeyEpoch)
           /\ s.devices \in [Devices -> DeviceState]
           /\ s.slots \in [Slots -> SlotState]
           /\ s.delegates \in [Delegates -> DelegateState]
           /\ s.securityKeys \in [SecurityKeys -> DelegateState]
  BY DEF State

\* The epochs of a State have positions, and there is a newest one.
LEMMA EpochFields ==
    ASSUME NEW s \in State
    PROVE  /\ \A i \in DOMAIN s.epochs : s.epochs[i].seq \in Nat
           /\ s.epochs # << >> => Len(s.epochs) \in DOMAIN s.epochs
<1> DEFINE q == s.epochs
<1>1. q \in Seq(KeyEpoch)
  BY StateFields
<1> HIDE DEF q
<1>2. \A i \in DOMAIN q : q[i] \in KeyEpoch
  BY <1>1
<1>3. \A e \in KeyEpoch : e.seq \in Nat
  BY DEF KeyEpoch
<1>4. q # << >> => Len(q) \in DOMAIN q
  BY <1>1
<1> QED
  BY <1>2, <1>3, <1>4 DEF q

\* What a link may do to a device: only its own position is ever written as
\* the position of a revocation.
RevokedBy(old, new, seq) ==
    new.status = "revoked" =>
      \/ old.status = "revoked" /\ new.revokedSeq = old.revokedSeq
      \/ new.revokedSeq = seq

\* One link of each type: the new State, and what it does to devices, keys
\* and links.
Effect(s, l, n) ==
    /\ n \in State
    /\ n.links = s.links
    /\ \A d \in Devices : RevokedBy(s.devices[d], n.devices[d], l.seq)
    /\ l.type \notin {"init", "ukey_rotate"} => n.key = s.key /\ n.epochs = s.epochs

\* applyInit: the first link leaves the devices alone and starts epoch 1 at its
\* own position.
LEMMA InitEffect ==
    ASSUME NEW s \in State, NEW l, WellFormed(l), l.type = "init"
    PROVE  /\ Effect(s, l, Apply(s, l))
           /\ Apply(s, l).devices = s.devices
           /\ Apply(s, l).key = l.body.key
           /\ Apply(s, l).epochs = <<[version |-> 1, key |-> l.body.key, seq |-> l.seq]>>
<1> DEFINE e == <<[version |-> 1, key |-> l.body.key, seq |-> l.seq]>>
<1>1. l.seq \in Nat /\ l.body.key \in Keys
  BY DEF WellFormed, BodyOK, InitBody
<1>2. e \in Seq(KeyEpoch)
  BY <1>1 DEF KeyEpoch
<1>3. Apply(s, l) = [s EXCEPT !.ukv = 1, !.key = l.body.key, !.epochs = e]
  BY DEF Apply, ApplyInit
<1> HIDE DEF e
<1>4. Apply(s, l) \in State
  <2> DEFINE v == 1
             k == l.body.key
  <2>1. v \in Nat /\ k \in Keys /\ Apply(s, l) = [s EXCEPT !.ukv = v, !.key = k, !.epochs = e]
    BY <1>1, <1>3
  <2> HIDE DEF v, k
  <2> QED
    BY <1>2, <2>1 DEF State
<1>5. /\ Apply(s, l).links = s.links /\ Apply(s, l).devices = s.devices
      /\ Apply(s, l).key = l.body.key /\ Apply(s, l).epochs = e
  BY <1>3 DEF State
<1> QED
  BY <1>4, <1>5 DEF Effect, RevokedBy, e

\* applyRotate: a rotation starts an epoch at its own position, and leaves the
\* devices that it keeps as they are.
LEMMA RotateEffect ==
    ASSUME NEW s \in State, NEW l, WellFormed(l), l.type = "ukey_rotate"
    PROVE  /\ Effect(s, l, Apply(s, l))
           /\ Apply(s, l).key = l.body.key
           /\ Apply(s, l).epochs =
                Append(s.epochs, [version |-> l.ukv, key |-> l.body.key, seq |-> l.seq])
           /\ \A d \in l.body.keep : Apply(s, l).devices[d] = s.devices[d]
<1> DEFINE e == Append(s.epochs, [version |-> l.ukv, key |-> l.body.key, seq |-> l.seq])
           dr(d) == [s.devices[d] EXCEPT !.status = "revoked", !.revokedSeq = l.seq]
           gr(d) == [s.delegates[d] EXCEPT !.status = "removed", !.removedSeq = l.seq]
           sr(i) == [s.slots[i] EXCEPT !.status = "inactive"]
           D == [d \in Devices |->
                   IF s.devices[d].status = "active" /\ d \notin l.body.keep
                   THEN dr(d) ELSE s.devices[d]]
           S == [i \in Slots |-> IF s.slots[i].status = "active" THEN sr(i) ELSE s.slots[i]]
           G == [i \in Delegates |->
                   IF s.delegates[i].status = "active" THEN gr(i) ELSE s.delegates[i]]
<1>1. l.seq \in Nat /\ l.ukv \in Nat
  BY DEF WellFormed, BodyOK
<1>2. l.body.key \in Keys /\ l.body.keep \in SUBSET Devices
  BY DEF WellFormed, BodyOK, UKeyRotateBody
<1>3. e \in Seq(KeyEpoch)
  <2>1. [version |-> l.ukv, key |-> l.body.key, seq |-> l.seq] \in KeyEpoch
    BY <1>1, <1>2 DEF KeyEpoch
  <2>2. s.epochs \in Seq(KeyEpoch)
    BY StateFields
  <2> QED
    BY <2>1, <2>2
<1>4. D \in [Devices -> DeviceState]
  <2>1. \A d \in Devices : s.devices[d] \in DeviceState
    BY StateFields
  <2>2. \A d \in Devices : dr(d) \in DeviceState
    BY <1>1, <2>1 DEF DeviceState
  <2> HIDE DEF dr
  <2> QED
    BY <2>1, <2>2
<1>5. S \in [Slots -> SlotState]
  <2>1. \A i \in Slots : s.slots[i] \in SlotState
    BY StateFields
  <2>2. \A i \in Slots : sr(i) \in SlotState
    BY <2>1 DEF SlotState
  <2> HIDE DEF sr
  <2> QED
    BY <2>1, <2>2
<1>6. G \in [Delegates -> DelegateState]
  <2>1. \A i \in Delegates : s.delegates[i] \in DelegateState
    BY StateFields
  <2>2. \A i \in Delegates : gr(i) \in DelegateState
    BY <1>1, <2>1 DEF DelegateState
  <2> HIDE DEF gr
  <2> QED
    BY <2>1, <2>2
<1>7. Apply(s, l) = [s EXCEPT !.devices = D, !.slots = S, !.delegates = G,
                              !.ukv = l.ukv, !.key = l.body.key, !.epochs = e]
  BY DEF Apply, ApplyRotate
<1> HIDE DEF e, S, G
<1>8. Apply(s, l) \in State
  <2> HIDE DEF D
  <2> QED
    BY <1>1, <1>2, <1>3, <1>4, <1>5, <1>6, <1>7 DEF State
<1>9. /\ Apply(s, l).links = s.links /\ Apply(s, l).devices = D
      /\ Apply(s, l).key = l.body.key /\ Apply(s, l).epochs = e
  <2> HIDE DEF D
  <2> QED
    BY <1>7 DEF State
<1>10. \A d \in Devices : RevokedBy(s.devices[d], D[d], l.seq)
  <2>1. \A d \in Devices : s.devices[d] \in DeviceState
    BY StateFields
  <2> QED
    BY <2>1 DEF RevokedBy, DeviceState
<1>11. \A d \in l.body.keep : D[d] = s.devices[d]
  BY <1>2
<1> QED
  BY <1>8, <1>9, <1>10, <1>11 DEF Effect, e

\* device_add, device_revoke and device_rename: a revocation is recorded at the
\* position of its link, and no user key changes.
LEMMA DeviceEffect ==
    ASSUME NEW s \in State, NEW l, WellFormed(l),
           l.type \in {"device_add", "device_revoke", "device_rename"}
    PROVE  Effect(s, l, Apply(s, l))
<1>1. l.seq \in Nat /\ \A d \in Devices : s.devices[d] \in DeviceState
  BY StateFields DEF WellFormed, BodyOK
<1>2. PICK d \in Devices, r \in DeviceState :
        /\ Apply(s, l) = [s EXCEPT !.devices = [s.devices EXCEPT ![d] = r]]
        /\ RevokedBy(s.devices[d], r, l.seq)
  <2>1. CASE l.type = "device_add"
    <3> DEFINE r == [status |-> "active", name |-> l.body.name, method |-> l.body.method,
                     approvedBy |-> l.body.approvedBy, slot |-> l.body.slot,
                     addedSeq |-> l.seq, revokedSeq |-> 0]
    <3>1. l.body \in DeviceAddBody
      BY <2>1 DEF WellFormed, BodyOK
    <3>2. r \in DeviceState /\ r.status = "active" /\ l.body.device \in Devices
      BY <1>1, <3>1 DEF DeviceAddBody, DeviceState
    <3>3. Apply(s, l) = [s EXCEPT !.devices = [s.devices EXCEPT ![l.body.device] = r]]
      BY <2>1 DEF Apply, ApplyDeviceAdd
    <3> HIDE DEF r
    <3> QED
      BY <3>2, <3>3 DEF RevokedBy
  <2>2. CASE l.type = "device_revoke"
    <3> DEFINE r == [s.devices[l.body.device] EXCEPT !.status = "revoked",
                                                     !.revokedSeq = l.seq]
    <3>1. l.body.device \in Devices
      BY <2>2 DEF WellFormed, BodyOK, DeviceRevokeBody
    <3>2. r \in DeviceState /\ r.revokedSeq = l.seq
      <4> DEFINE q == s.devices[l.body.device]
      <4>1. q \in DeviceState
        BY <1>1, <3>1
      <4> HIDE DEF q
      <4>2. /\ [q EXCEPT !.status = "revoked", !.revokedSeq = l.seq] \in DeviceState
            /\ [q EXCEPT !.status = "revoked", !.revokedSeq = l.seq].revokedSeq = l.seq
        BY <1>1, <4>1 DEF DeviceState
      <4> QED
        BY <4>2 DEF q
    <3>3. Apply(s, l) = [s EXCEPT !.devices = [s.devices EXCEPT ![l.body.device] = r]]
      BY <2>2, <3>1, StateFields DEF Apply, ApplyDeviceRevoke, State
    <3> HIDE DEF r
    <3> QED
      BY <3>1, <3>2, <3>3 DEF RevokedBy
  <2>3. CASE l.type = "device_rename"
    <3> DEFINE r == [s.devices[l.body.device] EXCEPT !.name = l.body.name]
    <3>1. l.body.device \in Devices /\ l.body.name \in Names
      BY <2>3 DEF WellFormed, BodyOK, DeviceRenameBody
    <3>2. /\ r \in DeviceState
          /\ r.status = s.devices[l.body.device].status
          /\ r.revokedSeq = s.devices[l.body.device].revokedSeq
      BY <1>1, <3>1 DEF DeviceState
    <3>3. Apply(s, l) = [s EXCEPT !.devices = [s.devices EXCEPT ![l.body.device] = r]]
      BY <2>3, <3>1, StateFields DEF Apply, ApplyDeviceRename, State
    <3> HIDE DEF r
    <3> QED
      BY <3>1, <3>2, <3>3 DEF RevokedBy
  <2> QED
    BY <2>1, <2>2, <2>3
<1> DEFINE D == [s.devices EXCEPT ![d] = r]
<1>3. D \in [Devices -> DeviceState]
  BY StateFields
<1>4. \A c \in Devices : RevokedBy(s.devices[c], D[c], l.seq)
  BY <1>2, StateFields DEF RevokedBy
<1> HIDE DEF D
<1>5. Apply(s, l) \in State
  <2>1. Apply(s, l) = [s EXCEPT !.devices = D]
    BY <1>2 DEF D
  <2> QED
    BY <1>3, <2>1 DEF State
<1>6. /\ Apply(s, l).links = s.links /\ Apply(s, l).devices = D
      /\ Apply(s, l).key = s.key /\ Apply(s, l).epochs = s.epochs
  BY <1>2 DEF State, D
<1> QED
  BY <1>4, <1>5, <1>6 DEF Effect

\* A removed delegate is still a delegate's record.
LEMMA RemovedDelegate ==
    ASSUME NEW q \in DelegateState, NEW n \in Nat
    PROVE  [q EXCEPT !.status = "removed", !.removedSeq = n] \in DelegateState
  BY DEF DelegateState

\* Slot, delegate and security-key links touch neither devices nor user keys.
LEMMA OtherEffect ==
    ASSUME NEW s \in State, NEW l, WellFormed(l),
           l.type \in {"agent_slot_add", "agent_slot_remove", "delegate_add",
                       "delegate_remove", "security_key_add", "security_key_remove"}
    PROVE  Effect(s, l, Apply(s, l))
<1>1. l.seq \in Nat /\ l.ukv \in Nat /\ s.ukv \in Nat
  BY StateFields DEF WellFormed, BodyOK
<1>2. \/ \E S \in [Slots -> SlotState] : Apply(s, l) = [s EXCEPT !.slots = S]
      \/ \E G \in [Delegates -> DelegateState] : Apply(s, l) = [s EXCEPT !.delegates = G]
      \/ \E H \in [SecurityKeys -> DelegateState] :
           Apply(s, l) = [s EXCEPT !.securityKeys = H]
  <2>1. CASE l.type = "agent_slot_add"
    <3> DEFINE r == [status |-> "active", expires |-> l.body.expires, ukv |-> s.ukv]
    <3>1. l.body.slot \in Slots /\ r \in SlotState
      BY <1>1, <2>1 DEF WellFormed, BodyOK, AgentSlotAddBody, SlotState
    <3>2. Apply(s, l) = [s EXCEPT !.slots = [s.slots EXCEPT ![l.body.slot] = r]]
      BY <2>1 DEF Apply, ApplySlotAdd
    <3> HIDE DEF r
    <3>3. [s.slots EXCEPT ![l.body.slot] = r] \in [Slots -> SlotState]
      BY <3>1, StateFields
    <3> QED
      BY <3>2, <3>3
  <2>2. CASE l.type = "agent_slot_remove"
    <3> DEFINE r == [s.slots[l.body.slot] EXCEPT !.status = "inactive"]
    <3>1. l.body.slot \in Slots
      BY <2>2 DEF WellFormed, BodyOK, AgentSlotRemoveBody
    <3>2. r \in SlotState
      BY <3>1, StateFields DEF SlotState
    <3>3. Apply(s, l) = [s EXCEPT !.slots = [s.slots EXCEPT ![l.body.slot] = r]]
      BY <2>2, <3>1, StateFields DEF Apply, ApplySlotRemove, State
    <3> HIDE DEF r
    <3>4. [s.slots EXCEPT ![l.body.slot] = r] \in [Slots -> SlotState]
      BY <3>1, <3>2, StateFields
    <3> QED
      BY <3>3, <3>4
  <2>3. CASE l.type = "delegate_add"
    <3> DEFINE r == [status |-> "active", addedSeq |-> l.seq, removedSeq |-> 0]
    <3>1. l.body.delegate \in Delegates /\ r \in DelegateState
      BY <1>1, <2>3 DEF WellFormed, BodyOK, DelegateBody, DelegateState
    <3>2. Apply(s, l) = [s EXCEPT !.delegates = [s.delegates EXCEPT ![l.body.delegate] = r]]
      BY <2>3 DEF Apply, ApplyDelegateAdd
    <3> HIDE DEF r
    <3>3. [s.delegates EXCEPT ![l.body.delegate] = r] \in [Delegates -> DelegateState]
      BY <3>1, StateFields
    <3> QED
      BY <3>2, <3>3
  <2>4. CASE l.type = "delegate_remove"
    <3> DEFINE r == [s.delegates[l.body.delegate] EXCEPT !.status = "removed",
                                                         !.removedSeq = l.seq]
    <3>1. l.body.delegate \in Delegates
      BY <2>4 DEF WellFormed, BodyOK, DelegateBody
    <3>2. r \in DelegateState
      BY <1>1, <3>1, StateFields, RemovedDelegate
    <3>3. Apply(s, l) = [s EXCEPT !.delegates = [s.delegates EXCEPT ![l.body.delegate] = r]]
      BY <2>4, <3>1, StateFields DEF Apply, ApplyDelegateRemove, State
    <3> HIDE DEF r
    <3>4. [s.delegates EXCEPT ![l.body.delegate] = r] \in [Delegates -> DelegateState]
      BY <3>1, <3>2, StateFields
    <3> QED
      BY <3>3, <3>4
  <2>5. CASE l.type = "security_key_add"
    <3> DEFINE r == [status |-> "active", addedSeq |-> l.seq, removedSeq |-> 0]
               i == l.body.securityKey
    <3>1. i \in SecurityKeys /\ r \in DelegateState
      BY <1>1, <2>5 DEF WellFormed, BodyOK, SecurityKeyBody, DelegateState
    <3>2. Apply(s, l) = [s EXCEPT !.securityKeys = [s.securityKeys EXCEPT ![i] = r]]
      BY <2>5 DEF Apply, ApplySecurityKeyAdd
    <3> HIDE DEF r
    <3>3. [s.securityKeys EXCEPT ![i] = r] \in [SecurityKeys -> DelegateState]
      BY <3>1, StateFields
    <3> QED
      BY <3>2, <3>3
  <2>6. CASE l.type = "security_key_remove"
    <3> DEFINE i == l.body.securityKey
               r == [s.securityKeys[i] EXCEPT !.status = "removed", !.removedSeq = l.seq]
    <3>1. i \in SecurityKeys
      BY <2>6 DEF WellFormed, BodyOK, SecurityKeyBody
    <3>2. r \in DelegateState
      BY <1>1, <3>1, StateFields, RemovedDelegate
    <3>3. Apply(s, l) = [s EXCEPT !.securityKeys = [s.securityKeys EXCEPT ![i] = r]]
      BY <2>6, <3>1, StateFields DEF Apply, ApplySecurityKeyRemove, State
    <3> HIDE DEF r
    <3>4. [s.securityKeys EXCEPT ![i] = r] \in [SecurityKeys -> DelegateState]
      BY <3>1, <3>2, StateFields
    <3> QED
      BY <3>3, <3>4
  <2> QED
    BY <2>1, <2>2, <2>3, <2>4, <2>5, <2>6
<1>3. Apply(s, l) \in State
  BY <1>2 DEF State
<1>4. /\ Apply(s, l).links = s.links /\ Apply(s, l).devices = s.devices
      /\ Apply(s, l).key = s.key /\ Apply(s, l).epochs = s.epochs
  BY <1>2 DEF State
<1> QED
  BY <1>3, <1>4 DEF Effect, RevokedBy

\* Every accepted link, of whatever type, has the effect of one link.
LEMMA ApplyEffect ==
    ASSUME NEW s \in State, NEW l, WellFormed(l)
    PROVE  Effect(s, l, Apply(s, l))
<1>1. l.type \in Types
  BY DEF WellFormed, BodyOK
<1> QED
  BY <1>1, InitEffect, RotateEffect, DeviceEffect, OtherEffect DEF Types

\* step appends the link and leaves the rest to the rule of its type.
LEMMA NextStateEffect ==
    ASSUME NEW s \in State, NEW l, WellFormed(l)
    PROVE  /\ NextState(s, l) \in State
           /\ \E e \in Link : NextState(s, l).links = Append(s.links, e)
           /\ NextState(s, l).devices = Apply(s, l).devices
           /\ NextState(s, l).epochs = Apply(s, l).epochs
           /\ NextState(s, l).key = Apply(s, l).key
           /\ \A d \in Devices :
                RevokedBy(s.devices[d], NextState(s, l).devices[d], l.seq)
<1> DEFINE a == Apply(s, l)
           e == [type |-> l.type, ctime |-> l.ctime, ukv |-> l.ukv, body |-> l.body]
           t == l.ctime
           ls == Append(s.links, e)
<1>1. Effect(s, l, a)
  BY ApplyEffect
<1>2. e \in Link /\ t \in Nat
  BY DEF WellFormed, BodyOK, Link
<1>3. a \in State /\ a.links = s.links
  BY <1>1 DEF Effect
<1>4. s.links \in Seq(Link)
  BY StateFields
<1>5. ls \in Seq(Link)
  BY <1>2, <1>4
<1>6. NextState(s, l) = [a EXCEPT !.links = ls, !.lastTime = t]
  BY <1>3 DEF NextState, State
<1> HIDE DEF a, e, ls, t
<1>7. NextState(s, l) \in State
  BY <1>2, <1>3, <1>5, <1>6 DEF State
<1>8. /\ NextState(s, l).links = ls
      /\ NextState(s, l).devices = a.devices
      /\ NextState(s, l).epochs = a.epochs
      /\ NextState(s, l).key = a.key
  BY <1>3, <1>6 DEF State
<1>9. \A d \in Devices : RevokedBy(s.devices[d], a.devices[d], l.seq)
  BY <1>1 DEF Effect
<1> QED
  BY <1>2, <1>7, <1>8, <1>9 DEF a, ls

-----------------------------------------------------------------------------
(* The actions. *)

\* What an accepted offer does, read off NextStateEffect and the rules.
LEMMA OfferEffect ==
    ASSUME TypeOK, NEW by \in Devices, NEW type \in Types, NEW body,
           NEW sigs \in SUBSET Keys, BodyOK(type, body), Offer(by, type, body, sigs)
    PROVE  /\ chain' \in State
           /\ \E e \in Link : chain'.links = Append(chain.links, e)
           /\ authors' = Append(authors, by) /\ signers' = Append(signers, sigs)
           /\ \A d \in Devices :
                RevokedBy(chain.devices[d], chain'.devices[d], SeqNo(chain) + 1)
           /\ type \notin {"init", "ukey_rotate"} =>
                /\ chain'.key = chain.key /\ chain'.epochs = chain.epochs
                /\ chain.key \in sigs
           /\ type = "ukey_rotate" =>
                /\ chain'.key = body.key
                /\ \E r \in KeyEpoch :
                     r.seq = SeqNo(chain) + 1 /\ chain'.epochs = Append(chain.epochs, r)
                /\ body.keep \subseteq ActiveDevices(chain)
                /\ \A d \in body.keep : chain'.devices[d] = chain.devices[d]
           /\ type = "init" =>
                /\ SeqNo(chain) = 0
                /\ chain'.devices = chain.devices /\ chain'.key = body.key
                /\ \E r \in KeyEpoch : r.seq = 1 /\ chain'.epochs = <<r>>
<1>1. PICK t \in Times : LET l == NewLink(chain, type, body, t, sigs)
                         IN  ValidNext(chain, l) /\ chain' = NextState(chain, l)
  BY DEF Offer
<1> DEFINE l == NewLink(chain, type, body, t, sigs)
<1>2. t \in Nat /\ chain \in State /\ SeqNo(chain) \in Nat
  BY TimesAssumption, StateFields DEF TypeOK, SeqNo
<1>3. /\ l.type = type /\ l.body = body /\ l.sigs = sigs /\ l.seq = SeqNo(chain) + 1
      /\ l.ukv \in Nat
  <2>1. chain.ukv \in Nat
    BY <1>2, StateFields
  <2> QED
    BY <2>1 DEF NewLink
<1>4. WellFormed(l)
  <2>1. l \in [seq: Nat, prev: Seq(Link), ctime: Nat, type: Types, ukv: Nat,
               body: Bodies, sigs: SUBSET Keys]
    BY <1>2, <1>3, StateFields DEF NewLink, HeadHash, BodyOK
  <2> HIDE DEF l
  <2> QED
    BY <1>3, <2>1 DEF WellFormed
<1> HIDE DEF l
<1>5. ValidNext(chain, l) /\ chain' = NextState(chain, l)
  BY <1>1 DEF l
<1>6. /\ chain' \in State
      /\ \E e \in Link : chain'.links = Append(chain.links, e)
      /\ chain'.devices = Apply(chain, l).devices
      /\ chain'.epochs = Apply(chain, l).epochs
      /\ chain'.key = Apply(chain, l).key
      /\ \A d \in Devices : RevokedBy(chain.devices[d], chain'.devices[d], SeqNo(chain) + 1)
  BY <1>2, <1>3, <1>4, <1>5, NextStateEffect
<1>7. authors' = Append(authors, by) /\ signers' = Append(signers, sigs)
  BY DEF Offer
<1>8. ASSUME type \notin {"init", "ukey_rotate"}
      PROVE  chain'.key = chain.key /\ chain'.epochs = chain.epochs /\ chain.key \in sigs
  <2>1. Effect(chain, l, Apply(chain, l))
    BY <1>2, <1>4, ApplyEffect
  <2>2. chain.key \in sigs
    BY <1>3, <1>5, <1>8 DEF ValidNext, ValidInit, ValidApply, SignedByCurrent
  <2> QED
    BY <1>3, <1>6, <1>8, <2>1, <2>2 DEF Effect
<1>9. ASSUME type = "ukey_rotate"
      PROVE  /\ chain'.key = body.key
             /\ \E r \in KeyEpoch :
                  r.seq = SeqNo(chain) + 1 /\ chain'.epochs = Append(chain.epochs, r)
             /\ body.keep \subseteq ActiveDevices(chain)
             /\ \A d \in body.keep : chain'.devices[d] = chain.devices[d]
  <2> DEFINE r == [version |-> l.ukv, key |-> body.key, seq |-> l.seq]
  <2>1. /\ Apply(chain, l).key = body.key
        /\ Apply(chain, l).epochs = Append(chain.epochs, r)
        /\ \A d \in body.keep : Apply(chain, l).devices[d] = chain.devices[d]
    BY <1>2, <1>3, <1>4, <1>9, RotateEffect
  <2>2. body.key \in Keys
    BY <1>9 DEF BodyOK, UKeyRotateBody
  <2>3. r \in KeyEpoch /\ r.seq = SeqNo(chain) + 1
    BY <1>2, <1>3, <2>2 DEF KeyEpoch
  <2>4. body.keep \subseteq ActiveDevices(chain)
    BY <1>3, <1>5, <1>9 DEF ValidNext, ValidInit, ValidApply, ValidRotate
  <2> HIDE DEF r
  <2> QED
    BY <1>6, <2>1, <2>3, <2>4
<1>10. ASSUME type = "init"
       PROVE  /\ SeqNo(chain) = 0
              /\ chain'.devices = chain.devices /\ chain'.key = body.key
              /\ \E r \in KeyEpoch : r.seq = 1 /\ chain'.epochs = <<r>>
  <2> DEFINE r == [version |-> 1, key |-> body.key, seq |-> l.seq]
  <2>1. /\ Apply(chain, l).key = body.key /\ Apply(chain, l).devices = chain.devices
        /\ Apply(chain, l).epochs = <<r>>
    BY <1>2, <1>3, <1>4, <1>10, InitEffect
  <2>2. SeqNo(chain) = 0
    BY <1>2, <1>3, <1>5, <1>10 DEF ValidNext, ValidApply
  <2>3. r \in KeyEpoch /\ r.seq = 1
    BY <1>2, <1>3, <1>10, <2>2 DEF KeyEpoch, BodyOK, InitBody
  <2> HIDE DEF r
  <2> QED
    BY <1>6, <2>1, <2>2, <2>3
<1> QED
  BY <1>6, <1>7, <1>8, <1>9, <1>10

\* The inductive invariant.  RevokedNeverSigns needs to know who may sign next
\* (CurrentKeyHolders), which in turn needs the epochs to lie in the chain in
\* order, and no device before the first link.
IInv ==
    /\ TypeOK
    /\ chain.links = << >> => /\ chain.key = None /\ chain.epochs = << >>
                              /\ \A d \in Devices : chain.devices[d].status = "absent"
    /\ chain.links # << >> => chain.epochs # << >> /\ chain.key \in Keys
    /\ \A i \in DOMAIN chain.epochs :
         /\ chain.epochs[i].seq <= SeqNo(chain)
         /\ chain.epochs[i].seq <= chain.epochs[Len(chain.epochs)].seq
    /\ CurrentKeyHolders
    /\ RevokedNeverSigns

\* The empty chain satisfies the inductive invariant.
LEMMA InitIInv == Init => IInv
<1> SUFFICES ASSUME Init PROVE IInv
  OBVIOUS
<1>1. New \in State
  <2>1. [status |-> "absent", name |-> None, method |-> None, approvedBy |-> None,
         slot |-> None, addedSeq |-> 0, revokedSeq |-> 0] \in DeviceState
    BY DEF DeviceState
  <2>2. [status |-> "absent", expires |-> 0, ukv |-> 0] \in SlotState
    BY DEF SlotState
  <2>3. [status |-> "absent", addedSeq |-> 0, removedSeq |-> 0] \in DelegateState
    BY DEF DelegateState
  <2> DEFINE D == [d \in Devices |->
                    [status |-> "absent", name |-> None, method |-> None, approvedBy |-> None,
                     slot |-> None, addedSeq |-> 0, revokedSeq |-> 0]]
             S == [i \in Slots |-> [status |-> "absent", expires |-> 0, ukv |-> 0]]
             G == [i \in Delegates |->
                    [status |-> "absent", addedSeq |-> 0, removedSeq |-> 0]]
             H == [i \in SecurityKeys |->
                    [status |-> "absent", addedSeq |-> 0, removedSeq |-> 0]]
  <2>4. D \in [Devices -> DeviceState] /\ S \in [Slots -> SlotState]
    BY <2>1, <2>2
  <2>5. G \in [Delegates -> DelegateState] /\ H \in [SecurityKeys -> DelegateState]
    BY <2>3
  <2>6. New = [links |-> << >>, lastTime |-> 0, ukv |-> 0, key |-> None, epochs |-> << >>,
               devices |-> D, slots |-> S, delegates |-> G, securityKeys |-> H]
    BY DEF New
  <2> HIDE DEF D, S, G, H
  <2> QED
    BY <2>4, <2>5, <2>6 DEF State
<1>2. /\ chain.links = << >> /\ chain.key = None /\ chain.epochs = << >>
      /\ \A d \in Devices : chain.devices[d].status = "absent"
  BY DEF Init, New
<1>3. TypeOK
  BY <1>1, <1>2 DEF Init, TypeOK, SeqNo
<1>4. CurrentKeyHolders
  BY <1>2 DEF CurrentKeyHolders
<1>5. RevokedNeverSigns
  BY DEF RevokedNeverSigns, Init
<1> QED
  BY <1>2, <1>3, <1>4, <1>5 DEF IInv

\* Any accepted offer preserves the types and the past of every signer; what
\* is left to show is that its own author may sign.
LEMMA OfferType ==
    ASSUME TypeOK, NEW by \in Devices, NEW type \in Types, NEW body,
           NEW sigs \in SUBSET Keys, BodyOK(type, body), Offer(by, type, body, sigs)
    PROVE  /\ chain' \in State
           /\ SeqNo(chain) \in Nat /\ SeqNo(chain)' = SeqNo(chain) + 1
           /\ chain'.links # << >>
           /\ authors' \in Seq(Devices) /\ Len(authors') = SeqNo(chain)'
           /\ signers' \in Seq(SUBSET Keys) /\ Len(signers') = SeqNo(chain)'
           /\ \A n \in 1..SeqNo(chain) : authors'[n] = authors[n]
           /\ authors'[SeqNo(chain) + 1] = by
<1>1. /\ chain' \in State
      /\ authors' = Append(authors, by) /\ signers' = Append(signers, sigs)
  BY OfferEffect
<1>2. PICK e \in Link : chain'.links = Append(chain.links, e)
  BY OfferEffect
<1>3. chain.links \in Seq(Link)
  BY StateFields DEF TypeOK
<1>4. /\ authors \in Seq(Devices) /\ signers \in Seq(SUBSET Keys)
      /\ Len(authors) = Len(chain.links) /\ Len(signers) = Len(chain.links)
  BY DEF TypeOK, SeqNo
<1>5. Len(chain'.links) = Len(chain.links) + 1 /\ chain'.links # << >>
  BY <1>2, <1>3
<1> QED
  BY <1>1, <1>3, <1>4, <1>5 DEF SeqNo

\* Links signed before the step stay without blame: a revocation that the step
\* makes, and an epoch that it starts, both lie at the new position.
LEMMA PastSigners ==
    ASSUME TypeOK, RevokedNeverSigns, NEW n \in 1..SeqNo(chain),
           SeqNo(chain) \in Nat, authors'[n] = authors[n],
           \A d \in Devices :
             RevokedBy(chain.devices[d], chain'.devices[d], SeqNo(chain) + 1),
           NEW i \in DOMAIN chain'.epochs, chain'.epochs[i].seq \in Nat,
           \/ i \in DOMAIN chain.epochs /\ chain'.epochs[i] = chain.epochs[i]
           \/ chain'.epochs[i].seq = SeqNo(chain) + 1
    PROVE  ~ /\ chain'.devices[authors'[n]].status = "revoked"
             /\ chain'.devices[authors'[n]].revokedSeq <= chain'.epochs[i].seq
             /\ chain'.epochs[i].seq < n
<1>1. n \in DOMAIN authors /\ authors[n] \in Devices
  BY DEF TypeOK
<1>2. SUFFICES ASSUME chain'.devices[authors[n]].status = "revoked",
                      chain'.devices[authors[n]].revokedSeq <= chain'.epochs[i].seq,
                      chain'.epochs[i].seq < n
               PROVE  FALSE
  OBVIOUS
<1>3. i \in DOMAIN chain.epochs /\ chain'.epochs[i] = chain.epochs[i]
  BY <1>2
<1>4. /\ chain.devices[authors[n]].status = "revoked"
      /\ chain'.devices[authors[n]].revokedSeq = chain.devices[authors[n]].revokedSeq
  BY <1>1, <1>2 DEF RevokedBy
<1> QED
  BY <1>1, <1>2, <1>3, <1>4 DEF RevokedNeverSigns

\* A link signed with a held key: its signature is the current key's, so by
\* CurrentKeyHolders the author was not revoked before the current epoch.
LEMMA HeldKeyStep ==
    ASSUME IInv, NEW by \in Devices, NEW type \in Types \ {"init", "ukey_rotate"},
           NEW body, BodyOK(type, body), OfferWithHeldKey(by, type, body)
    PROVE  IInv'
<1> TypeOK
  BY DEF IInv
<1>1. PICK k \in held[by] : Offer(by, type, body, {k})
  BY DEF OfferWithHeldKey
<1>2. held' = held /\ held \in [Devices -> SUBSET Keys] /\ {k} \in SUBSET Keys /\ k \in Keys
  BY DEF OfferWithHeldKey, TypeOK
<1>3. /\ chain'.key = chain.key /\ chain'.epochs = chain.epochs /\ chain.key = k
      /\ \A d \in Devices : RevokedBy(chain.devices[d], chain'.devices[d], SeqNo(chain) + 1)
  BY <1>1, <1>2, OfferEffect
<1>4. /\ chain' \in State
      /\ SeqNo(chain) \in Nat /\ SeqNo(chain)' = SeqNo(chain) + 1
      /\ chain'.links # << >>
      /\ authors' \in Seq(Devices) /\ Len(authors') = SeqNo(chain)'
      /\ signers' \in Seq(SUBSET Keys) /\ Len(signers') = SeqNo(chain)'
      /\ \A n \in 1..SeqNo(chain) : authors'[n] = authors[n]
      /\ authors'[SeqNo(chain) + 1] = by
  BY <1>1, <1>2, OfferType
<1>5. TypeOK'
  BY <1>2, <1>4 DEF TypeOK
<1>6. chain.epochs # << >>
  BY <1>1, <1>3, SetsAssumption DEF IInv, TypeOK
<1>7. /\ chain.epochs \in Seq(KeyEpoch)
      /\ Len(chain.epochs) \in DOMAIN chain.epochs
      /\ \A i \in DOMAIN chain.epochs :
           /\ chain.epochs[i].seq \in Nat
           /\ chain.epochs[i].seq <= SeqNo(chain)
           /\ chain.epochs[i].seq <= chain.epochs[Len(chain.epochs)].seq
  BY <1>6, StateFields, EpochFields DEF IInv, TypeOK
<1>8. CurrentKeyHolders'
  BY <1>2, <1>3, <1>4, <1>7 DEF CurrentKeyHolders, RevokedBy, IInv
<1>9. RevokedNeverSigns'
  <2> SUFFICES ASSUME NEW n \in DOMAIN authors', NEW i \in DOMAIN chain'.epochs
               PROVE  ~ /\ chain'.devices[authors'[n]].status = "revoked"
                        /\ chain'.devices[authors'[n]].revokedSeq <= chain'.epochs[i].seq
                        /\ chain'.epochs[i].seq < n
    BY DEF RevokedNeverSigns
  <2>1. CASE n = SeqNo(chain) + 1
    <3>1. chain'.devices[by].status = "revoked" =>
            chain'.devices[by].revokedSeq > chain.epochs[Len(chain.epochs)].seq
      BY <1>1, <1>2, <1>3, <1>8 DEF CurrentKeyHolders
    <3>2. chain'.devices[by].revokedSeq \in Nat
      BY <1>4, StateFields DEF DeviceState
    <3> QED
      BY <1>3, <1>4, <1>7, <2>1, <3>1, <3>2
  <2>2. CASE n \in 1..SeqNo(chain)
    <3>1. chain'.epochs[i] = chain.epochs[i] /\ i \in DOMAIN chain.epochs
      BY <1>3
    <3> QED
      BY <1>3, <1>4, <1>7, <2>2, <3>1, PastSigners DEF IInv
  <2> QED
    BY <1>4, <2>1, <2>2
<1> QED
  BY <1>2, <1>3, <1>4, <1>5, <1>6, <1>7, <1>8, <1>9 DEF IInv

\* A rotation: the new key is on no device but the author's, which is kept.
LEMMA RotateStep ==
    ASSUME IInv, NEW by \in Devices, Rotate(by)
    PROVE  IInv'
<1> TypeOK
  BY DEF IInv
<1>1. PICK old \in held[by], k \in FreshKeys, keep \in SUBSET Devices :
        /\ by \in keep
        /\ Offer(by, "ukey_rotate", [key |-> k, keep |-> keep], {old, k})
        /\ held' = [held EXCEPT ![by] = @ \cup {k}]
  BY DEF Rotate
<1> DEFINE body == [key |-> k, keep |-> keep]
<1>2. /\ k \in Keys /\ \A d \in Devices : k \notin held[d]
      /\ held \in [Devices -> SUBSET Keys] /\ {old, k} \in SUBSET Keys
      /\ held' \in [Devices -> SUBSET Keys]
  BY <1>1 DEF FreshKeys, TypeOK
<1>3. /\ body.key = k /\ body.keep = keep /\ BodyOK("ukey_rotate", body)
      /\ "ukey_rotate" \in Types
  BY <1>2 DEF BodyOK, Bodies, UKeyRotateBody, Types
<1> HIDE DEF body
<1>4. Offer(by, "ukey_rotate", body, {old, k})
  BY <1>1 DEF body
<1>5. /\ chain'.key = k
      /\ \E r \in KeyEpoch : r.seq = SeqNo(chain) + 1 /\ chain'.epochs = Append(chain.epochs, r)
      /\ keep \subseteq ActiveDevices(chain)
      /\ \A d \in keep : chain'.devices[d] = chain.devices[d]
      /\ \A d \in Devices : RevokedBy(chain.devices[d], chain'.devices[d], SeqNo(chain) + 1)
  BY <1>2, <1>3, <1>4, OfferEffect
<1>6. /\ chain' \in State
      /\ SeqNo(chain) \in Nat /\ SeqNo(chain)' = SeqNo(chain) + 1
      /\ chain'.links # << >>
      /\ authors' \in Seq(Devices) /\ Len(authors') = SeqNo(chain)'
      /\ signers' \in Seq(SUBSET Keys) /\ Len(signers') = SeqNo(chain)'
      /\ \A n \in 1..SeqNo(chain) : authors'[n] = authors[n]
      /\ authors'[SeqNo(chain) + 1] = by
  BY <1>2, <1>3, <1>4, OfferType
<1>7. TypeOK'
  BY <1>2, <1>6 DEF TypeOK
<1>8. PICK r \in KeyEpoch :
        r.seq = SeqNo(chain) + 1 /\ chain'.epochs = Append(chain.epochs, r)
  BY <1>5
<1>9. /\ chain'.epochs # << >>
      /\ Len(chain'.epochs) = Len(chain.epochs) + 1
      /\ chain'.epochs[Len(chain'.epochs)].seq = SeqNo(chain) + 1
      /\ \A i \in DOMAIN chain'.epochs :
           /\ chain'.epochs[i].seq \in Nat
           /\ \/ i \in DOMAIN chain.epochs /\ chain'.epochs[i] = chain.epochs[i]
              \/ chain'.epochs[i].seq = SeqNo(chain) + 1
  <2>1. chain.epochs \in Seq(KeyEpoch) /\ chain'.epochs \in Seq(KeyEpoch)
    BY <1>6, StateFields DEF TypeOK
  <2>2. \A i \in DOMAIN chain'.epochs : chain'.epochs[i].seq \in Nat
    BY <1>6, EpochFields
  <2> QED
    BY <1>8, <2>1, <2>2
<1>10. \A i \in DOMAIN chain'.epochs :
         /\ chain'.epochs[i].seq <= SeqNo(chain)'
         /\ chain'.epochs[i].seq <= chain'.epochs[Len(chain'.epochs)].seq
  BY <1>6, <1>9 DEF IInv
<1>11. chain'.devices[by].status = "active"
  BY <1>1, <1>5 DEF ActiveDevices
<1>12. CurrentKeyHolders'
  BY <1>1, <1>2, <1>5, <1>11 DEF CurrentKeyHolders
<1>13. RevokedNeverSigns'
  <2> SUFFICES ASSUME NEW n \in DOMAIN authors', NEW i \in DOMAIN chain'.epochs
               PROVE  ~ /\ chain'.devices[authors'[n]].status = "revoked"
                        /\ chain'.devices[authors'[n]].revokedSeq <= chain'.epochs[i].seq
                        /\ chain'.epochs[i].seq < n
    BY DEF RevokedNeverSigns
  <2>1. CASE n = SeqNo(chain) + 1
    BY <1>6, <1>11, <2>1
  <2>2. CASE n \in 1..SeqNo(chain)
    BY <1>5, <1>6, <1>9, <2>2, PastSigners DEF IInv
  <2> QED
    BY <1>6, <2>1, <2>2
<1> QED
  BY <1>2, <1>5, <1>6, <1>7, <1>9, <1>10, <1>12, <1>13 DEF IInv

\* The first link: nobody has signed anything, and nobody is revoked.
LEMMA InitStep ==
    ASSUME IInv, NEW by \in Devices, InitAccount(by)
    PROVE  IInv'
<1> TypeOK
  BY DEF IInv
<1>1. PICK k \in FreshKeys :
        /\ Offer(by, "init", [key |-> k, rootSig |-> k], {k})
        /\ held' = [held EXCEPT ![by] = @ \cup {k}]
  BY DEF InitAccount
<1> DEFINE body == [key |-> k, rootSig |-> k]
<1>2. /\ k \in Keys /\ {k} \in SUBSET Keys
      /\ held' \in [Devices -> SUBSET Keys]
  BY <1>1 DEF FreshKeys, TypeOK
<1>3. BodyOK("init", body) /\ "init" \in Types /\ body.key = k
  BY <1>2 DEF BodyOK, Bodies, InitBody, Types
<1> HIDE DEF body
<1>4. Offer(by, "init", body, {k})
  BY <1>1 DEF body
<1>5. /\ SeqNo(chain) = 0
      /\ chain'.devices = chain.devices /\ chain'.key = k
      /\ \E r \in KeyEpoch : r.seq = 1 /\ chain'.epochs = <<r>>
  BY <1>2, <1>3, <1>4, OfferEffect
<1>6. /\ chain' \in State
      /\ SeqNo(chain)' = SeqNo(chain) + 1
      /\ chain'.links # << >>
      /\ authors' \in Seq(Devices) /\ Len(authors') = SeqNo(chain)'
      /\ signers' \in Seq(SUBSET Keys) /\ Len(signers') = SeqNo(chain)'
  BY <1>2, <1>3, <1>4, OfferType
<1>7. TypeOK'
  BY <1>2, <1>6 DEF TypeOK
<1>8. /\ chain'.epochs # << >> /\ Len(chain'.epochs) = 1
      /\ \A i \in DOMAIN chain'.epochs : i = 1 /\ chain'.epochs[i].seq = 1
  BY <1>5
<1>9. chain.links = << >>
  <2>1. chain.links \in Seq(Link)
    BY StateFields DEF TypeOK
  <2> QED
    BY <1>5, <2>1 DEF SeqNo
<1>10. \A d \in Devices : chain'.devices[d].status # "revoked"
  BY <1>5, <1>9 DEF IInv
<1>11. CurrentKeyHolders'
  BY <1>10 DEF CurrentKeyHolders
<1>12. RevokedNeverSigns'
  <2>1. \A n \in DOMAIN authors' : authors'[n] \in Devices
    BY <1>6
  <2> QED
    BY <1>10, <2>1 DEF RevokedNeverSigns
<1> QED
  BY <1>2, <1>5, <1>6, <1>7, <1>8, <1>11, <1>12 DEF IInv

\* Learning the current key is for devices that are not revoked.
LEMMA LearnStep ==
    ASSUME IInv, NEW d \in Devices, Recover(d) \/ OpenBox(d)
    PROVE  IInv'
<1>1. /\ chain.devices[d].status # "revoked"
      /\ held' = [held EXCEPT ![d] = @ \cup {chain.key}]
      /\ UNCHANGED <<chain, authors, signers, past>>
  BY DEF Recover, OpenBox, ActiveDevices
<1>2. chain.key \in Keys
  <2>1. ASSUME chain.links = << >> PROVE FALSE
    <3>1. SeqNo(chain) = 0 /\ chain.devices[d].status = "absent"
      BY <2>1 DEF SeqNo, IInv
    <3> QED
      BY <3>1 DEF Recover, OpenBox, ActiveDevices
  <2> QED
    BY <2>1 DEF IInv
<1>3. TypeOK'
  BY <1>1, <1>2 DEF IInv, TypeOK, SeqNo
<1>4. CurrentKeyHolders'
  BY <1>1 DEF IInv, CurrentKeyHolders, TypeOK
<1>5. RevokedNeverSigns'
  BY <1>1 DEF IInv, RevokedNeverSigns
<1> QED
  BY <1>1, <1>3, <1>4, <1>5 DEF IInv, SeqNo

\* Any link but the first and a rotation is signed with one held key.
Held(by) ==
    \E type \in Types \ {"init", "ukey_rotate"} :
        \E body : BodyOK(type, body) /\ OfferWithHeldKey(by, type, body)

LEMMA HeldIs ==
    ASSUME NEW by \in Devices, NEW type \in Types \ {"init", "ukey_rotate"}, NEW body,
           BodyOK(type, body), OfferWithHeldKey(by, type, body)
    PROVE  Held(by)
  BY DEF Held

\* The actions of Next, by how their link is signed, if there is one.
LEMMA NextIs ==
    ASSUME Next
    PROVE  \E by \in Devices :
             InitAccount(by) \/ Recover(by) \/ OpenBox(by) \/ Rotate(by) \/ Held(by)
<1>1. PICK by \in Devices :
        \/ InitAccount(by) \/ Recover(by) \/ OpenBox(by) \/ Rotate(by)
        \/ \E d \in Devices : AddDevice(by, d) \/ RevokeDevice(by, d) \/ RenameDevice(by, d)
        \/ \E i \in Slots : AddSlot(by, i) \/ RemoveSlot(by, i)
        \/ \E i \in Delegates : AddDelegate(by, i) \/ RemoveDelegate(by, i)
        \/ \E i \in SecurityKeys : AddSecurityKey(by, i) \/ RemoveSecurityKey(by, i)
  BY DEF Next
<1>2. SUFFICES ASSUME TRUE PROVE InitAccount(by) \/ Recover(by) \/ OpenBox(by) \/ Rotate(by) \/ Held(by)
  OBVIOUS
<1>3. ASSUME NEW d \in Devices, AddDevice(by, d) PROVE Held(by)
  <2>1. PICK name \in Names, m \in Admissions :
          OfferWithHeldKey(by, "device_add",
            [device |-> d, proof |-> d, name |-> name, method |-> m[1],
             approvedBy |-> m[2], slot |-> m[3]])
    BY <1>3 DEF AddDevice
  <2>2. m[1] \in Methods /\ m[2] \in Devices \cup {None} /\ m[3] \in Slots \cup {None}
    BY DEF Admissions, Methods
  <2> DEFINE body == [device |-> d, proof |-> d, name |-> name, method |-> m[1],
                      approvedBy |-> m[2], slot |-> m[3]]
  <2>3. BodyOK("device_add", body) /\ "device_add" \in Types \ {"init", "ukey_rotate"}
    BY <2>2 DEF BodyOK, Bodies, DeviceAddBody, Types
  <2> HIDE DEF body
  <2>4. OfferWithHeldKey(by, "device_add", body)
    BY <2>1 DEF body
  <2> QED
    BY <2>3, <2>4, HeldIs
<1>4. ASSUME NEW d \in Devices, RevokeDevice(by, d) PROVE Held(by)
  <2>1. BodyOK("device_revoke", [device |-> d])
    BY DEF BodyOK, Bodies, DeviceRevokeBody
  <2> QED
    BY <1>4, <2>1, HeldIs DEF RevokeDevice, Types
<1>5. ASSUME NEW d \in Devices, RenameDevice(by, d) PROVE Held(by)
  <2>1. PICK name \in Names :
          OfferWithHeldKey(by, "device_rename", [device |-> d, name |-> name])
    BY <1>5 DEF RenameDevice
  <2>2. BodyOK("device_rename", [device |-> d, name |-> name])
    BY DEF BodyOK, Bodies, DeviceRenameBody
  <2> QED
    BY <2>1, <2>2, HeldIs DEF Types
<1>6. ASSUME NEW i \in Slots, AddSlot(by, i) PROVE Held(by)
  <2>1. PICK e \in Times :
          OfferWithHeldKey(by, "agent_slot_add", [slot |-> i, expires |-> e])
    BY <1>6 DEF AddSlot
  <2>2. BodyOK("agent_slot_add", [slot |-> i, expires |-> e])
    BY TimesAssumption DEF BodyOK, Bodies, AgentSlotAddBody
  <2> QED
    BY <2>1, <2>2, HeldIs DEF Types
<1>7. ASSUME NEW i \in Slots, RemoveSlot(by, i) PROVE Held(by)
  <2>1. BodyOK("agent_slot_remove", [slot |-> i])
    BY DEF BodyOK, Bodies, AgentSlotRemoveBody
  <2> QED
    BY <1>7, <2>1, HeldIs DEF RemoveSlot, Types
<1>8. ASSUME NEW i \in Delegates, AddDelegate(by, i) \/ RemoveDelegate(by, i) PROVE Held(by)
  <2>1. /\ BodyOK("delegate_add", [delegate |-> i])
        /\ BodyOK("delegate_remove", [delegate |-> i])
    BY DEF BodyOK, Bodies, DelegateBody
  <2> QED
    BY <1>8, <2>1, HeldIs DEF AddDelegate, RemoveDelegate, Types
<1>9. ASSUME NEW i \in SecurityKeys, AddSecurityKey(by, i) \/ RemoveSecurityKey(by, i)
       PROVE  Held(by)
  <2>1. /\ BodyOK("security_key_add", [securityKey |-> i])
        /\ BodyOK("security_key_remove", [securityKey |-> i])
    BY DEF BodyOK, Bodies, SecurityKeyBody
  <2> QED
    BY <1>9, <2>1, HeldIs DEF AddSecurityKey, RemoveSecurityKey, Types
<1> QED
  BY <1>1, <1>3, <1>4, <1>5, <1>6, <1>7, <1>8, <1>9

\* Every step preserves the inductive invariant: one case per kind of link.
LEMMA NextIInv == IInv /\ [Next]_vars => IInv'
<1> SUFFICES ASSUME IInv, [Next]_vars PROVE IInv'
  OBVIOUS
<1>1. CASE UNCHANGED vars
  BY <1>1 DEF IInv, vars, TypeOK, CurrentKeyHolders, RevokedNeverSigns, SeqNo
<1>2. CASE Next
  <2>1. PICK by \in Devices :
          InitAccount(by) \/ Recover(by) \/ OpenBox(by) \/ Rotate(by) \/ Held(by)
    BY <1>2, NextIs
  <2>2. CASE InitAccount(by)
    BY <2>2, InitStep
  <2>3. CASE Recover(by) \/ OpenBox(by)
    BY <2>3, LearnStep
  <2>4. CASE Rotate(by)
    BY <2>4, RotateStep
  <2>5. CASE Held(by)
    BY <2>5, HeldKeyStep DEF Held
  <2> QED
    BY <2>1, <2>2, <2>3, <2>4, <2>5
<1> QED
  BY <1>1, <1>2

\* Every reachable state is well typed, whatever links are offered.
THEOREM TypeCorrect == Spec => []TypeOK
<1>1. IInv => TypeOK
  BY DEF IInv
<1> QED
  BY <1>1, InitIInv, NextIInv, PTL DEF Spec

\* For any number of devices, keys and links: once a rotation left a device
\* out, or followed its revocation, the chain takes no link of that device.
THEOREM RevokedDevicesNeverSign == Spec => []RevokedNeverSigns
<1>1. IInv => RevokedNeverSigns
  BY DEF IInv
<1> QED
  BY <1>1, InitIInv, NextIInv, PTL DEF Spec

\* The current user key is on no device that was revoked before it was drawn.
THEOREM CurrentKeyIsNotOnRevoked == Spec => []CurrentKeyHolders
<1>1. IInv => CurrentKeyHolders
  BY DEF IInv
<1> QED
  BY <1>1, InitIInv, NextIInv, PTL DEF Spec

-----------------------------------------------------------------------------
(* What the chain says of the past.                                        *)

PastEntry == [devices: SUBSET Devices, delegates: SUBSET Delegates, slots: SUBSET Slots]

\* Epoch i is the one in force at position n: the newest that began by then.
InForce(s, i, n) ==
    /\ i \in DOMAIN s.epochs /\ s.epochs[i].seq <= n
    /\ \A j \in DOMAIN s.epochs : s.epochs[j].seq <= n => j <= i

\* The history of what was active follows the chain, which begins with init.
HistoryKept ==
    /\ past \in Seq(PastEntry) /\ Len(past) = SeqNo(chain)
    /\ SeqNo(chain) > 0 =>
         past[SeqNo(chain)] = ActiveIn(chain) /\ chain.links[1].type = "init"

\* Every position has its epoch, and the last one is that of the current key.
EpochsCover ==
    /\ \A n \in 1..SeqNo(chain) : \E i \in DOMAIN chain.epochs : InForce(chain, i, n)
    /\ SeqNo(chain) > 0 =>
         /\ chain.epochs[Len(chain.epochs)].key = chain.key
         /\ chain.epochs[Len(chain.epochs)].version = chain.ukv

\* The positions that the records of delegates and devices name.
PositionsKept ==
    /\ \A id \in Delegates :
         LET g == chain.delegates[id]
         IN  /\ g.status # "absent" => g.addedSeq \in 1..SeqNo(chain)
             /\ g.status = "active" => g.removedSeq = 0
             /\ g.status = "removed" => g.removedSeq \in 1..SeqNo(chain)
    /\ \A d \in Devices :
         LET r == chain.devices[d]
         IN  r.status # "absent" =>
               /\ r.addedSeq \in 2..SeqNo(chain)
               /\ r.method = "ssh_agent" => r.slot \in Slots /\ chain.slots[r.slot].status # "absent"

HInv ==
    /\ HistoryKept /\ EpochsCover /\ PositionsKept
    /\ EpochMatchesSignature /\ DelegateAtMatchesReplay /\ WaysEndWithKey
    /\ AdmittedByAuthority

\* What one link may do to one record: nothing, add it, or end or change an
\* active one.
DeviceMove(o, n, l, d) ==
    \/ n = o
    \/ /\ o.status = "absent" /\ n.status = "active" /\ n.addedSeq = l.seq
       /\ l.type = "device_add" /\ l.body.device = d
       /\ n.method = l.body.method /\ n.approvedBy = l.body.approvedBy /\ n.slot = l.body.slot
    \/ /\ o.status = "active" /\ n.status # "absent" /\ n.addedSeq = o.addedSeq
       /\ n.method = o.method /\ n.approvedBy = o.approvedBy /\ n.slot = o.slot

SlotMove(o, n, s, l, i) ==
    \/ n = o
    \/ /\ o.status = "absent" /\ n.status = "active" /\ n.ukv = s.ukv
       /\ l.type = "agent_slot_add" /\ l.body.slot = i
    \/ o.status = "active" /\ n.status = "inactive" /\ n.expires = o.expires /\ n.ukv = o.ukv

RecordMove(o, n, l) ==
    \/ n = o
    \/ o.status = "absent" /\ n.status = "active" /\ n.addedSeq = l.seq /\ n.removedSeq = 0
    \/ o.status = "active" /\ n.status = "removed" /\ n.addedSeq = o.addedSeq /\ n.removedSeq = l.seq

Moves(s, l, a) ==
    /\ \A d \in Devices : DeviceMove(s.devices[d], a.devices[d], l, d)
    /\ \A i \in Slots : SlotMove(s.slots[i], a.slots[i], s, l, i)
    /\ \A i \in Delegates : RecordMove(s.delegates[i], a.delegates[i], l)
    /\ \A i \in SecurityKeys : RecordMove(s.securityKeys[i], a.securityKeys[i], l)
    /\ a.ukv = l.ukv
    /\ l.type = "ukey_rotate" =>
         /\ \A i \in Slots : a.slots[i].status # "active"
         /\ \A i \in Delegates : a.delegates[i].status # "active"

\* A record that is written over keeps what the rule does not name.
LEMMA DeviceRecords ==
    ASSUME NEW o \in DeviceState, NEW n \in Nat, NEW name
    PROVE  LET r == [o EXCEPT !.status = "revoked", !.revokedSeq = n]
               q == [o EXCEPT !.name = name]
           IN  /\ r.status = "revoked" /\ q.status = o.status
               /\ r.addedSeq = o.addedSeq /\ r.method = o.method
               /\ r.approvedBy = o.approvedBy /\ r.slot = o.slot
               /\ q.addedSeq = o.addedSeq /\ q.method = o.method
               /\ q.approvedBy = o.approvedBy /\ q.slot = o.slot
  BY DEF DeviceState

LEMMA OtherRecords ==
    ASSUME NEW o \in SlotState, NEW g \in DelegateState, NEW n \in Nat
    PROVE  LET r == [o EXCEPT !.status = "inactive"]
               q == [g EXCEPT !.status = "removed", !.removedSeq = n]
           IN  /\ r.status = "inactive" /\ r.expires = o.expires /\ r.ukv = o.ukv
               /\ q.status = "removed" /\ q.removedSeq = n /\ q.addedSeq = g.addedSeq
  BY DEF SlotState, DelegateState

\* Each type of link, as its rule writes it.
LEMMA DeviceAddMoves ==
    ASSUME NEW s \in State, NEW l, WellFormed(l), l.type = "device_add", l.ukv = s.ukv, ValidDeviceAdd(s, l)
    PROVE  Moves(s, l, Apply(s, l))
<1> DEFINE a == Apply(s, l)
           i == l.body.device
           r == [status |-> "active", name |-> l.body.name, method |-> l.body.method,
                 approvedBy |-> l.body.approvedBy, slot |-> l.body.slot,
                 addedSeq |-> l.seq, revokedSeq |-> 0]
<1>1. i \in Devices /\ l.seq \in Nat
  BY DEF WellFormed, BodyOK, DeviceAddBody
<1>2. /\ a.devices = [s.devices EXCEPT ![i] = r]
      /\ a.slots = s.slots /\ a.delegates = s.delegates
      /\ a.securityKeys = s.securityKeys /\ a.ukv = s.ukv
  BY <1>1, StateFields DEF Apply, ApplyDeviceAdd, State
<1>3. DeviceMove(s.devices[i], r, l, i)
  BY <1>1, StateFields DEF DeviceMove, ValidDeviceAdd
<1> HIDE DEF r, a
<1> QED
  BY <1>1, <1>2, <1>3, StateFields DEF Moves, DeviceMove, SlotMove, RecordMove, a

LEMMA DeviceRevokeMoves ==
    ASSUME NEW s \in State, NEW l, WellFormed(l), l.type = "device_revoke", l.ukv = s.ukv, ValidDeviceRevoke(s, l)
    PROVE  Moves(s, l, Apply(s, l))
<1> DEFINE a == Apply(s, l)
           i == l.body.device
           r == [s.devices[i] EXCEPT !.status = "revoked", !.revokedSeq = l.seq]
<1>1. i \in Devices /\ l.seq \in Nat
  BY DEF WellFormed, BodyOK, DeviceRevokeBody
<1>2. /\ a.devices = [s.devices EXCEPT ![i] = r]
      /\ a.slots = s.slots /\ a.delegates = s.delegates
      /\ a.securityKeys = s.securityKeys /\ a.ukv = s.ukv
  BY <1>1, StateFields DEF Apply, ApplyDeviceRevoke, State
<1>3. DeviceMove(s.devices[i], r, l, i)
  BY <1>1, StateFields, DeviceRecords DEF DeviceMove, ValidDeviceRevoke, ActiveDevices
<1> HIDE DEF r, a
<1> QED
  BY <1>1, <1>2, <1>3, StateFields DEF Moves, DeviceMove, SlotMove, RecordMove, a

LEMMA DeviceRenameMoves ==
    ASSUME NEW s \in State, NEW l, WellFormed(l), l.type = "device_rename", l.ukv = s.ukv, ValidDeviceRename(s, l)
    PROVE  Moves(s, l, Apply(s, l))
<1> DEFINE a == Apply(s, l)
           i == l.body.device
           r == [s.devices[i] EXCEPT !.name = l.body.name]
<1>1. i \in Devices /\ l.seq \in Nat
  BY DEF WellFormed, BodyOK, DeviceRenameBody
<1>2. /\ a.devices = [s.devices EXCEPT ![i] = r]
      /\ a.slots = s.slots /\ a.delegates = s.delegates
      /\ a.securityKeys = s.securityKeys /\ a.ukv = s.ukv
  BY <1>1, StateFields DEF Apply, ApplyDeviceRename, State
<1>3. DeviceMove(s.devices[i], r, l, i)
  BY <1>1, StateFields, DeviceRecords DEF DeviceMove, ValidDeviceRename, ActiveDevices
<1> HIDE DEF r, a
<1> QED
  BY <1>1, <1>2, <1>3, StateFields DEF Moves, DeviceMove, SlotMove, RecordMove, a

LEMMA SlotAddMoves ==
    ASSUME NEW s \in State, NEW l, WellFormed(l), l.type = "agent_slot_add", l.ukv = s.ukv, ValidSlotAdd(s, l)
    PROVE  Moves(s, l, Apply(s, l))
<1> DEFINE a == Apply(s, l)
           i == l.body.slot
           r == [status |-> "active", expires |-> l.body.expires, ukv |-> s.ukv]
<1>1. i \in Slots /\ l.seq \in Nat
  BY DEF WellFormed, BodyOK, AgentSlotAddBody
<1>2. /\ a.slots = [s.slots EXCEPT ![i] = r]
      /\ a.devices = s.devices /\ a.delegates = s.delegates
      /\ a.securityKeys = s.securityKeys /\ a.ukv = s.ukv
  BY <1>1, StateFields DEF Apply, ApplySlotAdd, State
<1>3. SlotMove(s.slots[i], r, s, l, i)
  BY <1>1, StateFields DEF SlotMove, ValidSlotAdd
<1> HIDE DEF r, a
<1> QED
  BY <1>1, <1>2, <1>3, StateFields DEF Moves, DeviceMove, SlotMove, RecordMove, a

LEMMA SlotRemoveMoves ==
    ASSUME NEW s \in State, NEW l, WellFormed(l), l.type = "agent_slot_remove", l.ukv = s.ukv, ValidSlotRemove(s, l)
    PROVE  Moves(s, l, Apply(s, l))
<1> DEFINE a == Apply(s, l)
           i == l.body.slot
           r == [s.slots[i] EXCEPT !.status = "inactive"]
<1>1. i \in Slots /\ l.seq \in Nat
  BY DEF WellFormed, BodyOK, AgentSlotRemoveBody
<1>2. /\ a.slots = [s.slots EXCEPT ![i] = r]
      /\ a.devices = s.devices /\ a.delegates = s.delegates
      /\ a.securityKeys = s.securityKeys /\ a.ukv = s.ukv
  BY <1>1, StateFields DEF Apply, ApplySlotRemove, State
<1>3. SlotMove(s.slots[i], r, s, l, i)
  BY <1>1, StateFields, OtherRecords DEF SlotMove, ValidSlotRemove
<1> HIDE DEF r, a
<1> QED
  BY <1>1, <1>2, <1>3, StateFields DEF Moves, DeviceMove, SlotMove, RecordMove, a

LEMMA DelegateAddMoves ==
    ASSUME NEW s \in State, NEW l, WellFormed(l), l.type = "delegate_add", l.ukv = s.ukv, ValidDelegateAdd(s, l)
    PROVE  Moves(s, l, Apply(s, l))
<1> DEFINE a == Apply(s, l)
           i == l.body.delegate
           r == [status |-> "active", addedSeq |-> l.seq, removedSeq |-> 0]
<1>1. i \in Delegates /\ l.seq \in Nat
  BY DEF WellFormed, BodyOK, DelegateBody
<1>2. /\ a.delegates = [s.delegates EXCEPT ![i] = r]
      /\ a.devices = s.devices /\ a.slots = s.slots
      /\ a.securityKeys = s.securityKeys /\ a.ukv = s.ukv
  BY <1>1, StateFields DEF Apply, ApplyDelegateAdd, State
<1>3. RecordMove(s.delegates[i], r, l)
  BY <1>1, StateFields DEF RecordMove, ValidDelegateAdd
<1> HIDE DEF r, a
<1> QED
  BY <1>1, <1>2, <1>3, StateFields DEF Moves, DeviceMove, SlotMove, RecordMove, a

LEMMA DelegateRemoveMoves ==
    ASSUME NEW s \in State, NEW l, WellFormed(l), l.type = "delegate_remove", l.ukv = s.ukv, ValidDelegateRemove(s, l)
    PROVE  Moves(s, l, Apply(s, l))
<1> DEFINE a == Apply(s, l)
           i == l.body.delegate
           r == [s.delegates[i] EXCEPT !.status = "removed", !.removedSeq = l.seq]
<1>1. i \in Delegates /\ l.seq \in Nat
  BY DEF WellFormed, BodyOK, DelegateBody
<1>2. /\ a.delegates = [s.delegates EXCEPT ![i] = r]
      /\ a.devices = s.devices /\ a.slots = s.slots
      /\ a.securityKeys = s.securityKeys /\ a.ukv = s.ukv
  BY <1>1, StateFields DEF Apply, ApplyDelegateRemove, State
<1>3. RecordMove(s.delegates[i], r, l)
  BY <1>1, StateFields, OtherRecords DEF RecordMove, ValidDelegateRemove, ActiveDelegates
<1> HIDE DEF r, a
<1> QED
  BY <1>1, <1>2, <1>3, StateFields DEF Moves, DeviceMove, SlotMove, RecordMove, a

LEMMA SecurityKeyAddMoves ==
    ASSUME NEW s \in State, NEW l, WellFormed(l), l.type = "security_key_add", l.ukv = s.ukv, ValidSecurityKeyAdd(s, l)
    PROVE  Moves(s, l, Apply(s, l))
<1> DEFINE a == Apply(s, l)
           i == l.body.securityKey
           r == [status |-> "active", addedSeq |-> l.seq, removedSeq |-> 0]
<1>1. i \in SecurityKeys /\ l.seq \in Nat
  BY DEF WellFormed, BodyOK, SecurityKeyBody
<1>2. /\ a.securityKeys = [s.securityKeys EXCEPT ![i] = r]
      /\ a.devices = s.devices /\ a.slots = s.slots
      /\ a.delegates = s.delegates /\ a.ukv = s.ukv
  BY <1>1, StateFields DEF Apply, ApplySecurityKeyAdd, State
<1>3. RecordMove(s.securityKeys[i], r, l)
  BY <1>1, StateFields DEF RecordMove, ValidSecurityKeyAdd
<1> HIDE DEF r, a
<1> QED
  BY <1>1, <1>2, <1>3, StateFields DEF Moves, DeviceMove, SlotMove, RecordMove, a

LEMMA SecurityKeyRemoveMoves ==
    ASSUME NEW s \in State, NEW l, WellFormed(l), l.type = "security_key_remove", l.ukv = s.ukv, ValidSecurityKeyRemove(s, l)
    PROVE  Moves(s, l, Apply(s, l))
<1> DEFINE a == Apply(s, l)
           i == l.body.securityKey
           r == [s.securityKeys[i] EXCEPT !.status = "removed", !.removedSeq = l.seq]
<1>1. i \in SecurityKeys /\ l.seq \in Nat
  BY DEF WellFormed, BodyOK, SecurityKeyBody
<1>2. /\ a.securityKeys = [s.securityKeys EXCEPT ![i] = r]
      /\ a.devices = s.devices /\ a.slots = s.slots
      /\ a.delegates = s.delegates /\ a.ukv = s.ukv
  BY <1>1, StateFields DEF Apply, ApplySecurityKeyRemove, State
<1>3. RecordMove(s.securityKeys[i], r, l)
  BY <1>1, StateFields, OtherRecords DEF RecordMove, ValidSecurityKeyRemove, ActiveSecurityKeys
<1> HIDE DEF r, a
<1> QED
  BY <1>1, <1>2, <1>3, StateFields DEF Moves, DeviceMove, SlotMove, RecordMove, a

LEMMA RotateMoves ==
    ASSUME NEW s \in State, NEW l, WellFormed(l), l.type = "ukey_rotate"
    PROVE  Moves(s, l, Apply(s, l))
<1> DEFINE a == Apply(s, l)
           dr(d) == [s.devices[d] EXCEPT !.status = "revoked", !.revokedSeq = l.seq]
           gr(d) == [s.delegates[d] EXCEPT !.status = "removed", !.removedSeq = l.seq]
           sr(i) == [s.slots[i] EXCEPT !.status = "inactive"]
<1>1. l.seq \in Nat
  BY DEF WellFormed
<1>2. /\ a.devices = [d \in Devices |-> IF s.devices[d].status = "active" /\ d \notin l.body.keep
                                        THEN dr(d) ELSE s.devices[d]]
      /\ a.slots = [i \in Slots |-> IF s.slots[i].status = "active" THEN sr(i) ELSE s.slots[i]]
      /\ a.delegates = [i \in Delegates |->
                          IF s.delegates[i].status = "active" THEN gr(i) ELSE s.delegates[i]]
      /\ a.securityKeys = s.securityKeys /\ a.ukv = l.ukv
  BY DEF Apply, ApplyRotate, State
<1>3. \A d \in Devices : s.devices[d].status = "active" => DeviceMove(s.devices[d], dr(d), l, d)
  BY <1>1, StateFields, DeviceRecords DEF DeviceMove
<1>4. \A i \in Slots : s.slots[i].status = "active" =>
        SlotMove(s.slots[i], sr(i), s, l, i) /\ sr(i).status = "inactive"
  BY StateFields DEF SlotMove, SlotState
<1>5. \A i \in Delegates : s.delegates[i].status = "active" =>
        RecordMove(s.delegates[i], gr(i), l) /\ gr(i).status = "removed"
  BY <1>1, StateFields DEF RecordMove, DelegateState
<1> HIDE DEF a, dr, gr, sr
<1>6. \A d \in Devices : DeviceMove(s.devices[d], a.devices[d], l, d)
  BY <1>2, <1>3 DEF DeviceMove
<1>7. \A i \in Slots : SlotMove(s.slots[i], a.slots[i], s, l, i) /\ a.slots[i].status # "active"
  BY <1>2, <1>4 DEF SlotMove
<1>8. \A i \in Delegates : RecordMove(s.delegates[i], a.delegates[i], l) /\ a.delegates[i].status # "active"
  BY <1>2, <1>5 DEF RecordMove
<1>9. \A i \in SecurityKeys : RecordMove(s.securityKeys[i], a.securityKeys[i], l)
  BY <1>2 DEF RecordMove
<1> QED
  BY <1>2, <1>6, <1>7, <1>8, <1>9 DEF Moves, a

LEMMA InitMoves ==
    ASSUME NEW s \in State, NEW l, WellFormed(l), l.type = "init", l.ukv = 1
    PROVE  Moves(s, l, Apply(s, l))
<1>1. LET a == Apply(s, l)
      IN  /\ a.devices = s.devices /\ a.slots = s.slots /\ a.delegates = s.delegates
          /\ a.securityKeys = s.securityKeys /\ a.ukv = 1
  BY DEF Apply, ApplyInit, State
<1> QED
  BY <1>1 DEF Moves, DeviceMove, SlotMove, RecordMove

-----------------------------------------------------------------------------
(* A step of the specification is one link, or none.                       *)

Stored(l) == [type |-> l.type, ctime |-> l.ctime, ukv |-> l.ukv, body |-> l.body]

\* Who holds the account's key after the link, and since when.
KeyStep(l, a) ==
    /\ l.type = "init" <=> l.seq = 1
    /\ l.type = "init" =>
         /\ a.key = l.body.key
         /\ a.epochs = <<[version |-> 1, key |-> l.body.key, seq |-> l.seq]>>
    /\ l.type = "ukey_rotate" =>
         /\ a.key = l.body.key
         /\ a.epochs = Append(chain.epochs, [version |-> l.ukv, key |-> l.body.key, seq |-> l.seq])
    /\ l.type \notin {"init", "ukey_rotate"} => a.key = chain.key /\ a.epochs = chain.epochs

\* What an accepted link leaves of the chain before it, and of the histories.
LinkStep(l) ==
    /\ l.type \in Types /\ l.seq = SeqNo(chain) + 1
    /\ ValidNext(chain, l) /\ Moves(chain, l, chain')
    /\ chain'.links = Append(chain.links, Stored(l))
    /\ KeyStep(l, chain')
    /\ signers' = Append(signers, l.sigs)
    /\ past' = Append(past, ActiveIn(chain'))

LEMMA AnyMoves ==
    ASSUME NEW s \in State, NEW l, WellFormed(l), ValidNext(s, l), l.seq = SeqNo(s) + 1
    PROVE  /\ Moves(s, l, Apply(s, l))
           /\ l.type = "init" <=> l.seq = 1
<1>1. l.seq \in Nat /\ l.type \in Types
  BY DEF WellFormed
<1>2. CASE l.seq = 1
  <2>1. ValidInit(s, l)
    BY <1>2 DEF ValidNext
  <2> QED  BY <1>2, <2>1, InitMoves DEF ValidInit
<1>3. CASE l.seq # 1 /\ l.type = "ukey_rotate"
  BY <1>3, RotateMoves
<1>4. CASE l.seq # 1 /\ l.type # "ukey_rotate"
  <2>1. ValidApply(s, l) /\ SignedByCurrent(s, l) /\ l.ukv = s.ukv
    BY <1>4 DEF ValidNext, ValidApply, SignedByCurrent
  <2> QED
    BY <1>4, <2>1, DeviceAddMoves, DeviceRevokeMoves, DeviceRenameMoves, SlotAddMoves, SlotRemoveMoves,
       DelegateAddMoves, DelegateRemoveMoves, SecurityKeyAddMoves, SecurityKeyRemoveMoves DEF ValidApply
<1>5. l.seq # 1 => l.type # "init"
  BY DEF ValidNext, ValidApply
<1> QED
  BY <1>2, <1>3, <1>4, <1>5 DEF ValidNext, ValidInit

LEMMA OfferIsLink ==
    ASSUME TypeOK, NEW by \in Devices, NEW type \in Types, NEW body,
           NEW sigs \in SUBSET Keys, BodyOK(type, body), Offer(by, type, body, sigs)
    PROVE  chain' \in State /\ \E l : LinkStep(l)
<1>1. PICK t \in Times : LET l == NewLink(chain, type, body, t, sigs)
                         IN  ValidNext(chain, l) /\ chain' = NextState(chain, l)
  BY DEF Offer
<1> DEFINE l == NewLink(chain, type, body, t, sigs)
<1>2. t \in Nat /\ chain \in State /\ SeqNo(chain) \in Nat /\ chain.ukv \in Nat
  BY TimesAssumption, StateFields DEF TypeOK, SeqNo
<1>3. /\ l.type = type /\ l.body = body /\ l.sigs = sigs /\ l.seq = SeqNo(chain) + 1
      /\ l.ukv \in Nat
  BY <1>2 DEF NewLink
<1>4. WellFormed(l)
  <2>1. l \in [seq: Nat, prev: Seq(Link), ctime: Nat, type: Types, ukv: Nat,
               body: Bodies, sigs: SUBSET Keys]
    BY <1>2, <1>3, StateFields DEF NewLink, HeadHash, BodyOK
  <2> HIDE DEF l
  <2> QED  BY <1>3, <2>1 DEF WellFormed
<1> HIDE DEF l
<1>5. ValidNext(chain, l) /\ chain' = NextState(chain, l)
  BY <1>1 DEF l
<1> DEFINE a == Apply(chain, l)
           ls == Append(chain.links, Stored(l))
           time == l.ctime
<1>6. a \in State /\ a.links = chain.links
  BY <1>2, <1>4, ApplyEffect DEF Effect
<1>7. Moves(chain, l, a) /\ (l.type = "init" <=> l.seq = 1)
  BY <1>2, <1>3, <1>4, <1>5, AnyMoves
<1>8. KeyStep(l, a)
  <2>1. CASE l.type = "init"
    BY <1>2, <1>4, <1>7, <2>1, InitEffect DEF KeyStep
  <2>2. CASE l.type = "ukey_rotate"
    BY <1>2, <1>4, <1>7, <2>2, RotateEffect DEF KeyStep
  <2>3. CASE l.type \notin {"init", "ukey_rotate"}
    BY <1>2, <1>4, <1>7, <2>3, ApplyEffect DEF Effect, KeyStep
  <2> QED  BY <2>1, <2>2, <2>3
<1>9. chain' = [a EXCEPT !.links = ls, !.lastTime = time]
  BY <1>5, <1>6 DEF NextState, Stored, State
<1> HIDE DEF a, ls, time
<1>10. /\ chain'.links = ls /\ chain'.key = a.key /\ chain'.epochs = a.epochs
       /\ chain'.devices = a.devices /\ chain'.slots = a.slots /\ chain'.delegates = a.delegates
       /\ chain'.securityKeys = a.securityKeys /\ chain'.ukv = a.ukv
  BY <1>6, <1>9 DEF State
<1>11. Moves(chain, l, chain')
  BY <1>7, <1>10 DEF Moves
<1>12. signers' = Append(signers, l.sigs) /\ past' = Append(past, ActiveIn(chain'))
  BY <1>3 DEF Offer
<1>13. chain' \in State
  BY <1>2, <1>4, <1>5, NextStateEffect
<1> QED
  BY <1>3, <1>4, <1>5, <1>8, <1>10, <1>11, <1>12, <1>13 DEF LinkStep, KeyStep, WellFormed, ls

LEMMA StepIsLink ==
    ASSUME IInv, Next
    PROVE  \/ UNCHANGED <<chain, authors, signers, past>>
           \/ chain' \in State /\ \E l : LinkStep(l)
<1>1. PICK by \in Devices :
        InitAccount(by) \/ Recover(by) \/ OpenBox(by) \/ Rotate(by) \/ Held(by)
  BY NextIs
<1>2. TypeOK
  BY DEF IInv
<1>3. CASE InitAccount(by)
  <2>1. PICK k \in FreshKeys : Offer(by, "init", [key |-> k, rootSig |-> k], {k})
    BY <1>3 DEF InitAccount
  <2> DEFINE body == [key |-> k, rootSig |-> k]
  <2>2. BodyOK("init", body) /\ "init" \in Types /\ {k} \in SUBSET Keys
    BY DEF BodyOK, Bodies, InitBody, Types, FreshKeys
  <2> HIDE DEF body
  <2>3. Offer(by, "init", body, {k})
    BY <2>1 DEF body
  <2> QED  BY <1>2, <2>2, <2>3, OfferIsLink
<1>4. CASE Recover(by) \/ OpenBox(by)
  BY <1>4 DEF Recover, OpenBox
<1>5. CASE Rotate(by)
  <2>1. PICK old \in held[by], k \in FreshKeys, keep \in SUBSET Devices :
            Offer(by, "ukey_rotate", [key |-> k, keep |-> keep], {old, k})
    BY <1>5 DEF Rotate
  <2> DEFINE body == [key |-> k, keep |-> keep]
  <2>2. BodyOK("ukey_rotate", body) /\ "ukey_rotate" \in Types /\ {old, k} \in SUBSET Keys
    BY <1>2 DEF BodyOK, Bodies, UKeyRotateBody, Types, FreshKeys, TypeOK
  <2> HIDE DEF body
  <2>3. Offer(by, "ukey_rotate", body, {old, k})
    BY <2>1 DEF body
  <2> QED  BY <1>2, <2>2, <2>3, OfferIsLink
<1>6. CASE Held(by)
  <2>1. PICK type \in Types : \E body : BodyOK(type, body) /\ OfferWithHeldKey(by, type, body)
    BY <1>6 DEF Held
  <2>2. PICK body : BodyOK(type, body) /\ OfferWithHeldKey(by, type, body)
    BY <2>1
  <2>3. PICK k \in held[by] : Offer(by, type, body, {k})
    BY <2>2 DEF OfferWithHeldKey
  <2>4. {k} \in SUBSET Keys
    BY <1>2 DEF TypeOK
  <2> QED  BY <1>2, <2>2, <2>3, <2>4, OfferIsLink
<1> QED
  BY <1>1, <1>3, <1>4, <1>5, <1>6

-----------------------------------------------------------------------------
(* The chain only grows.                                                   *)

LEMMA HashStays ==
    ASSUME NEW links \in Seq(Link), NEW e, NEW n \in 0..Len(links)
    PROVE  SubSeq(Append(links, e), 1, n) = SubSeq(links, 1, n) /\ Len(SubSeq(links, 1, n)) = n
  OBVIOUS

\* Whatever a client has pinned stays in the chain, and no device, slot,
\* delegate or security key that is gone comes back.
LEMMA StepAppends == IInv /\ [Next]_vars => [AppendOnly]_vars
<1> SUFFICES ASSUME IInv, Next PROVE AppendOnly \/ UNCHANGED vars
  OBVIOUS
<1>1. chain \in State /\ chain.links \in Seq(Link)
  BY StateFields DEF IInv, TypeOK
<1>2. CASE UNCHANGED <<chain, authors, signers, past>>
  <2>1. \A n \in 0..SeqNo(chain) : CheckPin(chain, Hash(chain, n))
    BY <1>1 DEF CheckPin, Hash, SeqNo
  <2> QED  BY <1>2, <2>1 DEF AppendOnly
<1>3. ASSUME NEW l, LinkStep(l) PROVE AppendOnly
  <2>1. \A n \in 0..SeqNo(chain) : CheckPin(chain', Hash(chain, n))
    <3> TAKE n \in 0..SeqNo(chain)
    <3>1. chain'.links = Append(chain.links, Stored(l))
      BY <1>3 DEF LinkStep
    <3>2. Len(chain'.links) = Len(chain.links) + 1 /\ Len(chain.links) \in Nat
      BY <1>1, <3>1
    <3>3. /\ SubSeq(chain'.links, 1, n) = SubSeq(chain.links, 1, n)
          /\ Len(SubSeq(chain.links, 1, n)) = n
      BY <1>1, <3>1, HashStays DEF SeqNo
    <3> QED  BY <3>2, <3>3 DEF CheckPin, Hash, SeqNo
  <2>2. Moves(chain, l, chain')
    BY <1>3 DEF LinkStep
  <2> QED  BY <2>1, <2>2 DEF AppendOnly, Moves, DeviceMove, SlotMove, RecordMove
<1> QED
  BY <1>2, <1>3, StepIsLink

\* Whatever is offered, the chain only grows: links, epochs and who was removed
\* stay as they were (chain.Next, step).
THEOREM ChainOnlyGrows == Spec => AppendOnlyProperty
  BY InitIInv, NextIInv, StepAppends, PTL DEF Spec, AppendOnlyProperty

-----------------------------------------------------------------------------
(* Epochs at positions.                                                    *)

LEMMA EpochAtIs ==
    ASSUME NEW s \in State, NEW n, NEW i, InForce(s, i, n)
    PROVE  EpochAt(s, n) = s.epochs[i]
<1> DEFINE started == {j \in DOMAIN s.epochs : s.epochs[j].seq <= n}
           top == CHOOSE j \in started : \A k \in started : k <= j
<1>1. i \in started /\ \A k \in started : k <= i
  BY DEF InForce
<1>2. top \in started /\ \A k \in started : k <= top
  BY <1>1
<1>3. s.epochs \in Seq(KeyEpoch) /\ i \in Nat /\ top \in Nat
  BY <1>1, <1>2, StateFields
<1>4. top = i
  BY <1>1, <1>2, <1>3
<1> QED
  BY <1>4 DEF EpochAt

\* The links and histories that were there stay, and one of each is added.
LEMMA HistoryGrows ==
    ASSUME IInv, HistoryKept, NEW l, LinkStep(l)
    PROVE  LET N == SeqNo(chain)
           IN  /\ N \in Nat /\ SeqNo(chain)' = N + 1 /\ l.seq = N + 1
               /\ DOMAIN signers = 1..N /\ DOMAIN past = 1..N /\ DOMAIN chain.links = 1..N
               /\ DOMAIN signers' = 1..(N + 1) /\ DOMAIN past' = 1..(N + 1)
               /\ DOMAIN chain'.links = 1..(N + 1)
               /\ \A n \in 1..N : /\ chain'.links[n] = chain.links[n]
                                  /\ signers'[n] = signers[n] /\ past'[n] = past[n]
               /\ chain'.links[N + 1] = Stored(l) /\ signers'[N + 1] = l.sigs
               /\ past'[N + 1] = ActiveIn(chain')
               /\ Len(past') = N + 1
<1>1. chain.links \in Seq(Link) /\ signers \in Seq(SUBSET Keys) /\ Len(signers) = SeqNo(chain)
  BY StateFields DEF IInv, TypeOK
<1>2. past \in Seq(PastEntry) /\ Len(past) = SeqNo(chain)
  BY DEF HistoryKept
<1>3. /\ chain'.links = Append(chain.links, Stored(l)) /\ signers' = Append(signers, l.sigs)
      /\ past' = Append(past, ActiveIn(chain')) /\ l.seq = SeqNo(chain) + 1
  BY DEF LinkStep
<1> QED
  BY <1>1, <1>2, <1>3 DEF SeqNo

LEMMA EpochsStay ==
    ASSUME IInv, HistoryKept, EpochsCover, NEW l, LinkStep(l), chain' \in State
    PROVE  LET N == SeqNo(chain)
           IN  /\ \A n \in 1..N : EpochAt(chain', n) = EpochAt(chain, n)
               /\ \A n \in 1..(N + 1) : \E i \in DOMAIN chain'.epochs : InForce(chain', i, n)
               /\ EpochAt(chain', N + 1) = chain'.epochs[Len(chain'.epochs)]
               /\ EpochAt(chain', N + 1).key = chain'.key
               /\ EpochAt(chain', N + 1).version = l.ukv /\ chain'.ukv = l.ukv
               /\ N > 0 => EpochAt(chain, N).key = chain.key
               /\ l.type \notin {"init", "ukey_rotate"} => EpochAt(chain', N + 1) = EpochAt(chain, N)
<1> DEFINE N == SeqNo(chain)
           top == Len(chain.epochs)
           new == [version |-> l.ukv, key |-> l.body.key, seq |-> l.seq]
<1>1. /\ chain \in State /\ chain.epochs \in Seq(KeyEpoch) /\ chain'.epochs \in Seq(KeyEpoch)
      /\ N \in Nat /\ l.seq = N + 1 /\ chain'.ukv = l.ukv /\ KeyStep(l, chain')
  BY StateFields, HistoryGrows DEF IInv, TypeOK, LinkStep, Moves
<1>2. \A i \in DOMAIN chain.epochs : chain.epochs[i].seq \in Nat /\ chain.epochs[i].seq <= N
  BY <1>1, EpochFields DEF IInv
<1>3. ASSUME N > 0
      PROVE  /\ top \in DOMAIN chain.epochs /\ InForce(chain, top, N)
             /\ chain.epochs[top].key = chain.key /\ chain.epochs[top].version = chain.ukv
             /\ EpochAt(chain, N) = chain.epochs[top]
  <2>1. chain.epochs # << >>
    BY <1>3 DEF IInv, SeqNo
  <2>2. top \in DOMAIN chain.epochs
    BY <1>1, <2>1, EpochFields
  <2>3. InForce(chain, top, N)
    BY <1>1, <1>2, <2>2 DEF InForce
  <2> QED  BY <1>1, <1>3, <2>2, <2>3, EpochAtIs DEF EpochsCover
<1>4. CASE l.type = "init"
  <2>1. N = 0 /\ chain'.key = l.body.key
        /\ chain'.epochs = <<[version |-> 1, key |-> l.body.key, seq |-> l.seq]>>
    BY <1>1, <1>4 DEF KeyStep
  <2>2. l.ukv = 1
    BY <1>1, <2>1 DEF LinkStep, ValidNext, ValidInit
  <2>3. InForce(chain', 1, N + 1) /\ Len(chain'.epochs) = 1 /\ 1 \in DOMAIN chain'.epochs
    BY <1>1, <2>1 DEF InForce
  <2>4. EpochAt(chain', N + 1) = chain'.epochs[1]
    BY <2>3, EpochAtIs
  <2> QED  BY <1>1, <1>4, <2>1, <2>2, <2>3, <2>4
<1>5. CASE l.type = "ukey_rotate"
  <2>1. /\ N > 0 /\ chain'.key = l.body.key /\ chain'.epochs = Append(chain.epochs, new)
        /\ new.seq = N + 1 /\ new.key = l.body.key /\ new.version = l.ukv
    BY <1>1, <1>5 DEF KeyStep
  <2> HIDE DEF new
  <2>2. /\ Len(chain'.epochs) = top + 1 /\ top + 1 \in DOMAIN chain'.epochs
        /\ chain'.epochs[top + 1] = new
        /\ \A j \in DOMAIN chain.epochs : j \in DOMAIN chain'.epochs /\ chain'.epochs[j] = chain.epochs[j]
        /\ \A j \in DOMAIN chain'.epochs : j \in DOMAIN chain.epochs \/ j = top + 1
        /\ \A j \in DOMAIN chain'.epochs : j \in Nat /\ j <= top + 1
    BY <1>1, <2>1
  <2>3. ASSUME NEW n \in 1..N, NEW i, InForce(chain, i, n) PROVE InForce(chain', i, n)
    BY <1>1, <2>1, <2>2, <2>3 DEF InForce
  <2>4. \A n \in 1..N : \E i \in DOMAIN chain'.epochs :
            InForce(chain', i, n) /\ EpochAt(chain', n) = EpochAt(chain, n)
    <3> TAKE n \in 1..N
    <3>1. PICK i \in DOMAIN chain.epochs : InForce(chain, i, n)
      BY DEF EpochsCover
    <3>2. InForce(chain', i, n)
      BY <2>3, <3>1
    <3>3. EpochAt(chain', n) = chain'.epochs[i] /\ EpochAt(chain, n) = chain.epochs[i]
      BY <1>1, <3>1, <3>2, EpochAtIs
    <3> QED  BY <2>2, <3>1, <3>2, <3>3
  <2>5. InForce(chain', top + 1, N + 1)
    BY <1>1, <2>1, <2>2 DEF InForce
  <2>6. EpochAt(chain', N + 1) = new
    BY <2>2, <2>5, EpochAtIs
  <2>7. \A n \in 1..(N + 1) : \E i \in DOMAIN chain'.epochs : InForce(chain', i, n)
    <3> TAKE n \in 1..(N + 1)
    <3>1. CASE n \in 1..N
      BY <2>4, <3>1
    <3>2. CASE n = N + 1
      BY <2>2, <2>5, <3>2
    <3> QED  BY <1>1, <3>1, <3>2
  <2> QED  BY <1>1, <1>3, <1>5, <2>1, <2>2, <2>4, <2>6, <2>7
<1>6. CASE l.type \notin {"init", "ukey_rotate"}
  <2>1. N > 0 /\ chain'.key = chain.key /\ chain'.epochs = chain.epochs
    BY <1>1, <1>6 DEF KeyStep
  <2>2. l.ukv = chain.ukv
    BY <1>1, <1>6, <2>1 DEF LinkStep, ValidNext, ValidApply, SignedByCurrent
  <2>3. \A n \in 1..(N + 1), i \in DOMAIN chain.epochs :
            InForce(chain', i, n) <=> InForce(chain, i, n)
    BY <2>1 DEF InForce
  <2>4. \A n : EpochAt(chain', n) = EpochAt(chain, n)
    BY <2>1 DEF EpochAt
  <2>5. InForce(chain, top, N + 1)
    BY <1>1, <1>2, <1>3, <2>1 DEF InForce
  <2>6. EpochAt(chain, N + 1) = chain.epochs[top]
    BY <1>1, <2>5, EpochAtIs
  <2>7. \A n \in 1..(N + 1) : \E i \in DOMAIN chain.epochs : InForce(chain, i, n)
    BY <1>1, <1>3, <2>1, <2>5 DEF EpochsCover
  <2> QED  BY <1>1, <1>3, <1>6, <2>1, <2>2, <2>3, <2>4, <2>6, <2>7
<1>7. l.type = "init" \/ l.type = "ukey_rotate" \/ l.type \notin {"init", "ukey_rotate"}
  OBVIOUS
<1> QED
  BY <1>4, <1>5, <1>6, <1>7

-----------------------------------------------------------------------------
(* Each part of the invariant, one link later.                             *)

LEMMA HistoryKeptStep ==
    ASSUME IInv, HistoryKept, NEW l, LinkStep(l), chain' \in State
    PROVE  HistoryKept'
<1> DEFINE N == SeqNo(chain)
<1>1. /\ N \in Nat /\ SeqNo(chain)' = N + 1 /\ l.seq = N + 1 /\ Len(past') = N + 1
      /\ past'[N + 1] = ActiveIn(chain')
      /\ \A n \in 1..N : chain'.links[n] = chain.links[n]
      /\ chain'.links[N + 1] = Stored(l)
  BY HistoryGrows
<1>2. ActiveIn(chain') \in PastEntry
  BY DEF ActiveIn, PastEntry, ActiveDevices, ActiveDelegates
<1>3. past' \in Seq(PastEntry)
  BY <1>2 DEF HistoryKept, LinkStep
<1>4. chain'.links[1].type = "init"
  <2>1. CASE N = 0
    <3>1. l.type = "init"
      BY <1>1, <2>1 DEF LinkStep, KeyStep
    <3> QED  BY <1>1, <2>1, <3>1 DEF Stored
  <2>2. CASE N > 0
    BY <1>1, <2>2 DEF HistoryKept
  <2> QED  BY <1>1, <2>1, <2>2
<1> QED
  BY <1>1, <1>3, <1>4 DEF HistoryKept

LEMMA EpochsCoverStep ==
    ASSUME IInv, HistoryKept, EpochsCover, NEW l, LinkStep(l), chain' \in State
    PROVE  EpochsCover'
<1>1. SeqNo(chain)' = SeqNo(chain) + 1
  BY HistoryGrows
<1> QED
  BY <1>1, EpochsStay DEF EpochsCover

LEMMA PositionsKeptStep ==
    ASSUME IInv, HistoryKept, PositionsKept, NEW l, LinkStep(l), chain' \in State
    PROVE  PositionsKept'
<1> DEFINE N == SeqNo(chain)
<1>1. N \in Nat /\ SeqNo(chain)' = N + 1 /\ l.seq = N + 1
  BY HistoryGrows
<1>2. Moves(chain, l, chain')
  BY DEF LinkStep
<1>3. ASSUME NEW id \in Delegates
      PROVE  LET g == chain'.delegates[id]
             IN  /\ g.status # "absent" => g.addedSeq \in 1..(N + 1)
                 /\ g.status = "active" => g.removedSeq = 0
                 /\ g.status = "removed" => g.removedSeq \in 1..(N + 1)
  <2>1. RecordMove(chain.delegates[id], chain'.delegates[id], l)
    BY <1>2 DEF Moves
  <2> QED  BY <1>1, <2>1 DEF RecordMove, PositionsKept
<1>4. ASSUME NEW d \in Devices, chain'.devices[d].status # "absent"
      PROVE  LET r == chain'.devices[d]
             IN  /\ r.addedSeq \in 2..(N + 1)
                 /\ r.method = "ssh_agent" => r.slot \in Slots /\ chain'.slots[r.slot].status # "absent"
  <2> DEFINE o == chain.devices[d]
             r == chain'.devices[d]
  <2>1. DeviceMove(o, r, l, d)
    BY <1>2 DEF Moves
  <2>2. CASE o.status # "absent"
    <3>1. r.addedSeq = o.addedSeq /\ r.method = o.method /\ r.slot = o.slot
      BY <2>1, <2>2 DEF DeviceMove
    <3>2. r.addedSeq \in 2..(N + 1)
      BY <1>1, <2>2, <3>1 DEF PositionsKept
    <3>3. ASSUME r.method = "ssh_agent" PROVE r.slot \in Slots /\ chain'.slots[r.slot].status # "absent"
      <4>1. o.slot \in Slots /\ chain.slots[o.slot].status # "absent"
        BY <2>2, <3>1, <3>3 DEF PositionsKept
      <4>2. SlotMove(chain.slots[o.slot], chain'.slots[o.slot], chain, l, o.slot)
        BY <1>2, <4>1 DEF Moves
      <4> QED  BY <3>1, <4>1, <4>2 DEF SlotMove
    <3> QED  BY <3>2, <3>3
  <2>3. CASE o.status = "absent"
    <3>1. /\ l.type = "device_add" /\ r.addedSeq = l.seq
          /\ r.method = l.body.method /\ r.slot = l.body.slot
      BY <1>4, <2>1, <2>3 DEF DeviceMove
    <3>2. l.seq # 1
      BY <3>1 DEF LinkStep, KeyStep
    <3>3. ASSUME r.method = "ssh_agent" PROVE r.slot \in Slots /\ chain'.slots[r.slot].status # "absent"
      <4>1. UsableSlot(chain, l.body.slot, l.ctime)
        BY <3>1, <3>2, <3>3 DEF LinkStep, ValidNext, ValidApply, ValidDeviceAdd, ValidMethod
      <4>2. l.body.slot \in Slots /\ chain.slots[l.body.slot].status = "active"
        BY <4>1 DEF UsableSlot
      <4>3. SlotMove(chain.slots[l.body.slot], chain'.slots[l.body.slot], chain, l, l.body.slot)
        BY <1>2, <4>2 DEF Moves
      <4> QED  BY <3>1, <4>2, <4>3 DEF SlotMove
    <3> QED  BY <1>1, <3>1, <3>2, <3>3
  <2> QED  BY <2>2, <2>3
<1> QED
  BY <1>1, <1>3, <1>4 DEF PositionsKept

LEMMA EpochMatchesStep ==
    ASSUME IInv, HistoryKept, EpochsCover, EpochMatchesSignature, NEW l, LinkStep(l), chain' \in State
    PROVE  EpochMatchesSignature'
<1> DEFINE N == SeqNo(chain)
<1>1. /\ N \in Nat /\ l.seq = N + 1 /\ DOMAIN signers = 1..N /\ DOMAIN signers' = 1..(N + 1)
      /\ \A n \in 1..N : chain'.links[n] = chain.links[n] /\ signers'[n] = signers[n]
      /\ chain'.links[N + 1] = Stored(l) /\ signers'[N + 1] = l.sigs
  BY HistoryGrows
<1>2. /\ \A n \in 1..N : EpochAt(chain', n) = EpochAt(chain, n)
      /\ EpochAt(chain', N + 1).key = chain'.key /\ EpochAt(chain', N + 1).version = l.ukv
      /\ N > 0 => EpochAt(chain, N).key = chain.key
  BY EpochsStay
<1>3. ValidNext(chain, l) /\ KeyStep(l, chain')
  BY DEF LinkStep
<1>4. SUFFICES ASSUME NEW n \in 1..(N + 1)
               PROVE  /\ EpochAt(chain', n).key \in signers'[n]
                      /\ EpochAt(chain', n).version = chain'.links[n].ukv
                      /\ chain'.links[n].type = "ukey_rotate" =>
                           EpochAt(chain', n - 1).key \in signers'[n]
  BY <1>1 DEF EpochMatchesSignature
<1>5. CASE n = N + 1
  <2>1. EpochAt(chain', n).version = chain'.links[n].ukv /\ chain'.links[n].type = l.type
    BY <1>1, <1>2, <1>5 DEF Stored
  <2>2. CASE l.type = "init"
    BY <1>1, <1>2, <1>3, <1>5, <2>1, <2>2 DEF KeyStep, ValidNext, ValidInit
  <2>3. CASE l.type = "ukey_rotate"
    <3>1. N > 0 /\ {chain.key, l.body.key} \subseteq l.sigs /\ chain'.key = l.body.key
      BY <1>1, <1>3, <2>3 DEF KeyStep, ValidNext, ValidApply, ValidRotate
    <3>2. n - 1 = N /\ EpochAt(chain', N) = EpochAt(chain, N)
      BY <1>1, <1>2, <1>5, <3>1
    <3> QED  BY <1>1, <1>2, <1>5, <2>1, <3>1, <3>2
  <2>4. CASE l.type \notin {"init", "ukey_rotate"}
    <3>1. chain.key \in l.sigs /\ chain'.key = chain.key
      BY <1>3, <2>4 DEF KeyStep, ValidNext, ValidApply, SignedByCurrent
    <3> QED  BY <1>1, <1>2, <1>5, <2>1, <2>4, <3>1
  <2> QED  BY <2>2, <2>3, <2>4
<1>6. CASE n \in 1..N
  <2>1. /\ EpochAt(chain, n).key \in signers[n]
        /\ EpochAt(chain, n).version = chain.links[n].ukv
        /\ chain.links[n].type = "ukey_rotate" => EpochAt(chain, n - 1).key \in signers[n]
    BY <1>1, <1>6 DEF EpochMatchesSignature
  <2>2. chain.links[n].type = "ukey_rotate" => n - 1 \in 1..N
    BY <1>1, <1>6 DEF HistoryKept
  <2> QED  BY <1>1, <1>2, <1>6, <2>1, <2>2
<1> QED
  BY <1>1, <1>5, <1>6

LEMMA DelegatesAtStep ==
    ASSUME IInv, HistoryKept, PositionsKept, NEW l, LinkStep(l), chain' \in State, NEW id \in Delegates
    PROVE  /\ \A n \in 1..SeqNo(chain) :
                /\ DelegateAt(chain', id, n) <=> DelegateAt(chain, id, n)
                /\ DelegateAt(chain, id, n) => chain'.delegates[id].addedSeq = chain.delegates[id].addedSeq
           /\ DelegateAt(chain', id, SeqNo(chain) + 1) <=> chain'.delegates[id].status = "active"
<1> DEFINE N == SeqNo(chain)
           g == chain.delegates[id]
           h == chain'.delegates[id]
<1>1. N \in Nat /\ SeqNo(chain') = N + 1 /\ l.seq = N + 1
  BY HistoryGrows
<1>2. RecordMove(g, h, l)
  BY DEF LinkStep, Moves
<1>3. /\ g.status # "absent" => g.addedSeq \in 1..N
      /\ g.status = "active" => g.removedSeq = 0
      /\ g.status = "removed" => g.removedSeq \in 1..N
  BY DEF PositionsKept
<1>4. /\ g.status \in {"absent", "active", "removed"} /\ h.status \in {"absent", "active", "removed"}
      /\ g.addedSeq \in Nat /\ h.addedSeq \in Nat /\ g.removedSeq \in Nat /\ h.removedSeq \in Nat
  <2>1. g \in DelegateState /\ h \in DelegateState
    BY StateFields DEF IInv, TypeOK
  <2> HIDE DEF g, h
  <2> QED  BY <2>1 DEF DelegateState
<1> HIDE DEF g, h
<1>5. \A n \in 1..N : /\ DelegateAt(chain', id, n) <=> DelegateAt(chain, id, n)
                      /\ DelegateAt(chain, id, n) => h.addedSeq = g.addedSeq
  BY <1>1, <1>2, <1>3, <1>4 DEF DelegateAt, RecordMove, g, h
<1>6. DelegateAt(chain', id, N + 1) <=> h.status = "active"
  BY <1>1, <1>2, <1>3, <1>4 DEF DelegateAt, RecordMove, h
<1> QED
  BY <1>5, <1>6 DEF g, h

LEMMA DelegateAtStep ==
    ASSUME IInv, HistoryKept, PositionsKept, DelegateAtMatchesReplay, NEW l, LinkStep(l), chain' \in State
    PROVE  DelegateAtMatchesReplay'
<1> DEFINE N == SeqNo(chain)
<1>1. /\ N \in Nat /\ DOMAIN past = 1..N /\ DOMAIN past' = 1..(N + 1)
      /\ \A n \in 1..N : past'[n] = past[n]
      /\ past'[N + 1] = ActiveIn(chain')
  BY HistoryGrows
<1>2. SUFFICES ASSUME NEW id \in Delegates, NEW n \in 1..(N + 1)
               PROVE  DelegateAt(chain', id, n) <=> id \in past'[n].delegates
  BY <1>1 DEF DelegateAtMatchesReplay
<1>3. CASE n = N + 1
  BY <1>1, <1>3, DelegatesAtStep DEF ActiveIn, ActiveDelegates
<1>4. CASE n \in 1..N
  <2>1. DelegateAt(chain, id, n) <=> id \in past[n].delegates
    BY <1>1, <1>4 DEF DelegateAtMatchesReplay
  <2> QED  BY <1>1, <1>4, <2>1, DelegatesAtStep
<1> QED
  BY <1>1, <1>3, <1>4

LEMMA WaysEndStep ==
    ASSUME IInv, HistoryKept, EpochsCover, PositionsKept, WaysEndWithKey, NEW l, LinkStep(l),
           chain' \in State
    PROVE  WaysEndWithKey'
<1> DEFINE N == SeqNo(chain)
<1>1. /\ N \in Nat /\ l.seq = N + 1 /\ DOMAIN past = 1..N /\ DOMAIN past' = 1..(N + 1)
      /\ DOMAIN chain.links = 1..N /\ DOMAIN chain'.links = 1..(N + 1)
      /\ \A n \in 1..N : chain'.links[n] = chain.links[n]
      /\ chain'.links[N + 1] = Stored(l)
  BY HistoryGrows
<1>2. /\ \A n \in 1..N : EpochAt(chain', n) = EpochAt(chain, n)
      /\ EpochAt(chain', N + 1).key = chain'.key
      /\ chain'.ukv = l.ukv
      /\ l.type \notin {"init", "ukey_rotate"} => EpochAt(chain', N + 1) = EpochAt(chain, N)
  BY EpochsStay
<1>3. Moves(chain, l, chain') /\ ValidNext(chain, l) /\ KeyStep(l, chain')
  BY DEF LinkStep
<1>4. ASSUME NEW i \in Slots, chain'.slots[i].status = "active"
      PROVE  /\ chain'.slots[i].ukv = chain'.ukv
             /\ \E n \in 1..(N + 1) :
                  /\ chain'.links[n].type = "agent_slot_add" /\ chain'.links[n].body.slot = i
                  /\ EpochAt(chain', n).key = chain'.key
  <2>1. SlotMove(chain.slots[i], chain'.slots[i], chain, l, i) /\ l.type # "ukey_rotate"
    BY <1>3, <1>4 DEF Moves
  <2>2. CASE l.type = "init"
    <3>1. chain'.slots[i] = chain.slots[i] /\ N = 0
      BY <1>1, <1>3, <1>4, <2>1, <2>2 DEF SlotMove, KeyStep
    <3> QED  BY <1>1, <1>4, <3>1 DEF WaysEndWithKey
  <2>3. CASE l.type # "init"
    <3>1. chain'.key = chain.key /\ l.ukv = chain.ukv
      BY <1>1, <1>3, <2>1, <2>3 DEF KeyStep, ValidNext, ValidApply, SignedByCurrent
    <3>2. CASE chain'.slots[i] = chain.slots[i]
      <4>1. chain.slots[i].status = "active" /\ chain'.slots[i].ukv = chain.slots[i].ukv
        BY <1>4, <3>2
      <4>2. /\ chain.slots[i].ukv = chain.ukv
            /\ \E n \in DOMAIN chain.links :
                 /\ chain.links[n].type = "agent_slot_add" /\ chain.links[n].body.slot = i
                 /\ EpochAt(chain, n).key = chain.key
        BY <4>1, Zenon DEF WaysEndWithKey
      <4>3. PICK n \in DOMAIN chain.links :
              /\ chain.links[n].type = "agent_slot_add" /\ chain.links[n].body.slot = i
              /\ EpochAt(chain, n).key = chain.key
        BY <4>2, Zenon
      <4>4. n \in 1..N /\ n \in 1..(N + 1)
        BY <1>1, <4>3
      <4>5. chain'.links[n] = chain.links[n] /\ EpochAt(chain', n) = EpochAt(chain, n)
        BY <1>1, <1>2, <4>4, Zenon
      <4>6. /\ chain'.links[n].type = "agent_slot_add" /\ chain'.links[n].body.slot = i
            /\ EpochAt(chain', n).key = chain'.key
        BY <3>1, <4>3, <4>5, Zenon
      <4>7. chain'.slots[i].ukv = chain'.ukv
        BY <1>2, <3>1, <4>1, <4>2, Zenon
      <4> QED  BY <4>4, <4>6, <4>7, Zenon
    <3>3. CASE chain'.slots[i] # chain.slots[i]
      <4>1. chain'.slots[i].ukv = chain.ukv /\ l.type = "agent_slot_add" /\ l.body.slot = i
        BY <1>4, <2>1, <3>3 DEF SlotMove
      <4>2. N + 1 \in 1..(N + 1)
        BY <1>1
      <4>3. chain'.links[N + 1].type = "agent_slot_add" /\ chain'.links[N + 1].body.slot = i
        BY <1>1, <4>1 DEF Stored
      <4> QED  BY <1>2, <3>1, <4>1, <4>2, <4>3
    <3> QED  BY <3>2, <3>3
  <2> QED  BY <2>2, <2>3
<1>5. ASSUME NEW id \in Delegates, NEW n \in 1..(N + 1), DelegateAt(chain', id, n)
      PROVE  EpochAt(chain', n) = EpochAt(chain', chain'.delegates[id].addedSeq)
  <2> DEFINE g == chain.delegates[id]
             h == chain'.delegates[id]
  <2>1. CASE n \in 1..N
    <3>1. DelegateAt(chain, id, n) /\ h.addedSeq = g.addedSeq
      BY <1>5, <2>1, DelegatesAtStep
    <3>2. g.addedSeq \in 1..N
      BY <3>1 DEF DelegateAt, PositionsKept
    <3>3. EpochAt(chain, n) = EpochAt(chain, g.addedSeq)
      BY <1>1, <2>1, <3>1 DEF WaysEndWithKey
    <3> QED  BY <1>2, <2>1, <3>1, <3>2, <3>3
  <2>2. CASE n = N + 1
    <3>1. h.status = "active"
      BY <1>5, <2>2, DelegatesAtStep
    <3>2. RecordMove(g, h, l) /\ l.type # "ukey_rotate"
      BY <1>3, <3>1 DEF Moves
    <3>3. CASE h = g
      <4>1. g.addedSeq \in 1..N /\ g.removedSeq = 0 /\ g.status = "active"
        BY <3>1, <3>3 DEF PositionsKept
      <4>2. N > 0 /\ N \in 1..N /\ g.addedSeq <= N
        BY <1>1, <4>1
      <4>3. DelegateAt(chain, id, N)
        BY <4>1, <4>2 DEF DelegateAt
      <4>4. EpochAt(chain, N) = EpochAt(chain, g.addedSeq)
        BY <1>1, <4>2, <4>3 DEF WaysEndWithKey
      <4>5. l.type # "init"
        BY <1>1, <1>3, <4>2 DEF KeyStep
      <4> QED  BY <1>2, <2>2, <3>2, <3>3, <4>1, <4>4, <4>5
    <3>4. CASE h # g
      <4>1. h.addedSeq = l.seq
        BY <3>1, <3>2, <3>4 DEF RecordMove
      <4> QED  BY <1>1, <2>2, <4>1
    <3> QED  BY <3>3, <3>4
  <2> QED  BY <1>1, <2>1, <2>2
<1> QED
  BY <1>1, <1>4, <1>5 DEF WaysEndWithKey

\* The authority that let device d in, as the record and the history say.
Admitted(d) ==
    LET r == chain.devices[d]
        before == past[r.addedSeq - 1]
    IN  \/ r.method = "first" /\ before.devices = {}
        \/ r.method = "recovery"
        \/ r.method = "approval" /\ r.approvedBy \in before.devices
        \/ /\ r.method = "ssh_agent"
           /\ chain.links[r.addedSeq].ctime < chain.slots[r.slot].expires
           /\ r.slot \in before.slots
           /\ chain.slots[r.slot].ukv = EpochAt(chain, r.addedSeq).version

LEMMA AdmittedStays ==
    ASSUME IInv, HistoryKept, EpochsCover, PositionsKept, NEW l, LinkStep(l), chain' \in State,
           NEW d \in Devices, chain.devices[d].status # "absent", Admitted(d)
    PROVE  Admitted(d)'
<1> DEFINE N == SeqNo(chain)
           r == chain.devices[d]
           q == chain'.devices[d]
<1>1. /\ N \in Nat /\ \A n \in 1..N : chain'.links[n] = chain.links[n] /\ past'[n] = past[n]
      /\ \A n \in 1..N : EpochAt(chain', n) = EpochAt(chain, n)
  BY HistoryGrows, EpochsStay
<1>2. DeviceMove(r, q, l, d) /\ \A i \in Slots : SlotMove(chain.slots[i], chain'.slots[i], chain, l, i)
  BY DEF LinkStep, Moves
<1>3. q.addedSeq = r.addedSeq /\ q.method = r.method /\ q.approvedBy = r.approvedBy /\ q.slot = r.slot
  BY <1>2 DEF DeviceMove
<1>4. r.addedSeq \in 1..N /\ r.addedSeq - 1 \in 1..N
  BY <1>1 DEF PositionsKept
<1>5. /\ past'[q.addedSeq - 1] = past[r.addedSeq - 1]
      /\ chain'.links[q.addedSeq] = chain.links[r.addedSeq]
      /\ EpochAt(chain', q.addedSeq) = EpochAt(chain, r.addedSeq)
  BY <1>1, <1>3, <1>4
<1>6. ASSUME r.method = "ssh_agent"
      PROVE  /\ chain'.slots[r.slot].expires = chain.slots[r.slot].expires
             /\ chain'.slots[r.slot].ukv = chain.slots[r.slot].ukv
  <2>1. r.slot \in Slots /\ chain.slots[r.slot].status # "absent"
    BY <1>6 DEF PositionsKept
  <2> QED  BY <1>2, <2>1 DEF SlotMove
<1> QED
  BY <1>3, <1>5, <1>6 DEF Admitted

LEMMA AdmittedStep ==
    ASSUME IInv, HistoryKept, EpochsCover, PositionsKept, AdmittedByAuthority, NEW l, LinkStep(l),
           chain' \in State
    PROVE  AdmittedByAuthority'
<1> DEFINE N == SeqNo(chain)
<1>1. SUFFICES ASSUME NEW d \in Devices, chain'.devices[d].status # "absent" PROVE Admitted(d)'
  BY DEF AdmittedByAuthority, Admitted
<1>2. CASE chain.devices[d].status # "absent"
  BY <1>2, AdmittedStays DEF AdmittedByAuthority, Admitted
<1>3. CASE chain.devices[d].status = "absent"
  <2> DEFINE q == chain'.devices[d]
  <2>1. /\ N \in Nat /\ l.seq = N + 1 /\ chain'.links[N + 1] = Stored(l)
        /\ \A n \in 1..N : past'[n] = past[n]
    BY HistoryGrows
  <2>2. DeviceMove(chain.devices[d], q, l, d) /\ ValidNext(chain, l) /\ KeyStep(l, chain')
    BY DEF LinkStep, Moves
  <2>3. /\ l.type = "device_add" /\ q.addedSeq = N + 1 /\ q.method = l.body.method
        /\ q.approvedBy = l.body.approvedBy /\ q.slot = l.body.slot
    BY <1>1, <1>3, <2>1, <2>2 DEF DeviceMove
  <2>4. N > 0 /\ N \in 1..N /\ q.addedSeq - 1 = N
    BY <2>1, <2>2, <2>3 DEF KeyStep
  <2>5. past'[q.addedSeq - 1] = ActiveIn(chain)
    BY <2>1, <2>4 DEF HistoryKept
  <2>6. ValidMethod(chain, l) /\ l.ukv = chain.ukv
    BY <2>1, <2>2, <2>3, <2>4 DEF ValidNext, ValidApply, SignedByCurrent, ValidDeviceAdd
  <2>7. CASE l.body.method = "first"
    <3>1. ActiveDevices(chain) = {}
      BY <2>6, <2>7 DEF ValidMethod, ActiveDevices
    <3> QED  BY <2>3, <2>5, <2>7, <3>1 DEF Admitted, ActiveIn
  <2>8. CASE l.body.method = "recovery"
    BY <2>3, <2>8 DEF Admitted
  <2>9. CASE l.body.method = "approval"
    <3>1. l.body.approvedBy \in ActiveDevices(chain)
      BY <2>6, <2>9 DEF ValidMethod
    <3> QED  BY <2>3, <2>5, <2>9, <3>1 DEF Admitted, ActiveIn
  <2>10. CASE l.body.method = "ssh_agent"
    <3> DEFINE i == l.body.slot
    <3>1. /\ i \in Slots /\ chain.slots[i].status = "active" /\ l.ctime < chain.slots[i].expires
          /\ chain.slots[i].ukv = chain.ukv
      BY <2>6, <2>10 DEF ValidMethod, UsableSlot
    <3>2. chain'.slots[i].expires = chain.slots[i].expires /\ chain'.slots[i].ukv = chain.slots[i].ukv
      BY <3>1 DEF LinkStep, Moves, SlotMove
    <3>3. EpochAt(chain', N + 1).version = l.ukv
      BY EpochsStay
    <3>4. chain'.links[q.addedSeq].ctime = l.ctime
      BY <2>1, <2>3 DEF Stored
    <3>5. i \in ActiveIn(chain).slots
      BY <3>1 DEF ActiveIn
    <3> QED  BY <2>3, <2>5, <2>6, <2>10, <3>1, <3>2, <3>3, <3>4, <3>5 DEF Admitted
  <2> QED  BY <2>6, <2>7, <2>8, <2>9, <2>10 DEF ValidMethod
<1> QED
  BY <1>2, <1>3

LEMMA InitHInv == Init => HInv
<1> SUFFICES ASSUME Init PROVE HInv
  OBVIOUS
<1>1. SeqNo(chain) = 0 /\ chain.links = << >> /\ chain.epochs = << >> /\ past = << >> /\ signers = << >>
  BY DEF Init, New, SeqNo
<1>2. /\ \A d \in Devices : chain.devices[d].status = "absent"
      /\ \A i \in Slots : chain.slots[i].status = "absent"
      /\ \A i \in Delegates : chain.delegates[i].status = "absent"
  BY DEF Init, New
<1>3. HistoryKept /\ EpochsCover /\ PositionsKept
  BY <1>1, <1>2 DEF HistoryKept, EpochsCover, PositionsKept
<1>4. EpochMatchesSignature /\ DelegateAtMatchesReplay
  BY <1>1 DEF EpochMatchesSignature, DelegateAtMatchesReplay
<1>5. WaysEndWithKey /\ AdmittedByAuthority
  BY <1>1, <1>2 DEF WaysEndWithKey, AdmittedByAuthority
<1> QED
  BY <1>3, <1>4, <1>5 DEF HInv

LEMMA NextHInv == IInv /\ HInv /\ [Next]_vars => HInv'
<1> SUFFICES ASSUME IInv, HInv, [Next]_vars PROVE HInv'
  OBVIOUS
<1>1. CASE UNCHANGED <<chain, authors, signers, past>>
  BY <1>1 DEF HInv, HistoryKept, EpochsCover, PositionsKept, InForce, EpochMatchesSignature,
     DelegateAtMatchesReplay, WaysEndWithKey, AdmittedByAuthority, SeqNo
<1>2. ASSUME NEW l, LinkStep(l), chain' \in State PROVE HInv'
  BY <1>2, HistoryKeptStep, EpochsCoverStep, PositionsKeptStep, EpochMatchesStep, DelegateAtStep,
     WaysEndStep, AdmittedStep DEF HInv
<1> QED
  BY <1>1, <1>2, StepIsLink DEF vars

LEMMA HInvHolds == Spec => []HInv
  BY InitIInv, NextIInv, InitHInv, NextHInv, PTL DEF Spec

\* Every link is signed by the key that EpochAt names for its position; a
\* rotation by the one before it too.
THEOREM EpochsNameTheSigner == Spec => []EpochMatchesSignature
<1>1. HInv => EpochMatchesSignature
  BY DEF HInv
<1> QED
  BY <1>1, HInvHolds, PTL

\* Every device was let in by an authority in force at that link.
THEOREM DevicesAreAdmitted == Spec => []AdmittedByAuthority
<1>1. HInv => AdmittedByAuthority
  BY DEF HInv
<1> QED
  BY <1>1, HInvHolds, PTL

\* Asked about a position, the newest State answers of delegates what the
\* State at that position answered.
THEOREM DelegatesAsReplayed == Spec => []DelegateAtMatchesReplay
<1>1. HInv => DelegateAtMatchesReplay
  BY DEF HInv
<1> QED
  BY <1>1, HInvHolds, PTL

\* No slot or delegate outlives the user key it was added under.
THEOREM WaysEndWithTheKey == Spec => []WaysEndWithKey
<1>1. HInv => WaysEndWithKey
  BY DEF HInv
<1> QED
  BY <1>1, HInvHolds, PTL
=============================================================================
