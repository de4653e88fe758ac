------------------------------ MODULE UserChain ------------------------------
(***************************************************************************)
(* The life of one user chain.  Devices hold user keys; whoever holds a    *)
(* key may sign any link with it, so a device that was revoked keeps       *)
(* offering links with the keys it has.  The chain takes the links that    *)
(* State.Next accepts.  Which keys a device holds follows the client code: *)
(* the phrase or an unlock slot gives a new device the current key, a      *)
(* rotation's author draws the next one, and an active device receives it  *)
(* in its box.                                                             *)
(***************************************************************************)
EXTENDS ChainRules

CONSTANTS Times    \* the times a link may carry

ASSUME TimesAssumption == Times \subseteq Nat \ {0}

VARIABLES
    chain,    \* the verified State
    held,     \* held[d]: the user keys device d has
    authors,  \* history: the device that signed link n
    signers,  \* history: the keys that signed link n
    past      \* history: what was active once the chain had n links

vars == <<chain, held, authors, signers, past>>

Init ==
    /\ chain = New
    /\ held = [d \in Devices |-> {}]
    /\ authors = << >>
    /\ signers = << >>
    /\ past = << >>

\* User keys are random: a new one is in no epoch and on no device.
FreshKeys ==
    Keys \ ({chain.epochs[i].key : i \in DOMAIN chain.epochs}
              \cup UNION {held[d] : d \in Devices})

ActiveIn(s) ==
    [devices |-> ActiveDevices(s), delegates |-> ActiveDelegates(s),
     slots |-> {i \in Slots : s.slots[i].status = "active"}]

\* Device by offers a link signed with its keys sigs, and the rules accept it.
Offer(by, type, body, sigs) ==
    /\ SeqNo(chain) < MaxLinks
    /\ \E t \in Times :
         LET l == NewLink(chain, type, body, t, sigs)
         IN  /\ ValidNext(chain, l)
             /\ chain' = NextState(chain, l)
    /\ authors' = Append(authors, by)
    /\ signers' = Append(signers, sigs)
    /\ past' = Append(past, ActiveIn(chain'))

\* Device by signs with one of the keys it holds.
OfferWithHeldKey(by, type, body) ==
    \E k \in held[by] :
      /\ Offer(by, type, body, {k})
      /\ UNCHANGED held

-----------------------------------------------------------------------------
\* createAccount draws the first user key and roots it in the phrase.
InitAccount(by) ==
    \E k \in FreshKeys :
      /\ Offer(by, "init", [key |-> k, rootSig |-> k], {k})
      /\ held' = [held EXCEPT ![by] = @ \cup {k}]

\* A device that is not in the chain yet gets the current key with the
\* recovery phrase (or, the key being the same, an unlock slot).
Recover(d) ==
    /\ SeqNo(chain) > 0
    /\ chain.devices[d].status = "absent"
    /\ chain.key \notin held[d]
    /\ held' = [held EXCEPT ![d] = @ \cup {chain.key}]
    /\ UNCHANGED <<chain, authors, signers, past>>

\* Mutant: a rotation makes boxes for revoked devices too.
OpenBoxEvenRevoked(d) ==
    /\ chain.devices[d].status # "absent"
    /\ chain.key \notin held[d]
    /\ held' = [held EXCEPT ![d] = @ \cup {chain.key}]
    /\ UNCHANGED <<chain, authors, signers, past>>

\* An active device opens the box that every rotation and every device_add
\* is committed with.
OpenBox(d) ==
    /\ d \in ActiveDevices(chain)
    /\ chain.key \notin held[d]
    /\ held' = [held EXCEPT ![d] = @ \cup {chain.key}]
    /\ UNCHANGED <<chain, authors, signers, past>>

\* The four ways in, as the clients fill in method, approver and slot.
Admissions ==
    {<<"first", None, None>>, <<"recovery", None, None>>}
      \cup {<<"approval", a, None>> : a \in Devices}
      \cup {<<"ssh_agent", None, i>> : i \in Slots}

AddDevice(by, d) ==
    \E name \in Names, m \in Admissions :
      OfferWithHeldKey(by, "device_add",
        [device |-> d, proof |-> d, name |-> name, method |-> m[1],
         approvedBy |-> m[2], slot |-> m[3]])

RevokeDevice(by, d) == OfferWithHeldKey(by, "device_revoke", [device |-> d])

RenameDevice(by, d) ==
    \E name \in Names :
      OfferWithHeldKey(by, "device_rename", [device |-> d, name |-> name])

AddSlot(by, i) ==
    \E e \in Times :
      OfferWithHeldKey(by, "agent_slot_add", [slot |-> i, expires |-> e])

RemoveSlot(by, i) == OfferWithHeldKey(by, "agent_slot_remove", [slot |-> i])

AddDelegate(by, i) == OfferWithHeldKey(by, "delegate_add", [delegate |-> i])

RemoveDelegate(by, i) == OfferWithHeldKey(by, "delegate_remove", [delegate |-> i])

AddSecurityKey(by, i) ==
    OfferWithHeldKey(by, "security_key_add", [securityKey |-> i])

RemoveSecurityKey(by, i) ==
    OfferWithHeldKey(by, "security_key_remove", [securityKey |-> i])

\* The rotating device is one of those that keep access, and draws a new key.
Rotate(by) ==
    \E old \in held[by], k \in FreshKeys, keep \in SUBSET Devices :
      /\ by \in keep
      /\ Offer(by, "ukey_rotate", [key |-> k, keep |-> keep], {old, k})
      /\ held' = [held EXCEPT ![by] = @ \cup {k}]

Next ==
    \E by \in Devices :
      \/ InitAccount(by)
      \/ Recover(by)
      \/ OpenBox(by)
      \/ Rotate(by)
      \/ \E d \in Devices :
           AddDevice(by, d) \/ RevokeDevice(by, d) \/ RenameDevice(by, d)
      \/ \E i \in Slots : AddSlot(by, i) \/ RemoveSlot(by, i)
      \/ \E i \in Delegates : AddDelegate(by, i) \/ RemoveDelegate(by, i)
      \/ \E i \in SecurityKeys : AddSecurityKey(by, i) \/ RemoveSecurityKey(by, i)

Spec == Init /\ [][Next]_vars

-----------------------------------------------------------------------------
(* Properties. *)

\* Types, and the histories are as long as the chain.
TypeOK ==
    /\ chain \in State
    /\ held \in [Devices -> SUBSET Keys]
    /\ authors \in Seq(Devices)
    /\ signers \in Seq(SUBSET Keys)
    /\ Len(authors) = SeqNo(chain)
    /\ Len(signers) = SeqNo(chain)

\* Once a rotation has left a device out, or followed its revocation, no link
\* of that device is accepted any more: it holds only replaced keys, and the
\* chain takes no link that a replaced key signed (chain.go: apply's Require,
\* applyRotate).
RevokedNeverSigns ==
    \A n \in DOMAIN authors :
      LET d == chain.devices[authors[n]]
      IN  ~ \E i \in DOMAIN chain.epochs :
              /\ d.status = "revoked"
              /\ d.revokedSeq <= chain.epochs[i].seq
              /\ chain.epochs[i].seq < n

\* The current key is on no device that was revoked before the key was drawn.
CurrentKeyHolders ==
    \A d \in Devices :
      (chain.key \in held[d] /\ chain.devices[d].status = "revoked") =>
        chain.devices[d].revokedSeq > chain.epochs[Len(chain.epochs)].seq

\* EpochAt names the key that other parties must check a position against:
\* every link carries the signature of the key that was current once it was
\* applied, and a rotation also that of the key before it.
EpochMatchesSignature ==
    \A n \in DOMAIN signers :
      /\ EpochAt(chain, n).key \in signers[n]
      /\ EpochAt(chain, n).version = chain.links[n].ukv
      /\ chain.links[n].type = "ukey_rotate" =>
           EpochAt(chain, n - 1).key \in signers[n]

\* Every device was let in by an authority that was in force at that link:
\* the founding of the account, the phrase, a device active at that position,
\* or a slot of that key epoch that had not expired at the link's time.
AdmittedByAuthority ==
    \A d \in Devices :
      LET r == chain.devices[d]
          before == past[r.addedSeq - 1]
      IN  r.status # "absent" =>
            \/ r.method = "first" /\ before.devices = {}
            \/ r.method = "recovery"
            \/ r.method = "approval" /\ r.approvedBy \in before.devices
            \/ /\ r.method = "ssh_agent"
               /\ chain.links[r.addedSeq].ctime < chain.slots[r.slot].expires
               /\ r.slot \in before.slots
               /\ chain.slots[r.slot].ukv = EpochAt(chain, r.addedSeq).version

\* What a position-indexed question answers from the newest State is what the
\* State at that position answered: DelegateAt against a replay.
DelegateAtMatchesReplay ==
    \A id \in Delegates, n \in DOMAIN past :
      DelegateAt(chain, id, n) <=> id \in past[n].delegates

\* Slots and delegates end with the user key (chain.go: applyRotate): whatever
\* was added or removed before, no active slot wraps an older key, and at no
\* position is a delegate in force under another key than where it was added.
WaysEndWithKey ==
    /\ \A i \in Slots : chain.slots[i].status = "active" =>
         /\ chain.slots[i].ukv = chain.ukv
         /\ \E n \in DOMAIN chain.links :
              /\ chain.links[n].type = "agent_slot_add" /\ chain.links[n].body.slot = i
              /\ EpochAt(chain, n).key = chain.key
    /\ \A id \in Delegates, n \in DOMAIN past :
         DelegateAt(chain, id, n) =>
           EpochAt(chain, n) = EpochAt(chain, chain.delegates[id].addedSeq)

\* A step never rewrites what a client may have pinned, and never brings back
\* a device, slot or delegate that is gone.
AppendOnly ==
    /\ \A n \in 0..SeqNo(chain) : CheckPin(chain', Hash(chain, n))
    /\ \A d \in Devices : chain.devices[d].status = "revoked" =>
         chain'.devices[d] = chain.devices[d]
    /\ \A i \in Slots : chain.slots[i].status = "inactive" =>
         chain'.slots[i] = chain.slots[i]
    /\ \A i \in Delegates : chain.delegates[i].status = "removed" =>
         chain'.delegates[i] = chain.delegates[i]
    /\ \A i \in SecurityKeys : chain.securityKeys[i].status = "removed" =>
         chain'.securityKeys[i] = chain.securityKeys[i]

AppendOnlyProperty == [][AppendOnly]_vars
=============================================================================
