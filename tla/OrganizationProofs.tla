-------------------------- MODULE OrganizationProofs --------------------------
(***************************************************************************)
(* Theorems about Organization, for any people, delegates, projects,       *)
(* clocks and bounds: the organisation stays governable, only its people   *)
(* get into its projects, and only who left it is taken out of them.       *)
(***************************************************************************)
EXTENDS Organization, TLAPS

-----------------------------------------------------------------------------
(* What every chain keeps true of itself.                                  *)

OneRole(os) == \A u \in Person : ~(Admin(os, u) /\ Member(os, u))

OwnersAreAdmins(os) == os.owners \subseteq ActiveAdmins(os)

DefaultIsApproved(os) == os.settings.defaultKMS # NoKey => os.kms[os.settings.defaultKMS] # NoKey

Sound(os) == OneRole(os) /\ OwnersAreAdmins(os) /\ DefaultIsApproved(os)

\* Before its first link a chain says nothing; from then on it has an owner.
Chain(os) ==
    /\ os \in OrgState /\ Sound(os)
    /\ IF HasChain(os) THEN Owners(os) # {} ELSE os = NewOrg

-----------------------------------------------------------------------------
(* The history, and what a chain says of removals.                         *)

Loss == [user: Person, seq: Nat, time: Nat, stays: BOOLEAN, keeps: BOOLEAN]

\* f is in the history for removal x of v.
Tells(f, v, x) == f.user = v /\ f.seq = x.removedSeq /\ f.time = x.removed /\ f.keeps = x.keeps

Latest(os, v, x) == \A other \in Removals(os, v) : other.removedSeq <= x.removedSeq

\* The history has every removal the chain still says; of someone who left,
\* the last one took them out.
LossesKnown(os, lost) ==
    \A v \in Person : \A x \in Removals(os, v) :
        /\ x.removedSeq <= os.seq
        /\ \E f \in lost : Tells(f, v, x) /\ (~In(os, v) /\ Latest(os, v, x) => ~f.stays)

-----------------------------------------------------------------------------
PlaceEntry == [in: BOOLEAN, admin: BOOLEAN, added: Nat]

Types ==
    /\ ns \in [kind: {"none", "team", "personal", "legacy"}, owner: Person \cup {NoDelegate}]
    /\ places \in [Place -> [Person -> PlaceEntry]]
    /\ keys \in [Person -> Nat \ {0}]
    /\ job \in [Person -> {"idle", "command", "sync"}]
    /\ trust \in [Person -> BOOLEAN]
    /\ now \in Nat
    /\ left \in SUBSET Loss

Inv ==
    /\ Types
    /\ Chain(org) /\ PersonalAlone /\ LossesKnown(org, left)
    /\ seen \in [Person -> OrgState] /\ \A u \in Person : LossesKnown(seen[u], left)

-----------------------------------------------------------------------------
(* Links, as they are decoded.                                             *)

LinkTypes == {"init", "owner_set", "admin_add", "member_add", "admin_remove",
              "member_remove", "kms_add", "kms_remove", "settings"}

BodyOK(type, b) ==
    /\ type = "init" => b.explicitOwners \in BOOLEAN
    /\ type \notin {"kms_add", "kms_remove", "settings"} => b.user \in Person
    /\ type = "owner_set" => b.owner \in BOOLEAN
    /\ type \in {"admin_add", "member_add"} => b.verified \in Verification
    /\ type = "member_remove" => b.keeps \in BOOLEAN
    /\ type \in {"kms_add", "kms_remove"} => b.name \in KeyName
    /\ type = "kms_add" => b.key \in KMSKey
    /\ type = "settings" => b.settings \in OrgSettings

LinkOK(l) ==
    /\ l.type \in LinkTypes /\ BodyOK(l.type, l.b)
    /\ l.seq \in Nat /\ l.signer \in Person /\ l.ver \in Nat /\ l.pos \in Nat
    /\ l.delegate \in Delegate \cup {NoDelegate} /\ l.time \in Nat

\* The removal that l makes leaves admin roles in projects and groups.
Keeping(l) == l.delegate # NoDelegate \/ (l.type = "member_remove" /\ l.b.keeps)

Names(x, l) == x.removedSeq = l.seq /\ x.removed = l.time /\ x.keeps = Keeping(l)

\* What a link does to one person: nothing, it lets them in, or they lose a
\* role, with an entry that names the link.
Stays(os, s, v) == Removals(s, v) = Removals(os, v) /\ (In(s, v) <=> In(os, v))

Joins(os, s, v) == In(s, v) /\ Removals(s, v) \subseteq Removals(os, v)

Loses(os, s, l, v) ==
    /\ LostRole(os, s, v)
    /\ \E x \in Removals(s, v) : x.removedSeq = l.seq
    /\ \A x \in Removals(s, v) : x \in Removals(os, v) \/ Names(x, l)

RoleMoves(os, s, l, v) == Stays(os, s, v) \/ Joins(os, s, v) \/ Loses(os, s, l, v)

Keeps(os, s, l) ==
    /\ s \in OrgState /\ Sound(s) /\ Owners(s) # {}
    /\ \A v \in Person : RoleMoves(os, s, l, v)

LEMMA NewEntryIs == NewEntry \in Entry /\ NewEntry.status = "active"
  BY DEF NewEntry, NoEntry, Entry

LEMMA NewOrgIs ==
    /\ NewOrg \in OrgState /\ ~HasChain(NewOrg) /\ NewOrg.seq = 0
    /\ \A u \in Person : ~In(NewOrg, u) /\ ~Admin(NewOrg, u) /\ ~Member(NewOrg, u)
                         /\ Removals(NewOrg, u) = {}
<1>1. NoEntry \in Entry /\ NoEntry.status = "none"
  BY DEF NoEntry, Entry
<1> DEFINE none == [u \in Person |-> NoEntry]
           st == [membersOnly |-> FALSE, githubProof |-> FALSE, noServerSigning |-> FALSE, defaultKMS |-> NoKey]
<1>2. none \in [Person -> Entry] /\ st \in OrgSettings
  BY <1>1 DEF OrgSettings
<1>3. NewOrg.admins = none /\ NewOrg.members = none /\ NewOrg.seq = 0
  BY DEF NewOrg
<1>4. NewOrg \in OrgState
  <2> HIDE DEF none, st
  <2>1. NewOrg = [seq |-> 0, last |-> 0, kind |-> "none", explicitOwners |-> FALSE, owners |-> {},
                  admins |-> none, members |-> none, kms |-> [n \in KeyName |-> NoKey],
                  settings |-> st, signed |-> {}, signerSeqs |-> [u \in Person |-> 0]]
    BY DEF NewOrg, none, st
  <2> QED  BY <1>2, <2>1 DEF OrgState
<1> QED
  BY <1>1, <1>3, <1>4 DEF HasChain, In, Admin, Member, Removals

\* What a removal writes over an entry.
LEMMA FormerIs ==
    ASSUME NEW e \in Entry, NEW l, LinkOK(l), NEW k \in BOOLEAN
    PROVE  LET x == Former(e, l, k)
           IN  /\ x \in Entry /\ x.status = "former" /\ x.removedSeq = l.seq
               /\ k = Keeping(l) => Names(x, l)
<1>1. [e EXCEPT !.status = "former", !.removedSeq = l.seq, !.removed = l.time, !.keeps = k]
        \in [status: {"none", "active", "former"}, removedSeq: Nat, removed: Nat, keeps: BOOLEAN]
  BY DEF Entry, LinkOK
<1>2. LET x == [e EXCEPT !.status = "former", !.removedSeq = l.seq, !.removed = l.time, !.keeps = k]
      IN  x.status = "former" /\ x.removedSeq = l.seq /\ x.removed = l.time /\ x.keeps = k
  BY DEF Entry
<1> QED
  BY <1>1, <1>2 DEF Former, Entry, Names

LEMMA AdminRemoveKeeps ==
    ASSUME NEW os, Chain(os), HasChain(os), NEW l, LinkOK(l), l.type = "admin_remove",
           ValidAdminRemove(os, l)
    PROVE  Keeps(os, ApplyAdminRemove(os, l), l)
<1> DEFINE w == l.b.user
           e == Former(os.admins[w], l, l.delegate # NoDelegate)
           s == ApplyAdminRemove(os, l)
<1>1. w \in Person /\ os \in OrgState /\ Sound(os) /\ Owners(os) # {}
  BY DEF LinkOK, BodyOK, Chain
<1>2. e \in Entry /\ e.status = "former" /\ Names(e, l)
  <2>1. os.admins[w] \in Entry /\ (l.delegate # NoDelegate) \in BOOLEAN
    BY <1>1 DEF OrgState
  <2>2. (l.delegate # NoDelegate) = Keeping(l)
    BY DEF Keeping
  <2> QED  BY <2>1, <2>2, FormerIs
<1>3. /\ s.admins = [os.admins EXCEPT ![w] = e] /\ s.owners = os.owners \ {w}
      /\ s.members = os.members /\ s.kms = os.kms /\ s.settings = os.settings
      /\ s.explicitOwners = os.explicitOwners
  BY DEF ApplyAdminRemove, OrgState, Chain
<1>4. s \in OrgState
  <2> HIDE DEF e
  <2>1. s = [os EXCEPT !.admins = [os.admins EXCEPT ![w] = e], !.owners = os.owners \ {w}]
    BY <1>1 DEF ApplyAdminRemove, OrgState, e
  <2>2. [os.admins EXCEPT ![w] = e] \in [Person -> Entry] /\ os.owners \ {w} \in SUBSET Person
    BY <1>1, <1>2 DEF OrgState
  <2> QED  BY <1>1, <2>1, <2>2 DEF OrgState
<1> HIDE DEF e, s
<1>5. \A v \in Person : /\ Admin(s, v) <=> Admin(os, v) /\ v # w
                        /\ Member(s, v) <=> Member(os, v)
  BY <1>1, <1>2, <1>3 DEF Admin, Member, OrgState
<1>6. Sound(s)
  BY <1>1, <1>3, <1>5 DEF Sound, OneRole, OwnersAreAdmins, DefaultIsApproved, ActiveAdmins, OrgState
<1>7. Owners(s) # {}
  <2>1. PICK o \in Owners(os) : o # w
    BY <1>1 DEF ValidAdminRemove, Owners
  <2>2. o \in Owners(s)
    BY <2>1, <1>3, <1>5 DEF Owners, Owner
  <2> QED  BY <2>2
<1>8. \A v \in Person : RoleMoves(os, s, l, v)
  <2> TAKE v \in Person
  <2>1. CASE v = w
    <3>1. LostRole(os, s, v)
      BY <2>1, <1>5 DEF LostRole, ValidAdminRemove
    <3>2. s.admins[v] = e /\ s.members[v] = os.members[v]
      BY <2>1, <1>1, <1>3 DEF OrgState
    <3> QED  BY <3>1, <3>2, <1>2 DEF RoleMoves, Loses, Removals, Names
  <2>2. CASE v # w
    <3>1. s.admins[v] = os.admins[v] /\ s.members[v] = os.members[v]
      BY <2>2, <1>1, <1>3 DEF OrgState
    <3> QED  BY <3>1 DEF RoleMoves, Stays, Removals, In, Admin, Member
  <2> QED  BY <2>1, <2>2
<1> QED
  BY <1>4, <1>6, <1>7, <1>8 DEF Keeps, s

LEMMA MemberRemoveKeeps ==
    ASSUME NEW os, Chain(os), HasChain(os), NEW l, LinkOK(l), l.type = "member_remove",
           ValidMemberRemove(os, l)
    PROVE  Keeps(os, ApplyMemberRemove(os, l), l)
<1> DEFINE w == l.b.user
           e == Former(os.members[w], l, l.delegate # NoDelegate \/ l.b.keeps)
           s == ApplyMemberRemove(os, l)
<1>1. w \in Person /\ os \in OrgState /\ Sound(os) /\ Owners(os) # {} /\ Member(os, w)
  BY DEF LinkOK, BodyOK, Chain, ValidMemberRemove
<1>2. e \in Entry /\ e.status = "former" /\ Names(e, l)
  <2>1. os.members[w] \in Entry /\ (l.delegate # NoDelegate \/ l.b.keeps) \in BOOLEAN
    BY <1>1 DEF OrgState
  <2>2. (l.delegate # NoDelegate \/ l.b.keeps) = Keeping(l)
    BY DEF Keeping
  <2> QED  BY <2>1, <2>2, FormerIs
<1>3. /\ s.members = [os.members EXCEPT ![w] = e]
      /\ s.admins = os.admins /\ s.owners = os.owners /\ s.kms = os.kms
      /\ s.settings = os.settings /\ s.explicitOwners = os.explicitOwners
  BY <1>1 DEF ApplyMemberRemove, OrgState
<1>4. s \in OrgState
  <2> HIDE DEF e
  <2>1. s = [os EXCEPT !.members = [os.members EXCEPT ![w] = e]]
    BY <1>1 DEF ApplyMemberRemove, OrgState, e
  <2>2. [os.members EXCEPT ![w] = e] \in [Person -> Entry]
    BY <1>1, <1>2 DEF OrgState
  <2> QED  BY <1>1, <2>1, <2>2 DEF OrgState
<1> HIDE DEF e, s
<1>5. \A v \in Person : /\ Admin(s, v) <=> Admin(os, v)
                        /\ Member(s, v) <=> Member(os, v) /\ v # w
  BY <1>1, <1>2, <1>3 DEF Admin, Member, OrgState
<1>6. Sound(s)
  BY <1>1, <1>3, <1>5 DEF Sound, OneRole, OwnersAreAdmins, DefaultIsApproved, ActiveAdmins, OrgState
<1>7. Owners(s) # {}
  <2>1. Owners(s) = Owners(os)
    BY <1>3, <1>5 DEF Owners, Owner
  <2> QED  BY <1>1, <2>1
<1>8. \A v \in Person : RoleMoves(os, s, l, v)
  <2> TAKE v \in Person
  <2>1. CASE v = w
    <3>1. LostRole(os, s, v)
      BY <2>1, <1>1, <1>5 DEF LostRole
    <3>2. s.members[v] = e /\ s.admins[v] = os.admins[v]
      BY <2>1, <1>1, <1>3 DEF OrgState
    <3> QED  BY <3>1, <3>2, <1>2 DEF RoleMoves, Loses, Removals, Names
  <2>2. CASE v # w
    <3>1. s.admins[v] = os.admins[v] /\ s.members[v] = os.members[v]
      BY <2>2, <1>1, <1>3 DEF OrgState
    <3> QED  BY <3>1 DEF RoleMoves, Stays, Removals, In, Admin, Member
  <2> QED  BY <2>1, <2>2
<1> QED
  BY <1>4, <1>6, <1>7, <1>8 DEF Keeps, s

LEMMA MemberAddKeeps ==
    ASSUME NEW os, Chain(os), HasChain(os), NEW l, LinkOK(l), l.type = "member_add", ValidAdd(os, l)
    PROVE  Keeps(os, ApplyAdd(os, l), l)
<1> DEFINE w == l.b.user
           s == ApplyAdd(os, l)
<1>1. w \in Person /\ os \in OrgState /\ Sound(os) /\ Owners(os) # {} /\ ~Admin(os, w)
  BY DEF LinkOK, BodyOK, Chain, ValidAdd
<1>2. s = [os EXCEPT !.members = [os.members EXCEPT ![w] = NewEntry]]
  BY <1>1 DEF ApplyAdd, OrgState
<1>3. /\ s.members = [os.members EXCEPT ![w] = NewEntry]
      /\ s.admins = os.admins /\ s.owners = os.owners /\ s.kms = os.kms
      /\ s.settings = os.settings /\ s.explicitOwners = os.explicitOwners
  BY <1>1, <1>2 DEF OrgState
<1>4. s \in OrgState
  <2>1. [os.members EXCEPT ![w] = NewEntry] \in [Person -> Entry]
    BY <1>1, NewEntryIs DEF OrgState
  <2> QED  BY <1>1, <1>2, <2>1 DEF OrgState
<1> HIDE DEF s
<1>5. \A v \in Person : /\ Admin(s, v) <=> Admin(os, v)
                        /\ Member(s, v) <=> Member(os, v) \/ v = w
  BY <1>1, <1>3, NewEntryIs DEF Admin, Member, OrgState
<1>6. Sound(s)
  BY <1>1, <1>3, <1>5 DEF Sound, OneRole, OwnersAreAdmins, DefaultIsApproved, ActiveAdmins, OrgState
<1>7. Owners(s) # {}
  <2>1. Owners(s) = Owners(os)
    BY <1>3, <1>5 DEF Owners, Owner
  <2> QED  BY <1>1, <2>1
<1>8. \A v \in Person : RoleMoves(os, s, l, v)
  <2> TAKE v \in Person
  <2>1. CASE v = w
    <3>1. s.members[v] = NewEntry /\ s.admins[v] = os.admins[v] /\ In(s, v)
      BY <2>1, <1>1, <1>3, <1>5 DEF OrgState, In
    <3> QED  BY <3>1, NewEntryIs DEF RoleMoves, Joins, Removals
  <2>2. CASE v # w
    <3>1. s.admins[v] = os.admins[v] /\ s.members[v] = os.members[v]
      BY <2>2, <1>1, <1>3 DEF OrgState
    <3> QED  BY <3>1 DEF RoleMoves, Stays, Removals, In, Admin, Member
  <2> QED  BY <2>1, <2>2
<1> QED
  BY <1>4, <1>6, <1>7, <1>8 DEF Keeps, s

LEMMA AdminAddKeeps ==
    ASSUME NEW os, Chain(os), HasChain(os), NEW l, LinkOK(l), l.type = "admin_add", ValidAdd(os, l)
    PROVE  Keeps(os, ApplyAdd(os, l), l)
<1> DEFINE w == l.b.user
           e == IF Member(os, w) THEN Former(os.members[w], l, l.delegate # NoDelegate)
                ELSE os.members[w]
           s == ApplyAdd(os, l)
<1>1. w \in Person /\ os \in OrgState /\ Sound(os) /\ Owners(os) # {} /\ ~Admin(os, w)
  BY DEF LinkOK, BodyOK, Chain, ValidAdd
<1>2. /\ e \in Entry /\ e.status # "active"
      /\ IF Member(os, w) THEN e.status = "former" /\ Names(e, l) ELSE e = os.members[w]
  <2>1. os.members[w] \in Entry /\ (l.delegate # NoDelegate) \in BOOLEAN
    BY <1>1 DEF OrgState
  <2>2. (l.delegate # NoDelegate) = Keeping(l)
    BY DEF Keeping
  <2>3. CASE Member(os, w)
    BY <2>1, <2>2, <2>3, FormerIs
  <2>4. CASE ~Member(os, w)
    BY <2>1, <2>4 DEF Member
  <2> QED  BY <2>3, <2>4
<1>3. s = [os EXCEPT !.admins = [os.admins EXCEPT ![w] = NewEntry],
                     !.members = [os.members EXCEPT ![w] = e]]
  <2>1. s = [os EXCEPT !.admins[w] = NewEntry,
                       !.members[w] = IF os.members[w].status = "active"
                                      THEN Former(os.members[w], l, l.delegate # NoDelegate)
                                      ELSE os.members[w]]
    BY <1>1 DEF ApplyAdd, OrgState
  <2> QED  BY <2>1, <1>1 DEF Member, OrgState
<1> HIDE DEF e, s
<1>4. /\ s.admins = [os.admins EXCEPT ![w] = NewEntry] /\ s.members = [os.members EXCEPT ![w] = e]
      /\ s.owners = os.owners /\ s.kms = os.kms
      /\ s.settings = os.settings /\ s.explicitOwners = os.explicitOwners
  BY <1>1, <1>3 DEF OrgState
<1>5. s \in OrgState
  <2>1. /\ [os.admins EXCEPT ![w] = NewEntry] \in [Person -> Entry]
        /\ [os.members EXCEPT ![w] = e] \in [Person -> Entry]
    BY <1>1, <1>2, NewEntryIs DEF OrgState
  <2> QED  BY <1>1, <1>3, <2>1 DEF OrgState
<1>6. \A v \in Person : /\ Admin(s, v) <=> Admin(os, v) \/ v = w
                        /\ Member(s, v) <=> Member(os, v) /\ v # w
  BY <1>1, <1>2, <1>4, NewEntryIs DEF Admin, Member, OrgState
<1>7. Sound(s)
  BY <1>1, <1>4, <1>6 DEF Sound, OneRole, OwnersAreAdmins, DefaultIsApproved, ActiveAdmins, OrgState
<1>8. Owners(s) # {}
  <2>1. Owners(os) \subseteq Owners(s)
    BY <1>4, <1>6 DEF Owners, Owner
  <2> QED  BY <1>1, <2>1
<1>9. \A v \in Person : RoleMoves(os, s, l, v)
  <2> TAKE v \in Person
  <2>1. CASE v = w
    <3>1. s.admins[v] = NewEntry /\ s.members[v] = e /\ In(s, v)
      BY <2>1, <1>1, <1>4, <1>6 DEF OrgState, In
    <3>2. CASE Member(os, w)
      <4>1. LostRole(os, s, v)
        BY <2>1, <3>2, <1>6 DEF LostRole
      <4> QED  BY <2>1, <3>1, <3>2, <4>1, <1>2, NewEntryIs DEF RoleMoves, Loses, Removals, Names
    <3>3. CASE ~Member(os, w)
      BY <2>1, <3>1, <3>3, <1>2, NewEntryIs DEF RoleMoves, Joins, Removals
    <3> QED  BY <3>2, <3>3
  <2>2. CASE v # w
    <3>1. s.admins[v] = os.admins[v] /\ s.members[v] = os.members[v]
      BY <2>2, <1>1, <1>4 DEF OrgState
    <3> QED  BY <3>1 DEF RoleMoves, Stays, Removals, In, Admin, Member
  <2> QED  BY <2>1, <2>2
<1> QED
  BY <1>5, <1>7, <1>8, <1>9 DEF Keeps, s

LEMMA SameRoles ==
    ASSUME NEW os, NEW s, NEW l, s.admins = os.admins, s.members = os.members
    PROVE  /\ \A v \in Person : RoleMoves(os, s, l, v)
           /\ \A v \in Person : (Admin(s, v) <=> Admin(os, v)) /\ (Member(s, v) <=> Member(os, v))
           /\ ActiveAdmins(s) = ActiveAdmins(os)
           /\ s.owners = os.owners /\ s.explicitOwners = os.explicitOwners => Owners(s) = Owners(os)
  BY DEF RoleMoves, Stays, Removals, In, Admin, Member, ActiveAdmins, Owners, Owner

LEMMA OwnerSetKeeps ==
    ASSUME NEW os, Chain(os), HasChain(os), NEW l, LinkOK(l), l.type = "owner_set", ValidOwner(os, l)
    PROVE  Keeps(os, ApplyOwner(os, l), l)
<1> DEFINE w == l.b.user
           before == IF os.explicitOwners THEN os.owners ELSE os.owners \cup ActiveAdmins(os)
           after == IF l.b.owner THEN before \cup {w} ELSE before \ {w}
           s == ApplyOwner(os, l)
<1>1. w \in Person /\ os \in OrgState /\ Sound(os) /\ Owners(os) # {} /\ Admin(os, w)
  BY DEF LinkOK, BodyOK, Chain, ValidOwner
<1>2. /\ Owners(os) \subseteq before /\ before \subseteq ActiveAdmins(os)
      /\ before \in SUBSET Person
  BY <1>1 DEF Owners, Owner, ActiveAdmins, Sound, OwnersAreAdmins
<1>3. after \subseteq ActiveAdmins(os) /\ after \in SUBSET Person /\ after # {}
  <2>1. CASE l.b.owner
    BY <2>1, <1>1, <1>2 DEF ActiveAdmins
  <2>2. CASE ~l.b.owner
    <3>1. PICK o \in Owners(os) : o # w
      BY <2>2, <1>1 DEF ValidOwner
    <3> QED  BY <2>2, <3>1, <1>2
  <2> QED  BY <2>1, <2>2
<1>4. s = [os EXCEPT !.explicitOwners = TRUE, !.owners = after]
  BY <1>1 DEF ApplyOwner
<1> HIDE DEF before, after, s
<1>5. /\ s.owners = after /\ s.explicitOwners = TRUE
      /\ s.admins = os.admins /\ s.members = os.members
      /\ s.kms = os.kms /\ s.settings = os.settings
  BY <1>1, <1>4 DEF OrgState
<1>6. s \in OrgState
  BY <1>1, <1>3, <1>4 DEF OrgState
<1>7. Sound(s)
  BY <1>1, <1>3, <1>5, SameRoles DEF Sound, OneRole, OwnersAreAdmins, DefaultIsApproved
<1>8. Owners(s) # {}
  <2>1. PICK o \in after : o \in Person /\ Admin(os, o)
    BY <1>3 DEF ActiveAdmins
  <2>2. o \in Owners(s)
    BY <2>1, <1>5 DEF Owners, Owner, Admin
  <2> QED  BY <2>2
<1> QED
  BY <1>5, <1>6, <1>7, <1>8, SameRoles DEF Keeps, s

LEMMA SettingsKeep ==
    ASSUME NEW os, Chain(os), HasChain(os), NEW l, LinkOK(l), l.type = "settings",
           ValidSettings(os, l.b.settings)
    PROVE  Keeps(os, [os EXCEPT !.settings = l.b.settings], l)
<1> DEFINE s == [os EXCEPT !.settings = l.b.settings]
<1>1. os \in OrgState /\ Sound(os) /\ Owners(os) # {} /\ l.b.settings \in OrgSettings
  BY DEF LinkOK, BodyOK, Chain
<1>2. /\ s.settings = l.b.settings /\ s.kms = os.kms /\ s.owners = os.owners
      /\ s.admins = os.admins /\ s.members = os.members /\ s.explicitOwners = os.explicitOwners
      /\ s \in OrgState
  BY <1>1 DEF OrgState
<1> HIDE DEF s
<1>3. Sound(s)
  BY <1>1, <1>2, SameRoles DEF Sound, OneRole, OwnersAreAdmins, DefaultIsApproved, ValidSettings
<1>4. Owners(s) # {}
  BY <1>1, <1>2, SameRoles
<1> QED
  BY <1>2, <1>3, <1>4, SameRoles DEF Keeps, s

LEMMA KMSAddKeeps ==
    ASSUME NEW os, Chain(os), HasChain(os), NEW l, LinkOK(l), l.type = "kms_add", ValidKMSAdd(os, l)
    PROVE  Keeps(os, [os EXCEPT !.kms[l.b.name] = l.b.key], l)
<1> DEFINE kms == [os.kms EXCEPT ![l.b.name] = l.b.key]
           s == [os EXCEPT !.kms = kms]
<1>1. /\ os \in OrgState /\ Sound(os) /\ Owners(os) # {}
      /\ l.b.name \in KeyName /\ l.b.key \in KMSKey /\ l.b.key # NoKey
  BY NoKeyAssumption DEF LinkOK, BodyOK, Chain
<1>2. kms \in [KeyName -> KMSKey \cup {NoKey}]
  BY <1>1 DEF OrgState
<1>3. \A n \in KeyName : os.kms[n] # NoKey => kms[n] # NoKey
  BY <1>1 DEF OrgState
<1>4. [os EXCEPT !.kms[l.b.name] = l.b.key] = s
  BY <1>1 DEF OrgState
<1> HIDE DEF kms
<1>5. /\ s.settings = os.settings /\ s.kms = kms /\ s.owners = os.owners
      /\ s.admins = os.admins /\ s.members = os.members /\ s.explicitOwners = os.explicitOwners
      /\ s \in OrgState
  BY <1>1, <1>2 DEF OrgState
<1> HIDE DEF s
<1>6. DefaultIsApproved(s)
  <2>1. os.settings.defaultKMS \in KeyName \cup {NoKey}
    BY <1>1 DEF OrgState, OrgSettings
  <2> QED  BY <2>1, <1>1, <1>3, <1>5 DEF Sound, DefaultIsApproved
<1>7. Sound(s)
  BY <1>1, <1>5, <1>6, SameRoles DEF Sound, OneRole, OwnersAreAdmins
<1> QED
  BY <1>1, <1>4, <1>5, <1>7, SameRoles DEF Keeps

LEMMA KMSRemoveKeeps ==
    ASSUME NEW os, Chain(os), HasChain(os), NEW l, LinkOK(l), l.type = "kms_remove"
    PROVE  Keeps(os, ApplyKMSRemove(os, l), l)
<1> DEFINE kms == [os.kms EXCEPT ![l.b.name] = NoKey]
           default == IF os.settings.defaultKMS = l.b.name THEN NoKey ELSE os.settings.defaultKMS
           st == [os.settings EXCEPT !.defaultKMS = default]
           s == [os EXCEPT !.kms = kms, !.settings = st]
<1>1. /\ os \in OrgState /\ Sound(os) /\ Owners(os) # {} /\ l.b.name \in KeyName
      /\ os.settings \in OrgSettings
  BY DEF LinkOK, BodyOK, Chain, OrgState
<1>2. kms \in [KeyName -> KMSKey \cup {NoKey}]
  BY <1>1 DEF OrgState
<1>3. st \in OrgSettings /\ st.defaultKMS = default
  BY <1>1 DEF OrgSettings
<1>4. default # NoKey => kms[default] # NoKey
  <2>1. os.settings.defaultKMS \in KeyName \cup {NoKey}
    BY <1>1 DEF OrgSettings
  <2> QED  BY <2>1, <1>1 DEF Sound, DefaultIsApproved, OrgState
<1>5. ApplyKMSRemove(os, l) = s
  BY <1>1 DEF ApplyKMSRemove, OrgState, OrgSettings
<1> HIDE DEF kms, default, st
<1>6. /\ s.settings = st /\ s.kms = kms /\ s.owners = os.owners
      /\ s.admins = os.admins /\ s.members = os.members /\ s.explicitOwners = os.explicitOwners
      /\ s \in OrgState
  BY <1>1, <1>2, <1>3 DEF OrgState
<1> HIDE DEF s
<1>7. Sound(s)
  BY <1>1, <1>3, <1>4, <1>6, SameRoles DEF Sound, OneRole, OwnersAreAdmins, DefaultIsApproved
<1> QED
  BY <1>1, <1>5, <1>6, <1>7, SameRoles DEF Keeps

\* The first link: its signer is the one admin and owner.
LEMMA InitKeeps ==
    ASSUME NEW l, LinkOK(l), l.type = "init", l.b.kind \in {"team", "personal"}
    PROVE  /\ Keeps(NewOrg, ApplyInit(NewOrg, l), l)
           /\ LET s == ApplyInit(NewOrg, l)
              IN  \A v \in Person : In(s, v) => v = l.b.user /\ Owner(s, v)
<1> DEFINE w == l.b.user
           admins == [NewOrg.admins EXCEPT ![w] = NewEntry]
           s == [NewOrg EXCEPT !.kind = l.b.kind, !.explicitOwners = l.b.explicitOwners,
                               !.owners = {w}, !.admins = admins]
<1>1. /\ NewOrg \in OrgState /\ w \in Person /\ l.b.explicitOwners \in BOOLEAN
      /\ NewOrg.settings.defaultKMS = NoKey
  BY NewOrgIs DEF LinkOK, BodyOK, NewOrg
<1>2. admins \in [Person -> Entry]
  BY <1>1, NewEntryIs DEF OrgState
<1>3. \A v \in Person : admins[v] = IF v = w THEN NewEntry ELSE NewOrg.admins[v]
  BY <1>1 DEF OrgState
<1>4. ApplyInit(NewOrg, l) = s
  BY DEF ApplyInit
<1> HIDE DEF admins
<1>5. /\ s.settings = NewOrg.settings /\ s.kms = NewOrg.kms /\ s.owners = {w}
      /\ s.admins = admins /\ s.members = NewOrg.members
      /\ s \in OrgState
  BY <1>1, <1>2 DEF OrgState
<1> HIDE DEF s
<1>6. \A v \in Person : (Admin(s, v) <=> v = w) /\ ~Member(s, v)
  BY <1>1, <1>3, <1>5, NewEntryIs, NewOrgIs DEF Admin, Member
<1>7. \A v \in Person : In(s, v) => v = w /\ Owner(s, v)
  BY <1>5, <1>6 DEF In, Owner
<1>8. Sound(s)
  BY <1>1, <1>5, <1>6 DEF Sound, OneRole, OwnersAreAdmins, DefaultIsApproved, ActiveAdmins
<1>9. w \in Owners(s)
  BY <1>1, <1>5, <1>6 DEF Owners, Owner
<1>10. \A v \in Person : RoleMoves(NewOrg, s, l, v)
  <2> TAKE v \in Person
  <2>1. CASE v = w
    BY <2>1, <1>1, <1>3, <1>5, <1>6, NewEntryIs DEF RoleMoves, Joins, Removals, In
  <2>2. CASE v # w
    BY <2>2, <1>1, <1>3, <1>5 DEF RoleMoves, Stays, Removals, In, Admin, Member
  <2> QED  BY <2>1, <2>2
<1> QED
  BY <1>4, <1>5, <1>7, <1>8, <1>9, <1>10 DEF Keeps

LEMMA ApplyKeeps ==
    ASSUME NEW os, Chain(os), NEW ks, NEW l, LinkOK(l), OrgValidNext(os, ks, l)
    PROVE  Keeps(os, Apply(os, l), l)
<1>1. l.type \in LinkTypes /\ (l.seq = 1 <=> l.type = "init") /\ l.seq = os.seq + 1 /\ os.seq \in Nat
  BY NewOrgIs DEF LinkOK, OrgValidNext, ValidApply, Chain, OrgState
<1>2. CASE l.type = "init"
  <2>1. os = NewOrg
    BY <1>1, <1>2 DEF Chain, HasChain
  <2>2. l.b.kind \in {"team", "personal"}
    BY <1>2 DEF OrgValidNext, ValidApply
  <2> QED  BY <1>2, <2>1, <2>2, InitKeeps DEF Apply
<1>3. CASE l.type # "init"
  <2>1. HasChain(os)
    BY <1>1, <1>3 DEF HasChain
  <2>2. CASE l.type = "owner_set"
    BY <2>1, <2>2, OwnerSetKeeps DEF OrgValidNext, ValidApply, Apply
  <2>3. CASE l.type = "admin_add"
    BY <2>1, <2>3, AdminAddKeeps DEF OrgValidNext, ValidApply, Apply
  <2>4. CASE l.type = "member_add"
    BY <2>1, <2>4, MemberAddKeeps DEF OrgValidNext, ValidApply, Apply
  <2>5. CASE l.type = "admin_remove"
    BY <2>1, <2>5, AdminRemoveKeeps DEF OrgValidNext, ValidApply, Apply
  <2>6. CASE l.type = "member_remove"
    BY <2>1, <2>6, MemberRemoveKeeps DEF OrgValidNext, ValidApply, Apply
  <2>7. CASE l.type = "kms_add"
    BY <2>1, <2>7, KMSAddKeeps DEF OrgValidNext, ValidApply, Apply
  <2>8. CASE l.type = "kms_remove"
    BY <2>1, <2>8, KMSRemoveKeeps DEF Apply
  <2>9. CASE l.type = "settings"
    BY <2>1, <2>9, SettingsKeep DEF OrgValidNext, ValidApply, Apply
  <2> QED
    BY <1>1, <1>3, <2>2, <2>3, <2>4, <2>5, <2>6, <2>7, <2>8, <2>9 DEF LinkTypes
<1> QED
  BY <1>2, <1>3

\* What the end of step writes, whatever the link was.
LEMMA NextStateIs ==
    ASSUME NEW os, NEW l, LinkOK(l), Apply(os, l) \in OrgState
    PROVE  LET s == Apply(os, l)
               t == OrgNextState(os, l)
           IN  /\ t \in OrgState /\ t.seq = l.seq
               /\ t.admins = s.admins /\ t.members = s.members
               /\ t.owners = s.owners /\ t.explicitOwners = s.explicitOwners
               /\ t.kms = s.kms /\ t.settings = s.settings
<1> DEFINE s == Apply(os, l)
           seqs == [s.signerSeqs EXCEPT ![l.signer] = IF l.pos > 0 THEN l.pos
                                                      ELSE s.signerSeqs[l.signer]]
           signed == IF l.delegate = NoDelegate THEN s.signed \cup {<<l.signer, l.ver>>} ELSE s.signed
<1>1. OrgNextState(os, l) =
        [s EXCEPT !.seq = l.seq, !.last = l.time, !.signerSeqs = seqs, !.signed = signed]
  BY DEF OrgNextState, OrgState
<1>2. seqs \in [Person -> Nat] /\ signed \in SUBSET (Person \X Nat)
  BY DEF LinkOK, OrgState
<1>3. l.seq \in Nat /\ l.time \in Nat
  BY DEF LinkOK
<1> HIDE DEF s, seqs, signed
<1>4. s \in OrgState
  BY DEF s
<1> QED
  BY <1>1, <1>2, <1>3, <1>4 DEF OrgState, s

LEMMA ChainGoesOn ==
    ASSUME NEW os, Chain(os), NEW ks, NEW l, LinkOK(l), OrgValidNext(os, ks, l)
    PROVE  LET t == OrgNextState(os, l)
           IN  /\ Chain(t) /\ t.seq = os.seq + 1 /\ l.seq = os.seq + 1
               /\ Keeps(os, t, l)
<1> DEFINE s == Apply(os, l)
           t == OrgNextState(os, l)
<1>1. Keeps(os, s, l)
  BY ApplyKeeps
<1>2. /\ t \in OrgState /\ t.seq = l.seq
      /\ t.admins = s.admins /\ t.members = s.members
      /\ t.owners = s.owners /\ t.explicitOwners = s.explicitOwners
      /\ t.kms = s.kms /\ t.settings = s.settings
  BY <1>1, NextStateIs DEF Keeps
<1>3. l.seq = os.seq + 1 /\ os.seq \in Nat
  BY DEF OrgValidNext, Chain, OrgState
<1> HIDE DEF s, t
<1>4. \A v \in Person : (Admin(t, v) <=> Admin(s, v)) /\ (Member(t, v) <=> Member(s, v))
  BY <1>2 DEF Admin, Member
<1>5. Sound(t)
  BY <1>1, <1>2, <1>4 DEF Keeps, Sound, OneRole, OwnersAreAdmins, DefaultIsApproved, ActiveAdmins
<1>6. Owners(t) # {}
  BY <1>1, <1>2, <1>4 DEF Keeps, Owners, Owner
<1>7. \A v \in Person : RoleMoves(os, t, l, v)
  <2> TAKE v \in Person
  <2>1. Removals(t, v) = Removals(s, v) /\ (In(t, v) <=> In(s, v))
    BY <1>2, <1>4 DEF Removals, In
  <2>2. LostRole(os, t, v) <=> LostRole(os, s, v)
    BY <1>4 DEF LostRole
  <2>3. RoleMoves(os, s, l, v)
    BY <1>1 DEF Keeps
  <2> QED  BY <2>1, <2>2, <2>3 DEF RoleMoves, Stays, Joins, Loses
<1> QED
  BY <1>2, <1>3, <1>5, <1>6, <1>7 DEF Chain, HasChain, Keeps, t

-----------------------------------------------------------------------------
(* The history follows the chain.                                          *)

LostNow(os, t, l) ==
    {[user |-> v, seq |-> l.seq, time |-> l.time, stays |-> In(t, v),
      keeps |-> l.delegate # NoDelegate \/ (l.type = "member_remove" /\ l.b.keeps)] :
        v \in {w \in Person : LostRole(os, t, w)}}

LEMMA LostNowIs ==
    ASSUME NEW os, NEW t, NEW l, LinkOK(l)
    PROVE  /\ LostNow(os, t, l) \subseteq Loss
           /\ \A v \in Person : LostRole(os, t, v) =>
                  \E f \in LostNow(os, t, l) :
                      /\ f.user = v /\ f.seq = l.seq /\ f.time = l.time
                      /\ f.keeps = Keeping(l) /\ f.stays = In(t, v)
<1> DEFINE loss(v) == [user |-> v, seq |-> l.seq, time |-> l.time, stays |-> In(t, v),
                       keeps |-> Keeping(l)]
<1>1. LostNow(os, t, l) = {loss(v) : v \in {w \in Person : LostRole(os, t, w)}}
  BY DEF LostNow, Keeping
<1>2. ASSUME NEW v \in Person
      PROVE  /\ loss(v) \in Loss /\ loss(v).user = v /\ loss(v).seq = l.seq /\ loss(v).time = l.time
             /\ loss(v).keeps = Keeping(l) /\ loss(v).stays = In(t, v)
  BY DEF Loss, LinkOK, In, Keeping
<1> HIDE DEF loss
<1> QED
  BY <1>1, <1>2

LEMMA LossesGrow ==
    ASSUME NEW os, NEW lost, NEW more, lost \subseteq more, LossesKnown(os, lost)
    PROVE  LossesKnown(os, more)
  BY DEF LossesKnown

LEMMA LossesGo ==
    ASSUME NEW os, NEW t, NEW l, LinkOK(l), NEW lost, LossesKnown(os, lost),
           os \in OrgState, l.seq = os.seq + 1, t.seq = l.seq,
           \A v \in Person : RoleMoves(os, t, l, v)
    PROVE  LossesKnown(t, lost \cup LostNow(os, t, l))
<1> SUFFICES ASSUME NEW v \in Person, NEW x \in Removals(t, v)
             PROVE  /\ x.removedSeq <= t.seq
                    /\ \E f \in lost \cup LostNow(os, t, l) :
                           Tells(f, v, x) /\ (~In(t, v) /\ Latest(t, v, x) => ~f.stays)
  BY DEF LossesKnown
<1>1. os.seq \in Nat /\ l.seq \in Nat
  BY DEF LinkOK, OrgState
<1>2. ASSUME NEW y \in Removals(os, v)
      PROVE  /\ y.removedSeq \in Nat /\ y.removedSeq <= os.seq
             /\ \E f \in lost : Tells(f, v, y) /\ (~In(os, v) /\ Latest(os, v, y) => ~f.stays)
  BY DEF LossesKnown, Removals, OrgState, Entry
<1>3. CASE Stays(os, t, v)
  <2>1. x \in Removals(os, v) /\ (Latest(t, v, x) <=> Latest(os, v, x)) /\ (In(t, v) <=> In(os, v))
    BY <1>3 DEF Stays, Latest
  <2> QED  BY <2>1, <1>1, <1>2
<1>4. CASE Joins(os, t, v)
  BY <1>1, <1>2, <1>4 DEF Joins
<1>5. CASE Loses(os, t, l, v)
  <2>1. PICK f \in LostNow(os, t, l) :
            /\ f.user = v /\ f.seq = l.seq /\ f.time = l.time
            /\ f.keeps = Keeping(l) /\ f.stays = In(t, v)
    BY <1>5, LostNowIs DEF Loses
  <2>2. CASE Names(x, l)
    BY <2>1, <2>2, <1>1 DEF Names, Tells
  <2>3. CASE x \in Removals(os, v)
    <3>1. x.removedSeq \in Nat /\ x.removedSeq <= os.seq
      BY <2>3, <1>2
    <3>2. ~Latest(t, v, x)
      BY <3>1, <1>1, <1>5 DEF Loses, Latest
    <3> QED  BY <2>3, <3>1, <3>2, <1>1, <1>2
  <2> QED  BY <1>5, <2>2, <2>3 DEF Loses
<1> QED
  BY <1>3, <1>4, <1>5 DEF RoleMoves

-----------------------------------------------------------------------------
(* What a link does to the organisation.                                   *)

Namespace == [kind: {"none", "team", "personal", "legacy"}, owner: Person \cup {NoDelegate}]

\* The links a personal tenant allows after the first leave its people alone.
LEMMA PeopleStay ==
    ASSUME NEW os \in OrgState, NEW l, l.type \in {"settings", "kms_add", "kms_remove"}
    PROVE  LET s == Apply(os, l)
           IN  /\ s.admins = os.admins /\ s.members = os.members
               /\ s.owners = os.owners /\ s.explicitOwners = os.explicitOwners
<1>1. CASE l.type = "settings"
  BY <1>1 DEF Apply, OrgState
<1>2. CASE l.type = "kms_add"
  BY <1>2 DEF Apply, OrgState
<1>3. CASE l.type = "kms_remove"
  BY <1>3 DEF Apply, ApplyKMSRemove, OrgState
<1> QED
  BY <1>1, <1>2, <1>3

LEMMA PersonalStays ==
    ASSUME Chain(org), PersonalAlone, ns \in Namespace, NEW u \in Person, NEW l, LinkOK(l), Commit(u, l)
    PROVE  PersonalAlone'
<1>1. org' = OrgNextState(org, l) /\ OrgValidNext(org, keys, l) /\ l.signer = u /\ MayLink(u, l)
  BY DEF Commit
<1>2. SUFFICES ASSUME ns'.kind = "personal", NEW v \in Person, In(org', v)
               PROVE  v = ns'.owner /\ Owner(org', v)
  BY DEF PersonalAlone
<1>3. ns' = ns /\ ns.kind = "personal"
  BY <1>2 DEF Commit, Namespace
<1>4. u = ns.owner /\ PersonalTenantAllows(l.type)
  BY <1>1, <1>3 DEF MayLink
<1> DEFINE s == Apply(org, l)
<1>5. /\ org'.admins = s.admins /\ org'.members = s.members
      /\ org'.owners = s.owners /\ org'.explicitOwners = s.explicitOwners
  BY <1>1, ApplyKeeps, NextStateIs DEF Keeps
<1>6. In(s, v) /\ (Owner(s, v) => Owner(org', v))
  BY <1>2, <1>5 DEF In, Owner, Admin, Member
<1>7. CASE l.type = "init"
  <2>1. l.seq = 1 /\ org.seq \in Nat /\ l.seq = org.seq + 1
    BY <1>1, <1>7 DEF OrgValidNext, ValidApply, Chain, OrgState
  <2>2. org = NewOrg
    BY <2>1 DEF Chain, HasChain
  <2>3. l.b.user = u
    BY <1>1, <2>1 DEF OrgValidNext, CheckSigner, SignedByPerson, SignedByAdminsDelegate
  <2>4. l.b.kind \in {"team", "personal"}
    BY <1>1, <1>7 DEF OrgValidNext, ValidApply
  <2>5. s = ApplyInit(NewOrg, l)
    BY <1>7, <2>2 DEF Apply
  <2> QED  BY <1>3, <1>4, <1>6, <1>7, <2>3, <2>4, <2>5, InitKeeps
<1>8. CASE l.type \in {"settings", "kms_add", "kms_remove"}
  <2>1. /\ s.admins = org.admins /\ s.members = org.members
        /\ s.owners = org.owners /\ s.explicitOwners = org.explicitOwners
    BY <1>8, PeopleStay DEF Chain
  <2>2. In(org, v) /\ (Owner(org, v) => Owner(s, v))
    BY <1>6, <2>1 DEF In, Owner, Admin, Member
  <2> QED  BY <1>3, <1>6, <2>2 DEF PersonalAlone
<1> QED
  BY <1>4, <1>7, <1>8 DEF PersonalTenantAllows

LEMMA CommitKeeps ==
    ASSUME Inv, NEW u \in Person, NEW l, LinkOK(l), Commit(u, l)
    PROVE  /\ Chain(org') /\ PersonalAlone' /\ LossesKnown(org', left')
           /\ left \subseteq left' /\ left' \in SUBSET Loss /\ ns' \in Namespace
<1>1. org' = OrgNextState(org, l) /\ OrgValidNext(org, keys, l) /\ Chain(org)
  BY DEF Commit, Inv
<1>2. left' = left \cup LostNow(org, org', l)
  BY DEF Commit, LostNow
<1>3. /\ Chain(org') /\ org'.seq = l.seq /\ l.seq = org.seq + 1
      /\ \A v \in Person : RoleMoves(org, org', l, v)
  BY <1>1, ChainGoesOn DEF Keeps
<1>4. LossesKnown(org', left')
  BY <1>1, <1>2, <1>3, LossesGo DEF Inv, Chain
<1>5. left' \in SUBSET Loss
  BY <1>2, LostNowIs DEF Inv, Types
<1>6. ns \in Namespace
  BY DEF Inv, Types, Namespace
<1>7. ns' \in Namespace
  BY <1>6 DEF Commit, Namespace
<1>8. PersonalAlone'
  BY <1>6, PersonalStays DEF Inv
<1> QED
  BY <1>2, <1>3, <1>4, <1>5, <1>7, <1>8

LEMMA ClockIsNat ==
    ASSUME Types, NEW u \in Person
    PROVE  Clock(u) \in Nat
  BY ClocksAssumption DEF Types, Clock

LEMMA LinkIsOK ==
    ASSUME Inv, NEW u \in Person, NEW type \in LinkTypes, NEW body, BodyOK(type, body),
           NEW d \in Delegate \cup {NoDelegate}, NEW time \in Nat
    PROVE  LinkOK(OrgLink(org, type, u, keys[u], d, time, body))
<1>1. org.seq \in Nat /\ keys[u] \in Nat
  BY DEF Inv, Chain, OrgState, Types
<1> QED
  BY <1>1 DEF LinkOK, OrgLink

\* What a command on the organisation does: one link, and a device that
\* removed someone goes on with the chain it made.
Governs(u) ==
    /\ \E l : LinkOK(l) /\ Commit(u, l)
    /\ UNCHANGED <<places, keys, now>>
    /\ trust' \in [Person -> BOOLEAN]
    /\ \/ UNCHANGED <<job, seen>>
       \/ job' = [job EXCEPT ![u] = "sync"] /\ seen' = [seen EXCEPT ![u] = org']

LEMMA SignGoverns ==
    ASSUME Inv, NEW u \in Person, NEW type \in LinkTypes, NEW body, BodyOK(type, body),
           Sign(u, type, body),
           \/ Idle
           \/ job' = [job EXCEPT ![u] = "sync"] /\ seen' = [seen EXCEPT ![u] = org']
    PROVE  Governs(u)
<1> DEFINE l == OrgLink(org, type, u, keys[u], NoDelegate, Clock(u), body)
<1>1. Clock(u) \in Nat
  BY ClockIsNat DEF Inv
<1>2. LinkOK(l)
  BY <1>1, LinkIsOK
<1>3. Commit(u, l)
  BY DEF Sign
<1>4. trust' \in [Person -> BOOLEAN] /\ UNCHANGED <<places, keys, now>>
  BY DEF Sign, Inv, Types
<1> HIDE DEF l
<1> QED
  BY <1>2, <1>3, <1>4 DEF Governs, Idle

LEMMA PageGoverns ==
    ASSUME Inv, NEW u \in Person, NEW type \in LinkTypes, NEW body, BodyOK(type, body),
           SignOnPage(u, type, body)
    PROVE  Governs(u)
<1>1. PICK d \in Delegate : Commit(u, OrgLink(org, type, u, keys[u], d, now, body))
  BY DEF SignOnPage
<1> DEFINE l == OrgLink(org, type, u, keys[u], d, now, body)
<1>2. LinkOK(l)
  BY LinkIsOK DEF Inv, Types
<1>3. trust' \in [Person -> BOOLEAN] /\ UNCHANGED <<places, keys, now, job, seen>>
  BY DEF SignOnPage, Inv, Types
<1> HIDE DEF l
<1>4. Commit(u, l)
  BY <1>1 DEF l
<1> QED
  BY <1>2, <1>3, <1>4 DEF Governs

LEMMA EachGoverns ==
    ASSUME Inv, NEW u \in Person, Govern(u)
    PROVE  Governs(u)
<1>1. CASE CreateOrg(u)
  <2> DEFINE body == [user |-> u, kind |-> IF ns.owner = u THEN ns.kind ELSE "team", explicitOwners |-> TRUE]
  <2>1. BodyOK("init", body)
    BY DEF BodyOK
  <2>2. Sign(u, "init", body) /\ Idle
    BY <1>1 DEF CreateOrg
  <2> HIDE DEF body
  <2> QED  BY <2>1, <2>2, SignGoverns DEF LinkTypes
<1>2. CASE SetOwner(u)
  <2>1. PICK v \in Person, owner \in BOOLEAN : Sign(u, "owner_set", [user |-> v, owner |-> owner])
    BY <1>2 DEF SetOwner
  <2> DEFINE body == [user |-> v, owner |-> owner]
  <2>2. BodyOK("owner_set", body)
    BY DEF BodyOK
  <2>3. Sign(u, "owner_set", body) /\ Idle
    BY <1>2, <2>1 DEF SetOwner
  <2> HIDE DEF body
  <2> QED  BY <2>2, <2>3, SignGoverns DEF LinkTypes
<1>3. CASE AddOrgPerson(u)
  <2>1. PICK v \in Person, verified \in Kinds, type \in {"admin_add", "member_add"} :
            Sign(u, type, [user |-> v, verified |-> verified])
    BY <1>3 DEF AddOrgPerson
  <2> DEFINE body == [user |-> v, verified |-> verified]
  <2>2. BodyOK(type, body)
    BY ChoicesAssumption DEF BodyOK, Verification
  <2>3. Sign(u, type, body) /\ Idle
    BY <1>3, <2>1 DEF AddOrgPerson
  <2> HIDE DEF body
  <2> QED  BY <2>2, <2>3, SignGoverns DEF LinkTypes
<1>4. CASE RemoveOrgPerson(u)
  <2>1. PICK v \in Person, narrow \in BOOLEAN :
            /\ \/ Sign(u, "admin_remove", [user |-> v])
               \/ Sign(u, "member_remove", [user |-> v, keeps |-> narrow])
            /\ \/ Idle
               \/ job' = [job EXCEPT ![u] = "sync"] /\ seen' = [seen EXCEPT ![u] = org']
    BY <1>4 DEF RemoveOrgPerson
  <2>2. BodyOK("admin_remove", [user |-> v]) /\ BodyOK("member_remove", [user |-> v, keeps |-> narrow])
    BY DEF BodyOK
  <2> QED  BY <2>1, <2>2, SignGoverns DEF LinkTypes
<1>5. CASE ApproveKMS(u)
  <2>1. PICK n \in KeyName, k \in KMSKey : Sign(u, "kms_add", [name |-> n, key |-> k])
    BY <1>5 DEF ApproveKMS
  <2> DEFINE body == [name |-> n, key |-> k]
  <2>2. BodyOK("kms_add", body)
    BY DEF BodyOK
  <2>3. Sign(u, "kms_add", body) /\ Idle
    BY <1>5, <2>1 DEF ApproveKMS
  <2> HIDE DEF body
  <2> QED  BY <2>2, <2>3, SignGoverns DEF LinkTypes
<1>6. CASE WithdrawKMS(u)
  <2>1. PICK n \in KeyName : Sign(u, "kms_remove", [name |-> n])
    BY <1>6 DEF WithdrawKMS
  <2>2. BodyOK("kms_remove", [name |-> n]) /\ Idle
    BY <1>6 DEF BodyOK, WithdrawKMS
  <2> QED  BY <2>1, <2>2, SignGoverns DEF LinkTypes
<1>7. CASE SetOrgSettings(u)
  <2>1. PICK st \in Choices : Sign(u, "settings", [settings |-> st])
    BY <1>7 DEF SetOrgSettings
  <2>2. BodyOK("settings", [settings |-> st]) /\ Idle
    BY <1>7, ChoicesAssumption DEF BodyOK, SetOrgSettings
  <2> QED  BY <2>1, <2>2, SignGoverns DEF LinkTypes
<1>8. CASE PageAdd(u)
  <2>1. PICK v \in Person : SignOnPage(u, "member_add", [user |-> v, verified |-> "web"])
    BY <1>8 DEF PageAdd
  <2>2. BodyOK("member_add", [user |-> v, verified |-> "web"])
    BY DEF BodyOK, Verification
  <2> QED  BY <2>1, <2>2, PageGoverns DEF LinkTypes
<1>9. CASE PageRemove(u)
  <2>1. PICK v \in Person : SignOnPage(u, "member_remove", [user |-> v, keeps |-> FALSE])
    BY <1>9 DEF PageRemove
  <2>2. BodyOK("member_remove", [user |-> v, keeps |-> FALSE])
    BY DEF BodyOK
  <2> QED  BY <2>1, <2>2, PageGoverns DEF LinkTypes
<1>10. CASE PageWithdrawKMS(u)
  <2>1. PICK n \in KeyName : SignOnPage(u, "kms_remove", [name |-> n])
    BY <1>10 DEF PageWithdrawKMS
  <2>2. BodyOK("kms_remove", [name |-> n])
    BY DEF BodyOK
  <2> QED  BY <2>1, <2>2, PageGoverns DEF LinkTypes
<1> QED
  BY <1>1, <1>2, <1>3, <1>4, <1>5, <1>6, <1>7, <1>8, <1>9, <1>10 DEF Govern

LEMMA GovernKeeps ==
    ASSUME Inv, NEW u \in Person, Governs(u)
    PROVE  Inv'
<1>1. PICK l : LinkOK(l) /\ Commit(u, l)
  BY DEF Governs
<1>2. /\ Chain(org') /\ PersonalAlone' /\ LossesKnown(org', left')
      /\ left \subseteq left' /\ left' \in SUBSET Loss /\ ns' \in Namespace
  BY <1>1, CommitKeeps
<1>3. job' \in [Person -> {"idle", "command", "sync"}]
  BY DEF Governs, Inv, Types
<1>4. Types'
  BY <1>2, <1>3 DEF Types, Inv, Namespace, Governs
<1>5. \A w \in Person : LossesKnown(seen[w], left')
  BY <1>2, LossesGrow DEF Inv
<1>6. seen' \in [Person -> OrgState] /\ \A w \in Person : LossesKnown(seen'[w], left')
  BY <1>2, <1>5 DEF Governs, Inv, Chain
<1> QED
  BY <1>2, <1>4, <1>6 DEF Inv

-----------------------------------------------------------------------------
(* The invariant.                                                          *)

LEMMA NewOrgKnown ==
    ASSUME NEW lost
    PROVE  LossesKnown(NewOrg, lost) /\ Chain(NewOrg)
<1>1. LossesKnown(NewOrg, lost)
  BY NewOrgIs DEF LossesKnown
<1>2. NewOrg.owners = {} /\ NewOrg.settings.defaultKMS = NoKey
  BY DEF NewOrg
<1> QED
  BY <1>1, <1>2, NewOrgIs DEF Chain, Sound, OneRole, OwnersAreAdmins, DefaultIsApproved

LEMMA LegacyOrgKnown == Chain(LegacyOrg) /\ LossesKnown(LegacyOrg, {})
<1> DEFINE b == [user |-> Creator, kind |-> "team", explicitOwners |-> FALSE]
           l == OrgLink(NewOrg, "init", Creator, 1, NoDelegate, 0, b)
<1>1. LinkOK(l) /\ l.type = "init" /\ l.b = b /\ l.seq = 1
  <2>1. BodyOK("init", b)
    BY CreatorAssumption DEF BodyOK
  <2> HIDE DEF b
  <2>2. l = [type |-> "init", seq |-> 1, signer |-> Creator, ver |-> 1, pos |-> 1,
             delegate |-> NoDelegate, time |-> 0, b |-> b]
    BY NewOrgIs DEF OrgLink
  <2> QED  BY <2>1, <2>2, CreatorAssumption DEF LinkOK, LinkTypes
<1>2. LegacyOrg = OrgNextState(NewOrg, l)
  BY DEF LegacyOrg
<1>3. b.kind = "team"
  OBVIOUS
<1> HIDE DEF b, l
<1> DEFINE s == Apply(NewOrg, l)
<1>4. Keeps(NewOrg, s, l)
  BY <1>1, <1>3, InitKeeps DEF Apply
<1>5. /\ LegacyOrg \in OrgState /\ LegacyOrg.seq = 1
      /\ LegacyOrg.admins = s.admins /\ LegacyOrg.members = s.members
      /\ LegacyOrg.owners = s.owners /\ LegacyOrg.explicitOwners = s.explicitOwners
      /\ LegacyOrg.kms = s.kms /\ LegacyOrg.settings = s.settings
  BY <1>1, <1>2, <1>4, NextStateIs DEF Keeps
<1> HIDE DEF s
<1>6. \A v \in Person : (Admin(LegacyOrg, v) <=> Admin(s, v)) /\ (Member(LegacyOrg, v) <=> Member(s, v))
  BY <1>5 DEF Admin, Member
<1>7. Sound(LegacyOrg)
  BY <1>4, <1>5, <1>6 DEF Keeps, Sound, OneRole, OwnersAreAdmins, DefaultIsApproved, ActiveAdmins
<1>8. Owners(LegacyOrg) # {}
  BY <1>4, <1>5, <1>6 DEF Keeps, Owners, Owner
<1>9. \A v \in Person : Removals(s, v) = {}
  <2> TAKE v \in Person
  <2>1. ~LostRole(NewOrg, s, v) /\ Removals(NewOrg, v) = {}
    BY NewOrgIs DEF LostRole
  <2>2. RoleMoves(NewOrg, s, l, v)
    BY <1>4 DEF Keeps
  <2> QED  BY <2>1, <2>2 DEF RoleMoves, Stays, Joins, Loses
<1>10. \A v \in Person : Removals(LegacyOrg, v) = {}
  BY <1>5, <1>9 DEF Removals
<1> QED
  BY <1>5, <1>7, <1>8, <1>10 DEF Chain, HasChain, LossesKnown

LEMMA InitInv == Init => Inv
<1> SUFFICES ASSUME Init PROVE Inv
  OBVIOUS
<1>1. PICK start \in Starts :
        /\ org = IF start = "legacy" THEN LegacyOrg ELSE NewOrg
        /\ ns = [kind |-> CASE start = "open" -> "none" [] start = "reserved" -> "team"
                            [] OTHER -> start,
                 owner |-> IF start \in {"reserved", "personal"} THEN Creator ELSE NoDelegate]
        /\ places = [p \in Place |->
                        IF start = "legacy"
                        THEN [Empty EXCEPT ![Creator] = [in |-> TRUE, admin |-> TRUE, added |-> 0]]
                        ELSE Empty]
  BY DEF Init
<1>2. Outside \in PlaceEntry /\ [in |-> TRUE, admin |-> TRUE, added |-> 0] \in PlaceEntry
  BY DEF Outside, PlaceEntry
<1>3. Empty \in [Person -> PlaceEntry]
  BY <1>2 DEF Empty
<1>4. places \in [Place -> [Person -> PlaceEntry]]
  BY <1>1, <1>2, <1>3, CreatorAssumption
<1>5. start \in {"open", "reserved", "personal", "legacy"}
  BY StartsAssumption
<1>6. /\ ns \in [kind: {"none", "team", "personal", "legacy"}, owner: Person \cup {NoDelegate}]
      /\ ns.kind = "personal" => start = "personal"
  BY <1>1, <1>5, CreatorAssumption
<1>7. Types
  BY <1>4, <1>6 DEF Types, Init
<1>8. Chain(org) /\ LossesKnown(org, left)
  BY <1>1, NewOrgKnown, LegacyOrgKnown DEF Init
<1>9. PersonalAlone
  BY <1>1, <1>6, NewOrgIs DEF PersonalAlone
<1>10. seen \in [Person -> OrgState] /\ \A u \in Person : LossesKnown(seen[u], left)
  BY NewOrgIs, NewOrgKnown DEF Init
<1> QED
  BY <1>7, <1>8, <1>9, <1>10 DEF Inv

\* Steps that are not links: a device goes on with what it had read, with the
\* chain as it is, or with none.
LEMMA OthersKeep ==
    ASSUME Inv, UNCHANGED <<org, ns, left>>, Types',
           \/ seen' = seen
           \/ \E u \in Person, os \in {org, NewOrg} : seen' = [seen EXCEPT ![u] = os]
    PROVE  Inv'
<1>1. Chain(org') /\ PersonalAlone' /\ LossesKnown(org', left')
  BY DEF Inv, PersonalAlone
<1>2. org \in OrgState /\ NewOrg \in OrgState /\ LossesKnown(NewOrg, left')
  BY NewOrgIs, NewOrgKnown DEF Inv, Chain
<1>3. seen' \in [Person -> OrgState] /\ \A u \in Person : LossesKnown(seen'[u], left')
  BY <1>1, <1>2 DEF Inv
<1> QED
  BY <1>1, <1>3 DEF Inv

LEMMA StepInv == Inv /\ [Next]_vars => Inv'
<1> SUFFICES ASSUME Inv, [Next]_vars PROVE Inv'
  OBVIOUS
<1>1. ASSUME NEW u \in Person, Govern(u) PROVE Inv'
  BY <1>1, EachGoverns, GovernKeeps
<1>2. ASSUME NEW u \in Person, TrustOrg(u) PROVE Inv'
  <2>1. Types'
    BY <1>2 DEF Inv, Types, TrustOrg
  <2> QED  BY <1>2, <2>1, OthersKeep DEF TrustOrg
<1>3. ASSUME NEW u \in Person, NEW what \in {"command", "sync"}, Read(u, what) PROVE Inv'
  <2>1. Anchored(u) \in BOOLEAN
    BY DEF Anchored, SignedWithUserKey, Inv, Types
  <2>2. Types'
    BY <1>3, <2>1 DEF Inv, Types, Read
  <2> QED  BY <1>3, <2>2, OthersKeep DEF Read
<1>4. ASSUME NEW u \in Person, NEW p \in Place, CreatePlace(u, p) PROVE Inv'
  <2>1. [in |-> TRUE, admin |-> TRUE, added |-> Clock(u)] \in PlaceEntry
    BY ClockIsNat DEF PlaceEntry, Inv
  <2>2. Types'
    BY <1>4, <2>1 DEF Inv, Types, CreatePlace, InPlace, Stop
  <2> QED  BY <1>4, <2>2, OthersKeep DEF CreatePlace, InPlace, Stop
<1>5. ASSUME NEW u \in Person, NEW p \in Place, NEW v \in Person, AddToPlace(u, p, v) PROVE Inv'
  <2>1. PICK admin \in BOOLEAN : InPlace(p, v, [in |-> TRUE, admin |-> admin, added |-> Clock(u)])
    BY <1>5 DEF AddToPlace
  <2>2. [in |-> TRUE, admin |-> admin, added |-> Clock(u)] \in PlaceEntry
    BY ClockIsNat DEF PlaceEntry, Inv
  <2>3. Types'
    BY <1>5, <2>1, <2>2 DEF Inv, Types, AddToPlace, InPlace, Stop
  <2> QED  BY <1>5, <2>1, <2>3, OthersKeep DEF AddToPlace, InPlace, Stop
<1>6. ASSUME NEW u \in Person, NEW p \in Place, NEW v \in Person, TakeOut(u, p, v) PROVE Inv'
  <2>1. Outside \in PlaceEntry
    BY DEF Outside, PlaceEntry
  <2>2. Types'
    BY <1>6, <2>1 DEF Inv, Types, TakeOut, InPlace
  <2> QED  BY <1>6, <2>2, OthersKeep DEF TakeOut, InPlace
<1>7. ASSUME NEW u \in Person, Finish(u) PROVE Inv'
  <2>1. Types'
    BY <1>7 DEF Inv, Types, Finish, Stop
  <2> QED  BY <1>7, <2>1, OthersKeep DEF Finish, Stop
<1>8. ASSUME NEW u \in Person, NewUserKey(u) PROVE Inv'
  <2>1. Types'
    BY <1>8 DEF Inv, Types, NewUserKey
  <2> QED  BY <1>8, <2>1, OthersKeep DEF NewUserKey
<1>9. ASSUME NEW u \in Person, NewDevice(u) PROVE Inv'
  <2>1. Types'
    BY <1>9 DEF Inv, Types, NewDevice
  <2> QED  BY <1>9, <2>1, OthersKeep DEF NewDevice
<1>10. CASE Tick
  <2>1. Types'
    BY <1>10 DEF Inv, Types, Tick
  <2> QED  BY <1>10, <2>1, OthersKeep DEF Tick
<1>11. CASE UNCHANGED vars
  <2>1. Types'
    BY <1>11 DEF Inv, Types, vars
  <2> QED  BY <1>11, <2>1, OthersKeep DEF vars
<1> QED
  BY <1>1, <1>2, <1>3, <1>4, <1>5, <1>6, <1>7, <1>8, <1>9, <1>10, <1>11
  DEF Next, Work, StartCommand, StartSync

LEMMA InvHolds == Spec => []Inv
  BY InitInv, StepInv, PTL DEF Spec

-----------------------------------------------------------------------------
(* The theorems.                                                           *)

\* Through any links, signed by anyone who may, the organisation has an admin
\* and an owner, nobody two roles, a personal tenant only its owner, and the
\* default KMS key is approved.
THEOREM AlwaysGoverned == Spec => []Governed
<1>1. Inv => Governed
  <2> SUFFICES ASSUME Inv PROVE Governed
    OBVIOUS
  <2>1. SomeOwner
    BY DEF Inv, Chain, SomeOwner, Owners, Owner, ActiveAdmins
  <2>2. RolesApart
    BY DEF Inv, Chain, Sound, OneRole, OwnersAreAdmins, HasChain, RolesApart
  <2>3. DefaultApproved
    BY DEF Inv, Chain, Sound, DefaultIsApproved, DefaultApproved
  <2> QED  BY <2>1, <2>2, <2>3 DEF Inv, Governed
<1> QED
  BY <1>1, InvHolds, PTL

\* While only members are let in, whoever gets into a project or group is in
\* the organisation at that moment: the server asks again.
LEMMA StepLetsMembersIn == Inv /\ [Next]_vars => [MembersOnly]_vars
<1> SUFFICES ASSUME Inv, Next,
                    NEW p \in Place, NEW v \in Person,
                    ~places[p][v].in, places'[p][v].in,
                    HasChain(org), org.settings.membersOnly
             PROVE  In(org, v)
  BY DEF MembersOnly
<1>1. places' # places /\ places \in [Place -> [Person -> PlaceEntry]]
  BY DEF Inv, Types
<1>2. ASSUME NEW u \in Person, NEW q \in Place, CreatePlace(u, q) PROVE In(org, v)
  <2>1. u = v
    BY <1>1, <1>2 DEF CreatePlace, InPlace
  <2>2. CASE ns.kind = "personal"
    <3>1. PICK w \in Person : Admin(org, w)
      BY DEF Inv, Chain, Owners, Owner
    <3> QED  BY <1>2, <2>1, <2>2, <3>1 DEF CreatePlace, MayCreateNow, Inv, PersonalAlone, In
  <2>3. CASE ns.kind # "personal"
    BY <1>2, <2>1, <2>3 DEF CreatePlace, MayCreateNow
  <2> QED  BY <2>2, <2>3
<1>3. ASSUME NEW u \in Person, NEW q \in Place, NEW w \in Person, AddToPlace(u, q, w) PROVE In(org, v)
  <2>1. w = v
    BY <1>1, <1>3 DEF AddToPlace, InPlace
  <2> QED  BY <1>3, <2>1 DEF AddToPlace, MayJoinNow, MayJoin
<1>4. ASSUME NEW u \in Person, NEW q \in Place, NEW w \in Person, TakeOut(u, q, w) PROVE FALSE
  BY <1>1, <1>4 DEF TakeOut, InPlace, Outside
<1>5. ASSUME NEW u \in Person, Govern(u) PROVE FALSE
  BY <1>1, <1>5, EachGoverns DEF Governs
<1> QED
  BY <1>1, <1>2, <1>3, <1>4, <1>5
  DEF Next, Work, StartCommand, StartSync, Read, TrustOrg, Finish, NewUserKey, NewDevice, Tick

\* Nobody gets into a place of the organisation whom it does not allow at that
\* moment, whatever chain the device had read (checkOrgPerson on both sides).
THEOREM OnlyMembersLetIn == Spec => MembersOnlyProperty
  BY InvHolds, StepLetsMembersIn, PTL DEF Spec, MembersOnlyProperty

\* The removals a device goes by.
LEMMA TimeIsOfOne ==
    ASSUME NEW os \in OrgState, NEW v \in Person, Removals(os, v) # {}
    PROVE  /\ \E x \in Removals(os, v) : LeftAt(os, v) = x.removed
           /\ \E x \in Removals(os, v) : Latest(os, v, x)
<1>1. \A x \in Removals(os, v) : x.removed \in Nat /\ x.removedSeq \in Nat
  BY DEF Removals, OrgState, Entry
<1>2. \A x \in Removals(os, v) : x = os.admins[v] \/ x = os.members[v]
  BY DEF Removals
<1>3. \E x \in Removals(os, v) : Latest(os, v, x)
  BY <1>1, <1>2 DEF Latest
<1>4. PICK x \in Removals(os, v) : \A y \in Removals(os, v) : y.removed <= x.removed
  BY <1>1, <1>2
<1>5. LeftAt(os, v) \in {e.removed : e \in Removals(os, v)}
  BY <1>4 DEF LeftAt
<1> QED
  BY <1>3, <1>5

\* Only those who left are taken out of projects and groups, by a removal that
\* is not earlier than their entry; admins when it did not leave them that.
LEMMA StepTakesLeaversOut == Inv /\ [Next]_vars => [OnlyLeaversTakenOut]_vars
<1> SUFFICES ASSUME Inv, Next,
                    NEW p \in Place, NEW v \in Person,
                    places[p][v].in, ~places'[p][v].in
             PROVE  \E e, f \in left :
                        /\ e.user = v /\ f.user = v /\ ~e.stays /\ f.seq <= e.seq
                        /\ places[p][v].added <= f.time
                        /\ places[p][v].admin => ~e.keeps
  BY DEF OnlyLeaversTakenOut
<1>1. places' # places /\ places \in [Place -> [Person -> PlaceEntry]]
  BY DEF Inv, Types
<1>2. \A u \in Person, q \in Place : ~CreatePlace(u, q)
  BY <1>1 DEF CreatePlace, InPlace
<1>3. \A u \in Person, q \in Place, w \in Person : ~AddToPlace(u, q, w)
  BY <1>1 DEF AddToPlace, InPlace
<1>4. \A u \in Person : ~Govern(u)
  BY <1>1, EachGoverns DEF Governs
<1>5. PICK u \in Person, q \in Place, w \in Person : TakeOut(u, q, w)
  BY <1>1, <1>2, <1>3, <1>4
  DEF Next, Work, StartCommand, StartSync, Read, TrustOrg, Finish, NewUserKey, NewDevice, Tick
<1>6. p = q /\ w = v
  BY <1>1, <1>5 DEF TakeOut, InPlace
<1> DEFINE os == seen[u]
<1>7. StillIn(u, os, p, v) /\ os \in OrgState /\ LossesKnown(os, left)
  BY <1>5, <1>6 DEF TakeOut, Inv
<1> HIDE DEF os
<1>8. /\ ~In(os, v) /\ Removals(os, v) # {} /\ places[p][v].added <= LeftAt(os, v)
      /\ places[p][v].admin => ~KeepsAdminRoles(os, v)
  BY <1>7 DEF StillIn, Left, AddedBefore
<1>9. PICK x \in Removals(os, v), y \in Removals(os, v) :
          LeftAt(os, v) = x.removed /\ Latest(os, v, y)
  BY <1>7, <1>8, TimeIsOfOne
<1>10. PICK e \in left : Tells(e, v, y) /\ ~e.stays
  BY <1>7, <1>8, <1>9 DEF LossesKnown
<1>11. PICK f \in left : Tells(f, v, x)
  BY <1>7, <1>9 DEF LossesKnown
<1>12. f.seq <= e.seq
  BY <1>9, <1>10, <1>11 DEF Latest, Tells
<1>13. places[p][v].added <= f.time
  BY <1>8, <1>9, <1>11 DEF Tells
<1>14. places[p][v].admin => ~e.keeps
  BY <1>8, <1>9, <1>10 DEF KeepsAdminRoles, Latest, Tells
<1> QED
  BY <1>10, <1>11, <1>12, <1>13, <1>14 DEF Tells

\* What devices do unasked takes nobody out of a place but those who lost their
\* role in the organisation since they were let in (orgRemovals).
THEOREM OnlyLeaversGo == Spec => OnlyLeaversTakenOutProperty
  BY InvHolds, StepTakesLeaversOut, PTL DEF Spec, OnlyLeaversTakenOutProperty
=============================================================================
