---------------------------- MODULE GroupProofs -----------------------------
(***************************************************************************)
(* Theorems about Group, for any people, machines, tokens, workloads,      *)
(* environments and bounds: whoever left and still holds the group's key   *)
(* is listed, a key that the server reports as sent can be opened, and     *)
(* whoever has the key of an environment through the group is in the group *)
(* or on the list of those for whom the project asks for a new key.        *)
(***************************************************************************)
EXTENDS Group, ProjectRulesProofs, TLAPS

-----------------------------------------------------------------------------
(* The invariant.                                                          *)

\* A key is destroyed with its machine, which does not come back.
DestroyedAreGone(s) ==
    \A c \in Cred : s.creds[c].destroyed => s.creds[c].status = "former"

GroupOK(s) == s \in GroupChainState /\ DestroyedAreGone(s)

PersonalChain == Seq([ver: Nat, delegates: SUBSET Delegate])

DestroyedIn(s, h) == h \in Cred /\ s.creds[h].destroyed

FormerSince(e, b) == e.status = "former" /\ e.removed >= b

\* h is in the group, or left it no earlier than b, or their key is destroyed.
Reaches(s, h, b) ==
    \/ InGroup(s, h) \/ DestroyedIn(s, h)
    \/ IF h \in Person THEN FormerSince(s.admins[h], b) \/ FormerSince(s.members[h], b)
       ELSE FormerSince(s.creds[h], b)

Renamed(s, n) == \E old \in EnvName : s.renames[old] = n

SinceIn(s, n) == s.groups[TheGroup].since[n]

\* Since when whoever left the group may hold the key n has.  A rename makes
\* the time unknown at which the group was granted n.
From(s, n) ==
    IF Renamed(s, n) \/ SinceIn(s, n) <= s.envs[n].since THEN s.envs[n].since ELSE SinceIn(s, n)

\* What the group reads was granted at a time that is known, or renamed.
Dates(s, time) ==
    /\ \A n \in EnvName : s.envs[n].since <= time /\ SinceIn(s, n) <= time
    /\ \A n \in EnvNames(s) : s.renames[n] = NoEnv
    /\ \A n \in Access(s, TheGroup) : SinceIn(s, n) = 0 => Renamed(s, n)

ProjectOK(s, time) == RulesOK(s) /\ Dates(s, time)

EnvKeys(s) == {s.envs[n].key : n \in EnvName}

SealedGrant == [from: {Creator}, to: {TheGroup}, toVer: Nat,
                envs: SUBSET [env: EnvName, key: EnvKey \cup {NoKey}]]

Typed ==
    /\ GroupOK(gs)
    /\ chains \in [Person -> PersonalChain] /\ \A u \in Person : Len(chains[u]) > 0
    /\ now \in Nat \ {0}
    /\ known \in [KeyHolder -> Nat]
    /\ ProjectOK(st, now)
    /\ sealed \subseteq SealedGrant
    /\ \A h \in KeyHolder : read[h] \subseteq EnvKeys(st)

\* Nobody has a version of the key that there is not yet.
KnownVersions == \A h \in KeyHolder : known[h] <= gs.version

\* What the server keeps are grants of the current key, by someone who may
\* grant it, to someone in the group, sealed to the key that they have.
GrantsStand == \A g \in kg : CheckKeyGrant(gs, g)

\* h is among those who are asked about the key of n.
Counted(s, c, h, n) ==
    \/ TheGroup \in s.envs[n].exposed
    \/ n \in Access(s, TheGroup) /\ Reaches(c, h, From(s, n))

ReadersCounted ==
    \A h \in KeyHolder : \A n \in EnvNames(st) : st.envs[n].key \in read[h] => Counted(st, gs, h, n)

Inv == Typed /\ KnownVersions /\ FormerHoldersExposed /\ GrantsStand /\ ReadersCounted

-----------------------------------------------------------------------------
(* What one link does to who holds the key.                                *)

GroupTypes == {"admin_add", "admin_remove", "member_add", "member_remove", "machine_add",
               "token_add", "workload_add", "workload_rekey", "remove", "key_rotate",
               "access_add", "access_remove"}

\* A link as it is decoded; the first link of a group is apart.
LinkTyped(l) ==
    /\ l.type \in GroupTypes
    /\ l.type \in {"admin_add", "admin_remove", "member_add", "member_remove"} => l.b.user \in Person
    /\ l.type \in {"admin_add", "member_add"} => l.b.verified \in Verification
    /\ l.type \in {"machine_add", "token_add", "workload_add", "workload_rekey", "remove"} =>
         l.b.id \in Cred
    /\ l.type = "remove" => l.b.destroyed \in BOOLEAN
    /\ l.seq \in Nat /\ l.time \in Nat /\ l.pos \in Nat
    /\ l.signer \in Person \cup Token
    /\ l.pos # 0 => l.signer \in Person

\* Whoever was in the group at some time up to now is seen to have been.
Carries(s, t, time) ==
    \A h \in KeyHolder, b \in Nat : b <= time /\ Reaches(s, h, b) => Reaches(t, h, b)

\* Whoever leaves is exposed, or their key is destroyed.
LeaversExposed(s, t) ==
    \A h \in KeyHolder :
        /\ h \in s.exposed => h \in t.exposed
        /\ InGroup(s, h) => InGroup(t, h) \/ DestroyedIn(t, h) \/ h \in t.exposed

\* One link, or more, at time: the key is the same and leavers are exposed, or
\* there is a new key.
Becomes(s, t, time) ==
    /\ GroupOK(t)
    /\ Carries(s, t, time)
    /\ \A c \in Cred : s.creds[c].destroyed => t.creds[c].destroyed
    /\ \/ t.version = s.version /\ LeaversExposed(s, t)
       \/ t.version > s.version

\* Workloads whose key the link replaces.
Rekeyed(l) == IF l.type = "workload_rekey" THEN {l.b.id} ELSE {}

SameEnc(s, t, rekeyed) == \A c \in Cred \ rekeyed : t.creds[c].enc = s.creds[c].enc

LinkGives(s, l, t) == Becomes(s, t, l.time) /\ SameEnc(s, t, Rekeyed(l))

LEMMA GroupFields ==
    ASSUME NEW s \in GroupChainState
    PROVE  /\ s.seq \in Nat /\ s.last \in Nat /\ s.version \in Nat /\ s.access \in BOOLEAN
           /\ s.admins \in [Person -> PersonEntry] /\ s.members \in [Person -> PersonEntry]
           /\ s.creds \in [Cred -> CredState] /\ s.exposed \in SUBSET KeyHolder
           /\ s.signerSeqs \in [Person -> Nat]
  BY DEF GroupChainState

LEMMA InGroupIs ==
    ASSUME NEW s
    PROVE  /\ \A u \in Person : InGroup(s, u) <=> (s.admins[u].status = "active" \/ s.members[u].status = "active")
           /\ \A c \in Cred : InGroup(s, c) <=> s.creds[c].status = "active"
  BY CredsAssumption DEF InGroup, HoldsKey, GroupAdmin, GroupMember

\* Whether someone is in the group depends on their own entries.
LEMMA SameEntries ==
    ASSUME NEW s, NEW t, NEW h \in KeyHolder,
           h \in Person => t.admins[h] = s.admins[h] /\ t.members[h] = s.members[h],
           h \in Cred => t.creds[h] = s.creds[h]
    PROVE  /\ InGroup(t, h) <=> InGroup(s, h)
           /\ DestroyedIn(t, h) <=> DestroyedIn(s, h)
           /\ \A b : Reaches(t, h, b) <=> Reaches(s, h, b)
<1>1. h \in Cred => /\ t.creds[h].status = s.creds[h].status
                    /\ t.creds[h].destroyed = s.creds[h].destroyed
                    /\ t.creds[h].removed = s.creds[h].removed
  OBVIOUS
<1>2. /\ InGroup(t, h) <=> InGroup(s, h)
      /\ DestroyedIn(t, h) <=> DestroyedIn(s, h)
  <2>1. CASE h \in Person
    BY <2>1, CredsAssumption DEF InGroup, HoldsKey, GroupAdmin, GroupMember, DestroyedIn
  <2>2. CASE h \in Cred /\ h \notin Person
    BY <1>1, <2>2 DEF InGroup, DestroyedIn
  <2> QED
    BY <2>1, <2>2 DEF KeyHolder
<1>3. \A b : Reaches(t, h, b) <=> Reaches(s, h, b)
  BY <1>1, <1>2 DEF Reaches, FormerSince, KeyHolder
<1> QED
  BY <1>2, <1>3

\* A new entry, and one that has ended.
LEMMA EntriesAre ==
    /\ \A v \in Verification : NewEntry(v) \in PersonEntry /\ NewEntry(v).status = "active"
    /\ \A e \in PersonEntry, t \in Nat :
         LET x == [e EXCEPT !.status = "former", !.removed = t]
         IN  x \in PersonEntry /\ x.status = "former" /\ x.removed = t
  BY DEF NewEntry, PersonEntry

\* Links that change only the people, one of them.
LEMMA PeopleMove ==
    ASSUME NEW s, GroupOK(s), NEW w \in Person, NEW a \in PersonEntry, NEW m \in PersonEntry,
           NEW x \in SUBSET KeyHolder, s.exposed \subseteq x, NEW time \in Nat,
           \/ a.status = "active" \/ m.status = "active"
           \/ w \in x /\ (FormerSince(a, time) \/ FormerSince(m, time)),
           NEW t, t = [s EXCEPT !.admins = [s.admins EXCEPT ![w] = a],
                                !.members = [s.members EXCEPT ![w] = m], !.exposed = x]
    PROVE  Becomes(s, t, time) /\ SameEnc(s, t, {})
<1>1. s \in GroupChainState
  BY DEF GroupOK
<1> DEFINE A == [s.admins EXCEPT ![w] = a]
           M == [s.members EXCEPT ![w] = m]
<1>2. /\ A \in [Person -> PersonEntry] /\ M \in [Person -> PersonEntry]
      /\ A[w] = a /\ M[w] = m
      /\ \A u \in Person : u # w => A[u] = s.admins[u] /\ M[u] = s.members[u]
  BY <1>1, GroupFields
<1> HIDE DEF A, M
<1>3. /\ t \in GroupChainState /\ t.admins = A /\ t.members = M /\ t.exposed = x
      /\ t.creds = s.creds /\ t.version = s.version
  <2>1. t = [s EXCEPT !.admins = A, !.members = M, !.exposed = x]
    BY DEF A, M
  <2> QED  BY <1>1, <1>2, <2>1 DEF GroupChainState
<1>4. DestroyedAreGone(t)
  BY <1>3 DEF DestroyedAreGone, GroupOK
<1>5. LeaversExposed(s, t)
  <2> SUFFICES ASSUME NEW h \in KeyHolder
               PROVE  /\ h \in s.exposed => h \in t.exposed
                      /\ InGroup(s, h) => InGroup(t, h) \/ DestroyedIn(t, h) \/ h \in t.exposed
    BY DEF LeaversExposed
  <2>1. CASE h = w
    BY <2>1, <1>2, <1>3, InGroupIs
  <2>2. CASE h # w
    <3>1. /\ h \in Person => t.admins[h] = s.admins[h] /\ t.members[h] = s.members[h]
          /\ t.creds[h] = s.creds[h]
      BY <2>2, <1>2, <1>3
    <3>2. InGroup(t, h) <=> InGroup(s, h)
      BY <3>1, SameEntries
    <3> QED  BY <3>2, <1>3
  <2> QED  BY <2>1, <2>2
<1>6. Carries(s, t, time)
  <2> SUFFICES ASSUME NEW h \in KeyHolder, NEW b \in Nat, b <= time, Reaches(s, h, b)
               PROVE  Reaches(t, h, b)
    BY DEF Carries
  <2>1. CASE h = w
    <3>1. a.removed \in Nat /\ m.removed \in Nat
      BY DEF PersonEntry
    <3>2. (FormerSince(a, time) => FormerSince(a, b)) /\ (FormerSince(m, time) => FormerSince(m, b))
      BY <3>1 DEF FormerSince
    <3>3. a.status = "active" \/ m.status = "active" => InGroup(t, w)
      BY <1>2, <1>3, InGroupIs
    <3>4. InGroup(t, w) \/ FormerSince(t.admins[w], b) \/ FormerSince(t.members[w], b)
      BY <1>2, <1>3, <3>2, <3>3
    <3> QED  BY <2>1, <3>4 DEF Reaches
  <2>2. CASE h # w
    <3>1. /\ h \in Person => t.admins[h] = s.admins[h] /\ t.members[h] = s.members[h]
          /\ t.creds[h] = s.creds[h]
      BY <2>2, <1>2, <1>3
    <3> QED  BY <3>1, SameEntries
  <2> QED  BY <2>1, <2>2
<1> QED
  BY <1>3, <1>4, <1>5, <1>6 DEF Becomes, SameEnc, GroupOK

LEMMA AdminAddGives ==
    ASSUME NEW s, GroupOK(s), NEW l, LinkTyped(l), l.type = "admin_add"
    PROVE  LinkGives(s, l, ApplyAdminAdd(s, l))
<1> DEFINE w == l.b.user
           e == s.members[w]
           m == IF e.status = "active" THEN [e EXCEPT !.status = "former", !.removed = l.time] ELSE e
           a == NewEntry(l.b.verified)
           t == ApplyAdminAdd(s, l)
<1>1. s \in GroupChainState /\ w \in Person /\ l.time \in Nat /\ l.b.verified \in Verification
  BY DEF GroupOK, LinkTyped
<1>2. e \in PersonEntry
  BY <1>1, GroupFields
<1>3. a \in PersonEntry /\ a.status = "active" /\ m \in PersonEntry
  BY <1>1, <1>2, EntriesAre
<1>4. t = [s EXCEPT !.admins = [s.admins EXCEPT ![w] = a],
                    !.members = [s.members EXCEPT ![w] = m], !.exposed = s.exposed]
  BY <1>1 DEF ApplyAdminAdd, GroupChainState
<1> HIDE DEF a, m, t
<1>5. s.exposed \in SUBSET KeyHolder
  BY <1>1, GroupFields
<1>6. Becomes(s, t, l.time) /\ SameEnc(s, t, {})
  BY <1>1, <1>3, <1>4, <1>5, PeopleMove
<1> QED
  BY <1>6 DEF LinkGives, Rekeyed, t

LEMMA MemberAddGives ==
    ASSUME NEW s, GroupOK(s), NEW l, LinkTyped(l), l.type = "member_add"
    PROVE  LinkGives(s, l, [s EXCEPT !.members[l.b.user] = NewEntry(l.b.verified)])
<1> DEFINE w == l.b.user
           m == NewEntry(l.b.verified)
           a == s.admins[w]
           t == [s EXCEPT !.members[w] = m]
<1>1. s \in GroupChainState /\ w \in Person /\ l.time \in Nat /\ l.b.verified \in Verification
  BY DEF GroupOK, LinkTyped
<1>2. a \in PersonEntry /\ m \in PersonEntry /\ m.status = "active" /\ s.exposed \in SUBSET KeyHolder
  BY <1>1, EntriesAre, GroupFields
<1>3. t = [s EXCEPT !.admins = [s.admins EXCEPT ![w] = a],
                    !.members = [s.members EXCEPT ![w] = m], !.exposed = s.exposed]
  BY <1>1 DEF GroupChainState
<1> HIDE DEF m, t
<1>4. Becomes(s, t, l.time) /\ SameEnc(s, t, {})
  BY <1>1, <1>2, <1>3, PeopleMove
<1> QED
  BY <1>4 DEF LinkGives, Rekeyed, t, m

LEMMA AdminRemoveGives ==
    ASSUME NEW s, GroupOK(s), NEW l, LinkTyped(l), l.type = "admin_remove"
    PROVE  LinkGives(s, l, ApplyAdminRemove(s, l))
<1> DEFINE w == l.b.user
           a == [s.admins[w] EXCEPT !.status = "former", !.removed = l.time]
           m == s.members[w]
           x == s.exposed \cup {w}
           t == ApplyAdminRemove(s, l)
<1>1. s \in GroupChainState /\ w \in Person /\ l.time \in Nat
  BY DEF GroupOK, LinkTyped
<1>2. /\ s.admins[w] \in PersonEntry /\ m \in PersonEntry /\ s.exposed \in SUBSET KeyHolder
      /\ w \in KeyHolder
  BY <1>1, GroupFields DEF KeyHolder
<1>3. a \in PersonEntry /\ x \in SUBSET KeyHolder /\ w \in x /\ s.exposed \subseteq x
      /\ a.status = "former" /\ a.removed = l.time
  BY <1>1, <1>2, EntriesAre
<1>4. t = [s EXCEPT !.admins = [s.admins EXCEPT ![w] = a],
                    !.members = [s.members EXCEPT ![w] = m], !.exposed = x]
  BY <1>1, ZenonT(40) DEF ApplyAdminRemove, KeyExposed, GroupChainState
<1> HIDE DEF a, m, t, x
<1>5. FormerSince(a, l.time)
  BY <1>1, <1>3 DEF FormerSince
<1>6. Becomes(s, t, l.time) /\ SameEnc(s, t, {})
  BY <1>1, <1>2, <1>3, <1>4, <1>5, PeopleMove
<1> QED
  BY <1>6 DEF LinkGives, Rekeyed, t

LEMMA MemberRemoveGives ==
    ASSUME NEW s, GroupOK(s), NEW l, LinkTyped(l), l.type = "member_remove"
    PROVE  LinkGives(s, l, ApplyGroupMemberRemove(s, l))
<1> DEFINE w == l.b.user
           m == [s.members[w] EXCEPT !.status = "former", !.removed = l.time]
           a == s.admins[w]
           x == s.exposed \cup {w}
           t == ApplyGroupMemberRemove(s, l)
<1>1. s \in GroupChainState /\ w \in Person /\ l.time \in Nat
  BY DEF GroupOK, LinkTyped
<1>2. /\ s.members[w] \in PersonEntry /\ a \in PersonEntry /\ s.exposed \in SUBSET KeyHolder
      /\ w \in KeyHolder
  BY <1>1, GroupFields DEF KeyHolder
<1>3. m \in PersonEntry /\ x \in SUBSET KeyHolder /\ w \in x /\ s.exposed \subseteq x
      /\ m.status = "former" /\ m.removed = l.time
  BY <1>1, <1>2, EntriesAre
<1>4. t = [s EXCEPT !.admins = [s.admins EXCEPT ![w] = a],
                    !.members = [s.members EXCEPT ![w] = m], !.exposed = x]
  BY <1>1, ZenonT(40) DEF ApplyGroupMemberRemove, KeyExposed, GroupChainState
<1> HIDE DEF a, m, t, x
<1>5. FormerSince(m, l.time)
  BY <1>1, <1>3 DEF FormerSince
<1>6. Becomes(s, t, l.time) /\ SameEnc(s, t, {})
  BY <1>1, <1>2, <1>3, <1>4, <1>5, PeopleMove
<1> QED
  BY <1>6 DEF LinkGives, Rekeyed, t

\* Links that change one credential.
LEMMA CredMoves ==
    ASSUME NEW s, GroupOK(s), NEW w \in Cred, NEW e \in CredState,
           e.destroyed => e.status = "former",
           s.creds[w].destroyed => e.destroyed,
           NEW x \in SUBSET KeyHolder, s.exposed \subseteq x, NEW time \in Nat,
           e.status = "active" \/ e.destroyed \/ (w \in x /\ FormerSince(e, time)),
           NEW t, t = [s EXCEPT !.creds = [s.creds EXCEPT ![w] = e], !.exposed = x]
    PROVE  /\ Becomes(s, t, time) /\ SameEnc(s, t, {w})
           /\ e.enc = s.creds[w].enc => SameEnc(s, t, {})
<1>1. s \in GroupChainState
  BY DEF GroupOK
<1> DEFINE C == [s.creds EXCEPT ![w] = e]
<1>2. C \in [Cred -> CredState] /\ C[w] = e /\ \A c \in Cred : c # w => C[c] = s.creds[c]
  BY <1>1, GroupFields
<1> HIDE DEF C
<1>3. /\ t \in GroupChainState /\ t.admins = s.admins /\ t.members = s.members /\ t.exposed = x
      /\ t.creds = C /\ t.version = s.version
  <2>1. t = [s EXCEPT !.creds = C, !.exposed = x]
    BY DEF C
  <2> QED  BY <1>1, <1>2, <2>1 DEF GroupChainState
<1>4. DestroyedAreGone(t)
  BY <1>2, <1>3 DEF DestroyedAreGone, GroupOK
<1>5. LeaversExposed(s, t)
  <2> SUFFICES ASSUME NEW h \in KeyHolder
               PROVE  /\ h \in s.exposed => h \in t.exposed
                      /\ InGroup(s, h) => InGroup(t, h) \/ DestroyedIn(t, h) \/ h \in t.exposed
    BY DEF LeaversExposed
  <2>1. CASE h = w
    BY <2>1, <1>2, <1>3, InGroupIs DEF DestroyedIn
  <2>2. CASE h # w
    <3>1. /\ h \in Cred => t.creds[h] = s.creds[h]
          /\ t.admins[h] = s.admins[h] /\ t.members[h] = s.members[h]
      BY <2>2, <1>2, <1>3
    <3>2. InGroup(t, h) <=> InGroup(s, h)
      BY <3>1, SameEntries
    <3> QED  BY <3>2, <1>3
  <2> QED  BY <2>1, <2>2
<1>6. \A c \in Cred : s.creds[c].destroyed => t.creds[c].destroyed
  BY <1>2, <1>3
<1>7. Carries(s, t, time)
  <2> SUFFICES ASSUME NEW h \in KeyHolder, NEW b \in Nat, b <= time, Reaches(s, h, b)
               PROVE  Reaches(t, h, b)
    BY DEF Carries
  <2>1. CASE h = w
    <3>1. e.removed \in Nat
      BY DEF CredState
    <3>2. e.status = "active" \/ e.destroyed \/ FormerSince(e, b)
      BY <3>1 DEF FormerSince
    <3> QED  BY <2>1, <1>2, <1>3, <3>2, InGroupIs, CredsAssumption DEF Reaches, DestroyedIn
  <2>2. CASE h # w
    <3>1. /\ h \in Cred => t.creds[h] = s.creds[h]
          /\ t.admins[h] = s.admins[h] /\ t.members[h] = s.members[h]
      BY <2>2, <1>2, <1>3
    <3> QED  BY <3>1, SameEntries
  <2> QED  BY <2>1, <2>2
<1> QED
  BY <1>2, <1>3, <1>4, <1>5, <1>6, <1>7 DEF Becomes, SameEnc, GroupOK

LEMMA AddCredGives ==
    ASSUME NEW s, GroupOK(s), NEW l, LinkTyped(l), ValidCredAdd(s, l),
           l.type \in {"machine_add", "token_add", "workload_add"}
    PROVE  LinkGives(s, l, AddCred(s, l))
<1> DEFINE w == l.b.id
           e == [s.creds[w] EXCEPT !.status = "active", !.by = l.signer]
           t == AddCred(s, l)
<1>1. /\ s \in GroupChainState /\ w \in Cred /\ l.signer \in Person \cup Token
      /\ s.creds[w].status = "none" /\ l.time \in Nat
  BY DEF GroupOK, LinkTyped, ValidCredAdd
<1>2. s.creds[w] \in CredState /\ s.exposed \in SUBSET KeyHolder
  BY <1>1, GroupFields
<1>3. /\ e \in CredState /\ e.status = "active" /\ e.enc = s.creds[w].enc
      /\ e.destroyed = s.creds[w].destroyed
  BY <1>1, <1>2 DEF CredState
<1>4. ~s.creds[w].destroyed
  BY <1>1 DEF GroupOK, DestroyedAreGone
<1>5. t = [s EXCEPT !.creds = [s.creds EXCEPT ![w] = e], !.exposed = s.exposed]
  BY <1>1 DEF AddCred, GroupChainState
<1> HIDE DEF e, t
<1>6. Becomes(s, t, l.time) /\ SameEnc(s, t, {})
  BY <1>1, <1>2, <1>3, <1>4, <1>5, CredMoves
<1> QED
  BY <1>6 DEF LinkGives, Rekeyed, t

LEMMA RekeyGives ==
    ASSUME NEW s, GroupOK(s), NEW l, LinkTyped(l), l.type = "workload_rekey",
           l.b.id \in ActiveCreds(s)
    PROVE  LinkGives(s, l, [s EXCEPT !.creds[l.b.id].enc = @ + 1])
<1> DEFINE w == l.b.id
           e == [s.creds[w] EXCEPT !.enc = @ + 1]
           t == [s EXCEPT !.creds[w].enc = @ + 1]
<1>1. s \in GroupChainState /\ w \in Cred /\ l.time \in Nat /\ s.creds[w].status = "active"
  BY DEF GroupOK, LinkTyped, ActiveCreds
<1>2. s.creds[w] \in CredState /\ s.exposed \in SUBSET KeyHolder
  BY <1>1, GroupFields
<1>3. e \in CredState /\ e.status = s.creds[w].status /\ e.destroyed = s.creds[w].destroyed
  BY <1>1, <1>2 DEF CredState
<1>4. e.destroyed => e.status = "former"
  BY <1>1, <1>3 DEF GroupOK, DestroyedAreGone
<1>5. t = [s EXCEPT !.creds = [s.creds EXCEPT ![w] = e], !.exposed = s.exposed]
  BY <1>1 DEF GroupChainState
<1> HIDE DEF e, t
<1>6. Becomes(s, t, l.time) /\ SameEnc(s, t, {w})
  BY <1>1, <1>2, <1>3, <1>4, <1>5, CredMoves
<1> QED
  BY <1>6 DEF LinkGives, Rekeyed, t

LEMMA RemoveGives ==
    ASSUME NEW s, GroupOK(s), NEW l, LinkTyped(l), l.type = "remove", l.b.id \in ActiveCreds(s)
    PROVE  LinkGives(s, l, ApplyRemove(s, l))
<1> DEFINE w == l.b.id
           e == [s.creds[w] EXCEPT !.status = "former", !.removed = l.time,
                                   !.destroyed = l.b.destroyed]
           x == IF l.b.destroyed THEN s.exposed ELSE s.exposed \cup {w}
           t == ApplyRemove(s, l)
<1>1. /\ s \in GroupChainState /\ w \in Cred /\ l.time \in Nat /\ l.b.destroyed \in BOOLEAN
      /\ s.creds[w].status = "active"
  BY DEF GroupOK, LinkTyped, ActiveCreds
<1>2. s.creds[w] \in CredState /\ s.exposed \in SUBSET KeyHolder /\ w \in KeyHolder
  BY <1>1, GroupFields DEF KeyHolder
<1>3. /\ e \in CredState /\ e.status = "former" /\ e.enc = s.creds[w].enc
      /\ e.destroyed = l.b.destroyed /\ e.removed = l.time
  BY <1>1, <1>2 DEF CredState
<1>4. ~s.creds[w].destroyed
  BY <1>1 DEF GroupOK, DestroyedAreGone
<1>5. t = [s EXCEPT !.creds = [s.creds EXCEPT ![w] = e], !.exposed = x]
  <2>1. CASE l.b.destroyed
    BY <2>1, <1>1, ZenonT(40) DEF ApplyRemove, GroupChainState
  <2>2. CASE ~l.b.destroyed
    BY <2>2, <1>1, ZenonT(40) DEF ApplyRemove, KeyExposed, GroupChainState
  <2> QED  BY <2>1, <2>2
<1>6. x \in SUBSET KeyHolder /\ s.exposed \subseteq x /\ (e.destroyed \/ w \in x)
  BY <1>2, <1>3
<1> HIDE DEF e, t, x
<1>7. FormerSince(e, l.time)
  BY <1>1, <1>3 DEF FormerSince
<1>8. Becomes(s, t, l.time) /\ SameEnc(s, t, {})
  BY <1>1, <1>2, <1>3, <1>4, <1>5, <1>6, <1>7, CredMoves
<1> QED
  BY <1>8 DEF LinkGives, Rekeyed, t

LEMMA RotateGives ==
    ASSUME NEW s, GroupOK(s), NEW l, LinkTyped(l), l.type = "key_rotate",
           l.b.version = s.version + 1
    PROVE  LinkGives(s, l, SetKey(s, l.b.version))
<1> DEFINE t == SetKey(s, l.b.version)
<1>1. s \in GroupChainState /\ s.version \in Nat
  BY GroupFields DEF GroupOK
<1>2. /\ t \in GroupChainState /\ t.creds = s.creds /\ t.version = s.version + 1
      /\ t.admins = s.admins /\ t.members = s.members
  <2>1. t = [s EXCEPT !.version = s.version + 1, !.exposed = {}]
    BY DEF SetKey
  <2>2. s.version + 1 \in Nat /\ {} \in SUBSET KeyHolder
    BY <1>1
  <2> QED  BY <1>1, <2>1, <2>2 DEF GroupChainState
<1>3. t.version > s.version
  BY <1>1, <1>2
<1> HIDE DEF t
<1>4. GroupOK(t)
  BY <1>2 DEF GroupOK, DestroyedAreGone
<1>5. Carries(s, t, l.time)
  BY <1>2, SameEntries DEF Carries
<1> QED
  BY <1>2, <1>3, <1>4, <1>5 DEF LinkGives, Becomes, SameEnc, Rekeyed, t

LEMMA AccessGives ==
    ASSUME NEW s, GroupOK(s), NEW l, l.type \in {"access_add", "access_remove"}
    PROVE  LinkGives(s, l, [s EXCEPT !.access = l.type = "access_add"])
<1> DEFINE b == l.type = "access_add"
           t == [s EXCEPT !.access = b]
<1>1. s \in GroupChainState /\ b \in BOOLEAN
  BY DEF GroupOK
<1> HIDE DEF b
<1>2. /\ t \in GroupChainState /\ t.creds = s.creds /\ t.version = s.version
      /\ t.admins = s.admins /\ t.members = s.members /\ t.exposed = s.exposed
  BY <1>1 DEF GroupChainState
<1> HIDE DEF t
<1>3. GroupOK(t)
  BY <1>2 DEF GroupOK, DestroyedAreGone
<1>4. LeaversExposed(s, t)
  BY <1>2, InGroupIs DEF LeaversExposed, KeyHolder
<1>5. Carries(s, t, l.time)
  BY <1>2, SameEntries DEF Carries
<1> QED
  BY <1>2, <1>3, <1>4, <1>5 DEF LinkGives, Becomes, SameEnc, Rekeyed, t, b

\* Every link that GroupValidNext takes, with what step notes of it.
LEMMA Noted ==
    ASSUME NEW s, NEW x, NEW l, LinkTyped(l), LinkGives(s, l, x),
           NEW t, t = LET next == [x EXCEPT !.seq = l.seq, !.last = l.time]
                      IN  IF l.pos = 0 THEN next ELSE [next EXCEPT !.signerSeqs[l.signer] = l.pos]
    PROVE  LinkGives(s, l, t)
<1> DEFINE q == IF l.pos = 0 THEN x.signerSeqs ELSE [x.signerSeqs EXCEPT ![l.signer] = l.pos]
<1>1. x \in GroupChainState /\ l.seq \in Nat /\ l.time \in Nat
  BY DEF LinkGives, Becomes, GroupOK, LinkTyped
<1>2. q \in [Person -> Nat]
  BY <1>1, GroupFields DEF LinkTyped
<1>3. t = [x EXCEPT !.seq = l.seq, !.last = l.time, !.signerSeqs = q]
  <2>1. CASE l.pos = 0
    BY <2>1, <1>1 DEF GroupChainState
  <2>2. CASE l.pos # 0
    BY <2>2, <1>1 DEF GroupChainState
  <2> QED  BY <2>1, <2>2
<1> HIDE DEF q
<1>4. /\ t \in GroupChainState /\ t.creds = x.creds /\ t.version = x.version
      /\ t.admins = x.admins /\ t.members = x.members /\ t.exposed = x.exposed
  BY <1>1, <1>2, <1>3 DEF GroupChainState
<1>5. GroupOK(t)
  BY <1>4 DEF LinkGives, Becomes, GroupOK, DestroyedAreGone
<1>6. LeaversExposed(s, x) => LeaversExposed(s, t)
  <2>1. \A h \in KeyHolder : (InGroup(t, h) <=> InGroup(x, h)) /\ (DestroyedIn(t, h) <=> DestroyedIn(x, h))
    BY <1>4, SameEntries
  <2> QED  BY <1>4, <2>1 DEF LeaversExposed
<1>7. Carries(s, x, l.time) => Carries(s, t, l.time)
  <2>1. \A h \in KeyHolder : \A b : Reaches(t, h, b) <=> Reaches(x, h, b)
    BY <1>4, SameEntries
  <2> QED  BY <2>1 DEF Carries
<1> QED
  BY <1>4, <1>5, <1>6, <1>7 DEF LinkGives, Becomes, SameEnc

LEMMA EachLinkGives ==
    ASSUME NEW s, GroupOK(s), NEW l, LinkTyped(l), GroupValidApply(s, l)
    PROVE  LinkGives(s, l, GroupNextState(s, l))
<1> DEFINE x == GroupApply(s, l)
<1>1. LinkGives(s, l, x)
  <2>1. CASE l.type = "admin_add"
    <3>1. x = ApplyAdminAdd(s, l)
      BY <2>1 DEF GroupApply
    <3> QED  BY <2>1, <3>1, AdminAddGives
  <2>2. CASE l.type = "admin_remove"
    <3>1. x = ApplyAdminRemove(s, l)
      BY <2>2 DEF GroupApply
    <3> QED  BY <2>2, <3>1, AdminRemoveGives
  <2>3. CASE l.type = "member_add"
    <3>1. x = [s EXCEPT !.members[l.b.user] = NewEntry(l.b.verified)]
      BY <2>3 DEF GroupApply
    <3> QED  BY <2>3, <3>1, MemberAddGives
  <2>4. CASE l.type = "member_remove"
    <3>1. x = ApplyGroupMemberRemove(s, l)
      BY <2>4 DEF GroupApply
    <3> QED  BY <2>4, <3>1, MemberRemoveGives
  <2>5. CASE l.type \in {"machine_add", "token_add", "workload_add"}
    <3>1. x = AddCred(s, l) /\ ValidCredAdd(s, l)
      BY <2>5 DEF GroupApply, GroupValidApply
    <3> QED  BY <2>5, <3>1, AddCredGives
  <2>6. CASE l.type = "workload_rekey"
    <3>1. x = [s EXCEPT !.creds[l.b.id].enc = @ + 1] /\ l.b.id \in ActiveCreds(s)
      BY <2>6 DEF GroupApply, GroupValidApply
    <3> QED  BY <2>6, <3>1, RekeyGives
  <2>7. CASE l.type = "remove"
    <3>1. x = ApplyRemove(s, l) /\ l.b.id \in ActiveCreds(s)
      BY <2>7 DEF GroupApply, GroupValidApply
    <3> QED  BY <2>7, <3>1, RemoveGives
  <2>8. CASE l.type = "key_rotate"
    <3>1. x = SetKey(s, l.b.version) /\ l.b.version = s.version + 1
      BY <2>8 DEF GroupApply, GroupValidApply
    <3> QED  BY <2>8, <3>1, RotateGives
  <2>9. CASE l.type \in {"access_add", "access_remove"}
    <3>1. x = [s EXCEPT !.access = l.type = "access_add"]
      BY <2>9 DEF GroupApply
    <3> QED  BY <2>9, <3>1, AccessGives
  <2> QED  BY <2>1, <2>2, <2>3, <2>4, <2>5, <2>6, <2>7, <2>8, <2>9 DEF LinkTyped, GroupTypes
<1> QED
  BY <1>1, Noted DEF GroupNextState

-----------------------------------------------------------------------------
(* What one link of the project does to who is counted.                    *)

\* Whoever was counted with a key is counted with it under the name it has now.
Follows(s, t) ==
    \A n \in EnvNames(t) :
        \/ t.envs[n].key \notin EnvKeys(s)
        \/ \E m \in EnvNames(s) :
             /\ s.envs[m].key = t.envs[n].key
             /\ TheGroup \in s.envs[m].exposed => TheGroup \in t.envs[n].exposed
             /\ m \in Access(s, TheGroup) =>
                  \/ TheGroup \in t.envs[n].exposed
                  \/ n \in Access(t, TheGroup) /\ From(t, n) <= From(s, m)

LEMMA FromIs ==
    ASSUME NEW s, NEW time \in Nat, ProjectOK(s, time), NEW n \in EnvName
    PROVE  /\ s.envs[n].since \in Nat /\ SinceIn(s, n) \in Nat
           /\ From(s, n) \in Nat /\ From(s, n) <= time /\ s.envs[n].since <= From(s, n)
<1>1. s \in State /\ TheGroup \in Group
  BY GroupAssumption DEF ProjectOK, RulesOK
<1>2. s.envs[n].since \in Nat /\ s.groups[TheGroup].since \in [EnvName -> Nat]
  BY <1>1, EnvFields, HolderFields
<1>3. SinceIn(s, n) \in Nat
  BY <1>2 DEF SinceIn
<1>4. s.envs[n].since <= time /\ SinceIn(s, n) <= time
  BY DEF ProjectOK, Dates
<1> QED
  BY <1>2, <1>3, <1>4 DEF From

\* Where nothing changed for n, its readers are counted from the same time.
LEMMA SameFrom ==
    ASSUME NEW s, NEW t, NEW n \in EnvName, Renamed(t, n) <=> Renamed(s, n),
           SinceIn(t, n) = SinceIn(s, n), t.envs[n].since = s.envs[n].since
    PROVE  From(t, n) = From(s, n)
  BY DEF From

LEMMA FollowsItself == \A s : ProjectOK(s, now) /\ now \in Nat => Follows(s, s)
<1> SUFFICES ASSUME NEW s, ProjectOK(s, now), now \in Nat, NEW n \in EnvNames(s)
             PROVE  From(s, n) <= From(s, n)
  BY DEF Follows
<1>1. From(s, n) \in Nat
  BY FromIs DEF EnvNames
<1> QED
  BY <1>1

\* What each link notes besides is about none of this.
LEMMA BookedSame ==
    ASSUME NEW x, RulesOK(x), NEW l, WellFormed(l), NEW t, t = Booked(x, l)
    PROVE  /\ RulesOK(t)
           /\ t.envs = x.envs /\ t.groups = x.groups /\ t.renames = x.renames
           /\ EnvNames(t) = EnvNames(x) /\ Access(t, TheGroup) = Access(x, TheGroup)
<1>1. RulesOK(t)
  BY Bookkeeping
<1>2. x \in State /\ t \in State /\ TheGroup \in Group
  BY <1>1, GroupAssumption DEF RulesOK
<1>3. t.envs = x.envs /\ t.groups = x.groups /\ t.renames = x.renames
  BY <1>2 DEF State, Booked
<1>4. Access(t, TheGroup) = Access(x, TheGroup)
  BY <1>2, <1>3, AccessOfGroup
<1>5. EnvNames(t) = EnvNames(x)
  BY <1>3 DEF EnvNames
<1> QED
  BY <1>1, <1>3, <1>4, <1>5

LEMMA BookedFollows ==
    ASSUME NEW s, NEW time \in Nat, NEW x, ProjectOK(x, time), Follows(s, x),
           NEW l, WellFormed(l), NEW t, t = Booked(x, l)
    PROVE  ProjectOK(t, time) /\ Follows(s, t)
<1>1. RulesOK(x)
  BY DEF ProjectOK
<1>2. /\ RulesOK(t) /\ t.envs = x.envs /\ t.groups = x.groups /\ EnvNames(t) = EnvNames(x)
      /\ Access(t, TheGroup) = Access(x, TheGroup)
  BY <1>1, BookedSame
<1>3. t.renames = x.renames
  BY <1>1, BookedSame
<1>4. \A n : (Renamed(t, n) <=> Renamed(x, n)) /\ SinceIn(t, n) = SinceIn(x, n)
  BY <1>2, <1>3 DEF Renamed, SinceIn
<1>5. \A n \in EnvName : From(t, n) = From(x, n)
  BY <1>2, <1>4, SameFrom
<1>6. Dates(t, time)
  BY <1>2, <1>3, <1>4 DEF ProjectOK, Dates
<1>7. Follows(s, t)
  BY <1>2, <1>5 DEF Follows, EnvNames
<1> QED
  BY <1>2, <1>6, <1>7 DEF ProjectOK

\* applyGroupSet
LEMMA GroupSetGives ==
    ASSUME NEW s, RulesOK(s), NEW l, WellFormed(l), l.type = "group_set",
           l.b.group = TheGroup, ValidApply(s, l), NEW t, t = Apply(s, l)
    PROVE  /\ t.renames = s.renames
           /\ \A n \in EnvName : /\ t.envs[n].key = s.envs[n].key
                                 /\ t.envs[n].since = s.envs[n].since
                                 /\ s.envs[n].exposed \subseteq t.envs[n].exposed
           /\ Access(t, TheGroup) = l.b.envs
           /\ \A n \in Access(s, TheGroup) \ l.b.envs : TheGroup \in t.envs[n].exposed
           /\ \A n \in l.b.envs : SinceIn(t, n) =
                IF n \in Access(s, TheGroup) /\ SinceIn(s, n) # 0 THEN SinceIn(s, n) ELSE l.time
           /\ \A n \in EnvName : SinceIn(t, n) \in {0, l.time, SinceIn(s, n)}
<1> DEFINE u == TheGroup
           old == s.groups[u]
           since == [n \in EnvName |->
                       IF n \notin l.b.envs THEN 0
                       ELSE IF n \in Access(s, u) THEN
                            IF old.since[n] = 0 THEN l.time ELSE old.since[n]
                       ELSE l.time]
           gone == l.b.envs = {}
           m == IF gone THEN [old EXCEPT !.status = "former"]
                ELSE [status |-> "active", root |-> l.b.root, envs |-> l.b.envs, since |-> since]
           lost == IF gone THEN old.envs ELSE Access(s, u) \ l.b.envs
           x == Expose(s, lost, u)
<1>1. /\ s \in State /\ u \in Group /\ old \in GroupState /\ u \in Holder
      /\ l.b.envs \in SUBSET EnvName
      /\ gone => old.status = "active"
  <2>1. s \in State /\ u \in Group /\ l.b.envs \in SUBSET EnvName
    BY DEF RulesOK, WellFormed, BodyOK
  <2>2. ValidGroupSet(s, l)
    BY DEF ValidApply
  <2> QED
    BY <2>1, <2>2, HolderFields DEF ValidGroupSet, Holder
<1>2. Access(s, u) = IF old.status = "active" THEN old.envs ELSE {}
  BY <1>1, AccessOfGroup
<1>3. /\ m.status = IF gone THEN "former" ELSE "active"
      /\ ~gone => m.envs = l.b.envs
      /\ m.since = IF gone THEN old.since ELSE since
  BY <1>1 DEF GroupState
<1>4. \A n \in EnvName : since[n] =
        IF n \notin l.b.envs THEN 0
        ELSE IF n \in Access(s, u) /\ old.since[n] # 0 THEN old.since[n] ELSE l.time
  OBVIOUS
<1> HIDE DEF since, lost, x
<1>5. /\ x \in State /\ x.groups = s.groups /\ x.renames = s.renames /\ EnvNames(x) = EnvNames(s)
      /\ \A n \in EnvName : /\ x.envs[n].key = s.envs[n].key
                            /\ x.envs[n].since = s.envs[n].since
                            /\ s.envs[n].exposed \subseteq x.envs[n].exposed
      /\ \A n \in lost \cap EnvNames(s) : u \in x.envs[n].exposed
  BY <1>1, ExposeEffect DEF x
<1>6. t = [x EXCEPT !.groups[u] = m]
  <2>1. CASE gone
    <3>1. t = [x EXCEPT !.groups[u].status = "former"]
      BY <2>1 DEF Apply, ApplyGroupSet, x, lost
    <3> QED
      BY <1>1, <1>5, <2>1, <3>1, StateFields DEF State
  <2>2. CASE ~gone
    BY <2>2 DEF Apply, ApplyGroupSet, x, lost, since
  <2> QED
    BY <2>1, <2>2
<1> HIDE DEF m
<1>7. t.envs = x.envs /\ t.renames = s.renames /\ t.groups = [s.groups EXCEPT ![u] = m]
  BY <1>5, <1>6 DEF State
<1>8. t.groups[u] = m
  BY <1>1, <1>7, StateFields
<1>9. Access(t, u) = l.b.envs
  <2>1. Access(t, u) = IF m.status = "active" THEN m.envs ELSE {}
    BY <1>1, <1>8, AccessOfGroup
  <2> QED
    BY <1>3, <2>1
<1>10. Access(s, u) \ l.b.envs \subseteq lost \cap EnvNames(s)
  BY <1>1, <1>2 DEF lost, RulesOK, AccessIsReal
<1>11. \A n \in Access(s, u) \ l.b.envs : u \in t.envs[n].exposed
  BY <1>5, <1>7, <1>10
<1>12. \A n \in l.b.envs : SinceIn(t, n) =
         IF n \in Access(s, u) /\ SinceIn(s, n) # 0 THEN SinceIn(s, n) ELSE l.time
  <2> SUFFICES ASSUME NEW n \in l.b.envs
               PROVE  m.since[n] = IF n \in Access(s, u) /\ old.since[n] # 0 THEN old.since[n] ELSE l.time
    BY <1>8 DEF SinceIn
  <2>1. ~gone /\ n \in EnvName
    BY <1>1
  <2>2. m.since[n] = since[n]
    BY <1>3, <2>1
  <2> QED  BY <1>4, <2>1, <2>2
<1>13. \A n \in EnvName : SinceIn(t, n) \in {0, l.time, SinceIn(s, n)}
  <2> SUFFICES ASSUME NEW n \in EnvName PROVE m.since[n] \in {0, l.time, old.since[n]}
    BY <1>8 DEF SinceIn
  <2>1. since[n] \in {0, l.time, old.since[n]}
    BY <1>4
  <2>2. m.since[n] = old.since[n] \/ m.since[n] = since[n]
    BY <1>3
  <2> QED  BY <2>1, <2>2
<1> QED
  BY <1>5, <1>7, <1>9, <1>11, <1>12, <1>13

LEMMA GroupSetFollows ==
    ASSUME NEW s, NEW time \in Nat \ {0}, ProjectOK(s, time), NEW l, WellFormed(l),
           l.type = "group_set", l.b.group = TheGroup, l.time = time, ValidApply(s, l)
    PROVE  LET t == NextState(s, l) IN ProjectOK(t, time + 1) /\ Follows(s, t)
<1> DEFINE x == Apply(s, l)
<1>1. RulesOK(s) /\ l.b.envs \in SUBSET EnvName
  BY DEF ProjectOK, WellFormed, BodyOK
<1>2. RulesOK(x)
  BY <1>1, GroupSetEffect DEF Good
<1>3. /\ x.renames = s.renames
      /\ \A n \in EnvName : /\ x.envs[n].key = s.envs[n].key
                            /\ x.envs[n].since = s.envs[n].since
                            /\ s.envs[n].exposed \subseteq x.envs[n].exposed
      /\ Access(x, TheGroup) = l.b.envs
      /\ \A n \in Access(s, TheGroup) \ l.b.envs : TheGroup \in x.envs[n].exposed
      /\ \A n \in l.b.envs : SinceIn(x, n) =
           IF n \in Access(s, TheGroup) /\ SinceIn(s, n) # 0 THEN SinceIn(s, n) ELSE time
      /\ \A n \in EnvName : SinceIn(x, n) \in {0, time, SinceIn(s, n)}
  BY <1>1, GroupSetGives
<1> HIDE DEF x
<1>4. EnvNames(x) = EnvNames(s)
  BY <1>3 DEF EnvNames
<1>5. \A n : Renamed(x, n) <=> Renamed(s, n)
  BY <1>3 DEF Renamed
<1>6. Dates(x, time + 1)
  <2>1. \A n \in EnvName : x.envs[n].since <= time + 1 /\ SinceIn(x, n) <= time + 1
    <3> TAKE n \in EnvName
    <3>1. /\ s.envs[n].since \in Nat /\ SinceIn(s, n) \in Nat
          /\ s.envs[n].since <= time /\ SinceIn(s, n) <= time
      BY FromIs DEF ProjectOK, Dates
    <3>2. x.envs[n].since = s.envs[n].since /\ SinceIn(x, n) \in {0, time, SinceIn(s, n)}
      BY <1>3
    <3> QED  BY <3>1, <3>2
  <2>2. \A n \in Access(x, TheGroup) : SinceIn(x, n) # 0
    BY <1>3
  <2> QED  BY <1>3, <1>4, <2>1, <2>2 DEF Dates, ProjectOK
<1>7. Follows(s, x)
  <2> SUFFICES ASSUME NEW n \in EnvNames(s), n \in Access(s, TheGroup), n \in l.b.envs
               PROVE  From(x, n) <= From(s, n)
    BY <1>3, <1>4 DEF Follows, EnvNames
  <2>1. n \in EnvName /\ From(s, n) \in Nat
    BY FromIs DEF EnvNames
  <2>2. CASE SinceIn(s, n) # 0
    BY <1>3, <1>5, <2>1, <2>2, SameFrom
  <2>3. CASE SinceIn(s, n) = 0
    <3>1. Renamed(s, n) /\ Renamed(x, n)
      BY <1>5, <2>3 DEF ProjectOK, Dates
    <3> QED  BY <1>3, <2>1, <3>1 DEF From
  <2> QED  BY <2>2, <2>3
<1>8. NextState(s, l) = Booked(x, l)
  BY DEF NextState, Booked, x
<1>9. ProjectOK(x, time + 1) /\ time + 1 \in Nat
  BY <1>2, <1>6 DEF ProjectOK
<1> QED
  BY <1>7, <1>8, <1>9, BookedFollows

\* setEnv
LEMMA EnvSetFollows ==
    ASSUME NEW s, NEW time \in Nat \ {0}, ProjectOK(s, time), NEW l, WellFormed(l),
           l.type = "env_set", l.time = time, ValidApply(s, l)
    PROVE  LET t == NextState(s, l) IN ProjectOK(t, time + 1) /\ Follows(s, t)
<1> DEFINE n0 == l.b.env
           k0 == l.b.key
           v == [key |-> k0, since |-> time, exposed |-> {},
                 retired |-> IF s.envs[n0].key = NoKey THEN {}
                             ELSE s.envs[n0].retired \cup {s.envs[n0].key}]
           x == Apply(s, l)
<1>1. /\ s \in State /\ RulesOK(s) /\ n0 \in EnvName /\ k0 \in EnvKey /\ ~UsedKey(s, k0)
      /\ s.renames[n0] = NoEnv /\ TheGroup \in Group
  BY GroupAssumption DEF ProjectOK, RulesOK, WellFormed, BodyOK, ValidApply, ValidEnvSet
<1>2. RulesOK(x)
  BY <1>1, EnvSetEffect DEF Good
<1>3. x = [s EXCEPT !.envs[n0] = v]
  BY <1>1, StateFields DEF Apply, SetEnv
<1>4. v.key = k0 /\ v.since = time
  OBVIOUS
<1> HIDE DEF v, n0, k0, x
<1>5. x.envs = [s.envs EXCEPT ![n0] = v] /\ x.groups = s.groups /\ x.renames = s.renames
  BY <1>1, <1>3 DEF State
<1>6. x.envs[n0] = v /\ \A n \in EnvName \ {n0} : x.envs[n] = s.envs[n]
  BY <1>1, <1>5, StateFields
<1>7. /\ EnvNames(x) \subseteq EnvNames(s) \cup {n0}
      /\ Access(x, TheGroup) = Access(s, TheGroup)
      /\ \A n : (Renamed(x, n) <=> Renamed(s, n)) /\ SinceIn(x, n) = SinceIn(s, n)
  <2>1. EnvNames(x) \subseteq EnvNames(s) \cup {n0}
    BY <1>6 DEF EnvNames
  <2>2. Access(x, TheGroup) = Access(s, TheGroup)
    BY <1>1, <1>5, AccessOfGroup
  <2>3. \A n : (Renamed(x, n) <=> Renamed(s, n)) /\ SinceIn(x, n) = SinceIn(s, n)
    BY <1>5 DEF Renamed, SinceIn
  <2> QED  BY <2>1, <2>2, <2>3
<1>8. Dates(x, time + 1)
  <2>1. \A n \in EnvName : x.envs[n].since <= time + 1 /\ SinceIn(x, n) <= time + 1
    <3> TAKE n \in EnvName
    <3>1. /\ s.envs[n].since \in Nat /\ SinceIn(s, n) \in Nat
          /\ s.envs[n].since <= time /\ SinceIn(s, n) <= time
      BY FromIs DEF ProjectOK, Dates
    <3>2. x.envs[n].since \in {time, s.envs[n].since} /\ SinceIn(x, n) = SinceIn(s, n)
      BY <1>4, <1>6, <1>7
    <3> QED  BY <3>1, <3>2
  <2>2. \A n \in EnvNames(x) : x.renames[n] = NoEnv
    BY <1>1, <1>5, <1>7 DEF ProjectOK, Dates
  <2>3. \A n \in Access(x, TheGroup) : SinceIn(x, n) = 0 => Renamed(x, n)
    BY <1>7 DEF ProjectOK, Dates
  <2> QED  BY <2>1, <2>2, <2>3 DEF Dates
<1>9. Follows(s, x)
  <2> SUFFICES ASSUME NEW n \in EnvNames(x)
               PROVE  \/ x.envs[n].key \notin EnvKeys(s)
                      \/ /\ n \in EnvNames(s) /\ x.envs[n] = s.envs[n]
                         /\ From(x, n) <= From(s, n)
    BY <1>7 DEF Follows
  <2>1. CASE n = n0
    BY <1>1, <1>4, <1>6, <2>1 DEF EnvKeys, UsedKey
  <2>2. CASE n # n0
    <3>1. n \in EnvName /\ n \in EnvNames(s) /\ x.envs[n] = s.envs[n] /\ From(s, n) \in Nat
      BY <1>6, <1>7, <2>2, FromIs DEF EnvNames
    <3>2. From(x, n) = From(s, n)
      BY <1>7, <3>1, SameFrom
    <3> QED  BY <3>1, <3>2
  <2> QED  BY <2>1, <2>2
<1>10. NextState(s, l) = Booked(x, l)
  BY DEF NextState, Booked, x
<1>11. ProjectOK(x, time + 1) /\ time + 1 \in Nat
  BY <1>2, <1>8 DEF ProjectOK
<1> QED
  BY <1>9, <1>10, <1>11, BookedFollows

\* renameEnv
LEMMA EnvRenameFollows ==
    ASSUME NEW s, NEW time \in Nat \ {0}, ProjectOK(s, time), NEW l, WellFormed(l),
           l.type = "env_rename", ValidApply(s, l)
    PROVE  LET t == NextState(s, l) IN ProjectOK(t, time + 1) /\ Follows(s, t)
<1> DEFINE old == l.b.old
           new == l.b.new
           x == Apply(s, l)
           name(n) == IF n = old THEN new ELSE n
           envs == [s.envs EXCEPT ![new] = s.envs[old], ![old] = NoEnvState]
           groups == [g \in Group |-> [s.groups[g] EXCEPT !.envs = RenamedEnvs(s, g, old, new)]]
           renames == [n \in EnvName |-> IF n = old \/ s.renames[n] = old THEN new ELSE s.renames[n]]
<1>1. /\ s \in State /\ RulesOK(s) /\ old \in EnvName /\ new \in EnvName /\ TheGroup \in Group
      /\ old \in EnvNames(s) /\ new \notin EnvNames(s) /\ s.renames[new] = NoEnv
  BY GroupAssumption DEF ProjectOK, RulesOK, WellFormed, BodyOK, ValidApply, ValidEnvRename
<1>2. s.renames[old] = NoEnv /\ old # new /\ NoEnv # old /\ NoEnvState.key = NoKey
  BY <1>1, NoEnvAssumption DEF ProjectOK, Dates, NoEnvState
<1>3. RulesOK(x)
  BY <1>1, EnvRenameEffect DEF Good
<1>4. x.envs = envs /\ x.groups = groups /\ x.renames = renames
  BY <1>1 DEF Apply, ApplyEnvRename, State
<1> HIDE DEF x, old, new
<1>5. \A n \in EnvName : x.envs[n] = IF n = old THEN NoEnvState
                                      ELSE IF n = new THEN s.envs[old] ELSE s.envs[n]
  BY <1>1, <1>4, StateFields
<1>6. \A n \in EnvName : x.renames[n] = IF n = old \/ s.renames[n] = old THEN new ELSE s.renames[n]
  BY <1>4
<1>7. /\ Access(x, TheGroup) = {name(n) : n \in Access(s, TheGroup)}
      /\ \A n : SinceIn(x, n) = SinceIn(s, n)
  <2>1. RenamedEnvs(s, TheGroup, old, new) = {name(n) : n \in s.groups[TheGroup].envs}
    BY <1>1, HoldersAssumption DEF RenamedEnvs
  <2>2. /\ x.groups[TheGroup].envs = RenamedEnvs(s, TheGroup, old, new)
        /\ x.groups[TheGroup].status = s.groups[TheGroup].status
        /\ x.groups[TheGroup].since = s.groups[TheGroup].since
    <3>1. s.groups[TheGroup] \in GroupState
      BY <1>1, HolderFields
    <3>2. x.groups[TheGroup] = [s.groups[TheGroup] EXCEPT !.envs = RenamedEnvs(s, TheGroup, old, new)]
      BY <1>1, <1>4
    <3> QED  BY <3>1, <3>2 DEF GroupState
  <2> QED  BY <1>1, <2>1, <2>2, AccessOfGroup DEF SinceIn
<1> HIDE DEF envs, groups, renames
<1>8. EnvNames(x) = (EnvNames(s) \ {old}) \cup {new}
  BY <1>1, <1>2, <1>5 DEF EnvNames
<1>9. Renamed(x, new) /\ \A n \in EnvName \ {old} : Renamed(s, n) => Renamed(x, n)
  BY <1>1, <1>2, <1>6 DEF Renamed
<1>10. Dates(x, time + 1)
  <2>1. \A n \in EnvName : x.envs[n].since <= time + 1 /\ SinceIn(x, n) <= time + 1
    <3>1. \A n \in EnvName : /\ s.envs[n].since \in Nat /\ SinceIn(s, n) \in Nat
                             /\ s.envs[n].since <= time /\ SinceIn(s, n) <= time
      BY FromIs DEF ProjectOK, Dates
    <3>2. NoEnvState.since = 0
      BY DEF NoEnvState
    <3> TAKE n \in EnvName
    <3>3. x.envs[n].since \in {0, s.envs[n].since, s.envs[old].since} /\ SinceIn(x, n) = SinceIn(s, n)
      BY <1>5, <1>7, <3>2
    <3> QED  BY <1>1, <3>1, <3>3
  <2>2. \A n \in EnvNames(x) : x.renames[n] = NoEnv
    <3> SUFFICES ASSUME NEW n \in EnvNames(x) PROVE s.renames[n] = NoEnv /\ n # old /\ n \in EnvName
      BY <1>2, <1>6
    <3> QED  BY <1>1, <1>2, <1>8 DEF ProjectOK, Dates, EnvNames
  <2>3. \A n \in Access(x, TheGroup) : SinceIn(x, n) = 0 => Renamed(x, n)
    <3> SUFFICES ASSUME NEW m \in Access(s, TheGroup), SinceIn(s, name(m)) = 0
                 PROVE  Renamed(x, name(m))
      BY <1>7
    <3>1. m \in EnvName
      BY <1>1, AccessTyped, GroupAssumption DEF Holder
    <3> QED  BY <1>9, <3>1 DEF ProjectOK, Dates
  <2> QED  BY <2>1, <2>2, <2>3 DEF Dates
<1>11. Follows(s, x)
  <2> SUFFICES ASSUME NEW n \in EnvNames(x)
               PROVE  \E m \in EnvNames(s) :
                        /\ x.envs[n] = s.envs[m]
                        /\ m \in Access(s, TheGroup) =>
                             n \in Access(x, TheGroup) /\ From(x, n) <= From(s, m)
    BY DEF Follows
  <2>1. CASE n = new
    <3>1. x.envs[n] = s.envs[old] /\ From(x, n) = s.envs[old].since
      BY <1>1, <1>2, <1>5, <1>9, <2>1 DEF From
    <3>2. s.envs[old].since <= From(s, old)
      BY <1>1, FromIs
    <3>3. old \in Access(s, TheGroup) => n \in Access(x, TheGroup)
      BY <1>7, <2>1
    <3> QED  BY <1>1, <3>1, <3>2, <3>3
  <2>2. CASE n # new
    <3>1. n \in EnvNames(s) /\ n # old /\ n \in EnvName /\ x.envs[n] = s.envs[n]
      BY <1>2, <1>5, <1>8, <2>2 DEF EnvNames
    <3>2. n \in Access(s, TheGroup) => n \in Access(x, TheGroup)
      BY <1>7, <3>1
    <3>3. From(s, n) \in Nat /\ s.envs[n].since \in Nat /\ s.envs[n].since <= From(s, n)
      BY <3>1, FromIs
    <3>4. From(x, n) <= From(s, n)
      BY <1>7, <1>9, <3>1, <3>3 DEF From
    <3> QED  BY <3>1, <3>2, <3>4
  <2> QED  BY <2>1, <2>2
<1>12. NextState(s, l) = Booked(x, l)
  BY DEF NextState, Booked, x
<1>13. ProjectOK(x, time + 1) /\ time + 1 \in Nat
  BY <1>3, <1>10 DEF ProjectOK
<1> QED
  BY <1>11, <1>12, <1>13, BookedFollows

\* The first links of the project: its environments, and what the group reads.
LEMMA FirstProjectIs ==
    /\ ProjectOK(FirstProject, 2)
    /\ EnvNames(FirstProject) = FirstEnvs /\ Access(FirstProject, TheGroup) = FirstEnvs
<1> DEFINE b == [creator |-> Creator,
                 envs |-> [n \in EnvName |-> IF n \in FirstEnvs THEN FirstKeys[n] ELSE NoKey]]
           l1 == NewLink(New, "init", Creator, 1, 1, 1, b)
           s == NextState(New, l1)
           c == [group |-> TheGroup, root |-> 1, envs |-> FirstEnvs]
           l2 == NewLink(s, "group_set", Creator, 1, 1, 1, c)
<1>1. /\ Creator \in Person /\ TheGroup \in Group
      /\ FirstEnvs \in SUBSET EnvName /\ FirstEnvs # {}
      /\ FirstKeys \in [FirstEnvs -> EnvKey]
      /\ \A n, m \in FirstEnvs : n # m => FirstKeys[n] # FirstKeys[m]
  <2>1. FirstKeys \in Injection(FirstEnvs, EnvKey)
    BY GroupAssumption DEF FirstKeys
  <2>2. FirstKeys \in [FirstEnvs -> EnvKey] /\ IsInjective(FirstKeys)
    BY <2>1 DEF Injection
  <2>3. \A n, m \in FirstEnvs : n # m => FirstKeys[n] # FirstKeys[m]
    BY <2>2 DEF IsInjective
  <2>4. Creator \in Person /\ TheGroup \in Group /\ FirstEnvs \in SUBSET EnvName /\ FirstEnvs # {}
    BY GroupAssumption
  <2> QED  BY <2>2, <2>3, <2>4
<1>2. New.seq = 0 /\ New.renames = [n \in EnvName |-> NoEnv]
      /\ \A g \in Group : New.groups[g].since = [n \in EnvName |-> 0]
  BY DEF New
<1>3. /\ b.creator = Creator /\ b.envs \in [EnvName -> EnvKey \cup {NoKey}]
      /\ \A n \in EnvName : b.envs[n] = IF n \in FirstEnvs THEN FirstKeys[n] ELSE NoKey
  BY <1>1
<1> HIDE DEF b
<1>4. /\ l1.type = "init" /\ l1.seq = 1 /\ l1.time = 1 /\ l1.pos = 1 /\ l1.signer = Creator
      /\ l1.b = b
  BY <1>2 DEF NewLink
<1> HIDE DEF l1
<1>5. WellFormed(l1)
  BY <1>1, <1>3, <1>4 DEF WellFormed, Types, BodyOK
<1>6. ValidInit(New, l1)
  <2>1. \A n, m \in EnvName : n # m /\ b.envs[n] # NoKey => b.envs[n] # b.envs[m]
    BY <1>1, <1>3, NoKeyAssumption
  <2> QED  BY <1>2, <1>3, <1>4, <2>1 DEF ValidInit
<1>7. /\ RulesOK(s) /\ ~s.archived /\ Admin(s, Creator) /\ s.seq = 1
      /\ \A n \in EnvName : s.envs[n].key = b.envs[n]
  <2>1. /\ StateOK(s) /\ s.seq = l1.seq /\ ~s.archived /\ Admin(s, l1.b.creator)
        /\ \A n \in EnvName : s.envs[n].key = l1.b.envs[n]
    BY <1>4, <1>5, <1>6, InitEffect
  <2> HIDE DEF s
  <2> QED  BY <1>3, <1>4, <2>1 DEF StateOK
<1>8. /\ s.renames = New.renames /\ s.groups = New.groups
      /\ \A n \in EnvName : s.envs[n].since <= 1
  <2> DEFINE first == [status |-> "active", admin |-> TRUE, envs |-> {}, verified |-> "account-key"]
             env(n) == IF b.envs[n] = NoKey THEN New.envs[n]
                       ELSE [NoEnvState EXCEPT !.key = b.envs[n], !.since = 1]
             e == [n \in EnvName |-> env(n)]
             m == [New.members EXCEPT ![Creator] = first]
             q == [New.signerSeqs EXCEPT ![Creator] = 1]
  <2>1. s = [New EXCEPT !.envs = e, !.members = m, !.seq = 1, !.last = 1, !.signerSeqs = q]
    BY <1>3, <1>4, NewFields, ZenonT(40) DEF NextState, Apply, ApplyInit, State
  <2>2. \A n \in EnvName : env(n).since <= 1
    BY NewFields DEF NoEnvState
  <2> HIDE DEF e, m, q
  <2>3. s.renames = New.renames /\ s.groups = New.groups /\ s.envs = e
    BY <2>1, NewFields DEF State
  <2> QED  BY <2>2, <2>3 DEF e
<1> HIDE DEF s
<1>9. EnvNames(s) = FirstEnvs
  BY <1>1, <1>3, <1>7, NoKeyAssumption DEF EnvNames
<1>10. s.groups[TheGroup].status = "none" /\ Access(s, TheGroup) = {}
  BY <1>1, <1>8, NewFields, AccessOfGroup
<1>11. ProjectOK(s, 1)
  <2>1. \A n \in EnvName : SinceIn(s, n) = 0 /\ s.renames[n] = NoEnv
    BY <1>1, <1>2, <1>8 DEF SinceIn
  <2> QED  BY <1>7, <1>8, <1>10, <2>1 DEF ProjectOK, Dates, EnvNames
<1>12. c.group = TheGroup /\ c.root = 1 /\ c.envs = FirstEnvs
  OBVIOUS
<1>13. /\ l2.type = "group_set" /\ l2.seq = 2 /\ l2.time = 1 /\ l2.pos = 1 /\ l2.signer = Creator
       /\ l2.b = c
  BY <1>7 DEF NewLink
<1>14. FirstProject = NextState(s, l2)
  BY DEF FirstProject, s, l1, b
<1> HIDE DEF c, l2
<1>15. WellFormed(l2)
  BY <1>1, <1>12, <1>13 DEF WellFormed, Types, BodyOK
<1>16. ValidApply(s, l2)
  BY <1>1, <1>7, <1>9, <1>10, <1>12, <1>13 DEF ValidApply, ValidGroupSet, CheckAccess
<1>17. ProjectOK(FirstProject, 2)
  BY <1>11, <1>12, <1>13, <1>14, <1>15, <1>16, GroupSetFollows
<1> DEFINE x == Apply(s, l2)
<1>18. /\ Access(x, TheGroup) = FirstEnvs
       /\ \A n \in EnvName : x.envs[n].key = s.envs[n].key
  BY <1>7, <1>12, <1>13, <1>15, <1>16, GroupSetGives
<1>19. RulesOK(x)
  BY <1>7, <1>13, <1>15, <1>16, GroupSetEffect DEF Good
<1>20. FirstProject = Booked(x, l2)
  BY <1>14 DEF NextState, Booked
<1> HIDE DEF x
<1>21. Access(FirstProject, TheGroup) = Access(x, TheGroup) /\ EnvNames(FirstProject) = EnvNames(x)
  BY <1>15, <1>19, <1>20, BookedSame
<1> QED
  BY <1>9, <1>17, <1>18, <1>21 DEF EnvNames

-----------------------------------------------------------------------------
(* The first state.                                                        *)

LEMMA NewGroupIs ==
    /\ NewGroup \in GroupChainState /\ GroupOK(NewGroup)
    /\ \A u \in Person : ~GroupAdmin(NewGroup, u) /\ ~GroupMember(NewGroup, u)
<1> DEFINE e == [NewEntry("account-key") EXCEPT !.status = "none"]
           c0 == [status |-> "none", by |-> NoKey, enc |-> 0, removed |-> 0, destroyed |-> FALSE]
<1>1. e \in PersonEntry /\ e.status = "none"
  BY DEF NewEntry, PersonEntry, Verification
<1>2. c0 \in CredState /\ c0.destroyed = FALSE
  BY DEF CredState
<1> DEFINE nobody == [u \in Person |-> e]
           nothing == [c \in Cred |-> c0]
<1>3. nobody \in [Person -> PersonEntry] /\ nothing \in [Cred -> CredState]
      /\ [u \in Person |-> 0] \in [Person -> Nat]
  BY <1>1, <1>2
<1>4. /\ NewGroup.admins = nobody /\ NewGroup.members = nobody /\ NewGroup.creds = nothing
      /\ NewGroup = [seq |-> 0, last |-> 0, admins |-> nobody, members |-> nobody, creds |-> nothing,
                     version |-> 0, exposed |-> {}, access |-> FALSE,
                     signerSeqs |-> [u \in Person |-> 0]]
  BY DEF NewGroup
<1> HIDE DEF nobody, nothing
<1>5. NewGroup \in GroupChainState
  BY <1>3, <1>4 DEF GroupChainState
<1>6. DestroyedAreGone(NewGroup)
  BY <1>2, <1>4 DEF DestroyedAreGone, nothing
<1>7. \A u \in Person : NewGroup.admins[u] = e /\ NewGroup.members[u] = e
  BY <1>4 DEF nobody
<1> QED
  BY <1>1, <1>5, <1>6, <1>7 DEF GroupOK, GroupAdmin, GroupMember

\* What step notes changes no one's entry.
LEMMA NotedSame ==
    ASSUME NEW s, NEW l, l.seq \in Nat, l.time \in Nat, l.pos \in Nat \ {0}, l.signer \in Person,
           NEW x \in GroupChainState, x = GroupApply(s, l)
    PROVE  LET t == GroupNextState(s, l)
           IN  /\ t \in GroupChainState /\ t.admins = x.admins /\ t.members = x.members
               /\ t.creds = x.creds /\ t.version = x.version
<1> DEFINE q == [x.signerSeqs EXCEPT ![l.signer] = l.pos]
           t == GroupNextState(s, l)
<1>1. q \in [Person -> Nat]
  BY GroupFields
<1>2. t = [x EXCEPT !.seq = l.seq, !.last = l.time, !.signerSeqs = q]
  BY DEF GroupNextState, GroupChainState
<1> HIDE DEF q, t
<1>3. /\ t \in GroupChainState /\ t.admins = x.admins /\ t.members = x.members
      /\ t.creds = x.creds /\ t.version = x.version
  BY <1>1, <1>2 DEF GroupChainState
<1> QED
  BY <1>3 DEF t

LEMMA FirstGroupIs ==
    /\ FirstGroup \in GroupChainState /\ GroupOK(FirstGroup) /\ FirstGroup.version = 1
    /\ \A u \in Person : (GroupAdmin(FirstGroup, u) <=> u = Creator) /\ ~GroupMember(FirstGroup, u)
<1> DEFINE l1 == GroupLink(NewGroup, "init", Creator, 1, 1, 1, [creator |-> Creator])
           a == NewEntry("account-key")
           A == [NewGroup.admins EXCEPT ![Creator] = a]
           x == GroupApply(NewGroup, l1)
           s == GroupNextState(NewGroup, l1)
           l2 == GroupLink(s, "access_add", Creator, 1, 1, 1, [none |-> TRUE])
           y == GroupApply(s, l2)
<1>1. Creator \in Person /\ NewGroup \in GroupChainState
  BY GroupAssumption, NewGroupIs
<1>2. a \in PersonEntry /\ a.status = "active"
  BY EntriesAre DEF Verification
<1>3. A \in [Person -> PersonEntry] /\ A[Creator] = a /\ \A u \in Person \ {Creator} : A[u] = NewGroup.admins[u]
  BY <1>1, <1>2, GroupFields
<1>4. x = [NewGroup EXCEPT !.version = 1, !.exposed = {}, !.admins = A]
  <2>1. x = [SetKey(NewGroup, 1) EXCEPT !.admins[Creator] = a]
    BY DEF GroupApply, GroupLink
  <2> QED  BY <2>1, <1>1 DEF SetKey, GroupChainState
<1> HIDE DEF a, A, x, l1
<1>5. /\ x \in GroupChainState /\ x.admins = A /\ x.members = NewGroup.members
      /\ x.creds = NewGroup.creds /\ x.version = 1
  BY <1>1, <1>3, <1>4 DEF GroupChainState
<1>6. /\ l1.seq \in Nat /\ l1.time \in Nat /\ l1.pos \in Nat \ {0} /\ l1.signer \in Person
  BY <1>1, GroupFields DEF GroupLink, l1
<1> HIDE DEF s
<1>7. /\ s \in GroupChainState /\ s.admins = A /\ s.members = NewGroup.members
      /\ s.creds = NewGroup.creds /\ s.version = 1
  BY <1>5, <1>6, NotedSame DEF s, x
<1>8. y = [s EXCEPT !.access = TRUE]
  BY DEF GroupApply, GroupLink
<1> HIDE DEF y, l2
<1>9. /\ y \in GroupChainState /\ y.admins = A /\ y.members = NewGroup.members
      /\ y.creds = NewGroup.creds /\ y.version = 1
  BY <1>7, <1>8 DEF GroupChainState
<1>10. /\ l2.seq \in Nat /\ l2.time \in Nat /\ l2.pos \in Nat \ {0} /\ l2.signer \in Person
  BY <1>1, <1>7, GroupFields DEF GroupLink, l2
<1>11. FirstGroup = GroupNextState(s, l2)
  BY DEF FirstGroup, s, l1, l2
<1>12. /\ FirstGroup \in GroupChainState /\ FirstGroup.admins = A
       /\ FirstGroup.members = NewGroup.members /\ FirstGroup.creds = NewGroup.creds
       /\ FirstGroup.version = 1
  BY <1>9, <1>10, <1>11, NotedSame DEF y
<1>13. GroupOK(FirstGroup)
  BY <1>12, NewGroupIs DEF GroupOK, DestroyedAreGone
<1>14. \A u \in Person : (GroupAdmin(FirstGroup, u) <=> u = Creator) /\ ~GroupMember(FirstGroup, u)
  BY <1>2, <1>3, <1>12, NewGroupIs DEF GroupAdmin, GroupMember
<1> QED
  BY <1>12, <1>13, <1>14

\* NewGrant
LEMMA NewGrantIs ==
    ASSUME NEW s \in State, NEW version \in Nat, NEW envs \in SUBSET EnvName
    PROVE  NewGrant(s, Creator, TheGroup, version, envs) \in SealedGrant
<1> DEFINE e == {[env |-> n, key |-> s.envs[n].key] : n \in envs}
<1>1. e \in SUBSET [env: EnvName, key: EnvKey \cup {NoKey}]
  BY EnvFields
<1> HIDE DEF e
<1>2. NewGrant(s, Creator, TheGroup, version, envs)
        = [from |-> Creator, to |-> TheGroup, toVer |-> version, envs |-> e]
  BY DEF NewGrant, e
<1> QED
  BY <1>1, <1>2 DEF SealedGrant

LEMMA InitInv == Init => Inv
<1> SUFFICES ASSUME Init PROVE Inv
  OBVIOUS
<1> DEFINE f == FirstGroup
<1>1. PICK type \in {"admin_add", "member_add"} :
        gs = GroupNextState(f, GroupLink(f, type, Creator, 1, 1, 1,
                                         [user |-> Other, verified |-> "account-key"]))
  BY DEF Init
<1> DEFINE l == GroupLink(f, type, Creator, 1, 1, 1, [user |-> Other, verified |-> "account-key"])
           e == NewEntry("account-key")
           x == GroupApply(f, l)
<1>2. /\ f \in GroupChainState /\ GroupOK(f) /\ f.version = 1 /\ Creator \in Person
      /\ Other \in Person \ {Creator} /\ GroupAdmin(f, Creator) /\ ~GroupMember(f, Other)
  BY FirstGroupIs, GroupAssumption
<1>3. e \in PersonEntry /\ e.status = "active"
  BY EntriesAre DEF Verification
<1>4. /\ x \in GroupChainState /\ x.creds = f.creds /\ x.version = 1
      /\ GroupAdmin(x, Creator) /\ HoldsKey(x, Other)
  <2>1. CASE type = "admin_add"
    <3>1. x = [f EXCEPT !.members[Other] = IF @.status = "active"
                               THEN [@ EXCEPT !.status = "former", !.removed = 1] ELSE @,
                        !.admins[Other] = e]
      BY <2>1 DEF GroupApply, ApplyAdminAdd, GroupLink
    <3>2. x = [f EXCEPT !.admins = [f.admins EXCEPT ![Other] = e]]
      <4>1. f.members \in [Person -> PersonEntry] /\ f.members[Other].status # "active"
        BY <1>2, GroupFields DEF GroupMember
      <4>2. x = [f EXCEPT !.members[Other] = @, !.admins[Other] = e]
        BY <3>1, <4>1
      <4> HIDE DEF e, x
      <4>3. [f.members EXCEPT ![Other] = @] = f.members
        BY <4>1
      <4>4. x = [f EXCEPT !.members = f.members, !.admins = [f.admins EXCEPT ![Other] = e]]
        BY <1>2, <4>2, <4>3 DEF GroupChainState
      <4> QED  BY <1>2, <4>4 DEF GroupChainState
    <3>3. /\ [f.admins EXCEPT ![Other] = e] \in [Person -> PersonEntry]
          /\ [f.admins EXCEPT ![Other] = e][Other] = e
          /\ [f.admins EXCEPT ![Other] = e][Creator] = f.admins[Creator]
      BY <1>2, <1>3, GroupFields
    <3> HIDE DEF e, x
    <3>4. x \in GroupChainState /\ x.creds = f.creds /\ x.version = 1
          /\ x.admins = [f.admins EXCEPT ![Other] = e]
      BY <1>2, <3>2, <3>3 DEF GroupChainState
    <3> QED  BY <1>2, <1>3, <3>3, <3>4 DEF GroupAdmin, HoldsKey
  <2>2. CASE type = "member_add"
    <3>1. x = [f EXCEPT !.members[Other] = e]
      BY <2>2 DEF GroupApply, GroupLink
    <3>2. x = [f EXCEPT !.members = [f.members EXCEPT ![Other] = e]]
      BY <1>2, <3>1 DEF GroupChainState
    <3>3. /\ [f.members EXCEPT ![Other] = e] \in [Person -> PersonEntry]
          /\ [f.members EXCEPT ![Other] = e][Other] = e
      BY <1>2, <1>3, GroupFields
    <3> HIDE DEF e, x
    <3>4. x \in GroupChainState /\ x.creds = f.creds /\ x.version = 1 /\ x.admins = f.admins
          /\ x.members = [f.members EXCEPT ![Other] = e]
      BY <1>2, <3>2, <3>3 DEF GroupChainState
    <3> QED  BY <1>2, <1>3, <3>3, <3>4 DEF GroupAdmin, GroupMember, HoldsKey
  <2> QED  BY <2>1, <2>2
<1>5. l.seq \in Nat /\ l.time \in Nat /\ l.pos \in Nat \ {0} /\ l.signer \in Person
  BY <1>2, GroupFields DEF GroupLink
<1>6. /\ gs \in GroupChainState /\ gs.creds = f.creds /\ gs.version = 1
      /\ GroupAdmin(gs, Creator) /\ HoldsKey(gs, Other)
  <2> HIDE DEF l, x
  <2>1. gs = GroupNextState(f, l)
    BY <1>1 DEF l
  <2>2. gs \in GroupChainState /\ gs.creds = x.creds /\ gs.version = x.version
        /\ gs.admins = x.admins /\ gs.members = x.members
    BY <1>4, <1>5, <2>1, NotedSame DEF x
  <2> QED  BY <1>4, <2>2 DEF GroupAdmin, GroupMember, HoldsKey
<1>7. InGroup(gs, Creator) /\ InGroup(gs, Other)
  BY <1>2, <1>6 DEF InGroup, HoldsKey
<1>8. GroupOK(gs)
  BY <1>2, <1>6 DEF GroupOK, DestroyedAreGone
<1>9. chains \in [Person -> PersonalChain] /\ \A u \in Person : Len(chains[u]) > 0
  <2> DEFINE c == [u \in Person |-> <<[ver |-> 1, delegates |-> IF u = Creator THEN Delegate ELSE {}]>>]
  <2>1. \A u \in Person : c[u] \in PersonalChain /\ Len(c[u]) = 1
    BY DEF PersonalChain
  <2>2. c \in [Person -> PersonalChain]
    BY <2>1
  <2>3. chains = c
    BY DEF Init
  <2> HIDE DEF c
  <2>4. \A u \in Person : Len(chains[u]) = 1
    BY <2>1, <2>3
  <2>5. \A u \in Person : Len(chains[u]) > 0
    BY <2>4
  <2>6. chains \in [Person -> PersonalChain]
    BY <2>2, <2>3
  <2> QED  BY <2>5, <2>6
<1>10. /\ now = 2 /\ kg = {KeyGrant(gs, Creator, u, 1) : u \in {Creator, Other}}
       /\ known = [h \in KeyHolder |-> IF h \in {Creator, Other} THEN 1 ELSE 0]
  BY DEF Init
<1>11. st = FirstProject /\ ProjectOK(st, now) /\ EnvNames(st) = FirstEnvs /\ GroupReads = FirstEnvs
  BY <1>10, FirstProjectIs DEF Init, GroupReads
<1>12. \A h \in KeyHolder : read[h] = IF h \in {Creator, Other} THEN {st.envs[n].key : n \in FirstEnvs} ELSE {}
  BY DEF Init
<1>13. sealed \subseteq SealedGrant
  <2>1. sealed = {NewGrant(st, Creator, TheGroup, 1, FirstEnvs)}
    BY DEF Init
  <2>2. NewGrant(st, Creator, TheGroup, 1, FirstEnvs) \in SealedGrant
    BY <1>11, NewGrantIs, GroupAssumption DEF ProjectOK, RulesOK
  <2> QED  BY <2>1, <2>2
<1>14. \A h \in KeyHolder : read[h] \subseteq EnvKeys(st)
  <2>1. FirstEnvs \subseteq EnvName
    BY GroupAssumption
  <2>2. {st.envs[n].key : n \in FirstEnvs} \subseteq EnvKeys(st)
    BY <2>1 DEF EnvKeys
  <2> QED  BY <1>12, <2>2
<1>15. Typed
  BY <1>8, <1>9, <1>10, <1>11, <1>13, <1>14 DEF Typed
<1>16. ReadersCounted
  BY <1>7, <1>11, <1>12 DEF ReadersCounted, Counted, Reaches, GroupReads
<1>17. KnownVersions /\ FormerHoldersExposed
  BY <1>6, <1>7, <1>10 DEF KnownVersions, FormerHoldersExposed
<1>18. GrantsStand
  <2> SUFFICES ASSUME NEW u \in {Creator, Other} PROVE CheckKeyGrant(gs, KeyGrant(gs, Creator, u, 1))
    BY <1>10 DEF GrantsStand
  <2>1. u \in Person /\ u \notin Cred
    BY <1>2, CredsAssumption
  <2> QED  BY <1>2, <1>6, <1>7, <2>1 DEF CheckKeyGrant, KeyGrant, GrantSigner
<1> QED
  BY <1>15, <1>16, <1>17, <1>18 DEF Inv

-----------------------------------------------------------------------------
(* Steps.                                                                  *)

LEMMA BecomesOn ==
    ASSUME NEW s, NEW t, NEW r, NEW time, Becomes(s, t, time), Becomes(t, r, time), GroupOK(s)
    PROVE  Becomes(s, r, time)
<1>1. s.version \in Nat /\ t.version \in Nat /\ r.version \in Nat
  BY GroupFields DEF Becomes, GroupOK
<1>2. Carries(s, r, time)
  BY DEF Becomes, Carries
<1>3. CASE t.version = s.version /\ LeaversExposed(s, t) /\ r.version = t.version /\ LeaversExposed(t, r)
  <2>1. \A h \in KeyHolder : DestroyedIn(t, h) => DestroyedIn(r, h)
    BY DEF Becomes, DestroyedIn
  <2>2. LeaversExposed(s, r)
    BY <1>3, <2>1 DEF LeaversExposed
  <2> QED  BY <1>2, <1>3, <2>2 DEF Becomes
<1>4. CASE r.version > s.version
  BY <1>2, <1>4 DEF Becomes
<1> QED
  BY <1>1, <1>3, <1>4 DEF Becomes

\* Whoever left no earlier than b left no earlier than what is before.
LEMMA ReachesEarlier ==
    ASSUME NEW c \in GroupChainState, NEW h \in KeyHolder, NEW b \in Nat, NEW a \in Nat, a <= b,
           Reaches(c, h, b)
    PROVE  Reaches(c, h, a)
<1>1. /\ \A u \in Person : c.admins[u].removed \in Nat /\ c.members[u].removed \in Nat
      /\ \A d \in Cred : c.creds[d].removed \in Nat
  BY GroupFields DEF PersonEntry, CredState
<1> QED
  BY <1>1 DEF Reaches, FormerSince, KeyHolder

\* The keys that someone could fetch are of what the group reads.
LEMMA FetchedIs ==
    ASSUME NEW s, RulesOK(s), NEW g \in SealedGrant, CheckGrant(s, g),
           NEW n \in EnvNames(s), NEW e \in g.envs, e.key = s.envs[n].key
    PROVE  n \in Access(s, TheGroup)
<1> DEFINE m == CurrentEnv(s, e.env)
<1>1. s.envs[m].key = s.envs[n].key /\ m \in Access(s, TheGroup)
  BY DEF CheckGrant, SealedGrant
<1>2. m \in EnvNames(s)
  BY <1>1, GroupAssumption DEF RulesOK, AccessIsReal, Holder
<1> QED
  BY <1>1, <1>2 DEF RulesOK, KeysApart, EnvNames

LEMMA ReadersKeep ==
    ASSUME Inv, NEW new, Becomes(gs, gs', now), Remember(new),
           ProjectOK(st', now'), now' \in Nat, Follows(st, st'), sealed' \subseteq SealedGrant
    PROVE  ReadersCounted' /\ \A h \in KeyHolder : read'[h] \subseteq EnvKeys(st')
<1>1. \A h \in KeyHolder : read'[h] = (read[h] \cup Fetches(h)') \cap EnvKeys(st')
  BY DEF Remember, EnvKeys
<1>2. ASSUME NEW h \in KeyHolder, NEW n \in EnvNames(st'), st'.envs[n].key \in read'[h]
      PROVE  Counted(st', gs', h, n)
  <2> DEFINE k == st'.envs[n].key
  <2>1. CASE k \in Fetches(h)'
    <3>1. /\ InGroup(gs', h)
          /\ \E g \in sealed' : CheckGrant(st', g) /\ \E e \in g.envs : e.key = k
      BY <2>1 DEF Fetches
    <3>2. n \in Access(st', TheGroup)
      BY <3>1, FetchedIs DEF ProjectOK
    <3> QED  BY <3>1, <3>2 DEF Counted, Reaches
  <2>2. CASE k \in read[h]
    <3>1. k \in EnvKeys(st)
      BY <2>2 DEF Inv, Typed
    <3>2. PICK m \in EnvNames(st) :
             /\ st.envs[m].key = k
             /\ TheGroup \in st.envs[m].exposed => TheGroup \in st'.envs[n].exposed
             /\ m \in Access(st, TheGroup) =>
                  \/ TheGroup \in st'.envs[n].exposed
                  \/ n \in Access(st', TheGroup) /\ From(st', n) <= From(st, m)
      BY <3>1 DEF Follows
    <3>3. Counted(st, gs, h, m)
      BY <2>2, <3>2 DEF Inv, ReadersCounted
    <3>4. CASE TheGroup \in st'.envs[n].exposed
      BY <3>4 DEF Counted
    <3>5. CASE n \in Access(st', TheGroup) /\ From(st', n) <= From(st, m) /\ Reaches(gs, h, From(st, m))
      <4>1. From(st, m) \in Nat /\ From(st, m) <= now /\ From(st', n) \in Nat
        BY FromIs DEF Inv, Typed, EnvNames
      <4>2. Reaches(gs', h, From(st, m))
        BY <3>5, <4>1 DEF Becomes, Carries
      <4>3. Reaches(gs', h, From(st', n))
        BY <3>5, <4>1, <4>2, ReachesEarlier DEF Becomes, GroupOK
      <4> QED  BY <3>5, <4>3 DEF Counted
    <3> QED  BY <3>2, <3>3, <3>4, <3>5 DEF Counted
  <2> QED  BY <1>1, <1>2, <2>1, <2>2
<1> QED
  BY <1>1, <1>2 DEF ReadersCounted

\* Steps that leave the project alone.
LEMMA ProjectStays ==
    ASSUME Inv, st' = st, sealed' = sealed, now' \in {now, now + 1}
    PROVE  /\ now' \in Nat \ {0} /\ ProjectOK(st', now') /\ Follows(st, st')
           /\ sealed' \subseteq SealedGrant
<1>1. now \in Nat \ {0} /\ ProjectOK(st, now)
  BY DEF Inv, Typed
<1>2. ProjectOK(st, now + 1)
  <2>1. \A n \in EnvName : /\ st.envs[n].since \in Nat /\ SinceIn(st, n) \in Nat
                           /\ st.envs[n].since <= now /\ SinceIn(st, n) <= now
    BY <1>1, FromIs DEF ProjectOK, Dates
  <2>2. \A n \in EnvName : st.envs[n].since <= now + 1 /\ SinceIn(st, n) <= now + 1
    BY <1>1, <2>1
  <2> QED  BY <1>1, <2>2 DEF ProjectOK, Dates
<1> QED
  BY <1>1, <1>2, FollowsItself DEF Inv, Typed

\* The new grants of a commit, or of a sync.
LEMMA RememberKeeps ==
    ASSUME Inv, NEW new, Becomes(gs, gs', now), Remember(new), \A g \in new : Storable(gs', g.from, g)
    PROVE  known' \in [KeyHolder -> Nat] /\ KnownVersions' /\ FormerHoldersExposed'
<1>1. /\ gs.version \in Nat /\ gs'.version \in Nat /\ gs'.version >= gs.version
      /\ known \in [KeyHolder -> Nat]
  BY GroupFields DEF Inv, Typed, Becomes, GroupOK
<1>2. \A h \in KeyHolder : known'[h] = IF \E g \in new : g.to = h THEN gs'.version ELSE known[h]
  BY DEF Remember
<1>3. known' \in [KeyHolder -> Nat]
  BY <1>1 DEF Remember
<1>4. KnownVersions'
  BY <1>1, <1>2 DEF Inv, KnownVersions
<1>5. ASSUME NEW h \in KeyHolder, known'[h] = gs'.version
      PROVE  InGroup(gs', h) \/ DestroyedIn(gs', h) \/ h \in gs'.exposed
  <2>1. CASE \E g \in new : g.to = h
    BY <2>1 DEF Storable, CheckKeyGrant
  <2>2. CASE ~\E g \in new : g.to = h
    <3>1. known[h] = gs'.version /\ known[h] <= gs.version
      BY <1>2, <1>5, <2>2 DEF Inv, KnownVersions
    <3>2. gs'.version = gs.version /\ known[h] = gs.version
      BY <1>1, <3>1
    <3>3. LeaversExposed(gs, gs') /\ (DestroyedIn(gs, h) => DestroyedIn(gs', h))
      BY <1>1, <3>2 DEF Becomes, DestroyedIn
    <3>4. InGroup(gs, h) \/ DestroyedIn(gs, h) \/ h \in gs.exposed
      BY <3>2 DEF Inv, FormerHoldersExposed, Destroyed, DestroyedIn
    <3> QED  BY <3>3, <3>4 DEF LeaversExposed
  <2> QED  BY <2>1, <2>2
<1> QED
  BY <1>3, <1>4, <1>5 DEF FormerHoldersExposed, Destroyed, DestroyedIn

\* Steps that change nothing of this.
LEMMA SameKeeps ==
    ASSUME Inv, UNCHANGED <<chains, now, gs, kg, st, sealed, known, read>>
    PROVE  Inv'
<1>1. /\ chains' = chains /\ now' = now /\ gs' = gs /\ kg' = kg
      /\ st' = st /\ sealed' = sealed /\ known' = known /\ read' = read
  OBVIOUS
<1> QED
  BY <1>1 DEF Inv, Typed, KnownVersions, FormerHoldersExposed, GrantsStand, ReadersCounted, Destroyed

LEMMA CommitKeeps ==
    ASSUME Inv, NEW who, NEW s, NEW new, GroupCommit(who, s, new), Becomes(gs, s, now),
           \A c \in Cred : s.creds[c].enc = gs.creds[c].enc \/ \E g \in new : g.to = c
    PROVE  Inv'
<1>1. /\ gs' = s /\ now' = now + 1 /\ chains' = chains /\ Remember(new)
      /\ kg' = StoreKeyGrants(MirrorGroup(s, kg), new)
      /\ \A g \in new : Storable(s, g.from, g)
  BY DEF GroupCommit, Storable
<1>2. known' \in [KeyHolder -> Nat] /\ KnownVersions' /\ FormerHoldersExposed'
  BY <1>1, RememberKeeps
<1>3. /\ now' \in Nat \ {0} /\ ProjectOK(st', now') /\ Follows(st, st') /\ sealed' \subseteq SealedGrant
      /\ ReadersCounted' /\ \A h \in KeyHolder : read'[h] \subseteq EnvKeys(st')
  <2>1. st' = st /\ sealed' = sealed
    BY DEF GroupCommit
  <2>2. now' \in Nat \ {0} /\ ProjectOK(st', now') /\ Follows(st, st') /\ sealed' \subseteq SealedGrant
    BY <1>1, <2>1, ProjectStays
  <2> QED  BY <1>1, <2>2, ReadersKeep
<1>4. Typed'
  BY <1>1, <1>2, <1>3 DEF Inv, Typed, Becomes
<1>5. GrantsStand'
  <2> SUFFICES ASSUME NEW g \in kg' PROVE CheckKeyGrant(s, g)
    BY <1>1 DEF GrantsStand
  <2>1. CASE g \in new
    BY <1>1, <2>1 DEF Storable
  <2>2. CASE g \notin new
    <3>1. /\ g \in kg /\ InGroup(s, g.to) /\ g.version = s.version /\ GrantSigner(s, g.from)
          /\ \A n \in new : n.to # g.to
      BY <1>1, <2>2 DEF StoreKeyGrants, MirrorGroup
    <3>2. g.to \in Cred => g.toVer = 0 /\ g.enc = gs.creds[g.to].enc
      BY <3>1 DEF Inv, GrantsStand, CheckKeyGrant
    <3>3. g.to \in Cred => s.creds[g.to].enc = gs.creds[g.to].enc
      BY <3>1
    <3> QED  BY <3>1, <3>2, <3>3 DEF CheckKeyGrant
  <2> QED  BY <2>1, <2>2
<1> QED
  BY <1>2, <1>3, <1>4, <1>5 DEF Inv

LEMMA LinkOfTyped ==
    ASSUME Inv, NEW u \in Person, NEW s \in GroupChainState, NEW type \in GroupTypes, NEW b,
           type \in {"admin_add", "admin_remove", "member_add", "member_remove"} => b.user \in Person,
           type \in {"admin_add", "member_add"} => b.verified \in Verification,
           type \in {"machine_add", "token_add", "workload_add", "workload_rekey", "remove"} =>
             b.id \in Cred,
           type = "remove" => b.destroyed \in BOOLEAN
    PROVE  LET l == LinkOf(s, u, type, b) IN LinkTyped(l) /\ l.type = type /\ l.b = b /\ l.time = now
<1>1. chains[u] \in PersonalChain /\ now \in Nat /\ s.seq + 1 \in Nat
  BY GroupFields DEF Inv, Typed
<1>2. Len(chains[u]) \in Nat
  BY <1>1 DEF PersonalChain
<1> QED
  BY <1>1, <1>2 DEF LinkOf, GroupLink, LinkTyped

LEMMA SignKeeps ==
    ASSUME Inv, NEW u \in Person, NEW l, LinkTyped(l), l.time = now,
           NEW to, Rekeyed(l) \subseteq to, Sign(u, l, to)
    PROVE  Inv'
<1> DEFINE s == GroupNextState(gs, l)
           new == {GrantOf(s, u, h) : h \in to}
<1>1. GroupCommit(u, s, new) /\ GroupValidApply(gs, l)
  BY DEF Sign, MaySend, GroupValidNext
<1>2. LinkGives(gs, l, s)
  BY <1>1, EachLinkGives DEF Inv, Typed
<1>3. \A h \in to : GrantOf(s, u, h).to = h /\ GrantOf(s, u, h) \in new
  BY DEF GrantOf, KeyGrant
<1> HIDE DEF new, s
<1>4. \A c \in Cred : s.creds[c].enc = gs.creds[c].enc \/ \E g \in new : g.to = c
  BY <1>2, <1>3 DEF LinkGives, SameEnc
<1> QED
  BY <1>1, <1>2, <1>4, CommitKeeps DEF LinkGives

\* A commit that ends with a new key, after links that led to s.
LEMMA RotatedGives ==
    ASSUME Inv, NEW u \in Person, NEW s, GroupOK(s),
           MaySend(u, s, LinkOf(s, u, "key_rotate", [version |-> s.version + 1]))
    PROVE  Becomes(s, Rotated(s, u), now) /\ SameEnc(s, Rotated(s, u), {})
<1> DEFINE l == LinkOf(s, u, "key_rotate", [version |-> s.version + 1])
<1>1. LinkTyped(l) /\ l.type = "key_rotate" /\ l.time = now
  BY LinkOfTyped DEF GroupTypes, GroupOK
<1>2. GroupValidApply(s, l)
  BY DEF MaySend, GroupValidNext
<1> HIDE DEF l
<1>3. LinkGives(s, l, GroupNextState(s, l))
  BY <1>1, <1>2, EachLinkGives
<1> QED
  BY <1>1, <1>3 DEF LinkGives, Rekeyed, Rotated, l

LEMMA SignAndRotateKeeps ==
    ASSUME Inv, NEW u \in Person, NEW l, LinkTyped(l), l.time = now, Rekeyed(l) = {},
           SignAndRotate(u, l)
    PROVE  Inv'
<1> DEFINE s == GroupNextState(gs, l)
           r == Rotated(s, u)
<1>1. /\ GroupCommit(u, r, KeyGrantsAll(r, u)) /\ GroupValidApply(gs, l)
      /\ MaySend(u, s, LinkOf(s, u, "key_rotate", [version |-> s.version + 1]))
  BY DEF SignAndRotate, MaySend, GroupValidNext
<1>2. LinkGives(gs, l, s) /\ GroupOK(gs)
  BY <1>1, EachLinkGives DEF Inv, Typed
<1> HIDE DEF s
<1>3. Becomes(gs, s, now) /\ SameEnc(gs, s, {}) /\ GroupOK(s)
  BY <1>2 DEF LinkGives, Becomes
<1>4. Becomes(s, r, now) /\ SameEnc(s, r, {})
  BY <1>1, <1>3, RotatedGives
<1> HIDE DEF r
<1>5. Becomes(gs, r, now)
  BY <1>2, <1>3, <1>4, BecomesOn
<1>6. \A c \in Cred : r.creds[c].enc = gs.creds[c].enc
  BY <1>3, <1>4 DEF SameEnc
<1> QED
  BY <1>1, <1>5, <1>6, CommitKeeps

LEMMA PersonCommandKeeps ==
    ASSUME Inv, NEW u \in Person, NEW v \in Person,
           \/ AddGroupAdmin(u, v) \/ RemoveGroupAdmin(u, v)
           \/ AddGroupMember(u, v) \/ RemoveGroupMember(u, v)
    PROVE  Inv'
<1> DEFINE add == [user |-> v, verified |-> "account-key"]
           rem == [user |-> v]
           aa == LinkOf(gs, u, "admin_add", add)
           ma == LinkOf(gs, u, "member_add", add)
           ar == LinkOf(gs, u, "admin_remove", rem)
           mr == LinkOf(gs, u, "member_remove", rem)
<1>1. gs \in GroupChainState /\ add.user \in Person /\ rem.user \in Person /\ add.verified \in Verification
  BY DEF Inv, Typed, GroupOK, Verification
<1> HIDE DEF add, rem
<1>2. /\ LinkTyped(aa) /\ aa.type = "admin_add" /\ LinkTyped(ma) /\ ma.type = "member_add"
      /\ LinkTyped(ar) /\ ar.type = "admin_remove" /\ LinkTyped(mr) /\ mr.type = "member_remove"
      /\ aa.time = now /\ ma.time = now /\ ar.time = now /\ mr.time = now
  BY <1>1, LinkOfTyped DEF GroupTypes
<1> HIDE DEF aa, ma, ar, mr
<1>3. Rekeyed(aa) = {} /\ Rekeyed(ma) = {} /\ Rekeyed(ar) = {} /\ Rekeyed(mr) = {}
  BY <1>2 DEF Rekeyed
<1>4. \/ Sign(u, aa, {v}) \/ Sign(u, ma, {v}) \/ Sign(u, ar, {}) \/ SignAndRotate(u, ar)
      \/ Sign(u, mr, {}) \/ SignAndRotate(u, mr)
  BY DEF AddGroupAdmin, RemoveGroupAdmin, AddGroupMember, RemoveGroupMember, aa, ma, ar, mr, add, rem
<1> QED
  BY <1>2, <1>3, <1>4, SignKeeps, SignAndRotateKeeps

LEMMA CredCommandKeeps ==
    ASSUME Inv, NEW u \in Person, NEW c \in Cred,
           \/ NewCred(u, c) \/ RekeyWorkload(u, c)
           \/ \E destroyed \in BOOLEAN : RemoveCred(u, c, destroyed)
    PROVE  Inv'
<1> DEFINE id == [id |-> c]
           a == LinkOf(gs, u, AddType(c), id)
           k == LinkOf(gs, u, "workload_rekey", id)
<1>1. gs \in GroupChainState /\ id.id = c
  BY DEF Inv, Typed, GroupOK
<1>2. AddType(c) \in {"machine_add", "token_add", "workload_add"}
  BY DEF AddType
<1>3. /\ LinkTyped(a) /\ a.type = AddType(c) /\ a.time = now
      /\ LinkTyped(k) /\ k.type = "workload_rekey" /\ k.b = id /\ k.time = now
  <2> HIDE DEF id
  <2> QED  BY <1>1, <1>2, LinkOfTyped DEF GroupTypes
<1>4. CASE NewCred(u, c)
  <2> HIDE DEF a
  <2>1. Sign(u, a, {c}) /\ Rekeyed(a) \subseteq {c}
    BY <1>2, <1>3, <1>4 DEF NewCred, Rekeyed, a
  <2> QED  BY <1>3, <2>1, SignKeeps
<1>5. CASE RekeyWorkload(u, c)
  <2>1. Sign(u, k, {c}) /\ Rekeyed(k) \subseteq {c}
    BY <1>1, <1>3, <1>5 DEF RekeyWorkload, Rekeyed
  <2> HIDE DEF k
  <2> QED  BY <1>3, <2>1, SignKeeps
<1>6. ASSUME NEW destroyed \in BOOLEAN, RemoveCred(u, c, destroyed) PROVE Inv'
  <2> DEFINE b == [id |-> c, destroyed |-> destroyed]
             r == LinkOf(gs, u, "remove", b)
  <2>1. b.id \in Cred /\ b.destroyed \in BOOLEAN
    OBVIOUS
  <2>2. LinkTyped(r) /\ r.type = "remove" /\ r.time = now
    <3> HIDE DEF b
    <3> QED  BY <1>1, <2>1, LinkOfTyped DEF GroupTypes
  <2>3. SignAndRotate(u, r) \/ \E to : Sign(u, r, to)
    BY <1>6 DEF RemoveCred
  <2> HIDE DEF r
  <2>4. Rekeyed(r) = {}
    BY <2>2 DEF Rekeyed
  <2> QED  BY <2>2, <2>3, <2>4, SignKeeps, SignAndRotateKeeps
<1> QED
  BY <1>4, <1>5, <1>6

LEMMA OtherCommandKeeps ==
    ASSUME Inv, NEW u \in Person,
           \/ RotateGroupKey(u) \/ SetAccess(u)
           \/ \E d \in Delegate, h \in KeyHolder : DelegateRemove(u, d, h)
           \/ \E m \in Fleet : ApproveJoin(u, m)
           \/ \E m \in Fleet : RejectJoin(u, m)
    PROVE  Inv'
<1>1. gs \in GroupChainState /\ GroupOK(gs)
  BY DEF Inv, Typed, GroupOK
<1>2. CASE RotateGroupKey(u)
  <2>1. /\ GroupCommit(u, Rotated(gs, u), KeyGrantsAll(Rotated(gs, u), u))
        /\ MaySend(u, gs, LinkOf(gs, u, "key_rotate", [version |-> gs.version + 1]))
    BY <1>2 DEF RotateGroupKey, Rotated
  <2>2. Becomes(gs, Rotated(gs, u), now) /\ SameEnc(gs, Rotated(gs, u), {})
    BY <1>1, <2>1, RotatedGives
  <2> QED  BY <2>1, <2>2, CommitKeeps DEF SameEnc
<1>3. CASE SetAccess(u)
  <2> DEFINE b == [none |-> TRUE]
             type == IF gs.access THEN "access_remove" ELSE "access_add"
             l == LinkOf(gs, u, type, b)
  <2>1. type \in {"access_add", "access_remove"}
    OBVIOUS
  <2>2. Sign(u, l, {})
    BY <1>3 DEF SetAccess
  <2> HIDE DEF type, b
  <2>3. LinkTyped(l) /\ l.type = type /\ l.time = now
    BY <1>1, <2>1, LinkOfTyped DEF GroupTypes
  <2> HIDE DEF l
  <2>4. Rekeyed(l) = {}
    BY <2>1, <2>3 DEF Rekeyed
  <2> QED  BY <2>2, <2>3, <2>4, SignKeeps
<1>4. ASSUME NEW d \in Delegate, NEW h \in KeyHolder, DelegateRemove(u, d, h) PROVE Inv'
  <2> DEFINE type == IF h \in Person THEN "member_remove" ELSE "remove"
             b == IF h \in Person THEN [user |-> h] ELSE [id |-> h, destroyed |-> FALSE]
             k == LinkOf(gs, u, type, b)
             l == [k EXCEPT !.delegate = d, !.ver = 0]
  <2>1. GroupCommit(u, GroupNextState(gs, l), {}) /\ GroupValidApply(gs, l)
    BY <1>4 DEF DelegateRemove, MaySend, GroupValidNext
  <2>2. /\ type \in {"member_remove", "remove"}
        /\ type = "member_remove" => b.user \in Person
        /\ type = "remove" => b.id \in Cred /\ b.destroyed \in BOOLEAN
    BY DEF KeyHolder
  <2> HIDE DEF type, b
  <2>3. LinkTyped(k) /\ k.type = type /\ k.time = now
    BY <1>1, <2>2, LinkOfTyped DEF GroupTypes
  <2>4. l.type = k.type /\ l.b = k.b /\ l.seq = k.seq /\ l.time = k.time /\ l.pos = k.pos
        /\ l.signer = k.signer
    BY DEF LinkOf, GroupLink
  <2> HIDE DEF k, l
  <2>5. LinkTyped(l) /\ Rekeyed(l) = {} /\ l.time = now
    BY <2>2, <2>3, <2>4 DEF LinkTyped, Rekeyed
  <2>6. LinkGives(gs, l, GroupNextState(gs, l))
    BY <1>1, <2>1, <2>5, EachLinkGives
  <2> QED  BY <2>1, <2>5, <2>6, CommitKeeps DEF LinkGives, SameEnc
<1>5. ASSUME NEW m \in Fleet, ApproveJoin(u, m) PROVE Inv'
  <2> DEFINE b == [id |-> m]
             l == LinkOf(gs, u, "machine_add", b)
             s == GroupNextState(gs, l)
  <2>1. GroupCommit(u, s, {GrantOf(s, u, m)}) /\ GroupValidApply(gs, l)
    BY <1>5 DEF ApproveJoin, MaySend, GroupValidNext
  <2>2. b.id \in Cred
    BY DEF Cred
  <2> HIDE DEF b
  <2>3. LinkTyped(l) /\ l.type = "machine_add" /\ l.time = now
    BY <1>1, <2>2, LinkOfTyped DEF GroupTypes
  <2> HIDE DEF l
  <2>4. LinkGives(gs, l, s) /\ Rekeyed(l) = {}
    BY <1>1, <2>1, <2>3, EachLinkGives DEF Rekeyed
  <2> QED  BY <2>1, <2>3, <2>4, CommitKeeps DEF LinkGives, SameEnc
<1>6. ASSUME NEW m \in Fleet, RejectJoin(u, m) PROVE Inv'
  BY <1>6, SameKeeps DEF RejectJoin
<1> QED
  BY <1>2, <1>3, <1>4, <1>5, <1>6

LEMMA EnrollKeeps ==
    ASSUME Inv, NEW t \in Token, NEW m \in Fleet, Enroll(t, m)
    PROVE  Inv'
<1> DEFINE l == GroupLink(gs, "machine_add", t, 0, 0, now, [id |-> m])
           s == GroupNextState(gs, l)
<1>1. GroupCommit(t, s, {KeyGrant(s, t, m, 0)}) /\ GroupValidApply(gs, l)
  BY DEF Enroll, GroupValidNext
<1>2. GroupOK(gs) /\ gs.seq \in Nat /\ now \in Nat
  BY GroupFields DEF Inv, Typed, GroupOK
<1>3. LinkTyped(l) /\ Rekeyed(l) = {} /\ l.time = now
  BY <1>2 DEF LinkTyped, GroupLink, GroupTypes, Cred, Rekeyed
<1> HIDE DEF l
<1>4. LinkGives(gs, l, s)
  BY <1>1, <1>2, <1>3, EachLinkGives
<1> QED
  BY <1>1, <1>3, <1>4, CommitKeeps DEF LinkGives, SameEnc

LEMMA FulfilKeeps ==
    ASSUME Inv, NEW u \in Person, Fulfil(u)
    PROVE  Inv'
<1>1. GroupOK(gs)
  BY DEF Inv, Typed
<1>2. CASE FulfilRotate(u)
  <2>1. /\ GroupCommit(u, Rotated(gs, u), KeyGrantsAll(Rotated(gs, u), u))
        /\ MaySend(u, gs, LinkOf(gs, u, "key_rotate", [version |-> gs.version + 1]))
    BY <1>2 DEF FulfilRotate
  <2>2. Becomes(gs, Rotated(gs, u), now) /\ SameEnc(gs, Rotated(gs, u), {})
    BY <1>1, <2>1, RotatedGives
  <2> QED  BY <2>1, <2>2, CommitKeeps DEF SameEnc
<1>3. CASE FulfilRead(u)
  BY <1>3, SameKeeps DEF FulfilRead
<1>4. CASE FulfilSend(u)
  <2>1. PICK new : /\ kg' = StoreKeyGrants(kg, new) /\ Remember(new)
                   /\ gs' = gs /\ chains' = chains /\ now' = now
                   /\ st' = st /\ sealed' = sealed
                   /\ \A g \in new : Storable(gs, g.from, g)
    <3> DEFINE w == work[u]
               ok == GroupAdmin(gs, u) /\ w.ver = Ver(u) /\ \A g \in w.grants : Storable(gs, u, g)
               new == IF ok THEN w.grants ELSE {}
    <3>1. /\ kg' = StoreKeyGrants(kg, new) /\ Remember(new)
          /\ gs' = gs /\ chains' = chains /\ now' = now
          /\ st' = st /\ sealed' = sealed
      BY <1>4 DEF FulfilSend
    <3>2. \A g \in new : Storable(gs, g.from, g)
      BY DEF Storable
    <3> QED  BY <3>1, <3>2
  <2>2. Becomes(gs, gs', now)
    BY <1>1, <2>1 DEF Becomes, LeaversExposed, Carries
  <2>3. known' \in [KeyHolder -> Nat] /\ KnownVersions' /\ FormerHoldersExposed'
    BY <2>1, <2>2, RememberKeeps
  <2>4. /\ now' \in Nat \ {0} /\ ProjectOK(st', now') /\ Follows(st, st')
        /\ sealed' \subseteq SealedGrant
    BY <2>1, ProjectStays
  <2>5. ReadersCounted' /\ \A h \in KeyHolder : read'[h] \subseteq EnvKeys(st')
    BY <2>1, <2>2, <2>4, ReadersKeep
  <2>6. Typed'
    BY <2>1, <2>3, <2>4, <2>5 DEF Inv, Typed
  <2>7. GrantsStand'
    BY <2>1 DEF Inv, GrantsStand, StoreKeyGrants, Storable
  <2> QED  BY <2>3, <2>5, <2>6, <2>7 DEF Inv
<1> QED
  BY <1>2, <1>3, <1>4 DEF Fulfil

\* Whatever leaves the group and its grants alone.
LEMMA ElsewhereKeeps ==
    ASSUME Inv, gs' = gs, kg' = kg, Remember({}), chains' \in [Person -> PersonalChain],
           \A u \in Person : Len(chains'[u]) > 0, now' \in Nat \ {0},
           ProjectOK(st', now'), Follows(st, st'), sealed' \subseteq SealedGrant
    PROVE  Inv'
<1>1. Becomes(gs, gs', now)
  BY DEF Inv, Typed, Becomes, LeaversExposed, Carries
<1>2. known' \in [KeyHolder -> Nat] /\ KnownVersions' /\ FormerHoldersExposed'
  BY <1>1, RememberKeeps
<1>3. ReadersCounted' /\ \A h \in KeyHolder : read'[h] \subseteq EnvKeys(st')
  BY <1>1, ReadersKeep
<1>4. Typed'
  BY <1>2, <1>3 DEF Inv, Typed
<1>5. GrantsStand'
  BY DEF Inv, GrantsStand
<1> QED
  BY <1>2, <1>3, <1>4, <1>5 DEF Inv

LEMMA SealForIs ==
    ASSUME Inv, NEW s, RulesOK(s)
    PROVE  SealFor(s) \subseteq SealedGrant
<1>1. s \in State /\ gs.version \in Nat /\ Access(s, TheGroup) \in SUBSET EnvName
  BY GroupFields, AccessTyped, GroupAssumption DEF RulesOK, Inv, Typed, GroupOK, Holder
<1>2. NewGrant(s, Creator, TheGroup, gs.version, Access(s, TheGroup)) \in SealedGrant
  BY <1>1, NewGrantIs
<1> QED
  BY <1>2 DEF SealFor

LEMMA ProjectLinkIs ==
    ASSUME Inv, NEW type \in {"group_set", "env_set", "env_rename"}, NEW b, BodyOK(type, b),
           type = "group_set" => b.group = TheGroup,
           ValidNext(st, chains, ProjectLink(type, b))
    PROVE  LET t == NextState(st, ProjectLink(type, b))
           IN  ProjectOK(t, now + 1) /\ Follows(st, t)
<1> DEFINE l == ProjectLink(type, b)
<1>1. /\ ProjectOK(st, now) /\ now \in Nat \ {0} /\ Creator \in Person
      /\ chains[Creator] \in PersonalChain
  BY GroupAssumption DEF Inv, Typed
<1>2. st.seq + 1 \in Nat /\ Len(chains[Creator]) \in Nat
  BY <1>1, StateFields DEF ProjectOK, RulesOK, PersonalChain
<1>3. /\ l.type = type /\ l.b = b /\ l.time = now /\ l.signer = Creator
      /\ l.seq \in Nat /\ l.pos \in Nat
  BY <1>2 DEF ProjectLink, NewLink
<1>4. ValidApply(st, l)
  BY DEF ValidNext
<1> HIDE DEF l
<1>5. WellFormed(l)
  BY <1>1, <1>3 DEF WellFormed, Types
<1>6. ProjectOK(NextState(st, l), now + 1) /\ Follows(st, NextState(st, l))
  <2>1. CASE type = "group_set"
    BY <1>1, <1>3, <1>4, <1>5, <2>1, GroupSetFollows
  <2>2. CASE type = "env_set"
    BY <1>1, <1>3, <1>4, <1>5, <2>2, EnvSetFollows
  <2>3. CASE type = "env_rename"
    BY <1>1, <1>3, <1>4, <1>5, <2>3, EnvRenameFollows
  <2> QED  BY <2>1, <2>2, <2>3
<1> QED
  BY <1>6 DEF l

LEMMA ProjectCommitKeeps ==
    ASSUME Inv, NEW type \in {"group_set", "env_set", "env_rename"}, NEW b, BodyOK(type, b),
           type = "group_set" => b.group = TheGroup,
           NEW rows, ProjectCommit(ProjectLink(type, b), rows),
           RulesOK(NextState(st, ProjectLink(type, b))) => rows \subseteq SealedGrant
    PROVE  Inv'
<1> DEFINE t == NextState(st, ProjectLink(type, b))
<1>1. /\ ValidNext(st, chains, ProjectLink(type, b)) /\ st' = t /\ now' = now + 1
      /\ sealed' = IF Active(t, TheGroup) THEN rows ELSE {}
      /\ gs' = gs /\ kg' = kg /\ chains' = chains /\ Remember({})
  BY DEF ProjectCommit
<1>2. ProjectOK(t, now + 1) /\ Follows(st, t)
  BY <1>1, ProjectLinkIs
<1> HIDE DEF t
<1>3. sealed' \subseteq SealedGrant
  BY <1>1, <1>2 DEF ProjectOK, t
<1>4. /\ now \in Nat \ {0} /\ chains \in [Person -> PersonalChain]
      /\ \A u \in Person : Len(chains[u]) > 0
  BY DEF Inv, Typed
<1> QED
  BY <1>1, <1>2, <1>3, <1>4, ElsewhereKeeps

LEMMA SetGroupKeeps ==
    ASSUME Inv, NEW envs \in SUBSET EnvNames(st), SetGroup(envs)
    PROVE  Inv'
<1> DEFINE b == [group |-> TheGroup, root |-> 1, envs |-> envs]
           l == ProjectLink("group_set", b)
<1>1. ProjectCommit(l, SealFor(NextState(st, l)))
  BY DEF SetGroup
<1>2. BodyOK("group_set", b) /\ b.group = TheGroup
  BY GroupAssumption DEF BodyOK, EnvNames
<1> HIDE DEF b
<1> QED
  BY <1>1, <1>2, SealForIs, ProjectCommitKeeps

LEMMA PublishEnvKeeps ==
    ASSUME Inv, NEW n \in EnvName, PublishEnv(n)
    PROVE  Inv'
<1> DEFINE unused == {k \in EnvKey : ~UsedKey(st, k)}
           b == [env |-> n, key |-> CHOOSE k \in unused : TRUE]
           l == ProjectLink("env_set", b)
           s == NextState(st, l)
           rows == IF n \in GroupReads /\ gs.access THEN SealFor(s) ELSE sealed
<1>1. unused # {} /\ ProjectCommit(l, rows)
  BY DEF PublishEnv
<1>2. BodyOK("env_set", b)
  <2>1. (CHOOSE k \in unused : TRUE) \in EnvKey
    BY <1>1
  <2> QED  BY <2>1 DEF BodyOK
<1>3. RulesOK(s) => rows \subseteq SealedGrant
  BY SealForIs DEF Inv, Typed
<1> HIDE DEF b, rows, unused
<1> QED
  BY <1>1, <1>2, <1>3, ProjectCommitKeeps

LEMMA RenameEnvKeeps ==
    ASSUME Inv, NEW old \in EnvName, NEW new \in EnvName, RenameEnv(old, new)
    PROVE  Inv'
<1> DEFINE b == [old |-> old, new |-> new]
           named(e) == [e EXCEPT !.env = IF @ = old THEN new ELSE @]
           grant(g) == [g EXCEPT !.envs = {named(e) : e \in g.envs}]
           rows == {grant(g) : g \in sealed}
           E == [env: EnvName, key: EnvKey \cup {NoKey}]
<1>1. ProjectCommit(ProjectLink("env_rename", b), rows)
  BY DEF RenameEnv
<1>2. BodyOK("env_rename", b)
  BY DEF BodyOK
<1>3. \A e \in E : named(e) \in E
  OBVIOUS
<1>4. \A g \in SealedGrant : grant(g) \in SealedGrant
  <2> TAKE g \in SealedGrant
  <2> DEFINE x == {named(e) : e \in g.envs}
  <2>1. g.envs \in SUBSET E
    BY DEF SealedGrant
  <2> HIDE DEF E
  <2>2. x \in SUBSET E
    BY <1>3, <2>1
  <2> HIDE DEF x
  <2>3. [g EXCEPT !.envs = x] \in SealedGrant
    BY <2>2 DEF SealedGrant, E
  <2> QED  BY <2>3 DEF x
<1>5. rows \subseteq SealedGrant
  BY <1>4 DEF Inv, Typed
<1> HIDE DEF b, rows
<1> QED
  BY <1>1, <1>2, <1>5, ProjectCommitKeeps

LEMMA ResealKeeps ==
    ASSUME Inv, Reseal
    PROVE  Inv'
<1>1. /\ gs' = gs /\ kg' = kg /\ chains' = chains /\ now' = now /\ st' = st
      /\ sealed' = SealFor(st) /\ Remember({})
  BY DEF Reseal
<1>2. /\ now \in Nat \ {0} /\ ProjectOK(st, now) /\ chains \in [Person -> PersonalChain]
      /\ \A u \in Person : Len(chains[u]) > 0
  BY DEF Inv, Typed
<1>3. Follows(st, st) /\ SealFor(st) \subseteq SealedGrant
  BY <1>2, FollowsItself, SealForIs DEF ProjectOK
<1> QED
  BY <1>1, <1>2, <1>3, ElsewhereKeeps

LEMMA RotateUserKeyKeeps ==
    ASSUME Inv, NEW u \in Person, RotateUserKey(u)
    PROVE  Inv'
<1> DEFINE c == Append(chains[u], [ver |-> Ver(u) + 1, delegates |-> {}])
<1>1. /\ now \in Nat /\ chains \in [Person -> PersonalChain]
      /\ \A v \in Person : Len(chains[v]) > 0
  BY DEF Inv, Typed
<1> DEFINE Position == [ver: Nat, delegates: SUBSET Delegate]
           p == [ver |-> Ver(u) + 1, delegates |-> {}]
<1>2. chains[u] \in Seq(Position) /\ Len(chains[u]) > 0
  BY <1>1 DEF PersonalChain
<1>3. c \in PersonalChain /\ Len(c) > 0
  <2>1. \A x \in Position : x.ver \in Nat
    OBVIOUS
  <2> HIDE DEF Position
  <2>2. chains[u][Len(chains[u])] \in Position
    BY <1>2
  <2>3. Ver(u) \in Nat
    BY <2>1, <2>2 DEF Ver
  <2>4. p \in Position
    BY <2>3 DEF Position
  <2> HIDE DEF p
  <2>5. Append(chains[u], p) \in Seq(Position) /\ Len(Append(chains[u], p)) = Len(chains[u]) + 1
    BY <1>2, <2>4
  <2>6. Len(chains[u]) \in Nat
    BY <1>2
  <2> QED  BY <1>2, <2>5, <2>6 DEF PersonalChain, Position, p
<1>4. /\ gs' = gs /\ kg' = kg /\ now' = now /\ Remember({}) /\ chains' = [chains EXCEPT ![u] = c]
      /\ st' = st /\ sealed' = sealed
  BY DEF RotateUserKey
<1> HIDE DEF c
<1>5. chains' \in [Person -> PersonalChain] /\ \A v \in Person : Len(chains'[v]) > 0
  BY <1>1, <1>3, <1>4
<1>6. /\ now' \in Nat \ {0} /\ ProjectOK(st', now') /\ Follows(st, st')
      /\ sealed' \subseteq SealedGrant
  BY <1>4, ProjectStays
<1> QED
  BY <1>4, <1>5, <1>6, ElsewhereKeeps

LEMMA StepInv == Inv /\ [Next]_vars => Inv'
<1> SUFFICES ASSUME Inv, [Next]_vars PROVE Inv'
  OBVIOUS
<1>1. CASE UNCHANGED vars
  BY <1>1, SameKeeps DEF vars
<1>2. ASSUME NEW u \in Person, GroupCommand(u) PROVE Inv'
  BY <1>2, PersonCommandKeeps, CredCommandKeeps, OtherCommandKeeps DEF GroupCommand, Cred
<1>3. ASSUME NEW m \in Fleet, RequestJoin(m) PROVE Inv'
  BY <1>3, SameKeeps DEF RequestJoin
<1>4. ASSUME NEW h \in KeyHolder, Block(h) PROVE Inv'
  <2>1. /\ gs' = gs /\ kg' = kg /\ now' = now /\ Remember({}) /\ chains' = chains
        /\ st' = st /\ sealed' = sealed
    BY <1>4 DEF Block
  <2>2. /\ now' \in Nat \ {0} /\ ProjectOK(st', now') /\ Follows(st, st')
        /\ sealed' \subseteq SealedGrant
    BY <2>1, ProjectStays
  <2> QED  BY <2>1, <2>2, ElsewhereKeeps DEF Inv, Typed
<1> QED
  BY <1>1, <1>2, <1>3, <1>4, EnrollKeeps, SetGroupKeeps, PublishEnvKeeps,
     RenameEnvKeeps, ResealKeeps, FulfilKeeps, RotateUserKeyKeeps DEF Next

LEMMA InvHolds == Spec => []Inv
  BY InitInv, StepInv, PTL DEF Spec

\* Whoever left and still holds the group's key is listed until there is a
\* new key: whichever way they left, and whatever was sent meanwhile.
THEOREM FormerHoldersStayListed == Spec => []FormerHoldersExposed
<1>1. Inv => FormerHoldersExposed
  BY DEF Inv
<1> QED
  BY <1>1, InvHolds, PTL

\* What the server reports as sent can be opened, so that no device rests
\* while someone waits for the key.
THEOREM ReportsAreTrue == Spec => []ReportedKeysOpen
<1>1. Inv => ReportedKeysOpen
  <2> SUFFICES ASSUME Inv, NEW h \in KeyHolder, InGroup(gs, h), Has(h) PROVE OpensKey(h)
    BY DEF ReportedKeysOpen
  <2>1. PICK g \in kg : g.to = h /\ g.version = gs.version /\ (h \in Person => g.toVer = Ver(h))
    BY DEF Has
  <2>2. CheckKeyGrant(gs, g)
    BY DEF Inv, GrantsStand
  <2>3. g.toVer = VersionOf(h)
    BY <2>1, <2>2 DEF VersionOf, CheckKeyGrant, KeyHolder
  <2> QED  BY <2>1, <2>2, <2>3 DEF OpensKey, OpenKeyGrant
<1> QED
  BY <1>1, InvHolds, PTL

\* Whoever could fetch an environment's key through the group reads it still,
\* or is listed so that the project's admins are asked for a new key, unless
\* the environment was renamed and its list dated again.
THEOREM ReadersStayListed == Spec => []ReadersListed
<1>1. Inv => ReadersListed
  <2> SUFFICES ASSUME Inv, NEW h \in KeyHolder, NEW n \in EnvNames(st), st.envs[n].key \in read[h]
               PROVE  Listed(h, n) \/ DatedAgain(n)
    BY DEF ReadersListed
  <2> DEFINE b == From(st, n)
  <2>1. Counted(st, gs, h, n)
    BY DEF Inv, ReadersCounted
  <2>2. CASE TheGroup \in st.envs[n].exposed
    BY <2>2 DEF Listed
  <2>3. CASE n \in GroupReads /\ (InGroup(gs, h) \/ DestroyedIn(gs, h))
    BY <2>3 DEF Listed, Destroyed, DestroyedIn
  <2>4. CASE /\ n \in Access(st, TheGroup) /\ ~DestroyedIn(gs, h)
             /\ IF h \in Person THEN FormerSince(gs.admins[h], b) \/ FormerSince(gs.members[h], b)
                ELSE FormerSince(gs.creds[h], b)
    <3>1. n \in EnvName /\ st.envs[n].key # NoKey
      BY DEF EnvNames
    <3>2. st.envs[n].since \in Nat /\ SinceIn(st, n) \in Nat
      BY <3>1, FromIs DEF Inv, Typed
    <3>3. CASE ~DatedAgain(n)
      <4>1. b \in Nat /\ b >= st.envs[n].since /\ b >= SinceIn(st, n)
        BY <3>2, <3>3 DEF DatedAgain, From, Renamed, SinceIn
      <4>2. /\ h \in Person => gs.admins[h].removed \in Nat /\ gs.members[h].removed \in Nat
            /\ h \in Cred => gs.creds[h].removed \in Nat
        BY GroupFields DEF Inv, Typed, GroupOK, PersonEntry, CredState
      <4> DEFINE since(t) == t >= st.envs[n].since /\ t >= st.groups[TheGroup].since[n]
                 left(e) == e.status = "former" /\ since(e.removed)
      <4>3. IF h \in Person THEN left(gs.admins[h]) \/ left(gs.members[h]) ELSE left(gs.creds[h])
        BY <2>4, <3>2, <4>1, <4>2 DEF FormerSince, SinceIn, KeyHolder
      <4> HIDE DEF since
      <4>4. h \in GroupExposures(st, gs, TheGroup, n)
        BY <2>4, <3>1, <4>3 DEF GroupExposures, DestroyedIn, KeyHolder, since
      <4> QED  BY <4>4 DEF Listed
    <3> QED  BY <3>3
  <2> QED  BY <2>1, <2>2, <2>3, <2>4 DEF Counted, Reaches, GroupReads
<1> QED
  BY <1>1, InvHolds, PTL
=============================================================================
