------------------------- MODULE ProjectRulesProofs -------------------------
(***************************************************************************)
(* Machine-checked lemmas about ProjectRules, for any people, machines,    *)
(* groups, environments and keys: what one valid link keeps true of the    *)
(* state of a project, and what it does to keys and to who holds them.     *)
(***************************************************************************)
EXTENDS ProjectRules, TLAPS

\* The keys in use, those that were replaced, who may have a key, and who is
\* listed as exposed with it.
Cur(s) == {s.envs[n].key : n \in EnvNames(s)}

Ret(s) == UNION {s.envs[n].retired : n \in EnvName}

May(s, k) == {h \in Holder : \E n \in Access(s, h) : s.envs[n].key = k}

Sus(s, k) == {h \in Holder : \E n \in EnvName : s.envs[n].key = k /\ h \in s.envs[n].exposed}

\* A key is in use for one environment, or was replaced in one, for good.
KeysApart(s) ==
    \A n, m \in EnvName :
        /\ s.envs[n].key \notin s.envs[m].retired
        /\ n # m => /\ s.envs[n].retired \cap s.envs[m].retired = {}
                    /\ s.envs[n].key = s.envs[m].key => s.envs[n].key = NoKey

\* A name without a key never had one.
UnsetIsNew(s) == \A n \in EnvName : s.envs[n].key = NoKey => s.envs[n].retired = {}

\* Nobody reads an environment that does not exist.
AccessIsReal(s) == \A h \in Holder : Access(s, h) \subseteq EnvNames(s)

RulesOK(s) == s \in State /\ KeysApart(s) /\ UnsetIsNew(s) /\ AccessIsReal(s)

StateOK(s) == RulesOK(s) /\ Admins(s) # {}

\* What is kept from s to t: no key is forgotten, none comes back, and whoever
\* may no longer have a key that stays in use is listed, like who was.
Keeps(s, t) ==
    /\ Cur(s) \cup Ret(s) \subseteq Cur(t) \cup Ret(t)
    /\ Ret(s) \subseteq Ret(t)
    /\ \A k \in Cur(s) \cap Cur(t) : Sus(s, k) \cup (May(s, k) \ May(t, k)) \subseteq Sus(t, k)

NoNewKeys(s, t) == Cur(t) \cup Ret(t) \subseteq Cur(s) \cup Ret(s)

Types == {"init", "member_add", "member_update", "member_remove", "env_set", "env_rename",
          "machine_add", "machine_remove", "group_set", "archive", "unarchive"}

\* The bodies of the links.
BodyOK(type, b) ==
    /\ type = "init" => b.creator \in Person /\ b.envs \in [EnvName -> EnvKey \cup {NoKey}]
    /\ type \in {"member_add", "member_update", "member_remove"} => b.user \in Person
    /\ type \in {"member_add", "member_update"} => b.admin \in BOOLEAN /\ b.envs \in SUBSET EnvName
    /\ type = "member_add" => b.verified \in Verification
    /\ type = "env_set" => b.env \in EnvName /\ b.key \in EnvKey
    /\ type = "env_rename" => b.old \in EnvName /\ b.new \in EnvName
    /\ type \in {"machine_add", "machine_remove"} => b.machine \in Machine
    /\ type \in {"machine_add", "group_set"} => b.envs \in SUBSET EnvName
    /\ type = "group_set" => b.group \in Group /\ b.root \in Nat

\* A link as it is decoded.
WellFormed(l) ==
    /\ l.type \in Types /\ l.seq \in Nat /\ l.time \in Nat /\ l.pos \in Nat
    /\ l.signer \in Person
    /\ BodyOK(l.type, l.b)

-----------------------------------------------------------------------------
(* The fields of the state.                                                *)

LEMMA StateFields ==
    ASSUME NEW s \in State
    PROVE  /\ s.seq \in Nat /\ s.last \in Nat /\ s.archived \in BOOLEAN
           /\ s.members \in [Person -> MemberState]
           /\ s.machines \in [Machine -> MachineState]
           /\ s.groups \in [Group -> GroupState]
           /\ s.envs \in [EnvName -> EnvState]
           /\ s.renames \in [EnvName -> EnvName \cup {NoEnv}]
           /\ s.signerSeqs \in [Person -> Nat]
  BY DEF State

LEMMA EnvFields ==
    ASSUME NEW s \in State, NEW n \in EnvName
    PROVE  /\ s.envs[n] \in EnvState
           /\ s.envs[n].key \in EnvKey \cup {NoKey} /\ s.envs[n].since \in Nat
           /\ s.envs[n].retired \in SUBSET EnvKey /\ s.envs[n].exposed \in SUBSET Holder
  BY DEF State, EnvState

LEMMA HolderFields ==
    ASSUME NEW s \in State
    PROVE  /\ \A u \in Person : /\ s.members[u] \in MemberState
                                /\ s.members[u].status \in {"none", "active", "former"}
                                /\ s.members[u].admin \in BOOLEAN
                                /\ s.members[u].envs \in SUBSET EnvName
                                /\ s.members[u].verified \in Verification
           /\ \A m \in Machine : /\ s.machines[m] \in MachineState
                                 /\ s.machines[m].status \in {"none", "active", "former"}
                                 /\ s.machines[m].envs \in SUBSET EnvName
           /\ \A g \in Group : /\ s.groups[g] \in GroupState
                               /\ s.groups[g].status \in {"none", "active", "former"}
                               /\ s.groups[g].root \in Nat
                               /\ s.groups[g].envs \in SUBSET EnvName
                               /\ s.groups[g].since \in [EnvName -> Nat]
<1>1. \A u \in Person : s.members[u] \in MemberState
  BY StateFields
<1>2. \A m \in Machine : s.machines[m] \in MachineState
  BY StateFields
<1>3. \A g \in Group : s.groups[g] \in GroupState
  BY StateFields
<1> QED
  BY <1>1, <1>2, <1>3 DEF MemberState, MachineState, GroupState

\* The kinds of holders do not overlap.
LEMMA AccessOf ==
    ASSUME NEW s
    PROVE  /\ \A u \in Person : Access(s, u) = IF ~Member(s, u) THEN {}
                                ELSE IF s.members[u].admin THEN EnvNames(s)
                                ELSE s.members[u].envs
           /\ \A m \in Machine : Access(s, m) = IF s.machines[m].status = "active"
                                                THEN s.machines[m].envs ELSE {}
           /\ \A g \in Group : Access(s, g) = IF s.groups[g].status = "active"
                                              THEN s.groups[g].envs ELSE {}
  BY HoldersAssumption DEF Access

LEMMA AccessOfMachine ==
    ASSUME NEW s, NEW m \in Machine
    PROVE  Access(s, m) = IF s.machines[m].status = "active" THEN s.machines[m].envs ELSE {}
  BY AccessOf

LEMMA AccessOfGroup ==
    ASSUME NEW s, NEW g \in Group
    PROVE  Access(s, g) = IF s.groups[g].status = "active" THEN s.groups[g].envs ELSE {}
  BY AccessOf

\* What a holder reads depends on their own entry.
LEMMA SameEntry ==
    ASSUME NEW s, NEW t, EnvNames(t) = EnvNames(s), NEW h \in Holder,
           h \in Person => t.members[h] = s.members[h],
           h \in Machine => t.machines[h] = s.machines[h],
           h \in Group => t.groups[h] = s.groups[h]
    PROVE  Access(t, h) = Access(s, h)
<1>1. CASE h \in Person
  <2>1. Access(t, h) = IF ~Member(t, h) THEN {} ELSE IF t.members[h].admin THEN EnvNames(t)
                       ELSE t.members[h].envs
    BY <1>1, AccessOf
  <2>2. Access(s, h) = IF ~Member(s, h) THEN {} ELSE IF s.members[h].admin THEN EnvNames(s)
                       ELSE s.members[h].envs
    BY <1>1, AccessOf
  <2> QED
    BY <1>1, <2>1, <2>2 DEF Member
<1>2. CASE h \in Machine
  BY <1>2, AccessOfMachine
<1>3. CASE h \in Group
  BY <1>3, AccessOfGroup
<1> QED
  BY <1>1, <1>2, <1>3 DEF Holder

LEMMA AccessTyped ==
    ASSUME NEW s \in State, NEW h \in Holder
    PROVE  Access(s, h) \in SUBSET EnvName
  BY AccessOf, HolderFields DEF Holder, EnvNames

\* Links that leave the keys where they are, only add to who is exposed, and
\* list whoever loses an environment.
LEMMA SameKeys ==
    ASSUME NEW s, NEW t \in State, RulesOK(s),
           \A n \in EnvName : /\ t.envs[n].key = s.envs[n].key
                              /\ t.envs[n].retired = s.envs[n].retired
                              /\ s.envs[n].exposed \subseteq t.envs[n].exposed,
           \A h \in Holder : \A n \in Access(s, h) \ Access(t, h) : h \in t.envs[n].exposed
    PROVE  /\ EnvNames(t) = EnvNames(s)
           /\ KeysApart(t) /\ UnsetIsNew(t)
           /\ Keeps(s, t) /\ NoNewKeys(s, t)
<1>1. EnvNames(t) = EnvNames(s)
  BY DEF EnvNames
<1>2. KeysApart(t) /\ UnsetIsNew(t)
  BY DEF RulesOK, KeysApart, UnsetIsNew
<1>3. Cur(t) = Cur(s) /\ Ret(t) = Ret(s)
  <2>1. Cur(t) = Cur(s)
    BY <1>1 DEF Cur, EnvNames
  <2>2. Ret(t) = Ret(s)
    BY DEF Ret
  <2> QED
    BY <2>1, <2>2
<1>4. ASSUME NEW k, NEW h \in Sus(s, k)
      PROVE  h \in Sus(t, k)
  BY <1>4 DEF Sus
<1>5. ASSUME NEW k, NEW h \in May(s, k) \ May(t, k)
      PROVE  h \in Sus(t, k)
  <2>1. PICK n \in Access(s, h) : s.envs[n].key = k
    BY <1>5 DEF May
  <2>2. h \in Holder /\ n \in EnvName
    BY <1>5, <2>1 DEF May, RulesOK, AccessIsReal, EnvNames
  <2>3. n \notin Access(t, h)
    BY <1>5, <2>1, <2>2 DEF May
  <2> QED
    BY <2>1, <2>2, <2>3 DEF Sus
<1> QED
  BY <1>1, <1>2, <1>3, <1>4, <1>5 DEF Keeps, NoNewKeys

\* expose
LEMMA ExposeEffect ==
    ASSUME NEW s \in State, NEW lost, NEW h \in Holder
    PROVE  LET t == Expose(s, lost, h)
           IN  /\ t \in State
               /\ t.seq = s.seq /\ t.last = s.last /\ t.archived = s.archived
               /\ t.members = s.members /\ t.machines = s.machines /\ t.groups = s.groups
               /\ t.renames = s.renames /\ t.signerSeqs = s.signerSeqs
               /\ EnvNames(t) = EnvNames(s)
               /\ \A n \in EnvName : /\ t.envs[n].key = s.envs[n].key
                                     /\ t.envs[n].since = s.envs[n].since
                                     /\ t.envs[n].retired = s.envs[n].retired
                                     /\ s.envs[n].exposed \subseteq t.envs[n].exposed
               /\ \A n \in lost \cap EnvNames(s) : h \in t.envs[n].exposed
<1> DEFINE env(n) == [s.envs[n] EXCEPT !.exposed = @ \cup {h}]
           envs == [n \in EnvName |-> IF n \in lost \cap EnvNames(s) THEN env(n) ELSE s.envs[n]]
           t == Expose(s, lost, h)
<1>1. \A n \in EnvName : /\ env(n) \in EnvState
                         /\ env(n).key = s.envs[n].key /\ env(n).since = s.envs[n].since
                         /\ env(n).retired = s.envs[n].retired
                         /\ env(n).exposed = s.envs[n].exposed \cup {h}
  BY EnvFields DEF EnvState
<1>2. t = [s EXCEPT !.envs = envs]
  BY DEF Expose
<1> HIDE DEF env
<1>3. envs \in [EnvName -> EnvState]
  BY <1>1, EnvFields
<1>4. \A n \in EnvName : /\ envs[n].key = s.envs[n].key
                         /\ envs[n].since = s.envs[n].since
                         /\ envs[n].retired = s.envs[n].retired
                         /\ s.envs[n].exposed \subseteq envs[n].exposed
                         /\ n \in lost \cap EnvNames(s) => h \in envs[n].exposed
  BY <1>1
<1> HIDE DEF envs
<1>5. t \in State /\ t.envs = envs
      /\ t.seq = s.seq /\ t.last = s.last /\ t.archived = s.archived
      /\ t.members = s.members /\ t.machines = s.machines /\ t.groups = s.groups
      /\ t.renames = s.renames /\ t.signerSeqs = s.signerSeqs
  BY <1>2, <1>3 DEF State
<1> HIDE DEF t
<1>6. EnvNames(t) = EnvNames(s)
  BY <1>4, <1>5 DEF EnvNames
<1> QED
  BY <1>4, <1>5, <1>6 DEF t, EnvNames

-----------------------------------------------------------------------------
(* What one valid link of each type does.                                  *)

\* The rules stay true, and a project that has an admin keeps one.
Good(s, l, t) ==
    /\ RulesOK(t)
    /\ Keeps(s, t)
    /\ l.type # "env_set" => NoNewKeys(s, t)
    /\ t.signerSeqs = s.signerSeqs
    /\ Admins(s) # {} => Admins(t) # {}

\* applyMemberAdd
LEMMA MemberAddEffect ==
    ASSUME NEW s, RulesOK(s), NEW l, WellFormed(l), l.type = "member_add", ValidApply(s, l)
    PROVE  Good(s, l, Apply(s, l))
<1> DEFINE u == l.b.user
           m == [status |-> "active", admin |-> l.b.admin, envs |-> l.b.envs,
                 verified |-> l.b.verified]
           t == Apply(s, l)
<1>1. s \in State /\ u \in Person /\ m \in MemberState /\ ~Member(s, u)
      /\ CheckAccess(s, m.admin, m.envs)
  BY DEF RulesOK, WellFormed, BodyOK, MemberState, ValidApply, ValidMemberAdd
<1>2. t = [s EXCEPT !.members[u] = m] /\ m.status = "active"
  BY DEF Apply, ApplyMemberAdd
<1> HIDE DEF m, u
<1>3. /\ t \in State /\ t.envs = s.envs /\ t.machines = s.machines /\ t.groups = s.groups
      /\ t.signerSeqs = s.signerSeqs
      /\ t.members = [s.members EXCEPT ![u] = m]
  BY <1>1, <1>2, StateFields, SMTT(30) DEF State
<1> HIDE DEF t
<1>4. EnvNames(t) = EnvNames(s)
  BY <1>3 DEF EnvNames
<1>5. /\ \A v \in Person \ {u} : t.members[v] = s.members[v]
      /\ t.members[u] = m
  BY <1>1, <1>3, StateFields
<1>6. ASSUME NEW h \in Holder \ {u} PROVE Access(t, h) = Access(s, h)
  BY <1>3, <1>4, <1>5, SameEntry, ZenonT(40)
<1>7. Access(s, u) = {} /\ Access(t, u) \subseteq EnvNames(t)
  BY <1>1, <1>2, <1>4, <1>5, AccessOf DEF CheckAccess, Member
<1>8. AccessIsReal(t)
  BY <1>4, <1>6, <1>7 DEF AccessIsReal, RulesOK
<1>9. KeysApart(t) /\ UnsetIsNew(t) /\ Keeps(s, t) /\ NoNewKeys(s, t)
  BY <1>3, <1>6, <1>7, SameKeys
<1>10. Admins(s) \subseteq Admins(t)
  BY <1>1, <1>5 DEF Admins, Admin, Member
<1> QED
  BY <1>3, <1>8, <1>9, <1>10 DEF Good, RulesOK, t

\* applyMemberUpdate
LEMMA MemberUpdateEffect ==
    ASSUME NEW s, RulesOK(s), NEW l, WellFormed(l), l.type = "member_update", ValidApply(s, l)
    PROVE  Good(s, l, Apply(s, l))
<1> DEFINE u == l.b.user
           m == [s.members[u] EXCEPT !.admin = l.b.admin, !.envs = l.b.envs]
           x == [s EXCEPT !.members[u].admin = l.b.admin, !.members[u].envs = l.b.envs]
           lost == Access(s, u) \ Access(x, u)
           t == Apply(s, l)
<1>1. s \in State /\ u \in Person /\ Member(s, u) /\ l.b.admin \in BOOLEAN
      /\ l.b.envs \in SUBSET EnvName /\ CheckAccess(s, l.b.admin, l.b.envs)
      /\ (l.b.admin \/ NotLastAdmin(s, u))
  BY DEF RulesOK, WellFormed, BodyOK, ValidApply, ValidMemberUpdate
<1>2. m \in MemberState /\ m.status = "active" /\ m.admin = l.b.admin /\ m.envs = l.b.envs
  <2>1. s.members[u] \in MemberState /\ s.members[u].status = "active"
    BY <1>1, HolderFields DEF Member
  <2> QED
    BY <1>1, <2>1 DEF MemberState
<1>3. x = [s EXCEPT !.members[u] = m]
  BY <1>1, StateFields DEF State
<1>4. t = Expose(x, lost, u)
  BY DEF Apply, ApplyMemberUpdate
<1> HIDE DEF m, x
<1>5. /\ x \in State /\ x.envs = s.envs /\ x.machines = s.machines /\ x.groups = s.groups
      /\ x.signerSeqs = s.signerSeqs
      /\ x.members = [s.members EXCEPT ![u] = m]
  BY <1>1, <1>2, <1>3, StateFields DEF State
<1>6. u \in Holder
  BY <1>1 DEF Holder
<1> HIDE DEF t, lost
<1>7. /\ t \in State /\ t.members = x.members /\ t.machines = s.machines
      /\ t.groups = s.groups /\ t.signerSeqs = s.signerSeqs
      /\ EnvNames(t) = EnvNames(s)
      /\ \A n \in EnvName : /\ t.envs[n].key = s.envs[n].key
                            /\ t.envs[n].retired = s.envs[n].retired
                            /\ s.envs[n].exposed \subseteq t.envs[n].exposed
      /\ \A n \in lost \cap EnvNames(s) : u \in t.envs[n].exposed
  <2>1. EnvNames(x) = EnvNames(s)
    BY <1>5 DEF EnvNames
  <2> QED
    BY <1>4, <1>5, <1>6, <2>1, ExposeEffect
<1>8. /\ \A v \in Person \ {u} : t.members[v] = s.members[v]
      /\ t.members[u] = m
  BY <1>1, <1>5, <1>7, StateFields
<1>9. ASSUME NEW h \in Holder \ {u} PROVE Access(t, h) = Access(s, h)
  BY <1>7, <1>8, SameEntry
<1>10. Access(t, u) = Access(x, u) /\ Access(t, u) \subseteq EnvNames(t)
  <2>1. EnvNames(x) = EnvNames(s)
    BY <1>5 DEF EnvNames
  <2> QED
    BY <1>1, <1>2, <1>7, <1>8, <2>1, AccessOf DEF CheckAccess, Member
<1>11. \A h \in Holder : \A n \in Access(s, h) \ Access(t, h) : h \in t.envs[n].exposed
  BY <1>1, <1>6, <1>7, <1>9, <1>10 DEF lost, RulesOK, AccessIsReal
<1>12. AccessIsReal(t)
  BY <1>7, <1>9, <1>10 DEF AccessIsReal, RulesOK
<1>13. KeysApart(t) /\ UnsetIsNew(t) /\ Keeps(s, t) /\ NoNewKeys(s, t)
  BY <1>7, <1>11, SameKeys
<1>14. Admins(s) # {} => Admins(t) # {}
  <2>1. \A v \in Admins(s) \ {u} : v \in Admins(t)
    BY <1>8 DEF Admins, Admin, Member
  <2>2. l.b.admin => u \in Admins(t)
    BY <1>1, <1>2, <1>8 DEF Admins, Admin, Member
  <2> QED
    BY <1>1, <2>1, <2>2 DEF NotLastAdmin
<1> QED
  BY <1>7, <1>12, <1>13, <1>14 DEF Good, RulesOK, t

\* applyMemberRemove
LEMMA MemberRemoveEffect ==
    ASSUME NEW s, RulesOK(s), NEW l, WellFormed(l), l.type = "member_remove", ValidApply(s, l)
    PROVE  Good(s, l, Apply(s, l))
<1> DEFINE u == l.b.user
           m == [s.members[u] EXCEPT !.status = "former"]
           x == Expose(s, Access(s, u), u)
           t == Apply(s, l)
<1>1. s \in State /\ u \in Person /\ Member(s, u) /\ NotLastAdmin(s, u)
  BY DEF RulesOK, WellFormed, BodyOK, ValidApply, ValidMemberRemove
<1>2. m \in MemberState /\ m.status = "former"
  <2>1. s.members[u] \in MemberState
    BY <1>1, HolderFields
  <2> QED
    BY <2>1 DEF MemberState
<1>3. t = [x EXCEPT !.members[u].status = "former"]
  BY DEF Apply, ApplyMemberRemove
<1>4. u \in Holder
  BY <1>1 DEF Holder
<1> HIDE DEF x
<1>5. /\ x \in State /\ x.members = s.members /\ x.machines = s.machines /\ x.groups = s.groups
      /\ x.signerSeqs = s.signerSeqs /\ EnvNames(x) = EnvNames(s)
      /\ \A n \in EnvName : /\ x.envs[n].key = s.envs[n].key
                            /\ x.envs[n].retired = s.envs[n].retired
                            /\ s.envs[n].exposed \subseteq x.envs[n].exposed
      /\ \A n \in Access(s, u) \cap EnvNames(s) : u \in x.envs[n].exposed
  BY <1>1, <1>4, ExposeEffect DEF x
<1>6. t = [x EXCEPT !.members[u] = m]
  BY <1>1, <1>3, <1>5, StateFields DEF State
<1> HIDE DEF m, t
<1>7. /\ t \in State /\ t.envs = x.envs /\ t.machines = s.machines /\ t.groups = s.groups
      /\ t.signerSeqs = s.signerSeqs
      /\ t.members = [s.members EXCEPT ![u] = m]
  BY <1>1, <1>2, <1>5, <1>6, StateFields DEF State
<1>8. /\ \A v \in Person \ {u} : t.members[v] = s.members[v]
      /\ t.members[u] = m
      /\ EnvNames(t) = EnvNames(s)
  BY <1>1, <1>5, <1>7, StateFields DEF EnvNames
<1>9. ASSUME NEW h \in Holder \ {u} PROVE Access(t, h) = Access(s, h)
  <2>1. /\ h \in Person => t.members[h] = s.members[h]
        /\ h \in Machine => t.machines[h] = s.machines[h]
        /\ h \in Group => t.groups[h] = s.groups[h]
    BY <1>7, <1>8
  <2> QED
    BY <1>8, <2>1, SameEntry
<1>10. Access(t, u) = {}
  BY <1>1, <1>2, <1>8, AccessOf DEF Member
<1>11. \A h \in Holder : \A n \in Access(s, h) \ Access(t, h) : h \in t.envs[n].exposed
  BY <1>4, <1>5, <1>7, <1>9 DEF RulesOK, AccessIsReal
<1>12. AccessIsReal(t)
  BY <1>8, <1>9, <1>10 DEF AccessIsReal, RulesOK
<1>13. KeysApart(t) /\ UnsetIsNew(t) /\ Keeps(s, t) /\ NoNewKeys(s, t)
  BY <1>5, <1>7, <1>11, SameKeys
<1>14. Admins(s) # {} => Admins(t) # {}
  <2>1. \A v \in Admins(s) \ {u} : v \in Admins(t)
    BY <1>8 DEF Admins, Admin, Member
  <2> QED
    BY <1>1, <2>1 DEF NotLastAdmin
<1> QED
  BY <1>7, <1>12, <1>13, <1>14 DEF Good, RulesOK, t

\* applyMachineAdd
LEMMA MachineAddEffect ==
    ASSUME NEW s, RulesOK(s), NEW l, WellFormed(l), l.type = "machine_add", ValidApply(s, l)
    PROVE  Good(s, l, Apply(s, l))
<1> DEFINE u == l.b.machine
           m == [status |-> "active", envs |-> l.b.envs]
           t == Apply(s, l)
<1>1. s \in State /\ u \in Machine /\ m \in MachineState /\ s.machines[u].status = "none"
      /\ m.envs \subseteq EnvNames(s)
  BY DEF RulesOK, WellFormed, BodyOK, MachineState, ValidApply, ValidMachineAdd, CheckAccess
<1>2. t = [s EXCEPT !.machines[u] = m] /\ m.status = "active"
  BY DEF Apply, ApplyMachineAdd
<1> HIDE DEF m, u
<1>3. /\ t \in State /\ t.envs = s.envs /\ t.members = s.members /\ t.groups = s.groups
      /\ t.signerSeqs = s.signerSeqs
      /\ t.machines = [s.machines EXCEPT ![u] = m]
  BY <1>1, <1>2, StateFields DEF State
<1> HIDE DEF t
<1>4. EnvNames(t) = EnvNames(s)
  BY <1>3 DEF EnvNames
<1>5. /\ \A v \in Machine \ {u} : t.machines[v] = s.machines[v]
      /\ t.machines[u] = m
  BY <1>1, <1>3, StateFields
<1>6. ASSUME NEW h \in Holder \ {u} PROVE Access(t, h) = Access(s, h)
  BY <1>3, <1>4, <1>5, SameEntry
<1>7. Access(s, u) = {} /\ Access(t, u) \subseteq EnvNames(t)
  BY <1>1, <1>2, <1>4, <1>5, AccessOf
<1>8. AccessIsReal(t)
  BY <1>4, <1>6, <1>7 DEF AccessIsReal, RulesOK
<1>9. KeysApart(t) /\ UnsetIsNew(t) /\ Keeps(s, t) /\ NoNewKeys(s, t)
  BY <1>3, <1>6, <1>7, SameKeys
<1>10. Admins(t) = Admins(s)
  BY <1>3 DEF Admins, Admin, Member
<1> QED
  BY <1>3, <1>8, <1>9, <1>10 DEF Good, RulesOK, t

\* applyMachineRemove
LEMMA MachineRemoveEffect ==
    ASSUME NEW s, RulesOK(s), NEW l, WellFormed(l), l.type = "machine_remove", ValidApply(s, l)
    PROVE  Good(s, l, Apply(s, l))
<1> DEFINE u == l.b.machine
           m == [s.machines[u] EXCEPT !.status = "former"]
           lost == s.machines[u].envs
           x == Expose(s, lost, u)
           t == Apply(s, l)
<1>1. s \in State /\ u \in Machine /\ s.machines[u].status = "active"
  BY DEF RulesOK, WellFormed, BodyOK, ValidApply
<1>2. m \in MachineState /\ m.status = "former"
  <2>1. s.machines[u] \in MachineState
    BY <1>1, HolderFields
  <2> QED
    BY <2>1 DEF MachineState
<1>3. t = [x EXCEPT !.machines[u].status = "former"]
  BY DEF Apply, ApplyMachineRemove
<1>4. u \in Holder /\ Access(s, u) = lost
  BY <1>1, AccessOf DEF Holder
<1> HIDE DEF lost, x
<1>5. /\ x \in State /\ x.members = s.members /\ x.machines = s.machines /\ x.groups = s.groups
      /\ x.signerSeqs = s.signerSeqs /\ EnvNames(x) = EnvNames(s)
      /\ \A n \in EnvName : /\ x.envs[n].key = s.envs[n].key
                            /\ x.envs[n].retired = s.envs[n].retired
                            /\ s.envs[n].exposed \subseteq x.envs[n].exposed
      /\ \A n \in lost \cap EnvNames(s) : u \in x.envs[n].exposed
  BY <1>1, <1>4, ExposeEffect DEF x
<1>6. t = [x EXCEPT !.machines[u] = m]
  BY <1>1, <1>3, <1>5, StateFields DEF State
<1> HIDE DEF m, t
<1>7. /\ t \in State /\ t.envs = x.envs /\ t.members = s.members /\ t.groups = s.groups
      /\ t.signerSeqs = s.signerSeqs
      /\ t.machines = [s.machines EXCEPT ![u] = m]
  BY <1>1, <1>2, <1>5, <1>6, StateFields DEF State
<1>8. /\ \A v \in Machine \ {u} : t.machines[v] = s.machines[v]
      /\ t.machines[u] = m
      /\ EnvNames(t) = EnvNames(s)
  BY <1>1, <1>5, <1>7, StateFields DEF EnvNames
<1>9. ASSUME NEW h \in Holder \ {u} PROVE Access(t, h) = Access(s, h)
  <2>1. /\ h \in Person => t.members[h] = s.members[h]
        /\ h \in Machine => t.machines[h] = s.machines[h]
        /\ h \in Group => t.groups[h] = s.groups[h]
    BY <1>7, <1>8
  <2> QED
    BY <1>8, <2>1, SameEntry
<1>10. Access(t, u) = {}
  BY <1>1, <1>2, <1>8, AccessOf
<1>11. \A h \in Holder : \A n \in Access(s, h) \ Access(t, h) : h \in t.envs[n].exposed
  BY <1>4, <1>5, <1>7, <1>9 DEF RulesOK, AccessIsReal
<1>12. AccessIsReal(t)
  BY <1>8, <1>9, <1>10 DEF AccessIsReal, RulesOK
<1>13. KeysApart(t) /\ UnsetIsNew(t) /\ Keeps(s, t) /\ NoNewKeys(s, t)
  BY <1>5, <1>7, <1>11, SameKeys
<1>14. Admins(t) = Admins(s)
  BY <1>7 DEF Admins, Admin, Member
<1> QED
  BY <1>7, <1>12, <1>13, <1>14 DEF Good, RulesOK, t

\* applyArchive
LEMMA ArchiveEffect ==
    ASSUME NEW s, RulesOK(s), NEW l, l.type \in {"archive", "unarchive"}
    PROVE  Good(s, l, Apply(s, l))
<1> DEFINE t == Apply(s, l)
<1>1. PICK b \in BOOLEAN : t = [s EXCEPT !.archived = b]
  BY DEF Apply
<1> HIDE DEF t
<1>2. /\ t \in State /\ t.envs = s.envs /\ t.members = s.members /\ t.machines = s.machines
      /\ t.groups = s.groups /\ t.signerSeqs = s.signerSeqs
  BY <1>1 DEF RulesOK, State
<1>3. EnvNames(t) = EnvNames(s)
  BY <1>2 DEF EnvNames
<1>4. \A h \in Holder : Access(t, h) = Access(s, h)
  BY <1>2, <1>3, SameEntry
<1>5. AccessIsReal(t)
  BY <1>3, <1>4 DEF AccessIsReal, RulesOK
<1>6. KeysApart(t) /\ UnsetIsNew(t) /\ Keeps(s, t) /\ NoNewKeys(s, t)
  BY <1>2, <1>4, SameKeys
<1>7. Admins(t) = Admins(s)
  BY <1>2 DEF Admins, Admin, Member
<1> QED
  BY <1>2, <1>5, <1>6, <1>7 DEF Good, RulesOK, t

\* setEnv: a new key for one environment, which nobody is exposed with yet.
LEMMA EnvSetEffect ==
    ASSUME NEW s, RulesOK(s), NEW l, WellFormed(l), l.type = "env_set", ValidApply(s, l)
    PROVE  LET t == Apply(s, l)
           IN  /\ Good(s, l, t)
               /\ Cur(t) \cup Ret(t) \subseteq Cur(s) \cup Ret(s) \cup {l.b.key}
               /\ l.b.key \notin Cur(s) \cup Ret(s)
               /\ t.envs[l.b.env].key = l.b.key
               /\ t.members = s.members
<1> DEFINE n0 == l.b.env
           k0 == l.b.key
           v == [key |-> k0, since |-> l.time, exposed |-> {},
                 retired |-> IF s.envs[n0].key = NoKey THEN {}
                             ELSE s.envs[n0].retired \cup {s.envs[n0].key}]
           t == Apply(s, l)
<1>1. s \in State /\ n0 \in EnvName /\ k0 \in EnvKey /\ l.time \in Nat /\ ~UsedKey(s, k0)
  BY DEF RulesOK, WellFormed, BodyOK, ValidApply, ValidEnvSet
<1>2. v \in EnvState
  BY <1>1, EnvFields DEF EnvState
<1>3. t = [s EXCEPT !.envs[n0] = v]
  BY <1>1, StateFields DEF Apply, SetEnv
<1>4. /\ v.key = k0 /\ v.exposed = {}
      /\ v.retired = s.envs[n0].retired \cup ({s.envs[n0].key} \ {NoKey})
  BY <1>1 DEF RulesOK, UnsetIsNew
<1> HIDE DEF v, n0, k0, t
<1>5. /\ t \in State /\ t.members = s.members /\ t.machines = s.machines /\ t.groups = s.groups
      /\ t.signerSeqs = s.signerSeqs
      /\ t.envs = [s.envs EXCEPT ![n0] = v]
  BY <1>1, <1>2, <1>3, StateFields DEF State
<1>6. t.envs[n0] = v /\ \A n \in EnvName \ {n0} : t.envs[n] = s.envs[n]
  BY <1>1, <1>5, StateFields
<1>7. k0 # NoKey /\ \A n \in EnvName : k0 # s.envs[n].key /\ k0 \notin s.envs[n].retired
  BY <1>1, NoKeyAssumption DEF UsedKey
<1>8. EnvNames(t) = EnvNames(s) \cup {n0}
  BY <1>1, <1>4, <1>6, <1>7 DEF EnvNames
<1>9. \A n \in EnvName : s.envs[n].retired \subseteq t.envs[n].retired
  BY <1>4, <1>6
<1>10. Ret(s) \subseteq Ret(t)
  BY <1>9 DEF Ret
<1>11. Cur(s) \subseteq Cur(t) \cup Ret(t)
  <2> SUFFICES ASSUME NEW n \in EnvNames(s)
               PROVE  s.envs[n].key \in Cur(t) \cup Ret(t)
    BY DEF Cur
  <2>1. n \in EnvName /\ s.envs[n].key # NoKey
    BY DEF EnvNames
  <2>2. CASE n = n0
    BY <1>1, <1>4, <1>6, <2>1, <2>2 DEF Ret
  <2>3. CASE n # n0
    BY <1>6, <1>8, <2>1, <2>3 DEF Cur
  <2> QED
    BY <2>2, <2>3
<1>12. Cur(t) \cup Ret(t) \subseteq Cur(s) \cup Ret(s) \cup {k0}
  <2>1. Cur(t) \subseteq Cur(s) \cup {k0}
    BY <1>4, <1>6, <1>8 DEF Cur, EnvNames
  <2>2. ASSUME NEW n \in EnvName
        PROVE  t.envs[n].retired \subseteq Cur(s) \cup Ret(s)
    BY <1>1, <1>4, <1>6 DEF Cur, Ret, EnvNames
  <2> QED
    BY <2>1, <2>2 DEF Ret
<1>13. k0 \notin Cur(s) \cup Ret(s)
  BY <1>7 DEF Cur, Ret, EnvNames
<1>14. KeysApart(t)
  <2> SUFFICES ASSUME NEW n \in EnvName, NEW m \in EnvName
               PROVE  /\ t.envs[n].key \notin t.envs[m].retired
                      /\ n # m => /\ t.envs[n].retired \cap t.envs[m].retired = {}
                                  /\ t.envs[n].key = t.envs[m].key => t.envs[n].key = NoKey
    BY DEF KeysApart
  <2>1. /\ s.envs[n].key \notin s.envs[m].retired /\ s.envs[m].key \notin s.envs[n].retired
        /\ n # m => /\ s.envs[n].retired \cap s.envs[m].retired = {}
                    /\ s.envs[n].key = s.envs[m].key => s.envs[n].key = NoKey
    BY DEF RulesOK, KeysApart
  <2>2. NoKey \notin s.envs[m].retired /\ NoKey \notin s.envs[n].retired
    BY <1>1, EnvFields, NoKeyAssumption
  <2>3. CASE n = n0 /\ m = n0
    BY <1>4, <1>6, <1>7, <2>3
  <2>4. CASE n = n0 /\ m # n0
    BY <1>4, <1>6, <1>7, <2>1, <2>2, <2>4
  <2>5. CASE n # n0 /\ m = n0
    BY <1>4, <1>6, <1>7, <2>1, <2>2, <2>5
  <2>6. CASE n # n0 /\ m # n0
    BY <1>6, <2>1, <2>6
  <2> QED
    BY <2>3, <2>4, <2>5, <2>6
<1>15. UnsetIsNew(t)
  BY <1>4, <1>6, <1>7 DEF RulesOK, UnsetIsNew
<1>16. \A h \in Holder : Access(s, h) \subseteq Access(t, h) /\ Access(t, h) \subseteq EnvNames(t)
  <2> SUFFICES ASSUME NEW h \in Holder
               PROVE  Access(s, h) \subseteq Access(t, h) /\ Access(t, h) \subseteq EnvNames(t)
    OBVIOUS
  <2>1. Access(s, h) \subseteq EnvNames(t)
    BY <1>8 DEF RulesOK, AccessIsReal
  <2>2. CASE h \in Person
    <3>1. Access(t, h) = IF ~Member(t, h) THEN {} ELSE IF t.members[h].admin THEN EnvNames(t)
                         ELSE t.members[h].envs
      BY <2>2, AccessOf
    <3>2. Access(s, h) = IF ~Member(s, h) THEN {} ELSE IF s.members[h].admin THEN EnvNames(s)
                         ELSE s.members[h].envs
      BY <2>2, AccessOf
    <3> QED
      BY <1>5, <1>8, <2>1, <3>1, <3>2 DEF Member
  <2>3. CASE h \in Machine
    <3>1. Access(t, h) = Access(s, h)
      BY <1>5, <2>3, AccessOfMachine
    <3> QED
      BY <2>1, <3>1
  <2>4. CASE h \in Group
    <3>1. Access(t, h) = Access(s, h)
      <4>1. t.groups = s.groups
        BY <1>5
      <4> QED
        BY <2>4, <4>1, AccessOfGroup
    <3> QED
      BY <2>1, <3>1
  <2> QED
    BY <2>2, <2>3, <2>4 DEF Holder
<1>17. ASSUME NEW k \in Cur(s) \cap Cur(t), NEW h \in Sus(s, k) \cup (May(s, k) \ May(t, k))
       PROVE  h \in Sus(t, k)
  \* A key that stays in use is that of another environment.
  <2>1. k # k0 /\ k # NoKey
    BY <1>13 DEF Cur, EnvNames
  <2>2. ASSUME NEW n \in EnvName, s.envs[n].key = k
        PROVE  n # n0
    <3>1. PICK m \in EnvNames(t) : t.envs[m].key = k
      BY DEF Cur
    <3>2. m \in EnvName /\ m # n0 /\ s.envs[m].key = k
      BY <1>4, <1>6, <2>1, <3>1 DEF EnvNames
    <3> QED
      BY <2>1, <2>2, <3>2 DEF RulesOK, KeysApart
  <2>3. CASE h \in Sus(s, k)
    <3>1. PICK n \in EnvName : s.envs[n].key = k /\ h \in s.envs[n].exposed
      BY <2>3 DEF Sus
    <3> QED
      BY <1>6, <2>2, <2>3, <3>1 DEF Sus
  <2>4. CASE h \in May(s, k) \ May(t, k)
    <3>1. h \in Holder
      BY <2>4 DEF May
    <3>2. PICK n \in Access(s, h) : s.envs[n].key = k
      BY <2>4 DEF May
    <3>3. n \in EnvName
      BY <3>1, <3>2 DEF RulesOK, AccessIsReal, EnvNames
    <3>4. n \in Access(t, h) /\ t.envs[n].key = k
      BY <1>6, <1>16, <2>2, <3>1, <3>2, <3>3
    <3> QED
      BY <2>4, <3>1, <3>4 DEF May
  <2> QED
    BY <2>3, <2>4
<1>18. Admins(t) = Admins(s)
  BY <1>5 DEF Admins, Admin, Member
<1>19. Keeps(s, t)
  BY <1>10, <1>11, <1>17 DEF Keeps
<1>20. AccessIsReal(t)
  BY <1>16 DEF AccessIsReal
<1> QED
  BY <1>4, <1>5, <1>6, <1>12, <1>13, <1>14, <1>15, <1>18, <1>19, <1>20
     DEF Good, RulesOK, t, n0, k0

\* renameEnv: the environment has another name, and nothing else changes.
LEMMA EnvRenameEffect ==
    ASSUME NEW s, RulesOK(s), NEW l, WellFormed(l), l.type = "env_rename", ValidApply(s, l)
    PROVE  Good(s, l, Apply(s, l))
<1> DEFINE old == l.b.old
           new == l.b.new
           t == Apply(s, l)
           name(n) == IF n = old THEN new ELSE n
           envs == [s.envs EXCEPT ![new] = s.envs[old], ![old] = NoEnvState]
           members == [u \in Person |-> [s.members[u] EXCEPT !.envs = RenamedEnvs(s, u, old, new)]]
           machines == [m \in Machine |-> [s.machines[m] EXCEPT !.envs = RenamedEnvs(s, m, old, new)]]
           groups == [g \in Group |-> [s.groups[g] EXCEPT !.envs = RenamedEnvs(s, g, old, new)]]
           renames == [n \in EnvName |-> IF n = old \/ s.renames[n] = old THEN new ELSE s.renames[n]]
<1>1. /\ s \in State /\ old \in EnvName /\ new \in EnvName
      /\ s.envs[old].key # NoKey /\ s.envs[new].key = NoKey /\ old # new
  BY DEF RulesOK, WellFormed, BodyOK, ValidApply, ValidEnvRename, EnvNames
<1>2. /\ \A u \in Person : RenamedEnvs(s, u, old, new) = {name(n) : n \in s.members[u].envs}
      /\ \A m \in Machine : RenamedEnvs(s, m, old, new) = {name(n) : n \in s.machines[m].envs}
      /\ \A g \in Group : RenamedEnvs(s, g, old, new) = {name(n) : n \in s.groups[g].envs}
  BY HoldersAssumption DEF RenamedEnvs
<1>3. t = [s EXCEPT !.envs = envs, !.members = members, !.machines = machines,
                    !.groups = groups, !.renames = renames]
  BY DEF Apply, ApplyEnvRename
<1> HIDE DEF old, new, t
<1>4. envs \in [EnvName -> EnvState]
  <2>1. NoEnvState \in EnvState
    BY DEF NoEnvState, EnvState
  <2> QED
    BY <1>1, <2>1, EnvFields, StateFields
<1>5. \A n \in EnvName : envs[n] = IF n = old THEN NoEnvState
                                    ELSE IF n = new THEN s.envs[old] ELSE s.envs[n]
  BY <1>1, StateFields
<1>6. members \in [Person -> MemberState]
      /\ \A u \in Person : /\ members[u].envs = {name(n) : n \in s.members[u].envs}
                           /\ members[u].status = s.members[u].status
                           /\ members[u].admin = s.members[u].admin
  <2> SUFFICES ASSUME NEW u \in Person
               PROVE  /\ [s.members[u] EXCEPT !.envs = RenamedEnvs(s, u, old, new)] \in MemberState
                      /\ members[u].envs = {name(n) : n \in s.members[u].envs}
                      /\ members[u].status = s.members[u].status
                      /\ members[u].admin = s.members[u].admin
    OBVIOUS
  <2> DEFINE e == RenamedEnvs(s, u, old, new)
  <2>1. e = {name(n) : n \in s.members[u].envs}
    BY <1>2
  <2>2. s.members[u] \in MemberState /\ s.members[u].envs \in SUBSET EnvName
    BY <1>1, HolderFields
  <2>3. e \in SUBSET EnvName
    BY <1>1, <2>1, <2>2
  <2> HIDE DEF e
  <2> QED
    BY <2>1, <2>2, <2>3 DEF MemberState, e
<1>7. machines \in [Machine -> MachineState]
      /\ \A m \in Machine : /\ machines[m].envs = {name(n) : n \in s.machines[m].envs}
                            /\ machines[m].status = s.machines[m].status
  <2> SUFFICES ASSUME NEW m \in Machine
               PROVE  /\ [s.machines[m] EXCEPT !.envs = RenamedEnvs(s, m, old, new)] \in MachineState
                      /\ machines[m].envs = {name(n) : n \in s.machines[m].envs}
                      /\ machines[m].status = s.machines[m].status
    OBVIOUS
  <2> DEFINE e == RenamedEnvs(s, m, old, new)
  <2>1. e = {name(n) : n \in s.machines[m].envs}
    BY <1>2
  <2>2. s.machines[m] \in MachineState /\ s.machines[m].envs \in SUBSET EnvName
    BY <1>1, HolderFields
  <2>3. e \in SUBSET EnvName
    BY <1>1, <2>1, <2>2
  <2> HIDE DEF e
  <2> QED
    BY <2>1, <2>2, <2>3 DEF MachineState, e
<1>8. groups \in [Group -> GroupState]
      /\ \A g \in Group : /\ groups[g].envs = {name(n) : n \in s.groups[g].envs}
                          /\ groups[g].status = s.groups[g].status
  <2> SUFFICES ASSUME NEW g \in Group
               PROVE  /\ [s.groups[g] EXCEPT !.envs = RenamedEnvs(s, g, old, new)] \in GroupState
                      /\ groups[g].envs = {name(n) : n \in s.groups[g].envs}
                      /\ groups[g].status = s.groups[g].status
    OBVIOUS
  <2> DEFINE e == RenamedEnvs(s, g, old, new)
  <2>1. e = {name(n) : n \in s.groups[g].envs}
    BY <1>2
  <2>2. s.groups[g] \in GroupState /\ s.groups[g].envs \in SUBSET EnvName
    BY <1>1, HolderFields
  <2>3. e \in SUBSET EnvName
    BY <1>1, <2>1, <2>2
  <2> HIDE DEF e
  <2> QED
    BY <2>1, <2>2, <2>3 DEF GroupState, e
<1>9. renames \in [EnvName -> EnvName \cup {NoEnv}]
  BY <1>1, StateFields
<1> HIDE DEF envs, members, machines, groups, renames
<1>10. /\ t \in State /\ t.envs = envs /\ t.members = members /\ t.machines = machines
       /\ t.groups = groups /\ t.signerSeqs = s.signerSeqs
  BY <1>1, <1>3, <1>4, <1>6, <1>7, <1>8, <1>9 DEF State
<1>11. /\ EnvNames(t) = {name(n) : n \in EnvNames(s)}
       /\ \A n \in EnvNames(s) : name(n) \in EnvName /\ t.envs[name(n)] = s.envs[n]
       /\ \A n \in EnvName : t.envs[n].key # NoKey =>
            \E m \in EnvNames(s) : n = name(m) /\ t.envs[n] = s.envs[m]
       /\ \A n \in EnvName : t.envs[n].key = NoKey => t.envs[n].retired = {}
  <2>1. NoEnvState.key = NoKey /\ NoEnvState.retired = {}
    BY DEF NoEnvState
  <2>2. \A n \in EnvNames(s) : n # new /\ name(n) \in EnvName /\ t.envs[name(n)] = s.envs[n]
    BY <1>1, <1>5, <1>10 DEF EnvNames
  <2>3. \A n \in EnvName : t.envs[n].key # NoKey =>
            \E m \in EnvNames(s) : n = name(m) /\ t.envs[n] = s.envs[m]
    <3> SUFFICES ASSUME NEW n \in EnvName, t.envs[n].key # NoKey
                 PROVE  \E m \in EnvNames(s) : n = name(m) /\ t.envs[n] = s.envs[m]
      OBVIOUS
    <3>1. CASE n = old
      BY <1>5, <1>10, <2>1, <3>1
    <3>2. CASE n = new
      <4>1. old \in EnvNames(s) /\ n = name(old) /\ t.envs[n] = s.envs[old]
        BY <1>1, <1>5, <1>10, <3>2 DEF EnvNames
      <4> QED
        BY <4>1
    <3>3. CASE n # old /\ n # new
      <4>1. n \in EnvNames(s) /\ n = name(n) /\ t.envs[n] = s.envs[n]
        BY <1>5, <1>10, <3>3 DEF EnvNames
      <4> QED
        BY <4>1
    <3> QED
      BY <3>1, <3>2, <3>3
  <2>4. \A n \in EnvName : t.envs[n].key = NoKey => t.envs[n].retired = {}
    BY <1>1, <1>5, <1>10, <2>1 DEF RulesOK, UnsetIsNew
  <2> QED
    BY <2>2, <2>3, <2>4 DEF EnvNames
<1>12. \A n, m \in EnvNames(s) : name(n) = name(m) => n = m
  BY <1>1 DEF EnvNames
<1> HIDE DEF name
<1>13. Cur(t) = Cur(s) /\ Ret(t) = Ret(s)
  <2>1. Cur(t) = Cur(s)
    BY <1>11 DEF Cur
  <2>2. Ret(t) \subseteq Ret(s)
    <3> SUFFICES ASSUME NEW n \in EnvName, NEW k \in t.envs[n].retired
                 PROVE  k \in Ret(s)
      BY DEF Ret
    <3>1. PICK m \in EnvNames(s) : t.envs[n] = s.envs[m]
      BY <1>11
    <3> QED
      BY <3>1 DEF Ret, EnvNames
  <2>3. Ret(s) \subseteq Ret(t)
    <3> SUFFICES ASSUME NEW n \in EnvName, NEW k \in s.envs[n].retired
                 PROVE  k \in Ret(t)
      BY DEF Ret
    <3>1. n \in EnvNames(s)
      BY DEF RulesOK, UnsetIsNew, EnvNames
    <3> QED
      BY <1>11, <3>1 DEF Ret
  <2> QED
    BY <2>1, <2>2, <2>3
<1>14. KeysApart(t)
  <2> SUFFICES ASSUME NEW n \in EnvName, NEW m \in EnvName
               PROVE  /\ t.envs[n].key \notin t.envs[m].retired
                      /\ n # m => /\ t.envs[n].retired \cap t.envs[m].retired = {}
                                  /\ t.envs[n].key = t.envs[m].key => t.envs[n].key = NoKey
    BY DEF KeysApart
  <2>1. CASE t.envs[n].key = NoKey
    <3>1. t.envs[n].retired = {} /\ NoKey \notin t.envs[m].retired
      BY <1>10, <1>11, <2>1, EnvFields, NoKeyAssumption
    <3> QED
      BY <2>1, <3>1
  <2>2. CASE t.envs[m].key = NoKey
    <3>1. t.envs[m].retired = {}
      BY <1>11, <2>2
    <3> QED
      BY <2>2, <3>1
  <2>3. CASE t.envs[n].key # NoKey /\ t.envs[m].key # NoKey
    <3>1. PICK a \in EnvNames(s) : n = name(a) /\ t.envs[n] = s.envs[a]
      BY <1>11, <2>3
    <3>2. PICK b \in EnvNames(s) : m = name(b) /\ t.envs[m] = s.envs[b]
      BY <1>11, <2>3
    <3> QED
      BY <3>1, <3>2 DEF RulesOK, KeysApart, EnvNames
  <2> QED
    BY <2>1, <2>2, <2>3
<1>15. UnsetIsNew(t)
  BY <1>11 DEF UnsetIsNew
<1>16. \A h \in Holder : Access(t, h) = {name(n) : n \in Access(s, h)}
  <2> SUFFICES ASSUME NEW h \in Holder
               PROVE  Access(t, h) = {name(n) : n \in Access(s, h)}
    OBVIOUS
  <2>1. CASE h \in Person
    <3>1. Access(t, h) = IF ~Member(t, h) THEN {} ELSE IF t.members[h].admin THEN EnvNames(t)
                         ELSE t.members[h].envs
      BY <2>1, AccessOf
    <3>2. Access(s, h) = IF ~Member(s, h) THEN {} ELSE IF s.members[h].admin THEN EnvNames(s)
                         ELSE s.members[h].envs
      BY <2>1, AccessOf
    <3>3. /\ t.members[h].envs = {name(n) : n \in s.members[h].envs}
          /\ Member(t, h) = Member(s, h) /\ t.members[h].admin = s.members[h].admin
      BY <1>6, <1>10, <2>1 DEF Member, name
    <3> QED
      BY <1>11, <3>1, <3>2, <3>3
  <2>2. CASE h \in Machine
    <3>1. Access(t, h) = IF t.machines[h].status = "active" THEN t.machines[h].envs ELSE {}
      BY <2>2, AccessOfMachine
    <3>2. Access(s, h) = IF s.machines[h].status = "active" THEN s.machines[h].envs ELSE {}
      BY <2>2, AccessOfMachine
    <3>3. /\ t.machines[h].envs = {name(n) : n \in s.machines[h].envs}
          /\ t.machines[h].status = s.machines[h].status
      BY <1>7, <1>10, <2>2 DEF name
    <3> QED
      BY <3>1, <3>2, <3>3
  <2>3. CASE h \in Group
    <3>1. Access(t, h) = IF t.groups[h].status = "active" THEN t.groups[h].envs ELSE {}
      BY <2>3, AccessOfGroup
    <3>2. Access(s, h) = IF s.groups[h].status = "active" THEN s.groups[h].envs ELSE {}
      BY <2>3, AccessOfGroup
    <3>3. /\ t.groups[h].envs = {name(n) : n \in s.groups[h].envs}
          /\ t.groups[h].status = s.groups[h].status
      BY <1>8, <1>10, <2>3 DEF name
    <3> QED
      BY <3>1, <3>2, <3>3
  <2> QED
    BY <2>1, <2>2, <2>3 DEF Holder
<1>17. AccessIsReal(t)
  BY <1>11, <1>16 DEF RulesOK, AccessIsReal
<1>18. ASSUME NEW k \in Cur(s), NEW h \in Sus(s, k)
       PROVE  h \in Sus(t, k)
  <2>1. PICK n \in EnvName : s.envs[n].key = k /\ h \in s.envs[n].exposed
    BY <1>18 DEF Sus
  <2>2. n \in EnvNames(s)
    BY <1>18, <2>1 DEF Cur, EnvNames
  <2> QED
    BY <1>11, <1>18, <2>1, <2>2 DEF Sus
<1>19. \A k : May(s, k) \subseteq May(t, k)
  <2> SUFFICES ASSUME NEW k, NEW h \in Holder, NEW n \in Access(s, h), s.envs[n].key = k
               PROVE  h \in May(t, k)
    BY DEF May
  <2>1. n \in EnvNames(s)
    BY DEF RulesOK, AccessIsReal
  <2>2. name(n) \in Access(t, h) /\ t.envs[name(n)].key = k
    BY <1>11, <1>16, <2>1
  <2> QED
    BY <2>2 DEF May
<1>20. Keeps(s, t) /\ NoNewKeys(s, t)
  BY <1>13, <1>18, <1>19 DEF Keeps, NoNewKeys
<1>21. Admins(t) = Admins(s)
  BY <1>6, <1>10 DEF Admins, Admin, Member
<1> QED
  BY <1>10, <1>14, <1>15, <1>17, <1>20, <1>21 DEF Good, RulesOK, t

\* applyGroupSet
LEMMA GroupSetEffect ==
    ASSUME NEW s, RulesOK(s), NEW l, WellFormed(l), l.type = "group_set", ValidApply(s, l)
    PROVE  Good(s, l, Apply(s, l))
<1> DEFINE u == l.b.group
           old == s.groups[u]
           since == [n \in EnvName |->
                       IF n \notin l.b.envs THEN 0
                       ELSE IF n \in Access(s, u) THEN
                            IF old.since[n] = 0 THEN l.time ELSE old.since[n]
                       ELSE l.time]
           gone == l.b.envs = {}
           m == IF gone THEN [old EXCEPT !.status = "former"]
                ELSE [status |-> "active", root |-> l.b.root, envs |-> l.b.envs, since |-> since]
           lost == IF gone THEN old.envs ELSE Access(s, u) \ l.b.envs
           x == Expose(s, lost, u)
           t == Apply(s, l)
<1>1. /\ s \in State /\ u \in Group /\ old \in GroupState /\ u \in Holder
      /\ l.b.root \in Nat /\ l.time \in Nat
      /\ l.b.envs \in SUBSET EnvName /\ l.b.envs \subseteq EnvNames(s)
      /\ gone => old.status = "active"
  <2>1. s \in State /\ u \in Group /\ l.b.root \in Nat /\ l.time \in Nat
        /\ l.b.envs \in SUBSET EnvName
    BY DEF RulesOK, WellFormed, BodyOK
  <2>2. ValidGroupSet(s, l)
    BY DEF ValidApply
  <2> QED
    BY <2>1, <2>2, HolderFields DEF ValidGroupSet, CheckAccess, Holder
<1>2. Access(s, u) = IF old.status = "active" THEN old.envs ELSE {}
  BY <1>1, AccessOfGroup
<1>3. since \in [EnvName -> Nat]
  <2>1. old.since \in [EnvName -> Nat]
    BY <1>1 DEF GroupState
  <2> QED
    BY <1>1, <2>1
<1> HIDE DEF since
<1>4. m \in GroupState /\ (gone => m.status = "former")
      /\ (~gone => m.status = "active" /\ m.envs = l.b.envs)
  <2>1. CASE gone
    BY <1>1, <2>1 DEF GroupState
  <2>2. CASE ~gone
    BY <1>1, <1>3, <2>2 DEF GroupState
  <2> QED
    BY <2>1, <2>2
<1> HIDE DEF lost
<1> HIDE DEF x
<1>5. /\ x \in State /\ x.members = s.members /\ x.machines = s.machines /\ x.groups = s.groups
      /\ x.signerSeqs = s.signerSeqs /\ EnvNames(x) = EnvNames(s)
      /\ \A n \in EnvName : /\ x.envs[n].key = s.envs[n].key
                            /\ x.envs[n].retired = s.envs[n].retired
                            /\ s.envs[n].exposed \subseteq x.envs[n].exposed
      /\ \A n \in lost \cap EnvNames(s) : u \in x.envs[n].exposed
  BY <1>1, ExposeEffect DEF x
<1>6. t = [x EXCEPT !.groups[u] = m]
  <2>1. CASE gone
    <3>1. t = [x EXCEPT !.groups[u].status = "former"]
      BY <2>1 DEF Apply, ApplyGroupSet, x, lost
    <3> QED
      BY <1>1, <1>5, <2>1, <3>1, StateFields DEF State
  <2>2. CASE ~gone
    BY <2>2 DEF Apply, ApplyGroupSet, x, lost, since
  <2> QED
    BY <2>1, <2>2
<1> HIDE DEF m, t
<1>7. /\ t \in State /\ t.envs = x.envs /\ t.members = s.members /\ t.machines = s.machines
      /\ t.signerSeqs = s.signerSeqs
      /\ t.groups = [s.groups EXCEPT ![u] = m]
  BY <1>1, <1>4, <1>5, <1>6, StateFields DEF State
<1>8. /\ \A v \in Group \ {u} : t.groups[v] = s.groups[v]
      /\ t.groups[u] = m
      /\ EnvNames(t) = EnvNames(s)
  BY <1>1, <1>5, <1>7, StateFields DEF EnvNames
<1>9. ASSUME NEW h \in Holder \ {u} PROVE Access(t, h) = Access(s, h)
  <2>1. /\ h \in Person => t.members[h] = s.members[h]
        /\ h \in Machine => t.machines[h] = s.machines[h]
        /\ h \in Group => t.groups[h] = s.groups[h]
    BY <1>7, <1>8
  <2> QED
    BY <1>8, <2>1, SameEntry
<1>10. Access(t, u) = l.b.envs
  <2>1. Access(t, u) = IF m.status = "active" THEN m.envs ELSE {}
    BY <1>1, <1>8, AccessOfGroup
  <2> QED
    BY <1>4, <2>1
<1>11. \A h \in Holder : \A n \in Access(s, h) \ Access(t, h) : h \in t.envs[n].exposed
  <2>1. Access(s, u) \ Access(t, u) \subseteq lost
    BY <1>1, <1>2, <1>10 DEF lost
  <2> QED
    BY <1>1, <1>5, <1>7, <1>9, <2>1 DEF RulesOK, AccessIsReal
<1>12. AccessIsReal(t)
  BY <1>1, <1>8, <1>9, <1>10 DEF AccessIsReal, RulesOK
<1>13. KeysApart(t) /\ UnsetIsNew(t) /\ Keeps(s, t) /\ NoNewKeys(s, t)
  BY <1>5, <1>7, <1>11, SameKeys
<1>14. Admins(t) = Admins(s)
  BY <1>7 DEF Admins, Admin, Member
<1> QED
  BY <1>7, <1>12, <1>13, <1>14 DEF Good, RulesOK, t

\* What every link notes besides.
Booked(x, l) == [x EXCEPT !.seq = l.seq, !.last = l.time, !.signerSeqs[l.signer] = l.pos]

\* The position and the times of a link change none of this.
LEMMA Bookkeeping ==
    ASSUME NEW x, RulesOK(x), NEW l, WellFormed(l), NEW t,
           t = Booked(x, l)
    PROVE  /\ RulesOK(t)
           /\ t.envs = x.envs /\ t.members = x.members /\ t.machines = x.machines
           /\ t.groups = x.groups /\ t.seq = l.seq
           /\ t.signerSeqs = [x.signerSeqs EXCEPT ![l.signer] = l.pos]
           /\ Cur(t) = Cur(x) /\ Ret(t) = Ret(x) /\ Admins(t) = Admins(x)
           /\ EnvNames(t) = EnvNames(x)
           /\ \A h \in Holder : Access(t, h) = Access(x, h)
           /\ \A k : May(t, k) = May(x, k) /\ Sus(t, k) = Sus(x, k)
<1>1. x \in State /\ l.seq \in Nat /\ l.time \in Nat /\ l.signer \in Person /\ l.pos \in Nat
  BY DEF RulesOK, WellFormed
<1>2. /\ t \in State /\ t.seq = l.seq
      /\ t.envs = x.envs /\ t.members = x.members /\ t.machines = x.machines
      /\ t.groups = x.groups
      /\ t.signerSeqs = [x.signerSeqs EXCEPT ![l.signer] = l.pos]
  BY <1>1, StateFields DEF State, Booked
<1>3. EnvNames(t) = EnvNames(x)
  BY <1>2 DEF EnvNames
<1>4. \A h \in Holder : Access(t, h) = Access(x, h)
  <2> SUFFICES ASSUME NEW h \in Holder PROVE Access(t, h) = Access(x, h)
    OBVIOUS
  <2> QED
    BY <1>2, <1>3, SameEntry
<1>5. Cur(t) = Cur(x) /\ Ret(t) = Ret(x) /\ Admins(t) = Admins(x)
  BY <1>2, <1>3 DEF Cur, Ret, Admins, Admin, Member
<1>6. \A k : May(t, k) = May(x, k) /\ Sus(t, k) = Sus(x, k)
  BY <1>2, <1>4 DEF May, Sus
<1>7. RulesOK(t)
  BY <1>2, <1>3, <1>4 DEF RulesOK, KeysApart, UnsetIsNew, AccessIsReal
<1> QED
  BY <1>2, <1>3, <1>4, <1>5, <1>6, <1>7

\* What a link that is not the first makes of s.
LinkOK(s, cs, l, t) ==
    /\ RulesOK(t) /\ Keeps(s, t)
    /\ Admins(s) # {} => Admins(t) # {}
    /\ l.type # "env_set" => NoNewKeys(s, t)
    /\ l.type = "env_set" =>
         /\ Cur(t) \cup Ret(t) \subseteq Cur(s) \cup Ret(s) \cup {l.b.key}
         /\ l.b.key \notin Cur(s) \cup Ret(s)
         /\ l.b.env \in EnvNames(t) /\ t.envs[l.b.env].key = l.b.key
         /\ Admin(t, l.signer)
    /\ t.signerSeqs = [s.signerSeqs EXCEPT ![l.signer] = l.pos]
    /\ s.signerSeqs[l.signer] <= l.pos /\ l.pos \in DOMAIN cs[l.signer]

\* One valid link that is not the first.
LEMMA LinkEffect ==
    ASSUME NEW s, RulesOK(s), NEW cs, NEW l, WellFormed(l), l.type # "init",
           ValidNext(s, cs, l), NEW t, t = NextState(s, l)
    PROVE  LinkOK(s, cs, l, t)
<1> DEFINE x == Apply(s, l)
<1>1. ValidApply(s, l) /\ CheckSigner(s, cs, l)
  BY DEF ValidNext
<1>2. s.signerSeqs[l.signer] <= l.pos /\ l.pos \in DOMAIN cs[l.signer]
  BY <1>1 DEF CheckSigner, PositionMovesOn, SignedByUserKey, SignedByDelegate, WellFormed,
              RulesOK, State
<1>3. Good(s, l, x)
  <2>1. l.type \in Types \ {"init"}
    BY DEF WellFormed
  <2>2. CASE l.type = "env_set"
    BY <1>1, <2>2, EnvSetEffect
  <2>3. CASE l.type = "member_add"
    BY <1>1, <2>3, MemberAddEffect
  <2>4. CASE l.type = "member_update"
    BY <1>1, <2>4, MemberUpdateEffect
  <2>5. CASE l.type = "member_remove"
    BY <1>1, <2>5, MemberRemoveEffect
  <2>6. CASE l.type = "env_rename"
    BY <1>1, <2>6, EnvRenameEffect
  <2>7. CASE l.type = "machine_add"
    BY <1>1, <2>7, MachineAddEffect
  <2>8. CASE l.type = "machine_remove"
    BY <1>1, <2>8, MachineRemoveEffect
  <2>9. CASE l.type = "group_set"
    BY <1>1, <2>9, GroupSetEffect
  <2>10. CASE l.type \in {"archive", "unarchive"}
    BY <1>1, <2>10, ArchiveEffect
  <2> QED
    BY <2>1, <2>2, <2>3, <2>4, <2>5, <2>6, <2>7, <2>8, <2>9, <2>10 DEF Types
<1>4. l.type = "env_set" =>
        /\ Cur(x) \cup Ret(x) \subseteq Cur(s) \cup Ret(s) \cup {l.b.key}
        /\ l.b.key \notin Cur(s) \cup Ret(s)
        /\ l.b.env \in EnvNames(x) /\ x.envs[l.b.env].key = l.b.key
        /\ Admin(x, l.signer)
  <2> SUFFICES ASSUME l.type = "env_set"
               PROVE  /\ Cur(x) \cup Ret(x) \subseteq Cur(s) \cup Ret(s) \cup {l.b.key}
                      /\ l.b.key \notin Cur(s) \cup Ret(s)
                      /\ l.b.env \in EnvNames(x) /\ x.envs[l.b.env].key = l.b.key
                      /\ Admin(x, l.signer)
    OBVIOUS
  <2>1. /\ Cur(x) \cup Ret(x) \subseteq Cur(s) \cup Ret(s) \cup {l.b.key}
        /\ l.b.key \notin Cur(s) \cup Ret(s)
        /\ x.envs[l.b.env].key = l.b.key
        /\ x.members = s.members
    BY <1>1, EnvSetEffect
  <2>2. Admin(s, l.signer)
    BY <1>1 DEF ValidApply
  <2>3. l.b.env \in EnvName /\ l.b.key # NoKey
    BY NoKeyAssumption DEF WellFormed, BodyOK
  <2> QED
    BY <2>1, <2>2, <2>3 DEF Admin, Member, EnvNames
<1>5. t = Booked(x, l)
  BY DEF NextState, Booked
<1> HIDE DEF x
<1>6. /\ RulesOK(t) /\ t.envs = x.envs /\ t.members = x.members
      /\ t.signerSeqs = [x.signerSeqs EXCEPT ![l.signer] = l.pos]
      /\ Cur(t) = Cur(x) /\ Ret(t) = Ret(x) /\ Admins(t) = Admins(x)
      /\ EnvNames(t) = EnvNames(x)
      /\ \A k : May(t, k) = May(x, k) /\ Sus(t, k) = Sus(x, k)
  <2>1. RulesOK(x)
    BY <1>3 DEF Good
  <2> QED
    BY <1>5, <2>1, Bookkeeping
<1>7. Keeps(s, t)
  BY <1>3, <1>6 DEF Good, Keeps
<1>8. l.type = "env_set" => Admin(t, l.signer)
  BY <1>4, <1>6 DEF Admin, Member
<1> QED
  BY <1>2, <1>3, <1>4, <1>6, <1>7, <1>8 DEF Good, NoNewKeys, LinkOK

\* A project that has not begun has nothing.
LEMMA NewFields ==
    /\ New \in State
    /\ ~New.archived /\ New.signerSeqs = [u \in Person |-> 0]
    /\ \A u \in Person : New.members[u].status = "none"
    /\ \A m \in Machine : New.machines[m].status = "none" /\ New.machines[m].envs = {}
    /\ \A g \in Group : New.groups[g].status = "none"
    /\ \A n \in EnvName : New.envs[n] = NoEnvState
<1>1. NoEnvState \in EnvState
  BY DEF NoEnvState, EnvState
<1>2. [status |-> "none", admin |-> FALSE, envs |-> {}, verified |-> "account-key"] \in MemberState
  BY DEF MemberState, Verification
<1>3. [status |-> "none", envs |-> {}] \in MachineState
  BY DEF MachineState
<1>4. [status |-> "none", root |-> 0, envs |-> {}, since |-> [n \in EnvName |-> 0]] \in GroupState
  BY DEF GroupState
<1>5. New \in State
  BY <1>1, <1>2, <1>3, <1>4 DEF New, State
<1> QED
  BY <1>5 DEF New

\* The first link makes a project with one admin and the keys it names.
LEMMA InitEffect ==
    ASSUME NEW l, WellFormed(l), l.type = "init", ValidInit(New, l)
    PROVE  LET t == NextState(New, l)
           IN  /\ StateOK(t) /\ Ret(t) = {} /\ t.seq = l.seq /\ t.last = l.time /\ ~t.archived
               /\ \A n \in EnvName : t.envs[n].key = l.b.envs[n]
               /\ \A u \in Person : Member(t, u) <=> u = l.b.creator
               /\ Admin(t, l.b.creator)
               /\ t.signerSeqs = [[u \in Person |-> 0] EXCEPT ![l.signer] = l.pos]
<1> DEFINE u0 == l.b.creator
           first == [status |-> "active", admin |-> TRUE, envs |-> {}, verified |-> "account-key"]
           env(n) == IF l.b.envs[n] = NoKey THEN New.envs[n]
                     ELSE [NoEnvState EXCEPT !.key = l.b.envs[n], !.since = l.time]
           envs == [n \in EnvName |-> env(n)]
           x == Apply(New, l)
           t == NextState(New, l)
<1>1. /\ u0 \in Person /\ l.b.envs \in [EnvName -> EnvKey \cup {NoKey}] /\ l.time \in Nat
      /\ \A n, m \in EnvName : n # m /\ l.b.envs[n] # NoKey => l.b.envs[n] # l.b.envs[m]
  BY DEF WellFormed, BodyOK, ValidInit
<1>2. \A n \in EnvName : /\ env(n) \in EnvState /\ env(n).key = l.b.envs[n]
                         /\ env(n).retired = {}
  <2> SUFFICES ASSUME NEW n \in EnvName
               PROVE  env(n) \in EnvState /\ env(n).key = l.b.envs[n] /\ env(n).retired = {}
    OBVIOUS
  <2>1. CASE l.b.envs[n] = NoKey
    BY <2>1, NewFields DEF EnvState, NoEnvState
  <2>2. CASE l.b.envs[n] # NoKey
    BY <1>1, <2>2 DEF EnvState, NoEnvState
  <2> QED
    BY <2>1, <2>2
<1>3. first \in MemberState /\ first.status = "active" /\ first.admin
  BY DEF MemberState, Verification
<1>4. x = [New EXCEPT !.envs = envs, !.members[u0] = first]
  BY DEF Apply, ApplyInit
<1> HIDE DEF u0, first, env, x
<1>5. /\ x \in State /\ x.envs = envs /\ x.machines = New.machines /\ x.groups = New.groups
      /\ x.signerSeqs = New.signerSeqs /\ x.archived = New.archived
      /\ x.members = [New.members EXCEPT ![u0] = first]
  BY <1>1, <1>2, <1>3, <1>4, NewFields, StateFields DEF State
<1>6. /\ \A v \in Person \ {u0} : x.members[v] = New.members[v]
      /\ x.members[u0] = first
  BY <1>1, <1>5, NewFields, StateFields
<1>7. \A n \in EnvName : x.envs[n].key = l.b.envs[n] /\ x.envs[n].retired = {}
  BY <1>2, <1>5
<1>8. Ret(x) = {} /\ KeysApart(x) /\ UnsetIsNew(x)
  BY <1>1, <1>7 DEF Ret, KeysApart, UnsetIsNew
<1>9. \A v \in Person : Member(x, v) <=> v = u0
  BY <1>3, <1>6, NewFields DEF Member
<1>10. ASSUME NEW h \in Holder PROVE Access(x, h) \subseteq EnvNames(x)
  <2>1. CASE h \in Person
    BY <1>3, <1>6, <1>9, <2>1, AccessOf
  <2>2. CASE h \in Machine
    BY <1>5, <2>2, NewFields, AccessOfMachine
  <2>3. CASE h \in Group
    BY <1>5, <2>3, NewFields, AccessOfGroup
  <2> QED
    BY <2>1, <2>2, <2>3 DEF Holder
<1>11. Admin(x, u0)
  BY <1>1, <1>3, <1>6, <1>9 DEF Admin
<1>12. RulesOK(x)
  BY <1>5, <1>8, <1>10 DEF RulesOK, AccessIsReal
<1>13. t = Booked(x, l)
  BY DEF NextState, x, Booked
<1> HIDE DEF t
<1>14. /\ RulesOK(t) /\ t.envs = x.envs /\ t.members = x.members /\ t.seq = l.seq
       /\ t.signerSeqs = [x.signerSeqs EXCEPT ![l.signer] = l.pos]
       /\ Ret(t) = Ret(x)
  BY <1>12, <1>13, Bookkeeping
<1>15. t.archived = x.archived /\ t.last = l.time
  BY <1>5, <1>13 DEF State, Booked
<1>16. Admin(t, u0) /\ (\A v \in Person : Member(t, v) <=> v = u0)
  BY <1>9, <1>11, <1>14 DEF Admin, Member
<1>17. StateOK(t)
  BY <1>1, <1>14, <1>16 DEF StateOK, Admins
<1> QED
  BY <1>5, <1>7, <1>8, <1>14, <1>15, <1>16, <1>17, NewFields DEF t, u0

=============================================================================
