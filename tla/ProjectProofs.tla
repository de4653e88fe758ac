--------------------------- MODULE ProjectProofs ----------------------------
(***************************************************************************)
(* Machine-checked proofs about Project, for any people, machines,         *)
(* environments and keys and any bounds: that it keeps the promise of      *)
(* KeySharing, that no key comes back, that old user keys stay out, that   *)
(* there is always an admin, and that an interrupted rename loses nothing. *)
(*                                                                         *)
(* The invariant adds what the chain does not know: a key that is not in   *)
(* the chain is in one person's keyring only, who made it, so that nobody  *)
(* else has it when it is published.  RenameOK adds where a rename stands  *)
(* in the vault, the keyring and the checkout.                             *)
(***************************************************************************)
EXTENDS Project, ProjectRulesProofs, WellFoundedInduction

DeviceState == [cur: [EnvName -> EnvKey \cup {NoKey}], kept: SUBSET EnvKey]

\* Each person's chain: its user key versions only grow.
ChainsGrow ==
    /\ chains \in [Person -> Seq([ver: Nat, delegates: SUBSET Delegate])]
    /\ \A u \in Person :
         /\ Len(chains[u]) > 0
         /\ \A p, q \in DOMAIN chains[u] : p <= q => chains[u][p].ver <= chains[u][q].ver

SignersKnown == \A u \in Person : st.signerSeqs[u] <= Len(chains[u])

ChainsOK == ChainsGrow /\ SignersKnown

\* The keyrings and who was given what.
KeysOK ==
    /\ device \in [Person -> DeviceState]
    /\ given \in [Reader -> SUBSET EnvKey]
    /\ \A u \in Person : \A n \in EnvName : device[u].cur[n] \in device[u].kept \cup {NoKey}

Published == Cur(st) \cup Ret(st)

\* A key is published from the keyring of the only one who was given it.
KeysFromOne ==
    /\ \A k \in Published : \E u \in Person : k \in device[u].kept
    /\ \A h \in Reader : \A k \in given[h] \ Published : h \in Person /\ k \in device[h].kept
    /\ \A u, v \in Person : \A k \in EnvKey \ Published :
         k \in device[u].kept /\ k \in device[v].kept => u = v

CheckoutOK == checkout.run = "here" => checkout.journal \in Journal

Inv == StateOK(st) /\ ChainsOK /\ KeysOK /\ KeysFromOne /\ CheckoutOK

-----------------------------------------------------------------------------
(* What every step does to the keys and to the positions of the signers.   *)

\* Whoever is given a key makes it or may have it.
Handed ==
    \A h \in Reader :
        /\ given[h] \subseteq given'[h]
        /\ \A k \in given'[h] \ given[h] :
             k \notin Published' \/ (k \in Cur(st') /\ h \in May(st', k))

\* A key comes into use only if all who were given it may have it.
Admitted ==
    \A k \in Published' \ Published :
        k \in Cur(st') /\ \A h \in Reader : k \in given[h] => h \in May(st', k)

SignersMoveOn == \A u \in Person : SignedWith(u)' >= SignedWith(u)

LEMMA KeysTyped ==
    ASSUME NEW s, RulesOK(s)
    PROVE  /\ Cur(s) \in SUBSET EnvKey /\ Ret(s) \in SUBSET EnvKey
           /\ Cur(s) \cap Ret(s) = {}
<1>1. \A n \in EnvName : s.envs[n].key \in EnvKey \cup {NoKey} /\ s.envs[n].retired \in SUBSET EnvKey
  BY EnvFields DEF RulesOK
<1> QED
  BY <1>1 DEF RulesOK, Cur, Ret, EnvNames, KeysApart

LEMMA StepShares ==
    ASSUME StateOK(st), StateOK(st'), Keeps(st, st'), Handed, Admitted,
           given \in [Reader -> SUBSET EnvKey], given' \in [Reader -> SUBSET EnvKey]
    PROVE  Sharing!Step
<1> DEFINE may == [k \in EnvKey |-> {h \in Reader : \E n \in EnvName : Key(n) = k /\ n \in Access(st, h)}]
           suspects == [k \in EnvKey |-> {h \in Reader : \E n \in EnvName : Key(n) = k /\ h \in st.envs[n].exposed}]
           has == [h \in Reader |-> given[h] \cap (Current \cup Retired)]
<1>1. Current = Cur(st) /\ Current' = Cur(st')
  BY DEF Current, Key, Cur, EnvNames
<1>2. Retired = Ret(st) /\ Retired' = Ret(st')
  BY DEF Retired, Ret
<1>3. /\ Current' \in SUBSET EnvKey /\ Retired' \in SUBSET EnvKey
      /\ Current' \cap Retired' = {} /\ Current \in SUBSET EnvKey
  BY <1>1, <1>2, KeysTyped DEF StateOK
<1>4. Reader \subseteq Holder
  BY DEF Reader, Holder
<1>5. \A k \in EnvKey : /\ may[k] = May(st, k) \cap Reader
                        /\ may'[k] = May(st', k) \cap Reader
                        /\ suspects[k] = Sus(st, k) \cap Reader
                        /\ suspects'[k] = Sus(st', k) \cap Reader
  BY <1>4, AccessTyped DEF StateOK, RulesOK, May, Sus, Key
<1>6. \A h \in Reader : has[h] = given[h] \cap Published /\ has'[h] = given'[h] \cap Published'
  BY <1>1, <1>2 DEF Published
<1>7. /\ Current' \in SUBSET EnvKey /\ Retired' \in SUBSET EnvKey
      /\ may' \in [EnvKey -> SUBSET Reader] /\ suspects' \in [EnvKey -> SUBSET Reader]
      /\ has' \in [Reader -> SUBSET EnvKey]
  BY <1>3, <1>6
<1>8. /\ Current' \cap Retired' = {} /\ Current \cup Retired \subseteq Current' \cup Retired'
      /\ Retired \subseteq Retired'
  BY <1>1, <1>2, <1>3 DEF Keeps
<1> HIDE DEF may, suspects, has
<1>9. \A h \in Reader :
        /\ has[h] \subseteq has'[h]
        /\ \A k \in has'[h] \ has[h] : k \in Current' /\ h \in may'[k]
  BY <1>1, <1>2, <1>3, <1>5, <1>6, <1>8 DEF Handed, Admitted, Published
<1>10. \A k \in Current \cap Current' : suspects[k] \cup (may[k] \ may'[k]) \subseteq suspects'[k]
  BY <1>1, <1>3, <1>5 DEF Keeps
<1> QED
  BY <1>7, <1>8, <1>9, <1>10
     DEF Sharing!Step, Sharing!TypeOK, Sharing!Replace, Sharing!Give, Sharing!Suspect,
         may, suspects, has

-----------------------------------------------------------------------------
(* The parts of a step that several actions share.                         *)

\* Grants carry keys in use to those who may have them.
LEMMA GiveEffect ==
    ASSUME KeysOK, RulesOK(st'), NEW new,
           \A g \in new : CheckGrant(st', g),
           given' = [h \in Reader |-> given[h] \cup
                        UNION {{e.key : e \in g.envs} : g \in {g \in new : g.to = h}}]
    PROVE  /\ given' \in [Reader -> SUBSET EnvKey]
           /\ \A h \in Reader : /\ given[h] \subseteq given'[h]
                                /\ \A k \in given'[h] \ given[h] : k \in Cur(st') /\ h \in May(st', k)
<1>1. ASSUME NEW h \in Reader, NEW k \in given'[h] \ given[h]
      PROVE  k \in EnvKey /\ k \in Cur(st') /\ h \in May(st', k)
  <2>1. PICK g \in new : g.to = h /\ \E e \in g.envs : e.key = k
    BY <1>1
  <2>2. PICK e \in g.envs : e.key = k
    BY <2>1
  <2> DEFINE n == CurrentEnv(st', e.env)
  <2>3. st'.envs[n].key = k /\ n \in Access(st', h)
    BY <2>1, <2>2 DEF CheckGrant
  <2> HIDE DEF n
  <2>4. h \in Holder
    BY DEF Reader, Holder
  <2>5. n \in EnvNames(st')
    BY <2>3, <2>4 DEF RulesOK, AccessIsReal
  <2>6. k \in Cur(st') /\ h \in May(st', k)
    BY <2>3, <2>4, <2>5 DEF Cur, May
  <2> QED
    BY <2>6, KeysTyped
<1>2. \A h \in Reader : given[h] \in SUBSET EnvKey
  BY DEF KeysOK
<1>3. \A h \in Reader : given[h] \subseteq given'[h]
  OBVIOUS
<1>4. \A h \in Reader : given'[h] \in SUBSET EnvKey
  BY <1>1, <1>2
<1> QED
  BY <1>1, <1>3, <1>4

\* A position in a person's chain names a user key version.
LEMMA ChainFields ==
    ASSUME ChainsOK, NEW u \in Person
    PROVE  /\ DOMAIN chains[u] = 1..Len(chains[u]) /\ Len(chains[u]) \in Nat
           /\ \A p \in DOMAIN chains[u] : chains[u][p].ver \in Nat
<1> DEFINE R == [ver: Nat, delegates: SUBSET Delegate]
<1>1. \A r \in R : r.ver \in Nat
  OBVIOUS
<1>2. chains[u] \in Seq(R)
  BY DEF ChainsOK, ChainsGrow
<1> HIDE DEF R
<1> QED
  BY <1>1, <1>2

\* Links do not shorten anyone's chain nor go back in it.
LEMMA LinkStep ==
    ASSUME StateOK(st), ChainsOK, NEW l, WellFormed(l), l.type # "init",
           ValidNext(st, chains, l), st' = NextState(st, l), chains' = chains
    PROVE  /\ StateOK(st') /\ Keeps(st, st') /\ ChainsOK' /\ SignersMoveOn
           /\ l.type # "env_set" => NoNewKeys(st, st')
           /\ l.type = "env_set" =>
                /\ Cur(st') \cup Ret(st') \subseteq Cur(st) \cup Ret(st) \cup {l.b.key}
                /\ l.b.key \notin Cur(st) \cup Ret(st)
                /\ l.b.env \in EnvNames(st') /\ st'.envs[l.b.env].key = l.b.key
                /\ Admin(st', l.signer)
<1>1. RulesOK(st) /\ Admins(st) # {}
  BY DEF StateOK
<1>2. LinkOK(st, chains, l, st')
  BY <1>1, LinkEffect
<1>3. l.signer \in Person /\ l.pos \in Nat /\ st.signerSeqs \in [Person -> Nat]
  BY <1>1, StateFields DEF WellFormed, RulesOK
<1>4. \A v \in Person : st'.signerSeqs[v] = IF v = l.signer THEN l.pos ELSE st.signerSeqs[v]
  BY <1>2, <1>3 DEF LinkOK
<1>5. \A v \in Person : /\ DOMAIN chains[v] = 1..Len(chains[v]) /\ Len(chains[v]) \in Nat
                        /\ \A p \in DOMAIN chains[v] : chains[v][p].ver \in Nat
  BY ChainFields
<1>6. ChainsOK'
  <2>1. ChainsGrow'
    BY DEF ChainsOK, ChainsGrow
  <2>2. ASSUME NEW v \in Person
        PROVE  st'.signerSeqs[v] <= Len(chains[v])
    BY <1>2, <1>3, <1>4, <1>5 DEF ChainsOK, SignersKnown, LinkOK
  <2> QED
    BY <2>1, <2>2 DEF ChainsOK, SignersKnown
<1>7. SignersMoveOn
  <2> SUFFICES ASSUME NEW v \in Person
               PROVE  SignedWith(v)' >= SignedWith(v)
    BY DEF SignersMoveOn
  <2>1. SignedWith(v)' = IF st'.signerSeqs[v] = 0 THEN 0 ELSE chains[v][st'.signerSeqs[v]].ver
    BY DEF SignedWith
  <2>2. SignedWith(v) = IF st.signerSeqs[v] = 0 THEN 0 ELSE chains[v][st.signerSeqs[v]].ver
    BY DEF SignedWith
  <2>3. /\ \A p, q \in DOMAIN chains[v] : p <= q => chains[v][p].ver <= chains[v][q].ver
        /\ st.signerSeqs[v] <= Len(chains[v]) /\ st.signerSeqs[v] \in Nat
    BY <1>3 DEF ChainsOK, ChainsGrow, SignersKnown
  <2>4. CASE v # l.signer
    BY <1>4, <1>5, <2>1, <2>2, <2>3, <2>4
  <2>5. CASE v = l.signer
    BY <1>2, <1>3, <1>4, <1>5, <2>1, <2>2, <2>3, <2>5 DEF LinkOK
  <2> QED
    BY <2>4, <2>5
<1> QED
  BY <1>1, <1>2, <1>6, <1>7 DEF StateOK, LinkOK

\* Nothing is signed, and the chains stay or grow.
LEMMA QuietStep ==
    ASSUME StateOK(st), ChainsOK, st' = st, chains' = chains
    PROVE  StateOK(st') /\ Keeps(st, st') /\ ChainsOK' /\ SignersMoveOn /\ Published' = Published
<1>1. Keeps(st, st')
  BY DEF Keeps
<1>2. \A u \in Person : SignedWith(u)' = SignedWith(u) /\ SignedWith(u) \in Nat
  <2> SUFFICES ASSUME NEW u \in Person
               PROVE  SignedWith(u)' = SignedWith(u) /\ SignedWith(u) \in Nat
    OBVIOUS
  <2>1. st.signerSeqs[u] \in Nat /\ st.signerSeqs[u] <= Len(chains[u])
    BY StateFields DEF StateOK, RulesOK, ChainsOK, SignersKnown
  <2>2. /\ DOMAIN chains[u] = 1..Len(chains[u]) /\ Len(chains[u]) \in Nat
        /\ \A p \in DOMAIN chains[u] : chains[u][p].ver \in Nat
    BY ChainFields
  <2>3. SignedWith(u) \in Nat
    BY <2>1, <2>2 DEF SignedWith
  <2> QED
    BY <2>3 DEF SignedWith
<1>3. ChainsOK'
  BY DEF ChainsOK, ChainsGrow, SignersKnown
<1> QED
  BY <1>1, <1>2, <1>3 DEF SignersMoveOn, Published

\* The devices take in published keys only.
LEMMA KeysFromOneStays ==
    ASSUME KeysOK, KeysOK', KeysFromOne,
           Published \subseteq Published',
           \A k \in Published' \ Published : \E u \in Person : k \in device'[u].kept,
           \A u \in Person : /\ device[u].kept \subseteq device'[u].kept
                             /\ device'[u].kept \ device[u].kept \subseteq Published',
           \A h \in Reader : given'[h] \ given[h] \subseteq Published'
    PROVE  KeysFromOne'
<1>1. \A k \in Published' : \E u \in Person : k \in device'[u].kept
  BY DEF KeysFromOne
<1>2. \A h \in Reader : \A k \in given'[h] \ Published' : h \in Person /\ k \in device'[h].kept
  BY DEF KeysFromOne
<1>3. \A u, v \in Person : \A k \in EnvKey \ Published' :
        k \in device'[u].kept /\ k \in device'[v].kept => u = v
  BY DEF KeysFromOne
<1> QED
  BY <1>1, <1>2, <1>3 DEF KeysFromOne

\* What a step must do besides keeping the invariant.
Promise == Keeps(st, st') /\ Handed /\ Admitted /\ SignersMoveOn

\* A link that brings no key, with grants or without.
LEMMA PlainLink ==
    ASSUME Inv, NEW l, WellFormed(l), l.type \notin {"init", "env_set"},
           ValidNext(st, chains, l), st' = NextState(st, l), chains' = chains,
           KeysOK', CheckoutOK',
           \A v \in Person : device'[v].kept = device[v].kept,
           \A h \in Reader : /\ given[h] \subseteq given'[h]
                             /\ \A k \in given'[h] \ given[h] : k \in Cur(st') /\ h \in May(st', k)
    PROVE  Inv' /\ Promise
<1>1. /\ StateOK(st') /\ Keeps(st, st') /\ ChainsOK' /\ SignersMoveOn
      /\ NoNewKeys(st, st')
  BY LinkStep DEF Inv
<1>2. Published' = Published
  BY <1>1 DEF Keeps, NoNewKeys, Published
<1>3. Handed /\ Admitted
  BY <1>2 DEF Handed, Admitted
<1>4. KeysFromOne'
  <2>1. \A h \in Reader : given'[h] \ given[h] \subseteq Published'
    BY DEF Published
  <2> QED
    BY <1>2, <2>1, KeysFromOneStays DEF Inv
<1> QED
  BY <1>1, <1>3, <1>4 DEF Inv, Promise

\* Nothing is signed; a device may take in published keys.
LEMMA PlainStep ==
    ASSUME Inv, st' = st, chains' = chains, KeysOK', CheckoutOK',
           \A v \in Person : /\ device[v].kept \subseteq device'[v].kept
                             /\ device'[v].kept \ device[v].kept \subseteq Published,
           \A h \in Reader : /\ given[h] \subseteq given'[h]
                             /\ \A k \in given'[h] \ given[h] : k \in Cur(st) /\ h \in May(st, k)
    PROVE  Inv' /\ Promise
<1>1. /\ StateOK(st') /\ Keeps(st, st') /\ ChainsOK' /\ SignersMoveOn /\ Published' = Published
  BY QuietStep DEF Inv
<1>2. Handed /\ Admitted
  BY <1>1 DEF Handed, Admitted
<1>3. KeysFromOne'
  <2>1. \A h \in Reader : given'[h] \ given[h] \subseteq Published'
    BY <1>1 DEF Published
  <2> QED
    BY <1>1, <2>1, KeysFromOneStays DEF Inv
<1> QED
  BY <1>1, <1>2, <1>3 DEF Inv, Promise

LEMMA LinkOfOK ==
    ASSUME Inv, NEW u \in Person, NEW type \in Types, NEW body, BodyOK(type, body)
    PROVE  LET l == LinkOf(u, type, body)
           IN  /\ WellFormed(l) /\ l.type = type /\ l.b = body /\ l.signer = u
               /\ l.ver = Ver(u) /\ l.pos = Len(chains[u])
<1>1. Len(chains[u]) \in Nat
  BY ChainFields DEF Inv
<1>2. st.seq \in Nat
  BY StateFields DEF Inv, StateOK, RulesOK
<1> QED
  BY <1>1, <1>2 DEF LinkOf, NewLink, WellFormed, Now

\* A command that only sends a link and grants.
LEMMA SignStep ==
    ASSUME Inv, NEW u \in Person, NEW l, NEW new, WellFormed(l),
           l.type \notin {"init", "env_set"}, Sign(u, l, new)
    PROVE  Inv' /\ Promise
<1>1. /\ ValidNext(st, chains, l) /\ st' = NextState(st, l)
      /\ chains' = chains /\ device' = device /\ checkout' = checkout
      /\ \A g \in new : CheckGrant(st', g)
      /\ given' = [h \in Reader |-> given[h] \cup
                     UNION {{e.key : e \in g.envs} : g \in {g \in new : g.to = h}}]
  BY DEF Sign, Commit, Storable, Give
<1>2. RulesOK(st')
  BY <1>1, LinkStep DEF Inv, StateOK
<1>3. /\ given' \in [Reader -> SUBSET EnvKey]
      /\ \A h \in Reader : /\ given[h] \subseteq given'[h]
                           /\ \A k \in given'[h] \ given[h] : k \in Cur(st') /\ h \in May(st', k)
  BY <1>1, <1>2, GiveEffect DEF Inv
<1>4. KeysOK' /\ CheckoutOK'
  BY <1>1, <1>3 DEF Inv, KeysOK, CheckoutOK
<1> QED
  BY <1>1, <1>3, <1>4, PlainLink

-----------------------------------------------------------------------------
(* The actions, in the order of Next.                                      *)

LEMMA MemberSteps ==
    ASSUME Inv, NEW u \in Person, NEW v \in Person, NEW admin \in BOOLEAN,
           NEW envs \in SUBSET EnvName,
           \/ AddMember(u, v, admin, envs) \/ UpdateMember(u, v, admin, envs)
           \/ RemoveMember(u, v)
    PROVE  Inv' /\ Promise
<1>1. CASE AddMember(u, v, admin, envs)
  <2> DEFINE b == [user |-> v, admin |-> admin, envs |-> envs, verified |-> "account-key"]
             l == LinkOf(u, "member_add", b)
  <2>1. BodyOK("member_add", b)
    BY DEF BodyOK, Verification
  <2>2. PICK new : Sign(u, l, new)
    BY <1>1 DEF AddMember
  <2>3. WellFormed(l) /\ l.type = "member_add"
    BY <2>1, LinkOfOK DEF Types
  <2> QED
    BY <2>2, <2>3, SignStep
<1>2. CASE UpdateMember(u, v, admin, envs)
  <2> DEFINE b == [user |-> v, admin |-> admin, envs |-> envs]
             l == LinkOf(u, "member_update", b)
  <2>1. BodyOK("member_update", b)
    BY DEF BodyOK
  <2>2. PICK new : Sign(u, l, new)
    BY <1>2 DEF UpdateMember
  <2>3. WellFormed(l) /\ l.type = "member_update"
    BY <2>1, LinkOfOK DEF Types
  <2> QED
    BY <2>2, <2>3, SignStep
<1>3. CASE RemoveMember(u, v)
  <2> DEFINE b == [user |-> v]
             l == LinkOf(u, "member_remove", b)
  <2>1. BodyOK("member_remove", b)
    BY DEF BodyOK
  <2>2. WellFormed(l) /\ l.type = "member_remove"
    BY <2>1, LinkOfOK DEF Types
  <2> QED
    BY <1>3, <2>2, SignStep DEF RemoveMember
<1> QED
  BY <1>1, <1>2, <1>3

LEMMA MachineSteps ==
    ASSUME Inv, NEW u \in Person, NEW m \in Machine, NEW envs \in SUBSET EnvName,
           CreateMachine(u, m, envs) \/ RemoveMachine(u, m)
    PROVE  Inv' /\ Promise
<1>1. CASE CreateMachine(u, m, envs)
  <2> DEFINE b == [machine |-> m, envs |-> envs]
             l == LinkOf(u, "machine_add", b)
  <2>1. BodyOK("machine_add", b)
    BY DEF BodyOK
  <2>2. PICK new : Sign(u, l, new)
    BY <1>1 DEF CreateMachine
  <2>3. WellFormed(l) /\ l.type = "machine_add"
    BY <2>1, LinkOfOK DEF Types
  <2> QED
    BY <2>2, <2>3, SignStep
<1>2. CASE RemoveMachine(u, m)
  <2> DEFINE b == [machine |-> m]
             l == LinkOf(u, "machine_remove", b)
  <2>1. BodyOK("machine_remove", b)
    BY DEF BodyOK
  <2>2. WellFormed(l) /\ l.type = "machine_remove"
    BY <2>1, LinkOfOK DEF Types
  <2> QED
    BY <1>2, <2>2, SignStep DEF RemoveMachine
<1> QED
  BY <1>1, <1>2

LEMMA ArchiveSteps ==
    ASSUME Inv, NEW u \in Person, Archive(u) \/ Unarchive(u)
    PROVE  Inv' /\ Promise
<1>1. ASSUME NEW type \in {"archive", "unarchive"}, Sign(u, LinkOf(u, type, [none |-> TRUE]), {})
      PROVE  Inv' /\ Promise
  <2> DEFINE b == [none |-> TRUE]
             l == LinkOf(u, type, b)
  <2>1. BodyOK(type, b)
    BY <1>1 DEF BodyOK
  <2>2. WellFormed(l) /\ l.type = type
    BY <1>1, <2>1, LinkOfOK DEF Types
  <2> QED
    BY <1>1, <2>2, SignStep
<1> QED
  BY <1>1 DEF Archive, Unarchive

\* A new key is in one keyring, and nobody was given it.
LEMMA MakeKeyStep ==
    ASSUME Inv, NEW u \in Person, NEW n \in EnvName, MakeKey(u, n)
    PROVE  Inv' /\ Promise
<1> DEFINE k == CHOOSE k \in Unmade : \A j \in Unmade : k <= j
<1>1. k \in EnvKey /\ \A v \in Person : k \notin device[v].kept
  <2>1. Unmade \in SUBSET EnvKey /\ Unmade # {}
    BY DEF MakeKey, Unmade
  <2>2. k \in Unmade
    BY <2>1, KeysAssumption
  <2> QED
    BY <2>2 DEF Unmade
<1> DEFINE k0 == k
<1>2. /\ device' = [device EXCEPT ![u].cur[n] = k0, ![u].kept = @ \cup {k0}]
      /\ given' = [given EXCEPT ![u] = @ \cup {k0}]
      /\ st' = st /\ chains' = chains /\ checkout' = checkout
  BY DEF MakeKey
<1>3. k0 \in EnvKey /\ \A v \in Person : k0 \notin device[v].kept
  BY <1>1
<1> HIDE DEF k0
<1>4. u \in Reader
  BY DEF Reader
<1>5. device \in [Person -> DeviceState] /\ given \in [Reader -> SUBSET EnvKey]
  BY DEF Inv, KeysOK
<1>6. /\ device'[u].cur = [device[u].cur EXCEPT ![n] = k0]
      /\ device'[u].kept = device[u].kept \cup {k0}
      /\ \A v \in Person \ {u} : device'[v] = device[v]
      /\ device' \in [Person -> DeviceState]
  <2>1. device[u] \in DeviceState
    BY <1>5
  <2> DEFINE d == [device[u] EXCEPT !.cur[n] = k0, !.kept = @ \cup {k0}]
  <2>2. /\ d \in DeviceState /\ d.cur = [device[u].cur EXCEPT ![n] = k0]
        /\ d.kept = device[u].kept \cup {k0}
    BY <1>3, <2>1 DEF DeviceState
  <2>3. device' = [device EXCEPT ![u] = d]
    BY <1>2, <1>5
  <2> HIDE DEF d
  <2> QED
    BY <1>5, <2>2, <2>3
<1>7. /\ given' \in [Reader -> SUBSET EnvKey] /\ given'[u] = given[u] \cup {k0}
      /\ \A h \in Reader \ {u} : given'[h] = given[h]
  BY <1>2, <1>3, <1>4, <1>5
<1>8. k0 \notin Published
  BY <1>3 DEF Inv, KeysFromOne
<1>9. /\ StateOK(st') /\ Keeps(st, st') /\ ChainsOK' /\ SignersMoveOn /\ Published' = Published
  BY <1>2, QuietStep DEF Inv
<1>10. Handed /\ Admitted
  BY <1>4, <1>7, <1>8, <1>9 DEF Handed, Admitted
<1>11. KeysOK'
  <2>1. ASSUME NEW v \in Person, NEW e \in EnvName
        PROVE  device'[v].cur[e] \in device'[v].kept \cup {NoKey}
    <3>1. device[v].cur[e] \in device[v].kept \cup {NoKey}
      BY DEF Inv, KeysOK
    <3>2. device[v].cur \in [EnvName -> EnvKey \cup {NoKey}]
      BY <1>5 DEF DeviceState
    <3> QED
      BY <1>6, <3>1, <3>2
  <2> QED
    BY <1>6, <1>7, <2>1 DEF KeysOK
<1>12. KeysFromOne'
  <2>1. \A p \in Published' : \E v \in Person : p \in device'[v].kept
    <3> SUFFICES ASSUME NEW p \in Published
                 PROVE  \E v \in Person : p \in device'[v].kept
      BY <1>9
    <3>1. PICK v \in Person : p \in device[v].kept
      BY DEF Inv, KeysFromOne
    <3>2. p \in device'[v].kept
      BY <1>6, <3>1
    <3> QED
      BY <3>2
  <2>2. ASSUME NEW h \in Reader, NEW p \in given'[h] \ Published'
        PROVE  h \in Person /\ p \in device'[h].kept
    <3>1. p \in given[h] => h \in Person /\ p \in device[h].kept
      BY <1>9 DEF Inv, KeysFromOne
    <3> QED
      BY <1>6, <1>7, <3>1
  <2>3. ASSUME NEW v \in Person, NEW w \in Person, NEW p \in EnvKey \ Published',
               p \in device'[v].kept, p \in device'[w].kept
        PROVE  v = w
    <3>1. p \in device[v].kept /\ p \in device[w].kept => v = w
      BY <1>9 DEF Inv, KeysFromOne
    <3> QED
      BY <1>3, <1>6, <2>3, <3>1
  <2> QED
    BY <2>1, <2>2, <2>3 DEF KeysFromOne
<1> QED
  BY <1>2, <1>9, <1>10, <1>11, <1>12 DEF Inv, CheckoutOK, Promise

\* Only its maker was given a key that is published, and they are an admin.
LEMMA PublishEnvStep ==
    ASSUME Inv, NEW u \in Person, NEW n \in EnvName, PublishEnv(u, n)
    PROVE  Inv' /\ Promise
<1> DEFINE k == device[u].cur[n]
           b == [env |-> n, key |-> k]
           l == LinkOf(u, "env_set", b)
<1>1. device[u] \in DeviceState /\ k \in EnvKey /\ k \in device[u].kept
  <2>1. device[u] \in DeviceState /\ k # NoKey /\ k \in device[u].kept \cup {NoKey}
    BY DEF Inv, KeysOK, PublishEnv
  <2> QED
    BY <2>1 DEF DeviceState
<1>2. WellFormed(l) /\ l.type = "env_set" /\ l.b.env = n /\ l.b.key = k /\ l.signer = u
  <2>1. BodyOK("env_set", b)
    BY <1>1 DEF BodyOK
  <2>2. WellFormed(l) /\ l.type = "env_set" /\ l.b = b /\ l.signer = u
    BY <2>1, LinkOfOK DEF Types
  <2> QED
    BY <2>2
<1>3. PICK new : /\ ValidNext(st, chains, l) /\ st' = NextState(st, l)
                 /\ \A g \in new : CheckGrant(st', g)
                 /\ given' = [h \in Reader |-> given[h] \cup
                               UNION {{e.key : e \in g.envs} : g \in {g \in new : g.to = h}}]
  BY DEF PublishEnv, Commit, Storable, Give
<1>4. chains' = chains /\ checkout' = checkout /\ device' = device
  BY DEF PublishEnv
<1> HIDE DEF l, k, b
<1>5. /\ StateOK(st') /\ Keeps(st, st') /\ ChainsOK' /\ SignersMoveOn
      /\ Cur(st') \cup Ret(st') \subseteq Cur(st) \cup Ret(st) \cup {k}
      /\ k \notin Cur(st) \cup Ret(st)
      /\ n \in EnvNames(st') /\ st'.envs[n].key = k /\ Admin(st', u)
  BY <1>2, <1>3, <1>4, LinkStep DEF Inv
<1>6. /\ given' \in [Reader -> SUBSET EnvKey]
      /\ \A h \in Reader : /\ given[h] \subseteq given'[h]
                           /\ \A j \in given'[h] \ given[h] : j \in Cur(st') /\ h \in May(st', j)
  BY <1>3, <1>5, GiveEffect DEF Inv, StateOK
<1>7. /\ device' \in [Person -> DeviceState]
      /\ \A v \in Person : device'[v].cur = device[v].cur /\ device'[v].kept = device[v].kept
  BY <1>4 DEF Inv, KeysOK
<1>8. KeysOK' /\ CheckoutOK'
  BY <1>4, <1>6, <1>7 DEF Inv, KeysOK, CheckoutOK
<1>9. Published' = Published \cup {k}
  BY <1>5 DEF Published, Keeps, Cur
<1>10. k \in Cur(st')
  BY <1>5 DEF Cur
<1>11. ASSUME NEW h \in Reader, k \in given[h]
       PROVE  h \in May(st', k)
  <2>1. h \in Person /\ k \in device[h].kept
    BY <1>5, <1>11 DEF Inv, KeysFromOne, Published
  <2>2. h = u
    BY <1>1, <1>5, <2>1 DEF Inv, KeysFromOne, Published
  <2>3. Access(st', u) = EnvNames(st')
    BY <1>5, AccessOf DEF Admin
  <2> QED
    BY <1>5, <2>1, <2>2, <2>3 DEF May, Holder
<1>12. Handed
  BY <1>6 DEF Handed
<1>13. Admitted
  BY <1>9, <1>10, <1>11 DEF Admitted
<1>14. KeysFromOne'
  <2>1. \A h \in Reader : given'[h] \ given[h] \subseteq Published'
    BY <1>6 DEF Published
  <2>2. \A j \in Published' \ Published : \E v \in Person : j \in device'[v].kept
    BY <1>1, <1>7, <1>9
  <2> QED
    BY <1>7, <1>8, <1>9, <2>1, <2>2, KeysFromOneStays DEF Inv
<1> QED
  BY <1>5, <1>8, <1>12, <1>13, <1>14 DEF Inv, Promise

\* The device of u with the keys of take.
Took(u, take) ==
    [cur |-> [n \in EnvName |-> IF n \in take THEN Key(n) ELSE device[u].cur[n]],
     kept |-> device[u].kept \cup {Key(n) : n \in take}]

\* An import takes keys the environments have now, or nothing.
LEMMA ImportTakes ==
    ASSUME Inv, NEW u \in Person, Import(u)
    PROVE  /\ st' = st /\ chains' = chains /\ given' = given /\ checkout' = checkout
           /\ \/ device' = device
              \/ \E take \in SUBSET EnvNames(st) : device' = [device EXCEPT ![u] = Took(u, take)]
<1>1. st' = st /\ chains' = chains /\ given' = given /\ checkout' = checkout
  BY DEF Import
<1>2. CASE ~Member(st, u)
  BY <1>1, <1>2 DEF Import
<1>3. CASE Member(st, u)
  <2>1. PICK accepted \in {Opened(u), {}} :
          LET taken == {n \in NamesIn(accepted) : MayReplace(u, n)}
          IN  device' = [device EXCEPT ![u] =
                  [cur |-> [n \in EnvName |-> IF n \in taken THEN Key(n) ELSE @.cur[n]],
                   kept |-> @.kept \cup {Key(n) : n \in taken}]]
    BY <1>3 DEF Import
  <2> DEFINE taken == {n \in NamesIn(accepted) : MayReplace(u, n)}
  <2>2. device \in [Person -> DeviceState]
    BY DEF Inv, KeysOK
  <2>3. device' = [device EXCEPT ![u] = Took(u, taken)]
    BY <2>1, <2>2 DEF Took
  <2>4. taken \subseteq EnvNames(st)
    <3> SUFFICES ASSUME NEW g \in Opened(u), NEW e \in g.envs
                 PROVE  CurrentEnv(st, e.env) \in EnvNames(st)
      BY DEF NamesIn
    <3>1. CurrentEnv(st, e.env) \in Access(st, u)
      BY DEF Opened, OpenGrant, CheckGrant
    <3>2. u \in Holder
      BY DEF Holder
    <3> QED
      BY <3>1, <3>2 DEF Inv, StateOK, RulesOK, AccessIsReal
  <2> HIDE DEF taken
  <2> QED
    BY <1>1, <2>3, <2>4
<1> QED
  BY <1>2, <1>3

\* An import takes keys in use that the person may have.
LEMMA ImportStep ==
    ASSUME Inv, NEW u \in Person, Import(u)
    PROVE  Inv' /\ Promise
<1>1. /\ st' = st /\ chains' = chains /\ given' = given /\ checkout' = checkout
      /\ \/ device' = device
         \/ \E take \in SUBSET EnvNames(st) :
              device' = [device EXCEPT ![u] = Took(u, take)]
  BY ImportTakes
<1>2. \A n \in EnvNames(st) : n \in EnvName /\ Key(n) \in Cur(st) /\ Key(n) \in EnvKey
  <2>1. \A n \in EnvNames(st) : n \in EnvName /\ Key(n) \in Cur(st)
    BY DEF EnvNames, Key, Cur
  <2> QED
    BY <2>1, KeysTyped DEF Inv, StateOK
<1>3. device \in [Person -> DeviceState]
  BY DEF Inv, KeysOK
<1>4. ASSUME NEW take \in SUBSET EnvNames(st)
      PROVE  /\ Took(u, take) \in DeviceState
             /\ Took(u, take).kept = device[u].kept \cup {Key(n) : n \in take}
             /\ \A n \in EnvName : Took(u, take).cur[n] \in Took(u, take).kept \cup {NoKey}
  <2> DEFINE cur == [n \in EnvName |-> IF n \in take THEN Key(n) ELSE device[u].cur[n]]
             kept == device[u].kept \cup {Key(n) : n \in take}
  <2>1. device[u] \in DeviceState
    BY <1>3
  <2>2. cur \in [EnvName -> EnvKey \cup {NoKey}]
    BY <1>2, <2>1 DEF DeviceState
  <2>3. kept \in SUBSET EnvKey
    BY <1>2, <2>1 DEF DeviceState
  <2>4. \A n \in EnvName : cur[n] \in kept \cup {NoKey}
    BY DEF Inv, KeysOK
  <2>5. Took(u, take) = [cur |-> cur, kept |-> kept]
    BY DEF Took
  <2> HIDE DEF cur
  <2> QED
    BY <2>2, <2>3, <2>4, <2>5 DEF DeviceState
<1>5. /\ device' \in [Person -> DeviceState]
      /\ \A v \in Person : /\ device[v].kept \subseteq device'[v].kept
                           /\ device'[v].kept \ device[v].kept \subseteq Published
                           /\ \A n \in EnvName : device'[v].cur[n] \in device'[v].kept \cup {NoKey}
  <2>1. \A v \in Person : \A n \in EnvName : device[v].cur[n] \in device[v].kept \cup {NoKey}
    BY DEF Inv, KeysOK
  <2>2. CASE device' = device
    BY <1>3, <2>1, <2>2
  <2>3. CASE \E take \in SUBSET EnvNames(st) :
               device' = [device EXCEPT ![u] = Took(u, take)]
    <3>1. PICK take \in SUBSET EnvNames(st) :
            device' = [device EXCEPT ![u] = Took(u, take)]
      BY <2>3
    <3>2. {Key(n) : n \in take} \subseteq Published
      BY <1>2 DEF Published
    <3> QED
      BY <1>3, <1>4, <2>1, <3>1, <3>2
  <2> QED
    BY <1>1, <2>2, <2>3
<1>6. KeysOK' /\ CheckoutOK'
  BY <1>1, <1>5 DEF Inv, KeysOK, CheckoutOK
<1> QED
  BY <1>1, <1>5, <1>6, PlainStep

\* The other requests of a sync leave the devices alone.
LEMMA SyncSteps ==
    ASSUME Inv, NEW u \in Person, Sync(u)
    PROVE  Inv' /\ Promise
<1>1. CASE Fetch(u) \/ AckCheck(u) \/ AckStore(u) \/ Own(u) \/ Others(u)
  <2>1. /\ st' = st /\ chains' = chains /\ given' = given /\ checkout' = checkout
        /\ device' = device
    BY <1>1 DEF Fetch, AckCheck, AckStore, Own, Others
  <2>2. KeysOK' /\ CheckoutOK'
    BY <2>1 DEF Inv, KeysOK, CheckoutOK
  <2> QED
    BY <2>1, <2>2, PlainStep
<1>2. CASE Import(u)
  BY <1>2, ImportStep
<1>3. CASE Send(u)
  <2>1. /\ st' = st /\ chains' = chains /\ checkout' = checkout /\ device' = device
        /\ \/ given' = given
           \/ /\ \A g \in work[u].grants : CheckGrant(st, g)
              /\ Give(work[u].grants)
    BY <1>3 DEF Send, Storable
  <2>2. /\ given' \in [Reader -> SUBSET EnvKey]
        /\ \A h \in Reader : /\ given[h] \subseteq given'[h]
                             /\ \A k \in given'[h] \ given[h] : k \in Cur(st) /\ h \in May(st, k)
    <3>1. CASE given' = given
      BY <3>1 DEF Inv, KeysOK
    <3>2. CASE given' # given
      <4> DEFINE new == work[u].grants
      <4>1. /\ \A g \in new : CheckGrant(st', g)
            /\ given' = [h \in Reader |-> given[h] \cup
                           UNION {{e.key : e \in g.envs} : g \in {g \in new : g.to = h}}]
        BY <2>1, <3>2 DEF Give
      <4> HIDE DEF new
      <4>2. RulesOK(st')
        BY <2>1 DEF Inv, StateOK
      <4> QED
        BY <2>1, <4>1, <4>2, GiveEffect DEF Inv
    <3> QED
      BY <3>1, <3>2
  <2>3. KeysOK' /\ CheckoutOK'
    BY <2>1, <2>2 DEF Inv, KeysOK, CheckoutOK
  <2> QED
    BY <2>1, <2>2, <2>3, PlainStep
<1> QED
  BY <1>1, <1>2, <1>3 DEF Sync

\* A new user key goes to the end of its owner's chain.
LEMMA RotateStep ==
    ASSUME Inv, NEW u \in Person, RotateUserKey(u)
    PROVE  Inv' /\ Promise
<1> DEFINE R == [ver: Nat, delegates: SUBSET Delegate]
           r == [ver |-> Ver(u) + 1, delegates |-> {}]
           c == Append(chains[u], r)
<1>1. /\ st' = st /\ device' = device /\ given' = given /\ checkout' = checkout
      /\ chains' = [chains EXCEPT ![u] = c]
  BY DEF RotateUserKey
<1>2. /\ chains \in [Person -> Seq(R)] /\ chains[u] \in Seq(R)
      /\ \A v \in Person : Len(chains[v]) > 0
  BY DEF Inv, ChainsOK, ChainsGrow
<1>3. \A v \in Person : /\ DOMAIN chains[v] = 1..Len(chains[v]) /\ Len(chains[v]) \in Nat
                        /\ \A p \in DOMAIN chains[v] : chains[v][p].ver \in Nat
  BY ChainFields DEF Inv
<1>4. r \in R /\ r.ver = chains[u][Len(chains[u])].ver + 1
  BY <1>2, <1>3 DEF Ver
<1> HIDE DEF r
<1>5. /\ c \in Seq(R) /\ Len(c) = Len(chains[u]) + 1
      /\ \A p \in 1..Len(chains[u]) : c[p] = chains[u][p]
      /\ c[Len(chains[u]) + 1] = r
  BY <1>2, <1>4
<1>6. DOMAIN c = 1..(Len(chains[u]) + 1)
  BY <1>5
<1> HIDE DEF R, c
<1>7. /\ chains' \in [Person -> Seq(R)] /\ chains'[u] = c
      /\ \A v \in Person \ {u} : chains'[v] = chains[v]
  BY <1>1, <1>2, <1>5
<1>8. \A v \in Person : \A p, q \in DOMAIN chains[v] :
        p <= q => chains[v][p].ver <= chains[v][q].ver
  BY DEF Inv, ChainsOK, ChainsGrow
<1>9. \A p, q \in DOMAIN c : p <= q => c[p].ver <= c[q].ver
  <2> SUFFICES ASSUME NEW p \in DOMAIN c, NEW q \in DOMAIN c, p <= q
               PROVE  c[p].ver <= c[q].ver
    OBVIOUS
  <2> DEFINE n == Len(chains[u])
  <2>1. n \in Nat /\ n > 0 /\ p \in 1..(n + 1) /\ q \in 1..(n + 1)
    BY <1>2, <1>3, <1>6
  <2>2. CASE q <= n
    <3>1. p \in DOMAIN chains[u] /\ q \in DOMAIN chains[u]
      BY <1>3, <2>1, <2>2
    <3>2. c[p] = chains[u][p] /\ c[q] = chains[u][q]
      BY <1>3, <1>5, <3>1
    <3> QED
      BY <1>8, <3>1, <3>2
  <2>3. CASE q = n + 1 /\ p <= n
    <3>1. p \in DOMAIN chains[u] /\ n \in DOMAIN chains[u]
      BY <1>3, <2>1, <2>3
    <3>2. c[p] = chains[u][p] /\ c[q] = r
      BY <1>3, <1>5, <2>3, <3>1
    <3>3. chains[u][p].ver <= chains[u][n].ver
      BY <1>8, <2>3, <3>1
    <3>4. chains[u][p].ver \in Nat /\ chains[u][n].ver \in Nat
      BY <1>3, <3>1
    <3> QED
      BY <1>4, <3>2, <3>3, <3>4
  <2>4. CASE q = n + 1 /\ p = n + 1
    <3>1. c[p] = r /\ c[q] = r
      BY <1>5, <2>4
    <3>2. n \in DOMAIN chains[u]
      BY <1>3, <2>1
    <3>3. chains[u][n].ver \in Nat
      BY <1>3, <3>2
    <3> QED
      BY <1>4, <3>1, <3>3
  <2> QED
    BY <2>1, <2>2, <2>3, <2>4
<1>10. ChainsGrow'
  <2>1. \A v \in Person : Len(chains'[v]) > 0
    <3>1. Len(c) > 0
      BY <1>3, <1>5
    <3> QED
      BY <1>2, <1>7, <3>1
  <2>2. \A v \in Person : \A p, q \in DOMAIN chains'[v] :
          p <= q => chains'[v][p].ver <= chains'[v][q].ver
    BY <1>7, <1>8, <1>9
  <2> QED
    BY <1>7, <2>1, <2>2 DEF ChainsGrow, R
<1>11. \A v \in Person : /\ Len(chains[v]) <= Len(chains'[v])
                         /\ \A p \in 1..Len(chains[v]) : chains'[v][p] = chains[v][p]
  BY <1>3, <1>5, <1>7
<1>12. \A v \in Person : st.signerSeqs[v] \in Nat /\ st.signerSeqs[v] <= Len(chains[v])
  BY StateFields DEF Inv, StateOK, RulesOK, ChainsOK, SignersKnown
<1>13. SignersKnown'
  <2> SUFFICES ASSUME NEW v \in Person
               PROVE  st.signerSeqs[v] <= Len(chains'[v])
    BY <1>1 DEF SignersKnown
  <2>1. Len(chains'[v]) \in Nat
    BY <1>3, <1>5, <1>7
  <2> QED
    BY <1>3, <1>11, <1>12, <2>1
<1>14. SignersMoveOn
  <2> SUFFICES ASSUME NEW v \in Person
               PROVE  SignedWith(v)' >= SignedWith(v)
    BY DEF SignersMoveOn
  <2>1. CASE st.signerSeqs[v] = 0
    BY <1>1, <2>1 DEF SignedWith
  <2>2. CASE st.signerSeqs[v] # 0
    <3>1. st.signerSeqs[v] \in 1..Len(chains[v])
      BY <1>3, <1>12, <2>2
    <3>2. chains'[v][st.signerSeqs[v]] = chains[v][st.signerSeqs[v]]
      BY <1>11, <3>1
    <3>3. chains[v][st.signerSeqs[v]].ver \in Nat
      BY <1>3, <3>1
    <3> QED
      BY <1>1, <2>2, <3>2, <3>3 DEF SignedWith
  <2> QED
    BY <2>1, <2>2
<1>15. StateOK(st') /\ Keeps(st, st') /\ Published' = Published
  BY <1>1 DEF Inv, Keeps, Published
<1>16. Handed /\ Admitted
  BY <1>1, <1>15 DEF Handed, Admitted
<1>17. KeysOK' /\ KeysFromOne' /\ CheckoutOK'
  BY <1>1, <1>15 DEF Inv, KeysOK, KeysFromOne, CheckoutOK
<1> QED
  BY <1>10, <1>13, <1>14, <1>15, <1>16, <1>17 DEF Inv, ChainsOK, Promise

\* A revoked device sends no grants.
LEMMA RogueLinkStep ==
    ASSUME Inv, NEW u \in Person, RogueLink(u)
    PROVE  Inv' /\ Promise
<1>1. PICK p \in DOMAIN chains[u], v \in Person, admin \in BOOLEAN :
        LET l == NewLink(st, "member_update", u, chains[u][p].ver, p, Now,
                         [user |-> v, admin |-> admin, envs |-> {}])
        IN  ValidNext(st, chains, l) /\ st' = NextState(st, l)
  BY DEF RogueLink
<1> DEFINE b == [user |-> v, admin |-> admin, envs |-> {}]
           l == NewLink(st, "member_update", u, chains[u][p].ver, p, Now, b)
<1>2. p \in Nat /\ st.seq \in Nat
  BY ChainFields, StateFields DEF Inv, StateOK, RulesOK
<1>3. WellFormed(l) /\ l.type = "member_update"
  BY <1>2 DEF WellFormed, BodyOK, NewLink, Types, Now
<1>4. ValidNext(st, chains, l) /\ st' = NextState(st, l)
  BY <1>1
<1>5. /\ chains' = chains /\ device' = device /\ checkout' = checkout /\ given' = given
  BY DEF RogueLink
<1> HIDE DEF l
<1>6. KeysOK' /\ CheckoutOK'
  BY <1>5 DEF Inv, KeysOK, CheckoutOK
<1> QED
  BY <1>3, <1>4, <1>5, <1>6, PlainLink

LEMMA OtherSteps ==
    ASSUME Inv,
           \/ \E u \in Person : Crash(u)
           \/ \E old, new \in EnvName : PlanRename(old, new)
    PROVE  Inv' /\ Promise
<1>1. CASE \E u \in Person : Crash(u)
  <2>1. /\ st' = st /\ chains' = chains /\ device' = device /\ checkout' = checkout
        /\ given' = given
    BY <1>1 DEF Crash
  <2>2. KeysOK' /\ CheckoutOK'
    BY <2>1 DEF Inv, KeysOK, CheckoutOK
  <2> QED
    BY <2>1, <2>2, PlainStep
<1>2. CASE \E old, new \in EnvName : PlanRename(old, new)
  <2>1. /\ st' = st /\ chains' = chains /\ device' = device /\ given' = given
        /\ checkout'.run = "vault"
    BY <1>2 DEF PlanRename, Plan, Fresh
  <2>2. KeysOK' /\ CheckoutOK'
    BY <2>1 DEF Inv, KeysOK, CheckoutOK
  <2> QED
    BY <2>1, <2>2, PlainStep
<1> QED
  BY <1>1, <1>2

\* A rename in the vault carries no grants.
LEMMA RenameInVaultStep ==
    ASSUME Inv, RenameInVault
    PROVE  Inv' /\ Promise
<1> DEFINE j == checkout.journal
           b == [old |-> j.old, new |-> j.new]
           l == LinkOf(Creator, "env_rename", b)
<1>1. j \in Journal /\ Creator \in Person
  BY PeopleAssumption DEF RenameInVault
<1>2. j.old \in EnvName /\ j.new \in EnvName
  BY <1>1 DEF Journal
<1>3. WellFormed(l) /\ l.type = "env_rename"
  <2>1. BodyOK("env_rename", b)
    BY <1>2 DEF BodyOK
  <2> QED
    BY <1>1, <2>1, LinkOfOK DEF Types
<1>4. /\ chains' = chains
      /\ checkout' = Stopped(checkout) \/ checkout' = Confirmed(checkout)
      /\ device' = device
      /\ \/ st' = st /\ given' = given
         \/ Commit(Creator, l, {})
  BY DEF RenameInVault
<1>5. CheckoutOK'
  BY <1>1, <1>4 DEF CheckoutOK, Confirmed, Stopped, Running
<1> HIDE DEF l
<1>6. CASE st' = st /\ given' = given
  <2>1. KeysOK'
    BY <1>4, <1>6 DEF Inv, KeysOK
  <2> QED
    BY <1>4, <1>5, <1>6, <2>1, PlainStep
<1>7. CASE Commit(Creator, l, {})
  <2>1. ValidNext(st, chains, l) /\ st' = NextState(st, l)
        /\ given' = [h \in Reader |-> given[h] \cup
                       UNION {{e.key : e \in g.envs} : g \in {g \in {} : g.to = h}}]
    BY <1>7 DEF Commit, Give
  <2>2. given \in [Reader -> SUBSET EnvKey]
    BY DEF Inv, KeysOK
  <2>3. given' = given
    BY <2>1, <2>2
  <2>4. KeysOK'
    BY <1>4, <2>3 DEF Inv, KeysOK
  <2> QED
    BY <1>3, <1>4, <1>5, <2>1, <2>3, <2>4, PlainLink
<1> QED
  BY <1>4, <1>6, <1>7

LEMMA RenameFailsStep ==
    ASSUME Inv, RenameFails
    PROVE  Inv' /\ Promise
<1>1. /\ st' = st /\ chains' = chains /\ device' = device /\ given' = given
      /\ checkout' = Stopped(checkout)
  BY DEF RenameFails
<1>2. KeysOK' /\ CheckoutOK'
  BY <1>1 DEF Inv, KeysOK, CheckoutOK, Stopped, Running
<1> QED
  BY <1>1, <1>2, PlainStep

\* The keyring's entry moves to the new name, whether or not files do.
LEMMA RenameHereStep ==
    ASSUME Inv, RenameHere
    PROVE  Inv' /\ Promise
<1> DEFINE j == checkout.journal
           moved == [device EXCEPT ![Creator].cur = RenameEntry(@, j, NoKey)]
<1>1. /\ st' = st /\ chains' = chains /\ given' = given
      /\ device' = device \/ device' = moved
      /\ \E c : checkout' = Stopped(c)
  BY DEF RenameHere
<1>2. CheckoutOK'
  BY <1>1 DEF CheckoutOK, Stopped, Running
<1>3. j \in Journal /\ Creator \in Person
  BY PeopleAssumption DEF RenameHere, Inv, CheckoutOK
<1>4. j.old \in EnvName /\ j.new \in EnvName
  BY <1>3 DEF Journal
<1>5. given \in [Reader -> SUBSET EnvKey] /\ device \in [Person -> DeviceState]
      /\ \A v \in Person : \A n \in EnvName : device[v].cur[n] \in device[v].kept \cup {NoKey}
  BY DEF Inv, KeysOK
<1>6. /\ device' \in [Person -> DeviceState]
      /\ \A v \in Person : /\ device'[v].kept = device[v].kept
                           /\ \A n \in EnvName : device'[v].cur[n] \in device[v].kept \cup {NoKey}
  <2>1. CASE device' = device
    BY <1>5, <2>1
  <2>2. CASE device' = moved
    <3> DEFINE cur == RenameEntry(device[Creator].cur, j, NoKey)
               d == [device[Creator] EXCEPT !.cur = cur]
    <3>1. device[Creator] \in DeviceState
      BY <1>3, <1>5
    <3>2. /\ cur \in [EnvName -> EnvKey \cup {NoKey}]
          /\ \A n \in EnvName : cur[n] \in device[Creator].kept \cup {NoKey}
      BY <1>3, <1>4, <1>5, <3>1 DEF DeviceState, RenameEntry
    <3>3. device' = [device EXCEPT ![Creator] = d]
      BY <1>3, <1>5, <2>2
    <3> HIDE DEF cur
    <3>4. d \in DeviceState /\ d.cur = cur /\ d.kept = device[Creator].kept
      BY <3>1, <3>2 DEF DeviceState
    <3> HIDE DEF d
    <3> QED
      BY <1>3, <1>5, <3>2, <3>3, <3>4
  <2> QED
    BY <1>1, <2>1, <2>2
<1>7. KeysOK'
  BY <1>1, <1>5, <1>6 DEF KeysOK
<1> QED
  BY <1>1, <1>2, <1>6, <1>7, PlainStep

-----------------------------------------------------------------------------
(* The initial states, and what holds for good.                            *)

LEMMA InitKeeps ==
    ASSUME Init
    PROVE  /\ Inv /\ Cur(st) = {FirstKey} /\ Ret(st) = {}
           /\ \A h \in Reader : \A k \in given[h] : k \in Cur(st) /\ h \in May(st, k)
<1> DEFINE keys == [n \in EnvName |-> IF n = FirstEnv THEN FirstKey ELSE NoKey]
           l1 == FirstLink
           s == NextState(New, l1)
<1>1. FirstKey \in EnvKey /\ FirstKey # NoKey
  BY KeysAssumption, NoKeyAssumption DEF FirstKey
<1>2. Creator \in Person /\ Other \in Person /\ Other # Creator /\ FirstEnv \in EnvName
  BY PeopleAssumption
<1>3. /\ l1.type = "init" /\ l1.seq = 1 /\ l1.signer = Creator /\ l1.ver = 1 /\ l1.pos = 1
      /\ l1.delegate = NoDelegate /\ l1.time = 1
      /\ l1.b = [creator |-> Creator, envs |-> keys]
  BY DEF FirstLink, NewLink, New, Now
<1>4. WellFormed(l1) /\ ValidInit(New, l1)
  <2>1. keys \in [EnvName -> EnvKey \cup {NoKey}]
    BY <1>1
  <2>2. BodyOK("init", l1.b)
    BY <1>2, <1>3, <2>1 DEF BodyOK
  <2>3. WellFormed(l1)
    BY <1>2, <1>3, <2>2 DEF WellFormed, Types
  <2>4. ValidInit(New, l1)
    BY <1>3 DEF ValidInit, New
  <2> QED
    BY <2>3, <2>4
<1>5. /\ StateOK(s) /\ Ret(s) = {} /\ s.seq = 1 /\ s.last = 1 /\ ~s.archived
      /\ \A n \in EnvName : s.envs[n].key = keys[n]
      /\ \A u \in Person : Member(s, u) <=> u = Creator
      /\ Admin(s, Creator)
      /\ s.signerSeqs = [[u \in Person |-> 0] EXCEPT ![Creator] = 1]
  BY <1>3, <1>4, InitEffect
<1>6. PICK admin \in BOOLEAN : st = Joined(s, Other, admin)
  BY DEF Init
<1> DEFINE b == [user |-> Other, admin |-> admin, envs |-> IF admin THEN {} ELSE {FirstEnv},
                 verified |-> "account-key"]
           l2 == NewLink(s, "member_add", Creator, 1, 1, Now, b)
<1>7. st = NextState(s, l2)
  BY <1>6 DEF Joined
<1> HIDE DEF s
<1>8. /\ l2.type = "member_add" /\ l2.seq = 2 /\ l2.signer = Creator /\ l2.ver = 1 /\ l2.pos = 1
      /\ l2.delegate = NoDelegate /\ l2.time = 1 /\ l2.b = b
  BY <1>5 DEF NewLink, Now
<1>9. EnvNames(s) = {FirstEnv} /\ Cur(s) = {FirstKey}
  BY <1>1, <1>2, <1>5 DEF EnvNames, Cur
<1>10. WellFormed(l2)
  <2>1. BodyOK("member_add", b)
    BY <1>2 DEF BodyOK, Verification
  <2> QED
    BY <1>2, <1>8, <2>1 DEF WellFormed, Types
<1> HIDE DEF l2
<1>11. /\ FirstChains \in [Person -> Seq([ver: Nat, delegates: SUBSET Delegate])]
       /\ \A u \in Person : /\ Len(FirstChains[u]) = 1 /\ DOMAIN FirstChains[u] = {1}
                            /\ FirstChains[u][1].ver = 1
  <2>1. [ver |-> 1, delegates |-> {}] \in [ver: Nat, delegates: SUBSET Delegate]
    OBVIOUS
  <2> QED
    BY <2>1 DEF FirstChains
<1>12. ValidNext(s, FirstChains, l2)
  <2>1. CheckSigner(s, FirstChains, l2)
    BY <1>2, <1>5, <1>8, <1>11 DEF CheckSigner, SignedByUserKey, PositionMovesOn
  <2>2. ValidMemberAdd(s, l2)
    BY <1>2, <1>5, <1>8, <1>9 DEF ValidMemberAdd, CheckAccess
  <2>3. ValidApply(s, l2)
    BY <1>5, <1>8, <2>2 DEF ValidApply
  <2> QED
    BY <1>5, <1>8, <2>1, <2>3, HourAssumption DEF ValidNext
<1>13. LinkOK(s, FirstChains, l2, st)
  BY <1>5, <1>7, <1>8, <1>10, <1>12, LinkEffect DEF StateOK
<1>14. StateOK(st)
  BY <1>5, <1>13 DEF LinkOK, StateOK
<1>15. /\ st.envs = s.envs
       /\ st.members = [s.members EXCEPT ![Other] =
            [status |-> "active", admin |-> admin, envs |-> IF admin THEN {} ELSE {FirstEnv},
             verified |-> "account-key"]]
  <2>1. s \in State
    BY <1>5 DEF StateOK, RulesOK
  <2>2. Apply(s, l2) = [s EXCEPT !.members[Other] =
            [status |-> "active", admin |-> admin, envs |-> IF admin THEN {} ELSE {FirstEnv},
             verified |-> "account-key"]]
    BY <1>8 DEF Apply, ApplyMemberAdd
  <2> QED
    BY <1>7, <2>1, <2>2 DEF NextState, State
<1>16. EnvNames(st) = {FirstEnv} /\ Cur(st) = {FirstKey} /\ Ret(st) = {}
       /\ st.envs[FirstEnv].key = FirstKey
  <2>1. EnvNames(st) = EnvNames(s) /\ Cur(st) = Cur(s) /\ Ret(st) = Ret(s)
    BY <1>15 DEF EnvNames, Cur, Ret
  <2> QED
    BY <1>2, <1>5, <1>9, <1>15, <2>1
<1>17. FirstEnv \in Access(st, Creator) /\ FirstEnv \in Access(st, Other)
  <2>1. s.members \in [Person -> MemberState]
    BY <1>5, StateFields DEF StateOK, RulesOK
  <2>2. Admin(st, Creator)
    BY <1>2, <1>5, <1>15, <2>1 DEF Admin, Member
  <2>3. /\ st.members[Other].status = "active" /\ st.members[Other].admin = admin
        /\ ~admin => st.members[Other].envs = {FirstEnv}
    BY <1>2, <1>15, <2>1
  <2> QED
    BY <1>2, <1>16, <2>2, <2>3, AccessOf DEF Admin, Member
<1>18. \A h \in Reader : \A k \in given[h] : k \in Cur(st) /\ h \in May(st, k)
  <2> SUFFICES ASSUME NEW h \in Reader, NEW k \in given[h]
               PROVE  k \in Cur(st) /\ h \in May(st, k)
    OBVIOUS
  <2>1. h \in {Creator, Other} /\ k = FirstKey
    BY DEF Init
  <2> QED
    BY <1>2, <1>16, <1>17, <2>1 DEF May, Holder
<1>19. ChainsOK
  <2>1. chains = FirstChains
    BY DEF Init
  <2>2. st.signerSeqs = [s.signerSeqs EXCEPT ![Creator] = 1]
    BY <1>8, <1>13 DEF LinkOK
  <2>3. \A u \in Person : st.signerSeqs[u] \in {0, 1}
    BY <1>2, <1>5, <2>2
  <2>4. SignersKnown
    BY <1>11, <2>1, <2>3 DEF SignersKnown
  <2>5. \A u \in Person : \A p, q \in DOMAIN FirstChains[u] :
          p <= q => FirstChains[u][p].ver <= FirstChains[u][q].ver
    BY <1>11
  <2>6. \A u \in Person : Len(FirstChains[u]) > 0
    BY <1>11
  <2>7. FirstChains \in [Person -> Seq([ver: Nat, delegates: SUBSET Delegate])]
    BY <1>11
  <2>8. ChainsGrow
    BY <2>1, <2>5, <2>6, <2>7, Zenon DEF ChainsGrow
  <2> QED
    BY <2>4, <2>8 DEF ChainsOK
<1>20. /\ device \in [Person -> DeviceState]
       /\ \A u \in Person : /\ device[u].kept = IF u = Creator THEN {FirstKey} ELSE {}
                            /\ \A n \in EnvName : device[u].cur[n] \in device[u].kept \cup {NoKey}
  <2> DEFINE d(u) == IF u = Creator
                     THEN [cur |-> [n \in EnvName |-> IF n = FirstEnv THEN FirstKey ELSE NoKey],
                           kept |-> {FirstKey}]
                     ELSE [cur |-> [n \in EnvName |-> NoKey], kept |-> {}]
  <2>1. device = [u \in Person |-> d(u)]
    BY DEF Init
  <2>2. \A u \in Person : /\ d(u) \in DeviceState
                          /\ d(u).kept = IF u = Creator THEN {FirstKey} ELSE {}
                          /\ \A n \in EnvName : d(u).cur[n] \in d(u).kept \cup {NoKey}
    BY <1>1, <1>2 DEF DeviceState
  <2> HIDE DEF d
  <2> QED
    BY <2>1, <2>2
<1>21. KeysOK
  <2>1. given \in [Reader -> SUBSET EnvKey]
    BY <1>1 DEF Init
  <2> QED
    BY <1>20, <2>1 DEF KeysOK
<1>22. KeysFromOne
  BY <1>2, <1>16, <1>18, <1>20 DEF KeysFromOne, Published
<1>23. CheckoutOK
  BY DEF Init, Fresh, CheckoutOK
<1> QED
  BY <1>14, <1>16, <1>18, <1>19, <1>21, <1>22, <1>23 DEF Inv

LEMMA NextKeeps ==
    ASSUME Inv, Next
    PROVE  Inv' /\ Promise
<1>1. ASSUME NEW u \in Person, Command(u)
      PROVE  Inv' /\ Promise
  <2>1. \A admin \in BOOLEAN : AccessFor(admin) \subseteq SUBSET EnvName
    BY DEF AccessFor, EnvNames
  <2>2. CASE \E v \in Person, admin \in BOOLEAN : \E envs \in AccessFor(admin) :
               AddMember(u, v, admin, envs) \/ UpdateMember(u, v, admin, envs)
    <3>1. PICK v \in Person, admin \in BOOLEAN, envs \in SUBSET EnvName :
            AddMember(u, v, admin, envs) \/ UpdateMember(u, v, admin, envs)
      BY <2>1, <2>2
    <3> QED
      BY <3>1, MemberSteps
  <2>3. ASSUME NEW v \in Person, RemoveMember(u, v)
        PROVE  Inv' /\ Promise
    <3>1. TRUE \in BOOLEAN /\ {} \in SUBSET EnvName
      OBVIOUS
    <3> QED
      BY <2>3, <3>1, MemberSteps
  <2>4. ASSUME NEW m \in Machine, NEW envs \in SUBSET EnvNames(st), CreateMachine(u, m, envs)
        PROVE  Inv' /\ Promise
    <3>1. envs \in SUBSET EnvName
      BY DEF EnvNames
    <3> QED
      BY <2>4, <3>1, MachineSteps
  <2>5. ASSUME NEW m \in Machine, RemoveMachine(u, m)
        PROVE  Inv' /\ Promise
    <3>1. {} \in SUBSET EnvName
      OBVIOUS
    <3> QED
      BY <2>5, <3>1, MachineSteps
  <2>6. CASE Archive(u) \/ Unarchive(u)
    BY <2>6, ArchiveSteps
  <2>7. CASE \E n \in EnvName : PublishEnv(u, n)
    BY <2>7, PublishEnvStep
  <2> QED
    BY <1>1, <2>2, <2>3, <2>4, <2>5, <2>6, <2>7 DEF Command
<1>2. CASE \E u \in Person : \E n \in EnvName : MakeKey(u, n)
  BY <1>2, MakeKeyStep
<1>3. CASE \E u \in Person : Sync(u)
  BY <1>3, SyncSteps
<1>4. CASE \E u \in Person : RotateUserKey(u)
  BY <1>4, RotateStep
<1>5. CASE \E u \in Person : RogueLink(u)
  BY <1>5, RogueLinkStep
<1>6. CASE Rename
  BY <1>6, RenameInVaultStep, RenameFailsStep, RenameHereStep DEF Rename
<1> QED
  BY <1>1, <1>2, <1>3, <1>4, <1>5, <1>6, OtherSteps DEF Next

LEMMA StutterKeeps ==
    ASSUME Inv, UNCHANGED vars
    PROVE  Inv' /\ Promise
<1>1. /\ st' = st /\ chains' = chains /\ device' = device /\ given' = given
      /\ checkout' = checkout
  BY DEF vars
<1>2. KeysOK' /\ CheckoutOK'
  BY <1>1 DEF Inv, KeysOK, CheckoutOK
<1> QED
  BY <1>1, <1>2, PlainStep

\* The inductive invariant holds: the chain is well-formed, positions and keys
\* only grow, and a key outside the chain is with whoever made it.
THEOREM InvHolds == Spec => []Inv
<1>1. Init => Inv
  BY InitKeeps
<1>2. Inv /\ [Next]_vars => Inv'
  BY NextKeeps, StutterKeeps
<1> QED
  BY <1>1, <1>2, PTL DEF Spec

\* No key comes back: KeysNameOneEnv (team.go UsedKey and setEnv).
THEOREM KeysStayApart == Spec => []KeysNameOneEnv
<1>1. Inv => KeysNameOneEnv
  BY DEF Inv, StateOK, RulesOK, KeysApart, KeysNameOneEnv, Key
<1> QED
  BY <1>1, InvHolds, PTL

\* There is always someone who can change the project (team.go
\* applyMemberUpdate and applyMemberRemove keep the last admin).
THEOREM AlwaysSomeAdmin == Spec => []SomeAdmin
<1>1. Inv => SomeAdmin
  BY DEF Inv, StateOK, SomeAdmin
<1> QED
  BY <1>1, InvHolds, PTL

\* Old user keys stay out: OldKeysStayOutProperty (team.go checkSigner).
THEOREM OldKeysStayOut == Spec => OldKeysStayOutProperty
<1>1. Inv /\ [Next]_vars => [\A u \in Person : SignedWith(u)' >= SignedWith(u)]_vars
  BY NextKeeps DEF Promise, SignersMoveOn
<1> QED
  BY <1>1, InvHolds, PTL DEF Spec, OldKeysStayOutProperty

\* The project keeps the promise of KeySharing.
THEOREM ProjectSharesKeys == Spec => SharesKeys
<1>1. Init => Sharing!Init
  <2> SUFFICES ASSUME Init PROVE Sharing!Init
    OBVIOUS
  <2> DEFINE may == [k \in EnvKey |-> {h \in Reader : \E n \in EnvName : Key(n) = k /\ n \in Access(st, h)}]
             suspects == [k \in EnvKey |-> {h \in Reader : \E n \in EnvName : Key(n) = k /\ h \in st.envs[n].exposed}]
             has == [h \in Reader |-> given[h] \cap (Current \cup Retired)]
  <2>1. Current = Cur(st) /\ Retired = Ret(st)
    BY DEF Current, Key, Cur, Retired, Ret
  <2>2. /\ Inv /\ Ret(st) = {}
        /\ \A h \in Reader : \A k \in given[h] : k \in Cur(st) /\ h \in May(st, k)
    BY InitKeeps
  <2>3. Cur(st) \in SUBSET EnvKey /\ given \in [Reader -> SUBSET EnvKey]
    BY <2>2, KeysTyped DEF Inv, StateOK, KeysOK
  <2>4. \A k \in EnvKey : may[k] = May(st, k) \cap Reader
    BY <2>2, AccessTyped DEF Inv, StateOK, RulesOK, May, Key, Reader, Holder
  <2>5. /\ may \in [EnvKey -> SUBSET Reader] /\ suspects \in [EnvKey -> SUBSET Reader]
        /\ has \in [Reader -> SUBSET EnvKey]
    BY <2>3
  <2>6. \A h \in Reader : has[h] \subseteq given[h]
    OBVIOUS
  <2> HIDE DEF may, suspects, has
  <2>7. \A h \in Reader : \A k \in has[h] : k \in Current /\ h \in may[k]
    BY <2>1, <2>2, <2>3, <2>4, <2>6
  <2> QED
    BY <2>1, <2>2, <2>3, <2>5, <2>7 DEF Sharing!Init, Sharing!TypeOK, may, suspects, has
<1>2. Inv /\ Inv' /\ Next => Sharing!Step
  <2> SUFFICES ASSUME Inv, Inv', Next PROVE Sharing!Step
    OBVIOUS
  <2>1. Promise
    BY NextKeeps
  <2>2. /\ StateOK(st) /\ StateOK(st')
        /\ given \in [Reader -> SUBSET EnvKey] /\ given' \in [Reader -> SUBSET EnvKey]
    BY DEF Inv, KeysOK
  <2> QED
    BY <2>1, <2>2, StepShares DEF Promise
<1>3. UNCHANGED vars => UNCHANGED Sharing!vars
  BY DEF vars, Sharing!vars, Current, Retired, Key, EnvNames, Access, Member, Reader
<1>4. Inv /\ Inv' /\ [Next]_vars => [Sharing!Step]_(Sharing!vars)
  BY <1>2, <1>3
<1> QED
  BY <1>1, <1>4, InvHolds, PTL DEF Spec, SharesKeys, Sharing!Spec

\* The values that KeySharing speaks of.
MayHave == [k \in EnvKey |-> {h \in Reader : \E n \in EnvName : Key(n) = k /\ n \in Access(st, h)}]
Suspects == [k \in EnvKey |-> {h \in Reader : \E n \in EnvName : Key(n) = k /\ h \in st.envs[n].exposed}]
Has == [h \in Reader |-> given[h] \cap (Current \cup Retired)]

SharersKnown ==
    \A h \in Reader : \A k \in Has[h] \cap Current : h \in MayHave[k] \/ h \in Suspects[k]

\* Known holders: nobody has a key in use unnoticed.  A key someone has is in
\* use or retired (Has says so); if it is in use after a step it was in use
\* before, since no retired key comes back, so that losing it made a suspect.
THEOREM HoldersStayKnown == Sharing!Spec => []Sharing!HoldersKnown
<1>1. Sharing!HoldersKnown <=> SharersKnown
  BY DEF Sharing!HoldersKnown, SharersKnown, MayHave, Suspects, Has
<1>2. Sharing!Init => SharersKnown
  BY DEF Sharing!Init, SharersKnown, MayHave, Suspects, Has
<1>3. \A h \in Reader : Has[h] \subseteq Current \cup Retired
  BY DEF Has
<1>4. ASSUME SharersKnown, Sharing!Step, \A h \in Reader : Has[h] \subseteq Current \cup Retired
      PROVE  SharersKnown'
  <2>1. /\ Current' \cap Retired' = {} /\ Retired \subseteq Retired'
        /\ \A h \in Reader : \A k \in Has'[h] \ Has[h] : k \in Current' /\ h \in MayHave'[k]
        /\ \A k \in Current \cap Current' :
             Suspects[k] \cup (MayHave[k] \ MayHave'[k]) \subseteq Suspects'[k]
    BY <1>4 DEF Sharing!Step, Sharing!Replace, Sharing!Give, Sharing!Suspect, MayHave, Suspects, Has
  <2> SUFFICES ASSUME NEW h \in Reader, NEW k \in Has'[h] \cap Current'
               PROVE  h \in MayHave'[k] \/ h \in Suspects'[k]
    BY DEF SharersKnown
  <2>2. CASE k \in Has[h]
    <3>1. k \in Current
      BY <1>4, <2>1, <2>2
    <3>2. h \in MayHave[k] \/ h \in Suspects[k]
      BY <1>4, <2>2, <3>1 DEF SharersKnown
    <3> QED
      BY <2>1, <3>1, <3>2
  <2>3. CASE k \notin Has[h]
    BY <2>1, <2>3
  <2> QED
    BY <2>2, <2>3
<1>5. ASSUME SharersKnown, UNCHANGED Sharing!vars
      PROVE  SharersKnown'
  <2>1. Current' = Current /\ MayHave' = MayHave /\ Suspects' = Suspects /\ Has' = Has
    BY <1>5 DEF Sharing!vars, MayHave, Suspects, Has
  <2> QED
    BY <1>5, <2>1 DEF SharersKnown
<1>6. SharersKnown /\ [Sharing!Step]_(Sharing!vars) => SharersKnown'
  BY <1>3, <1>4, <1>5
<1> QED
  BY <1>1, <1>2, <1>6, PTL DEF Sharing!Spec

\* Hence whoever was given the key of an environment may read it or is listed
\* there as exposed.
THEOREM ReadersAreKnown == Spec => []ReadersOrExposed
<1>1. Spec => []Sharing!HoldersKnown
  BY ProjectSharesKeys, HoldersStayKnown, PTL DEF SharesKeys
<1>2. Inv /\ Sharing!HoldersKnown => ReadersOrExposed
  <2> SUFFICES ASSUME Inv, Sharing!HoldersKnown,
                      NEW h \in Reader, NEW n \in EnvNames(st), Key(n) \in given[h]
               PROVE  n \in Access(st, h) \/ h \in st.envs[n].exposed
    BY DEF ReadersOrExposed
  <2>1. n \in EnvName /\ Key(n) \in Current /\ Key(n) \in EnvKey /\ Key(n) # NoKey
    <3>1. n \in EnvName /\ Key(n) \in Current /\ Key(n) # NoKey
      BY DEF EnvNames, Key, Current
    <3> QED
      BY <3>1, EnvFields DEF Inv, StateOK, RulesOK, Key
  <2>2. \/ \E m \in EnvName : Key(m) = Key(n) /\ m \in Access(st, h)
        \/ \E m \in EnvName : Key(m) = Key(n) /\ h \in st.envs[m].exposed
    BY <2>1 DEF Sharing!HoldersKnown
  <2>3. \A m \in EnvName : Key(m) = Key(n) => m = n
    BY <2>1 DEF Inv, StateOK, RulesOK, KeysApart, Key
  <2> QED
    BY <2>2, <2>3
<1> QED
  BY <1>1, <1>2, InvHolds, PTL

-----------------------------------------------------------------------------
(* Induction over the writes of a rename: over a set of numbers, with the  *)
(* least one left out.                                                     *)

LEMMA LeastNat ==
    ASSUME NEW T \in SUBSET Nat, T # {}
    PROVE  \E n \in T : \A m \in T : ~(m < n)
<1> DEFINE R == OpToRel(<, Nat)
<1>1. IsWellFoundedOn(R, Nat)
  BY NatLessThanWellFounded
<1>2. R = {ss \in Nat \X Nat : ss[1] < ss[2]}
  BY DEF OpToRel
<1> HIDE DEF R
<1>3. PICK n \in T : \A m \in T : ~(<<m, n>> \in R)
  BY <1>1, WFMin
<1>4. \A m \in T : m < n => <<m, n>> \in R
  BY <1>2
<1> QED  BY <1>3, <1>4

\* Induction over a set of numbers.
LEMMA AllNat ==
    ASSUME NEW T, 0 \in T, \A n \in Nat : n \in T => n + 1 \in T
    PROVE  \A n \in Nat : n \in T
<1> SUFFICES ASSUME NEW z \in Nat, z \notin T PROVE FALSE
  OBVIOUS
<1> DEFINE B == {n \in Nat : n \notin T}
<1>1. PICK n \in B : \A m \in B : ~(m < n)
  <2>1. B \in SUBSET Nat /\ B # {}
    OBVIOUS
  <2> HIDE DEF B
  <2> QED  BY <2>1, LeastNat
<1>2. n \in Nat /\ n # 0 /\ n - 1 \in Nat /\ n - 1 < n
  BY <1>1
<1>3. n - 1 \in T
  BY <1>1, <1>2
<1>4. (n - 1) + 1 \in T /\ (n - 1) + 1 = n
  BY <1>2, <1>3
<1> QED  BY <1>1, <1>4

Write(x) == IF x.journal = NoJournal THEN x ELSE ApplyStep(x)

\* f counts the first writes from c.
Writes(f, c, n) == f = [k \in 0..n |-> IF k = 0 THEN c ELSE Write(f[k - 1])]

LEMMA SomeWrites ==
    ASSUME NEW c
    PROVE  \A n \in Nat : \E f : Writes(f, c, n)
<1> DEFINE T == {n \in Nat : \E f : Writes(f, c, n)}
<1>1. 0 \in T
  <2> DEFINE f == [k \in 0..0 |-> c]
  <2>1. f = [k \in 0..0 |-> IF k = 0 THEN c ELSE Write(f[k - 1])]
    OBVIOUS
  <2> HIDE DEF f
  <2> QED  BY <2>1 DEF Writes
<1>2. ASSUME NEW n \in Nat, n \in T
      PROVE  n + 1 \in T
  <2>1. PICK f : Writes(f, c, n)
    BY <1>2
  <2> DEFINE g == [k \in 0..(n + 1) |-> IF k = n + 1 THEN Write(f[n]) ELSE f[k]]
  <2>2. f = [k \in 0..n |-> IF k = 0 THEN c ELSE Write(f[k - 1])]
    BY <2>1 DEF Writes
  <2>3. \A k \in 0..n : f[k] = IF k = 0 THEN c ELSE Write(f[k - 1])
    BY <2>2
  <2>4. \A k \in 0..n : g[k] = f[k]
    OBVIOUS
  <2>5. g[n + 1] = Write(f[n]) /\ g[n] = f[n] /\ (n + 1) - 1 = n
    OBVIOUS
  <2>6. ASSUME NEW k \in 0..(n + 1)
        PROVE  g[k] = IF k = 0 THEN c ELSE Write(g[k - 1])
    <3>1. CASE k = n + 1
      BY <2>5, <3>1
    <3>2. CASE k # n + 1 /\ k = 0
      BY <2>3, <2>4, <3>2
    <3>3. CASE k # n + 1 /\ k # 0
      <4>1. k \in 0..n /\ k - 1 \in 0..n
        BY <3>3
      <4>2. g[k] = f[k] /\ g[k - 1] = f[k - 1] /\ f[k] = Write(f[k - 1])
        BY <2>3, <2>4, <3>3, <4>1
      <4> QED  BY <3>3, <4>2
    <3> QED  BY <3>1, <3>2, <3>3
  <2>7. g = [k \in 0..(n + 1) |-> g[k]]
    OBVIOUS
  <2> HIDE DEF g
  <2>8. Writes(g, c, n + 1)
    BY <2>6, <2>7 DEF Writes
  <2> QED  BY <2>8
<1> HIDE DEF T
<1>3. \A n \in Nat : n \in T
  BY <1>1, <1>2, AllNat
<1> QED  BY <1>3 DEF T

\* After is what its recursion says.
LEMMA AfterIs ==
    ASSUME NEW c
    PROVE  Writes(After(c), c, MaxWrites)
<1>1. After(c) = CHOOSE f : Writes(f, c, MaxWrites)
  BY DEF After, Writes, Write
<1>2. \E f : Writes(f, c, MaxWrites)
  BY FilesAssumption, SomeWrites DEF MaxWrites
<1> QED  BY <1>1, <1>2

-----------------------------------------------------------------------------
(* A rename in a checkout.                                                 *)

RenamedGone == \A n \in EnvName : st.renames[n] # NoEnv => Key(n) = NoKey

Checkouts == [journal: Journal \cup {NoJournal},
              files: [Files -> {{"old"}, {"old", "new"}, {"new"}}],
              marker: {"old", "new"}, run: {"none", "vault", "here"}]

\* The creator's named keys.
Entry == device[Creator].cur

\* Only the planned rename was made, if any, and the key is under one of its
\* two names, under the new one alone once it moved.
Underway(j) ==
    /\ j.old # j.new
    /\ \A n \in EnvName : st.renames[n] # NoEnv => n = j.old /\ st.renames[n] = j.new
    /\ Entry[j.old] = NoKey => st.renames[j.old] # NoEnv /\ Entry[j.new] # NoKey

EntryMoved ==
    \E n \in EnvName : st.renames[n] # NoEnv /\ Entry[n] = NoKey /\ Entry[st.renames[n]] # NoKey

Unrenamed == \A n \in EnvName : st.renames[n] = NoEnv

RenameOK ==
    /\ RenamedGone
    /\ checkout \in Checkouts
    /\ checkout.run # "none" => checkout.journal \in Journal
    /\ checkout.run = "here" => st.renames[checkout.journal.old] # NoEnv
    /\ checkout.journal \in Journal => Underway(checkout.journal)
    /\ checkout.journal = NoJournal =>
         \/ checkout = Fresh /\ Unrenamed
         \/ Moved(checkout) /\ checkout.marker = "new" /\ EntryMoved

\* The writes that are left, however many of them are made, leave each file
\* somewhere, and the journal until all is done.
LEMMA AfterKeeps ==
    ASSUME NEW c \in Checkouts, NEW n \in 0..MaxWrites
    PROVE  /\ After(c)[n] \in Checkouts
           /\ \/ After(c)[n].journal = c.journal
              \/ /\ After(c)[n].journal = NoJournal
                 /\ Moved(After(c)[n]) /\ After(c)[n].marker = "new"
<1> DEFINE w == After(c)
           OK(x) == /\ x \in Checkouts
                    /\ \/ x.journal = c.journal
                       \/ x.journal = NoJournal /\ Moved(x) /\ x.marker = "new"
           T == {k \in Nat : k <= MaxWrites => OK(w[k])}
<1>1. MaxWrites \in Nat
  BY FilesAssumption DEF MaxWrites
<1>2. \A k \in 0..MaxWrites : w[k] = IF k = 0 THEN c ELSE Write(w[k - 1])
  <2> DEFINE e(k) == IF k = 0 THEN c ELSE Write(w[k - 1])
  <2>1. w = [k \in 0..MaxWrites |-> e(k)]
    BY AfterIs DEF Writes
  <2> HIDE DEF w, e
  <2>2. \A k \in 0..MaxWrites : w[k] = e(k)
    BY <2>1
  <2> QED  BY <2>2 DEF e
<1>3. ASSUME NEW x, OK(x)
      PROVE  OK(Write(x))
  <2>1. CASE x.journal = NoJournal
    BY <1>3, <2>1 DEF Write
  <2>2. CASE x.journal # NoJournal /\ ~Moved(x)
    <3> DEFINE f == FirstLeft(x)
               p == IF "new" \in x.files[f] THEN {"new"} ELSE {"old", "new"}
               files == [x.files EXCEPT ![f] = p]
    <3>1. x.files \in [Files -> {{"old"}, {"old", "new"}, {"new"}}]
      BY <1>3 DEF Checkouts
    <3>2. p \in {{"old"}, {"old", "new"}, {"new"}}
      OBVIOUS
    <3> HIDE DEF f, p
    <3>3. files \in [Files -> {{"old"}, {"old", "new"}, {"new"}}]
      BY <3>1, <3>2
    <3>4. Write(x) = [x EXCEPT !.files = files]
      BY <1>3, <2>2 DEF Write, ApplyStep, PublishStep, Checkouts, f, p
    <3> HIDE DEF files
    <3> QED  BY <1>3, <2>2, <3>3, <3>4 DEF Checkouts
  <2>3. CASE x.journal # NoJournal /\ Moved(x) /\ x.marker = "old"
    <3>1. Write(x) = [x EXCEPT !.marker = "new"]
      BY <2>3 DEF Write, ApplyStep, WriteMarker
    <3> QED  BY <1>3, <2>3, <3>1 DEF Checkouts
  <2>4. CASE x.journal # NoJournal /\ Moved(x) /\ x.marker # "old"
    <3>1. Write(x) = [x EXCEPT !.journal = NoJournal, !.run = "none"]
      BY <2>4 DEF Write, ApplyStep, Finish
    <3> QED  BY <1>3, <2>4, <3>1 DEF Checkouts, Moved
  <2> QED  BY <2>1, <2>2, <2>3, <2>4
<1> HIDE DEF w
<1>4. OK(c)
  OBVIOUS
<1> HIDE DEF OK
<1>5. 0 \in T
  BY <1>1, <1>2, <1>4
<1>6. ASSUME NEW k \in Nat, k \in T
      PROVE  k + 1 \in T
  <2> SUFFICES ASSUME k + 1 <= MaxWrites
               PROVE  OK(w[k + 1])
    OBVIOUS
  <2>1. k <= MaxWrites /\ k + 1 \in 0..MaxWrites /\ k + 1 # 0 /\ (k + 1) - 1 = k
    BY <1>1
  <2>2. w[k + 1] = Write(w[k])
    BY <1>2, <2>1
  <2>3. OK(w[k])
    BY <1>6, <2>1
  <2> QED  BY <1>3, <2>2, <2>3
<1> HIDE DEF T
<1>7. \A k \in Nat : k \in T
  BY <1>5, <1>6, AllNat
<1>8. OK(w[n])
  BY <1>1, <1>7 DEF T
<1> QED  BY <1>8 DEF OK, w

-----------------------------------------------------------------------------
(* What a link does to the names.                                          *)

LEMMA RenamesOf ==
    ASSUME NEW s \in State, NEW l, l.type \in Types \ {"init"}, ValidApply(s, l),
           \A n \in EnvName : s.renames[n] # NoEnv => s.envs[n].key = NoKey
    PROVE  LET t == NextState(s, l)
           IN  /\ \A n \in EnvName : t.renames[n] # NoEnv => t.envs[n].key = NoKey
               /\ l.type # "env_rename" => t.renames = s.renames
               /\ l.type = "env_rename" /\ l.b.old \in EnvName =>
                    t.renames = [n \in EnvName |->
                      IF n = l.b.old \/ s.renames[n] = l.b.old THEN l.b.new ELSE s.renames[n]]
<1> DEFINE x == Apply(s, l)
           t == NextState(s, l)
<1>1. t.renames = x.renames /\ t.envs = x.envs
  BY DEF NextState
<1>2. s.envs \in [EnvName -> EnvState] /\ s.renames \in [EnvName -> EnvName \cup {NoEnv}]
  BY StateFields
<1>3. \A y, lost, h : (Expose(y, lost, h)).renames = y.renames
  BY DEF Expose
<1>4. \A y, lost, h : \A n \in EnvName : (Expose(y, lost, h)).envs[n].key = y.envs[n].key
  <2> TAKE y, lost, h
  <2> TAKE n \in EnvName
  <2> DEFINE f(m) == IF m \in lost \cap EnvNames(y)
                     THEN [y.envs[m] EXCEPT !.exposed = @ \cup {h}] ELSE y.envs[m]
             g == [m \in EnvName |-> f(m)]
  <2>1. (Expose(y, lost, h)).envs = g
    BY DEF Expose
  <2>2. f(n).key = y.envs[n].key
    OBVIOUS
  <2> QED  BY <2>1, <2>2
<1> HIDE DEF x
<1>5. CASE l.type = "env_set"
  <2>1. x = SetEnv(s, l.b.env, l.b.key, l.time) /\ s.renames[l.b.env] = NoEnv
    BY <1>5 DEF x, Apply, ValidApply, ValidEnvSet
  <2>2. x.renames = s.renames /\ \A n \in EnvName \ {l.b.env} : x.envs[n] = s.envs[n]
    BY <1>2, <2>1 DEF SetEnv
  <2> QED  BY <1>1, <1>5, <2>1, <2>2
<1>6. CASE l.type = "env_rename"
  <2> DEFINE old == l.b.old
             new == l.b.new
             name(n) == IF n = old \/ s.renames[n] = old THEN new ELSE s.renames[n]
  <2>1. /\ x.renames = [n \in EnvName |-> name(n)]
        /\ x.envs = [s.envs EXCEPT ![new] = s.envs[old], ![old] = NoEnvState]
    <3> DEFINE R == [n \in EnvName |-> name(n)]
               E == [s.envs EXCEPT ![new] = s.envs[old], ![old] = NoEnvState]
    <3>1. \E a, b, c : x = [s EXCEPT !.envs = E, !.members = a, !.machines = b, !.groups = c,
                                     !.renames = R]
      BY <1>6 DEF x, Apply, ApplyEnvRename
    <3> HIDE DEF R, E
    <3>2. x.renames = R /\ x.envs = E
      BY <3>1 DEF State
    <3> QED  BY <3>2 DEF R, E
  <2>2. old \in EnvName /\ s.envs[old].key # NoKey /\ s.renames[new] = NoEnv
        /\ ~(new \in EnvName /\ s.envs[new].key # NoKey)
    BY <1>6 DEF ValidApply, ValidEnvRename, EnvNames
  <2>3. old # new
    BY <2>2
  <2>4. NoEnvState.key = NoKey
    BY DEF NoEnvState
  <2>5. ASSUME NEW n \in EnvName, x.renames[n] # NoEnv
        PROVE  x.envs[n].key = NoKey
    <3>1. CASE n = old
      BY <1>2, <2>1, <2>4, <3>1
    <3>2. CASE n # old
      <4>1. s.renames[n] # NoEnv
        BY <2>1, <2>2, <2>5, <3>2, NoEnvAssumption
      <4>2. n # new /\ s.envs[n].key = NoKey
        BY <2>2, <4>1
      <4> QED  BY <1>2, <2>1, <3>2, <4>2
    <3> QED  BY <3>1, <3>2
  <2> QED  BY <1>1, <1>6, <2>1, <2>5
<1>7. CASE l.type \notin {"env_set", "env_rename"}
  <2>1. x.renames = s.renames /\ \A n \in EnvName : x.envs[n].key = s.envs[n].key
    <3>1. CASE l.type = "member_add"
      <4>1. \E m : x = [s EXCEPT !.members[l.b.user] = m]
        BY <3>1 DEF x, Apply, ApplyMemberAdd
      <4>2. x.renames = s.renames /\ x.envs = s.envs
        BY <4>1 DEF State
      <4> QED  BY <4>2
    <3>2. CASE l.type = "member_update"
      <4> DEFINE y == [s EXCEPT !.members[l.b.user].admin = l.b.admin,
                                !.members[l.b.user].envs = l.b.envs]
      <4>1. y.renames = s.renames /\ y.envs = s.envs
        OBVIOUS
      <4>2. \E lost : x = Expose(y, lost, l.b.user)
        BY <3>2 DEF x, Apply, ApplyMemberUpdate
      <4> HIDE DEF y
      <4> QED  BY <1>3, <1>4, <4>1, <4>2
    <3>3. CASE l.type = "member_remove"
      <4> DEFINE y == Expose(s, Access(s, l.b.user), l.b.user)
      <4>1. x = [y EXCEPT !.members[l.b.user].status = "former"]
        BY <3>3 DEF x, Apply, ApplyMemberRemove
      <4> HIDE DEF y
      <4>3. x.renames = y.renames /\ x.envs = y.envs
        BY <4>1
      <4> QED  BY <1>3, <1>4, <4>3 DEF y
    <3>4. CASE l.type = "machine_add"
      <4>1. \E m : x = [s EXCEPT !.machines[l.b.machine] = m]
        BY <3>4 DEF x, Apply, ApplyMachineAdd
      <4>2. x.renames = s.renames /\ x.envs = s.envs
        BY <4>1 DEF State
      <4> QED  BY <4>2
    <3>5. CASE l.type = "machine_remove"
      <4> DEFINE lost == s.machines[l.b.machine].envs
                 y == Expose(s, lost, l.b.machine)
      <4>1. x = [y EXCEPT !.machines[l.b.machine].status = "former"]
        BY <3>5 DEF x, Apply, ApplyMachineRemove
      <4> HIDE DEF y, lost
      <4>3. x.renames = y.renames /\ x.envs = y.envs
        BY <4>1
      <4>4. y = Expose(s, lost, l.b.machine)
        BY DEF y
      <4> QED  BY <1>3, <1>4, <4>3, <4>4
    <3>6. CASE l.type = "group_set"
      <4>1. \E lost : x.renames = (Expose(s, lost, l.b.group)).renames
                      /\ x.envs = (Expose(s, lost, l.b.group)).envs
        <5>1. CASE l.b.envs = {}
          <6> DEFINE lost == s.groups[l.b.group].envs
                     y == Expose(s, lost, l.b.group)
          <6>1. x = [y EXCEPT !.groups[l.b.group].status = "former"]
            BY <3>6, <5>1 DEF x, Apply, ApplyGroupSet
          <6> HIDE DEF y
          <6>2. x.renames = y.renames /\ x.envs = y.envs
            BY <6>1
          <6> QED  BY <6>2 DEF y
        <5>2. CASE l.b.envs # {}
          <6> DEFINE lost == Access(s, l.b.group) \ l.b.envs
                     y == Expose(s, lost, l.b.group)
          <6>1. \E g : x = [y EXCEPT !.groups[l.b.group] = g]
            BY <3>6, <5>2 DEF x, Apply, ApplyGroupSet
          <6>2. x.renames = y.renames /\ x.envs = y.envs
            BY <6>1
          <6> QED  BY <6>2
        <5> QED  BY <5>1, <5>2
      <4> QED  BY <1>3, <1>4, <4>1
    <3>7. CASE l.type \in {"archive", "unarchive"}
      BY <1>2, <3>7 DEF x, Apply
    <3>8. l.type \in {"member_add", "member_update", "member_remove", "machine_add",
                      "machine_remove", "group_set", "archive", "unarchive"}
      BY <1>7 DEF Types
    <3> QED  BY <3>1, <3>2, <3>3, <3>4, <3>5, <3>6, <3>7, <3>8
  <2> QED  BY <1>1, <1>7, <2>1
<1> QED  BY <1>5, <1>6, <1>7

-----------------------------------------------------------------------------
(* Every step keeps RenameOK.                                              *)

\* A step that leaves the checkout alone.
LEMMA Onlooker ==
    ASSUME RenameOK, checkout' = checkout, st'.renames = st.renames, RenamedGone',
           \A n \in EnvName : Entry[n] # NoKey => Entry'[n] # NoKey,
           \A n \in EnvName : Entry[n] = NoKey /\ st.renames[n] # NoEnv => Entry'[n] = NoKey,
           st.renames \in [EnvName -> EnvName \cup {NoEnv}]
    PROVE  RenameOK'
<1>1. ASSUME checkout.journal \in Journal
      PROVE  Underway(checkout.journal)'
  <2> DEFINE j == checkout.journal
  <2>1. j.old \in EnvName /\ j.new \in EnvName
    BY <1>1 DEF Journal
  <2>2. Underway(j)
    BY <1>1 DEF RenameOK
  <2> QED  BY <2>1, <2>2 DEF Underway
<1>2. EntryMoved => EntryMoved'
  BY DEF EntryMoved
<1>3. Unrenamed => Unrenamed'
  BY DEF Unrenamed
<1>4. Moved(checkout) => Moved(checkout')
  OBVIOUS
<1> QED  BY <1>1, <1>2, <1>3, <1>4 DEF RenameOK

\* One that leaves the chain alone as well.
LEMMA DeviceOnly ==
    ASSUME Inv, RenameOK, checkout' = checkout, st' = st,
           \A n \in EnvName : Entry[n] # NoKey => Entry'[n] # NoKey,
           \A n \in EnvName : Entry[n] = NoKey /\ st.renames[n] # NoEnv => Entry'[n] = NoKey
    PROVE  RenameOK'
<1>1. RenamedGone'
  BY DEF RenameOK, RenamedGone, Key
<1>2. st.renames \in [EnvName -> EnvName \cup {NoEnv}]
  BY StateFields DEF Inv, StateOK, RulesOK
<1> QED  BY <1>1, <1>2, Onlooker

\* A link that is no rename, from whichever device.
LEMMA LinkOnly ==
    ASSUME Inv, RenameOK, NEW l, l.type \in Types \ {"init", "env_rename"},
           ValidNext(st, chains, l), st' = NextState(st, l), checkout' = checkout,
           device'[Creator].cur = device[Creator].cur
    PROVE  RenameOK'
<1>1. ValidApply(st, l)
  BY DEF ValidNext
<1>2. st \in State
  BY DEF Inv, StateOK, RulesOK
<1>3. \A n \in EnvName : st.renames[n] # NoEnv => st.envs[n].key = NoKey
  BY DEF RenameOK, RenamedGone, Key
<1>4. /\ \A n \in EnvName : st'.renames[n] # NoEnv => st'.envs[n].key = NoKey
      /\ st'.renames = st.renames
  <2> DEFINE t == NextState(st, l)
  <2>1. l.type \in Types \ {"init"} /\ l.type # "env_rename"
    OBVIOUS
  <2>2. /\ \A n \in EnvName : t.renames[n] # NoEnv => t.envs[n].key = NoKey
        /\ l.type # "env_rename" => t.renames = st.renames
    BY ONLY <1>1, <1>2, <1>3, <2>1, RenamesOf
  <2> HIDE DEF t
  <2>3. st' = t
    BY DEF t
  <2> QED
    BY <2>1, <2>2, <2>3
<1>5. RenamedGone'
  BY <1>4 DEF RenamedGone, Key
<1>6. st.renames \in [EnvName -> EnvName \cup {NoEnv}]
  BY <1>2, StateFields
<1>7. Entry' = Entry
  BY DEF Entry
<1> QED  BY <1>4, <1>5, <1>6, <1>7, Onlooker

LEMMA CommandRenames ==
    ASSUME Inv, RenameOK, NEW u \in Person, Command(u)
    PROVE  RenameOK'
<1>1. ASSUME NEW type \in Types \ {"init", "env_rename"}, NEW body, NEW new,
             Sign(u, LinkOf(u, type, body), new)
      PROVE  RenameOK'
  <2> DEFINE l == LinkOf(u, type, body)
  <2>1. l.type = type
    BY DEF LinkOf, NewLink
  <2>2. /\ ValidNext(st, chains, l) /\ st' = NextState(st, l)
        /\ checkout' = checkout /\ device' = device
    BY <1>1 DEF Sign, Commit
  <2> HIDE DEF l
  <2> QED  BY <1>1, <2>1, <2>2, LinkOnly
<1>2. ASSUME NEW v \in Person, NEW admin \in BOOLEAN, NEW envs, AddMember(u, v, admin, envs)
      PROVE  RenameOK'
  BY <1>1, <1>2 DEF AddMember, Types
<1>3. ASSUME NEW v \in Person, NEW admin \in BOOLEAN, NEW envs, UpdateMember(u, v, admin, envs)
      PROVE  RenameOK'
  BY <1>1, <1>3 DEF UpdateMember, Types
<1>4. ASSUME NEW v \in Person, RemoveMember(u, v)
      PROVE  RenameOK'
  BY <1>1, <1>4 DEF RemoveMember, Types
<1>5. ASSUME NEW m \in Machine, NEW envs, CreateMachine(u, m, envs)
      PROVE  RenameOK'
  BY <1>1, <1>5 DEF CreateMachine, Types
<1>6. ASSUME NEW m \in Machine, RemoveMachine(u, m)
      PROVE  RenameOK'
  BY <1>1, <1>6 DEF RemoveMachine, Types
<1>7. CASE Archive(u) \/ Unarchive(u)
  BY <1>1, <1>7 DEF Archive, Unarchive, Types
<1>8. ASSUME NEW n \in EnvName, PublishEnv(u, n)
      PROVE  RenameOK'
  <2> DEFINE l == LinkOf(u, "env_set", [env |-> n, key |-> device[u].cur[n]])
  <2>1. l.type = "env_set" /\ "env_set" \in Types
    BY DEF LinkOf, NewLink, Types
  <2>2. /\ ValidNext(st, chains, l) /\ st' = NextState(st, l)
        /\ checkout' = checkout /\ device' = device
    BY <1>8 DEF PublishEnv, Commit
  <2> HIDE DEF l
  <2> QED  BY <2>1, <2>2, LinkOnly
<1> QED
  BY <1>2, <1>3, <1>4, <1>5, <1>6, <1>7, <1>8 DEF Command

\* A key made for a name that is free, or has one, moves no name.
LEMMA MakeKeyRenames ==
    ASSUME Inv, RenameOK, NEW u \in Person, NEW n \in EnvName, MakeKey(u, n)
    PROVE  RenameOK'
<1>1. device \in [Person -> DeviceState] /\ Creator \in Person
  BY PeopleAssumption DEF Inv, KeysOK
<1>2. /\ checkout' = checkout /\ st' = st
      /\ n \in EnvNames(st) \/ st.renames[n] = NoEnv
  BY DEF MakeKey
<1>3. st.renames[n] = NoEnv
  BY <1>2 DEF RenameOK, RenamedGone, EnvNames, Key
<1>4. PICK k \in EnvKey : device' = [device EXCEPT ![u].cur[n] = k, ![u].kept = @ \cup {k}]
  <2> DEFINE k == CHOOSE k \in Unmade : \A j \in Unmade : k <= j
  <2>1. Unmade # {} /\ Unmade \in SUBSET EnvKey
    BY DEF MakeKey, Unmade
  <2>2. k \in Unmade
    BY <2>1, KeysAssumption
  <2>3. device' = [device EXCEPT ![u].cur[n] = k, ![u].kept = @ \cup {k}]
    BY DEF MakeKey
  <2> HIDE DEF k
  <2> QED  BY <2>1, <2>2, <2>3
<1>5. Entry' = Entry \/ Entry' = [Entry EXCEPT ![n] = k]
  BY <1>1, <1>4 DEF Entry, DeviceState
<1>6. Entry \in [EnvName -> EnvKey \cup {NoKey}]
  BY <1>1 DEF Entry, DeviceState
<1>7. k # NoKey
  BY <1>4, NoKeyAssumption
<1> QED  BY <1>2, <1>3, <1>5, <1>6, <1>7, DeviceOnly

\* An import brings keys of environments, under the names they have now.
LEMMA ImportRenames ==
    ASSUME Inv, RenameOK, NEW u \in Person, Import(u)
    PROVE  RenameOK'
<1>1. /\ st' = st /\ checkout' = checkout
      /\ \/ device' = device
         \/ \E take \in SUBSET EnvNames(st) :
              device' = [device EXCEPT ![u] = Took(u, take)]
  BY ImportTakes
<1>2. device \in [Person -> DeviceState] /\ Creator \in Person
  BY PeopleAssumption DEF Inv, KeysOK
<1>3. Entry' = Entry \/ \E take \in SUBSET EnvNames(st) :
        Entry' = [n \in EnvName |-> IF n \in take THEN Key(n) ELSE Entry[n]]
  <2>1. CASE device' = device
    BY <2>1 DEF Entry
  <2>2. ASSUME NEW take \in SUBSET EnvNames(st),
               device' = [device EXCEPT ![u] = Took(u, take)]
        PROVE  \/ Entry' = Entry
               \/ Entry' = [n \in EnvName |-> IF n \in take THEN Key(n) ELSE Entry[n]]
    <3>1. Took(u, take).cur = [n \in EnvName |-> IF n \in take THEN Key(n) ELSE device[u].cur[n]]
      BY DEF Took
    <3>2. CASE u = Creator
      <4>1. device'[Creator].cur = Took(u, take).cur
        BY <1>2, <2>2, <3>2
      <4> QED  BY <3>1, <3>2, <4>1 DEF Entry
    <3>3. CASE u # Creator
      BY <1>2, <2>2, <3>3 DEF Entry
    <3> QED  BY <3>2, <3>3
  <2> QED  BY <1>1, <2>1, <2>2
<1>4. \A n \in EnvNames(st) : n \in EnvName /\ Key(n) # NoKey /\ st.renames[n] = NoEnv
  BY DEF EnvNames, Key, RenameOK, RenamedGone
<1> QED  BY <1>1, <1>3, <1>4, DeviceOnly

LEMMA OtherRenames ==
    ASSUME Inv, RenameOK,
           \/ \E u \in Person : Fetch(u) \/ AckCheck(u) \/ AckStore(u)
                                \/ Own(u) \/ Others(u) \/ Send(u)
           \/ \E u \in Person : RotateUserKey(u) \/ Crash(u)
           \/ UNCHANGED vars
    PROVE  RenameOK'
<1>1. st' = st /\ checkout' = checkout /\ device' = device
  BY DEF Fetch, AckCheck, AckStore, Own, Others, Send, RotateUserKey, Crash, vars
<1> QED  BY <1>1, DeviceOnly DEF Entry

LEMMA RogueRenames ==
    ASSUME Inv, RenameOK, NEW u \in Person, RogueLink(u)
    PROVE  RenameOK'
<1>1. PICK l : /\ l.type = "member_update"
               /\ ValidNext(st, chains, l) /\ st' = NextState(st, l)
  <2>1. PICK p \in DOMAIN chains[u], v \in Person, admin \in BOOLEAN :
          LET l == NewLink(st, "member_update", u, chains[u][p].ver, p, Now,
                           [user |-> v, admin |-> admin, envs |-> {}])
          IN  ValidNext(st, chains, l) /\ st' = NextState(st, l)
    BY DEF RogueLink
  <2> DEFINE l == NewLink(st, "member_update", u, chains[u][p].ver, p, Now,
                          [user |-> v, admin |-> admin, envs |-> {}])
  <2>2. l.type = "member_update"
    BY DEF NewLink
  <2>3. ValidNext(st, chains, l) /\ st' = NextState(st, l)
    BY <2>1
  <2> HIDE DEF l
  <2> QED  BY <2>2, <2>3
<1>2. checkout' = checkout /\ device' = device
  BY DEF RogueLink
<1> QED  BY <1>1, <1>2, LinkOnly DEF Types

\* A plan is made once, for an environment the keyring has under its old name.
LEMMA PlanRenames ==
    ASSUME Inv, RenameOK, NEW old \in EnvName, NEW new \in EnvName, PlanRename(old, new)
    PROVE  RenameOK'
<1> PICK j : j = [old |-> old, new |-> new, key |-> Key(old)]
  OBVIOUS
<1>1. /\ checkout = Fresh /\ checkout' = Plan(checkout, j) /\ st' = st /\ device' = device
      /\ old \in EnvNames(st) /\ new \notin EnvNames(st) /\ Entry[old] = Key(old)
  BY DEF PlanRename, Entry
<1>2. Key(old) \in EnvKey /\ Key(old) # NoKey
  <2>1. Key(old) \in Cur(st)
    BY <1>1 DEF EnvNames, Key, Cur
  <2> QED  BY <2>1, KeysTyped, NoKeyAssumption DEF Inv, StateOK
<1>3. j \in Journal /\ j # NoJournal /\ j.old # j.new
  BY <1>1, <1>2, JournalAssumption DEF Journal
<1>4. Unrenamed
  BY <1>1, JournalAssumption DEF RenameOK, Fresh
<1>5. Underway(j)'
  BY <1>1, <1>2, <1>3, <1>4 DEF Underway, Unrenamed, Entry
<1>6. RenamedGone'
  BY <1>1 DEF RenameOK, RenamedGone, Key
<1>7. checkout' = [checkout EXCEPT !.journal = j, !.run = "vault"] /\ checkout \in Checkouts
  BY <1>1 DEF Plan, RenameOK
<1>8. checkout' \in Checkouts /\ checkout'.journal = j /\ checkout'.run = "vault"
  BY <1>3, <1>7 DEF Checkouts
<1> QED  BY <1>3, <1>5, <1>6, <1>8, JournalAssumption DEF RenameOK

\* The one rename there is, is the planned one.
LEMMA RenameInVaultRenames ==
    ASSUME Inv, RenameOK, RenameInVault
    PROVE  RenameOK'
<1> PICK j : j = checkout.journal
  OBVIOUS
<1>1. j \in Journal /\ j # NoJournal /\ j.old \in EnvName /\ j.new \in EnvName
  BY JournalAssumption DEF RenameInVault, Journal
<1>2. checkout \in Checkouts /\ Underway(j) /\ j.old # j.new
  BY <1>1 DEF RenameOK, Underway
<1>3. /\ VaultAllows(j)
      /\ checkout' = Confirmed(checkout) \/ checkout' = Stopped(checkout)
  BY DEF RenameInVault
<1>4. /\ checkout' \in Checkouts /\ checkout'.journal = j
      /\ checkout'.run = "here" \/ checkout'.run = "none"
  BY <1>2, <1>3 DEF Confirmed, Stopped, Running, Checkouts
<1>5. SUFFICES RenamedGone' /\ Underway(j)' /\ (checkout'.run = "here" => st'.renames[j.old] # NoEnv)
  BY <1>1, <1>4 DEF RenameOK
<1>6. CASE RenamedInVault(j)
  <2>1. st' = st /\ device' = device
    BY <1>6 DEF RenameInVault
  <2>2. st.renames[j.old] # NoEnv
    BY <1>2, <1>6 DEF RenamedInVault, CurrentEnv
  <2>3. RenamedGone' /\ Underway(j)'
    BY <1>2, <2>1 DEF RenameOK, RenamedGone, Key, Underway, Entry
  <2> QED  BY <2>1, <2>2, <2>3
<1>7. CASE ~RenamedInVault(j)
  <2> DEFINE l == LinkOf(Creator, "env_rename", [old |-> j.old, new |-> j.new])
  <2>1. l.type = "env_rename" /\ l.b.old = j.old /\ l.b.new = j.new
    BY DEF LinkOf, NewLink
  <2>2. ValidNext(st, chains, l) /\ st' = NextState(st, l)
    BY <1>7 DEF RenameInVault, Commit
  <2>3. Entry' = Entry
    BY <1>7 DEF RenameInVault, Entry
  <2> HIDE DEF l
  <2>4. st.renames[j.old] = NoEnv
    BY <1>3, <1>7 DEF VaultAllows
  <2>5. \A n \in EnvName : st.renames[n] = NoEnv
    BY <1>2, <2>4 DEF Underway
  <2>6. /\ RenamedGone'
        /\ st'.renames = [n \in EnvName |->
             IF n = j.old \/ st.renames[n] = j.old THEN j.new ELSE st.renames[n]]
    <3>1. ValidApply(st, l) /\ st \in State
      BY <2>2 DEF ValidNext, Inv, StateOK, RulesOK
    <3>2. \A n \in EnvName : st.renames[n] # NoEnv => st.envs[n].key = NoKey
      BY <2>5
    <3>3. l.type \in Types \ {"init"}
      BY <2>1 DEF Types
    <3> QED  BY <1>1, <2>1, <2>2, <3>1, <3>2, <3>3, RenamesOf DEF RenamedGone, Key
  <2>7. \A n \in EnvName : st'.renames[n] = IF n = j.old THEN j.new ELSE NoEnv
    BY <1>1, <2>5, <2>6, NoEnvAssumption
  <2>8. Entry[j.old] # NoKey
    BY <1>2, <2>4 DEF Underway
  <2>9. Underway(j)'
    BY <1>2, <2>3, <2>7, <2>8 DEF Underway
  <2> QED  BY <1>1, <2>6, <2>7, <2>9, NoEnvAssumption
<1> QED  BY <1>6, <1>7

LEMMA RenameFailsRenames ==
    ASSUME Inv, RenameOK, RenameFails
    PROVE  RenameOK'
<1> PICK j : j = checkout.journal
  OBVIOUS
<1>1. /\ checkout' = Stopped(checkout) /\ st' = st /\ device' = device
      /\ checkout.run = "vault"
  BY DEF RenameFails
<1>2. checkout \in Checkouts /\ j \in Journal /\ j # NoJournal /\ Underway(j)
  BY <1>1, JournalAssumption DEF RenameOK
<1>3. checkout' \in Checkouts /\ checkout'.journal = j /\ checkout'.run = "none"
  BY <1>1, <1>2 DEF Stopped, Running, Checkouts
<1>4. RenamedGone' /\ Underway(j)'
  BY <1>1, <1>2 DEF RenameOK, RenamedGone, Key, Underway, Entry
<1> QED  BY <1>2, <1>3, <1>4 DEF RenameOK

\* The key moves before the files, and the journal goes after them.
LEMMA RenameHereRenames ==
    ASSUME Inv, RenameOK, RenameHere
    PROVE  RenameOK'
<1> PICK j : j = checkout.journal
  OBVIOUS
<1>1. checkout.run = "here" /\ st' = st
  BY DEF RenameHere
<1>2. /\ checkout \in Checkouts /\ j \in Journal /\ j # NoJournal /\ Underway(j)
      /\ j.old \in EnvName /\ j.new \in EnvName /\ j.old # j.new /\ st.renames[j.old] = j.new
      /\ st.renames[j.old] # NoEnv
  <2>1. checkout \in Checkouts /\ j \in Journal /\ Underway(j) /\ st.renames[j.old] # NoEnv
    BY <1>1 DEF RenameOK
  <2>2. j.old \in EnvName /\ j.new \in EnvName
    BY <2>1 DEF Journal
  <2> QED  BY <2>1, <2>2, JournalAssumption DEF Underway
<1>3. RenamedGone'
  BY <1>1 DEF RenameOK, RenamedGone, Key
<1>4. ASSUME NEW x \in Checkouts, x.journal = j \/ x.journal = NoJournal
      PROVE  /\ Stopped(x) \in Checkouts /\ Stopped(x).run = "none"
             /\ Stopped(x).journal = x.journal /\ Stopped(x).marker = x.marker
             /\ Moved(Stopped(x)) <=> Moved(x)
  BY <1>2 DEF Stopped, Running, Checkouts, Moved
<1>5. CASE KeyringAllows(Entry, j, NoKey)
  <2>1. Entry' = RenameEntry(Entry, j, NoKey) /\ Entry \in [EnvName -> EnvKey \cup {NoKey}]
    <3>1. device' = [device EXCEPT ![Creator].cur = RenameEntry(@, j, NoKey)]
      BY <1>5 DEF RenameHere, Entry
    <3>2. device \in [Person -> DeviceState] /\ Creator \in Person
      BY PeopleAssumption DEF Inv, KeysOK
    <3> QED  BY <3>1, <3>2 DEF DeviceState, Entry
  <2>2. Entry'[j.old] = NoKey /\ Entry'[j.new] # NoKey
    <3>1. CASE Entry[j.old] = NoKey
      BY <1>2, <2>1, <3>1 DEF Underway, RenameEntry
    <3>2. CASE Entry[j.old] # NoKey
      BY <1>2, <2>1, <3>2 DEF RenameEntry
    <3> QED  BY <3>1, <3>2
  <2>3. Underway(j)' /\ EntryMoved'
    BY <1>1, <1>2, <2>2 DEF Underway, EntryMoved
  <2>4. PICK k \in 0..MaxWrites : checkout' = Stopped(After(checkout)[k])
    <3>1. MaxWrites \in Nat
      BY FilesAssumption DEF MaxWrites
    <3>2. \/ checkout' = Stopped(After(checkout)[MaxWrites])
          \/ \E k \in 0..(MaxWrites - 1) : checkout' = Stopped(After(checkout)[k])
      BY <1>5 DEF RenameHere, Entry
    <3> QED  BY <3>1, <3>2
  <2>5. PICK x : x = After(checkout)[k]
    OBVIOUS
  <2>6. /\ x \in Checkouts
        /\ x.journal = j \/ (x.journal = NoJournal /\ Moved(x) /\ x.marker = "new")
    BY <1>2, <2>5, AfterKeeps
  <2>7. checkout' = Stopped(x)
    BY <2>4, <2>5
  <2>8. /\ checkout' \in Checkouts /\ checkout'.run = "none"
        /\ \/ checkout'.journal = j
           \/ checkout'.journal = NoJournal /\ Moved(checkout') /\ checkout'.marker = "new"
    BY <1>4, <2>6, <2>7
  <2>9. CASE checkout'.journal = j
    BY <1>2, <1>3, <2>3, <2>8, <2>9 DEF RenameOK
  <2>10. CASE checkout'.journal = NoJournal
    <3>1. Moved(checkout') /\ checkout'.marker = "new"
      BY <1>2, <2>8, <2>10
    <3>2. NoJournal \notin Journal
      BY JournalAssumption
    <3> QED  BY <1>3, <2>3, <2>8, <2>10, <3>1, <3>2 DEF RenameOK
  <2> QED  BY <2>8, <2>9, <2>10
<1>6. CASE ~KeyringAllows(Entry, j, NoKey)
  <2>1. checkout' = Stopped(checkout) /\ device' = device
    BY <1>6 DEF RenameHere, Entry
  <2>2. Underway(j)'
    BY <1>1, <1>2, <2>1 DEF Underway, Entry
  <2> QED  BY <1>2, <1>3, <1>4, <2>1, <2>2 DEF RenameOK
<1> QED  BY <1>5, <1>6

LEMMA InitRenames ==
    ASSUME Init
    PROVE  RenameOK
<1> DEFINE s == NextState(New, FirstLink)
<1>1. s.renames = New.renames /\ s.renames = [n \in EnvName |-> NoEnv]
      /\ DOMAIN s = DOMAIN New
  <2>1. \E envs, members : Apply(New, FirstLink) = [New EXCEPT !.envs = envs, !.members = members]
    BY DEF Apply, ApplyInit, FirstLink, NewLink
  <2> QED  BY <2>1 DEF NextState, New
<1>2. PICK admin \in BOOLEAN : st = Joined(s, Other, admin)
  BY DEF Init
<1>3. st.renames = s.renames
  <2> DEFINE l == NewLink(s, "member_add", Creator, 1, 1, Now,
                    [user |-> Other, admin |-> admin, envs |-> IF admin THEN {} ELSE {FirstEnv},
                     verified |-> "account-key"])
  <2>1. st = NextState(s, l) /\ l.type = "member_add"
    BY <1>2 DEF Joined, NewLink
  <2> HIDE DEF l, s
  <2>2. \E m : Apply(s, l) = [s EXCEPT !.members[l.b.user] = m]
    BY <2>1 DEF Apply, ApplyMemberAdd
  <2>3. "renames" \in DOMAIN s
    BY <1>1 DEF New
  <2> QED  BY <2>1, <2>2, <2>3 DEF NextState
<1>4. checkout = Fresh
  BY DEF Init
<1>5. Fresh \in Checkouts /\ Fresh.journal = NoJournal /\ Fresh.run = "none"
  BY DEF Fresh, Checkouts
<1> QED
  BY <1>1, <1>3, <1>4, <1>5, JournalAssumption DEF RenameOK, RenamedGone, Unrenamed

LEMMA NextRenames ==
    ASSUME Inv, RenameOK, [Next]_vars
    PROVE  RenameOK'
<1>1. CASE \E u \in Person : Command(u)
  BY <1>1, CommandRenames
<1>2. CASE \E u \in Person : \E n \in EnvName : MakeKey(u, n)
  BY <1>2, MakeKeyRenames
<1>3. CASE \E u \in Person : Sync(u)
  BY <1>3, ImportRenames, OtherRenames DEF Sync
<1>4. CASE \E u \in Person : RotateUserKey(u) \/ Crash(u)
  BY <1>4, OtherRenames
<1>5. CASE \E u \in Person : RogueLink(u)
  BY <1>5, RogueRenames
<1>6. CASE \E old, new \in EnvName : PlanRename(old, new)
  BY <1>6, PlanRenames
<1>7. CASE Rename
  BY <1>7, RenameInVaultRenames, RenameFailsRenames, RenameHereRenames DEF Rename
<1>8. CASE UNCHANGED vars
  BY <1>8, OtherRenames
<1> QED
  BY <1>1, <1>2, <1>3, <1>4, <1>5, <1>6, <1>7, <1>8 DEF Next

\* Wherever a rename stops, no file is lost, and without a journal all of it
\* was done or none (journal.go Apply, envrename.go finishRename).
THEOREM NothingIsLost == Spec => []NothingLost
<1>1. Inv /\ RenameOK => NothingLost
  <2> SUFFICES ASSUME RenameOK PROVE NothingLost
    OBVIOUS
  <2>1. \A f \in Files : checkout.files[f] # {}
    BY DEF RenameOK, Checkouts
  <2>2. checkout.journal = NoJournal /\ checkout # Fresh =>
           Moved(checkout) /\ checkout.marker = "new" /\ EntryMoved
    BY DEF RenameOK
  <2> QED  BY <2>1, <2>2 DEF NothingLost, EntryMoved, Entry
<1>2. Init => RenameOK
  BY InitRenames
<1>3. Inv /\ RenameOK /\ [Next]_vars => RenameOK'
  BY NextRenames
<1> QED
  BY <1>1, <1>2, <1>3, InvHolds, PTL DEF Spec
=============================================================================
