---------------------------- MODULE ChangesProofs ----------------------------
(***************************************************************************)
(* Theorems about Changes, for any environments, rows and bounds: what the *)
(* tables say happened did, and nothing but what a person read and signed  *)
(* lets the member read more.                                              *)
(***************************************************************************)
EXTENDS Changes, ProjectRulesProofs, FiniteSetTheorems

Position == [ver: Nat, delegates: SUBSET Delegate]

Kinds == {"member_add", "member_set", "member_remove"}

Proposal == [kind: Kinds, envs: SUBSET EnvName, status: {"open", "dismissed", "applied"}]

TimedRow == [envs: SUBSET EnvName, due: BOOLEAN,
             status: {"open", "cancelled", "gone", "signed", "proposed"}]

ChangeOK(c) == c.kind \in Kinds /\ c.envs \in SUBSET EnvName

\* A link about the member, who it does not make an admin.
ReaderLink(l) ==
    /\ WellFormed(l) /\ l.b.user = Reader
    /\ l.type \in {"member_add", "member_update", "member_remove"}
    /\ l.type # "member_remove" => ~l.b.admin

\* What the member reads after it.
ReadsAfter(l) == IF l.type = "member_remove" THEN {} ELSE l.b.envs

DueRows == {i \in DOMAIN timed : timed[i].due}

TypesOK ==
    /\ RulesOK(st)
    /\ chains \in [Person -> Seq(Position)] /\ Pos \in Nat \ {0}
    /\ changes \in Seq(Proposal)
    /\ timed \in Seq(TimedRow)
    /\ DOMAIN job = Workers
    /\ asks \in Nat

\* A proposal that takes access to envs away.
ProposedAway(envs) == \E j \in DOMAIN changes : Takes(changes[j], envs)

\* The housekeeping is at rows that are due.  What it is about to sign or to
\* propose takes the row's access away, and what it is about to write of the
\* row is so.
RoundOK ==
    /\ round.step \in {"look", "sign", "propose", "commit", "close"} => round.list \subseteq DueRows
    /\ round.step \in {"sign", "propose", "commit", "close"} => round.id \in DueRows
    /\ round.step \in {"sign", "propose"} =>
         /\ ChangeOK(round.change)
         /\ Takes(round.change, timed[round.id].envs)
    /\ round.step = "commit" =>
         /\ ReaderLink(round.link) /\ round.link.delegate = ServerKey
         /\ ReadsAfter(round.link) \cap timed[round.id].envs = {}
    /\ round.step = "close" =>
         /\ round.status \in {"gone", "signed", "proposed"}
         /\ \/ round.id \in ended
            \/ round.status = "proposed" /\ ProposedAway(timed[round.id].envs)

\* What the device and the page are at is a change there is; a change that one
\* of them is about to close as applied was signed.
JobOK(w) ==
    /\ job[w].step \in {"narrow", "shown", "close", "write"} => job[w].id \in DOMAIN changes
    /\ job[w].step \in {"close", "write"} =>
         /\ job[w].status \in {"applied", "dismissed"}
         /\ job[w].status = "applied" => job[w].id \in signed
    /\ job[w].step = "finish" => ReaderLink(job[w].link) /\ job[w].id \in DOMAIN changes
    /\ job[w].step = "record" => job[w].gained \in SUBSET EnvName

Inv == TypesOK /\ RoundOK /\ (\A w \in Workers : JobOK(w)) /\ ClosedTruly

-----------------------------------------------------------------------------
(* Sequences of rows.                                                      *)

LEMMA ElementOfSeq ==
    ASSUME NEW S, NEW s \in Seq(S), NEW i \in DOMAIN s
    PROVE  s[i] \in S
  OBVIOUS

LEMMA SeqFromRows ==
    ASSUME NEW S, NEW T, NEW s \in Seq(S), NEW t \in [DOMAIN s -> T]
    PROVE  t \in Seq(T) /\ DOMAIN t = DOMAIN s
<1>1. Len(s) \in Nat /\ t \in [1..Len(s) -> T]
  OBVIOUS
<1> QED BY <1>1

LEMMA AppendRow ==
    ASSUME NEW S, NEW s \in Seq(S), NEW x \in S
    PROVE  /\ Append(s, x) \in Seq(S)
           /\ DOMAIN Append(s, x) = DOMAIN s \cup {Len(s) + 1}
           /\ \A i \in DOMAIN s : Append(s, x)[i] = s[i]
           /\ Append(s, x)[Len(s) + 1] = x
  OBVIOUS

-----------------------------------------------------------------------------
(* Links about the member.                                                 *)

LEMMA ChangeLinks ==
    ASSUME TypesOK, NEW c, ChangeOK(c)
    PROVE  /\ ReaderLink(DeviceLink(c))
           /\ \A d : ReaderLink(ChangeLink(c, d)) /\ ChangeLink(c, d).delegate = d
           /\ \A l : l = DeviceLink(c) \/ (\E d : l = ChangeLink(c, d)) =>
                /\ l.type = LinkType(c)
                /\ ReadsAfter(l) = IF c.kind = "member_remove" THEN {} ELSE c.envs
<1>1. LinkType(c) = IF c.kind = "member_add" THEN "member_add"
                    ELSE IF c.kind = "member_set" THEN "member_update" ELSE "member_remove"
  BY DEF LinkType, ChangeOK, Kinds
<1>2. ASSUME NEW v \in Verification
      PROVE  /\ Body(c, v).user = Reader
             /\ c.kind # "member_remove" => Body(c, v).admin = FALSE /\ Body(c, v).envs = c.envs
             /\ c.kind = "member_add" => Body(c, v).verified = v
  <2>1. CASE c.kind = "member_add"
    BY <2>1 DEF Body
  <2>2. CASE c.kind = "member_set"
    BY <2>2 DEF Body
  <2>3. CASE c.kind = "member_remove"
    BY <2>3 DEF Body
  <2> QED BY <2>1, <2>2, <2>3 DEF ChangeOK, Kinds
<1>3. ASSUME NEW v \in Verification, NEW l, l.b = Body(c, v), l.type = LinkType(c), l.seq \in Nat,
             l.time \in Nat, l.pos \in Nat, l.signer \in Person
      PROVE  /\ ReaderLink(l)
             /\ ReadsAfter(l) = IF c.kind = "member_remove" THEN {} ELSE c.envs
  <2>1. Reader \in Person
    BY ChangesAssumption
  <2>2. BodyOK(l.type, l.b)
    BY <1>1, <1>2, <1>3, <2>1 DEF BodyOK, ChangeOK, Kinds
  <2>3. WellFormed(l)
    BY <1>1, <1>3, <2>2 DEF WellFormed, Types
  <2> QED BY <1>1, <1>2, <1>3, <2>3 DEF ReaderLink, ReadsAfter, ChangeOK, Kinds
<1>4. st.seq + 1 \in Nat /\ Now \in Nat /\ Pos \in Nat /\ Boss \in Person
  BY ChangesAssumption DEF TypesOK, RulesOK, State, Now
<1>5. {"web", "github-ssh"} \subseteq Verification
  BY DEF Verification
<1>6. ASSUME NEW d
      PROVE  /\ ReaderLink(ChangeLink(c, d)) /\ ChangeLink(c, d).delegate = d
             /\ ChangeLink(c, d).type = LinkType(c)
             /\ ReadsAfter(ChangeLink(c, d)) = IF c.kind = "member_remove" THEN {} ELSE c.envs
  <2> DEFINE l == ChangeLink(c, d)
  <2>1. /\ l.b = Body(c, "web") /\ l.type = LinkType(c) /\ l.seq = st.seq + 1
        /\ l.time = Now /\ l.pos = Pos /\ l.signer = Boss /\ l.delegate = d
    BY DEF ChangeLink, DelegateLink
  <2> HIDE DEF l
  <2>2. ReaderLink(l) /\ ReadsAfter(l) = IF c.kind = "member_remove" THEN {} ELSE c.envs
    BY <1>3, <1>4, <1>5, <2>1
  <2> QED BY <2>1, <2>2 DEF l
<1>7. /\ ReaderLink(DeviceLink(c)) /\ DeviceLink(c).type = LinkType(c)
      /\ ReadsAfter(DeviceLink(c)) = IF c.kind = "member_remove" THEN {} ELSE c.envs
  <2> DEFINE l == DeviceLink(c)
  <2>1. /\ l.b = Body(c, "github-ssh") /\ l.type = LinkType(c) /\ l.seq = st.seq + 1
        /\ l.time = Now /\ l.pos = Pos /\ l.signer = Boss
    BY DEF DeviceLink, NewLink
  <2> HIDE DEF l
  <2>2. ReaderLink(l) /\ ReadsAfter(l) = IF c.kind = "member_remove" THEN {} ELSE c.envs
    BY <1>3, <1>4, <1>5, <2>1
  <2> QED BY <2>1, <2>2 DEF l
<1> QED BY <1>6, <1>7

LEMMA BookedReads ==
    ASSUME NEW x, RulesOK(x), NEW l, WellFormed(l), NEW t, t = Booked(x, l)
    PROVE  Access(t, Reader) = Access(x, Reader)
<1>1. RulesOK(t)
  BY Bookkeeping
<1>2. x \in State /\ t \in State /\ Reader \in Person
  BY <1>1, ChangesAssumption DEF RulesOK
<1>3. t.envs = x.envs /\ t.members = x.members
  BY <1>2 DEF State, Booked
<1>4. EnvNames(t) = EnvNames(x)
  BY <1>3 DEF EnvNames
<1>5. Access(t, Reader) = IF ~Member(t, Reader) THEN {}
                          ELSE IF t.members[Reader].admin THEN EnvNames(t) ELSE t.members[Reader].envs
  BY <1>2, AccessOf
<1>6. Access(x, Reader) = IF ~Member(x, Reader) THEN {}
                          ELSE IF x.members[Reader].admin THEN EnvNames(x) ELSE x.members[Reader].envs
  BY <1>2, AccessOf
<1> QED BY <1>3, <1>4, <1>5, <1>6 DEF Member

\* A link about the member that is accepted: the rules stay true, and the
\* member reads what it says.
LEMMA LinkMakes ==
    ASSUME RulesOK(st), NEW l, ReaderLink(l), Commit(l)
    PROVE  RulesOK(st') /\ Access(st', Reader) = ReadsAfter(l)
<1>1. /\ WellFormed(l) /\ l.b.user = Reader /\ Reader \in Person
      /\ l.type \in {"member_add", "member_update", "member_remove"}
      /\ l.type # "member_remove" => ~l.b.admin
      /\ ValidNext(st, chains, l) /\ st' = NextState(st, l) /\ ValidApply(st, l)
  BY ChangesAssumption DEF ReaderLink, Commit, Valid, ValidNext
<1>2. LinkOK(st, chains, l, st')
  BY <1>1, LinkEffect
<1>3. RulesOK(st')
  BY <1>2 DEF LinkOK
<1> DEFINE x == Apply(st, l)
           m == x.members[Reader]
<1>4. /\ st \in State /\ st.members \in [Person -> MemberState]
      /\ st.members[Reader] \in MemberState
  BY <1>1, StateFields DEF RulesOK
<1>5. /\ x.members[Reader].status = IF l.type = "member_remove" THEN "former" ELSE "active"
      /\ l.type # "member_remove" =>
           x.members[Reader].admin = FALSE /\ x.members[Reader].envs = l.b.envs
      /\ RulesOK(x)
  <2>1. CASE l.type = "member_add"
    <3>1. x = [st EXCEPT !.members[Reader] =
                [status |-> "active", admin |-> l.b.admin, envs |-> l.b.envs,
                 verified |-> l.b.verified]]
      BY <1>1, <2>1 DEF Apply, ApplyMemberAdd
    <3>2. RulesOK(x)
      BY <1>1, <2>1, MemberAddEffect DEF Good
    <3> HIDE DEF x
    <3> QED BY <1>1, <1>4, <2>1, <3>1, <3>2 DEF State
  <2>2. CASE l.type = "member_update"
    <3> DEFINE y == [st EXCEPT !.members[Reader].admin = l.b.admin,
                               !.members[Reader].envs = l.b.envs]
               lost == Access(st, Reader) \ Access(y, Reader)
    <3>1. x = Expose(y, lost, Reader)
      BY <1>1, <2>2 DEF Apply, ApplyMemberUpdate
    <3>2. RulesOK(x)
      BY <1>1, <2>2, MemberUpdateEffect DEF Good
    <3>3. y.members = [st.members EXCEPT ![Reader] =
                         [[@ EXCEPT !.admin = l.b.admin] EXCEPT !.envs = l.b.envs]]
      BY <1>1, <1>4 DEF State
    <3>4. y.members[Reader].admin = l.b.admin /\ y.members[Reader].envs = l.b.envs
          /\ y.members[Reader].status = st.members[Reader].status
      BY <1>1, <1>4, <3>3 DEF MemberState
    <3>5. x.members = y.members
      <4> HIDE DEF lost
      <4> QED BY <1>4, <3>1 DEF Expose, State
    <3>6. st.members[Reader].status = "active"
      BY <1>1, <2>2 DEF ValidApply, ValidMemberUpdate, Member
    <3> HIDE DEF x, y
    <3> QED BY <1>1, <2>2, <3>2, <3>4, <3>5, <3>6
  <2>3. CASE l.type = "member_remove"
    <3> DEFINE y == Expose(st, Access(st, Reader), Reader)
    <3>1. x = [y EXCEPT !.members[Reader].status = "former"]
      BY <1>1, <2>3 DEF Apply, ApplyMemberRemove
    <3>2. RulesOK(x)
      BY <1>1, <2>3, MemberRemoveEffect DEF Good
    <3>3. y.members = st.members /\ y = [st EXCEPT !.envs = y.envs]
      BY <1>4 DEF Expose, State
    <3> HIDE DEF y
    <3>4. x.members = [st.members EXCEPT ![Reader].status = "former"]
      BY <1>4, <3>1, <3>3 DEF State
    <3> HIDE DEF x
    <3> QED BY <1>1, <1>4, <2>3, <3>2, <3>4 DEF MemberState
  <2> QED BY <1>1, <2>1, <2>2, <2>3
<1>6. st' = Booked(x, l)
  BY <1>1 DEF NextState, Booked
<1> HIDE DEF x
<1>7. Access(st', Reader) = Access(x, Reader)
  <2>1. RulesOK(x) /\ WellFormed(l)
    BY <1>1, <1>5
  <2> QED BY <1>6, <2>1, BookedReads
<1>8. Access(x, Reader) = ReadsAfter(l)
  BY <1>1, <1>5, AccessOf DEF Member, ReadsAfter
<1> QED BY <1>3, <1>7, <1>8

-----------------------------------------------------------------------------
(* What one step adds to.                                                  *)

\* No proposal and no row goes, or becomes another; what was is remembered.
Grows ==
    /\ DOMAIN changes \subseteq DOMAIN changes'
    /\ \A j \in DOMAIN changes : /\ changes'[j].kind = changes[j].kind
                                 /\ changes'[j].envs = changes[j].envs
    /\ DOMAIN timed \subseteq DOMAIN timed'
    /\ \A i \in DOMAIN timed : /\ timed'[i].envs = timed[i].envs
                               /\ timed[i].due => timed'[i].due
    /\ ended \subseteq ended' /\ signed \subseteq signed'

LEMMA AwayStays ==
    ASSUME Grows, NEW envs, ProposedAway(envs)
    PROVE  ProposedAway(envs)'
<1>1. PICK j \in DOMAIN changes : Takes(changes[j], envs)
  BY DEF ProposedAway
<1>2. j \in DOMAIN changes' /\ Takes(changes'[j], envs)
  BY <1>1 DEF Grows, Takes
<1> QED BY <1>2 DEF ProposedAway

LEMMA DueStays ==
    ASSUME Grows
    PROVE  DueRows \subseteq DueRows'
  BY DEF Grows, DueRows

LEMMA RoundStays ==
    ASSUME RoundOK, Grows, round' = round
    PROVE  RoundOK'
<1>1. DueRows \subseteq DueRows'
  BY DueStays
<1>2. ASSUME NEW i \in DueRows
      PROVE  timed'[i].envs = timed[i].envs
  BY DEF Grows, DueRows
<1>3. ASSUME round.step = "close"
      PROVE  \/ round'.id \in ended'
             \/ round'.status = "proposed" /\ ProposedAway(timed[round.id].envs)'
  <2>1. round.id \in DueRows
    BY <1>3 DEF RoundOK
  <2>2. timed'[round.id].envs = timed[round.id].envs
    BY <1>2, <2>1
  <2>3. CASE round.id \in ended
    <3>1. round'.id \in ended'
      BY <2>3 DEF Grows
    <3> QED BY <3>1
  <2>4. CASE round.status = "proposed" /\ ProposedAway(timed[round.id].envs)
    <3>1. PICK j \in DOMAIN changes : Takes(changes[j], timed[round.id].envs)
      BY <2>4 DEF ProposedAway
    <3>2. j \in DOMAIN changes' /\ Takes(changes'[j], timed'[round'.id].envs)
      BY <2>2, <3>1 DEF Grows, Takes
    <3> QED BY <2>4, <3>2 DEF ProposedAway
  <2> QED BY <1>3, <2>3, <2>4 DEF RoundOK
<1> QED BY <1>1, <1>2, <1>3 DEF RoundOK

LEMMA JobStays ==
    ASSUME NEW w \in Workers, JobOK(w), Grows, job'[w] = job[w]
    PROVE  JobOK(w)'
  BY DEF JobOK, Grows

\* The proposals after a step: none goes, and what is applied was signed.
ChangesGo ==
    /\ changes' \in Seq(Proposal)
    /\ DOMAIN changes \subseteq DOMAIN changes'
    /\ \A j \in DOMAIN changes : /\ changes'[j].kind = changes[j].kind
                                 /\ changes'[j].envs = changes[j].envs
    /\ \A j \in DOMAIN changes' : changes'[j].status = "applied" => j \in signed'

\* The rows after a step: none goes, and what is closed was closed truly.
TimedGo ==
    /\ timed' \in Seq(TimedRow)
    /\ DOMAIN timed \subseteq DOMAIN timed'
    /\ \A i \in DOMAIN timed : /\ timed'[i].envs = timed[i].envs
                               /\ timed[i].due => timed'[i].due
    /\ \A i \in DOMAIN timed' :
         \/ timed'[i].status \in {"open", "cancelled"}
         \/ /\ i \in DOMAIN timed
            /\ \/ i \in ended
               \/ timed'[i].status = "proposed" /\ ProposedAway(timed[i].envs)

Rest ==
    /\ RulesOK(st')
    /\ chains' \in [Person -> Seq(Position)] /\ Pos' \in Nat \ {0}
    /\ DOMAIN job' = Workers /\ asks' \in Nat
    /\ signed \subseteq signed'

LEMMA Assembled ==
    ASSUME Observe, ChangesGo, TimedGo, Rest
    PROVE  TypesOK' /\ Grows /\ ClosedTruly'
<1>1. TypesOK'
  BY DEF ChangesGo, TimedGo, Rest, TypesOK
<1>2. Grows
  BY DEF Observe, ChangesGo, TimedGo, Rest, Grows
<1>3. ASSUME NEW i \in DOMAIN timed'
      PROVE  /\ timed'[i].status \in {"signed", "gone"} => i \in ended'
             /\ timed'[i].status = "proposed" =>
                  i \in ended' \/ \E j \in DOMAIN changes' : Takes(changes'[j], timed'[i].envs)
  <2>1. CASE timed'[i].status \in {"open", "cancelled"}
    BY <2>1
  <2>2. CASE i \in DOMAIN timed /\ i \in ended
    <3>1. i \in ended'
      BY <1>2, <2>2 DEF Grows
    <3> QED BY <3>1
  <2>3. CASE /\ i \in DOMAIN timed
             /\ timed'[i].status = "proposed" /\ ProposedAway(timed[i].envs)
    <3>1. PICK j \in DOMAIN changes : Takes(changes[j], timed[i].envs)
      BY <2>3 DEF ProposedAway
    <3>2. j \in DOMAIN changes' /\ Takes(changes'[j], timed'[i].envs)
      BY <1>2, <2>3, <3>1 DEF Grows, Takes
    <3> QED BY <2>3, <3>2
  <2> QED BY <2>1, <2>2, <2>3 DEF TimedGo
<1>4. \A j \in DOMAIN changes' : changes'[j].status = "applied" => j \in signed'
  BY DEF ChangesGo
<1>5. \A i \in DOMAIN timed' : timed'[i].status = "proposed" =>
         i \in ended' \/ \E j \in DOMAIN changes' : Takes(changes'[j], timed'[i].envs)
  BY <1>3
<1>6. \A i \in DOMAIN timed' : timed'[i].status \in {"signed", "gone"} => i \in ended'
  BY <1>3
<1>7. ClosedTruly'
  BY <1>4, <1>5, <1>6 DEF ClosedTruly
<1> QED BY <1>1, <1>2, <1>7

LEMMA ChangesSame ==
    ASSUME Inv, changes' = changes, signed \subseteq signed'
    PROVE  ChangesGo
  BY DEF Inv, TypesOK, ClosedTruly, ChangesGo

LEMMA TimedSame ==
    ASSUME Inv, timed' = timed
    PROVE  TimedGo
<1>1. ASSUME NEW i \in DOMAIN timed, timed[i].status \notin {"open", "cancelled"}
      PROVE  \/ i \in ended
             \/ timed[i].status = "proposed" /\ ProposedAway(timed[i].envs)
  <2>1. timed[i] \in TimedRow
    BY <1>1, ElementOfSeq DEF Inv, TypesOK
  <2>2. timed[i].status \in {"signed", "gone"} => i \in ended
    BY <1>1 DEF Inv, ClosedTruly
  <2>3. timed[i].status = "proposed" => i \in ended \/ ProposedAway(timed[i].envs)
    BY <1>1 DEF Inv, ClosedTruly, ProposedAway
  <2> QED BY <1>1, <2>1, <2>2, <2>3 DEF TimedRow
<1>2. timed \in Seq(TimedRow)
  BY DEF Inv, TypesOK
<1> QED BY <1>1, <1>2 DEF TimedGo

\* Neither the housekeeping nor anyone else is disturbed by what they do not do.
LEMMA Undisturbed ==
    ASSUME Inv, Observe, ChangesGo, TimedGo, Rest, round' = round, job' = job
    PROVE  Inv'
<1>1. TypesOK' /\ Grows /\ ClosedTruly'
  BY Assembled
<1>2. RoundOK'
  BY <1>1, RoundStays DEF Inv
<1>3. ASSUME NEW w \in Workers PROVE JobOK(w)'
  BY <1>1, <1>3, JobStays DEF Inv
<1> QED BY <1>1, <1>2, <1>3 DEF Inv

\* A step of the housekeeping.
LEMMA RoundMoves ==
    ASSUME Inv, Observe, ChangesGo, TimedGo, Rest, job' = job, RoundOK'
    PROVE  Inv'
<1>1. TypesOK' /\ Grows /\ ClosedTruly'
  BY Assembled
<1>2. ASSUME NEW w \in Workers PROVE JobOK(w)'
  BY <1>1, <1>2, JobStays DEF Inv
<1> QED BY <1>1, <1>2 DEF Inv

\* A step of the device or of the page.
LEMMA JobMoves ==
    ASSUME Inv, Observe, ChangesGo, TimedGo, Rest, round' = round,
           NEW w \in Workers, JobOK(w)', \A v \in Workers \ {w} : job'[v] = job[v]
    PROVE  Inv'
<1>1. TypesOK' /\ Grows /\ ClosedTruly'
  BY Assembled
<1>2. RoundOK'
  BY <1>1, RoundStays DEF Inv
<1>3. ASSUME NEW v \in Workers PROVE JobOK(v)'
  <2>1. CASE v = w
    BY <2>1
  <2>2. CASE v # w
    BY <1>1, <1>3, <2>2, JobStays DEF Inv
  <2> QED BY <2>1, <2>2
<1> QED BY <1>1, <1>2, <1>3 DEF Inv

LEMMA RestOf ==
    ASSUME Inv, chains' = chains, DOMAIN job' = Workers, asks' \in Nat, RulesOK(st'),
           signed \subseteq signed'
    PROVE  Rest
  BY DEF Inv, TypesOK, Rest, Pos

\* propose: the change is among the proposals then.
LEMMA ProposedGives ==
    ASSUME Inv, NEW c, ChangeOK(c), changes' = Proposed(c), signed' = signed
    PROVE  /\ ChangesGo
           /\ \E j \in DOMAIN changes' : changes'[j].kind = c.kind /\ changes'[j].envs = c.envs
<1> DEFINE old == [i \in DOMAIN changes |->
                     IF i \in Open /\ changes[i].kind = c.kind
                     THEN [changes[i] EXCEPT !.status = "dismissed"] ELSE changes[i]]
           new == [kind |-> c.kind, envs |-> c.envs, status |-> "open"]
<1>1. changes \in Seq(Proposal) /\ \A j \in DOMAIN changes : changes[j].status = "applied" => j \in signed
  BY DEF Inv, TypesOK, ClosedTruly
<1>2. CASE \E i \in Open : Same(i, c)
  <2>1. changes' = changes
    BY <1>2 DEF Proposed
  <2>2. ChangesGo
    BY <2>1, ChangesSame
  <2> QED BY <1>2, <2>1, <2>2 DEF Open, Same
<1>3. CASE ~\E i \in Open : Same(i, c)
  <2>1. changes' = Append(old, new)
    BY <1>3 DEF Proposed
  <2>2. ASSUME NEW i \in DOMAIN changes
        PROVE  /\ old[i] \in Proposal
               /\ old[i].kind = changes[i].kind /\ old[i].envs = changes[i].envs
               /\ old[i].status \in {"dismissed", changes[i].status}
    <3>1. changes[i] \in Proposal
      BY <1>1, <2>2, ElementOfSeq
    <3>2. /\ [changes[i] EXCEPT !.status = "dismissed"] \in Proposal
          /\ [changes[i] EXCEPT !.status = "dismissed"].kind = changes[i].kind
          /\ [changes[i] EXCEPT !.status = "dismissed"].envs = changes[i].envs
          /\ [changes[i] EXCEPT !.status = "dismissed"].status = "dismissed"
      BY <3>1 DEF Proposal
    <3> QED BY <2>2, <3>1, <3>2
  <2>3. old \in Seq(Proposal) /\ DOMAIN old = DOMAIN changes
    <3>1. old \in [DOMAIN changes -> Proposal]
      BY <2>2
    <3> HIDE DEF old
    <3> QED BY <1>1, <3>1, SeqFromRows
  <2>4. new \in Proposal /\ new.kind = c.kind /\ new.envs = c.envs /\ new.status = "open"
    BY DEF ChangeOK, Proposal
  <2> HIDE DEF old, new
  <2>5. /\ changes' \in Seq(Proposal)
        /\ DOMAIN changes' = DOMAIN changes \cup {Len(old) + 1}
        /\ \A i \in DOMAIN changes : changes'[i] = old[i]
        /\ changes'[Len(old) + 1] = new
    BY <2>1, <2>3, <2>4, AppendRow
  <2>6. \A i \in DOMAIN changes : changes'[i].kind = changes[i].kind /\ changes'[i].envs = changes[i].envs
    BY <2>2, <2>5
  <2>7. ASSUME NEW j \in DOMAIN changes', changes'[j].status = "applied"
        PROVE  j \in signed'
    <3>1. CASE j \in DOMAIN changes
      BY <1>1, <2>2, <2>5, <2>7, <3>1
    <3>2. CASE j = Len(old) + 1
      BY <2>4, <2>5, <2>7, <3>2
    <3> QED BY <2>5, <3>1, <3>2
  <2> QED BY <2>4, <2>5, <2>6, <2>7 DEF ChangesGo
<1> QED BY <1>2, <1>3

-----------------------------------------------------------------------------
(* Forms.                                                                  *)

LEMMA SetToOK ==
    ASSUME NEW envs \in SUBSET EnvName
    PROVE  /\ ChangeOK(SetTo(envs)) /\ SetTo(envs).kind = "member_set" /\ SetTo(envs).envs = envs
           /\ ChangeOK(Change("member_add", envs)) /\ Change("member_add", envs).kind = "member_add"
           /\ Change("member_add", envs).envs = envs
           /\ ChangeOK(Remove) /\ Remove.kind = "member_remove" /\ Remove.envs = {}
  BY DEF SetTo, Remove, Change, ChangeOK, Kinds

LEMMA ProposeFormKeeps ==
    ASSUME Inv, Observe, NEW c, ChangeOK(c), Asks, ProposeForm(c)
    PROVE  Inv'
<1>1. /\ chains' = chains /\ st' = st /\ timed' = timed /\ round' = round /\ job' = job
      /\ signed' = signed /\ asks' \in Nat /\ DOMAIN job = Workers /\ RulesOK(st)
  BY DEF ProposeForm, Asks, Inv, TypesOK
<1>2. ChangesGo
  BY <1>1, ProposedGives, ChangesSame DEF ProposeForm
<1> QED BY <1>1, <1>2, TimedSame, RestOf, Undisturbed

LEMMA WebAddKeeps ==
    ASSUME Inv, Observe, NEW envs, WebAdd(envs)
    PROVE  Inv'
<1>1. envs \in SUBSET EnvName
  BY DEF WebAdd, EnvNames
<1> QED BY <1>1, SetToOK, ProposeFormKeeps DEF WebAdd

LEMMA WebSetKeeps ==
    ASSUME Inv, Observe, NEW c, WebSet(c), c.kind \in {"member_set", "member_remove"}
    PROVE  Inv'
<1>1. ChangeOK(c) /\ Asks /\ TypesOK
  BY DEF WebSet, EnvNames, ChangeOK, Kinds, Inv
<1>2. CASE ServerMaySign(c)
  <2>1. /\ Commit(ChangeLink(c, ServerKey))
        /\ UNCHANGED <<chains, changes, timed, round, job, events, signed>>
    BY <1>2 DEF WebSet
  <2>2. ReaderLink(ChangeLink(c, ServerKey))
    BY <1>1, ChangeLinks
  <2>3. RulesOK(st')
    BY <1>1, <2>1, <2>2, LinkMakes DEF TypesOK
  <2>4. asks' \in Nat /\ DOMAIN job' = Workers
    BY <1>1, <2>1 DEF TypesOK, Asks
  <2> QED BY <2>1, <2>3, <2>4, ChangesSame, TimedSame, RestOf, Undisturbed
<1>3. CASE ~ServerMaySign(c)
  BY <1>1, <1>3, ProposeFormKeeps DEF WebSet
<1> QED BY <1>2, <1>3

-----------------------------------------------------------------------------
(* Timed access.                                                           *)

\* Rows of which some come due or get another status.
LEMMA RowsGo ==
    ASSUME Inv,
           DOMAIN timed' = DOMAIN timed,
           timed' \in [DOMAIN timed -> TimedRow],
           \A i \in DOMAIN timed :
             /\ timed'[i].envs = timed[i].envs
             /\ timed[i].due => timed'[i].due
             /\ \/ timed'[i].status \in {"cancelled", timed[i].status}
                \/ i \in ended
                \/ timed'[i].status = "proposed" /\ ProposedAway(timed[i].envs)
    PROVE  TimedGo
<1>1. timed' \in Seq(TimedRow)
  BY SeqFromRows DEF Inv, TypesOK
<1>2. ASSUME NEW i \in DOMAIN timed, timed'[i].status \notin {"open", "cancelled"}
      PROVE  \/ i \in ended
             \/ timed'[i].status = "proposed" /\ ProposedAway(timed[i].envs)
  <2>1. CASE timed'[i].status = timed[i].status
    <3>1. timed[i] \in TimedRow
      BY <1>2, ElementOfSeq DEF Inv, TypesOK
    <3>2. timed[i].status \in {"signed", "gone"} => i \in ended
      BY DEF Inv, ClosedTruly
    <3>3. timed[i].status = "proposed" => i \in ended \/ ProposedAway(timed[i].envs)
      BY DEF Inv, ClosedTruly, ProposedAway
    <3> QED BY <1>2, <2>1, <3>1, <3>2, <3>3 DEF TimedRow
  <2>2. CASE timed'[i].status # timed[i].status
    BY <1>2, <2>2
  <2> QED BY <2>1, <2>2
<1> QED BY <1>1, <1>2 DEF TimedGo

LEMMA CancelKeeps ==
    ASSUME Inv, Observe, NEW i, CancelExpiry(i)
    PROVE  Inv'
<1>1. /\ i \in DOMAIN timed /\ timed' = [timed EXCEPT ![i].status = "cancelled"]
      /\ UNCHANGED <<chains, st, changes, round, job, asks, events, signed>>
      /\ timed \in Seq(TimedRow) /\ RulesOK(st) /\ asks \in Nat /\ DOMAIN job = Workers
  BY DEF CancelExpiry, OpenRows, Inv, TypesOK
<1>2. \A k \in DOMAIN timed : timed[k] \in TimedRow
  BY <1>1, ElementOfSeq
<1>3. [timed[i] EXCEPT !.status = "cancelled"] \in TimedRow
  BY <1>1, <1>2 DEF TimedRow
<1>4. /\ DOMAIN timed' = DOMAIN timed
      /\ timed' = [k \in DOMAIN timed |-> IF k = i THEN [timed[i] EXCEPT !.status = "cancelled"]
                                         ELSE timed[k]]
  BY <1>1
<1>5. timed' \in [DOMAIN timed -> TimedRow]
  BY <1>2, <1>3, <1>4
<1>6. \A k \in DOMAIN timed :
         /\ timed'[k].envs = timed[k].envs /\ timed'[k].due = timed[k].due
         /\ timed'[k].status \in {"cancelled", timed[k].status}
  BY <1>2, <1>4 DEF TimedRow
<1>7. TimedGo
  BY <1>4, <1>5, <1>6, RowsGo
<1> QED BY <1>1, <1>7, ChangesSame, RestOf, Undisturbed

LEMMA ScanKeeps ==
    ASSUME Inv, Observe, Scan
    PROVE  Inv'
<1>1. PICK list \in SUBSET OpenRows :
         /\ timed' = [i \in DOMAIN timed |-> [timed[i] EXCEPT !.due = @ \/ i \in list]]
         /\ round' = [step |-> "look", list |-> list]
         /\ UNCHANGED <<chains, st, changes, job, asks, events, signed>>
  BY DEF Scan
<1>2. timed \in Seq(TimedRow) /\ RulesOK(st) /\ asks \in Nat /\ DOMAIN job = Workers
  BY DEF Inv, TypesOK
<1>3. ASSUME NEW i \in DOMAIN timed
      PROVE  /\ timed'[i] \in TimedRow
             /\ timed'[i].envs = timed[i].envs /\ timed'[i].status = timed[i].status
             /\ timed'[i].due = (timed[i].due \/ i \in list)
  <2>1. timed[i] \in TimedRow
    BY <1>2, ElementOfSeq
  <2>2. timed'[i] = [timed[i] EXCEPT !.due = timed[i].due \/ i \in list]
    BY <1>1
  <2>3. timed[i].due \in BOOLEAN /\ (timed[i].due \/ i \in list) \in BOOLEAN
    BY <2>1 DEF TimedRow
  <2> DEFINE b == timed[i].due \/ i \in list
  <2> HIDE DEF b
  <2>4. [timed[i] EXCEPT !.due = b].due = b /\ [timed[i] EXCEPT !.due = b].envs = timed[i].envs
        /\ [timed[i] EXCEPT !.due = b].status = timed[i].status
        /\ (b \in BOOLEAN => [timed[i] EXCEPT !.due = b] \in TimedRow)
    BY <2>1 DEF TimedRow
  <2> QED BY <2>2, <2>3, <2>4 DEF b
<1>4. DOMAIN timed' = DOMAIN timed /\ timed' \in [DOMAIN timed -> TimedRow]
  <2>1. timed' = [i \in DOMAIN timed |-> timed'[i]]
    BY <1>1
  <2> QED BY <1>3, <2>1
<1>5. TimedGo
  BY <1>3, <1>4, RowsGo
<1>6. RoundOK'
  <2>1. list \subseteq DueRows'
    BY <1>3, <1>4 DEF DueRows, OpenRows
  <2>2. round'.step = "look" /\ round'.list = list
    BY <1>1
  <2> QED BY <2>1, <2>2 DEF RoundOK
<1> QED BY <1>1, <1>2, <1>5, <1>6, ChangesSame, RestOf, RoundMoves

\* What a step of the housekeeping leaves as it is.
RoundOnly == UNCHANGED <<chains, st, changes, timed, job, asks, events, signed>>

LEMMA RoundOnlyMoves ==
    ASSUME Inv, Observe, RoundOnly, RoundOK'
    PROVE  Inv'
<1>1. RulesOK(st) /\ asks \in Nat /\ DOMAIN job = Workers
  BY DEF Inv, TypesOK
<1> QED BY <1>1, ChangesSame, TimedSame, RestOf, RoundMoves DEF RoundOnly

\* The row whose access is gone is remembered.
LEMMA GoneIsEnded ==
    ASSUME Observe, NEW i \in DueRows', timed'[i].envs \cap Access(st', Reader) = {}
    PROVE  i \in ended'
  BY DEF Observe, DueRows

LEMMA NextOneOK ==
    ASSUME Inv, NEW i, round.step # "idle", round.list \subseteq DueRows, timed' = timed, round' = NextOne(i)
    PROVE  RoundOK'
<1>1. DueRows' = DueRows
  BY DEF DueRows
<1>2. CASE round.list \ {i} = {}
  <2>1. round'.step = "idle"
    BY <1>2 DEF NextOne, Idle
  <2> QED BY <2>1 DEF RoundOK
<1>3. CASE round.list \ {i} # {}
  <2>1. round'.step = "look" /\ round'.list = round.list \ {i}
    BY <1>3 DEF NextOne
  <2> QED BY <1>1, <2>1 DEF RoundOK
<1> QED BY <1>2, <1>3

LEMMA LookKeeps ==
    ASSUME Inv, Observe, NEW i, Look(i)
    PROVE  Inv'
<1>1. round.list \subseteq DueRows /\ i \in DueRows /\ RoundOnly
  BY DEF Look, Inv, RoundOK, RoundOnly
<1>2. DueRows' = DueRows /\ timed' = timed /\ st' = st
  BY <1>1 DEF DueRows, RoundOnly
<1>3. CASE Gone(timed[i].envs)
  <2>1. /\ round'.step = "close" /\ round'.id = i /\ round'.list = round.list
        /\ round'.status = "gone"
    BY <1>3 DEF Look, CloseAs
  <2>2. i \in ended'
    BY <1>1, <1>2, <1>3, GoneIsEnded DEF Gone, Reads
  <2>3. RoundOK'
    BY <1>1, <1>2, <2>1, <2>2 DEF RoundOK
  <2> QED BY <1>1, <2>3, RoundOnlyMoves
<1>4. CASE ~Gone(timed[i].envs)
  <2> DEFINE c == Taking(timed[i].envs)
  <2>1. /\ round'.step = "sign" /\ round'.id = i /\ round'.list = round.list
        /\ round'.change = c
    BY <1>4 DEF Look, Sign
  <2>2. ChangeOK(c) /\ Takes(c, timed[i].envs)
    <3>1. Reads \in SUBSET EnvName
      BY ChangesAssumption DEF Inv, TypesOK, RulesOK, AccessIsReal, Reads, Holder, EnvNames
    <3>2. CASE Reads \subseteq timed[i].envs
      BY <3>2, SetToOK DEF Taking, Takes
    <3>3. CASE ~(Reads \subseteq timed[i].envs)
      <4>1. c = SetTo(Reads \ timed[i].envs)
        BY <3>3 DEF Taking
      <4>2. ChangeOK(c) /\ c.kind = "member_set" /\ c.envs = Reads \ timed[i].envs
        BY <3>1, <4>1, SetToOK
      <4> QED BY <4>2 DEF Takes
    <3> QED BY <3>2, <3>3
  <2> HIDE DEF c
  <2>3. RoundOK'
    BY <1>1, <1>2, <2>1, <2>2 DEF RoundOK
  <2> QED BY <1>1, <2>3, RoundOnlyMoves
<1> QED BY <1>3, <1>4

LEMMA ServerBuildKeeps ==
    ASSUME Inv, Observe, ServerBuild
    PROVE  Inv'
<1> DEFINE c == round.change
           l == ChangeLink(c, ServerKey)
<1>1. /\ round.step = "sign" /\ RoundOnly
      /\ round.list \subseteq DueRows /\ round.id \in DueRows
      /\ ChangeOK(c) /\ Takes(c, timed[round.id].envs)
  BY DEF ServerBuild, RoundOnly, Inv, RoundOK
<1>2. DueRows' = DueRows /\ timed' = timed
  BY <1>1 DEF DueRows, RoundOnly
<1>3. CASE ServerMaySign(c)
  <2>1. /\ round'.step = "commit" /\ round'.id = round.id /\ round'.list = round.list
        /\ round'.link = l
    BY <1>3 DEF ServerBuild, Send
  <2>2. /\ ReaderLink(l) /\ l.delegate = ServerKey
        /\ ReadsAfter(l) = IF c.kind = "member_remove" THEN {} ELSE c.envs
    BY <1>1, ChangeLinks DEF Inv
  <2> HIDE DEF c, l
  <2>3. ReadsAfter(l) \cap timed[round.id].envs = {}
    BY <1>1, <2>2 DEF Takes
  <2>4. RoundOK'
    BY <1>1, <1>2, <2>1, <2>2, <2>3 DEF RoundOK
  <2> QED BY <1>1, <2>4, RoundOnlyMoves
<1>4. CASE ~ServerMaySign(c)
  <2>1. /\ round'.step = "propose" /\ round'.id = round.id /\ round'.list = round.list
        /\ round'.change = c
    BY <1>4 DEF ServerBuild, Sign
  <2> HIDE DEF c
  <2>2. RoundOK'
    BY <1>1, <1>2, <2>1 DEF RoundOK
  <2> QED BY <1>1, <2>2, RoundOnlyMoves
<1> QED BY <1>3, <1>4

LEMMA ServerCommitKeeps ==
    ASSUME Inv, Observe, ServerCommit
    PROVE  Inv'
<1> DEFINE l == round.link
           i == round.id
<1>1. /\ round.step = "commit" /\ UNCHANGED <<chains, changes, timed, job, asks, events, signed>>
      /\ round.list \subseteq DueRows /\ i \in DueRows
      /\ ReaderLink(l) /\ ReadsAfter(l) \cap timed[i].envs = {}
      /\ RulesOK(st) /\ asks \in Nat /\ DOMAIN job = Workers
  BY DEF ServerCommit, Inv, RoundOK, TypesOK
<1>2. DueRows' = DueRows
  BY <1>1 DEF DueRows
<1>3. CASE Valid(l)
  <2>1. Commit(l) /\ round' = CloseAs(i, "signed")
    BY <1>3 DEF ServerCommit
  <2>2. RulesOK(st') /\ Access(st', Reader) = ReadsAfter(l)
    BY <1>1, <2>1, LinkMakes
  <2>3. /\ round'.step = "close" /\ round'.id = i /\ round'.list = round.list
        /\ round'.status = "signed"
    BY <2>1 DEF CloseAs
  <2> HIDE DEF i, l
  <2>4. i \in ended'
    <3>1. timed'[i].envs \cap Access(st', Reader) = {} /\ i \in DueRows'
      BY <1>1, <1>2, <2>2
    <3> QED BY <3>1, GoneIsEnded
  <2>5. RoundOK'
    BY <1>1, <1>2, <2>3, <2>4 DEF RoundOK
  <2> QED BY <1>1, <2>2, <2>5, ChangesSame, TimedSame, RestOf, RoundMoves
<1>4. CASE ~Valid(l)
  <2>1. st' = st /\ round' = NextOne(i)
    BY <1>4 DEF ServerCommit
  <2>2. RoundOK'
    BY <1>1, <2>1, NextOneOK
  <2>3. RoundOnly
    BY <1>1, <2>1 DEF RoundOnly
  <2> QED BY <2>2, <2>3, RoundOnlyMoves
<1> QED BY <1>3, <1>4

LEMMA ExpirerProposesKeeps ==
    ASSUME Inv, Observe, ExpirerProposes
    PROVE  Inv'
<1> DEFINE c == round.change
           i == round.id
<1>1. /\ round.step = "propose" /\ UNCHANGED <<chains, st, timed, job, asks, events, signed>>
      /\ round.list \subseteq DueRows /\ i \in DueRows
      /\ ChangeOK(c) /\ Takes(c, timed[i].envs)
      /\ RulesOK(st) /\ asks \in Nat /\ DOMAIN job = Workers
  BY DEF ExpirerProposes, Inv, RoundOK, TypesOK
<1>2. DueRows' = DueRows
  BY <1>1 DEF DueRows
<1>3. CASE MayPropose(c)
  <2>1. changes' = Proposed(c) /\ round' = CloseAs(i, "proposed")
    BY <1>3 DEF ExpirerProposes
  <2>2. /\ round'.step = "close" /\ round'.id = i /\ round'.list = round.list
        /\ round'.status = "proposed"
    BY <2>1 DEF CloseAs
  <2> HIDE DEF c, i
  <2>3. ChangesGo /\ \E j \in DOMAIN changes' : changes'[j].kind = c.kind /\ changes'[j].envs = c.envs
    BY <1>1, <2>1, ProposedGives
  <2>4. PICK j \in DOMAIN changes' : changes'[j].kind = c.kind /\ changes'[j].envs = c.envs
    BY <2>3
  <2>5. Takes(changes'[j], timed'[round'.id].envs)
    BY <1>1, <2>2, <2>4 DEF Takes
  <2>6. RoundOK'
    BY <1>1, <1>2, <2>2, <2>4, <2>5 DEF RoundOK, ProposedAway
  <2> QED BY <1>1, <2>3, <2>6, TimedSame, RestOf, RoundMoves
<1>4. CASE ~MayPropose(c)
  <2>1. changes' = changes /\ round' = NextOne(i)
    BY <1>4 DEF ExpirerProposes
  <2>2. RoundOK'
    BY <1>1, <2>1, NextOneOK
  <2>3. RoundOnly
    BY <1>1, <2>1 DEF RoundOnly
  <2> QED BY <2>2, <2>3, RoundOnlyMoves
<1> QED BY <1>3, <1>4

LEMMA CloseRowKeeps ==
    ASSUME Inv, Observe, CloseRow
    PROVE  Inv'
<1> DEFINE i == round.id
           s == round.status
<1>1. /\ round.step = "close" /\ UNCHANGED <<chains, st, changes, job, asks, events, signed>>
      /\ timed' = [timed EXCEPT ![i].status = s] /\ round' = NextOne(i)
      /\ round.list \subseteq DueRows /\ i \in DueRows
      /\ s \in {"gone", "signed", "proposed"}
      /\ \/ i \in ended
         \/ s = "proposed" /\ ProposedAway(timed[i].envs)
      /\ timed \in Seq(TimedRow) /\ RulesOK(st) /\ asks \in Nat /\ DOMAIN job = Workers
  BY DEF CloseRow, Inv, RoundOK, TypesOK
<1> HIDE DEF i, s
<1>2. \A k \in DOMAIN timed : timed[k] \in TimedRow
  BY <1>1, ElementOfSeq
<1>3. i \in DOMAIN timed /\ [timed[i] EXCEPT !.status = s] \in TimedRow
  BY <1>1, <1>2 DEF TimedRow, DueRows
<1>4. /\ DOMAIN timed' = DOMAIN timed
      /\ timed' = [k \in DOMAIN timed |-> IF k = i THEN [timed[i] EXCEPT !.status = s] ELSE timed[k]]
  BY <1>1
<1>5. timed' \in [DOMAIN timed -> TimedRow]
  BY <1>2, <1>3, <1>4
<1>6. \A k \in DOMAIN timed :
         /\ timed'[k].envs = timed[k].envs /\ timed'[k].due = timed[k].due
         /\ timed'[k].status = IF k = i THEN s ELSE timed[k].status
  BY <1>2, <1>4 DEF TimedRow
<1>7. TimedGo
  BY <1>1, <1>4, <1>5, <1>6, RowsGo
<1>8. RoundOK'
  <2>1. DueRows' = DueRows
    BY <1>4, <1>6 DEF DueRows
  <2>2. CASE round.list \ {i} = {}
    <3>1. round'.step = "idle"
      BY <1>1, <2>2 DEF NextOne, Idle
    <3> QED BY <3>1 DEF RoundOK
  <2>3. CASE round.list \ {i} # {}
    <3>1. round'.step = "look" /\ round'.list = round.list \ {i}
      BY <1>1, <2>3 DEF NextOne
    <3> QED BY <1>1, <2>1, <3>1 DEF RoundOK
  <2> QED BY <2>2, <2>3
<1> QED BY <1>1, <1>7, <1>8, ChangesSame, RestOf, RoundMoves

-----------------------------------------------------------------------------
(* The device and the page.                                                *)

LEMMA Done ==
    ASSUME DOMAIN job = Workers, NEW w \in Workers, NEW next, Do(w, next)
    PROVE  /\ DOMAIN job' = Workers /\ job'[w] = next
           /\ \A v \in Workers \ {w} : job'[v] = job[v]
  BY DEF Do

LEMMA ChangeThere ==
    ASSUME Inv, NEW i \in DOMAIN changes
    PROVE  changes[i] \in Proposal /\ ChangeOK(changes[i])
<1>1. changes[i] \in Proposal
  BY ElementOfSeq DEF Inv, TypesOK
<1> QED BY <1>1 DEF Proposal, ChangeOK

\* A step that only one of them takes, for itself.
LEMMA JobOnlyMoves ==
    ASSUME Inv, Observe, NEW w \in Workers, NEW next, Do(w, next), JobOK(w)',
           UNCHANGED <<chains, st, changes, timed, round, asks, events, signed>>
    PROVE  Inv'
<1>1. RulesOK(st) /\ asks \in Nat /\ DOMAIN job = Workers
  BY DEF Inv, TypesOK
<1>2. DOMAIN job' = Workers /\ \A v \in Workers \ {w} : job'[v] = job[v]
  BY <1>1, Done
<1> QED BY <1>1, <1>2, ChangesSame, TimedSame, RestOf, JobMoves

LEMMA IdleOK ==
    ASSUME NEW w, job'[w] = Idle
    PROVE  JobOK(w)'
<1>1. job'[w].step = "idle"
  BY DEF Idle
<1> QED BY <1>1 DEF JobOK

LEMMA MarkingOK ==
    ASSUME NEW w, NEW step \in {"close", "write"}, NEW i, NEW status \in {"applied", "dismissed"},
           job'[w] = Marking(step, i, status), i \in DOMAIN changes',
           status = "applied" => i \in signed'
    PROVE  JobOK(w)'
<1>1. job'[w].step = step /\ job'[w].id = i /\ job'[w].status = status
  BY DEF Marking
<1> QED BY <1>1 DEF JobOK

LEMMA ReadingOK ==
    ASSUME NEW w, NEW step \in {"narrow", "shown"}, NEW i \in DOMAIN changes',
           job'[w] = [step |-> step, id |-> i]
    PROVE  JobOK(w)'
<1>1. job'[w].step = step /\ job'[w].id = i
  OBVIOUS
<1> QED BY <1>1 DEF JobOK

LEMMA CloseKeeps ==
    ASSUME Inv, Observe, NEW w \in Workers, Close(w)
    PROVE  Inv'
<1> DEFINE i == job[w].id
           s == job[w].status
           next == IF i \in Open THEN Marking("write", i, s) ELSE Idle
<1>1. /\ job[w].step = "close" /\ Do(w, next) /\ DOMAIN job = Workers
      /\ UNCHANGED <<chains, st, changes, timed, round, asks, events, signed>>
      /\ i \in DOMAIN changes /\ s \in {"applied", "dismissed"}
      /\ s = "applied" => i \in signed
  BY DEF Close, Inv, TypesOK, JobOK
<1>2. job'[w] = next
  BY <1>1, Done
<1>3. JobOK(w)'
  <2>1. CASE i \in Open
    <3>1. next = Marking("write", i, s)
      BY <2>1
    <3> HIDE DEF i, s, next
    <3> QED BY <1>1, <1>2, <3>1, MarkingOK
  <2>2. CASE i \notin Open
    <3>1. next = Idle
      BY <2>2
    <3> HIDE DEF next
    <3> QED BY <1>2, <3>1, IdleOK
  <2> QED BY <2>1, <2>2
<1> HIDE DEF next
<1> QED BY <1>1, <1>3, JobOnlyMoves

LEMMA WriteKeeps ==
    ASSUME Inv, Observe, NEW w \in Workers, Write(w)
    PROVE  Inv'
<1> DEFINE i == job[w].id
           s == job[w].status
<1>1. /\ job[w].step = "write" /\ Do(w, Idle) /\ DOMAIN job = Workers
      /\ changes' = [changes EXCEPT ![i].status = s]
      /\ UNCHANGED <<chains, st, timed, round, asks, events, signed>>
      /\ i \in DOMAIN changes /\ s \in {"applied", "dismissed"}
      /\ s = "applied" => i \in signed
      /\ RulesOK(st) /\ asks \in Nat /\ changes \in Seq(Proposal)
  BY DEF Write, Inv, TypesOK, JobOK
<1> HIDE DEF i, s
<1>2. \A k \in DOMAIN changes : changes[k] \in Proposal
  BY ChangeThere
<1>3. [changes[i] EXCEPT !.status = s] \in Proposal
  BY <1>1, <1>2 DEF Proposal
<1>4. /\ DOMAIN changes' = DOMAIN changes
      /\ changes' = [k \in DOMAIN changes |-> IF k = i THEN [changes[i] EXCEPT !.status = s]
                                             ELSE changes[k]]
  BY <1>1
<1>5. changes' \in Seq(Proposal)
  <2>1. changes' \in [DOMAIN changes -> Proposal]
    BY <1>2, <1>3, <1>4
  <2> QED BY <1>1, <2>1, SeqFromRows
<1>6. \A k \in DOMAIN changes :
         /\ changes'[k].kind = changes[k].kind /\ changes'[k].envs = changes[k].envs
         /\ changes'[k].status = IF k = i THEN s ELSE changes[k].status
  BY <1>2, <1>4 DEF Proposal
<1>7. ChangesGo
  <2>1. \A k \in DOMAIN changes : changes[k].status = "applied" => k \in signed
    BY DEF Inv, ClosedTruly
  <2> QED BY <1>1, <1>4, <1>5, <1>6, <2>1 DEF ChangesGo
<1>8. /\ DOMAIN job' = Workers /\ job'[w] = Idle
      /\ \A v \in Workers \ {w} : job'[v] = job[v]
  BY <1>1, Done
<1>9. JobOK(w)'
  BY <1>8, IdleOK
<1> QED BY <1>1, <1>7, <1>8, <1>9, TimedSame, RestOf, JobMoves

LEMMA ShowKeeps ==
    ASSUME Inv, Observe, NEW i, NEW yes \in BOOLEAN, Show(i, yes)
    PROVE  Inv'
<1> DEFINE s == IF yes THEN "narrow" ELSE "shown"
           next == [step |-> s, id |-> i]
<1>1. /\ i \in DOMAIN changes /\ Do("device", next) /\ DOMAIN job = Workers
      /\ UNCHANGED <<chains, st, changes, timed, round, asks, events, signed>>
      /\ s \in {"narrow", "shown"} /\ "device" \in Workers
  BY DEF Show, Open, Inv, TypesOK, Workers
<1>2. job'["device"] = next
  BY <1>1, Done
<1> HIDE DEF s
<1>3. JobOK("device")'
  BY <1>1, <1>2, ReadingOK
<1> QED BY <1>1, <1>3, JobOnlyMoves

\* A change that is signed, by the device or by the passkey.
LEMMA SignedKeeps ==
    ASSUME Inv, Observe, NEW w \in Workers, NEW l, ReaderLink(l), Commit(l),
           NEW i \in DOMAIN changes, signed' = signed \cup {i}, Do(w, Closing(i, "applied")),
           UNCHANGED <<chains, changes, timed, round, asks, events>>
    PROVE  Inv'
<1>1. RulesOK(st) /\ asks \in Nat /\ DOMAIN job = Workers
  BY DEF Inv, TypesOK
<1>2. RulesOK(st')
  BY <1>1, LinkMakes
<1>3. /\ DOMAIN job' = Workers /\ job'[w] = Closing(i, "applied")
      /\ \A v \in Workers \ {w} : job'[v] = job[v]
  BY <1>1, Done
<1>4. JobOK(w)'
  BY <1>3, MarkingOK DEF Closing
<1> QED BY <1>1, <1>2, <1>3, <1>4, ChangesSame, TimedSame, RestOf, JobMoves

LEMMA SignHereKeeps ==
    ASSUME Inv, Observe, NEW i \in DOMAIN changes, NEW refused,
           refused = Idle \/ refused = [step |-> "shown", id |-> i],
           SignHere(DeviceLink(changes[i]), i, refused)
    PROVE  Inv'
<1> DEFINE l == DeviceLink(changes[i])
<1>1. "device" \in Workers /\ DOMAIN job = Workers /\ ReaderLink(l)
  BY ChangeThere, ChangeLinks DEF Workers, Inv, TypesOK
<1>2. CASE Valid(l)
  <2>1. /\ Commit(l) /\ signed' = signed \cup {i} /\ Do("device", Closing(i, "applied"))
        /\ UNCHANGED <<chains, changes, timed, round, asks, events>>
    BY <1>2 DEF SignHere
  <2> HIDE DEF l
  <2> QED BY <1>1, <2>1, SignedKeeps
<1>3. CASE ~Valid(l)
  <2>1. /\ Do("device", refused)
        /\ UNCHANGED <<chains, st, changes, timed, round, asks, events, signed>>
    BY <1>3 DEF SignHere
  <2>2. job'["device"] = refused /\ i \in DOMAIN changes'
    BY <1>1, <2>1, Done
  <2>3. JobOK("device")'
    BY <2>2, IdleOK, ReadingOK
  <2> QED BY <1>1, <2>1, <2>3, JobOnlyMoves
<1> QED BY <1>2, <1>3

LEMMA SignAskedKeeps ==
    ASSUME Inv, Observe, SignAsked
    PROVE  Inv'
<1> DEFINE i == job["device"].id
<1>1. i \in DOMAIN changes /\ SignHere(DeviceLink(changes[i]), i, Idle)
  BY DEF SignAsked, Inv, JobOK, Workers
<1> HIDE DEF i
<1> QED BY <1>1, SignHereKeeps

LEMMA SignNarrowKeeps ==
    ASSUME Inv, Observe, SignNarrow
    PROVE  Inv'
<1> DEFINE i == job["device"].id
           again == [step |-> "shown", id |-> i]
<1>1. i \in DOMAIN changes /\ "device" \in Workers /\ DOMAIN job = Workers
  BY DEF SignNarrow, Inv, JobOK, TypesOK, Workers
<1>2. CASE Narrowing(changes[i])
  <2>1. SignHere(DeviceLink(changes[i]), i, again)
    BY <1>2 DEF SignNarrow
  <2> HIDE DEF i
  <2> QED BY <1>1, <2>1, SignHereKeeps
<1>3. CASE ~Narrowing(changes[i])
  <2>1. /\ Do("device", again)
        /\ UNCHANGED <<chains, st, changes, timed, round, asks, events, signed>>
    BY <1>3 DEF SignNarrow
  <2> HIDE DEF i
  <2>2. job'["device"] = again /\ i \in DOMAIN changes'
    BY <1>1, <2>1, Done
  <2>3. JobOK("device")'
    BY <2>2, ReadingOK
  <2> QED BY <1>1, <2>1, <2>3, JobOnlyMoves
<1> QED BY <1>2, <1>3

LEMMA SkipKeeps ==
    ASSUME Inv, Observe, Skip
    PROVE  Inv'
<1> DEFINE i == job["device"].id
<1>1. /\ i \in DOMAIN changes /\ "device" \in Workers /\ DOMAIN job = Workers
      /\ UNCHANGED <<chains, st, changes, timed, round, asks, events, signed>>
      /\ Do("device", Idle) \/ Do("device", Closing(i, "dismissed"))
  BY DEF Skip, Inv, JobOK, TypesOK, Workers
<1> HIDE DEF i
<1>2. CASE Do("device", Idle)
  <2>1. JobOK("device")'
    BY <1>1, <1>2, Done, IdleOK
  <2> QED BY <1>1, <1>2, <2>1, JobOnlyMoves
<1>3. CASE Do("device", Closing(i, "dismissed"))
  <2>1. job'["device"] = Marking("close", i, "dismissed")
    BY <1>1, <1>3, Done DEF Closing
  <2>2. JobOK("device")'
    BY <1>1, <2>1, MarkingOK
  <2> QED BY <1>1, <1>3, <2>2, JobOnlyMoves
<1> QED BY <1>1, <1>2, <1>3

LEMMA PasskeyBeginKeeps ==
    ASSUME Inv, Observe, NEW i, PasskeyBegin(i)
    PROVE  Inv'
<1> DEFINE l == ChangeLink(changes[i], Passkey)
           next == [step |-> "finish", id |-> i, link |-> l]
<1>1. /\ i \in DOMAIN changes /\ "page" \in Workers /\ DOMAIN job = Workers
      /\ UNCHANGED <<chains, st, changes, timed, round, asks, events, signed>>
      /\ Do("page", next)
  BY DEF PasskeyBegin, Open, Inv, TypesOK, Workers
<1>2. ReaderLink(l)
  BY <1>1, ChangeThere, ChangeLinks DEF Inv
<1> HIDE DEF l
<1>3. job'["page"] = next
  BY <1>1, Done
<1>4. JobOK("page")'
  <2>1. job'["page"].step = "finish" /\ job'["page"].id = i /\ job'["page"].link = l
    BY <1>3
  <2> QED BY <1>1, <1>2, <2>1 DEF JobOK
<1> QED BY <1>1, <1>4, JobOnlyMoves

LEMMA PasskeyFinishKeeps ==
    ASSUME Inv, Observe, PasskeyFinish
    PROVE  Inv'
<1> DEFINE l == job["page"].link
           i == job["page"].id
<1>1. /\ i \in DOMAIN changes /\ ReaderLink(l) /\ "page" \in Workers /\ DOMAIN job = Workers
      /\ UNCHANGED <<chains, changes, timed, round, asks, events>>
  BY DEF PasskeyFinish, Inv, JobOK, TypesOK, Workers
<1>2. CASE Valid(l)
  <2>1. Commit(l) /\ signed' = signed \cup {i} /\ Do("page", Closing(i, "applied"))
    BY <1>2 DEF PasskeyFinish
  <2> HIDE DEF i, l
  <2> QED BY <1>1, <2>1, SignedKeeps
<1>3. CASE ~Valid(l)
  <2>1. UNCHANGED <<st, signed>> /\ Do("page", Idle)
    BY <1>3 DEF PasskeyFinish
  <2> HIDE DEF i, l
  <2>2. JobOK("page")'
    BY <1>1, <2>1, Done, IdleOK
  <2> QED BY <1>1, <2>1, <2>2, JobOnlyMoves
<1> QED BY <1>2, <1>3

LEMMA PageDismissKeeps ==
    ASSUME Inv, Observe, NEW i, PageDismiss(i)
    PROVE  Inv'
<1>1. /\ i \in DOMAIN changes /\ "page" \in Workers /\ DOMAIN job = Workers
      /\ UNCHANGED <<chains, st, changes, timed, round, asks, events, signed>>
      /\ Do("page", Closing(i, "dismissed"))
  BY DEF PageDismiss, Open, Inv, TypesOK, Workers
<1>2. job'["page"] = Marking("close", i, "dismissed")
  BY <1>1, Done DEF Closing
<1>3. JobOK("page")'
  BY <1>1, <1>2, MarkingOK
<1> QED BY <1>1, <1>3, JobOnlyMoves

LEMMA ReadsTyped ==
    ASSUME Inv
    PROVE  Reads \in SUBSET EnvName
  BY ChangesAssumption DEF Inv, TypesOK, RulesOK, AccessIsReal, Reads, Holder, EnvNames

\* What access grant signs.
Granted(envs) == IF Member(st, Reader) THEN SetTo(Reads \cup envs) ELSE Change("member_add", envs)

LEMMA GrantKeeps ==
    ASSUME Inv, Observe, NEW envs \in SUBSET EnvNames(st), Grant(envs)
    PROVE  Inv'
<1> DEFINE l == DeviceLink(Granted(envs))
           next == [step |-> "record", gained |-> envs \ Reads]
<1>1. /\ Commit(l) /\ Do("device", next) /\ Asks /\ "device" \in Workers
      /\ UNCHANGED <<chains, changes, timed, round, events, signed>>
  BY DEF Grant, Granted, Workers
<1>2. envs \in SUBSET EnvName /\ RulesOK(st) /\ asks \in Nat /\ DOMAIN job = Workers
  BY DEF EnvNames, Inv, TypesOK
<1>3. ChangeOK(Granted(envs))
  <2>1. Reads \cup envs \in SUBSET EnvName
    BY <1>2, ReadsTyped
  <2> QED BY <1>2, <2>1, SetToOK DEF Granted
<1>4. ReaderLink(l)
  BY <1>3, ChangeLinks DEF Inv
<1> HIDE DEF l
<1>5. RulesOK(st')
  BY <1>1, <1>2, <1>4, LinkMakes
<1>6. /\ DOMAIN job' = Workers /\ job'["device"] = next
      /\ \A v \in Workers \ {"device"} : job'[v] = job[v]
  BY <1>1, <1>2, Done
<1>7. JobOK("device")'
  <2>1. job'["device"].step = "record" /\ job'["device"].gained = envs \ Reads
    BY <1>6
  <2> QED BY <1>2, <2>1 DEF JobOK
<1>8. asks' \in Nat
  BY <1>1, <1>2 DEF Asks
<1> QED BY <1>1, <1>5, <1>6, <1>7, <1>8, ChangesSame, TimedSame, RestOf, JobMoves

LEMMA SetExpiryKeeps ==
    ASSUME Inv, Observe, SetExpiry
    PROVE  Inv'
<1> DEFINE envs == job["device"].gained
           row == Row(envs)
<1>1. /\ envs \in SUBSET EnvName /\ Do("device", Idle) /\ "device" \in Workers
      /\ UNCHANGED <<chains, st, changes, round, asks, events, signed>>
      /\ timed' = Append(timed, row) \/ timed' = timed
      /\ RulesOK(st) /\ asks \in Nat /\ DOMAIN job = Workers /\ timed \in Seq(TimedRow)
  BY DEF SetExpiry, Inv, JobOK, TypesOK, Workers
<1>2. row \in TimedRow /\ row.status = "open"
  BY <1>1 DEF Row, TimedRow
<1> HIDE DEF envs, row
<1>3. CASE timed' = timed
  <2>1. JobOK("device")'
    BY <1>1, Done, IdleOK
  <2> QED BY <1>1, <1>3, <2>1, JobOnlyMoves
<1>4. CASE timed' = Append(timed, row)
  <2>1. /\ timed' \in Seq(TimedRow)
        /\ DOMAIN timed' = DOMAIN timed \cup {Len(timed) + 1}
        /\ \A i \in DOMAIN timed : timed'[i] = timed[i]
        /\ timed'[Len(timed) + 1] = row
    BY <1>1, <1>2, <1>4, AppendRow
  <2>2. ASSUME NEW i \in DOMAIN timed, timed[i].status \notin {"open", "cancelled"}
        PROVE  \/ i \in ended
               \/ timed[i].status = "proposed" /\ ProposedAway(timed[i].envs)
    <3>1. \A k \in DOMAIN timed :
            \/ timed[k].status \in {"open", "cancelled"}
            \/ /\ k \in DOMAIN timed
               /\ \/ k \in ended
                  \/ timed[k].status = "proposed" /\ ProposedAway(timed[k].envs)
      <4>1. ASSUME NEW k \in DOMAIN timed
            PROVE  /\ timed[k] \in TimedRow
                   /\ timed[k].status \in {"signed", "gone"} => k \in ended
                   /\ timed[k].status = "proposed" => k \in ended \/ ProposedAway(timed[k].envs)
        BY <1>1, ElementOfSeq DEF Inv, ClosedTruly, ProposedAway
      <4> QED BY <4>1 DEF TimedRow
    <3> QED BY <2>2, <3>1
  <2>3. TimedGo
    <3>1. \A i \in DOMAIN timed' :
            \/ timed'[i].status \in {"open", "cancelled"}
            \/ /\ i \in DOMAIN timed
               /\ \/ i \in ended
                  \/ timed'[i].status = "proposed" /\ ProposedAway(timed[i].envs)
      BY <1>2, <2>1, <2>2
    <3> QED BY <2>1, <3>1 DEF TimedGo
  <2>4. /\ DOMAIN job' = Workers /\ job'["device"] = Idle
        /\ \A v \in Workers \ {"device"} : job'[v] = job[v]
    BY <1>1, Done
  <2>5. JobOK("device")'
    BY <2>4, IdleOK
  <2> QED BY <1>1, <2>3, <2>4, <2>5, ChangesSame, RestOf, JobMoves
<1> QED BY <1>1, <1>3, <1>4

-----------------------------------------------------------------------------
(* The admin's chain and the server.                                       *)

LEMMA RemoveDelegateKeeps ==
    ASSUME Inv, Observe, NEW d, RemoveDelegate(d)
    PROVE  Inv'
<1> DEFINE old == chains[Boss][Pos]
           last == [old EXCEPT !.delegates = @ \ {d}]
<1>1. /\ chains' = [chains EXCEPT ![Boss] = Append(chains[Boss], last)]
      /\ UNCHANGED <<st, changes, timed, round, job, asks, signed>>
      /\ chains \in [Person -> Seq(Position)] /\ Pos \in Nat \ {0} /\ Boss \in Person
      /\ RulesOK(st) /\ asks \in Nat /\ DOMAIN job = Workers
  <2>1. chains' = [chains EXCEPT ![Boss] = Append(chains[Boss], last)]
    BY DEF RemoveDelegate
  <2>2. UNCHANGED <<st, changes, timed, round, job, asks, signed>>
    BY DEF RemoveDelegate
  <2> QED BY <2>1, <2>2, ChangesAssumption DEF Inv, TypesOK
<1>2. chains[Boss] \in Seq(Position) /\ Pos \in DOMAIN chains[Boss]
  BY <1>1 DEF Pos
<1>3. old \in Position
  BY <1>2, ElementOfSeq
<1>4. last \in Position
  BY <1>3 DEF Position
<1> HIDE DEF old, last
<1>5. Append(chains[Boss], last) \in Seq(Position) /\ Len(Append(chains[Boss], last)) = Pos + 1
  BY <1>2, <1>4 DEF Pos
<1>6. chains' \in [Person -> Seq(Position)] /\ chains'[Boss] = Append(chains[Boss], last)
  BY <1>1, <1>5
<1>7. Pos' \in Nat \ {0}
  BY <1>1, <1>5, <1>6 DEF Pos
<1>8. Rest
  BY <1>1, <1>6, <1>7 DEF Rest
<1> QED BY <1>1, <1>8, ChangesSame, TimedSame, Undisturbed

LEMMA CrashKeeps ==
    ASSUME Inv, Observe, Crash
    PROVE  Inv'
<1>1. /\ round' = Idle /\ UNCHANGED <<chains, st, changes, timed, asks, signed>>
      /\ job' = [w \in Workers |-> IF w = "device" /\ job[w].step # "write" THEN job[w] ELSE Idle]
      /\ RulesOK(st) /\ asks \in Nat
  BY DEF Crash, Inv, TypesOK
<1>2. DOMAIN job' = Workers
  BY <1>1
<1>3. TypesOK' /\ Grows /\ ClosedTruly'
  BY <1>1, <1>2, ChangesSame, TimedSame, RestOf, Assembled
<1>4. RoundOK'
  <2>1. round'.step = "idle"
    BY <1>1 DEF Idle
  <2> QED BY <2>1 DEF RoundOK
<1>5. ASSUME NEW w \in Workers PROVE JobOK(w)'
  <2>1. job'[w] = job[w] \/ job'[w] = Idle
    BY <1>1
  <2>2. CASE job'[w] = job[w]
    BY <1>3, <2>2, JobStays DEF Inv
  <2>3. CASE job'[w] = Idle
    BY <2>3, IdleOK
  <2> QED BY <2>1, <2>2, <2>3
<1> QED BY <1>3, <1>4, <1>5 DEF Inv

-----------------------------------------------------------------------------
(* How it begins.                                                          *)

LEMMA StartOK == RulesOK(Start)
<1> DEFINE b == [creator |-> Boss,
                 envs |-> [n \in EnvName |-> IF n \in FirstEnvs THEN FirstKeys[n] ELSE NoKey]]
           l1 == NewLink(New, "init", Boss, 1, 1, Now, b)
           s == NextState(New, l1)
           c == Body(Change("member_add", FirstReads), "github-ssh")
           l2 == NewLink(s, "member_add", Boss, 1, 1, Now, c)
           x == Apply(s, l2)
<1>1. /\ Boss \in Person /\ Reader \in Person /\ Reader # Boss
      /\ FirstEnvs \in SUBSET EnvName /\ FirstReads \subseteq FirstEnvs
      /\ FirstKeys \in [FirstEnvs -> EnvKey]
      /\ \A n, m \in FirstEnvs : n # m => FirstKeys[n] # FirstKeys[m]
  <2>1. FirstKeys \in Injection(FirstEnvs, EnvKey)
    BY ChangesAssumption DEF FirstKeys
  <2>2. FirstKeys \in [FirstEnvs -> EnvKey] /\ IsInjective(FirstKeys)
    BY <2>1 DEF Injection
  <2>3. \A n, m \in FirstEnvs : n # m => FirstKeys[n] # FirstKeys[m]
    BY <2>2 DEF IsInjective
  <2>4. /\ Boss \in Person /\ Reader \in Person /\ Reader # Boss
        /\ FirstEnvs \in SUBSET EnvName /\ FirstReads \subseteq FirstEnvs
    BY ChangesAssumption
  <2> QED BY <2>2, <2>3, <2>4
<1>2. New.seq = 0
  BY DEF New
<1>3. /\ b.creator = Boss /\ b.envs \in [EnvName -> EnvKey \cup {NoKey}]
      /\ \A n \in EnvName : b.envs[n] = IF n \in FirstEnvs THEN FirstKeys[n] ELSE NoKey
  BY <1>1
<1> HIDE DEF b
<1>4. /\ l1.type = "init" /\ l1.seq = 1 /\ l1.time = 1 /\ l1.pos = 1 /\ l1.signer = Boss
      /\ l1.b = b
  BY <1>2 DEF NewLink, Now
<1> HIDE DEF l1
<1>5. WellFormed(l1)
  BY <1>1, <1>3, <1>4 DEF WellFormed, Types, BodyOK
<1>6. ValidInit(New, l1)
  <2>1. \A n, m \in EnvName : n # m /\ b.envs[n] # NoKey => b.envs[n] # b.envs[m]
    BY <1>1, <1>3, NoKeyAssumption
  <2> QED BY <1>2, <1>3, <1>4, <2>1 DEF ValidInit
<1>7. /\ RulesOK(s) /\ ~s.archived /\ Admin(s, Boss) /\ s.seq = 1
      /\ \A n \in EnvName : s.envs[n].key = b.envs[n]
      /\ ~Member(s, Reader)
  <2>1. /\ StateOK(s) /\ s.seq = l1.seq /\ ~s.archived /\ Admin(s, l1.b.creator)
        /\ \A n \in EnvName : s.envs[n].key = l1.b.envs[n]
        /\ \A u \in Person : Member(s, u) <=> u = l1.b.creator
    BY <1>4, <1>5, <1>6, InitEffect
  <2> HIDE DEF s
  <2> QED BY <1>1, <1>3, <1>4, <2>1 DEF StateOK
<1> HIDE DEF s
<1>8. FirstReads \subseteq EnvNames(s)
  BY <1>1, <1>3, <1>7, NoKeyAssumption DEF EnvNames
<1>9. c.user = Reader /\ c.admin = FALSE /\ c.envs = FirstReads /\ c.verified = "github-ssh"
  BY DEF Body, Change
<1>10. /\ l2.type = "member_add" /\ l2.seq = 2 /\ l2.time = 1 /\ l2.pos = 1 /\ l2.signer = Boss
       /\ l2.b = c
  BY <1>7 DEF NewLink, Now
<1> HIDE DEF c, l2
<1>11. WellFormed(l2)
  <2>1. FirstReads \in SUBSET EnvName
    BY <1>1
  <2>2. c.user \in Person /\ c.admin \in BOOLEAN /\ c.envs \in SUBSET EnvName
        /\ c.verified \in Verification
    BY <1>1, <1>9, <2>1 DEF Verification
  <2>3. BodyOK(l2.type, l2.b)
    BY <1>10, <2>2 DEF BodyOK
  <2> QED BY <1>1, <1>10, <2>3 DEF WellFormed, Types
<1>12. ValidApply(s, l2)
  BY <1>7, <1>8, <1>9, <1>10 DEF ValidApply, ValidMemberAdd, CheckAccess
<1>13. RulesOK(x)
  BY <1>7, <1>10, <1>11, <1>12, MemberAddEffect DEF Good
<1>14. NextState(s, l2) = Booked(x, l2)
  BY DEF NextState, Booked
<1> HIDE DEF x
<1>15. RulesOK(Booked(x, l2))
  BY <1>11, <1>13, Bookkeeping
<1>16. Start = NextState(s, l2)
  BY DEF Start, s, l1, b, l2, c
<1> QED BY <1>14, <1>15, <1>16

LEMMA InitInv == Init => Inv
<1> SUFFICES ASSUME Init PROVE Inv
  OBVIOUS
<1>1. /\ chains = [u \in Person |-> <<[ver |-> 1, delegates |->
                     IF u = Boss THEN {ServerKey, Passkey} ELSE {}]>>]
      /\ st = Start /\ changes = << >> /\ asks = 0
      /\ timed = [i \in 1..Cardinality(FirstReads) |-> Row({FirstRows[i]})]
      /\ round = Idle /\ job = [w \in Workers |-> Idle]
  BY DEF Init
<1>2. chains \in [Person -> Seq(Position)] /\ Pos \in Nat \ {0}
  <2>1. ASSUME NEW u \in Person
        PROVE  chains[u] \in Seq(Position) /\ Len(chains[u]) = 1
    <3> DEFINE p == [ver |-> 1, delegates |-> IF u = Boss THEN {ServerKey, Passkey} ELSE {}]
    <3>1. p \in Position /\ chains[u] = <<p>>
      BY <1>1, DelegatesAssumption DEF Position
    <3> HIDE DEF p
    <3> QED BY <3>1
  <2>2. Boss \in Person
    BY ChangesAssumption
  <2>3. chains = [u \in Person |-> chains[u]]
    BY <1>1
  <2>4. chains \in [Person -> Seq(Position)]
    BY <2>1, <2>3
  <2>5. Pos = 1
    BY <2>1, <2>2 DEF Pos
  <2> QED BY <2>4, <2>5
<1>3. timed \in Seq(TimedRow) /\ \A i \in DOMAIN timed : timed[i].status = "open"
  <2> DEFINE n == Cardinality(FirstReads)
  <2>1. n \in Nat /\ ExistsBijection(1..n, FirstReads)
    BY ChangesAssumption, FS_CardinalityType
  <2>2. FirstRows \in Bijection(1..n, FirstReads)
    BY <2>1 DEF FirstRows, ExistsBijection
  <2>3. FirstRows \in [1..n -> FirstReads]
    BY <2>2 DEF Bijection, Injection
  <2> HIDE DEF n
  <2>4. ASSUME NEW i \in 1..n
        PROVE  Row({FirstRows[i]}) \in TimedRow /\ Row({FirstRows[i]}).status = "open"
    <3>1. {FirstRows[i]} \in SUBSET EnvName
      BY <2>3, ChangesAssumption
    <3> QED BY <3>1 DEF Row, TimedRow
  <2>5. timed = [i \in 1..n |-> Row({FirstRows[i]})]
    BY <1>1 DEF n
  <2> QED BY <2>1, <2>4, <2>5
<1>4. TypesOK
  BY <1>1, <1>2, <1>3, StartOK DEF TypesOK
<1>5. RoundOK
  BY <1>1 DEF RoundOK, Idle
<1>6. \A w \in Workers : JobOK(w)
  BY <1>1 DEF JobOK, Idle
<1>7. ClosedTruly
  BY <1>1, <1>3 DEF ClosedTruly
<1> QED BY <1>4, <1>5, <1>6, <1>7 DEF Inv

-----------------------------------------------------------------------------
(* Every step.                                                             *)

LEMMA StepInv == Inv /\ [Next]_vars => Inv'
<1> SUFFICES ASSUME Inv, [Next]_vars PROVE Inv'
  OBVIOUS
<1>1. CASE Next
  <2> USE <1>1 DEF Next
  <2>1. CASE Forms
    <3>1. ASSUME NEW envs \in FormEnvs, WebAdd(envs) PROVE Inv'
      BY <3>1, WebAddKeeps
    <3>2. ASSUME NEW envs \in FormEnvs, WebSet(SetTo(envs)) PROVE Inv'
      <4>1. SetTo(envs).kind = "member_set"
        BY DEF SetTo, Change
      <4> QED BY <3>2, <4>1, WebSetKeeps
    <3>3. ASSUME WebSet(Remove) PROVE Inv'
      <4>1. Remove.kind = "member_remove"
        BY DEF Remove, Change
      <4> QED BY <3>3, <4>1, WebSetKeeps
    <3> QED BY <2>1, <3>1, <3>2, <3>3 DEF Forms
  <2>2. CASE Expire
    BY <2>2, ScanKeeps, LookKeeps, ServerBuildKeeps, ServerCommitKeeps, ExpirerProposesKeeps,
       CloseRowKeeps DEF Expire
  <2>3. CASE Device
    <3>1. "device" \in Workers
      BY DEF Workers
    <3> QED BY <2>3, <3>1, CloseKeeps, WriteKeeps, ShowKeeps, SignAskedKeeps, SignNarrowKeeps,
               SkipKeeps, GrantKeeps, SetExpiryKeeps DEF Device
  <2>4. CASE Page
    <3>1. "page" \in Workers
      BY DEF Workers
    <3> QED BY <2>4, <3>1, CloseKeeps, WriteKeeps, PasskeyBeginKeeps, PageDismissKeeps,
               PasskeyFinishKeeps DEF Page
  <2>5. CASE Crash
    BY <2>5, CrashKeeps
  <2>6. CASE \E i \in DOMAIN timed : CancelExpiry(i)
    BY <2>6, CancelKeeps
  <2>7. CASE \E d \in Ends : RemoveDelegate(d)
    BY <2>7, RemoveDelegateKeeps
  <2> QED BY <2>1, <2>2, <2>3, <2>4, <2>5, <2>6, <2>7 DEF Step
<1>2. CASE UNCHANGED vars
  BY <1>2 DEF vars, Inv, TypesOK, RoundOK, JobOK, ClosedTruly, Pos, DueRows, ProposedAway
<1> QED BY <1>1, <1>2

LEMMA InvHolds == Spec => []Inv
<1>1. Init => Inv
  BY InitInv
<1>2. Inv /\ [Next]_vars => Inv'
  BY StepInv
<1> QED BY <1>1, <1>2, PTL DEF Spec

\* What the tables say happened did: timed access that is closed as taken was
\* gone, what is closed as proposed led to a change that takes it away, and
\* what is closed as applied was signed, whatever the order in which the
\* housekeeping, the page, the device and a restart took their steps
\* (timed.go expireOne, changes.go closeChange).
THEOREM ClosedTrulyHolds == Spec => []ClosedTruly
<1>1. Inv => ClosedTruly
  BY DEF Inv
<1> QED BY <1>1, InvHolds, PTL

-----------------------------------------------------------------------------
(* Who lets the member read more.                                          *)

Unasked ==
    \/ Access(st', Reader) \subseteq Reads
    \/ job["device"].step = "shown" /\ job'["device"] # job["device"]
    \/ asks' # asks /\ job'["device"].step = "record"
    \/ job["page"].step = "finish" /\ job'["page"] # job["page"]

\* The server's key may only take away, on any state of the chain that its
\* link turns out to follow.
LEMMA ServerTakesAway ==
    ASSUME TypesOK, NEW l, ReaderLink(l), l.delegate = ServerKey, Commit(l)
    PROVE  Access(st', Reader) \subseteq Reads
<1>1. RulesOK(st) /\ Access(st', Reader) = ReadsAfter(l)
  BY LinkMakes DEF TypesOK
<1>2. ServerKey # NoDelegate
  BY DelegatesAssumption, NoDelegateAssumption
<1>3. SignedByDelegate(st, chains, l)
  BY <1>2 DEF Commit, Valid, ValidNext, CheckSigner
<1>4. ProjectScope(st, l) = "remove"
  BY <1>3, DelegatesAssumption DEF SignedByDelegate, DelegateAllows
<1>5. l.b.user = Reader /\ Reader \in Person
  BY ChangesAssumption DEF ReaderLink
<1>6. CASE l.type = "member_remove"
  BY <1>1, <1>6 DEF ReadsAfter
<1>7. CASE l.type = "member_update"
  <2>1. Member(st, Reader) /\ ~Admin(st, Reader) /\ l.b.envs \subseteq st.members[Reader].envs
    BY <1>4, <1>5, <1>7 DEF ProjectScope
  <2>2. Reads = st.members[Reader].envs
    BY <1>5, <2>1, AccessOf DEF Reads, Admin
  <2> QED BY <1>1, <1>7, <2>1, <2>2 DEF ReadsAfter
<1>8. CASE l.type = "member_add"
  BY <1>4, <1>8 DEF ProjectScope
<1> QED BY <1>6, <1>7, <1>8 DEF ReaderLink

LEMMA SameReads ==
    ASSUME st' = st
    PROVE  Unasked
  BY DEF Unasked, Reads

LEMMA ExpireUnasked ==
    ASSUME Inv, Expire
    PROVE  Unasked
<1>1. CASE ServerCommit /\ Valid(round.link)
  <2>1. /\ Commit(round.link) /\ ReaderLink(round.link) /\ round.link.delegate = ServerKey
        /\ TypesOK
    BY <1>1 DEF ServerCommit, Inv, RoundOK
  <2> QED BY <2>1, ServerTakesAway DEF Unasked
<1>2. CASE ServerCommit /\ ~Valid(round.link)
  BY <1>2, SameReads DEF ServerCommit
<1>3. CASE ~ServerCommit
  <2>1. st' = st
    BY <1>3 DEF Expire, Scan, Look, ServerBuild, ExpirerProposes, CloseRow
  <2> QED BY <2>1, SameReads
<1> QED BY <1>1, <1>2, <1>3

LEMMA WebSetUnasked ==
    ASSUME Inv, NEW c, WebSet(c), c.kind \in {"member_set", "member_remove"}
    PROVE  Unasked
<1>1. ChangeOK(c) /\ TypesOK
  BY DEF WebSet, EnvNames, ChangeOK, Kinds, Inv
<1>2. CASE ServerMaySign(c)
  <2>1. Commit(ChangeLink(c, ServerKey))
    BY <1>2 DEF WebSet
  <2>2. ReaderLink(ChangeLink(c, ServerKey)) /\ ChangeLink(c, ServerKey).delegate = ServerKey
    BY <1>1, ChangeLinks
  <2> QED BY <1>1, <2>1, <2>2, ServerTakesAway DEF Unasked
<1>3. CASE ~ServerMaySign(c)
  BY <1>3, SameReads DEF WebSet, ProposeForm
<1> QED BY <1>2, <1>3

\* What the person agreed to, on the device or with the passkey, may give.
LEMMA AskedUnasked ==
    ASSUME Inv, SignAsked \/ PasskeyFinish
    PROVE  Unasked
<1>1. DOMAIN job = Workers /\ {"device", "page"} \subseteq Workers
  BY DEF Inv, TypesOK, Workers
<1>2. CASE SignAsked
  <2> DEFINE i == job["device"].id
  <2>1. job["device"].step = "shown" /\ SignHere(DeviceLink(changes[i]), i, Idle)
    BY <1>2 DEF SignAsked
  <2>2. Do("device", Closing(i, "applied")) \/ Do("device", Idle)
    BY <2>1 DEF SignHere
  <2> HIDE DEF i
  <2>3. job'["device"] = Closing(i, "applied") \/ job'["device"] = Idle
    BY <1>1, <2>2, Done
  <2>4. job'["device"].step \in {"close", "idle"}
    BY <2>3 DEF Closing, Marking, Idle
  <2> QED BY <2>1, <2>4 DEF Unasked
<1>3. CASE PasskeyFinish
  <2> DEFINE i == job["page"].id
  <2>1. job["page"].step = "finish" /\ (Do("page", Closing(i, "applied")) \/ Do("page", Idle))
    BY <1>3 DEF PasskeyFinish
  <2> HIDE DEF i
  <2>2. job'["page"] = Closing(i, "applied") \/ job'["page"] = Idle
    BY <1>1, <2>1, Done
  <2>3. job'["page"].step \in {"close", "idle"}
    BY <2>2 DEF Closing, Marking, Idle
  <2> QED BY <2>1, <2>3 DEF Unasked
<1> QED BY <1>2, <1>3

\* What changes --yes signs is judged on the chain it is signed from.
LEMMA NarrowUnasked ==
    ASSUME Inv, SignNarrow
    PROVE  Unasked
<1> DEFINE i == job["device"].id
           c == changes[i]
           l == DeviceLink(c)
<1>1. i \in DOMAIN changes /\ TypesOK /\ RulesOK(st)
  BY DEF SignNarrow, Inv, JobOK, Workers, TypesOK
<1>2. CASE Narrowing(c) /\ Valid(l)
  <2>1. Commit(l)
    BY <1>2 DEF SignNarrow, SignHere
  <2>2. ChangeOK(c)
    BY <1>1, ChangeThere
  <2> HIDE DEF c
  <2>3. ReaderLink(l) /\ ReadsAfter(l) = IF c.kind = "member_remove" THEN {} ELSE c.envs
    BY <1>1, <2>2, ChangeLinks
  <2> HIDE DEF l
  <2>4. Access(st', Reader) = ReadsAfter(l)
    BY <1>1, <2>1, <2>3, LinkMakes
  <2> QED BY <1>2, <2>3, <2>4 DEF Narrowing, Unasked
<1>3. CASE ~(Narrowing(c) /\ Valid(l))
  <2>1. st' = st
    BY <1>3 DEF SignNarrow, SignHere
  <2> QED BY <2>1, SameReads
<1> QED BY <1>2, <1>3

LEMMA GrantUnasked ==
    ASSUME Inv, NEW envs, Grant(envs)
    PROVE  Unasked
<1> DEFINE next == [step |-> "record", gained |-> envs \ Reads]
<1>1. /\ asks \in Nat /\ asks' = asks + 1 /\ DOMAIN job = Workers /\ "device" \in Workers
      /\ Do("device", next)
  BY DEF Inv, TypesOK, Grant, Asks, Workers
<1>2. job'["device"] = next
  BY <1>1, Done
<1> QED BY <1>1, <1>2 DEF Unasked

\* Nothing is given unasked: only a change a person read and signed, on the
\* device or with the passkey, or an access grant of the admin's, lets the
\* member read more; never the server's key, the housekeeping, or changes
\* --yes, however the chain moved in between (timed.go expireOne,
\* account/delegates.go ApplyChangeNarrow).
THEOREM NothingUnasked == Spec => UnaskedTakesAwayProperty
<1>1. Inv /\ [Next]_vars => [Unasked]_vars
  <2> SUFFICES ASSUME Inv, Next PROVE Unasked
    OBVIOUS
  <2> USE DEF Next
  <2>1. CASE Forms
    <3>1. ASSUME NEW envs \in FormEnvs, WebAdd(envs) PROVE Unasked
      BY <3>1, SameReads DEF WebAdd, ProposeForm
    <3>2. ASSUME NEW envs \in FormEnvs, WebSet(SetTo(envs)) PROVE Unasked
      <4>1. SetTo(envs).kind = "member_set"
        BY DEF SetTo, Change
      <4> QED BY <3>2, <4>1, WebSetUnasked
    <3>3. ASSUME WebSet(Remove) PROVE Unasked
      <4>1. Remove.kind = "member_remove"
        BY DEF Remove, Change
      <4> QED BY <3>3, <4>1, WebSetUnasked
    <3> QED BY <2>1, <3>1, <3>2, <3>3 DEF Forms
  <2>2. CASE Expire
    BY <2>2, ExpireUnasked
  <2>3. CASE Device
    <3>1. CASE SignAsked \/ SignNarrow \/ \E envs \in SUBSET EnvNames(st) : Grant(envs)
      BY <3>1, AskedUnasked, NarrowUnasked, GrantUnasked
    <3>2. CASE \/ Close("device") \/ Write("device")
               \/ \E i \in DOMAIN changes, yes \in BOOLEAN : Show(i, yes)
               \/ Skip \/ SetExpiry
      BY <3>2, SameReads DEF Close, Write, Show, Skip, SetExpiry
    <3> QED BY <2>3, <3>1, <3>2 DEF Device
  <2>4. CASE Page
    <3>1. CASE PasskeyFinish
      BY <3>1, AskedUnasked
    <3>2. CASE \/ Close("page") \/ Write("page")
               \/ \E i \in DOMAIN changes : PasskeyBegin(i) \/ PageDismiss(i)
      BY <3>2, SameReads DEF Close, Write, PasskeyBegin, PageDismiss
    <3> QED BY <2>4, <3>1, <3>2 DEF Page
  <2>5. CASE Crash \/ (\E i \in DOMAIN timed : CancelExpiry(i)) \/ (\E d \in Ends : RemoveDelegate(d))
    BY <2>5, SameReads DEF Crash, CancelExpiry, RemoveDelegate
  <2> QED BY <2>1, <2>2, <2>3, <2>4, <2>5 DEF Step
<1>2. [Unasked]_vars => [\/ Access(st', Reader) \subseteq Reads
                         \/ job["device"].step = "shown" /\ job'["device"] # job["device"]
                         \/ asks' # asks /\ job'["device"].step = "record"
                         \/ job["page"].step = "finish" /\ job'["page"] # job["page"]]_vars
  BY DEF Unasked
<1> QED BY <1>1, <1>2, InvHolds, PTL DEF Spec, UnaskedTakesAwayProperty
=============================================================================
