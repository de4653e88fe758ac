------------------------------ MODULE Changes -------------------------------
(***************************************************************************)
(* Changes made on the web pages and timed access, of one project with one *)
(* admin and one member (src/internal/server/changes.go, delegates.go,     *)
(* passkeys.go, teampages.go, timed.go; account/delegates.go,              *)
(* cli/changes.go, cli/access.go).                                         *)
(*                                                                         *)
(* A page may change the project only through a delegate of the admin: the *)
(* server's own key, which signs removals, or a passkey.  What neither     *)
(* signs waits as a row of changes for a device.  Access granted for a     *)
(* while is a row of timed, which the server's housekeeping takes away.    *)
(* The housekeeping, a page and the admin's device each read, decide and   *)
(* write in separate steps, with anything in between.                      *)
(*                                                                         *)
(* Left out: changes of accounts, groups, machines and organizations,      *)
(* invites, access requests, the rename of an environment, promotion of    *)
(* the member to admin, archived projects and the organization's policies. *)
(***************************************************************************)
EXTENDS ProjectRules, Functions

CONSTANTS
    Boss, Reader,         \* the admin, and whose access this is about
    ServerKey, Passkey,   \* the admin's delegates
    FirstEnvs,            \* the project's environments
    FirstReads,           \* what the member was granted for a while, one by one
    MaxOpen,              \* maxOpenProposals
    MaxTimed,             \* maxExpiriesPerProject, and rows in all
    MaxAsks,              \* bound: forms sent and grants made
    FormEnvs,             \* bound: the environments ticked in a form
    Ends,                 \* bound: delegates the admin may remove
    MaxEvents             \* bound: crashes and removed delegates

ASSUME DelegatesAssumption ==
    /\ ScopeOf[ServerKey] = "remove" /\ ScopeOf[Passkey] = "manage"
    /\ ServerKey # Passkey /\ {ServerKey, Passkey} \subseteq Delegate

ASSUME ChangesAssumption ==
    /\ Boss \in Person /\ Reader \in Person \ {Boss}
    /\ FirstEnvs \subseteq EnvName /\ Injection(FirstEnvs, EnvKey) # {}
    /\ FirstReads \subseteq FirstEnvs /\ IsFiniteSet(FirstReads)

VARIABLES
    chains,     \* the persons' own chains, by position
    st,         \* what the project's chain says
    changes,    \* rows of changes, by id
    timed,      \* rows of access_expiries, by id
    round,      \* the housekeeping: expireAccess
    job,        \* what the admin's device and page are at
    asks,       \* how many forms and grants there were
    events,     \* how many crashes and removed delegates there were
    ended,      \* history: rows of timed whose access was gone since due
    signed      \* history: changes someone signed

vars == <<chains, st, changes, timed, round, job, asks, events, ended, signed>>

Now == 1

Pos == Len(chains[Boss])

Reads == Access(st, Reader)

Idle == [step |-> "idle"]

Workers == {"device", "page"}

-----------------------------------------------------------------------------
(* Proposals.                                                              *)

Change(kind, envs) == [kind |-> kind, envs |-> envs]

SetTo(envs) == Change("member_set", envs)

Remove == Change("member_remove", {})

Open == {i \in DOMAIN changes : changes[i].status = "open"}

Full == Cardinality(Open) >= MaxOpen

Same(i, c) == changes[i].kind = c.kind /\ changes[i].envs = c.envs

\* A newer change of the same kind replaces an older one.
Proposed(c) ==
    IF \E i \in Open : Same(i, c) THEN changes
    ELSE Append([i \in DOMAIN changes |->
                    IF i \in Open /\ changes[i].kind = c.kind
                    THEN [changes[i] EXCEPT !.status = "dismissed"] ELSE changes[i]],
                [kind |-> c.kind, envs |-> c.envs, status |-> "open"])

\* Mutant: a change that waits already is refused.
MayProposeNew(c) == ~Full /\ ~\E i \in Open : Same(i, c)

MayPropose(c) == ~Full \/ \E i \in Open : Same(i, c)

-----------------------------------------------------------------------------
(* Links of changes.                                                       *)

LinkType(c) ==
    CASE c.kind = "member_add" -> "member_add"
      [] c.kind = "member_set" -> "member_update"
      [] c.kind = "member_remove" -> "member_remove"

Body(c, verified) ==
    CASE c.kind = "member_add" ->
            [user |-> Reader, admin |-> FALSE, envs |-> c.envs, verified |-> verified]
      [] c.kind = "member_set" -> [user |-> Reader, admin |-> FALSE, envs |-> c.envs]
      [] c.kind = "member_remove" -> [user |-> Reader]

\* delegatesOf: the delegates that are active now.
ActiveNow(d) == d \in chains[Boss][Pos].delegates

\* changeLinks, for delegate d as of the admin's chain now.
ChangeLink(c, d) == DelegateLink(st, LinkType(c), Boss, d, Pos, Now, Body(c, "web"))

DeviceLink(c) ==
    NewLink(st, LinkType(c), Boss, chains[Boss][Pos].ver, Pos, Now, Body(c, "github-ssh"))

Valid(l) == ValidNext(st, chains, l)

Commit(l) == Valid(l) /\ st' = NextState(st, l)

\* serverSigns gets as far as its commit.
ServerMaySign(c) == ActiveNow(ServerKey) /\ Valid(ChangeLink(c, ServerKey))

-----------------------------------------------------------------------------
(* Forms of the project's page.  Each is one request; serverSigns, whose    *)
(* parts are apart in the housekeeping below, is one step here.            *)

Asks == asks < MaxAsks /\ asks' = asks + 1

ProposeForm(c) ==
    /\ changes' = IF MayPropose(c) THEN Proposed(c) ELSE changes
    /\ UNCHANGED <<chains, st, timed, round, job, events, signed>>

\* webTeamAdd
WebAdd(envs) ==
    /\ Asks
    /\ ~Member(st, Reader) /\ envs # {} /\ envs \subseteq EnvNames(st)
    /\ ProposeForm(Change("member_add", envs))

\* webTeamSet: at once when the server may sign it.
WebSet(c) ==
    /\ Asks
    /\ Member(st, Reader) /\ c.envs \subseteq EnvNames(st)
    /\ IF ServerMaySign(c)
       THEN /\ Commit(ChangeLink(c, ServerKey))
            /\ UNCHANGED <<chains, changes, timed, round, job, events, signed>>
       ELSE ProposeForm(c)

-----------------------------------------------------------------------------
(* Timed access.                                                           *)

Row(envs) == [envs |-> envs, due |-> FALSE, status |-> "open"]

OpenRows == {i \in DOMAIN timed : timed[i].status = "open"}

\* cancelExpiry: the admin keeps the access.
CancelExpiry(i) ==
    /\ i \in OpenRows
    /\ timed' = [timed EXCEPT ![i].status = "cancelled"]
    /\ UNCHANGED <<chains, st, changes, round, job, asks, events, signed>>

\* expireAccess lists what is due: what was due before, and any other row
\* whose time has come since.
Scan ==
    /\ round = Idle
    /\ \E list \in (SUBSET OpenRows) \ {{}} :
          /\ {i \in OpenRows : timed[i].due} \subseteq list
          /\ timed' = [i \in DOMAIN timed |-> [timed[i] EXCEPT !.due = @ \/ i \in list]]
          /\ round' = [step |-> "look", list |-> list]
    /\ UNCHANGED <<chains, st, changes, job, asks, events, signed>>

\* Mutant: nothing is taken unless all of it is read still.
GoneIfPartRead(envs) == ~(envs \subseteq Reads)

Gone(envs) == envs \cap Reads = {}

Taking(envs) == IF Reads \subseteq envs THEN Remove ELSE SetTo(Reads \ envs)

\* What comes of row i, with the list it is in.
Sign(i, step, c) == [step |-> step, id |-> i, list |-> round.list, change |-> c]

Send(i, l) == [step |-> "commit", id |-> i, list |-> round.list, link |-> l]

CloseAs(i, status) == [step |-> "close", id |-> i, list |-> round.list, status |-> status]

\* The next of the list, whatever the row says by now.
NextOne(i) ==
    LET rest == round.list \ {i}
    IN  IF rest = {} THEN Idle ELSE [step |-> "look", list |-> rest]

\* expireOne: what there is to take, from the chain as it is.
Look(i) ==
    /\ round.step = "look" /\ i \in round.list
    /\ round' = IF Gone(timed[i].envs) THEN CloseAs(i, "gone")
                ELSE Sign(i, "sign", Taking(timed[i].envs))
    /\ UNCHANGED <<chains, st, changes, timed, job, asks, events, signed>>

\* serverSigns reads the chain again and builds the link from that.
ServerBuild ==
    LET c == round.change
    IN  /\ round.step = "sign"
        /\ round' = IF ServerMaySign(c)
                    THEN Send(round.id, ChangeLink(c, ServerKey))
                    ELSE Sign(round.id, "propose", c)
        /\ UNCHANGED <<chains, st, changes, timed, job, asks, events, signed>>

\* A link that no longer follows is an error: the row stays open.
ServerCommit ==
    /\ round.step = "commit"
    /\ IF Valid(round.link)
       THEN Commit(round.link) /\ round' = CloseAs(round.id, "signed")
       ELSE UNCHANGED st /\ round' = NextOne(round.id)
    /\ UNCHANGED <<chains, changes, timed, job, asks, events, signed>>

\* Too many proposals are an error too.
ExpirerProposes ==
    LET c == round.change
    IN  /\ round.step = "propose"
        /\ IF MayPropose(c)
           THEN changes' = Proposed(c) /\ round' = CloseAs(round.id, "proposed")
           ELSE UNCHANGED changes /\ round' = NextOne(round.id)
        /\ UNCHANGED <<chains, st, timed, job, asks, events, signed>>

\* The row is written by its id, open or not.
CloseRow ==
    /\ round.step = "close"
    /\ timed' = [timed EXCEPT ![round.id].status = round.status]
    /\ round' = NextOne(round.id)
    /\ UNCHANGED <<chains, st, changes, job, asks, events, signed>>

Expire == Scan \/ (\E i \in DOMAIN timed : Look(i)) \/ ServerBuild \/ ServerCommit
            \/ ExpirerProposes \/ CloseRow

-----------------------------------------------------------------------------
(* The admin's device and page.                                            *)

Do(w, next) == job' = [job EXCEPT ![w] = next]

Marking(step, i, status) == [step |-> step, id |-> i, status |-> status]

Closing(i, status) == Marking("close", i, status)

\* closeChange reads that the change is open, and then closes it by id.
Close(w) ==
    /\ job[w].step = "close"
    /\ Do(w, IF job[w].id \in Open THEN Marking("write", job[w].id, job[w].status) ELSE Idle)
    /\ UNCHANGED <<chains, st, changes, timed, round, asks, events, signed>>

Write(w) ==
    /\ job[w].step = "write"
    /\ changes' = [changes EXCEPT ![job[w].id].status = job[w].status]
    /\ Do(w, Idle)
    /\ UNCHANGED <<chains, st, timed, round, asks, events, signed>>

Narrowing(c) ==
    c.kind = "member_remove"
        \/ (c.kind = "member_set" /\ Member(st, Reader) /\ c.envs \subseteq Reads)

\* signChanges shows a change it listed.  With changes --yes, what only takes
\* away (Narrows) is not asked about.
Show(i, yes) ==
    /\ job["device"] = Idle /\ i \in Open
    /\ yes => Narrowing(changes[i])
    /\ Do("device", [step |-> IF yes THEN "narrow" ELSE "shown", id |-> i])
    /\ UNCHANGED <<chains, st, changes, timed, round, asks, events, signed>>

\* Signed on the device, from the chain as it is, or refused there.
SignHere(l, i, refused) ==
    /\ IF Valid(l)
       THEN Commit(l) /\ signed' = signed \cup {i} /\ Do("device", Closing(i, "applied"))
       ELSE UNCHANGED <<st, signed>> /\ Do("device", refused)
    /\ UNCHANGED <<chains, changes, timed, round, asks, events>>

\* ApplyChange: the person read the change and agreed.
SignAsked ==
    LET i == job["device"].id
    IN  /\ job["device"].step = "shown"
        /\ SignHere(DeviceLink(changes[i]), i, Idle)

\* Mutant: what was judged before is signed.
SignJudged ==
    LET i == job["device"].id
    IN  /\ job["device"].step = "narrow"
        /\ SignHere(DeviceLink(changes[i]), i, [step |-> "shown", id |-> i])

\* ApplyChangeNarrow judges again on the chain it signs from; if it takes
\* more than that, the person is asked.
SignNarrow ==
    LET i == job["device"].id
    IN  /\ job["device"].step = "narrow"
        /\ IF Narrowing(changes[i])
           THEN SignHere(DeviceLink(changes[i]), i, [step |-> "shown", id |-> i])
           ELSE /\ Do("device", [step |-> "shown", id |-> i])
                /\ UNCHANGED <<chains, st, changes, timed, round, asks, events, signed>>

\* The person skips it, or dismisses it.
Skip ==
    /\ job["device"].step = "shown"
    /\ \/ Do("device", Idle)
       \/ Do("device", Closing(job["device"].id, "dismissed"))
    /\ UNCHANGED <<chains, st, changes, timed, round, asks, events, signed>>

\* webPasskeyBegin builds the link for the passkey to sign.
PasskeyBegin(i) ==
    /\ job["page"].step \in {"idle", "finish"} /\ i \in Open
    /\ ActiveNow(Passkey) /\ (Member(st, Reader) \/ changes[i].kind = "member_add")
    /\ Do("page", [step |-> "finish", id |-> i, link |-> ChangeLink(changes[i], Passkey)])
    /\ UNCHANGED <<chains, st, changes, timed, round, asks, events, signed>>

PasskeyFinish ==
    LET p == job["page"]
    IN  /\ p.step = "finish"
        /\ IF Valid(p.link)
           THEN Commit(p.link) /\ signed' = signed \cup {p.id} /\ Do("page", Closing(p.id, "applied"))
           ELSE UNCHANGED <<st, signed>> /\ Do("page", Idle)
        /\ UNCHANGED <<chains, changes, timed, round, asks, events>>

\* webTeamDismiss
PageDismiss(i) ==
    /\ job["page"] = Idle /\ i \in Open
    /\ Do("page", Closing(i, "dismissed"))
    /\ UNCHANGED <<chains, st, changes, timed, round, asks, events, signed>>

\* access grant --env --for (grantPerson, whose read and link are one step
\* here) adds to what the member reads...
Grant(envs) ==
    LET l == DeviceLink(IF Member(st, Reader) THEN SetTo(Reads \cup envs)
                        ELSE Change("member_add", envs))
    IN  /\ job["device"] = Idle
        /\ Asks
        /\ envs \ Reads # {}
        /\ Commit(l)
        /\ Do("device", [step |-> "record", gained |-> envs \ Reads])
        /\ UNCHANGED <<chains, changes, timed, round, events, signed>>

\* ...then says when what it added ends (apiSetExpiry), which may fail.
SetExpiry ==
    LET d == job["device"]
    IN  /\ d.step = "record"
        /\ \/ /\ Member(st, Reader) /\ Cardinality(OpenRows) < MaxTimed
              /\ Len(timed) < MaxTimed
              /\ timed' = Append(timed, Row(d.gained))
           \/ UNCHANGED timed
        /\ Do("device", Idle)
        /\ UNCHANGED <<chains, st, changes, round, asks, events, signed>>

-----------------------------------------------------------------------------
(* What happens to the admin's chain and to the server.                    *)

Happens == events < MaxEvents /\ events' = events + 1

RemoveDelegate(d) ==
    LET without == [chains[Boss][Pos] EXCEPT !.delegates = @ \ {d}]
    IN  /\ Happens
        /\ ActiveNow(d)
        /\ chains' = [chains EXCEPT ![Boss] = Append(@, without)]
        /\ UNCHANGED <<st, changes, timed, round, job, asks, signed>>

\* The server restarts: its round, its requests and its sign-ins stop.
Crash ==
    /\ Happens
    /\ round # Idle \/ job["page"] # Idle \/ job["device"].step = "write"
    /\ round' = Idle
    /\ job' = [w \in Workers |-> IF w = "device" /\ job[w].step # "write" THEN job[w] ELSE Idle]
    /\ UNCHANGED <<chains, st, changes, timed, asks, signed>>

-----------------------------------------------------------------------------
(* The specification.                                                      *)

\* The admin made the project and granted the member each of FirstReads for a while;
\* both delegates are theirs.
FirstKeys == CHOOSE f \in Injection(FirstEnvs, EnvKey) : TRUE

FirstRows == CHOOSE f \in Bijection(1..Cardinality(FirstReads), FirstReads) : TRUE

Start ==
    LET body == [creator |-> Boss,
                 envs |-> [n \in EnvName |-> IF n \in FirstEnvs THEN FirstKeys[n] ELSE NoKey]]
        made == NextState(New, NewLink(New, "init", Boss, 1, 1, Now, body))
    IN  NextState(made, NewLink(made, "member_add", Boss, 1, 1, Now,
                                Body(Change("member_add", FirstReads), "github-ssh")))

Init ==
    /\ chains = [u \in Person |-> <<[ver |-> 1, delegates |->
                    IF u = Boss THEN {ServerKey, Passkey} ELSE {}]>>]
    /\ st = Start
    /\ changes = << >> /\ timed = [i \in 1..Cardinality(FirstReads) |-> Row({FirstRows[i]})]
    /\ round = Idle
    /\ job = [w \in Workers |-> Idle]
    /\ asks = 0 /\ events = 0
    /\ ended = {} /\ signed = {}

Forms ==
    \/ \E envs \in FormEnvs : WebAdd(envs) \/ WebSet(SetTo(envs))
    \/ WebSet(Remove)

Device ==
    \/ Close("device") \/ Write("device")
    \/ \E i \in DOMAIN changes, yes \in BOOLEAN : Show(i, yes)
    \/ SignAsked \/ SignNarrow \/ Skip
    \/ \E envs \in SUBSET EnvNames(st) : Grant(envs)
    \/ SetExpiry

Page ==
    \/ Close("page") \/ Write("page")
    \/ \E i \in DOMAIN changes : PasskeyBegin(i) \/ PageDismiss(i)
    \/ PasskeyFinish

Step ==
    \/ Forms \/ Expire \/ Device \/ Page \/ Crash
    \/ \E i \in DOMAIN timed : CancelExpiry(i)
    \/ \E d \in Ends : RemoveDelegate(d)

Observe ==
    ended' = ended \cup {i \in DOMAIN timed' :
                            timed'[i].due /\ timed'[i].envs \cap Access(st', Reader) = {}}

Next == Step /\ Observe

Spec == Init /\ [][Next]_vars

\* The housekeeping runs every five minutes, and its steps follow.
FairSpec == Spec /\ WF_round(Expire)

-----------------------------------------------------------------------------
(* What must hold.                                                         *)

\* Nothing is given unasked: only what a person read and signed, on the
\* device or with the passkey, lets the member read more.  Not the server's
\* key, not the housekeeping, and not changes --yes, however the chain moved
\* between the step that judged the change and the one that signs it.
UnaskedTakesAwayProperty ==
    [][\/ Access(st', Reader) \subseteq Reads
       \/ job["device"].step = "shown" /\ job'["device"] # job["device"]
       \/ asks' # asks /\ job'["device"].step = "record"
       \/ job["page"].step = "finish" /\ job'["page"] # job["page"]]_vars

Takes(c, envs) == c.kind = "member_remove" \/ (c.kind = "member_set" /\ c.envs \cap envs = {})

\* What the tables say happened did: timed access that is closed as signed or
\* gone was gone at some moment since it was due, one that is closed as
\* proposed led to a change that takes it away, and a change that is closed
\* as applied was signed.
ClosedTruly ==
    /\ \A i \in DOMAIN timed :
          /\ timed[i].status \in {"signed", "gone"} => i \in ended
          /\ timed[i].status = "proposed" =>
                i \in ended \/ \E j \in DOMAIN changes : Takes(changes[j], timed[i].envs)
    /\ \A j \in DOMAIN changes : changes[j].status = "applied" => j \in signed

\* The housekeeping gets to every row that is due, through restarts, removed
\* delegates and commits that no longer follow: the row is signed, noted as
\* gone, proposed or cancelled, unless too many changes wait already.  What
\* becomes of a proposal is ProposedAccessEnds.
DueRowsClose == []<>(Full \/ ~\E i \in OpenRows : timed[i].due)

Waiting(i) == \E j \in Open : Takes(changes[j], timed[i].envs)

PersonDecides ==
    \/ asks' # asks
    \/ \E w \in Workers : job[w].step = "write" /\ job'[w] = Idle

\* timed.go:5-10: "the server makes the removal a change [...] signed at once
\* [...] and otherwise waiting for their passkey or device."  A removal that
\* was proposed for access that was due waits until the access is gone or a
\* person decides.  Violated: of two rows of one member the second proposal
\* dismisses the first (propose), and both rows are closed.
ProposedAccessEnds ==
    \A i \in DOMAIN timed : timed[i].status = "proposed" /\ Waiting(i) =>
        Waiting(i)' \/ i \in ended' \/ PersonDecides
ProposedAccessEndsProperty == [][ProposedAccessEnds]_vars
=============================================================================
