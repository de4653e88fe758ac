------------------------------ MODULE Project -------------------------------
(***************************************************************************)
(* A shared project: its chain on the server, the grants that wait there,  *)
(* and one device of each person (src/internal/account/team.go,            *)
(* server/teamapi.go, teamdb.go, envrename.go).                            *)
(*                                                                         *)
(* A command builds its link and grants from a verified chain and sends    *)
(* them in one request.  The server takes a link only if it follows the    *)
(* chain as it is and each grant only if it is sealed to the recipient's   *)
(* current key, all in one transaction, so a command that read an older    *)
(* state changes nothing: a command is one step here.  A sync is not: it   *)
(* fetches, imports, acknowledges and sends in separate requests, and      *)
(* anything may happen in between.                                         *)
(*                                                                         *)
(* given is history: every environment key that ever waited for a holder   *)
(* on the server, who may have read it at any time, or that they made.     *)
(*                                                                         *)
(* Left out: groups (see Group), proposals and timed access (see           *)
(* Changes), events and audit, and projects that move.                     *)
(***************************************************************************)
EXTENDS ProjectRules, EnvRename, TLC

CONSTANTS
    Creator,        \* who makes the project
    Other,          \* the first member they add
    FirstEnv,       \* its environment then
    MaxLinks,       \* bound: links of the chain
    MaxEvents       \* bound: new user keys, crashes and lost answers

\* The next key to be made is the least of those nobody has.
ASSUME KeysAssumption ==
    /\ EnvKey # {}
    /\ \A keys \in SUBSET EnvKey : keys # {} => \E k \in keys : \A j \in keys : k <= j
ASSUME PeopleAssumption ==
    Creator \in Person /\ Other \in Person \ {Creator} /\ FirstEnv \in EnvName

VARIABLES
    chains,     \* each person's own chain, by position
    st,         \* what the project's chain on the server says
    grants,     \* project_grants
    holdings,   \* project_holdings of persons
    device,     \* keyring of each person's device
    teams,      \* its teams.toml: keys it had of the project, and if it was accepted
    work,       \* where a person's sync is
    checkout,   \* the creator's checkout
    given,      \* history: keys given to each holder
    events      \* how many new user keys, crashes and lost answers there were

vars == <<chains, st, grants, holdings, device, teams, work, checkout, given, events>>

Now == 1

Reader == Person \cup Machine

Ver(u) == chains[u][Len(chains[u])].ver

Key(n) == st.envs[n].key

-----------------------------------------------------------------------------
(* The server.                                                             *)

\* The recipient's key version that counts: 0 for machines.
VersionOf(h) == IF h \in Person THEN Ver(h) ELSE 0

Waiting(h, n) ==
    \E g \in grants : /\ g.to = h /\ g.toVer = VersionOf(h)
                      /\ [env |-> n, key |-> Key(n)] \in g.envs

Held(h, n) == IF h \in Person THEN holdings[h][n] = Key(n) ELSE Waiting(h, n)

Missing(h, n) == ~Held(h, n) /\ ~Waiting(h, n)

EnvsOf(g) == {e.env : e \in g.envs}

\* checkGrantRecipient
RecipientOK(s, g) ==
    /\ Active(s, g.to)
    /\ g.toVer = VersionOf(g.to)
    /\ g.to \in Machine => EnvsOf(g) = s.machines[g.to].envs

\* A grant drops the waiting ones it makes useless.
Superseded(old, g) ==
    /\ old.to = g.to
    /\ g.to \in Machine \/ old.toVer < g.toVer \/ EnvsOf(old) \subseteq EnvsOf(g)

Storable(s, g) == ~s.archived /\ CheckGrant(s, g) /\ RecipientOK(s, g)

\* Grants of one request go to different holders.
StoreGrants(rows, new) ==
    {old \in rows : ~\E g \in new : Superseded(old, g)} \cup new

\* renameEnvironmentMetadata, for the rows of grants and holdings.
RenameRows(rows, l) ==
    IF l.type # "env_rename" THEN rows
    ELSE {[g EXCEPT !.envs = {[e EXCEPT !.env = IF @ = l.b.old THEN l.b.new ELSE @] : e \in g.envs}]
            : g \in rows}

RenameHoldings(l) ==
    IF l.type # "env_rename" THEN holdings
    ELSE [u \in Person |-> [holdings[u] EXCEPT ![l.b.new] = holdings[u][l.b.old], ![l.b.old] = NoKey]]

Give(new) ==
    given' = [h \in Reader |-> given[h] \cup
                UNION {{e.key : e \in g.envs} : g \in {g \in new : g.to = h}}]

\* mirrorProject: grants and holdings of former holders are deleted.
Mirror(s, rows, held) ==
    /\ grants' = {g \in rows : ~Former(s, g.to)}
    /\ holdings' = [u \in Person |->
            IF Former(s, u) THEN [n \in EnvName |-> NoKey] ELSE held[u]]

\* projectCommit with one link and the grants that go with it.
Commit(u, l, new) ==
    LET s == NextState(st, l)
    IN  /\ l.seq <= MaxLinks
        /\ l.ver = Ver(u) /\ l.pos <= Len(chains[u])
        /\ ValidNext(st, chains, l)
        /\ \A g \in new : Storable(s, g)
        /\ st' = s
        /\ Mirror(s, StoreGrants(RenameRows(grants, l), new), RenameHoldings(l))
        /\ Give(new)

-----------------------------------------------------------------------------
(* A person's device.                                                      *)

Idle == [step |-> "idle"]

\* What a sync or command works with (withTeam): the project and the user
\* keys as it saw them first, and its copy of teams.toml.
Versions == [v \in Person |-> Ver(v)]

Context(u, s, versions) == [project |-> s, versions |-> versions, teams |-> teams[u]]

\* At its end, also after an error, the copy is saved (teamCtx.save), unless
\* the device stops before that: what it did to the keyring and on the server
\* stays, what it would have noted in teams.toml is lost.
End(u, mem) ==
    /\ work' = [work EXCEPT ![u] = Idle]
    /\ \/ teams' = [teams EXCEPT ![u] = mem] /\ UNCHANGED events
       \/ /\ mem # teams[u]
          /\ events < MaxEvents /\ events' = events + 1
          /\ UNCHANGED teams

Go(u, next) == work' = [work EXCEPT ![u] = next] /\ UNCHANGED <<teams, events>>

\* AckGrants: rows are done with, and the keys of holds are had.
Ack(cx, rows, holds, next) ==
    [step |-> "ack", cx |-> cx, rows |-> rows, next |-> next,
     holds |-> [n \in holds |-> cx.project.envs[n].key]]

\* localKeys: the environments whose current key the keyring has.
LocalKeys(u, s) == {n \in EnvNames(s) : s.envs[n].key \in device[u].kept}

\* grant: what u can send h, as a set of none or one grant.
GrantTo(u, s, versions, h, envs) ==
    LET can == envs \cap LocalKeys(u, s) \cap Access(s, h)
        ver == IF h \in Person THEN versions[h] ELSE 0
    IN  IF can = {} THEN {} ELSE {NewGrant(s, u, h, ver, can)}

LinkOf(u, type, body) == NewLink(st, type, u, Ver(u), Len(chains[u]), Now, body)

\* Locked: a device runs one sync or command at a time, and a rename has the
\* lock until it ends or dies.
Free(u) == work[u] = Idle /\ (u = Creator => checkout.run = "none")

\* A link command of u with no more to do on the device (withTeam).
Sign(u, l, new) ==
    /\ Free(u)
    /\ Commit(u, l, new)
    /\ UNCHANGED <<chains, device, teams, work, checkout, events>>

AddMember(u, v, admin, envs) ==
    LET l == LinkOf(u, "member_add",
                    [user |-> v, admin |-> admin, envs |-> envs, verified |-> "account-key"])
        s == NextState(st, l)
    IN  ValidNext(st, chains, l) /\ Sign(u, l, GrantTo(u, s, Versions, v, Access(s, v)))

\* Left out: updates that change nothing.
UpdateMember(u, v, admin, envs) ==
    LET l == LinkOf(u, "member_update", [user |-> v, admin |-> admin, envs |-> envs])
        s == NextState(st, l)
    IN  /\ Member(st, v)
        /\ <<admin, envs>> # <<st.members[v].admin, st.members[v].envs>>
        /\ ValidNext(st, chains, l)
        /\ Sign(u, l, GrantTo(u, s, Versions, v, Access(s, v) \ Access(st, v)))

RemoveMember(u, v) == Sign(u, LinkOf(u, "member_remove", [user |-> v]), {})

\* A new machine needs all of its keys at once.
CreateMachine(u, m, envs) ==
    LET l == LinkOf(u, "machine_add", [machine |-> m, envs |-> envs])
        s == NextState(st, l)
    IN  /\ ValidNext(st, chains, l)
        /\ envs \subseteq LocalKeys(u, s)
        /\ Sign(u, l, GrantTo(u, s, Versions, m, envs))

RemoveMachine(u, m) == Sign(u, LinkOf(u, "machine_remove", [machine |-> m]), {})

Archive(u) == Sign(u, LinkOf(u, "archive", [none |-> TRUE]), {})

Unarchive(u) == Sign(u, LinkOf(u, "unarchive", [none |-> TRUE]), {})

\* env add or env rotate: the key is made on the device first.
Unmade == {k \in EnvKey : \A v \in Person : k \notin device[v].kept}

MakeKey(u, n) ==
    /\ Free(u) /\ Admin(st, u)
    /\ n \in EnvNames(st) \/ st.renames[n] = NoEnv
    /\ device[u].cur[n] \in {NoKey, Key(n)}
    /\ Unmade # {} /\ st.seq < MaxLinks
    /\ LET k == CHOOSE k \in Unmade : \A j \in Unmade : k <= j
       IN  /\ device' = [device EXCEPT ![u].cur[n] = k, ![u].kept = @ \cup {k}]
           /\ given' = [given EXCEPT ![u] = @ \cup {k}]
    /\ UNCHANGED <<chains, st, grants, holdings, teams, work, checkout, events>>

\* PublishEnv: the device's key becomes the project's and goes to everyone
\* who reads it.  The answer may be lost: then nothing is noted here.
PublishEnv(u, n) ==
    LET l == LinkOf(u, "env_set", [env |-> n, key |-> device[u].cur[n]])
        s == NextState(st, l)
    IN  /\ Free(u)
        /\ device[u].cur[n] \notin {NoKey, Key(n)}
        /\ Commit(u, l, UNION {GrantTo(u, s, Versions, v, {n}) : v \in Person \ {u}}
                        \cup UNION {IF s.machines[m].envs \subseteq LocalKeys(u, s)
                                    THEN GrantTo(u, s, Versions, m, s.machines[m].envs) ELSE {}
                                    : m \in {m \in Machine : n \in Access(s, m)}})
        /\ \/ /\ work' = [work EXCEPT ![u] =
                    LET cx == [Context(u, s, Versions) EXCEPT
                                 !.teams.held = @ \cup {<<n, device[u].cur[n]>>}]
                    IN  Ack(cx, {}, LocalKeys(u, s) \cap Access(s, u), "end")]
              /\ UNCHANGED events
           \/ /\ events < MaxEvents
              /\ events' = events + 1
              /\ UNCHANGED work
        /\ UNCHANGED <<chains, device, teams, checkout>>

-----------------------------------------------------------------------------
(* TeamSync, one request at a time: importGrants (Fetch to AckStore), then  *)
(* fulfil (Own, Others and Send).  Without grants to import a sync starts   *)
(* at fulfil, and only if there is something to do.                         *)

Waits(u) == {g \in grants : g.to = u}

\* apiGrants: whatever waits for u.
Fetch(u) ==
    /\ Free(u)
    /\ Member(st, u) /\ Waits(u) # {}
    /\ work' = [work EXCEPT ![u] = [step |-> "import", rows |-> Waits(u), ver |-> Ver(u)]]
    /\ UNCHANGED <<chains, st, grants, holdings, device, teams, checkout, given, events>>

\* Mutant: an earlier key of the project is not recognized.
NothingKnown(u, n) == device[u].cur[n] \in {NoKey, Key(n)}

\* importKeys replaces nothing, the same key, or an earlier key of the
\* environment that the device got from or gave to the project.
MayReplace(u, n) ==
    \/ device[u].cur[n] \in {NoKey, Key(n)}
    \/ device[u].cur[n] \in st.envs[n].retired /\ <<n, device[u].cur[n]>> \in teams[u].held

Signed(u) == st.signerSeqs[u] > 0

Opened(u) == {g \in work[u].rows : OpenGrant(st, g, u, work[u].ver)}

NamesIn(rows) == {CurrentEnv(st, e.env) : e \in UNION {g.envs : g \in rows}}

\* importGrants, from the chain as it is now.  The keyring is written at once,
\* teams.toml when the sync ends.  A new project is accepted by the person, or
\* they are asked again later.
Import(u) ==
    /\ work[u].step = "import"
    /\ \/ ~Member(st, u) /\ Go(u, Idle) /\ UNCHANGED device
       \/ /\ Member(st, u)
          /\ \E opened \in {Opened(u)} :
             \E accepted \in IF teams[u].accepted \/ Signed(u) THEN {opened} ELSE {opened, {}} :
             \E taken \in {{n \in NamesIn(accepted) : MayReplace(u, n)}} :
                LET done == {g \in accepted : NamesIn({g}) \subseteq taken}
                    acks == (work[u].rows \ opened) \cup done
                    cx == [Context(u, st, [Versions EXCEPT ![u] = work[u].ver]) EXCEPT
                             !.teams = [held |-> @.held \cup {<<n, Key(n)>> : n \in taken},
                                        accepted |-> @.accepted \/ accepted # {}]]
                IN  /\ device' = [device EXCEPT ![u] =
                          [cur |-> [n \in EnvName |-> IF n \in taken THEN Key(n) ELSE @.cur[n]],
                           kept |-> @.kept \cup {Key(n) : n \in taken}]]
                    /\ Go(u, IF acks = {} THEN [step |-> "own", cx |-> cx]
                             ELSE Ack(cx, acks, NamesIn(done), "own"))
    /\ UNCHANGED <<chains, st, grants, holdings, checkout, given>>

\* apiGrantAck checks the holdings, and only then opens its transaction.
AckCheck(u) ==
    LET w == work[u]
    IN  /\ w.step = "ack"
        /\ IF \A n \in DOMAIN w.holds : n \in Access(st, u) /\ Key(n) = w.holds[n]
           THEN Go(u, [w EXCEPT !.step = "store"]) ELSE End(u, w.cx.teams)
        /\ UNCHANGED <<chains, st, grants, holdings, device, checkout, given>>

AckStore(u) ==
    LET w == work[u]
    IN  /\ w.step = "store"
        /\ grants' = grants \ w.rows
        /\ holdings' = [holdings EXCEPT ![u] = w.holds @@ @]
        /\ IF w.next = "end" THEN End(u, w.cx.teams) ELSE Go(u, [step |-> w.next, cx |-> w.cx])
        /\ UNCHANGED <<chains, st, device, checkout, given>>

\* What fulfil works with, and the keys of its own that it would report.
Fulfilling(u) == IF Free(u) THEN Context(u, st, Versions) ELSE work[u].cx

Starts(u) == Free(u) /\ Member(st, u) /\ Waits(u) = {}

Mine(u, s) == LocalKeys(u, s) \cap Access(s, u)

Unreported(u, s) == \E n \in Mine(u, s) : ~Held(u, n)

\* ackMissingOwn: own keys that the server does not know of.
Own(u) ==
    /\ Starts(u) \/ work[u].step = "own"
    /\ \E cx \in {Fulfilling(u)} :
        /\ Unreported(u, cx.project)
        /\ Go(u, Ack(cx, {}, Mine(u, cx.project), "others"))
    /\ UNCHANGED <<chains, st, grants, holdings, device, checkout, given>>

\* What the server reports missing now, checked on the chain the sync saw.
Wanted(u, s, versions, h) ==
    LET want == {n \in Access(s, h) : Missing(h, n)}
    IN  IF want = {} THEN {}
        ELSE IF h \in Person THEN GrantTo(u, s, versions, h, want)
        ELSE IF s.machines[h].envs \subseteq LocalKeys(u, s)
             THEN GrantTo(u, s, versions, h, s.machines[h].envs) ELSE {}

\* fulfilProject: an admin looks what others miss.
ToSend(u, s, versions) ==
    IF Admin(s, u) /\ ~s.archived
    THEN UNION {Wanted(u, s, versions, h) : h \in Reader \ {u}} ELSE {}

Others(u) ==
    /\ Starts(u) \/ work[u].step \in {"own", "others"}
    /\ \E cx \in {Fulfilling(u)} : \E send \in {ToSend(u, cx.project, cx.versions)} :
        /\ work[u].step = "others" \/ ~Unreported(u, cx.project)
        /\ send = {} => ~Free(u)
        /\ IF send = {} THEN End(u, cx.teams)
           ELSE Go(u, [step |-> "send", grants |-> send, ver |-> cx.versions[u], teams |-> cx.teams])
    /\ UNCHANGED <<chains, st, grants, holdings, device, checkout, given>>

\* A commit of grants alone: each against the chain as it is by then, and
\* all or none.
Send(u) ==
    LET w == work[u]
        ok == Member(st, u) /\ w.ver = Ver(u) /\ \A g \in w.grants : Storable(st, g)
    IN  /\ w.step = "send"
        /\ IF ok THEN grants' = StoreGrants(grants, w.grants) /\ Give(w.grants)
           ELSE UNCHANGED <<grants, given>>
        /\ End(u, w.teams)
        /\ UNCHANGED <<chains, st, holdings, device, checkout>>

Sync(u) ==
    \/ Fetch(u) \/ Import(u) \/ AckCheck(u) \/ AckStore(u)
    \/ Own(u) \/ Others(u) \/ Send(u)

-----------------------------------------------------------------------------
(* The people's own chains, crashes, and devices that were revoked.        *)

\* A new user key on another device of u, as after a revocation.
RotateUserKey(u) ==
    /\ events < MaxEvents /\ events' = events + 1
    /\ chains' = [chains EXCEPT ![u] = Append(@, [ver |-> Ver(u) + 1, delegates |-> {}])]
    /\ UNCHANGED <<st, grants, holdings, device, teams, work, checkout, given>>

\* The device stops in the middle of a sync.
Crash(u) ==
    /\ work[u] # Idle
    /\ events < MaxEvents
    /\ events' = events + 1
    /\ work' = [work EXCEPT ![u] = Idle]
    /\ UNCHANGED <<chains, st, grants, holdings, device, teams, checkout, given>>

\* A revoked device has the old user key, and a server that stores what it
\* sends: only the rules are left.
RogueLink(u) ==
    /\ st.seq < MaxLinks
    /\ \E p \in DOMAIN chains[u], v \in Person, admin \in BOOLEAN :
        LET l == NewLink(st, "member_update", u, chains[u][p].ver, p, Now,
                         [user |-> v, admin |-> admin, envs |-> {}])
        IN  /\ chains[u][p].ver < Ver(u)
            /\ <<admin, {}>> # <<st.members[v].admin, st.members[v].envs>>
            /\ ValidNext(st, chains, l)
            /\ st' = NextState(st, l)
            /\ Mirror(NextState(st, l), grants, holdings)
    /\ UNCHANGED <<chains, device, teams, work, checkout, given, events>>

-----------------------------------------------------------------------------
(* env rename on the creator's checkout.                                   *)

Journal == [old: EnvName, new: EnvName, key: EnvKey]

ASSUME JournalAssumption == NoJournal \notin Journal

\* The plan is checked on the vault and the keyring before it is saved.
PlanRename(old, new) ==
    LET j == [old |-> old, new |-> new, key |-> Key(old)]
    IN  /\ checkout = Fresh /\ Free(Creator)
        /\ st.seq < MaxLinks
        /\ Admin(st, Creator) /\ ~st.archived
        /\ old \in EnvNames(st) /\ new \notin EnvNames(st) /\ st.renames[new] = NoEnv
        /\ device[Creator].cur[old] = Key(old) /\ device[Creator].cur[new] = NoKey
        /\ checkout' = Plan(checkout, j)
        /\ UNCHANGED <<chains, st, grants, holdings, device, teams, work, given, events>>

\* The rename that is planned already happened in the vault.
RenamedInVault(j) == CurrentEnv(st, j.old) = j.new /\ Key(j.new) = j.key

\* What RenameEnv takes: a rename that is done, or one that is still due.
VaultAllows(j) ==
    /\ Admin(st, Creator)
    /\ RenamedInVault(j) \/ (st.renames[j.old] = NoEnv /\ Key(j.old) = j.key)

\* RenameEnv, of the command that made the plan or of a later one.
RenameInVault ==
    LET j == checkout.journal
        l == LinkOf(Creator, "env_rename", [old |-> j.old, new |-> j.new])
    IN  /\ checkout.journal \in Journal /\ checkout.run # "here"
        /\ work[Creator] = Idle
        /\ VaultAllows(j)
        /\ \/ /\ RenamedInVault(j)
              /\ checkout' = Confirmed(checkout)
              /\ UNCHANGED <<st, grants, holdings, teams, given, events>>
           \/ /\ ~RenamedInVault(j)
              /\ Commit(Creator, l, {})
              /\ \/ /\ checkout' = Confirmed(checkout)
                    /\ teams' = [teams EXCEPT ![Creator].held =
                            {IF e[1] = j.old THEN <<j.new, e[2]>> ELSE e : e \in @}]
                    /\ UNCHANGED events
                 \/ /\ events < MaxEvents /\ events' = events + 1   \* answer lost
                    /\ checkout' = Stopped(checkout) /\ UNCHANGED teams
        /\ UNCHANGED <<chains, device, work>>

\* The vault refuses the rename, or the command dies before it asks.
RenameFails ==
    LET j == checkout.journal
        l == LinkOf(Creator, "env_rename", [old |-> j.old, new |-> j.new])
    IN  /\ checkout.run = "vault"
        /\ checkout' = Stopped(checkout)
        /\ IF VaultAllows(j) /\ (RenamedInVault(j) \/ (st.seq < MaxLinks /\ ValidNext(st, chains, l)))
           THEN events < MaxEvents /\ events' = events + 1
           ELSE UNCHANGED events
        /\ UNCHANGED <<chains, st, grants, holdings, device, teams, work, given>>

\* The keyring and then the files, to the end or to a crash.
RenameHere ==
    LET j == checkout.journal
        done == After(checkout)
    IN  /\ checkout.run = "here"
        /\ IF KeyringAllows(device[Creator].cur, j, NoKey)
           THEN /\ device' = [device EXCEPT ![Creator].cur = RenameEntry(@, j, NoKey)]
                /\ \/ checkout' = Stopped(done[MaxWrites]) /\ UNCHANGED events
                   \/ /\ events < MaxEvents /\ events' = events + 1
                      /\ \E k \in 0..(MaxWrites - 1) : checkout' = Stopped(done[k])
           ELSE checkout' = Stopped(checkout) /\ UNCHANGED <<device, events>>
        /\ UNCHANGED <<chains, st, grants, holdings, teams, work, given>>

Rename == RenameInVault \/ RenameFails \/ RenameHere

-----------------------------------------------------------------------------
FirstKey == CHOOSE k \in EnvKey : \A j \in EnvKey : k <= j

FirstChains == [u \in Person |-> <<[ver |-> 1, delegates |-> {}]>>]

FirstLink == NewLink(New, "init", Creator, 1, 1, Now,
    [creator |-> Creator, envs |-> [n \in EnvName |-> IF n = FirstEnv THEN FirstKey ELSE NoKey]])

\* The second link: u joins as an admin or to read the first environment.
Joined(first, u, admin) ==
    NextState(first, NewLink(first, "member_add", Creator, 1, 1, Now,
        [user |-> u, admin |-> admin, envs |-> IF admin THEN {} ELSE {FirstEnv},
         verified |-> "account-key"]))

\* After CreateTeam, which commits the first link and acknowledges, and
\* AddMember of Other, whose grant waits.
Init ==
    /\ chains = FirstChains
    /\ \E admin \in BOOLEAN : st = Joined(NextState(New, FirstLink), Other, admin)
    /\ grants = {NewGrant(st, Creator, Other, 1, {FirstEnv})}
    /\ holdings = [u \in Person |-> [n \in EnvName |->
            IF u = Creator /\ n = FirstEnv THEN FirstKey ELSE NoKey]]
    /\ device = [u \in Person |->
            IF u = Creator
            THEN [cur |-> [n \in EnvName |-> IF n = FirstEnv THEN FirstKey ELSE NoKey],
                  kept |-> {FirstKey}]
            ELSE [cur |-> [n \in EnvName |-> NoKey], kept |-> {}]]
    /\ teams = [u \in Person |-> [held |-> IF u = Creator THEN {<<FirstEnv, FirstKey>>} ELSE {},
                                  accepted |-> u = Creator]]
    /\ work = [u \in Person |-> Idle]
    /\ checkout = Fresh
    /\ given = [h \in Reader |-> IF h \in {Creator, Other} THEN {FirstKey} ELSE {}]
    /\ events = 0

AccessFor(admin) == IF admin THEN {{}} ELSE SUBSET EnvNames(st)

Command(u) ==
    /\ st.seq < MaxLinks /\ Free(u)
    /\ \/ \E v \in Person, admin \in BOOLEAN : \E envs \in AccessFor(admin) :
            AddMember(u, v, admin, envs) \/ UpdateMember(u, v, admin, envs)
       \/ \E v \in Person : RemoveMember(u, v)
       \/ \E m \in Machine : \E envs \in SUBSET EnvNames(st) : CreateMachine(u, m, envs)
       \/ \E m \in Machine : RemoveMachine(u, m)
       \/ Archive(u)
       \/ Unarchive(u)
       \/ \E n \in EnvName : PublishEnv(u, n)

Next ==
    \/ \E u \in Person : Command(u)
    \/ \E u \in Person : \E n \in EnvName : MakeKey(u, n)
    \/ \E u \in Person : Sync(u)
    \/ \E u \in Person : RotateUserKey(u)
    \/ \E u \in Person : Crash(u)
    \/ \E u \in Person : RogueLink(u)
    \/ \E old, new \in EnvName : PlanRename(old, new)
    \/ Rename

Spec == Init /\ [][Next]_vars

\* Every device syncs again and again, and a sync or a rename that has begun
\* goes on or dies.  Commands are up to people, and so is when they rerun a
\* rename.
Dies(u) == work[u] # Idle /\ work' = [work EXCEPT ![u] = Idle]

RenameDies == checkout.run # "none" /\ checkout' = Stopped(checkout)

Fairness ==
    /\ \A u \in Person : WF_(work[u])(Dies(u) \/ Sync(u))
    /\ WF_checkout(RenameDies \/ (checkout.run # "none" /\ Rename))

FairSpec == Spec /\ Fairness

-----------------------------------------------------------------------------
\* Whoever was ever given the key an environment has now either may read the
\* environment or is listed there as exposed, so that the project's pages and
\* commands ask for a new key (Exposure, applyMemberUpdate, renameEnv).
ReadersOrExposed ==
    \A h \in Reader : \A n \in EnvNames(st) :
        Key(n) \in given[h] => n \in Access(st, h) \/ h \in st.envs[n].exposed

\* A key names one environment for good, whatever is renamed, and a key that
\* was replaced never comes back, though a slower device still holds it: its
\* former readers are no longer listed as exposed (setEnv, UsedKey).
KeysNameOneEnv ==
    \A n, m \in EnvName :
        /\ Key(n) \notin st.envs[m].retired
        /\ n # m => /\ st.envs[n].retired \cap st.envs[m].retired = {}
                    /\ Key(n) = Key(m) => Key(n) = NoKey

\* Whatever it does, the project keeps the promise of KeySharing: keys go
\* only to who may read them then, whoever lost access is listed until the
\* key is replaced, across renames too, and no key comes back.
Current == {Key(n) : n \in EnvNames(st)}

Retired == UNION {st.envs[n].retired : n \in EnvName}

Sharing == INSTANCE KeySharing WITH
    PubKey <- EnvKey, Party <- Reader, current <- Current, retired <- Retired,
    may <- [k \in EnvKey |-> {h \in Reader : \E n \in EnvName : Key(n) = k /\ n \in Access(st, h)}],
    suspects <- [k \in EnvKey |-> {h \in Reader : \E n \in EnvName : Key(n) = k /\ h \in st.envs[n].exposed}],
    has <- [h \in Reader |-> given[h] \cap (Current \cup Retired)]

SharesKeys == Sharing!Spec

\* The user key version of u's last link.
SignedWith(u) == IF st.signerSeqs[u] = 0 THEN 0 ELSE chains[u][st.signerSeqs[u]].ver

\* Once a person signed in a project with a user key, no link of theirs with
\* an earlier one is taken, from whatever device (SignerKey, signerSeqs).
OldKeysStayOutProperty == [][\A u \in Person : SignedWith(u)' >= SignedWith(u)]_vars

\* A project always has an admin, so it can always be changed.
SomeAdmin == Admins(st) # {}

\* A crash at any step of a rename loses no file, and when no rename is left
\* to resume, the files, the marker and the keyring name the environment as
\* the vault does (journal.go Apply, finishRename).
NothingLost ==
    /\ \A f \in Files : checkout.files[f] # {}
    /\ checkout.journal = NoJournal /\ checkout # Fresh =>
         /\ Moved(checkout) /\ checkout.marker = "new"
         /\ \E n \in EnvName : /\ st.renames[n] # NoEnv
                                /\ device[Creator].cur[n] = NoKey
                                /\ device[Creator].cur[st.renames[n]] # NoKey

\* What a device reports and does not replace: it holds a key under n's name
\* that the project never had; or one that it had from the project or gave to
\* it, and stopped before it could note that.
Conflict(u, n) ==
    /\ device[u].cur[n] \notin {NoKey, Key(n)}
    /\ \/ device[u].cur[n] \notin st.envs[n].retired
       \/ events > 0 /\ <<n, device[u].cur[n]>> \notin teams[u].held

\* While an admin has the current key, everyone who may read an environment
\* and accepted the project gets the key, whatever user keys change and
\* whatever is lost on the way, or their device reports a conflict; and the
\* key waits for every machine (importGrants, fulfilProject, projectStatus).
\* Whether a person accepted is noted with the keys: a device that stops
\* before that asks again.
Accepted(u) == teams[u].accepted \/ Signed(u)

HasKey(h, n) ==
    IF h \in Person THEN Key(n) \in device[h].kept \/ ~Accepted(h) \/ Conflict(h, n)
    ELSE Waiting(h, n)

Sendable(n) == ~st.archived /\ \E a \in Admins(st) : Key(n) \in device[a].kept

ReadersGetKeys ==
    []<>(\A h \in Reader : \A n \in Access(st, h) : Sendable(n) => HasKey(h, n))
=============================================================================
