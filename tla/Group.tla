------------------------------- MODULE Group --------------------------------
(***************************************************************************)
(* A group of machines and people, and a project whose environments it     *)
(* reads (src/internal/account/group.go, groupmembers.go, workloads.go,    *)
(* server/groupapi.go, groupdb.go, delegates.go).  The group key is sealed *)
(* to everyone in the group, and the project's keys to the group key.      *)
(*                                                                         *)
(* A commit of links is one step, as in Project: the server takes it only  *)
(* if it follows the chain as it is.  A sync that sends group keys without *)
(* a link reads first and sends later.  One person administers the project *)
(* and their device has its keys; Project shows how keys reach others.     *)
(*                                                                         *)
(* now counts the commits: links of different commits have different times.*)
(* known and read are history, of whom each key has reached; of read only  *)
(* keys that are still current are kept.                                   *)
(*                                                                         *)
(* Left out: OIDC checks, expiry of join requests, members added on the    *)
(* web, and proposals (see Changes).                                       *)
(***************************************************************************)
EXTENDS GroupRules, Functions, TLC

CONSTANTS
    Creator,        \* who makes the group and the project
    Other,          \* whom they let in first
    FirstEnvs,      \* the project's environments then, which the group reads
    TheGroup,       \* the group's id
    MaxNow,         \* bound: no command after this many commits
    MaxEvents       \* bound: new user keys, blocks and join requests

ASSUME GroupAssumption ==
    /\ Creator \in Person /\ Other \in Person \ {Creator}
    /\ TheGroup \in Group
    /\ FirstEnvs \in (SUBSET EnvName) \ {{}} /\ Injection(FirstEnvs, EnvKey) # {}

VARIABLES
    chains,     \* each person's own chain, by position
    now,        \* the time of the next commit
    gs,         \* what the group chain on the server says
    kg,         \* group_key_grants
    blocked,    \* machines and members suspended on the web
    joins,      \* join requests of machines
    work,       \* where a person's sync is
    st,         \* what the project chain says
    sealed,     \* the project's grants to the group
    known,      \* history: the latest group key version sealed to each
    read,       \* history: current environment keys each could fetch
    events      \* how many new user keys, blocks and join requests there were

vars == <<chains, now, gs, kg, blocked, joins, work, st, sealed, known, read, events>>

Ver(u) == chains[u][Len(chains[u])].ver

\* The key version that a grant to h must be sealed to.
VersionOf(h) == IF h \in Person THEN Ver(h) ELSE 0

Late(h) == h \in Token /\ Expired(h, now)

-----------------------------------------------------------------------------
(* The server.                                                             *)

\* Mutant: grants that no longer verify stay.
KeepsDeadGrants(s, rows) == {g \in rows : InGroup(s, g.to) /\ g.version = s.version}

\* mirrorGroup drops the grants that no longer open anything.
MirrorGroup(s, rows) ==
    {g \in rows : InGroup(s, g.to) /\ g.version = s.version /\ GrantSigner(s, g.from)}

\* storeKeyGrant, of a grant by from.
Storable(s, from, g) ==
    /\ CheckKeyGrant(s, g)
    /\ g.from = from
    /\ g.to \in Person => g.toVer = Ver(g.to)

StoreKeyGrants(rows, new) == {g \in rows : \A n \in new : n.to # g.to} \cup new

\* A member's block ends when they leave or come back.
Unblock(s) ==
    {h \in blocked : IF h \in Person THEN s.members[h].status = gs.members[h].status
                     ELSE s.creds[h].status = "active"}

\* fleetKeys, or apiGroupKeys: what h can fetch and open.
OpensKey(h) == \E g \in kg : OpenKeyGrant(gs, g, h, VersionOf(h))

GroupReads == Access(st, TheGroup)

Fetches(h) ==
    IF InGroup(gs, h) /\ h \notin blocked /\ ~Late(h) /\ OpensKey(h) /\ gs.access
    THEN UNION {{e.key : e \in g.envs} : g \in {g \in sealed : g.toVer = gs.version /\ CheckGrant(st, g)}}
    ELSE {}

\* The history goes with every step.
Remember(new) ==
    /\ known' = [h \in KeyHolder |-> IF \E g \in new : g.to = h THEN gs'.version ELSE known[h]]
    /\ read' = [h \in KeyHolder |->
            (read[h] \cup Fetches(h)') \cap {st'.envs[n].key : n \in EnvName}]

\* groupCommit and apiFleetEnroll: links that lead from gs to s, signed by
\* who, and the grants that go with them.
GroupCommit(who, s, new) ==
    /\ now' = now + 1
    /\ gs' = s
    /\ \A g \in new : Storable(s, who, g)
    /\ kg' = StoreKeyGrants(MirrorGroup(s, kg), new)
    /\ blocked' = Unblock(s)
    /\ UNCHANGED <<chains, st, sealed, events>>
    /\ Remember(new)

-----------------------------------------------------------------------------
(* An admin's device.                                                      *)

Idle == [step |-> "idle"]

\* Whether the link is valid and u may send it.
MaySend(u, s, l) == GroupValidNext(s, chains, l) /\ (GroupAdmin(s, u) \/ GroupMember(s, u))

LinkOf(s, u, type, body) == GroupLink(s, type, u, Ver(u), Len(chains[u]), now, body)

GrantOf(s, u, h) == KeyGrant(s, u, h, VersionOf(h))

\* keyGrantsAll: to everyone but expired tokens and whoever is blocked.
KeyGrantsAll(s, u) ==
    {GrantOf(s, u, h) : h \in {h \in KeyHolder : InGroup(s, h) /\ h \notin blocked /\ ~Late(h)}}

\* rotateGroupKey, after the links that led to s.
Rotated(s, u) == GroupNextState(s, LinkOf(s, u, "key_rotate", [version |-> s.version + 1]))

\* A command of one link that seals the key to h, or to nobody.
Sign(u, l, to) ==
    LET s == GroupNextState(gs, l)
    IN  /\ now < MaxNow /\ work[u] = Idle
        /\ MaySend(u, gs, l)
        /\ to # {} => OpensKey(u)
        /\ GroupCommit(u, s, {GrantOf(s, u, h) : h \in to})
        /\ UNCHANGED <<joins, work>>

\* A removal with a new key in the same commit.
SignAndRotate(u, l) ==
    LET s == GroupNextState(gs, l)
        r == Rotated(s, u)
    IN  /\ now < MaxNow /\ work[u] = Idle
        /\ MaySend(u, gs, l) /\ MaySend(u, s, LinkOf(s, u, "key_rotate", [version |-> s.version + 1]))
        /\ GroupCommit(u, r, KeyGrantsAll(r, u))
        /\ UNCHANGED <<joins, work>>

AddGroupAdmin(u, v) ==
    Sign(u, LinkOf(gs, u, "admin_add", [user |-> v, verified |-> "account-key"]), {v})

\* An admin who leaves cannot rotate: another admin's sync does.
RemoveGroupAdmin(u, v) ==
    LET l == LinkOf(gs, u, "admin_remove", [user |-> v])
    IN  GroupAdmin(gs, u) /\ IF u = v THEN Sign(u, l, {}) ELSE SignAndRotate(u, l)

AddGroupMember(u, v) ==
    Sign(u, LinkOf(gs, u, "member_add", [user |-> v, verified |-> "account-key"]), {v})

RemoveGroupMember(u, v) ==
    LET l == LinkOf(gs, u, "member_remove", [user |-> v])
    IN  IF u = v THEN Sign(u, l, {}) ELSE SignAndRotate(u, l)

AddType(c) == IF c \in Token THEN "token_add" ELSE IF c \in Fleet THEN "machine_add" ELSE "workload_add"

\* NewCred, and AddWorkload.
NewCred(u, c) == Sign(u, LinkOf(gs, u, AddType(c), [id |-> c]), {c})

RekeyWorkload(u, c) == Sign(u, LinkOf(gs, u, "workload_rekey", [id |-> c]), {c})

\* resealEnrolled: the grants a token made go with it.
Enrolled(t) == {m \in Fleet \cap ActiveCreds(gs) : gs.creds[m].by = t}

RemoveCred(u, c, destroyed) ==
    LET l == LinkOf(gs, u, "remove", [id |-> c, destroyed |-> destroyed])
    IN  IF destroyed THEN Sign(u, l, IF c \in Token THEN Enrolled(c) ELSE {})
        ELSE SignAndRotate(u, l)

RotateGroupKey(u) ==
    LET l == LinkOf(gs, u, "key_rotate", [version |-> gs.version + 1])
        s == GroupNextState(gs, l)
    IN  /\ now < MaxNow /\ work[u] = Idle
        /\ MaySend(u, gs, l)
        /\ GroupCommit(u, s, KeyGrantsAll(s, u))
        /\ UNCHANGED <<joins, work>>

\* groupSide
SetAccess(u) ==
    Sign(u, LinkOf(gs, u, IF gs.access THEN "access_remove" ELSE "access_add", [none |-> TRUE]), {})

\* A removal signed on the web by the delegate of an admin: no device, no
\* new key yet.
DelegateRemove(u, d, h) ==
    LET l == [LinkOf(gs, u, IF h \in Person THEN "member_remove" ELSE "remove",
                     IF h \in Person THEN [user |-> h] ELSE [id |-> h, destroyed |-> FALSE])
                EXCEPT !.delegate = d, !.ver = 0]
    IN  /\ now < MaxNow
        /\ MaySend(u, gs, l)
        /\ GroupCommit(u, GroupNextState(gs, l), {})
        /\ UNCHANGED <<joins, work>>

-----------------------------------------------------------------------------
(* Machines that ask to join, or enroll themselves.                        *)

RequestJoin(m) ==
    /\ gs.creds[m].status = "none" /\ joins[m] = "none"
    /\ events < MaxEvents /\ events' = events + 1
    /\ joins' = [joins EXCEPT ![m] = "pending"]
    /\ UNCHANGED <<chains, now, gs, kg, blocked, work, st, sealed, known, read>>

ApproveJoin(u, m) ==
    LET l == LinkOf(gs, u, "machine_add", [id |-> m])
        s == GroupNextState(gs, l)
    IN  /\ now < MaxNow /\ work[u] = Idle
        /\ joins[m] = "pending"
        /\ MaySend(u, gs, l) /\ OpensKey(u)
        /\ GroupCommit(u, s, {GrantOf(s, u, m)})
        /\ joins' = [joins EXCEPT ![m] = "approved"]
        /\ UNCHANGED work

RejectJoin(u, m) ==
    /\ GroupAdmin(gs, u) /\ joins[m] = "pending"
    /\ joins' = [joins EXCEPT ![m] = "rejected"]
    /\ UNCHANGED <<chains, now, gs, kg, blocked, work, st, sealed, known, read, events>>

\* The token opens the group key, and signs the link and the grant.
Enroll(t, m) ==
    LET l == GroupLink(gs, "machine_add", t, 0, 0, now, [id |-> m])
        s == GroupNextState(gs, l)
    IN  /\ now < MaxNow
        /\ t \notin blocked /\ ~Late(t) /\ OpensKey(t)
        /\ GroupValidNext(gs, chains, l)
        /\ GroupCommit(t, s, {KeyGrant(s, t, m, 0)})
        /\ UNCHANGED <<joins, work>>

-----------------------------------------------------------------------------
(* An admin's sync (fulfilGroup), and the project's.                       *)

\* Mutant: a grant to a user key that was replaced counts.
HasAnyVersion(h) == \E g \in kg : g.to = h /\ g.version = gs.version

\* groupStatus: whom a grant of the current key waits for.
Has(h) == \E g \in kg : g.to = h /\ g.version = gs.version
                        /\ (h \in Person => g.toVer = Ver(h))

LackingKey ==
    {h \in KeyHolder : InGroup(gs, h) /\ ~Has(h) /\ h \notin blocked /\ ~Late(h)}

\* Who left still holds the key, or nobody can open it: members count, too.
MustRotate(u) ==
    \/ gs.exposed # {}
    \/ LackingKey # {} /\ ~OpensKey(u) /\ ~\E v \in Person : HoldsKey(gs, v) /\ Has(v)

FulfilRotate(u) ==
    /\ work[u] = Idle /\ GroupAdmin(gs, u) /\ MustRotate(u)
    /\ LET s == Rotated(gs, u)
       IN  MaySend(u, gs, LinkOf(gs, u, "key_rotate", [version |-> gs.version + 1]))
           /\ GroupCommit(u, s, KeyGrantsAll(s, u))
    /\ UNCHANGED <<joins, work>>

FulfilRead(u) ==
    /\ work[u] = Idle /\ GroupAdmin(gs, u) /\ ~MustRotate(u)
    /\ LackingKey # {} /\ OpensKey(u)
    /\ work' = [work EXCEPT ![u] =
            [step |-> "send", grants |-> {GrantOf(gs, u, h) : h \in LackingKey}, ver |-> Ver(u)]]
    /\ UNCHANGED <<chains, now, gs, kg, blocked, joins, st, sealed, known, read, events>>

\* The server checks each grant against the group as it is by then.
FulfilSend(u) ==
    LET w == work[u]
        ok == GroupAdmin(gs, u) /\ w.ver = Ver(u) /\ \A g \in w.grants : Storable(gs, u, g)
        new == IF ok THEN w.grants ELSE {}
    IN  /\ w.step = "send"
        /\ kg' = StoreKeyGrants(kg, new)
        /\ work' = [work EXCEPT ![u] = Idle]
        /\ UNCHANGED <<chains, now, gs, blocked, joins, st, sealed, events>>
        /\ Remember(new)

Fulfil(u) == FulfilRotate(u) \/ FulfilRead(u) \/ FulfilSend(u)

\* The group's grant in the project: all its environments, to the key the
\* group has now, if both sides agreed.
SealFor(s) ==
    IF gs.access /\ Access(s, TheGroup) # {}
    THEN {NewGrant(s, Creator, TheGroup, gs.version, Access(s, TheGroup))} ELSE {}

\* groupHolders: sealed to the group's current key.
GroupHeld(n) ==
    \E g \in sealed : g.toVer = gs.version /\ [env |-> n, key |-> st.envs[n].key] \in g.envs

\* resealGroup, or fulfilProject of the project's admin.
Reseal ==
    /\ \E n \in GroupReads : ~GroupHeld(n)
    /\ gs.access
    /\ sealed' = SealFor(st)
    /\ UNCHANGED <<chains, now, gs, kg, blocked, joins, work, st, events>>
    /\ Remember({})

-----------------------------------------------------------------------------
(* The project's admin.                                                    *)

ProjectLink(type, body) == NewLink(st, type, Creator, Ver(Creator), Len(chains[Creator]), now, body)

ProjectCommit(l, rows) ==
    LET s == NextState(st, l)
    IN  /\ now < MaxNow
        /\ ValidNext(st, chains, l)
        /\ now' = now + 1
        /\ st' = s
        /\ sealed' = IF Active(s, TheGroup) THEN rows ELSE {}
        /\ UNCHANGED <<chains, gs, kg, blocked, joins, work, events>>
        /\ Remember({})

\* projectSide: the group's admins choose the project first.
SetGroup(envs) ==
    LET l == ProjectLink("group_set", [group |-> TheGroup, root |-> 1, envs |-> envs])
    IN  /\ envs # GroupReads
        /\ envs # {} => gs.access
        /\ ValidNext(st, chains, l)
        /\ ProjectCommit(l, SealFor(NextState(st, l)))

\* The project's environment gets a new key.
PublishEnv(n) ==
    LET unused == {k \in EnvKey : ~UsedKey(st, k)}
        l == ProjectLink("env_set", [env |-> n, key |-> CHOOSE k \in unused : TRUE])
        s == NextState(st, l)
    IN  /\ unused # {}
        /\ ProjectCommit(l, IF n \in GroupReads /\ gs.access THEN SealFor(s) ELSE sealed)

RenameEnv(old, new) ==
    ProjectCommit(ProjectLink("env_rename", [old |-> old, new |-> new]),
        {[g EXCEPT !.envs = {[e EXCEPT !.env = IF @ = old THEN new ELSE @] : e \in g.envs}] : g \in sealed})

-----------------------------------------------------------------------------
(* What else happens.                                                      *)

\* A new user key ends the delegates.
RotateUserKey(u) ==
    /\ events < MaxEvents /\ events' = events + 1
    /\ chains' = [chains EXCEPT ![u] = Append(@, [ver |-> Ver(u) + 1, delegates |-> {}])]
    /\ UNCHANGED <<now, gs, kg, blocked, joins, work, st, sealed, known>>
    /\ Remember({})

\* A removal proposed on the web blocks at once; dismissing it unblocks.
Block(h) ==
    /\ IF h \in Person THEN GroupMember(gs, h) ELSE gs.creds[h].status = "active"
    /\ \/ /\ h \notin blocked /\ events < MaxEvents
          /\ blocked' = blocked \cup {h} /\ events' = events + 1
       \/ h \in blocked /\ blocked' = blocked \ {h} /\ UNCHANGED events
    /\ UNCHANGED <<chains, now, gs, kg, joins, work, st, sealed, known>>
    /\ Remember({})

-----------------------------------------------------------------------------
FirstGroup ==
    LET new == GroupNextState(NewGroup,
                GroupLink(NewGroup, "init", Creator, 1, 1, 1, [creator |-> Creator]))
    IN  GroupNextState(new, GroupLink(new, "access_add", Creator, 1, 1, 1, [none |-> TRUE]))

\* Each first environment with a key of its own.
FirstKeys == CHOOSE f \in Injection(FirstEnvs, EnvKey) : TRUE

FirstProject ==
    LET new == NextState(New, NewLink(New, "init", Creator, 1, 1, 1,
                [creator |-> Creator, envs |-> [n \in EnvName |-> IF n \in FirstEnvs THEN FirstKeys[n] ELSE NoKey]]))
    IN  NextState(new, NewLink(new, "group_set", Creator, 1, 1, 1,
                [group |-> TheGroup, root |-> 1, envs |-> FirstEnvs]))

\* After CreateGroup, GrantGroup, and AddGroupAdmin or AddGroupMember of Other.
Init ==
    /\ chains = [u \in Person |-> <<[ver |-> 1, delegates |-> IF u = Creator THEN Delegate ELSE {}]>>]
    /\ now = 2
    /\ \E type \in {"admin_add", "member_add"} :
            gs = GroupNextState(FirstGroup, GroupLink(FirstGroup, type, Creator, 1, 1, 1,
                                                      [user |-> Other, verified |-> "account-key"]))
    /\ kg = {KeyGrant(gs, Creator, u, 1) : u \in {Creator, Other}}
    /\ blocked = {}
    /\ joins = [m \in Fleet |-> "none"]
    /\ work = [u \in Person |-> Idle]
    /\ st = FirstProject
    /\ sealed = {NewGrant(st, Creator, TheGroup, 1, FirstEnvs)}
    /\ known = [h \in KeyHolder |-> IF h \in {Creator, Other} THEN 1 ELSE 0]
    /\ read = [h \in KeyHolder |-> IF h \in {Creator, Other} THEN {st.envs[n].key : n \in FirstEnvs} ELSE {}]
    /\ events = 0

GroupCommand(u) ==
    \/ \E v \in Person : AddGroupAdmin(u, v)
    \/ \E v \in Person : RemoveGroupAdmin(u, v)
    \/ \E v \in Person : AddGroupMember(u, v)
    \/ \E v \in Person : RemoveGroupMember(u, v)
    \/ \E c \in Cred : NewCred(u, c)
    \/ \E c \in Workload : RekeyWorkload(u, c)
    \/ \E c \in Cred, destroyed \in BOOLEAN : RemoveCred(u, c, destroyed)
    \/ RotateGroupKey(u)
    \/ SetAccess(u)
    \/ \E d \in Delegate, h \in KeyHolder : DelegateRemove(u, d, h)
    \/ \E m \in Fleet : ApproveJoin(u, m)
    \/ \E m \in Fleet : RejectJoin(u, m)

Next ==
    \/ \E u \in Person : GroupCommand(u)
    \/ \E m \in Fleet : RequestJoin(m)
    \/ \E t \in Token, m \in Fleet : Enroll(t, m)
    \/ \E envs \in SUBSET EnvNames(st) : SetGroup(envs)
    \/ \E n \in EnvName : PublishEnv(n)
    \/ \E old, new \in EnvName : RenameEnv(old, new)
    \/ \E u \in Person : Fulfil(u)
    \/ Reseal
    \/ \E u \in Person : RotateUserKey(u)
    \/ \E h \in KeyHolder : Block(h)

Spec == Init /\ [][Next]_vars

\* Devices of admins sync again and again.
Fairness == (\A u \in Person : WF_vars(Fulfil(u))) /\ WF_vars(Reseal)

FairSpec == Spec /\ Fairness
-----------------------------------------------------------------------------
Destroyed(h) == h \in Cred /\ gs.creds[h].destroyed

\* Whoever left, or was removed by a device or on the web, and still holds
\* the group's key, is listed as exposed until there is a new key, so that
\* the next sync of an admin makes one (applyRemove, setKey, fulfilGroup).
FormerHoldersExposed ==
    \A h \in KeyHolder :
        known[h] = gs.version => InGroup(gs, h) \/ Destroyed(h) \/ h \in gs.exposed

\* h could fetch the key n has now through the group: they read n still, or
\* are listed with it, or the whole group is.
Listed(h, n) ==
    \/ InGroup(gs, h) /\ n \in GroupReads
    \/ TheGroup \in st.envs[n].exposed
    \/ Destroyed(h) \/ h \in GroupExposures(st, gs, TheGroup, n)

\* A new list of environments dated the group's access to n again, since n
\* was renamed (applyGroupSet after renameEnv).
DatedAgain(n) ==
    /\ \E old \in EnvName : st.renames[old] = n
    /\ st.groups[TheGroup].since[n] > st.envs[n].since

\* Whoever could fetch the key an environment has now through the group
\* reads it still, or is listed, so that the project's admins are asked for a
\* new key (GroupExposures), unless the environment was renamed and dated again.
ReadersListed ==
    \A h \in KeyHolder : \A n \in EnvNames(st) :
        st.envs[n].key \in read[h] => Listed(h, n) \/ DatedAgain(n)

\* The same without the exception: "GroupExposures lists, by environment, the
\* group's machines and tokens that were removed (and not destroyed) after the
\* project's current key of an environment the group reads was set"
\* (team/group.go), people included.
LeaversListed ==
    \A h \in KeyHolder : \A n \in EnvNames(st) : st.envs[n].key \in read[h] => Listed(h, n)

\* What the server reports as sent can be opened: no grant stays whose signer
\* left, or that was sealed to a key the recipient replaced.  A report that
\* is wrong would keep admins' devices from sending the key again (mirrorGroup,
\* groupStatus).
ReportedKeysOpen == \A h \in KeyHolder : InGroup(gs, h) /\ Has(h) => OpensKey(h)

AdminOpens == \E u \in Person : GroupAdmin(gs, u) /\ OpensKey(u)

\* Only a member can open the key: no sync replaces it, since the server counts
\* members among the admins with the key, and members send no keys.
OnlyMembersOpen == ~AdminOpens /\ \E u \in Person : GroupMember(gs, u) /\ OpensKey(u)

MayRead(h, n) ==
    /\ InGroup(gs, h) /\ h \notin blocked /\ ~Late(h)
    /\ gs.access /\ n \in GroupReads

\* Everyone in the group reads what the project lets it read, whoever leaves,
\* whichever keys are replaced and whoever is let in meanwhile (fulfilGroup,
\* resealGroup), unless only members can open the group key.
HoldersRead ==
    []<>(OnlyMembersOpen \/ \A h \in KeyHolder : \A n \in EnvName :
            MayRead(h, n) => st.envs[n].key \in read[h])
=============================================================================
