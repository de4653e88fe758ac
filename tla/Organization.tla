---------------------------- MODULE Organization ----------------------------
(***************************************************************************)
(* An organisation on the server, its people and their devices, and the    *)
(* projects and groups named after it (src/internal/server/orgchain.go,    *)
(* org.go, namespaces.go, orgpages.go, delegates.go; account/org.go).      *)
(* Each person has one device, which does one thing at a time.  A change   *)
(* of the organisation's chain is one step, since the server refuses a     *)
(* link that does not follow the chain it has; whatever a device does in a *)
(* project or group rests on the organisation's chain as the device read   *)
(* it, which may have moved on.  Of a project or group the model has who   *)
(* is in it, with which role and since when: Project and Group have the    *)
(* rest.  Clocks of devices may be ahead of the server's.                  *)
(*                                                                         *)
(* Left out: events (devices sync each minute), server admins' policies,   *)
(* reviews, workloads, proposals that wait for a signature (Changes).      *)
(***************************************************************************)
EXTENDS OrgRules

CONSTANTS
    Creator,       \* owns the reserved namespace, or made the legacy chain
    Place,         \* projects and groups of the organisation
    AheadOf,       \* Person -> how far their clock is ahead
    Starts,        \* what there may be at first: see Init
    Choices,       \* the settings that admins choose from
    Kinds,         \* how a person may be checked by a device
    MaxNow,        \* bound: the clock
    MaxCommands,   \* bound: what people ask for, together
    MaxKey         \* bound: user keys of a person

ASSUME CreatorAssumption == Creator \in Person
ASSUME StartsAssumption == Starts \subseteq {"open", "reserved", "personal", "legacy"}
ASSUME ChoicesAssumption ==
    /\ Choices \subseteq OrgSettings
    /\ Kinds \subseteq {"github-ssh", "account-key"}
ASSUME ClocksAssumption == AheadOf \in [Person -> Nat] /\ MaxNow \in Nat
ASSUME MaxKeyAssumption == MaxKey \in Nat \ {0}

VARIABLES
    org,       \* the stored chain, as it verifies
    ns,        \* the namespace: its kind and its owner
    places,    \* the projects and groups
    keys,      \* the user key version of each person
    job,       \* what each person's device is doing
    seen,      \* the chain it read for that
    trust,     \* OrgTrust: whether it anchored the chain
    now,       \* the server's clock
    commands,  \* how many there were
    left       \* history: who left the organisation or a role in it, when and how

vars == <<org, ns, places, keys, job, seen, trust, now, commands, left>>

-----------------------------------------------------------------------------
Outside == [in |-> FALSE, admin |-> FALSE, added |-> 0]

Empty == [u \in Person |-> Outside]

PlaceAdmin(p, u) == places[p][u].in /\ places[p][u].admin

Clock(u) == now + AheadOf[u]

\* linkClock, with what clocks may be ahead by.
LinkClock(time) == \E u \in Person : time <= Clock(u)

\* opin: a link of this person, made with their current user key, anchors.
Anchored(u) == trust[u] \/ SignedWithUserKey(org, u, keys[u])

MayCommand == commands < MaxCommands /\ commands' = commands + 1

-----------------------------------------------------------------------------
(* What the server checks.                                                 *)

\* canCreateTenant and checkTenantLink, for the first link: a reserved name
\* is its owner's; a free one becomes a team of whoever asks.
MayStart(u, l) ==
    CASE ns.kind = "none" -> l.b.kind = "team" /\ l.b.explicitOwners
      [] ns.kind = "legacy" -> FALSE
      [] OTHER -> ns.owner = u /\ l.b.kind = ns.kind

MayLink(u, l) ==
    /\ l.type = "init" => MayStart(u, l)
    /\ ns.kind = "personal" => u = ns.owner /\ PersonalTenantAllows(l.type)

\* A member who becomes an admin loses a role too, and stays.
LostRole(os, next, v) == (Admin(os, v) /\ ~Admin(next, v)) \/ (Member(os, v) /\ ~Member(next, v))

\* orgCommit, for link l by u.
Commit(u, l) ==
    /\ l.signer = u /\ l.seq = org.seq + 1
    /\ LinkClock(l.time)
    /\ MayLink(u, l)
    /\ OrgValidNext(org, keys, l)
    /\ org' = OrgNextState(org, l)
    /\ ns' = IF l.type = "init" /\ ns.kind = "none" THEN [kind |-> "team", owner |-> u] ELSE ns
    /\ left' = left \cup {[user |-> v, seq |-> l.seq, time |-> l.time, stays |-> In(org', v),
                           keeps |-> l.delegate # NoDelegate
                                       \/ (l.type = "member_remove" /\ l.b.keeps)] :
                          v \in {w \in Person : LostRole(org, org', w)}}

\* Mutant: the server leaves the rules for people to the devices.
NothingChecked(v, verified) == TRUE

\* checkOrgPerson, with the chain as it is now.
MayJoinNow(v, verified) == HasChain(org) => MayJoin(org, v, verified)

\* checkNamespace, with the chain as it is now.
MayCreateNow(u) ==
    /\ ns.kind \notin {"none", "legacy"}
    /\ IF ns.kind = "personal" \/ ~HasChain(org) THEN ns.owner = u ELSE In(org, u)

-----------------------------------------------------------------------------
(* Commands on the organisation.                                           *)

\* apiOrgCommit and olink: with the current user key, and past the first
\* link only in a chain this device anchored.
Sign(u, type, body) ==
    /\ job[u] = "idle" /\ MayCommand
    /\ HasChain(org) => Anchored(u)
    /\ Commit(u, OrgLink(org, type, u, keys[u], NoDelegate, Clock(u), body))
    /\ trust' = [trust EXCEPT ![u] = TRUE]
    /\ UNCHANGED <<places, keys, now>>

Idle == UNCHANGED <<job, seen>>

CreateOrg(u) ==
    /\ ~HasChain(org)
    /\ Sign(u, "init", [user |-> u, kind |-> IF ns.owner = u THEN ns.kind ELSE "team",
                        explicitOwners |-> TRUE])
    /\ Idle

SetOwner(u) ==
    /\ \E v \in Person, owner \in BOOLEAN :
           Sign(u, "owner_set", [user |-> v, owner |-> owner])
    /\ Idle

AddOrgPerson(u) ==
    /\ Admin(org, u)
    /\ \E v \in Person, verified \in Kinds, type \in {"admin_add", "member_add"} :
           Sign(u, type, [user |-> v, verified |-> verified])
    /\ Idle

\* removeOrgPerson: whoever removed another takes them out of what they
\* administer, with the chain that says so; narrow, only members are removed.
RemoveOrgPerson(u) ==
    \E v \in Person, narrow \in BOOLEAN :
        /\ In(org, v) /\ (u = v \/ Admin(org, u))
        /\ IF Admin(org, v) THEN ~narrow /\ Sign(u, "admin_remove", [user |-> v])
           ELSE Sign(u, "member_remove", [user |-> v, keeps |-> narrow])
        /\ IF u = v THEN Idle
           ELSE /\ job' = [job EXCEPT ![u] = "sync"]
                /\ seen' = [seen EXCEPT ![u] = org']

ApproveKMS(u) ==
    /\ Admin(org, u)
    /\ \E n \in KeyName, k \in KMSKey : Sign(u, "kms_add", [name |-> n, key |-> k])
    /\ Idle

WithdrawKMS(u) ==
    /\ Admin(org, u)
    /\ \E n \in KeyName : Sign(u, "kms_remove", [name |-> n])
    /\ Idle

SetOrgSettings(u) ==
    /\ Admin(org, u)
    /\ \E st \in Choices \ {org.settings} : Sign(u, "settings", [settings |-> st])
    /\ Idle

\* orgChangeLinks, for an admin on a page: their passkey, or the server's
\* key, signs; admins are a device's to add and to remove.
SignOnPage(u, type, body) ==
    /\ Admin(org, u) /\ MayCommand
    /\ \E d \in Delegate : Commit(u, OrgLink(org, type, u, keys[u], d, now, body))
    /\ UNCHANGED <<places, keys, job, seen, trust, now>>

PageAdd(u) ==
    \E v \in Person : SignOnPage(u, "member_add", [user |-> v, verified |-> "web"])

PageRemove(u) ==
    \E v \in Person \ {u} : SignOnPage(u, "member_remove", [user |-> v, keeps |-> FALSE])

PageWithdrawKMS(u) ==
    \E n \in KeyName : SignOnPage(u, "kms_remove", [name |-> n])

\* TrustOrg: the person compares the fingerprint.
TrustOrg(u) ==
    /\ job[u] = "idle" /\ HasChain(org) /\ ~trust[u] /\ MayCommand
    /\ trust' = [trust EXCEPT ![u] = TRUE]
    /\ UNCHANGED <<org, ns, places, keys, job, seen, now, left>>

-----------------------------------------------------------------------------
(* Devices in projects and groups.                                         *)

\* org: the device reads the chain for what it is about to do.
Read(u, what) ==
    /\ job[u] = "idle"
    /\ job' = [job EXCEPT ![u] = what]
    /\ seen' = [seen EXCEPT ![u] = org]
    /\ trust' = [trust EXCEPT ![u] = Anchored(u)]
    /\ UNCHANGED <<org, ns, places, keys, now, left>>

StartCommand(u) == Read(u, "command") /\ MayCommand

StartSync(u) == HasChain(org) /\ Read(u, "sync") /\ UNCHANGED commands

Stop(u) ==
    /\ job' = [job EXCEPT ![u] = "idle"]
    /\ seen' = [seen EXCEPT ![u] = NewOrg]

InPlace(p, u, entry) ==
    /\ places' = [places EXCEPT ![p][u] = entry]
    /\ UNCHANGED <<org, ns, keys, trust, now, commands, left>>

\* CreateTeam, CreateGroup, with checkNamespace on both sides.
CreatePlace(u, p) ==
    /\ job[u] = "command" /\ places[p] = Empty
    /\ HasChain(seen[u]) => In(seen[u], u)
    /\ MayCreateNow(u)
    /\ InPlace(p, u, [in |-> TRUE, admin |-> TRUE, added |-> Clock(u)])
    /\ Stop(u)

\* AddMember, AddGroupMember, with checkOrgPerson on both sides.
AddToPlace(u, p, v) ==
    /\ job[u] = "command" /\ PlaceAdmin(p, u) /\ ~places[p][v].in
    /\ \E verified \in Kinds, admin \in BOOLEAN :
           /\ HasChain(seen[u]) => MayJoin(seen[u], v, verified)
           /\ MayJoinNow(v, verified)
           /\ InPlace(p, v, [in |-> TRUE, admin |-> admin, added |-> Clock(u)])
    /\ Stop(u)

\* Mutant: whoever left is taken out, added again since or not.
AddedAnyTime(os, p, v) == TRUE

\* Mutant: whoever was added in the same second stays.
AddedEarlier(os, p, v) == places[p][v].added < LeftAt(os, v)

\* Whoever was added after they left was added on purpose.
AddedBefore(os, p, v) == places[p][v].added <= LeftAt(os, v)

\* orgRemovals finds v in p, for a device of u that read os.
StillIn(u, os, p, v) ==
    /\ v # u /\ Left(os, v)
    /\ places[p][v].in /\ AddedBefore(os, p, v)
    /\ PlaceAdmin(p, u)
    /\ places[p][v].admin => ~KeepsAdminRoles(os, v)

TakeOut(u, p, v) ==
    /\ job[u] = "sync" /\ trust[u] /\ StillIn(u, seen[u], p, v)
    /\ InPlace(p, v, Outside)
    /\ UNCHANGED <<job, seen>>

\* A command that fails, or a sync that took out all it could.
Finish(u) ==
    /\ job[u] # "idle"
    /\ job[u] = "sync" /\ trust[u] => \A p \in Place, v \in Person : ~StillIn(u, seen[u], p, v)
    /\ Stop(u)
    /\ UNCHANGED <<org, ns, places, keys, trust, now, commands, left>>

-----------------------------------------------------------------------------
NewUserKey(u) ==
    /\ job[u] = "idle" /\ keys[u] < MaxKey /\ MayCommand
    /\ keys' = [keys EXCEPT ![u] = @ + 1]
    /\ UNCHANGED <<org, ns, places, job, seen, trust, now, left>>

\* The person goes on with a device that has pinned nothing.
NewDevice(u) ==
    /\ job[u] = "idle" /\ trust[u] /\ MayCommand
    /\ trust' = [trust EXCEPT ![u] = FALSE]
    /\ UNCHANGED <<org, ns, places, keys, job, seen, now, left>>

Tick ==
    /\ now < MaxNow /\ now' = now + 1
    /\ UNCHANGED <<org, ns, places, keys, job, seen, trust, commands, left>>

-----------------------------------------------------------------------------
\* What older programs left: a chain without named owners, and its project.
LegacyOrg ==
    LET l == OrgLink(NewOrg, "init", Creator, 1, NoDelegate, 0,
                     [user |-> Creator, kind |-> "team", explicitOwners |-> FALSE])
    IN  OrgNextState(NewOrg, l)

Init ==
    /\ \E start \in Starts :
          /\ org = IF start = "legacy" THEN LegacyOrg ELSE NewOrg
          /\ ns = [kind |-> CASE start = "open" -> "none" [] start = "reserved" -> "team"
                              [] OTHER -> start,
                   owner |-> IF start \in {"reserved", "personal"} THEN Creator ELSE NoDelegate]
          /\ places = [p \in Place |->
                          IF start = "legacy"
                          THEN [Empty EXCEPT ![Creator] = [in |-> TRUE, admin |-> TRUE, added |-> 0]]
                          ELSE Empty]
    /\ keys = [u \in Person |-> 1]
    /\ job = [u \in Person |-> "idle"]
    /\ seen = [u \in Person |-> NewOrg]
    /\ trust = [u \in Person |-> FALSE]
    /\ now = 1 /\ commands = 0 /\ left = {}

Govern(u) ==
    \/ CreateOrg(u) \/ SetOwner(u) \/ AddOrgPerson(u) \/ RemoveOrgPerson(u)
    \/ ApproveKMS(u) \/ WithdrawKMS(u) \/ SetOrgSettings(u)
    \/ PageAdd(u) \/ PageRemove(u) \/ PageWithdrawKMS(u)

Work(u) ==
    \/ \E p \in Place : CreatePlace(u, p)
    \/ \E p \in Place, v \in Person : AddToPlace(u, p, v) \/ TakeOut(u, p, v)
    \/ Finish(u)

Next ==
    \/ \E u \in Person : Govern(u) \/ TrustOrg(u) \/ StartCommand(u) \/ StartSync(u)
                         \/ Work(u) \/ NewUserKey(u) \/ NewDevice(u)
    \/ Tick

Spec == Init /\ [][Next]_vars

\* A device's daemon syncs each minute, and whatever a device does ends.
FairSpec == Spec /\ \A u \in Person : WF_vars(StartSync(u)) /\ WF_vars(Work(u))

-----------------------------------------------------------------------------
(* Properties.                                                             *)

\* Someone always governs: there is an admin and an owner.
SomeOwner == HasChain(org) => ActiveAdmins(org) # {} /\ Owners(org) # {}

\* Nobody has two roles, and named owners are admins.
RolesApart ==
    /\ \A u \in Person : ~(Admin(org, u) /\ Member(org, u))
    /\ org.owners \subseteq ActiveAdmins(org)

\* A personal tenant is of the owner of its namespace, alone and for good.
PersonalAlone ==
    ns.kind = "personal" => \A u \in Person : In(org, u) => u = ns.owner /\ Owner(org, u)

\* The default KMS key is an approved one.
DefaultApproved == org.settings.defaultKMS # NoKey => org.kms[org.settings.defaultKMS] # NoKey

\* Through any order of additions, promotions, ownership changes and removals,
\* signed on devices, by passkeys or the server, an organisation stays
\* governable and its settings refer to what it approved.
Governed == SomeOwner /\ RolesApart /\ PersonalAlone /\ DefaultApproved

\* While an organisation lets only its people in, whoever gets into one of its
\* projects or groups is one of them at that moment, whatever chain the device
\* that adds them had read.
MembersOnly ==
    \A p \in Place, v \in Person :
        ~places[p][v].in /\ places'[p][v].in /\ HasChain(org) /\ org.settings.membersOnly
            => In(org, v)
MembersOnlyProperty == [][MembersOnly]_vars

\* Devices take out, unasked, only people who had left the organisation, and
\* who were not added since they last lost a role in it (promotion counts, with
\* a time that may lie ahead of the removal's); and admins only after a removal
\* that did not leave them their roles.
OnlyLeaversTakenOut ==
    \A p \in Place, v \in Person :
        places[p][v].in /\ ~places'[p][v].in =>
            \E e, f \in left :
                /\ e.user = v /\ f.user = v /\ ~e.stays /\ f.seq <= e.seq
                /\ places[p][v].added <= f.time
                /\ places[p][v].admin => ~e.keeps
OnlyLeaversTakenOutProperty == [][OnlyLeaversTakenOut]_vars

\* Someone removed from the organisation does not stay in a project or group
\* that they were in before, if an admin of it has a device that anchored the
\* chain; unless they are an admin there, and the removal left them that.
Overstays(p, v) ==
    /\ places[p][v].in /\ ~In(org, v)
    /\ \E e \in left :
          /\ e.user = v /\ \A other \in left : other.user = v => other.seq <= e.seq
          /\ places[p][v].added <= e.time
          /\ places[p][v].admin => ~e.keeps
    /\ \E u \in Person \ {v} : PlaceAdmin(p, u) /\ trust[u]

LeaversTakenOut == \A p \in Place, v \in Person : []<>~Overstays(p, v)
=============================================================================
