---------------------------- MODULE ProjectRules ----------------------------
(***************************************************************************)
(* The rules of a project chain (src/internal/team/team.go, envrename.go,  *)
(* delegate.go, grant.go).  The module has no state: State is what a       *)
(* verified chain says, ValidNext the error returns of step, NextState     *)
(* what step assigns.  A link names a position in its signer's personal    *)
(* chain; of that chain the rules use only what EpochAt and DelegateAt say *)
(* of each position, so chains[u][p] is the user key version after p links *)
(* and the delegates active then.                                          *)
(*                                                                         *)
(* Left out: the sizes (MaxMembers and the like), reasons, logins, account *)
(* roots (one account per person), the successor and predecessor of a      *)
(* moved project, and the age and OIDC policy of machines.                 *)
(***************************************************************************)
EXTENDS Naturals, Sequences, FiniteSets

CONSTANTS
    Person, Machine, Group,   \* the holders: user, machine and group ids
    EnvName, EnvKey,          \* names and public keys of environments
    Delegate,                 \* delegate keys of the persons
    ScopeOf,                  \* Delegate -> {"remove", "manage"}
    ExpiresOf,                \* Delegate -> time, 0 for none
    Hour,                     \* how far a link time may step back
    NoEnv, NoKey, NoDelegate  \* absent values

ASSUME ScopesAssumption == ScopeOf \in [Delegate -> {"remove", "manage"}]
ASSUME NoEnvAssumption == NoEnv \notin EnvName
ASSUME NoKeyAssumption == NoKey \notin EnvKey
ASSUME NoDelegateAssumption == NoDelegate \notin Delegate
ASSUME HourAssumption == Hour \in Nat
ASSUME HoldersAssumption ==
    /\ Person \cap Machine = {}
    /\ Person \cap Group = {}
    /\ Machine \cap Group = {}

Holder == Person \cup Machine \cup Group

Verification == {"github-ssh", "account-key", "web"}

-----------------------------------------------------------------------------
(* The state of a verified chain.                                          *)

MemberState == [status: {"none", "active", "former"}, admin: BOOLEAN,
                envs: SUBSET EnvName, verified: Verification]

\* Machines are never re-added: their ids and keys are used once.
MachineState == [status: {"none", "active", "former"}, envs: SUBSET EnvName]

GroupState == [status: {"none", "active", "former"}, root: Nat,
               envs: SUBSET EnvName, since: [EnvName -> Nat]]

EnvState == [key: EnvKey \cup {NoKey}, since: Nat, retired: SUBSET EnvKey,
             exposed: SUBSET Holder]

State == [seq: Nat, last: Nat, archived: BOOLEAN,
          members: [Person -> MemberState], machines: [Machine -> MachineState],
          groups: [Group -> GroupState], envs: [EnvName -> EnvState],
          renames: [EnvName -> EnvName \cup {NoEnv}],
          signerSeqs: [Person -> Nat]]

NoEnvState == [key |-> NoKey, since |-> 0, retired |-> {}, exposed |-> {}]

New == [
    seq |-> 0, last |-> 0, archived |-> FALSE,
    members |-> [u \in Person |->
        [status |-> "none", admin |-> FALSE, envs |-> {}, verified |-> "account-key"]],
    machines |-> [m \in Machine |-> [status |-> "none", envs |-> {}]],
    groups |-> [g \in Group |->
        [status |-> "none", root |-> 0, envs |-> {}, since |-> [n \in EnvName |-> 0]]],
    envs |-> [n \in EnvName |-> NoEnvState],
    renames |-> [n \in EnvName |-> NoEnv],
    signerSeqs |-> [u \in Person |-> 0]]

EnvNames(st) == {n \in EnvName : st.envs[n].key # NoKey}

Member(st, u) == st.members[u].status = "active"

Admin(st, u) == Member(st, u) /\ st.members[u].admin

Admins(st) == {u \in Person : Admin(st, u)}

\* Access(holder) as a set; HasAccess(holder, n) is n \in Access(holder).
Access(st, h) ==
    CASE h \in Person ->
            IF ~Member(st, h) THEN {}
            ELSE IF st.members[h].admin THEN EnvNames(st)
            ELSE st.members[h].envs
      [] h \in Machine -> IF st.machines[h].status = "active" THEN st.machines[h].envs ELSE {}
      [] h \in Group -> IF st.groups[h].status = "active" THEN st.groups[h].envs ELSE {}

Active(st, h) ==
    CASE h \in Person -> Member(st, h)
      [] h \in Machine -> st.machines[h].status = "active"
      [] h \in Group -> st.groups[h].status = "active"

Former(st, h) ==
    CASE h \in Person -> st.members[h].status = "former"
      [] h \in Machine -> st.machines[h].status = "former"
      [] h \in Group -> st.groups[h].status = "former"

\* Environments whose current key someone who lost access may still hold.
Rotations(st) == {n \in EnvNames(st) : st.envs[n].exposed # {}}

\* Follows renames: what a name that was signed earlier is called now.
CurrentEnv(st, n) == IF st.renames[n] = NoEnv THEN n ELSE st.renames[n]

-----------------------------------------------------------------------------
(* Links and who signs them.                                               *)

\* A link on st.  A delegate's link names no user key version.
NewLink(st, type, u, ver, pos, time, body) ==
    [type |-> type, seq |-> st.seq + 1, signer |-> u, ver |-> ver, pos |-> pos,
     delegate |-> NoDelegate, time |-> time, b |-> body]

DelegateLink(st, type, u, d, pos, time, body) ==
    [type |-> type, seq |-> st.seq + 1, signer |-> u, ver |-> 0, pos |-> pos,
     delegate |-> d, time |-> time, b |-> body]

DelegateAllows(scope, want) ==
    want # "none" /\ (scope = want \/ (scope = "manage" /\ want = "remove"))

\* The scope a delegate needs for l, "none" when only a device may sign it.
ProjectScope(st, l) ==
    CASE l.type = "member_remove" /\ Member(st, l.b.user) /\ ~Admin(st, l.b.user) -> "remove"
      [] l.type = "member_update" /\ Member(st, l.b.user) /\ ~Admin(st, l.b.user) /\ ~l.b.admin ->
            IF l.b.envs \subseteq st.members[l.b.user].envs THEN "remove" ELSE "manage"
      [] l.type = "machine_remove" -> "remove"
      [] l.type = "group_set" /\ st.groups[l.b.group].status = "active"
                              /\ st.groups[l.b.group].root = l.b.root ->
            IF l.b.envs \subseteq st.groups[l.b.group].envs THEN "remove" ELSE "manage"
      [] l.type = "member_add" /\ ~l.b.admin /\ l.b.verified = "web" -> "manage"
      [] l.type \in {"archive", "unarchive"} -> "manage"
      [] OTHER -> "none"

\* Mutant: a link may name any earlier position of its signer.
ForgetsPositions(st, l) == TRUE

\* Positions of one signer never go back in a project.
PositionMovesOn(st, l) == l.pos >= st.signerSeqs[l.signer]

SignedByUserKey(chains, l) ==
    /\ ~(l.type = "member_add" /\ l.b.verified = "web")
    /\ l.pos \in DOMAIN chains[l.signer]
    /\ chains[l.signer][l.pos].ver = l.ver

SignedByDelegate(st, chains, l) ==
    /\ l.ver = 0
    /\ l.pos \in DOMAIN chains[l.signer]
    /\ l.delegate \in chains[l.signer][l.pos].delegates
    /\ ExpiresOf[l.delegate] = 0 \/ l.time < ExpiresOf[l.delegate]
    /\ DelegateAllows(ScopeOf[l.delegate], ProjectScope(st, l))

CheckSigner(st, chains, l) ==
    /\ l.type = "init" \/ Member(st, l.signer)
    /\ IF l.delegate = NoDelegate THEN SignedByUserKey(chains, l)
       ELSE SignedByDelegate(st, chains, l)
    /\ PositionMovesOn(st, l)

-----------------------------------------------------------------------------
(* The link types: when each is valid, and what it changes.                *)

\* checkAccess: admins list none, others list environments that exist.
CheckAccess(st, admin, envs) ==
    IF admin THEN envs = {} ELSE envs \subseteq EnvNames(st)

\* Mutant: losing an environment is not recorded when the member stays.
ForgetsExposure(st, lost, h) == st

\* h loses the environments in lost while their current keys are in use.
Expose(st, lost, h) ==
    [st EXCEPT !.envs = [n \in EnvName |->
        IF n \in lost \cap EnvNames(st)
        THEN [st.envs[n] EXCEPT !.exposed = @ \cup {h}] ELSE st.envs[n]]]

\* Mutant: a key that was replaced may be used again.
OnlyCurrentKeysTaken(st, key) == \E n \in EnvName : st.envs[n].key = key

UsedKey(st, key) ==
    \E n \in EnvName : st.envs[n].key = key \/ key \in st.envs[n].retired

SetEnv(st, n, key, time) ==
    [st EXCEPT !.envs[n] =
        [key |-> key, since |-> time, exposed |-> {},
         retired |-> IF @.key = NoKey THEN {} ELSE @.retired \cup {@.key}]]

ValidEnvSet(st, n, key) == st.renames[n] = NoEnv /\ ~UsedKey(st, key)

ValidInit(st, l) ==
    /\ st.seq = 0
    /\ l.b.creator = l.signer
    /\ \A n, m \in EnvName : n # m /\ l.b.envs[n] # NoKey => l.b.envs[n] # l.b.envs[m]

ApplyInit(st, l) ==
    [st EXCEPT
        !.envs = [n \in EnvName |-> IF l.b.envs[n] = NoKey THEN st.envs[n]
                                    ELSE [NoEnvState EXCEPT !.key = l.b.envs[n], !.since = l.time]],
        !.members[l.b.creator] = [status |-> "active", admin |-> TRUE, envs |-> {},
                                  verified |-> "account-key"]]

ValidMemberAdd(st, l) ==
    /\ ~Member(st, l.b.user)
    /\ CheckAccess(st, l.b.admin, l.b.envs)

\* A former member comes back as a new entry.
ApplyMemberAdd(st, l) ==
    [st EXCEPT !.members[l.b.user] =
        [status |-> "active", admin |-> l.b.admin, envs |-> l.b.envs, verified |-> l.b.verified]]

NotLastAdmin(st, u) == Admins(st) # {u}

ValidMemberUpdate(st, l) ==
    /\ Member(st, l.b.user)
    /\ CheckAccess(st, l.b.admin, l.b.envs)
    /\ l.b.admin \/ NotLastAdmin(st, l.b.user)

ApplyMemberUpdate(st, l) ==
    LET next == [st EXCEPT !.members[l.b.user].admin = l.b.admin, !.members[l.b.user].envs = l.b.envs]
    IN  Expose(next, Access(st, l.b.user) \ Access(next, l.b.user), l.b.user)

\* Admins remove anyone; a member may remove only themselves.
ValidMemberRemove(st, l) ==
    /\ l.b.user = l.signer \/ Admin(st, l.signer)
    /\ Member(st, l.b.user)
    /\ NotLastAdmin(st, l.b.user)

ApplyMemberRemove(st, l) ==
    [Expose(st, Access(st, l.b.user), l.b.user) EXCEPT !.members[l.b.user].status = "former"]

RenamedEnvs(st, h, old, new) ==
    {IF n = old THEN new ELSE n : n \in IF h \in Person THEN st.members[h].envs
                                        ELSE IF h \in Machine THEN st.machines[h].envs
                                        ELSE st.groups[h].envs}

ValidEnvRename(st, l) ==
    /\ l.b.old \in EnvNames(st)
    /\ l.b.new \notin EnvNames(st)
    /\ st.renames[l.b.new] = NoEnv

\* The environment moves with its keys and exposures, and every list names
\* it anew; a group's EnvSince keeps the old name.
ApplyEnvRename(st, l) ==
    LET old == l.b.old
        new == l.b.new
    IN  [st EXCEPT
            !.envs = [st.envs EXCEPT ![new] = st.envs[old], ![old] = NoEnvState],
            !.members = [u \in Person |->
                [st.members[u] EXCEPT !.envs = RenamedEnvs(st, u, old, new)]],
            !.machines = [m \in Machine |->
                [st.machines[m] EXCEPT !.envs = RenamedEnvs(st, m, old, new)]],
            !.groups = [g \in Group |->
                [st.groups[g] EXCEPT !.envs = RenamedEnvs(st, g, old, new)]],
            !.renames = [n \in EnvName |->
                IF n = old \/ st.renames[n] = old THEN new ELSE st.renames[n]]]

ValidMachineAdd(st, l) ==
    /\ st.machines[l.b.machine].status = "none"
    /\ l.b.envs # {} /\ CheckAccess(st, FALSE, l.b.envs)

ApplyMachineAdd(st, l) ==
    [st EXCEPT !.machines[l.b.machine] = [status |-> "active", envs |-> l.b.envs]]

ApplyMachineRemove(st, l) ==
    [Expose(st, st.machines[l.b.machine].envs, l.b.machine)
        EXCEPT !.machines[l.b.machine].status = "former"]

ValidGroupSet(st, l) ==
    LET old == st.groups[l.b.group]
    IN  /\ CheckAccess(st, FALSE, l.b.envs)
        /\ IF old.status = "active" THEN old.root = l.b.root ELSE l.b.envs # {}

\* A group keeps the time it was granted what it still reads.
ApplyGroupSet(st, l) ==
    LET old == st.groups[l.b.group]
        since == [n \in EnvName |->
                    IF n \notin l.b.envs THEN 0
                    ELSE IF n \in Access(st, l.b.group) THEN
                         IF old.since[n] = 0 THEN l.time ELSE old.since[n]
                    ELSE l.time]
    IN  IF l.b.envs = {}
        THEN [Expose(st, old.envs, l.b.group) EXCEPT !.groups[l.b.group].status = "former"]
        ELSE [Expose(st, Access(st, l.b.group) \ l.b.envs, l.b.group) EXCEPT
                 !.groups[l.b.group] =
                    [status |-> "active", root |-> l.b.root, envs |-> l.b.envs, since |-> since]]

-----------------------------------------------------------------------------
(* step: the whole of it.                                                  *)

ValidApply(st, l) ==
    /\ l.type \in {"init", "member_remove"} \/ Admin(st, l.signer)
    /\ st.archived => l.type \in {"unarchive", "member_remove"}
    /\ CASE l.type = "init" -> ValidInit(st, l)
         [] l.type = "member_add" -> ValidMemberAdd(st, l)
         [] l.type = "member_update" -> ValidMemberUpdate(st, l)
         [] l.type = "member_remove" -> ValidMemberRemove(st, l)
         [] l.type = "env_set" -> ValidEnvSet(st, l.b.env, l.b.key)
         [] l.type = "env_rename" -> ValidEnvRename(st, l)
         [] l.type = "machine_add" -> ValidMachineAdd(st, l)
         [] l.type = "machine_remove" -> st.machines[l.b.machine].status = "active"
         [] l.type = "group_set" -> ValidGroupSet(st, l)
         [] l.type = "archive" -> TRUE
         [] l.type = "unarchive" -> st.archived

Apply(st, l) ==
    CASE l.type = "init" -> ApplyInit(st, l)
      [] l.type = "member_add" -> ApplyMemberAdd(st, l)
      [] l.type = "member_update" -> ApplyMemberUpdate(st, l)
      [] l.type = "member_remove" -> ApplyMemberRemove(st, l)
      [] l.type = "env_set" -> SetEnv(st, l.b.env, l.b.key, l.time)
      [] l.type = "env_rename" -> ApplyEnvRename(st, l)
      [] l.type = "machine_add" -> ApplyMachineAdd(st, l)
      [] l.type = "machine_remove" -> ApplyMachineRemove(st, l)
      [] l.type = "group_set" -> ApplyGroupSet(st, l)
      [] l.type = "archive" -> [st EXCEPT !.archived = TRUE]
      [] l.type = "unarchive" -> [st EXCEPT !.archived = FALSE]

ValidNext(st, chains, l) ==
    /\ l.seq = st.seq + 1
    /\ l.time + Hour >= st.last
    /\ CheckSigner(st, chains, l)
    /\ ValidApply(st, l)

NextState(st, l) ==
    [Apply(st, l) EXCEPT
        !.seq = l.seq, !.last = l.time, !.signerSeqs[l.signer] = l.pos]

-----------------------------------------------------------------------------
(* Grants: environment keys sealed to one holder's key.                    *)

\* keys is the set of environment names the grant carries, with the key each
\* had when the grant was made.
NewGrant(st, from, to, toVer, envs) ==
    [from |-> from, to |-> to, toVer |-> toVer,
     envs |-> {[env |-> n, key |-> st.envs[n].key] : n \in envs}]

\* Any user key an admin ever had may sign a grant: it carries only current
\* keys, to holders with access.
CheckGrant(st, g) ==
    /\ g.envs # {}
    /\ Admin(st, g.from)
    /\ \A e \in g.envs :
         LET n == CurrentEnv(st, e.env)
         IN  st.envs[n].key = e.key /\ n \in Access(st, g.to)

\* Open, by a person whose user key has version ver.
OpenGrant(st, g, u, ver) == CheckGrant(st, g) /\ g.to = u /\ g.toVer = ver
=============================================================================
