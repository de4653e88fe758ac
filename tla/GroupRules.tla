----------------------------- MODULE GroupRules -----------------------------
(***************************************************************************)
(* The rules of a group chain (src/internal/team/group.go, signers.go) and *)
(* of the grants of its key.  Like ProjectRules the module has no state: a *)
(* group state is what a verified chain says, GroupValidNext the error     *)
(* returns of step and GroupNextState what step assigns.  Each version of  *)
(* the group key is a fresh key pair, so the version stands for the key,   *)
(* and the hash of the first link for the one root there is.               *)
(*                                                                         *)
(* Left out: sizes, reasons, names, account roots, OIDC policies, and      *)
(* projects but one.                                                       *)
(***************************************************************************)
EXTENDS ProjectRules

CONSTANTS
    Token, Fleet, Workload,   \* ids of enrollment tokens, machines, workloads
    TokenExpires              \* Token -> time, 0 for none

Cred == Token \cup Fleet \cup Workload

\* Whoever a group key can be sealed to.
KeyHolder == Person \cup Cred

ASSUME CredsAssumption ==
    /\ Token \cap Fleet = {} /\ Token \cap Workload = {} /\ Fleet \cap Workload = {}
    /\ Person \cap Cred = {}
ASSUME TokenExpiresAssumption == TokenExpires \in [Token -> Nat]

-----------------------------------------------------------------------------
(* The state of a verified group chain.                                    *)

\* An admin's or member's entry; a person may have one of each.
PersonEntry == [status: {"none", "active", "former"}, verified: Verification, removed: Nat]

\* enc counts the KMS keys of a workload; by is who added the credential.
CredState == [status: {"none", "active", "former"}, by: Person \cup Token \cup {NoKey},
              enc: Nat, removed: Nat, destroyed: BOOLEAN]

GroupChainState ==
    [seq: Nat, last: Nat, admins: [Person -> PersonEntry], members: [Person -> PersonEntry],
     creds: [Cred -> CredState], version: Nat, exposed: SUBSET KeyHolder,
     access: BOOLEAN, signerSeqs: [Person -> Nat]]

NewEntry(verified) == [status |-> "active", verified |-> verified, removed |-> 0]

NewGroup ==
    LET nobody == [u \in Person |-> [NewEntry("account-key") EXCEPT !.status = "none"]]
    IN  [seq |-> 0, last |-> 0, admins |-> nobody, members |-> nobody,
         creds |-> [c \in Cred |-> [status |-> "none", by |-> NoKey, enc |-> 0,
                                    removed |-> 0, destroyed |-> FALSE]],
         version |-> 0, exposed |-> {}, access |-> FALSE,
         signerSeqs |-> [u \in Person |-> 0]]

GroupAdmin(gs, u) == gs.admins[u].status = "active"

GroupMember(gs, u) == gs.members[u].status = "active"

HoldsKey(gs, u) == GroupAdmin(gs, u) \/ GroupMember(gs, u)

ActiveAdmins(gs) == {u \in Person : GroupAdmin(gs, u)}

ActiveCreds(gs) == {c \in Cred : gs.creds[c].status = "active"}

\* KeyHolders, and the active machines, tokens and workloads.
InGroup(gs, h) == IF h \in Person THEN HoldsKey(gs, h) ELSE gs.creds[h].status = "active"

Expired(t, now) == TokenExpires[t] # 0 /\ now >= TokenExpires[t]

-----------------------------------------------------------------------------
(* Links and who signs them.                                               *)

GroupLink(gs, type, u, ver, pos, time, body) ==
    [type |-> type, seq |-> gs.seq + 1, signer |-> u, ver |-> ver, pos |-> pos,
     delegate |-> NoDelegate, time |-> time, b |-> body]

\* groupScope: what a delegate needs to sign l.
GroupScope(l) ==
    CASE l.type = "remove" /\ ~l.b.destroyed -> "remove"
      [] l.type \in {"access_remove", "member_remove"} -> "remove"
      [] l.type = "member_add" /\ l.b.verified = "web" -> "manage"
      [] OTHER -> "none"

\* A token signs only for the machines it enrolls.
SignedByToken(gs, l) ==
    /\ gs.creds[l.signer].status = "active"
    /\ l.type = "machine_add" /\ l.ver = 0 /\ l.pos = 0
    /\ ~Expired(l.signer, l.time)

\* userKey: an admin's current key as of the position named, or that of a
\* member who leaves.
SignedByPerson(gs, chains, l) ==
    /\ IF l.seq = 1 THEN l.type = "init" /\ l.b.creator = l.signer
       ELSE GroupAdmin(gs, l.signer)
            \/ (GroupMember(gs, l.signer) /\ l.type = "member_remove")
    /\ l.pos \in DOMAIN chains[l.signer]
    /\ chains[l.signer][l.pos].ver = l.ver
    /\ l.pos >= gs.signerSeqs[l.signer]

SignedByAdminsDelegate(gs, chains, l) ==
    /\ GroupAdmin(gs, l.signer) /\ l.ver = 0 /\ l.seq # 1
    /\ l.pos \in DOMAIN chains[l.signer] /\ l.pos >= gs.signerSeqs[l.signer]
    /\ l.delegate \in chains[l.signer][l.pos].delegates
    /\ ExpiresOf[l.delegate] = 0 \/ l.time < ExpiresOf[l.delegate]
    /\ DelegateAllows(ScopeOf[l.delegate], GroupScope(l))

GroupCheckSigner(gs, chains, l) ==
    IF l.delegate # NoDelegate THEN SignedByAdminsDelegate(gs, chains, l)
    ELSE /\ ~(l.type = "member_add" /\ l.b.verified = "web")
         /\ IF l.signer \in Token THEN SignedByToken(gs, l) ELSE SignedByPerson(gs, chains, l)

-----------------------------------------------------------------------------
(* The link types.                                                         *)

\* A new version is a new key: whoever left had only earlier ones.
SetKey(gs, version) == [gs EXCEPT !.version = version, !.exposed = {}]

\* A member who becomes an admin is an admin only.
ApplyAdminAdd(gs, l) ==
    [gs EXCEPT
        !.members[l.b.user] = IF @.status = "active"
                              THEN [@ EXCEPT !.status = "former", !.removed = l.time] ELSE @,
        !.admins[l.b.user] = NewEntry(l.b.verified)]

\* Mutant: whoever leaves by themselves is not recorded.
LeaversForgotten(gs, h, l) ==
    [gs EXCEPT !.exposed = IF h = l.signer THEN @ ELSE @ \cup {h}]

\* Whoever leaves held the group key.
KeyExposed(gs, h, l) == [gs EXCEPT !.exposed = @ \cup {h}]

ApplyAdminRemove(gs, l) ==
    [KeyExposed(gs, l.b.user, l) EXCEPT
        !.admins[l.b.user].status = "former", !.admins[l.b.user].removed = l.time]

ApplyGroupMemberRemove(gs, l) ==
    [KeyExposed(gs, l.b.user, l) EXCEPT
        !.members[l.b.user].status = "former", !.members[l.b.user].removed = l.time]

\* addCred: ids are used once.
ValidCredAdd(gs, l) ==
    /\ gs.creds[l.b.id].status = "none"
    /\ l.b.id \in CASE l.type = "machine_add" -> Fleet
                    [] l.type = "token_add" -> Token
                    [] l.type = "workload_add" -> Workload

AddCred(gs, l) == [gs EXCEPT !.creds[l.b.id].status = "active", !.creds[l.b.id].by = l.signer]

\* Only keys that were destroyed with their machine expose nothing.
ApplyRemove(gs, l) ==
    LET next == [gs EXCEPT !.creds[l.b.id].status = "former",
                           !.creds[l.b.id].removed = l.time,
                           !.creds[l.b.id].destroyed = l.b.destroyed]
    IN  IF l.b.destroyed THEN next ELSE KeyExposed(next, l.b.id, l)

GroupValidApply(gs, l) ==
    CASE l.type = "init" -> l.seq = 1
      [] l.type = "admin_add" -> ~GroupAdmin(gs, l.b.user)
      [] l.type = "admin_remove" -> GroupAdmin(gs, l.b.user) /\ ActiveAdmins(gs) # {l.b.user}
      [] l.type = "member_add" -> ~HoldsKey(gs, l.b.user)
      [] l.type = "member_remove" ->
            GroupMember(gs, l.b.user) /\ (GroupAdmin(gs, l.signer) \/ l.signer = l.b.user)
      [] l.type \in {"machine_add", "token_add", "workload_add"} -> ValidCredAdd(gs, l)
      [] l.type = "workload_rekey" -> l.b.id \in Workload \cap ActiveCreds(gs)
      [] l.type = "remove" -> l.b.id \in ActiveCreds(gs)
      [] l.type = "key_rotate" -> l.b.version = gs.version + 1
      [] l.type = "access_add" -> ~gs.access
      [] l.type = "access_remove" -> gs.access

GroupApply(gs, l) ==
    CASE l.type = "init" -> [SetKey(gs, 1) EXCEPT !.admins[l.b.creator] = NewEntry("account-key")]
      [] l.type = "admin_add" -> ApplyAdminAdd(gs, l)
      [] l.type = "admin_remove" -> ApplyAdminRemove(gs, l)
      [] l.type = "member_add" -> [gs EXCEPT !.members[l.b.user] = NewEntry(l.b.verified)]
      [] l.type = "member_remove" -> ApplyGroupMemberRemove(gs, l)
      [] l.type \in {"machine_add", "token_add", "workload_add"} -> AddCred(gs, l)
      [] l.type = "workload_rekey" -> [gs EXCEPT !.creds[l.b.id].enc = @ + 1]
      [] l.type = "remove" -> ApplyRemove(gs, l)
      [] l.type = "key_rotate" -> SetKey(gs, l.b.version)
      [] l.type \in {"access_add", "access_remove"} -> [gs EXCEPT !.access = l.type = "access_add"]

GroupValidNext(gs, chains, l) ==
    /\ l.seq = gs.seq + 1
    /\ l.time + Hour >= gs.last
    /\ GroupCheckSigner(gs, chains, l)
    /\ GroupValidApply(gs, l)

GroupNextState(gs, l) ==
    LET next == [GroupApply(gs, l) EXCEPT !.seq = l.seq, !.last = l.time]
    IN  IF l.pos = 0 THEN next ELSE [next EXCEPT !.signerSeqs[l.signer] = l.pos]

-----------------------------------------------------------------------------
(* Grants of the group key, and what someone who left may still hold.      *)

KeyGrant(gs, from, to, toVer) ==
    [from |-> from, version |-> gs.version, to |-> to, toVer |-> toVer,
     enc |-> IF to \in Cred THEN gs.creds[to].enc ELSE 0]

\* keyGrantSigner: any key an admin had, or a token.
GrantSigner(gs, h) == IF h \in Person THEN GroupAdmin(gs, h) ELSE h \in Token \cap ActiveCreds(gs)

CheckKeyGrant(gs, g) ==
    /\ g.version = gs.version
    /\ GrantSigner(gs, g.from)
    /\ InGroup(gs, g.to)
    /\ g.to \in Cred => g.toVer = 0 /\ g.enc = gs.creds[g.to].enc

\* OpenKeyGrant, by a holder whose user key version is ver (0 for others).
OpenKeyGrant(gs, g, h, ver) == CheckKeyGrant(gs, g) /\ g.to = h /\ g.toVer = ver

\* Mutant: people who left are not listed.
OnlyCredsListed(st, gs, group, n) ==
    IF n \notin Access(st, group) THEN {}
    ELSE {c \in Cred : gs.creds[c].status = "former" /\ ~gs.creds[c].destroyed
                       /\ gs.creds[c].removed >= st.envs[n].since}

\* GroupExposures for environment n: whoever left the group since the key n
\* has was set and the group was granted n.
GroupExposures(st, gs, group, n) ==
    LET since(t) == t >= st.envs[n].since /\ t >= st.groups[group].since[n]
        left(e) == e.status = "former" /\ since(e.removed)
    IN  IF n \notin Access(st, group) \/ st.envs[n].key = NoKey THEN {}
        ELSE {c \in Cred : left(gs.creds[c]) /\ ~gs.creds[c].destroyed}
             \cup {u \in Person : left(gs.admins[u]) \/ left(gs.members[u])}
=============================================================================
