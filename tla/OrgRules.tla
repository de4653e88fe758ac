------------------------------ MODULE OrgRules ------------------------------
(***************************************************************************)
(* The rules of an organisation's chain (src/internal/team/org.go,         *)
(* tenant.go, signers.go).  The module has no state: an OrgState is what a *)
(* verified chain says, OrgValidNext the error returns of step, and        *)
(* OrgNextState what step assigns.  Of a person's own chain the rules use  *)
(* which user key was in force at a position; here position p is that of   *)
(* key version p.                                                          *)
(*                                                                         *)
(* Left out: sizes, reasons, logins, account roots, the handle and display *)
(* name (owner's links of type profile_set), groups named by a KMS key,    *)
(* and settings that only pages and devices of groups read.                *)
(***************************************************************************)
EXTENDS Naturals, FiniteSets

CONSTANTS
    Person,                   \* user ids
    Delegate,                 \* delegate keys: the server's, and passkeys
    DelegateOf,               \* Delegate -> Person
    KindOf,                   \* Delegate -> {"server", "passkey"}
    ScopeOf,                  \* Delegate -> {"remove", "manage"}
    KeyName, KMSKey,          \* KMS keys, and the names given to them
    Hour,                     \* how far a link time may step back
    NoKey, NoDelegate         \* absent values

ASSUME DelegatesAssumption ==
    /\ DelegateOf \in [Delegate -> Person]
    /\ KindOf \in [Delegate -> {"server", "passkey"}]
    /\ ScopeOf \in [Delegate -> {"remove", "manage"}]
    /\ NoDelegate \notin Delegate
ASSUME NoKeyAssumption == NoKey \notin KMSKey /\ NoKey \notin KeyName
ASSUME HourAssumption == Hour \in Nat

Verification == {"github-ssh", "account-key", "web"}

-----------------------------------------------------------------------------
(* The state of a verified chain.                                          *)

\* keeps: the removal leaves their admin roles in projects and groups.
Entry == [status: {"none", "active", "former"}, removedSeq: Nat, removed: Nat, keeps: BOOLEAN]

OrgSettings == [membersOnly: BOOLEAN, githubProof: BOOLEAN, noServerSigning: BOOLEAN,
                defaultKMS: KeyName \cup {NoKey}]

OrgState == [seq: Nat, last: Nat, kind: {"none", "team", "personal"}, explicitOwners: BOOLEAN,
             owners: SUBSET Person, admins: [Person -> Entry], members: [Person -> Entry],
             kms: [KeyName -> KMSKey \cup {NoKey}], settings: OrgSettings,
             signed: SUBSET (Person \X Nat), signerSeqs: [Person -> Nat]]

NoEntry == [status |-> "none", removedSeq |-> 0, removed |-> 0, keeps |-> FALSE]

NewEntry == [NoEntry EXCEPT !.status = "active"]

NewOrg == [
    seq |-> 0, last |-> 0, kind |-> "none", explicitOwners |-> FALSE, owners |-> {},
    admins |-> [u \in Person |-> NoEntry], members |-> [u \in Person |-> NoEntry],
    kms |-> [n \in KeyName |-> NoKey],
    settings |-> [membersOnly |-> FALSE, githubProof |-> FALSE,
                  noServerSigning |-> FALSE, defaultKMS |-> NoKey],
    signed |-> {}, signerSeqs |-> [u \in Person |-> 0]]

HasChain(os) == os.seq > 0

Admin(os, u) == os.admins[u].status = "active"

Member(os, u) == os.members[u].status = "active"

In(os, u) == Admin(os, u) \/ Member(os, u)

\* Before owners are named, every admin is one.
Owner(os, u) == Admin(os, u) /\ (os.explicitOwners => u \in os.owners)

ActiveAdmins(os) == {u \in Person : Admin(os, u)}

Owners(os) == {u \in Person : Owner(os, u)}

Removals(os, u) == {e \in {os.admins[u], os.members[u]} : e.status = "former"}

\* Left, Former: was in the organisation and is not any more.
Left(os, u) == ~In(os, u) /\ Removals(os, u) # {}

\* When: the later of the two times.
LeftAt(os, u) == CHOOSE t \in {e.removed : e \in Removals(os, u)} :
                     \A e \in Removals(os, u) : e.removed <= t

\* The removal that took them out is the last one.
KeepsAdminRoles(os, u) ==
    \E e \in Removals(os, u) :
        e.keeps /\ \A other \in Removals(os, u) : other.removedSeq <= e.removedSeq

\* CheckPerson: the organisation's rules for its projects and groups.
MayJoin(os, u, verified) ==
    /\ os.settings.membersOnly => In(os, u)
    /\ ~(os.settings.githubProof /\ verified = "account-key")

-----------------------------------------------------------------------------
(* Links and who signs them.                                               *)

OrgLink(os, type, u, ver, delegate, time, body) ==
    [type |-> type, seq |-> os.seq + 1, signer |-> u, ver |-> IF delegate = NoDelegate THEN ver ELSE 0,
     pos |-> ver, delegate |-> delegate, time |-> time, b |-> body]

\* orgScope: what a delegate needs to sign l.
OrgScope(l) ==
    CASE l.type \in {"member_remove", "kms_remove"} -> "remove"
      [] l.type = "member_add" /\ l.b.verified = "web" -> "manage"
      [] OTHER -> "none"

DelegateAllows(scope, need) == need = scope \/ (need = "remove" /\ scope = "manage")

\* userKey: an admin's user key of the position named, or that of a member
\* who leaves.
SignedByPerson(os, keys, l) ==
    /\ IF l.seq = 1 THEN l.type = "init" /\ l.b.user = l.signer
       ELSE Admin(os, l.signer) \/ (Member(os, l.signer) /\ l.type = "member_remove")
    /\ l.pos \in 1 .. keys[l.signer] /\ l.ver = l.pos
    /\ l.pos >= os.signerSeqs[l.signer]

\* delegateUnless: an admin's delegate whose scope covers l.
SignedByAdminsDelegate(os, keys, l) ==
    /\ Admin(os, l.signer) /\ l.ver = 0 /\ l.seq # 1
    /\ l.pos \in 1 .. keys[l.signer] /\ l.pos >= os.signerSeqs[l.signer]
    /\ l.delegate \in Delegate /\ DelegateOf[l.delegate] = l.signer
    /\ ~(os.settings.noServerSigning /\ KindOf[l.delegate] = "server")
    /\ DelegateAllows(ScopeOf[l.delegate], OrgScope(l))

CheckSigner(os, keys, l) ==
    /\ l.type = "owner_set" => l.delegate = NoDelegate /\ Owner(os, l.signer)
    /\ IF l.delegate # NoDelegate THEN SignedByAdminsDelegate(os, keys, l)
       ELSE ~(l.type = "member_add" /\ l.b.verified = "web") /\ SignedByPerson(os, keys, l)

-----------------------------------------------------------------------------
(* The link types.                                                         *)

\* A personal tenant has one permanent owner.
PersonalTenantAllows(type) == type \in {"init", "settings", "kms_add", "kms_remove"}

ApplyInit(os, l) ==
    [os EXCEPT !.kind = l.b.kind, !.explicitOwners = l.b.explicitOwners,
               !.owners = {l.b.user}, !.admins[l.b.user] = NewEntry]

ValidOwner(os, l) ==
    /\ Admin(os, l.b.user)
    /\ l.b.owner \/ Owners(os) # {l.b.user}

\* The first such link makes owners of all who are admins.
ApplyOwner(os, l) ==
    LET owners == IF os.explicitOwners THEN os.owners ELSE os.owners \cup ActiveAdmins(os)
    IN  [os EXCEPT !.explicitOwners = TRUE,
                   !.owners = IF l.b.owner THEN owners \cup {l.b.user}
                              ELSE owners \ {l.b.user}]

ValidAdd(os, l) ==
    /\ l.b.verified = "web" => l.type = "member_add"
    /\ ~(os.settings.githubProof /\ l.b.verified = "account-key")
    /\ ~Admin(os, l.b.user)
    /\ Member(os, l.b.user) => l.type = "admin_add"

Former(entry, l, keeps) ==
    [entry EXCEPT !.status = "former", !.removedSeq = l.seq, !.removed = l.time, !.keeps = keeps]

\* A member who becomes an admin is an admin only.
ApplyAdd(os, l) ==
    IF l.type = "member_add" THEN [os EXCEPT !.members[l.b.user] = NewEntry]
    ELSE [os EXCEPT
            !.admins[l.b.user] = NewEntry,
            !.members[l.b.user] = IF @.status = "active" THEN Former(@, l, l.delegate # NoDelegate)
                                  ELSE @]

\* Mutant: the last owner may be removed while other admins remain.
AnyAdminMayGo(os, l) == Admin(os, l.b.user) /\ ActiveAdmins(os) # {l.b.user}

ValidAdminRemove(os, l) ==
    /\ Admin(os, l.b.user) /\ ActiveAdmins(os) # {l.b.user}
    /\ Owner(os, l.b.user) => Owner(os, l.signer) /\ Owners(os) # {l.b.user}

ApplyAdminRemove(os, l) ==
    [os EXCEPT !.admins[l.b.user] = Former(@, l, l.delegate # NoDelegate),
               !.owners = @ \ {l.b.user}]

ValidMemberRemove(os, l) ==
    Member(os, l.b.user) /\ (Admin(os, l.signer) \/ l.signer = l.b.user)

ApplyMemberRemove(os, l) ==
    [os EXCEPT !.members[l.b.user] = Former(@, l, l.delegate # NoDelegate \/ l.b.keeps)]

\* A name and a key are each approved once.
ValidKMSAdd(os, l) ==
    os.kms[l.b.name] = NoKey /\ \A n \in KeyName : os.kms[n] # l.b.key

ApplyKMSRemove(os, l) ==
    [os EXCEPT !.kms[l.b.name] = NoKey,
               !.settings.defaultKMS = IF @ = l.b.name THEN NoKey ELSE @]

ValidSettings(os, st) == st.defaultKMS # NoKey => os.kms[st.defaultKMS] # NoKey

ValidApply(os, l) ==
    /\ os.kind = "personal" => PersonalTenantAllows(l.type)
    /\ (l.seq = 1) <=> (l.type = "init")
    /\ CASE l.type = "init" -> l.b.kind \in {"team", "personal"}
         [] l.type = "owner_set" -> ValidOwner(os, l)
         [] l.type \in {"admin_add", "member_add"} -> ValidAdd(os, l)
         [] l.type = "admin_remove" -> ValidAdminRemove(os, l)
         [] l.type = "member_remove" -> ValidMemberRemove(os, l)
         [] l.type = "kms_add" -> ValidKMSAdd(os, l)
         [] l.type = "kms_remove" -> os.kms[l.b.name] # NoKey
         [] l.type = "settings" -> ValidSettings(os, l.b.settings)

Apply(os, l) ==
    CASE l.type = "init" -> ApplyInit(os, l)
      [] l.type = "owner_set" -> ApplyOwner(os, l)
      [] l.type \in {"admin_add", "member_add"} -> ApplyAdd(os, l)
      [] l.type = "admin_remove" -> ApplyAdminRemove(os, l)
      [] l.type = "member_remove" -> ApplyMemberRemove(os, l)
      [] l.type = "kms_add" -> [os EXCEPT !.kms[l.b.name] = l.b.key]
      [] l.type = "kms_remove" -> ApplyKMSRemove(os, l)
      [] l.type = "settings" -> [os EXCEPT !.settings = l.b.settings]

OrgValidNext(os, keys, l) ==
    /\ l.seq = os.seq + 1
    /\ l.time + Hour >= os.last
    /\ CheckSigner(os, keys, l)
    /\ ValidApply(os, l)

OrgNextState(os, l) ==
    [Apply(os, l) EXCEPT
        !.seq = l.seq, !.last = l.time,
        !.signerSeqs[l.signer] = IF l.pos > 0 THEN l.pos ELSE @,
        !.signed = IF l.delegate = NoDelegate THEN @ \cup {<<l.signer, l.ver>>} ELSE @]

\* SignedWithUserKey: not through a delegate, nor with an earlier user key.
SignedWithUserKey(os, u, ver) == <<u, ver>> \in os.signed
=============================================================================
