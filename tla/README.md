# TLA+ for esec-vault

This directory models the parts of esec-vault that are hard to test: who may
change a personal account, a project, a group or an organization, who can read
which key, and what a device, its daemon and the server do to each other when
they act at the same time, fail, and come back. The modules are translated from
the Go code in `src/internal`; `PROJECT.json` says, per definition, which lines
it stands for.

Contents: [the system](#the-system), [the modules](#the-modules),
[correspondence with the code](#correspondence-with-the-code),
[runs](#runs), [bounds](#bounds), [fairness](#fairness), [proofs](#proofs),
[what the models found](#what-the-models-found),
[weak points](#weak-points), [what is left out](#what-is-left-out),
[plan](#plan).

## The system

esec keeps environment files encrypted with per-environment keys. The keys live
in a keyring on each device; with an account, the keyring is synced as one
encrypted *vault* through a server that is not trusted with the keys. Projects
and groups share environment keys between accounts, sealed to each reader.

| Component | State | Operations | Module |
|---|---|---|---|
| User chain rules (`chain/`) | an append-only, signed chain of links; what it says of devices, unlock slots, delegates, security keys, user-key versions | append a link (11 types), ask about a position (`EpochAt`, `DelegateAt`), check a pin | ChainRules, UserChain |
| Personal account on the server (`server/api.go`, `auth.go`, `db.go`) | chain; tables that mirror it (`devices`, `agent_slots`), sessions, key boxes, wrapped identities, vault versions | sign in, commit (links + boxes + identity + vault in one transaction), put vault, suspend, turn a slot off, log out, clean up | Account |
| Account client (`account/`) | the pinned chain, the user key, the account record | create, recover, unlock with an SSH agent, approve, rename, revoke, rotate, slots, sync | Account |
| Content sync (`account/sync.go`, `inventory.go`) | keyring, acknowledged base, pending edits, synced version, conflict | stage, pull and merge, push if unchanged, acknowledge, report or answer a conflict | VaultSync |
| Local record (`account/state.go`, `storage/`) | `account.toml` and the account lock | load, reload under the lock, save | LocalState |
| Daemon (`daemon/`) | event cursor, jobs, consent dialogs, guards | long poll, sync every minute or on an event | LocalState, VaultSync, Broker |
| Project chains (`team/`, `account/team.go`, `server/teamapi.go`) | chain of members, environments, machines, grants, exposures | about 20 link types, checked against the signer's own chain at a position | ProjectRules, Project |
| Rename journal (`envrename/`) | journal file, two sets of names | link, unlink, finish after a crash | EnvRename, in Project |
| Machine groups (`team/group.go`, `account/group.go`, `server/groupapi.go`) | group chain, group keys, grants, credentials | join, grant, rotate after a removal, read a project | GroupRules, Group |
| Organization chain (`team/org.go`, `server/orgchain.go`) | owners, admins, members, settings, approved KMS keys | policy links that restrict who gets into projects and groups; leavers taken out | OrgRules, Organization |
| Web changes (`server/changes.go`, `delegates.go`, `passkeys.go`) | proposed changes, delegate credentials | propose, sign, dismiss | Changes |
| Timed access (`server/timed.go`) | due times | grant until, revoke when due | Changes |
| Broker and guard sessions (`guard/`, `broker/`, `daemon/guard.go`) | session, open keys, consents, the turn at the dialog | read, ask, touch, lock, time out | Broker |
| Events (`server/server.go`) | event log, waiters | publish, wake | LocalState |
| Limiter, alerts (`server/server.go`, `alerts.go`) | rate-limit windows, alert outbox | admit, send and mark | not modelled |
| Device-grant sign-in (`server/auth.go`, `web.go`) | device codes, browser sessions | start, confirm, poll | not modelled |
| Environment rotation (`envrotate/`, `seal/`) | staged files, seal, keyring | stage, seal, cache, rename | not modelled |

How they interact. A client reads a *verified snapshot* of a chain (it is
replayed and compared with the pin), builds one request from it and sends it.
The server authenticates the request in a middleware, which reads the device
row and the session, and later runs the handler in one SQLite transaction (one
connection, so transactions are serial). The handler replays the chain rules
for every new link and mirrors them into its tables; what the client sends
besides links (boxes, wrapped identity, vault, slots, grants) is checked
against the state after all links. Commands and the daemon of one machine share
`account.toml` and the keyring through file locks. Project, group and
organization links name a position in the signer's personal chain, and are
checked with the keys and delegates in force there.

What makes it hard:

* *Interleaving.* Two devices build requests from the same snapshot; a device
  row is read in the middleware and used after other transactions; commands and
  the daemon each hold a copy of one file; a page, the server's housekeeping
  and a device each read a project, decide, and write later.
* *Old keys.* A revoked device still has every user key it had, and a removed
  member every environment key. Only the rules, and keys that are replaced,
  keep them out.
* *Failure.* A commit that was applied but not answered; a client that dies
  between the commit, the pin and the key; a rename that stops between two
  files; a server restored from a replica that lags.
* *Boundaries.* The rotation's own link under two keys, expiry of a slot at a
  link time that may lie a day before the previous one's, the position at which
  a delegate ends, an expiry timer that fires while the lock it lost to runs.

What makes each component correct, in short. *Chain*: who was revoked never
signs again, an admission rests on authority in force, slots and delegates end
with the key they were confirmed under, answers about the past do not change.
*Account*: exactly the active devices can read the vault; the tables repeat the
chain; only members write; pins never go back. *Sync*: no edit is lost, nothing
newer is undone, devices settle or say that they conflict. *Record*: no process
overwrites another's pins, and the record catches up. *Project*: a key in use
is given only to those who may have it, and who no longer may is listed until
the key is replaced; no key is lost in a rename. *Group*: the same for keys
that reach a project through a group. *Organization*: someone always governs
it, and leavers do not stay in its projects. *Changes*: what the tables
say happened did, nothing gives access unasked, and access for a while ends. *Broker*: nothing from before a
lock serves a read after it, and no read hangs.

## The modules

```
ChainRules              the rules of the personal chain: constants, State, Apply
  UserChain             devices that offer links with whatever keys they hold
    UserChainProofs     theorems about UserChain
    MCUserChain         TLC instance
  Account               the server and its clients, using the same rules
    AccountProofs       theorems about Account
    MCAccount           TLC instance, in two parts
LocalState              account.toml and events between processes of one machine
VaultSync               the vault's content between devices
KeySharing              abstract: what a shared project promises about keys
ProjectRules            the rules of a project chain
  ProjectRulesProofs    what each link does to keys, readers and admins
  Project               people, devices, grants, syncs and renames
                        (INSTANCEs EnvRename; implements KeySharing)
    ProjectProofs       theorems about Project, and the refinement
    MCProject           TLC instance
  Changes               pages, proposals and timed access on a project
    ChangesProofs       theorems about Changes
    MCChanges           TLC instance (two configurations)
  Group                 a group that reads a project (with GroupRules)
    GroupProofs         theorems about Group
    MCGroup             TLC instance (two configurations)
OrgRules                the rules of an organization chain
  Organization          its people, their devices, and its projects and groups
    OrganizationProofs  theorems about Organization
    MCDaemon            TLC instance of LocalState and Organization
Broker                  the daemon's broker, guard and dialogs on one machine
  MCBroker              TLC instance (two configurations)
DeviceProofs            theorems about LocalState, VaultSync and Broker
```

* **ChainRules**, **ProjectRules**, **GroupRules** and **OrgRules** have no
  state of their own. `State` is the Go `State`; `NextState` is `step`,
  `ValidNext` its error returns, one `ValidX`/`ApplyX` pair per link type. A
  hash is the prefix of links it commits to (or their number, where forks
  cannot arise); a signature is the set of keys that made it. That takes from
  the cryptography exactly what the code relies on: no collisions, no forgery.
  Names, labels, SSH and age encodings are left out.
* **UserChain** is the chain under the worst members: any device may offer any
  link the rules accept, signed with any key it holds, on the chain as it is.
  There is no server in it. `held[d]` grows as `rotate`, `boxFor`, `selfAdd`
  and `fromPhrase` hand keys out.
* **Account** is the honest program on top of the same rules: commands, the
  middleware, transactions, clients' local steps, crashes, lost requests, the
  replica.
* **LocalState** looks at one machine. The chain and vault are lengths, because
  the question is which copy of the record wins, and whether a wake-up for the
  daemon's long poll can be missed.
* **VaultSync** looks at content while everyone agrees on the user key. One
  environment's entry stands for the inventory: entries merge independently of
  each other, and the alias record of each key is kept.
* **Project** is the composition of a project chain, several personal chains
  (as a version and a set of delegates per position), devices' keyrings, grants
  and the rename journal of one checkout. **KeySharing** is what it promises.
* **Group** composes a group chain and a project chain: who can read the
  group's key can read the project's.
* **Changes** looks at the same project from the pages: proposals, the server's
  signing key, passkeys, and timed access.
* **Organization** keeps of a project or group only who is in it, since when
  and with which role.
* **Broker** has no chain: one owner, one machine, several reads.

The modules share the vault version, the pin, the record, `EpochAt` and
`DelegateAt`, and cut the system at these: `Account` treats the vault's content
as "the key it is sealed to", `VaultSync` treats the account as fixed, the
project modules treat a personal chain as what it answers about positions.

Operators whose comment starts with `Mutant:` are not part of the model. Each is
the code with one plausible bug in it; put in the place of the operator that
follows it, TLC finds the property named in `PROJECT.json` violated. They show
that every property can fail.

## Correspondence with the code

| TLA+ | Go |
|---|---|
| `ChainRules!State`, `Apply*` | `chain.State`, `apply`, `applyInit`, `applyDeviceAdd`, `applyRotate`, `applyDelegateAdd`, ... |
| `ChainRules!ValidNext`, `NextState` | `Next` (signature, sequence, hash, time) and `step` |
| `CheckPin`, `EpochAt`, `DelegateAt` | functions of the same names |
| `Account!db` | the tables of `server/db.go`: chain, devices (`rows`), sessions, boxes, identities, vault, agent_slots |
| `Account!reqs[..].step` | `sent`: on the wire; `authed`: past the middleware, with the row's status it read; an answered request is gone from the set |
| `Authenticate`, `Commit`, `VaultPut`, ... | `api` middleware, then one handler transaction |
| `cl[d].todo` | the local steps after a commit: `pin`, `installIdentity`, in the order the command does them |
| `LocalState!mem`, `dirty` | a process's `Account.State`; history of unlocked saves |
| `LocalState!waiter`, `wakes` | the channel that `apiEvents` took from `notifier.wait`; a stored change whose `wake` is still to come |
| `VaultSync!disk` | keyring, `base`, `pending`, `State.VaultVersion`, `State.Conflict` |
| `VaultSync!job` | where one `syncOnce` is, with what it pulled and what it will push |
| `Project!st`, `grants`, `holdings` | the verified project chain; `project_grants`; `project_holdings` |
| `Project!device`, `teams` | keyring of a person; `Held` and `Accepted` of their `teams.toml` |
| `Project!work` | where `TeamSync` is between two requests, with what its `teamCtx` holds: the project and the colleagues' chains as it saw them first, and its copy of `teams.toml` |
| `Project!End` | the end of `withTeam`: the copy is saved, or the device stops before it |
| `Project!checkout` | `rename-journal`, the files' names, `esec.toml`, of one checkout |
| `Project!Commit` | `projectCommit`: link, grants and mirror in one transaction |
| `Group!gs`, `kg`, `joins` | the verified group chain; `group_key_grants`; join requests of machines |
| `Group!sealed` | the project's grants to the group |
| `Changes!changes`, `timed` | rows of `changes` and `access_expiries` |
| `Changes!round`, `job` | what `expireAccess` read; what the admin's device or a page read |
| `Organization!org`, `ns`, `places` | the verified organization chain; the namespace; who is in its projects and groups |
| `Organization!job`, `seen`, `trust` | what a device is doing, the chain it read for that, and `OrgTrust` |
| `Broker!session`, `timers` | `broker.session`: locked, expiry, generation; the `time.AfterFunc` timers that run |
| `Broker!cache`, `turn`, `waiting` | the guarder's open keys, its one-place channel, its map of waiting reads |
| `Broker!grants`, `dialog` | `readConsent`: what was allowed for a session; a dialog is on the screen |

`given` (Project), `known` and `read` (Group), `ended` and `signed` (Changes),
`left` (Organization), `old` (Broker) and `dirty` (LocalState) are history: no
guard reads them. `old` of Broker tells three things apart: what a lock took
back (`basis`), a touch that was made when the guard was cleared and whose key
was kept after it (`touched`, `kept`), and the reads served from such a key
(`late`).

A handler's checks keep the order that matters: link rules, mirrors, boxes,
identity, vault, slots, and all of it or nothing (`CommitResult`). Every
`applyX` of the server, with its effect on rows and sessions, is part of the
commit step.

Where a command is one step and where it is not. A client's link names its
predecessor and the server takes it only on top of the chain as it is, so a
command that read an older chain changes nothing; in Project, Group and
Organization such a command is one step. What is sent without a link is not
guarded like this, and is split: each request of a project sync
(`work`), the keys a group sync sends (`FulfilRead`, `FulfilSend`), what a
device does in an organization's projects with the chain it read (`job`,
`seen`), the housekeeping's read and its writes (`round`).

Deliberate abstractions: a device has one public key (`PubOf`; several devices
may be given the same one); a person who approves compares fingerprints
correctly; one wrapped identity, the newest, stands for all the server keeps;
link times are small numbers with `Day` (`Hour` in projects, groups and
organizations) for the tolerated step back; the content of a box or a grant is
the key in it; a position in a personal chain is what `EpochAt` and
`DelegateAt` answer there.

## Runs

Each run is `tlc -config <cfg> <module>`. Times are of two workers.

| Run | Question | States | Time |
|---|---|---|---|
| `MCUserChain` | Whatever links devices offer with keys they hold, old ones included: do revoked devices stay out, do admissions rest on authority in force, do slots and delegates end with their key, and do answers about the past equal a replay? | 1.4 M | 2 min |
| `MCAccount` | Two devices create, recover, approve, rename, revoke, rotate, push, suspend and log out with requests in flight. One part restores the server once; the other has an unlock slot, time passing, and a crash or lost request. Who can read, do the tables say what the chain says, do pins only move forward, does a suspended device stay out, is no stale slot served, and does every device (without a restore) end up with the current key and the whole chain pinned? | 760 K | 3 min |
| `MCVaultSync` | Two devices, one newly joined, edit, stage and sync around a crash, a removal or a lost keyring, and a person may answer a conflict: is an edit lost, does a stale device undo a newer key (no removal, one sync cut short), do the devices settle or say that they conflict? | 1.33 M | 2 min |
| `MCVaultSyncRemove` | Does the server's entry never go back, removals included? It does: see below. | | seconds |
| `MCProject` | Two people and a machine share environments while members are removed, keys rotated, user keys replaced and a checkout renamed, with a crash at any step, also before `teams.toml` is saved: does the project implement KeySharing, is no key or file lost, do old user keys stay out, does every reader get the key? | 485 K | 3 min |
| `MCGroup` | A group with people, a token, a machine and a workload reads a project, while they join, leave, are blocked and destroyed: is everyone listed who may still have a key, and do all holders end up reading? | 171 K | 3 min |
| `MCGroupExposed` | Are those who left listed after every command? Not after a rename: see below. | | seconds |
| `MCChanges` | A page, the server's housekeeping and a device change the access of one member: do the tables say truly what happened (closed as signed, applied, proposed or gone only if so), does nothing unasked give anyone more, does the housekeeping get to every row that is due? | 710 K | 2 min |
| `MCChangesTimed` | Does what was proposed for access that was due wait until the access is gone or a person decides? It does not: see below. | | seconds |
| `MCDaemon` | Two subjects that share nothing, one after the other. A command, the daemon with its long poll, a login, and crashes over one `account.toml`: does no locked process write an older pin back, is no wake-up missed, and does the record catch up? People come and go in an organization, with passkeys, the server's key and clocks ahead: is it governed at all times, do only its people get in, and are leavers, and only they, taken out of its projects? | 252 K | 1 min |
| `MCBroker` | Reads ask, wait and touch while the owner locks, unlocks and sessions run out: does a lock revoke what was before it, save one touch that is not kept yet, does a session last, is every read answered? | 512 K | 2 min |
| `MCBrokerTouch` | Does a touch end with the lock? Not one that is kept after it: see below. | | seconds |

The properties, one sentence each, stand over their definitions. The ones worth
a reader's time first:

* `RevokedNeverSigns`, `CurrentKeyHolders` (UserChain): revocation is only as
  good as the rotation that follows it. A device revoked *without* a rotation
  may still sign; the chain has a link `device_revoke`, the client always
  follows it with a rotation, and these two say exactly where the line is.
* `AdmittedByAuthority` (UserChain): needs the state *before* the link, the link
  time and the slot's epoch together.
* `ReadersAreMembers` (Account): one commit carries parts of one rotation,
  built from a snapshot; all of the server's checks are needed.
* `PinsMoveForwardProperty` (Account): with the server restored from a replica,
  so two chains with a common prefix exist.
* `LockedKeepsPinsProperty`, `NoMissedWake` (LocalState): reload under the lock
  is what makes several processes safe, and registering before reading what
  makes the poll safe.
* `KeepsEditsProperty`, `NoStaleUndo`, `Settles` (VaultSync): the three-way
  merge, with acknowledgement in four writes.
* `SharesKeys` (Project): the refinement of KeySharing. It relates grants,
  exposures, removals and rotations of any order of links.
* `NothingLost` (Project): the rename of an environment over a keyring, a
  project chain, files and a marker, stopped anywhere and run again.
* `FormerHoldersExposed`, `ReadersListed` (Group): who left a group, and when,
  against when each key was set; two chains and their times.
* `OnlyLeaversTakenOutProperty`, `LeaversTakenOut` (Organization): devices act
  unasked on a chain they read, in places others changed since.
* `ClosedTruly`, `DueRowsClose` (Changes): three actors that read first and
  write later, over rows that name the same member. What becomes of a proposal
  is `ProposedAccessEnds`, which is violated.
* `ReadersGetKeys` (Project): keys reach readers only through other people's
  devices, whose notes are saved at the end of a sync or not at all.
* `LockRevokesProperty` (Broker): a lock takes two steps, and reads in every
  stage of four kinds of wait are under way. It also says how much a lock can
  miss; `TouchEndsWithLock`, that it misses nothing, is violated.

`CHECK_DEADLOCK FALSE` in every cfg: chains, commands, faults and fresh keys are
bounded, so a run may stop; the program does not.

## Bounds

Every bound is a constant whose comment says "bound", and a conjunct of a guard.

* *MCUserChain*: 2 devices, 3 user keys, 1 slot, 1 passkey delegate, 1 security
  key, 5 links, times 1 and 2 with `Day` 1. The shortest ways to break each
  property take 4 or 5 links: `init`, a first device, a second device or slot or
  delegate, its end, and a link after it. Three keys allow two rotations, so a
  key two epochs old exists. The proofs below are for any number.
* *MCAccount*: two parts, chosen at the start, with the union of the two as one
  state space. With a restore: 4 commands (each one or two links), 3 keys, one
  restore, and a clock that stands; `init` takes one command, and three are left
  to race. With an unlock slot, which would square that: 3 commands, 2 keys,
  clock 1..3 so a slot expires and a pending device times out, 1 fault (a crash
  or a lost request). `CatchUp` is about the second part: devices that pinned a
  link which a restore lost refuse the server's chain for good.
* *MCDaemon*, the record: 1 command, 1 daemon, 1 login, 3 starts, crashes and
  failed requests together, a chain of 2 and 2 vault versions, so that a pin
  can go back and two changes can follow each other. Two commands behave like
  one command twice, since the lock admits one at a time.
* *MCDaemon*, the organization: 2 people, a server delegate and a passkey of one
  of them, 1 place, 1 KMS name and key, clock 2, 4 commands, 2 user keys, and
  four starts (a free name, a reserved one, a personal tenant, a chain without
  owners). Adding, promoting or removing and adding again is 4 commands. The two
  models share no variable: a behaviour moves one, and the other stays at its
  first state, so the run is exactly the two, one beside the other.
* *MCVaultSync*: 2 devices of which one has just joined, 3 keys, 1 trouble
  (removal, lost keyring or crash), 1 answer of a person. *MCVaultSyncRemove*:
  1 device, 2 troubles: the counterexample needs the lost answer and the removal.
* *MCProject*: 2 people, 1 machine, 2 environment names, 2 keys, 4 links, 1
  event (a new user key, a crash or a lost answer), 1 file. Four links are a
  project, a member or machine, a removal or rename, and a rotation; two names
  and two keys are what a rename or a rotation confuses.
* *MCGroup*: 2 people, a token, a machine and a workload, 2 names, commits up to
  time 5, 1 event (a user key, a block or a join request). *MCGroupExposed*: 3
  names, 1 machine, no events; its counterexample needs a third name.
* *MCChanges*: one admin, one member, two delegates, 2 open proposals, 3 timed
  rows, 1 form (which ticks one of the two environments) or grant after the two
  rows there are at first, 1 crash or removed
  delegate. Two rows of one member are what confuses the housekeeping.
  *MCChangesTimed*: the same without forms; its counterexample needs the two rows
  and the removed delegate.
* *MCBroker*: 2 reads of one program, each local or forwarded; one unguarded and
  one session-guarded environment; clock 1, an hour and a session of 1 tick, 2
  locks or unlocks. The full queue (`MaxWaiting` 2) would need a third read; in
  the run only a read that is a duplicate is refused by it. *MCBrokerTouch*: the
  same with the guarded environment alone.

Symmetry is used for devices and user keys in `MCUserChain`, which has no
liveness. `MCAccount` has, where TLC's reduction is not sound; it takes one of
several equal choices itself (`Canonical`): the first device to sign in, and the
least of the user keys that are nowhere. No definition of either model tells
members of these sets apart.

## Fairness

* `Account!FairSpec`: the server handles some request while one waits
  (`WF` on `Handle`); a client that was answered takes its next local step
  (`ClientStep`); the daemon's loop syncs again (`Refresh`). `serverLoop` in
  `daemon/server.go` retries after errors and polls each minute, and all
  requests have timeouts. No user command is fair: nobody need ever approve.
  `MCAccount` states this for its second part, with less on requests (one is
  handled or gets lost): what holds under less fairness holds under more.
* `LocalState!RecordFairSpec`: the daemon runs on, and a command that holds the lock
  ends, because its requests time out (two minutes in `serverSync`). Logins are
  *not* fair: a person may leave the browser open for ever.
* `VaultSync!SyncFairSpec`: every device again and again is idle and again and again
  pulls. Each sync has a context with a timeout, and the daemon wakes up each
  minute. It is not assumed that an upload succeeds or wins its race.
* `Project!FairSpec`: each person's daemon syncs projects each minute and each
  request of a sync has a timeout (`WF` on a person's `Sync`). A rename that has
  begun holds the keyring's lock, and its requests time out: it goes on or dies
  (`WF` on `Rename` while it runs). Commands are not fair, and nobody need rerun
  a rename that died.
* `Group!FairSpec`: the same for sending group keys (`Fulfil`) and sealing the
  project's keys to a new group key (`Reseal`).
* `Changes!FairSpec`: the server's housekeeping runs every five minutes
  (`server.go:184`). Nobody need ever open a page or sign.
* `Organization!FairSpec`: a device syncs each minute, and what it does ends.
* `Broker!FairSpec`: a read that can go on does (`WF` on `Advance`), because
  every wait has a timeout: two minutes at a dialog, three for the turn and for
  the touch. The owner need do nothing.

## Proofs

TLC checks the properties on the instances above. `tlapm` (TLAPS, with Z3,
Zenon and LS4) checks the theorems below for every value of the constants: any
number of people, devices, machines, keys, environments, links and commands.
Each is `Spec => []...` of an inductive invariant, `Init => Inv` and
`Inv /\ [Next]_vars => Inv'`, with one lemma per link type or action, except
where the text says otherwise. Each invariant was also checked with TLC on the
instance of its run.

| Theorem | Module | States | Checked by run |
|---|---|---|---|
| `TypeCorrect` | UserChainProofs | the types of the chain and of the histories | |
| `RevokedDevicesNeverSign` | UserChainProofs | `RevokedNeverSigns` | `MCUserChain` |
| `CurrentKeyIsNotOnRevoked` | UserChainProofs | `CurrentKeyHolders` | `MCUserChain` |
| `ChainOnlyGrows` | UserChainProofs | `AppendOnlyProperty` | `MCUserChain` |
| `EpochsNameTheSigner` | UserChainProofs | `EpochMatchesSignature` | `MCUserChain` |
| `DevicesAreAdmitted` | UserChainProofs | `AdmittedByAuthority` | `MCUserChain` |
| `DelegatesAsReplayed` | UserChainProofs | `DelegateAtMatchesReplay` | `MCUserChain` |
| `WaysEndWithTheKey` | UserChainProofs | `WaysEndWithKey` | `MCUserChain` |
| `AlwaysIInv` | AccountProofs | the invariant of Account | |
| `ReadersStayMembers` | AccountProofs | `ReadersAreMembers` | `MCAccount` |
| `OnlyMembersEverWrite` | AccountProofs | `OnlyMembersWrite` | `MCAccount` |
| `NeverAnOrphan` | AccountProofs | `NeverOrphaned` | `MCAccount` |
| `RowsAlwaysMirrorChain` | AccountProofs | `RowsMirrorChain` | `MCAccount` |
| `SlotsAlwaysMirrorChain` | AccountProofs | `SlotsMirrorChain` | `MCAccount` |
| `PinsAlwaysMoveForward` | AccountProofs | `PinsMoveForwardProperty` | `MCAccount` |
| `SuspendedAlwaysStaysOut` | AccountProofs | `SuspendedStaysOutProperty` | `MCAccount` |
| `NoWakeIsMissed` | DeviceProofs | `NoMissedWake` | `MCDaemon` |
| `LockedKeepsThePins` | DeviceProofs | `LockedKeepsPinsProperty` | `MCDaemon` |
| `EditsHold` | DeviceProofs | the invariant behind `EditsAreKept` | |
| `EditsAreKept` | DeviceProofs | `KeepsEditsProperty` | `MCVaultSync` |
| `NothingNewerIsUndone` | DeviceProofs | `NoStaleUndo` | `MCVaultSync` |
| `HoldersStayKnown` | ProjectProofs | of every behaviour of KeySharing: whoever was given a key in use may have it or is a suspect | |
| `InvHolds` | ProjectProofs | the invariant of Project | |
| `KeysStayApart` | ProjectProofs | `KeysNameOneEnv` | `MCProject` |
| `AlwaysSomeAdmin` | ProjectProofs | a project never loses its last admin | |
| `OldKeysStayOut` | ProjectProofs | `OldKeysStayOutProperty` | `MCProject` |
| `ProjectSharesKeys` | ProjectProofs | `SharesKeys`, the refinement | `MCProject` |
| `NothingIsLost` | ProjectProofs | `NothingLost` | `MCProject` |
| `ReadersAreKnown` | ProjectProofs | `HoldersStayKnown`, carried to Project | |
| `ClosedTrulyHolds` | ChangesProofs | `ClosedTruly` | `MCChanges` |
| `NothingUnasked` | ChangesProofs | `UnaskedTakesAwayProperty` | `MCChanges` |
| `FormerHoldersStayListed` | GroupProofs | `FormerHoldersExposed` | `MCGroup` |
| `ReportsAreTrue` | GroupProofs | `ReportedKeysOpen` | `MCGroup` |
| `ReadersStayListed` | GroupProofs | `ReadersListed` | `MCGroup` |
| `AlwaysGoverned` | OrganizationProofs | `Governed` | `MCDaemon` |
| `OnlyMembersLetIn` | OrganizationProofs | `MembersOnlyProperty` | `MCDaemon` |
| `OnlyLeaversGo` | OrganizationProofs | `OnlyLeaversTakenOutProperty` | `MCDaemon` |
| `LockLeavesOneTouch` | DeviceProofs | `LockRevokesProperty` | `MCBroker` |
| `SessionsLast` | DeviceProofs | `SessionLastsProperty` | `MCBroker` |
| `WaitsAreKept` | DeviceProofs | the turn, the dialog and the queue belong to the reads that took them | |

### UserChainProofs

The properties about revocation are not inductive: that a revoked device cannot
sign rests on which keys it holds (`CurrentKeyHolders`), which in turn needs the
epochs to lie in the chain in order and no device before the first link. `IInv`
adds both. The accepted links are summed up by one relation, `Effect(s, l, n)`:
what a link may do to devices, to the current key and to the epochs, whatever its
type. `ApplyEffect` proves it for the eleven types, and `init` and rotations,
which draw keys, have more detailed lemmas.

The second half proves, from `IInv`, a second invariant `HInv`. `StepIsLink`
gives for each step the link and the finer relation `Moves`: what happens to
each device, slot, delegate and security key and to the history of what was
active. `DelegateAtMatchesReplay` compares an answer about every past position
with what a replay would have had there; a direct proof would need induction
over the positions. Instead `EpochsCover` carries the answer: for each
position, the epoch in force there (`InForce`), which an appended link leaves
as it is. `PositionsKept` says which positions the records name, and
`HistoryKept` that the history is as long as the chain.

Assumptions: `SetsAssumption`, `BoundsAssumption` (ChainRules) and
`TimesAssumption` (UserChain): kinds, credentials and public keys are
functions, limits are positive, times are natural numbers.

### AccountProofs

A commit is checked against the chain as it is when it is applied, and was made
from the chain as its client saw it; between the two other devices commit,
clients crash, and the server may be restored. `IInv` therefore speaks of five
things.

* *The database* (`DatabaseOK`, of `db` and of the replica alike): the tables
  agree with the chain (`Tables`), boxes hold keys of the chain, of the current
  version only for members (`BoxesOK`), and every member's box, the phrase's
  identity and the vault are there under the current key (`Stored`).
* *Requests on their way* (`RequestOK`): a commit follows a chain that is gone,
  or the one there is, and then it creates the account, adds one link under the
  current key, or rotates (`Creates`, `Adds`, `Rotates`). A new key in a request
  is nobody's yet and in no chain (`OwnKey`), and no two requests have the same.
* *Keys*: no revoked device has the current key, or a local step to come that
  would install it (`RevokedWithout`). Without the steps to come this is not
  inductive: a device may die between the commit and the keyring.
* *Pins* (`PinsOK`): a command saves at most one pin, which continues the one
  the device has, and a device waits for at most one answer.
* *The replica* knows no more revocations than the database. Then a restore
  gives nobody a key back.

A commit of one or two links is applied link by link, tables included. One lemma
per link type says what `Mirror` makes of the tables (`Mirror...Is`), one per
kind of commit what the transaction makes of the database (`CreatesCommit`,
`AddsCommit`, `RotateAlone`, `RevokeAndRotate`); they meet in `Committed`. Links
of a commit are counted, so no induction is needed. `CommitStep` then says what
this does to everyone else's requests and keys. Commands go through `SendStep`,
and everything a client does through `ClientMoves`.

`SuspendedAlwaysStaysOut` leaves out restores, which bring the row back as it
was. Any number of restores, clocks and commands is allowed. Assumptions:
`SetsAssumption`, `BoundsAssumption` and `AccountAssumption`: devices, keys,
slots and `None` are different, limits are positive, and a device has some name.

### DeviceProofs: LocalState

`Mutex` and `HolderIsNew` (a copy read under the lock is as new as the file,
unless there was a save without the lock) give `LockedKeepsThePins`.
`SaveCursor` writes one field under the lock without a reload of the copy, so
the cursor needs an argument of its own: it is the latest any process has
(`CursorIsLast`, from `CursorsKnown`). `NoMissedWake` needs `Registered`: while
the poll listens, the notifier has its channel. Assumption:
`ProcessesAssumption` (commands, logins and the daemon are different).

### DeviceProofs: VaultSync

*No edit is lost.* A new key exists only on the device whose edit drew it, in
the keyring, in what is pending or in what it is about to push, until its push
succeeds. `EditsInv` says so: a key the server never had is alive on one device
at most, and while it is, no base, no pending edit, no inventory that was pulled
or is about to be pushed and not the server's marks it removed (`Dropped`). The
merge of `account/sync.go` then takes the key from the device's own side,
whatever else it combines it with. `KeepsEditsProperty` follows for every step
of every sync, whoever else pushes and wherever it is cut short: a key the server
never had goes only by the device's own next edit or removal, or by the answer
a person gives to a conflict.

*Nothing newer is undone.* `UndoInv` holds under `Calm` (no entry removed or
lost, no conflict answered, at most one sync cut short), because each of these
can put an older key on top; see [what the models
found](#what-the-models-found). In it, the versions of alias records climb from
a device's base to what it pulled, to what it sends, to what the server has
(`Ordered`); a vault version that is still the server's names what the device
saw there (`Current`); and where the base is what the server has, a keyring or
a pending edit that differs from it is a key the server never had (`Newer`,
`PendingNewer`). So a push that wins its race sends what the server has, or a
new key. Before any crash, what is pending was not acknowledged yet
(`Uncrashed`); without that the step that a crash cuts short is not covered.
Assumption: `ValuesAssumption` (there is a first key, `None` and `Lost` are
neither keys nor inventories).

### DeviceProofs: Broker

The lock makes everything older void: `OldIsVoid` says that open keys from
before the last lock are gone and that each kept consent is of an earlier
generation or has ended, and `ReadsOfEpochs` that a read which a lock overtook
belongs to an earlier generation, wherever it waits. The lock misses a touch
that was made and whose key is not kept yet; `MissedOnce` says that these are
of reads which still have the key in hand, so, as `WaitsAreKept` gives one turn
to one read, one at most, and `LockLeavesOneTouch` that it opens one
environment's key at most. `TimersOfSessions` says that every timer is of this
session or of one before it, so only the newest can end the session. Each step
of a read is first shown to be a move of that read (`Moves`). `WaitsAreKept` is
a second, simpler invariant. Assumption: `BrokerAssumption`.

### KeySharing, ProjectRulesProofs and ProjectProofs

`ProjectRulesProofs` has one lemma per link type of a project chain. Together
they give `LinkEffect`: the chain stays well-formed with an admin, no key comes
back (`Keeps`), and whoever may read a key and no longer may is listed there.

Nothing below rests on `teams.toml`: what a device loses of it when it stops
changes which keys it takes, never which it may have.

The invariant of `Project` is `StateOK(st) /\ ChainsOK /\ KeysOK /\ KeysFromOne
/\ CheckoutOK`. The chain alone does not know that a new key is on no other
device; `KeysFromOne` adds that a key which was not published is in the keyring
of the only person who was ever given it. Then `ProjectSharesKeys` follows: the
initial states of Project are initial states of KeySharing, and each of its
steps (links, grants, syncs, each write of a rename, crashes) is a step of
KeySharing or leaves its variables. `HoldersStayKnown` is a theorem about
KeySharing alone, `Sharing!Spec => []Sharing!HoldersKnown`: its proof uses
nothing of a project. `ReadersAreKnown` carries it through the refinement.

`NothingIsLost` needs a second invariant, `RenameOK`. While there is a journal,
the only rename in the vault is the planned one, and the keyring has the key
under the old name, or under the new one if the vault renamed it (`Underway`);
without one, nothing was begun or all was moved. It also needs that a renamed
name has no key again (`RenamedGone`): then neither an import nor a new key
fills the entry that was emptied. A run of writes is a recursive function in the
model, for any number of files. `AfterIs` shows that it is what its recursion
says, and `AfterKeeps`, by induction over the writes, that a journal goes only
after the last of them. The library's induction theorems cannot be used; `AllNat`
is induction over a *set* of numbers, from the least number left out, which needs
no operator as a parameter.

Assumptions: `HoldersAssumption` (people, machines and groups are different),
`PeopleAssumption`, `KeysAssumption` (any set of keys has a first one, so the
next new key is defined), `ScopesAssumption`, `HourAssumption`, `FilesAssumption`
(a natural number of files), and that `NoKey`, `NoEnv`, `NoDelegate` and
`NoJournal` are none of the keys, names, delegates and journals.

### ChangesProofs

The housekeeping, the page and the device each carry something from the step
that read it to the step that writes it. `Inv` says what stays true of that
while the others move: the rows a round is at are due; what it is about to
sign or propose takes the row's access away, from whatever the member reads by
then; what it is about to write of the row is so (`RoundOK`); and a proposal
that a device or a page is about to close as applied was signed (`JobOK`).
Rows and proposals stay in their tables, and keep what they say but for their
status (`Grows`), so what was true of them is true later. That the access
was gone is kept in the history `ended`, since it may be given again before the
row is closed.

`ClosedTrulyHolds` is a part of `Inv`. `NothingUnasked` needs `Inv` and what a
link does to the member: `LinkMakes` says, with the lemmas of
ProjectRulesProofs, that an accepted link leaves them reading what it names;
`ServerTakesAway` that the server's key gets no link past `ProjectScope` that
names more than they read at that moment, though it was built earlier.
`changes --yes` (`NarrowUnasked`) judges again on the chain it signs from.
Without that, the property is false (the mutant `SignJudged`).

Assumptions: `DelegatesAssumption` (the two delegates exist, the server's key
has the scope `remove`), `ChangesAssumption` (an admin and another person, a key
for each of the first environments, finitely many first rows) and those of
ProjectRules.

### GroupProofs

Two relations hold over any number of links: `Becomes(s, t)` says that either
the version of the group key is the same and whoever left is exposed or
destroyed, or there is a new version; `SameEnc`, that a credential's key changes
only if the link replaces it. One lemma per link type (`...Gives`) proves both.

`FormerHoldersExposed` needs `KnownVersions`: nobody has a version that there is
not yet, so a new version is held by nobody but those it is sealed to.
`ReportedKeysOpen` needs `GrantsStand`: what the server keeps are grants of the
current version, by someone who may still grant it, to someone in the group,
sealed to the key they have, though signers leave, tokens enroll machines and
are removed, and workloads get new keys between a grant and the next.
Destroyed credentials stay destroyed (`DestroyedAreGone`).

`ReadersListed` relates two chains: who has the key of an environment is known
from the group's chain, and since when from the project's. Its invariant,
`ReadersCounted`, says of whoever has read a key in use that the group is
exposed there, or that the group reads the environment and they are in the
group, destroyed, or left no earlier than `From`: the later of the time the key
was set and the time the group was granted the name, and only the first of the
two where a rename moved the name away from that time. `Carries` says that a
link of the group keeps such a person counted from any time up to its own, and
`Follows` that a link of the project keeps whoever was counted with a key
counted with it, under the name it has afterwards and from no later a time.
`Follows` is proved of the three links of the project that the model takes
(`GroupSetFollows`, `EnvSetFollows`, `EnvRenameFollows`), with
ProjectRulesProofs' lemmas on what a link leaves true of the project's state.

Assumptions: `CredsAssumption` (tokens, machines, workloads and people are
different), `TokenExpiresAssumption`, and `GroupAssumption` (the creator, another
person and the group exist, and there is a key for each environment that the
project begins with).

### OrganizationProofs

`Chain(org)` says that roles are apart, that somebody owns it, and that each
entry of someone who lost a role names the link of the removal. `LossesKnown`
ties those entries to the history `left` that the properties speak of, also for
the older chains that devices have read (`seen`): a chain that was read is one
the organization had. An earlier form of `OnlyLeaversTakenOut` could not be
proved, and TLC then found it false with more commands: someone who is promoted
loses the member's role at a time that may lie ahead of a later removal's, and
is compared with that. It was restated; see [what the models
found](#what-the-models-found) for what is left of it. Assumptions: on `Creator`,
`Starts`, `Choices`, clocks, `MaxKey`, delegates, `NoKey` and `Hour`, in
Organization and OrgRules.

### Only model-checked

* What needs fairness: `CatchUp`, `RecordCatchesUp`, `Settles`,
  `ReadersGetKeys`, `HoldersRead`, `DueRowsClose`, `LeaversTakenOut`,
  `ReadsAnswered`. TLAPS has no liveness rules here.
* The four runs that expect a violation.

## What the models found

* **A removed name can bring an old key back** (`MCVaultSyncRemove`). After an
  upload whose answer was lost, `base` still names the key before. If the name
  is then renamed away, what is staged is compared with the pending inventory,
  only the newer key's alias is marked removed, and the older key comes back
  from `base` and is pushed. `docs/design/vault-server.md:784` gives "a stale
  device undo a key rotation" as what the merge is to prevent.
* **Two syncs cut short at the same place can undo a newer key.** The proof of
  `NoStaleUndo` needs that at most one sync is cut short; the run has one crash,
  and there is no run for this case. A sync writes the
  keyring, then `base`, then clears `pending` (`account/sync.go:78-118`,
  `:186-196`). A crash after `base` leaves `pending` equal to it. If another
  device then pushes a newer key, and this one syncs without staging (a
  revocation, a rotation or a new cache policy calls `sync` alone) and crashes
  at the same place again, `base` is the newer key and `pending` still the
  older one; the next such sync merges it as an edit and pushes it over the
  newer key.
* **Who left a group is no longer listed after a rename** (`MCGroupExposed`).
  `GroupExposures` compares a removal with the later of the time the key was
  set and the time the group was granted the environment (`EnvSince`). A rename
  (`renameEnv`) leaves `EnvSince` under the old name, and the next `group_set`
  (`team.go:1033`) gives the new name its own time. A member who fetched the
  key and left before is then not listed, though the key is the same.
  `team/group.go:983-985` says they are. `ReadersListed` holds with this one
  case left out.
* **Timed access may stay when two rows are due** (`MCChangesTimed`). Where the
  server may not sign, a row that is due ends in a proposal with the whole list
  of environments that is left. A second row of the same member makes its list
  from what they read now, and its proposal dismisses the first (`changes.go:272`).
  Both rows are closed as proposed, so the housekeeping does not come back to
  them; the first row's environment stays, and no change waits to take it away.
  `timed.go:5-10` says the removal waits "for their passkey or device". That
  every row that is due is closed (`DueRowsClose`), and as what happened to it
  (`ClosedTruly`), holds.
* **A touch can outlive a lock** (`MCBrokerTouch`). `Lock` ends the broker's
  session and clears the guard's keys, and a read that waits for its touch goes
  on. If the touch was made before and `keep` (`daemon/guard.go:202-210`) runs
  after the keys were cleared, the key is open again, until the broker's next
  session ends or for an hour, and reads that begin after the lock are served
  from it without a dialog. `guard.go:37-39` and `README.md:1779-1780` say it is open until
  the lock. The overtaken read itself is refused, and with one turn at the key
  it is one environment's key: both are in `LockRevokes` and proved.

## Weak points

Met while modelling, and not the subject of a run. Each is a place where the
code does less than a reader might expect; the properties above are stated so
that they hold in spite of it.

*Account and record*
* A suspended device's request that is already past the middleware is still
  applied (`auth.go:164-197`, against "at once" in `api.go:257`); likewise for
  the other handlers that take the row from the context (`api.go:405`, `:587`).
  A revocation has no such window: it rotates the user key, and the chain
  refuses the old signature.
* Logins and `index on|off` save a copy of `account.toml` read without the lock
  (`login.go:131`) and may move a pin back until the next sync, against
  `account.go:76-78`. `LockedKeepsPins` leaves out what follows such a save.

*Projects and timed access*
* `grantPerson` sends a list of environments computed from an earlier read.
* `closeChange` reads that a change is open outside its transaction
  (`changes.go:198`), and so do the closing of access requests and `expireAccess`,
  which may overwrite a cancellation that came meanwhile.
* The expirer's list in memory meets a renamed environment: the row is closed
  as gone.
* An environment's rename journal cannot be finished when the key was replaced
  before the rerun (`account/envrename.go:18-22`, `cli/envrename.go:59-61`).
* A device that stops between its import and the end of the sync has the key,
  and its grant is acknowledged, but `teams.toml` is saved once, at the end
  (`account/team.go:174`, `:459-468`). It then does not know the key as one it
  got from the project: the next key of the environment is reported as a
  conflict, although it is "one this device got from or gave to the project"
  (`:1206-1207`), and a project whose first keys were just accepted is asked for
  again. `ReadersGetKeys` counts both as told to the person.
* `PublishEnv` whose answer was lost never records that the key is held
  (`account/team.go:887`, cf. `:54`).

*Groups*
* `afterRemovals` (`account/team.go:333-346`) dates a key up to ten minutes
  ahead and looks at machines and tokens only.
* `fulfilGroup` counts members among those who have the key, against
  `account/group.go:979-982`.
* The check for a duplicate join, and the checks of suspension and enrolment,
  are made outside the transaction that writes.
* `webGroupRemove` leaves the block in place when the proposal fails
  (`grouppages.go:863-873`).

*Organizations*
* A device whose clock is ahead adds someone "after" they left, and they stay
  (`account/org.go:487`, cf. `team/org.go:10-11`). `LeaversTakenOut` goes by the
  times of links, so it does not see this.
* Someone who left and came back is still taken out of places by a device that
  read the chain in between; `OnlyLeaversTakenOut` asks only whether they ever
  left after they were added.
* Making a member of an admin takes two links, and between them other devices
  may take the person out of places.

## What is left out

*Everywhere*: cryptography and encodings (`ukey`, `devicekey`, `vaultfile`,
`envelope`'s JSON) are what they promise; fingerprint words, recovery phrases
and prompts are compared by a person, so a substituted device key is outside
these models; rate limits, audit logs, sizes, reasons, names and labels.

*Account*: clocks that differ (the server takes a link time up to ten minutes
ahead of its own; here there is one clock, and the chain rules are checked with
any times in UserChain); the vault's retention of old versions (only the newest is current,
and the delete is in the same transaction); the signed index; how a session
comes about (`SignIn` is one step with the outcome of the device grant).

*VaultSync*: guards, secret files, cache policies, per-key tombstones, and
keyring entries under a key's own name, which never change. Signatures of the
vault by a key that is not current are Account's subject.

*LocalState*: restarts of the server; one wake-up may stand for several changes.

*Project*: one device per person, which does one operation at a time; grants
with the same content are one; updates that change nothing; accepted invites
and moved projects. The file part of a rename is a step per link, unlink or
write. `MaxEvents` bounds new user keys, crashes and lost answers together.

*Group*: one project, administered by one person whose device has its keys;
OIDC checks, the expiry of join requests, members added on a page.

*Changes*: changes of accounts, groups and organizations; requests, invites,
leaving, renames, promotion, archived projects. A form is one request.

*Organization*: handles and profiles, groups named by a KMS key, workloads,
server admins' policies, reviews, proposals that wait for a signature, removals
by hand in places, limits on how many a person may create.

*Broker*: files, seals and `esec.toml` agree and do not change; the owner stays
signed in; a policy can be reloaded at any moment, so what it says is chosen
where it is asked; listing and inspecting; a restart of the daemon, which
begins locked and empty.

Not modelled at all, with the reason: KMS backends, web pages' layout, the
signer page, the macOS app, command-line handling and installation have no
protocol state of their own. The sign-in codes, the limiter, the alert outbox,
environment rotation and machine enrolment do, and are on the plan.

## Plan

In this order:

1. A specification of an account's log that `Account` implements, so that what
   a commit of several links does is one abstract step.
2. Models of the parts left: SignIn (device codes and browser sessions),
   Limiter and Outbox (`server.go`, `alerts.go`), EnvRotate.
