------------------------------- MODULE Broker -------------------------------
(***************************************************************************)
(* The daemon's broker on one machine (broker/, daemon/consent.go,         *)
(* daemon/guard.go).  Programs ask it, one connection each, to decrypt     *)
(* files.  A read of an unguarded environment needs the person's consent,  *)
(* once or for an hour, or a policy that allows it while the broker is     *)
(* unlocked.  A guarded environment needs a dialog and a touch of a        *)
(* security key; the key of a session-guarded one then stays open for a    *)
(* while.  Meanwhile the owner locks, unlocks and reloads the policy, and  *)
(* sessions run out.                                                       *)
(*                                                                         *)
(* Reads are goroutines; a step here is what one does between two waits or *)
(* under one mutex.  Simplifications: one owner and one checkout, whose    *)
(* files, seals and esec.toml agree and do not change; the owner stays     *)
(* signed in (RequireLogin); audit entries are written; what a dialog      *)
(* shows, list_envs and inspections, which serve no secret, are left out.  *)
(* The policy can be reloaded at any moment, so what it says of a read is  *)
(* chosen where the read asks it.                                          *)
(* A dialog that was given up may still be on the screen: its result goes  *)
(* to a channel that nobody reads.                                         *)
(***************************************************************************)
EXTENDS Integers, FiniteSets

CONSTANTS
    Read,        \* connections of one program: a read at a time on each
    Env,         \* environments of the checkout
    GuardOf,     \* how each is guarded: "none", "session" or "touch"
    MaxWaiting,  \* most guarded reads that wait at a time
    Hour,        \* clock ticks a consent, or a key open without a session, lasts
    TTLs,        \* for how long an owner unlocks
    MaxNow,      \* bound: the clock stops here
    MaxEpoch     \* bound: locks and unlocks

ASSUME BrokerAssumption ==
    /\ GuardOf \in [Env -> {"none", "session", "touch"}]
    /\ MaxWaiting \in Nat \ {0} /\ Hour \in Nat \ {0}
    /\ TTLs \subseteq Nat \ {0}

VARIABLES
    now,
    session,     \* the broker's: locked, when it expires, lock generation
    timers,      \* running expiry timers: the generation each is for, its time
    locking,     \* a lock request is between Broker.Lock and guard.clear
    cache,       \* until when the guard holds each environment's key open
    grants,      \* consent for a session, per environment
    turn,        \* the guard's turn at the dialog is taken
    dialog,      \* the consent dialog is taken
    waiting,     \* guarded reads that wait for their turn or have it
    rd,          \* where each read is
    old          \* history: what is from before the last lock, what rests on
                 \* it, and the reads that a lock overtook

vars == <<now, session, timers, locking, cache, grants, turn, dialog,
          waiting, rd, old>>
control == <<now, session, timers, locking>>

Idle == [pc |-> "idle"]

Init ==
    /\ now = 0
    /\ session = [locked |-> TRUE, expires |-> 0, epoch |-> 0]
    /\ timers = {}
    /\ locking = FALSE
    /\ cache = [e \in Env |-> 0]
    /\ grants = [e \in Env |-> [until |-> 0, epoch |-> 0]]
    /\ turn = FALSE /\ dialog = FALSE
    /\ waiting = {}
    /\ rd = [r \in Read |-> Idle]
    /\ old = [reads |-> {}, overtaken |-> {}, basis |-> {}, late |-> {},
              cache |-> Env, touched |-> {}, kept |-> {}, grants |-> Env,
              session |-> TRUE]

-----------------------------------------------------------------------------
(* The owner and the clock.                                                *)

Unlocked == ~session.locked /\ now < session.expires

\* Stop does not catch a timer that has fired and waits for the mutex.
Stopped(kept) == kept \subseteq {t \in timers : t.at <= now}

Unlock(ttl) ==
    /\ session.epoch < MaxEpoch
    /\ session' = [locked |-> FALSE, expires |-> now + ttl, epoch |-> session.epoch + 1]
    /\ \E kept \in SUBSET timers :
         /\ Stopped(kept)
         /\ timers' = kept \union {[epoch |-> session.epoch + 1, at |-> now + ttl]}
    /\ old' = [old EXCEPT !.session = FALSE]
    /\ UNCHANGED <<now, locking, cache, grants, turn, dialog, waiting, rd>>

InFlight == {r \in Read : rd[r] # Idle}

\* A lock request ends the session first, and then has the guard forget.
LockBroker ==
    /\ ~locking
    /\ session.epoch < MaxEpoch
    /\ locking' = TRUE
    /\ session' = [locked |-> TRUE, expires |-> 0, epoch |-> session.epoch + 1]
    /\ \E kept \in SUBSET timers : Stopped(kept) /\ timers' = kept
    /\ old' = [old EXCEPT !.overtaken = @ \union InFlight, !.grants = Env, !.session = TRUE]
    /\ UNCHANGED <<now, cache, grants, turn, dialog, waiting, rd>>

ClearGuard ==
    /\ locking
    /\ locking' = FALSE
    /\ cache' = [e \in Env |-> 0]
    /\ old' = [old EXCEPT !.reads = InFlight, !.basis = {}, !.late = {}, !.cache = Env,
                          !.touched = {r \in Read : rd[r].pc = "keep"}, !.kept = {}]
    /\ UNCHANGED <<now, session, timers, grants, turn, dialog, waiting, rd>>

\* Mutant: a timer clears the keys of whichever session there is.
ExpiresAny(t) == t \in timers

\* An expiry timer clears the keys of the session it was set for.
Expires(t) == t.epoch = session.epoch

Fire(t) ==
    /\ t \in timers /\ t.at <= now
    /\ timers' = timers \ {t}
    /\ session' = IF Expires(t) THEN [session EXCEPT !.locked = TRUE, !.expires = 0]
                                ELSE session
    /\ UNCHANGED <<now, locking, cache, grants, turn, dialog, waiting, rd, old>>

Tick ==
    /\ now < MaxNow
    /\ now' = now + 1
    /\ UNCHANGED <<session, timers, locking, cache, grants, turn, dialog, waiting, rd, old>>

-----------------------------------------------------------------------------
(* A read.                                                                 *)

\* Reads of one environment by one program in one way are the same question.
Ask(r) == <<rd[r].env, rd[r].forwarded>>

At(r, pc) == rd' = [rd EXCEPT ![r].pc = pc]

\* r has the key; what is left is to decrypt the file.
Got(r) == rd' = [rd EXCEPT ![r] = [pc |-> "have", epoch |-> @.epoch]]

Answered(r) ==
    /\ rd' = [rd EXCEPT ![r] = Idle]
    /\ old' = [old EXCEPT !.reads = @ \ {r}, !.overtaken = @ \ {r}, !.basis = @ \ {r},
                          !.late = @ \ {r}]

\* What lets r have the key is from before the last lock: what the lock took
\* back, or a key that a touch from before it kept after it; or it is neither.
\* (A read that is from before the lock itself is not looked at.)
Relying(reads, r, is) == IF is /\ r \notin old.reads THEN reads \union {r} ELSE reads \ {r}
RestsOn(r, before, late) ==
    old' = [old EXCEPT !.basis = Relying(@, r, before), !.late = Relying(@, r, late)]
Rests(r, before) == RestsOn(r, before, FALSE)
RestsOnKey(r) == RestsOn(r, rd[r].env \in old.cache, rd[r].env \in old.kept)

\* The request is resolved to the checkout's own environment and bound to the
\* lock generation.  From other machines (esec vault forward) only guarded keys
\* are read.
Begin(r, e, forwarded) ==
    /\ rd[r] = Idle
    /\ forwarded => GuardOf[e] # "none"
    /\ rd' = [rd EXCEPT ![r] = [pc |-> "check", env |-> e, forwarded |-> forwarded,
                                epoch |-> session.epoch]]
    /\ UNCHANGED <<control, cache, grants, turn, dialog, waiting, old>>

\* The policy denies the environment.
Denied(r) ==
    /\ rd[r].pc = "check"
    /\ Answered(r)
    /\ UNCHANGED <<control, cache, grants, turn, dialog, waiting>>

(* Guarded reads (guarder.Key).                                            *)

UsesSession(r) == ~rd[r].forwarded /\ GuardOf[rd[r].env] = "session"
Cached(r) == UsesSession(r) /\ now < cache[rd[r].env]
\* Looking finds a key that ran out and forgets it.
Look(r) == cache' = IF UsesSession(r) /\ ~Cached(r) THEN [cache EXCEPT ![rd[r].env] = 0]
                                                    ELSE cache

AskGuard(r) ==
    /\ rd[r].pc = "check"
    /\ GuardOf[rd[r].env] # "none"
    /\ Look(r)
    /\ \/ /\ Cached(r)
          /\ Got(r) /\ RestsOnKey(r)
          /\ UNCHANGED waiting
       \/ /\ ~Cached(r)
          /\ Ask(r) \in waiting \/ Cardinality(waiting) >= MaxWaiting
          /\ Answered(r)
          /\ UNCHANGED waiting
       \/ /\ ~Cached(r)
          /\ Ask(r) \notin waiting /\ Cardinality(waiting) < MaxWaiting
          /\ waiting' = waiting \union {Ask(r)}
          /\ At(r, "queued")
          /\ UNCHANGED old
    /\ UNCHANGED <<control, grants, turn, dialog>>

\* With the turn r looks again, since whoever had it may have opened the key,
\* and then gives it back at once.
TakeTurn(r) ==
    /\ rd[r].pc = "queued"
    /\ ~turn
    /\ Look(r)
    /\ IF Cached(r)
         THEN /\ Got(r) /\ RestsOnKey(r)
              /\ waiting' = waiting \ {Ask(r)}
              /\ UNCHANGED turn
         ELSE At(r, "open") /\ turn' = TRUE /\ UNCHANGED <<waiting, old>>
    /\ UNCHANGED <<control, grants, dialog>>

TurnTimeout(r) ==
    /\ rd[r].pc = "queued"
    /\ waiting' = waiting \ {Ask(r)}
    /\ Answered(r)
    /\ UNCHANGED <<control, cache, grants, turn, dialog>>

\* Whoever leaves Key gives its turn back; taking from the empty channel would
\* wait for ever, so who gave it back before does not do it again (Released).
Release == turn /\ turn' = FALSE
\* Mutant: the deferred release does not know of the first one.
ReleasedTwice == turn /\ turn' = FALSE

Released == UNCHANGED turn

\* The person allows the read and touches the key.  A session's key is to stay
\* open until the broker's session ends, or for an hour.
Touched(r) ==
    /\ rd[r].pc = "open"
    /\ IF UsesSession(r)
         THEN /\ rd' = [rd EXCEPT ![r] =
                   [pc |-> "keep", env |-> @.env, forwarded |-> @.forwarded, epoch |-> @.epoch,
                    until |-> IF Unlocked THEN session.expires ELSE now + Hour]]
              /\ UNCHANGED <<turn, waiting>>
         ELSE Got(r) /\ Release /\ waiting' = waiting \ {Ask(r)}
    /\ Rests(r, FALSE)
    /\ UNCHANGED <<control, cache, grants, dialog>>

Keep(r) ==
    /\ rd[r].pc = "keep"
    /\ cache' = [cache EXCEPT ![rd[r].env] = rd[r].until]
    /\ old' = [old EXCEPT !.cache = @ \ {rd[r].env},
                          !.kept = IF r \in old.touched THEN @ \union {rd[r].env}
                                                        ELSE @ \ {rd[r].env},
                          !.touched = @ \ {r}]
    /\ Got(r) /\ Release /\ waiting' = waiting \ {Ask(r)}
    /\ UNCHANGED <<control, grants, dialog>>

NotTouched(r) ==
    /\ rd[r].pc = "open"
    /\ Answered(r) /\ Release /\ waiting' = waiting \ {Ask(r)}
    /\ UNCHANGED <<control, cache, grants, dialog>>

\* Whoever hangs at the dialog or the key gives the turn away at once, and
\* then leaves.
OpenTimeout(r) ==
    /\ rd[r].pc = "open"
    /\ Release
    /\ At(r, "late")
    /\ UNCHANGED <<control, cache, grants, dialog, waiting, old>>

LeaveLate(r) ==
    /\ rd[r].pc = "late"
    /\ Answered(r) /\ Released /\ waiting' = waiting \ {Ask(r)}
    /\ UNCHANGED <<control, cache, grants, dialog>>

(* Other reads (authorizeScoped and readConsent.ask).                      *)

\* Mutant: a grant is good for an hour, whatever was locked since.
GrantedForAnHour(r) == now < grants[rd[r].env].until

Granted(r) == LET g == grants[rd[r].env] IN g.epoch = session.epoch /\ now < g.until

\* A configured policy allows the read without asking, while unlocked.
Allowed(r) ==
    /\ rd[r].pc = "check"
    /\ GuardOf[rd[r].env] = "none"
    /\ Unlocked
    /\ Got(r) /\ Rests(r, old.session)
    /\ UNCHANGED <<control, cache, grants, turn, dialog, waiting>>

AskConsent(r) ==
    /\ rd[r].pc = "check"
    /\ GuardOf[rd[r].env] = "none"
    /\ \/ /\ Granted(r)
          /\ Got(r) /\ Rests(r, rd[r].env \in old.grants)
          /\ UNCHANGED dialog
       \/ /\ ~Granted(r) /\ ~dialog
          /\ dialog' = TRUE
          /\ rd' = [rd EXCEPT ![r] = [pc |-> "asking", env |-> @.env, forwarded |-> @.forwarded,
                                       epoch |-> @.epoch, asked |-> session.epoch]]
          /\ UNCHANGED old
       \/ /\ ~Granted(r) /\ dialog
          /\ Answered(r)
          /\ UNCHANGED dialog
    /\ UNCHANGED <<control, cache, grants, turn, waiting>>

\* The person answers, cancels, or lets the dialog time out.
Answer(r, how) ==
    /\ rd[r].pc = "asking"
    /\ dialog' = FALSE
    /\ IF how = "cancel" \/ rd[r].asked # session.epoch
         THEN Answered(r) /\ UNCHANGED grants
         ELSE /\ Got(r)
              /\ IF how = "session"
                   THEN /\ grants' = [grants EXCEPT ![rd[r].env] =
                                        [until |-> now + Hour, epoch |-> rd[r].asked]]
                        /\ old' = [old EXCEPT !.grants = @ \ {rd[r].env}, !.basis = @ \ {r},
                                             !.late = @ \ {r}]
                   ELSE Rests(r, FALSE) /\ UNCHANGED grants
    /\ UNCHANGED <<control, cache, turn, waiting>>

(* With the key the file is decrypted, unless it does not fit.  Nothing is *)
(* served if the broker was locked or unlocked since the read began.       *)

MayServe(r) == rd[r].epoch = session.epoch

Serve(r) ==
    /\ rd[r].pc = "have"
    /\ MayServe(r)
    /\ Answered(r)
    /\ UNCHANGED <<control, cache, grants, turn, dialog, waiting>>

Refuse(r) ==
    /\ rd[r].pc = "have"
    /\ Answered(r)
    /\ UNCHANGED <<control, cache, grants, turn, dialog, waiting>>

Advance(r) ==
    \/ Denied(r)
    \/ AskGuard(r) \/ TakeTurn(r) \/ TurnTimeout(r)
    \/ Touched(r) \/ NotTouched(r) \/ OpenTimeout(r) \/ LeaveLate(r) \/ Keep(r)
    \/ Allowed(r) \/ AskConsent(r) \/ \E how \in {"once", "session", "cancel"} : Answer(r, how)
    \/ Serve(r) \/ Refuse(r)

Next ==
    \/ \E ttl \in TTLs : Unlock(ttl)
    \/ LockBroker \/ ClearGuard
    \/ \E t \in timers : Fire(t)
    \/ Tick
    \/ \E r \in Read : (\E e \in Env, forwarded \in BOOLEAN : Begin(r, e, forwarded)) \/ Advance(r)

Spec == Init /\ [][Next]_vars

\* Every wait of a read has a timeout: two minutes at a dialog, three for the
\* turn and for the touch.
Fairness == \A r \in Read : WF_vars(Advance(r))
FairSpec == Spec /\ Fairness

-----------------------------------------------------------------------------
\* "Locking the vault [...] revokes session consent" and has the guard forget
\* its keys: a lock refuses every read it overtakes, and a read that begins
\* after it is served neither for an answer, an unlock or a key from before it.
\* What the lock misses is a touch that was made and whose key is not kept yet;
\* with one turn at the key that is one environment's.
LockRevokes ==
    /\ \A r \in Read : Serve(r) => r \notin old.overtaken /\ r \notin old.basis
    /\ \A e, f \in old.kept : e = f
LockRevokesProperty == [][LockRevokes]_vars

\* guard.go:37-39: "A session-guarded key stays open until the broker locks".
\* No read that begins after a lock is served for a touch from before it.
\* Violated: guarder.Key keeps the key of a touch whenever the touch is done.
TouchEndsWithLock == \A r \in Read : Serve(r) => r \notin old.late
TouchEndsWithLockProperty == [][TouchEndsWithLock]_vars

\* An unlocked session lasts until a lock or its own time: the timer of an
\* earlier session, stopped too late, does not end it.
SessionLasts ==
    (~session.locked /\ session'.locked) =>
      \/ session'.epoch # session.epoch
      \/ now >= session.expires
SessionLastsProperty == [][SessionLasts]_vars

\* Every read is answered: no dialog, touch or turn, hanging or given up,
\* holds up another for ever.
ReadsAnswered == \A r \in Read : []<>(rd[r] = Idle)
=============================================================================
