------------------------- MODULE NotificationChannel -------------------------
(***************************************************************************)
(* signal_notification::NotificationChannel: the latest-state channel of   *)
(* one signal. The service task publishes, the dispatcher delivers one     *)
(* pending notice at a time with the mutex released, and the lifecycle     *)
(* owner registers, starts and stops. Every action is one critical section *)
(* of mutex_, so dispatch_one() is two: TakeNotice and CallbackReturns.        *)
(*                                                                         *)
(* A Reading is a member of Readings; Available are the ones with a value  *)
(* and availability Fresh or FreshnessUnverified.                          *)
(***************************************************************************)
EXTENDS Integers, Sequences, FiniteSets

CONSTANTS
    NumSlots,          \* kNotificationSubscribersPerChannel
    Readings,          \* distinct readings the service can publish
    Available,         \* those for which available() holds
    NoReading,         \* the default-constructed Reading
    MaxGeneration,     \* largest generation before it wraps to 1 (code: 65535)
    MaxRegistrations,  \* bound: successful subscribe() calls
    MaxPublications    \* bound: changed readings published in one run

ASSUME SlotsAssumption == NumSlots \in Nat \ {0}
ASSUME ReadingsAssumption ==
    /\ NoReading \in Readings
    /\ Available \subseteq Readings \ {NoReading}
ASSUME BoundsAssumption ==
    MaxGeneration \in Nat \ {0} /\ MaxRegistrations \in Nat /\ MaxPublications \in Nat

Slots == 1..NumSlots
Generations == 0..MaxGeneration
Orders == 0..MaxRegistrations

Notices == [current : Readings, initial : BOOLEAN, becameUnavailable : BOOLEAN,
            recovered : BOOLEAN, coalesced : BOOLEAN]

\* Notification<T>{} and the seed of start().
EmptyNotice == [current |-> NoReading, initial |-> FALSE, becameUnavailable |-> FALSE,
                recovered |-> FALSE, coalesced |-> FALSE]
SeedNotice == [EmptyNotice EXCEPT !.initial = TRUE]

VARIABLES
    running,         \* running_
    current,         \* current_
    hasPeriod,       \* has_available_period_
    active,          \* Subscriber::active, per slot
    generation,      \* Subscriber::generation
    regOrder,        \* Subscriber::registration_order
    pending,         \* Subscriber::pending
    pendingSeed,     \* Subscriber::pending_initial_seed
    notice,          \* Subscriber::pending_notice
    nextOrder,       \* next_registration_order_
    cursor,          \* dispatch_cursor_order_
    calling,         \* the slot whose callback runs (callback_active_), or 0
    handles,         \* history: <<slot, generation, order>> of every handle issued
    log,             \* history: the readings of this run, oldest first
    seen,            \* history: index in log last detached for a slot, 0 if none
    delivered,       \* history: the notice last detached for a slot in this run
    overtaken        \* history: deliveries to others since the slot became pending

vars == <<running, current, hasPeriod, active, generation, regOrder, pending, pendingSeed, notice,
          nextOrder, cursor, calling, handles, log, seen, delivered, overtaken>>

registration == <<active, generation, regOrder, nextOrder, handles>>

TypeOK ==
    /\ running \in BOOLEAN
    /\ current \in Readings
    /\ hasPeriod \in BOOLEAN
    /\ active \in [Slots -> BOOLEAN]
    /\ generation \in [Slots -> Generations]
    /\ regOrder \in [Slots -> Orders]
    /\ pending \in [Slots -> BOOLEAN]
    /\ pendingSeed \in [Slots -> BOOLEAN]
    /\ notice \in [Slots -> Notices]
    /\ nextOrder \in 1..(MaxRegistrations + 1)
    /\ cursor \in Orders
    /\ calling \in {0} \cup Slots
    /\ handles \subseteq Slots \X Generations \X Orders
    /\ log \in Seq(Readings)
    /\ seen \in [Slots -> Nat]
    /\ delivered \in [Slots -> Notices]
    /\ overtaken \in [Slots -> Nat]

Init ==
    /\ running = FALSE /\ current = NoReading /\ hasPeriod = FALSE
    /\ active = [s \in Slots |-> FALSE]
    /\ generation = [s \in Slots |-> 0]
    /\ regOrder = [s \in Slots |-> 0]
    /\ pending = [s \in Slots |-> FALSE]
    /\ pendingSeed = [s \in Slots |-> FALSE]
    /\ notice = [s \in Slots |-> EmptyNotice]
    /\ nextOrder = 1 /\ cursor = 0 /\ calling = 0
    /\ handles = {} /\ log = <<NoReading>>
    /\ seen = [s \in Slots |-> 0]
    /\ delivered = [s \in Slots |-> EmptyNotice]
    /\ overtaken = [s \in Slots |-> 0]

-----------------------------------------------------------------------------
(* Registration, while stopped and no callback runs.                        *)

FreeSlot(s) == ~active[s] /\ \A t \in Slots : t < s => active[t]

\* ++generation, skipping 0 when it wraps.
NextGeneration(g) == IF g = MaxGeneration THEN 1 ELSE g + 1

Subscribe(s) ==
    /\ ~running /\ calling = 0
    /\ nextOrder <= MaxRegistrations
    /\ FreeSlot(s)
    /\ active' = [active EXCEPT ![s] = TRUE]
    /\ generation' = [generation EXCEPT ![s] = NextGeneration(@)]
    /\ regOrder' = [regOrder EXCEPT ![s] = nextOrder]
    /\ pending' = [pending EXCEPT ![s] = FALSE]
    /\ pendingSeed' = [pendingSeed EXCEPT ![s] = FALSE]
    /\ notice' = [notice EXCEPT ![s] = EmptyNotice]
    /\ handles' = handles \cup {<<s, NextGeneration(generation[s]), nextOrder>>}
    /\ nextOrder' = nextOrder + 1
    /\ UNCHANGED <<running, current, hasPeriod, cursor, calling, log, seen, delivered, overtaken>>

\* find_subscriber: the handle's slot is active with the handle's generation.
Matches(h) == active[h[1]] /\ generation[h[1]] = h[2]

Unsubscribe(h) ==
    /\ ~running /\ calling = 0
    /\ Matches(h)
    /\ active' = [active EXCEPT ![h[1]] = FALSE]
    /\ pending' = [pending EXCEPT ![h[1]] = FALSE]
    /\ pendingSeed' = [pendingSeed EXCEPT ![h[1]] = FALSE]
    /\ notice' = [notice EXCEPT ![h[1]] = EmptyNotice]
    /\ regOrder' = [regOrder EXCEPT ![h[1]] = 0]
    /\ UNCHANGED <<running, current, hasPeriod, generation, nextOrder, cursor, calling, handles,
                   log, seen, delivered, overtaken>>

-----------------------------------------------------------------------------
(* Start and stop by the lifecycle owner.                                   *)

Start ==
    /\ ~running /\ calling = 0
    /\ running' = TRUE
    /\ cursor' = 0
    /\ current' = NoReading
    /\ hasPeriod' = FALSE
    /\ pending' = active
    /\ pendingSeed' = [s \in Slots |-> TRUE]
    /\ notice' = [s \in Slots |-> SeedNotice]
    /\ log' = <<NoReading>>
    /\ seen' = [s \in Slots |-> 0]
    /\ delivered' = [s \in Slots |-> EmptyNotice]
    /\ overtaken' = [s \in Slots |-> 0]
    /\ UNCHANGED <<registration, calling>>

\* Refused while a callback runs.
Stop ==
    /\ running /\ calling = 0
    /\ running' = FALSE
    /\ hasPeriod' = FALSE
    /\ pending' = [s \in Slots |-> FALSE]
    /\ pendingSeed' = [s \in Slots |-> FALSE]
    /\ notice' = [s \in Slots |-> EmptyNotice]
    /\ UNCHANGED <<registration, current, cursor, calling, log, seen, delivered, overtaken>>

-----------------------------------------------------------------------------
(* Publication by the service task, also from inside a callback.            *)

\* Mutant of Merged: a pending notice keeps the reading it was created with.
MergedKeepsFirst(s, update) ==
    IF ~pending[s] THEN update
    ELSE [notice[s] EXCEPT
            !.becameUnavailable = @ \/ update.becameUnavailable,
            !.recovered = @ \/ update.recovered,
            !.coalesced = @ \/ ~pendingSeed[s]]

\* Mutant of Merged: the newest transition replaces the earlier ones.
MergedOverwrites(s, update) ==
    IF ~pending[s] THEN update
    ELSE [update EXCEPT !.initial = notice[s].initial,
                        !.coalesced = notice[s].coalesced \/ ~pendingSeed[s]]

\* merge_pending: one pending notice per slot holds the latest state and every
\* transition since the last delivery.
Merged(s, update) ==
    IF ~pending[s] THEN update
    ELSE [notice[s] EXCEPT
            !.current = update.current,
            !.becameUnavailable = @ \/ update.becameUnavailable,
            !.recovered = @ \/ update.recovered,
            !.coalesced = @ \/ ~pendingSeed[s]]

Publish ==
    /\ running
    /\ Len(log) <= MaxPublications
    /\ \E reading \in Readings \ {current} :
          LET update == [EmptyNotice EXCEPT
                           !.current = reading,
                           !.becameUnavailable = current \in Available /\ reading \notin Available,
                           !.recovered = current \notin Available /\ reading \in Available
                                           /\ hasPeriod]
          IN  /\ current' = reading
              /\ hasPeriod' = (hasPeriod \/ reading \in Available)
              /\ notice' = [s \in Slots |-> IF active[s] THEN Merged(s, update) ELSE notice[s]]
              /\ log' = Append(log, reading)
    /\ pending' = [s \in Slots |-> pending[s] \/ active[s]]
    /\ pendingSeed' = [s \in Slots |-> pendingSeed[s] /\ ~active[s]]
    /\ overtaken' = [s \in Slots |-> IF pending[s] THEN overtaken[s] ELSE 0]
    /\ UNCHANGED <<registration, running, cursor, calling, seen, delivered>>

-----------------------------------------------------------------------------
(* dispatch_one by the dispatcher.                                          *)

\* next_pending_subscriber: the oldest pending registration after the cursor,
\* else the oldest pending one.
Ready == {s \in Slots : active[s] /\ pending[s]}
After == {s \in Ready : regOrder[s] > cursor}
Oldest(S) == {s \in S : \A t \in S : regOrder[s] <= regOrder[t]}

\* Mutant of NextPending: the dispatch cursor is ignored.
NextPendingNoCursor == Oldest(Ready)

NextPending == Oldest(IF After # {} THEN After ELSE Ready)

TakeNotice ==
    /\ running /\ calling = 0
    /\ \E s \in NextPending :
          /\ cursor' = regOrder[s]
          /\ pending' = [pending EXCEPT ![s] = FALSE]
          /\ pendingSeed' = [pendingSeed EXCEPT ![s] = FALSE]
          /\ calling' = s
          /\ seen' = [seen EXCEPT ![s] = Len(log)]
          /\ delivered' = [delivered EXCEPT ![s] = notice[s]]
          /\ overtaken' = [t \in Slots |->
                             IF t \in Ready \ {s} THEN overtaken[t] + 1 ELSE 0]
    /\ UNCHANGED <<registration, running, current, hasPeriod, notice, log>>

CallbackReturns ==
    /\ calling # 0
    /\ calling' = 0
    /\ UNCHANGED <<registration, running, current, hasPeriod, pending, pendingSeed, notice,
                   cursor, log, seen, delivered, overtaken>>

Next ==
    \/ \E s \in Slots : Subscribe(s)
    \/ \E h \in handles : Unsubscribe(h)
    \/ Start \/ Stop
    \/ Publish \/ TakeNotice \/ CallbackReturns

Spec == Init /\ [][Next]_vars

-----------------------------------------------------------------------------
(* Correctness.                                                             *)

\* What happened to the signal between two positions of the run, from the
\* readings themselves.
LostBetween(i, j) ==
    \E k \in (i + 1)..j : k > 1 /\ log[k - 1] \in Available /\ log[k] \notin Available
RecoveredBetween(i, j) ==
    \E k \in (i + 1)..j :
       k > 1 /\ log[k - 1] \notin Available /\ log[k] \in Available
         /\ \E m \in 1..(k - 1) : log[m] \in Available

\* No update is lost: every registered subscriber of a running channel either
\* has a pending notice with the current reading or was last called with it.
LatestStateReachesSubscriber ==
    running => \A s \in Slots : active[s] =>
        IF pending[s] THEN notice[s].current = current
        ELSE delivered[s].current = current

\* Coalescing hides readings, never transitions: a pending notice reports a
\* loss or a recovery exactly when one happened since the subscriber's last
\* notice, is marked coalesced exactly when it stands for two or more changes,
\* and is marked initial exactly when it is the first of the run.
PendingNoticeTruthful ==
    running => \A s \in Slots : active[s] /\ pending[s] =>
        /\ notice[s].becameUnavailable <=> LostBetween(seen[s], Len(log))
        /\ notice[s].recovered <=> RecoveredBetween(seen[s], Len(log))
        /\ notice[s].initial <=> seen[s] = 0
        /\ notice[s].coalesced <=>
              Len(log) - (IF seen[s] = 0 THEN 1 ELSE seen[s]) >= 2

\* A callback that keeps publishing cannot starve another subscriber: while a
\* slot waits, each other slot is served at most once before it.
NoSlotStarves == \A s \in Slots : overtaken[s] < NumSlots

\* stop() and unsubscribe() are quiescence boundaries: after they succeed no
\* callback of this channel runs until the next start().
CallbackOnlyWhileRunning == calling # 0 => running /\ active[calling]

\* A handle stands for one registration: a stale one can match a later
\* registration in its slot only after the slot's generation went all the way
\* round, that is after at least MaxGeneration more registrations.
HandleNamesItsRegistration ==
    \A h \in handles : Matches(h) =>
        regOrder[h[1]] = h[3] \/ regOrder[h[1]] >= h[3] + MaxGeneration

=============================================================================
