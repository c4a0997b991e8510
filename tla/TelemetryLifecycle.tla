------------------------- MODULE TelemetryLifecycle -------------------------
(***************************************************************************)
(* The telemetry facade's lifecycle and its registrations: start() and     *)
(* stop() step by step on the owner's thread, the runtime worker that      *)
(* reports over the same lifecycle word, the dispatcher task and the       *)
(* callbacks it runs, and the subscribers that share the typed channels:   *)
(* typed ones, generic trampoline records and the action engine's set.     *)
(*                                                                         *)
(* Every mutator rejects a call from inside a callback, then one that does *)
(* not come from the lifecycle owner (the first caller claims it).  A call *)
(* that is rejected changes nothing, except that it may claim.             *)
(***************************************************************************)
EXTENDS Naturals, Sequences, FiniteSets, SequencesExt

CONSTANTS
  Channels,          \* the channels of the notification descriptors
  Slots,             \* kNotificationSubscribersPerChannel, as 1..n
  RuleSignals,       \* the signals of the engine's rules, in rule order
  EngineCapacity,    \* SubscriptionSet::kCapacity
  Threads,           \* application threads
  Configs,           \* configurations that valid_config() accepts
  MaxGeneration,     \* a registration's generation is modulo this
  MaxRegistrations,  \* bound: registrations in a behaviour
  MaxRuns            \* bound: dispatcher tasks created in a behaviour

NoIdentity == "nobody"
Dispatcher == "dispatcher"
NoChannel == "none"

ASSUME LifecycleAssumption ==
  /\ Slots \subseteq Nat /\ IsFiniteSet(Slots) /\ IsFiniteSet(Channels) /\ NoChannel \notin Channels
  /\ NoIdentity \notin Threads /\ Dispatcher \notin Threads /\ RuleSignals \in Seq(Channels)
  /\ {EngineCapacity, MaxGeneration, MaxRegistrations, MaxRuns} \subseteq Nat \ {0}

VARIABLES
  manual,     \* host_options_.manual_notification_dispatch
  life,       \* lifecycle_state_
  owner,      \* lifecycle_owner_identity_
  marker,     \* callback_context_identity_
  op,         \* where the owner is inside start(), stop() or drain
  runReq,     \* run_requested_
  done,       \* dispatcher_done_
  disp,       \* the dispatcher task of every run
  runs,       \* dispatcher tasks created
  callback,   \* the channel whose callback is running
  chanOn,     \* NotificationChannel running, per channel
  rt,         \* Runtime::lifecycle()
  worker,     \* the runtime worker: "none", "idle", or the report it holds
  rtStopped,  \* stop(): runtime_stopped
  config,     \* config_, the runtime's and the publication store's copies
  pubLife,    \* PublicationStore: published lifecycle
  reg,        \* registrations_, generic_records_ and the channels' slots
  engine      \* the engine's SubscriptionSet and attached_, and the thread that is
              \* inside attach() or detach(), with the rule it has come to

lifeVars == <<manual, life, owner, marker, op, runReq, done, disp, runs, callback,
              chanOn, rt, worker, rtStopped, config, pubLife>>
vars == <<lifeVars, reg, engine>>

Callers == Threads \cup {Dispatcher}
Runs == 1..MaxRuns
Records == 1..(Cardinality(Channels) * Cardinality(Slots))
EmptyRecord == [active |-> FALSE, channel |-> NoChannel, slot |-> 0, gen |-> 0]
EmptyReg == [active |-> FALSE, generic |-> FALSE, gen |-> 0, handle |-> 0, serial |-> 0]

Init ==
  /\ manual \in BOOLEAN
  /\ life = "Stopped" /\ owner = NoIdentity /\ marker = NoIdentity /\ op = "idle"
  /\ runReq = FALSE /\ done = TRUE /\ disp = [r \in Runs |-> "none"] /\ runs = 0
  /\ callback = NoChannel /\ chanOn = [c \in Channels |-> FALSE]
  /\ rt = "Stopped" /\ worker = "none" /\ rtStopped = TRUE
  /\ \E c \in Configs : config = [service |-> c, runtime |-> c, store |-> c]
  /\ pubLife = "Stopped"
  /\ reg = [regs |-> [c \in Channels |-> [s \in Slots |-> EmptyReg]],
            subs |-> [c \in Channels |-> [s \in Slots |-> <<>>]],
            records |-> [k \in Records |-> EmptyRecord],
            issued |-> {}, next |-> 1]
  /\ engine = [held |-> <<>>, attached |-> FALSE, doing |-> "idle", by |-> NoIdentity, rule |-> 1]

-----------------------------------------------------------------------------
(* Who may call.                                                           *)

CanCall(t) ==
  \/ t \in Threads /\ t # engine.by /\ op \in {"idle", "drainCallback"}
  \/ t = Dispatcher /\ \E r \in Runs : disp[r] = "callback"

CallbackMutationRejected(t) == marker = t

ClaimOrValidateLifecycleOwner(t) == owner \in {NoIdentity, t} /\ owner' = t

Mutation(t) ==
  /\ CanCall(t)
  /\ ~CallbackMutationRejected(t)
  /\ ClaimOrValidateLifecycleOwner(t)

(* A call the lifecycle state refuses: only the claim stays.               *)
RejectedCall ==
  /\ \E t \in Callers : Mutation(t)
  /\ UNCHANGED <<manual, life, marker, op, runReq, done, disp, runs, callback, chanOn, rt,
                 worker, rtStopped, config, pubLife, reg, engine>>

-----------------------------------------------------------------------------
(* start().                                                                *)

MapLifecycle(l) == IF l \in {"Running", "Stopping", "Faulted"} THEN l ELSE "Stopped"
Publish(l) == life' = l /\ pubLife' = l

(* start_channels() stops at the first channel that is running already;    *)
(* the channels before it stay started.                                    *)
StartBegin ==
  /\ \E t \in Callers : Mutation(t)
  /\ life = "Stopped" /\ runs < MaxRuns
  /\ IF \A c \in Channels : ~chanOn[c]
       THEN Publish("Running") /\ chanOn' = [c \in Channels |-> TRUE] /\ op' = "startRuntime"
       ELSE /\ Publish("Faulted") /\ UNCHANGED op
            /\ \E before \in SUBSET {c \in Channels : ~chanOn[c]} :
                 chanOn' = [c \in Channels |-> chanOn[c] \/ c \in before]
  /\ UNCHANGED <<manual, marker, runReq, done, disp, runs, callback, rt, worker, rtStopped,
                 config, reg, engine>>

StopChannels == [c \in Channels |-> chanOn[c] /\ c = callback]

StartRuntime ==
  /\ op = "startRuntime"
  /\ \/ rt' = "Running" /\ worker' = "idle" /\ op' = "startDispatcher"
        /\ UNCHANGED <<life, pubLife, chanOn>>
     \/ \E l \in {"Stopped", "Faulted"} :
          rt' = l /\ chanOn' = StopChannels /\ Publish(l) /\ op' = "idle" /\ UNCHANGED worker
  /\ UNCHANGED <<manual, owner, marker, runReq, done, disp, runs, callback, rtStopped, config,
                 reg, engine>>

(* Runtime::stop(): joins the worker, or gives up on it.                   *)
RuntimeStop(ok) ==
  \/ ok /\ worker' = "none" /\ rt' = "Stopped"
  \/ ~ok /\ worker # "none" /\ rt' = "Stopping" /\ UNCHANGED worker

StartDispatcher ==
  /\ op = "startDispatcher" /\ op' = "idle"
  /\ \/ manual /\ runReq' = TRUE /\ done' = TRUE
        /\ UNCHANGED <<disp, runs, life, pubLife, chanOn, rt, worker>>
     \/ ~manual /\ runReq' = TRUE /\ done' = FALSE
        /\ runs' = runs + 1 /\ disp' = [disp EXCEPT ![runs + 1] = "check"]
        /\ UNCHANGED <<life, pubLife, chanOn, rt, worker>>
     \/ ~manual /\ runReq' = FALSE /\ done' = TRUE
        /\ \E ok \in BOOLEAN : RuntimeStop(ok)
        /\ chanOn' = StopChannels /\ Publish("Faulted")
        /\ UNCHANGED <<disp, runs>>
  /\ UNCHANGED <<manual, owner, marker, callback, rtStopped, config, reg, engine>>

-----------------------------------------------------------------------------
(* stop(): the mutex is held only for its first step.                      *)

StopBegin ==
  /\ \E t \in Callers : Mutation(t)
  /\ life # "Stopped"
  /\ life' = "Stopping" /\ runReq' = FALSE /\ op' = "stopRuntime"
  /\ UNCHANGED <<manual, marker, done, disp, runs, callback, chanOn, rt, worker, rtStopped,
                 config, pubLife, reg, engine>>

StopRuntime ==
  /\ op = "stopRuntime" /\ op' = "wait"
  /\ \E ok \in BOOLEAN : RuntimeStop(ok) /\ rtStopped' = ok
  /\ pubLife' = "Stopping"
  /\ UNCHANGED <<manual, life, owner, marker, runReq, done, disp, runs, callback, chanOn,
                 config, reg, engine>>

(* Mutant: a stop that gave up on the dispatcher reports a stopped facade. *)
MStopTimeout ==
  /\ op = "wait" /\ ~done
  /\ op' = "idle" /\ rtStopped' = TRUE /\ life' = "Stopped"
  /\ UNCHANGED <<manual, owner, marker, runReq, done, disp, runs, callback, chanOn, rt,
                 worker, config, pubLife, reg, engine>>

(* wait_for_workers: the deadline passed; the facade stays live.           *)
StopTimeout ==
  /\ op = "wait" /\ ~done
  /\ op' = "idle" /\ rtStopped' = TRUE
  /\ UNCHANGED <<manual, life, owner, marker, runReq, done, disp, runs, callback, chanOn, rt,
                 worker, config, pubLife, reg, engine>>

StopFinish ==
  /\ op = "wait" /\ done
  /\ op' = "idle" /\ rtStopped' = TRUE
  /\ chanOn' = StopChannels
  /\ IF rtStopped /\ \A c \in Channels : ~chanOn'[c]
       THEN Publish("Stopped")
       ELSE life' = "Faulted" /\ UNCHANGED pubLife
  /\ UNCHANGED <<manual, owner, marker, runReq, done, disp, runs, callback, rt, worker,
                 config, reg, engine>>

-----------------------------------------------------------------------------
(* The runtime worker.  Its report is taken before it is stored, and it    *)
(* stores over whatever the owner wrote meanwhile.                         *)

WorkerUnchanged == UNCHANGED <<manual, owner, marker, op, runReq, done, disp, runs, callback,
                               chanOn, rtStopped, config, reg, engine>>

WorkerTakesReport ==
  /\ worker = "idle" /\ worker' = rt
  /\ UNCHANGED <<life, pubLife, rt>> /\ WorkerUnchanged

OnDiagnostics ==
  /\ worker \notin {"none", "idle"} /\ worker' = "idle"
  /\ life' = MapLifecycle(worker) /\ pubLife' = life'
  /\ UNCHANGED rt /\ WorkerUnchanged

WorkerFaults ==
  /\ worker = "idle" /\ rt = "Running" /\ rt' = "Faulted"
  /\ UNCHANGED <<life, pubLife, worker>> /\ WorkerUnchanged

(* The worker that stop() gave up on ends by itself.                       *)
WorkerEnds ==
  /\ worker = "idle" /\ rt = "Stopping" /\ worker' = "none" /\ rt' = "Stopped"
  /\ UNCHANGED <<life, pubLife>> /\ WorkerUnchanged

-----------------------------------------------------------------------------
(* Dispatch: on the dispatcher task, or on the owner's thread (drain).     *)

DispatchUnchanged == UNCHANGED <<manual, life, owner, runs, chanOn, rt, worker, rtStopped,
                                 config, pubLife, reg, engine>>

(* dispatch_channels_once: a running channel with a subscriber may have a  *)
(* notice pending; its callback runs outside the channel's lock.           *)
Deliverable(c) == chanOn[c] /\ \E s \in Slots : reg.subs[c][s] # <<>>

LoopCheck(r) ==
  /\ disp[r] = "check"
  /\ IF runReq THEN disp' = [disp EXCEPT ![r] = "dispatch"] /\ marker' = Dispatcher
               ELSE disp' = [disp EXCEPT ![r] = "exit"] /\ UNCHANGED marker
  /\ UNCHANGED <<op, runReq, done, callback>> /\ DispatchUnchanged

DispatchOne(r) ==
  /\ disp[r] = "dispatch"
  /\ \/ \E c \in Channels : Deliverable(c) /\ callback' = c
        /\ disp' = [disp EXCEPT ![r] = "callback"] /\ UNCHANGED marker
     \/ disp' = [disp EXCEPT ![r] = "check"] /\ marker' = NoIdentity /\ UNCHANGED callback
  /\ UNCHANGED <<op, runReq, done>> /\ DispatchUnchanged

CallbackReturns(r) ==
  /\ disp[r] = "callback"
  /\ callback' = NoChannel /\ marker' = NoIdentity
  /\ disp' = [disp EXCEPT ![r] = "check"]
  /\ UNCHANGED <<op, runReq, done>> /\ DispatchUnchanged

(* dispatcher_task_entry: done is stored before the task is gone.          *)
DispatcherDone(r) ==
  /\ disp[r] = "exit"
  /\ done' = TRUE /\ disp' = [disp EXCEPT ![r] = "none"]
  /\ UNCHANGED <<marker, op, runReq, callback>> /\ DispatchUnchanged

(* drain_notifications.                                                    *)
DrainBegin ==
  /\ manual /\ op = "idle" /\ owner \notin {NoIdentity, engine.by} /\ life \in {"Running", "Faulted"}
  /\ op' = "drain" /\ marker' = owner
  /\ UNCHANGED <<runReq, done, disp, callback>> /\ DispatchUnchanged

DrainOne ==
  /\ op = "drain"
  /\ \/ \E c \in Channels : Deliverable(c) /\ callback' = c /\ op' = "drainCallback"
        /\ UNCHANGED marker
     \/ op' = "idle" /\ marker' = NoIdentity /\ UNCHANGED callback
  /\ UNCHANGED <<runReq, done, disp>> /\ DispatchUnchanged

DrainCallbackReturns ==
  /\ op = "drainCallback"
  /\ op' = "drain" /\ callback' = NoChannel
  /\ UNCHANGED <<marker, runReq, done, disp>> /\ DispatchUnchanged

-----------------------------------------------------------------------------
(* Registrations.                                                          *)

FreeRegistration(R, c) == {s \in Slots : ~R.regs[c][s].active}
First(S) == CHOOSE s \in S : \A t \in S : s <= t

NextGeneration(g) == IF g = MaxGeneration THEN 1 ELSE g + 1

FindRegistration(R, tok) ==
  LET e == R.regs[tok.channel][tok.slot] IN e.active /\ e.gen = tok.gen

(* register_subscription: the registration's slot and the channel's own.   *)
RegisterSubscription(R, c, generic, context) ==
  LET s == First(FreeRegistration(R, c))
      h == First({x \in Slots : R.subs[c][x] = <<>>})
      g == NextGeneration(R.regs[c][s].gen)
      tok == [channel |-> c, slot |-> s, gen |-> g, generic |-> generic, serial |-> R.next] IN
  [R EXCEPT !.regs[c][s] = [active |-> TRUE, generic |-> generic, gen |-> g, handle |-> h,
                            serial |-> R.next],
            !.subs[c][h] = <<context>>,
            !.issued = @ \cup {tok},
            !.next = @ + 1]

Issued(R) == CHOOSE tok \in R.issued : tok.serial = R.next - 1

CanSubscribe(R, c) == R.next <= MaxRegistrations /\ FreeRegistration(R, c) # {}

SubscribeGenericDescriptor(R, c) ==
  LET k == First({x \in Records : ~R.records[x].active})
      S == RegisterSubscription(R, c, TRUE, k)
      tok == Issued(S) IN
  [S EXCEPT !.records[k] = [active |-> TRUE, channel |-> c, slot |-> tok.slot, gen |-> tok.gen]]

UnsubscribeRegistration(R, tok) ==
  LET e == R.regs[tok.channel][tok.slot] IN
  [R EXCEPT !.regs[tok.channel][tok.slot] =
              [@ EXCEPT !.active = FALSE, !.generic = FALSE],
            !.subs[tok.channel][e.handle] = <<>>]

RecordOf(R, tok) ==
  {k \in Records : R.records[k] = [active |-> TRUE, channel |-> tok.channel,
                                   slot |-> tok.slot, gen |-> tok.gen]}

(* Mutant: the typed path also removes generic registrations.              *)
MCanUnsubscribeTyped(R, tok) == FindRegistration(R, tok)

CanUnsubscribeTyped(R, tok) ==
  FindRegistration(R, tok) /\ ~R.regs[tok.channel][tok.slot].generic

CanUnsubscribeGeneric(R, tok) ==
  /\ RecordOf(R, tok) # {} /\ FindRegistration(R, tok)
  /\ R.regs[tok.channel][tok.slot].generic

UnsubscribeGeneric(R, tok) ==
  LET k == First(RecordOf(R, tok)) IN
  [UnsubscribeRegistration(R, tok) EXCEPT !.records[k] = EmptyRecord]

(* Mutant: registrations may change in any lifecycle state.               *)
MStoppedMutation ==
  /\ \E t \in Callers : Mutation(t)
  /\ UNCHANGED <<manual, life, marker, op, runReq, done, disp, runs, callback, chanOn, rt,
                 worker, rtStopped, pubLife>>

StoppedMutation ==
  /\ \E t \in Callers : Mutation(t)
  /\ life = "Stopped"
  /\ UNCHANGED <<manual, life, marker, op, runReq, done, disp, runs, callback, chanOn, rt,
                 worker, rtStopped, pubLife>>

SubscribeTyped ==
  /\ StoppedMutation /\ UNCHANGED <<config, engine>>
  /\ \E c \in Channels : CanSubscribe(reg, c) /\ reg' = RegisterSubscription(reg, c, FALSE, 0)

ProviderSubscribe ==
  /\ StoppedMutation /\ UNCHANGED <<config, engine>>
  /\ \E c \in Channels : CanSubscribe(reg, c) /\ reg' = SubscribeGenericDescriptor(reg, c)

(* Any token ever issued may come back, the stale ones included; the       *)
(* engine's tokens are known to the engine alone.                          *)
UnsubscribeTyped ==
  /\ StoppedMutation /\ UNCHANGED <<config, engine>>
  /\ \E tok \in reg.issued :
       CanUnsubscribeTyped(reg, tok) /\ reg' = UnsubscribeRegistration(reg, tok)

ProviderUnsubscribe ==
  /\ StoppedMutation /\ UNCHANGED <<config, engine>>
  /\ \E tok \in reg.issued \ Range(engine.held) :
       CanUnsubscribeGeneric(reg, tok) /\ reg' = UnsubscribeGeneric(reg, tok)

(* configure(): the runtime first, then the store, then the service.       *)
Configure ==
  /\ StoppedMutation /\ UNCHANGED <<reg, engine>>
  /\ \E c \in Configs :
       config' = IF pubLife = "Stopped"
                   THEN [service |-> c, runtime |-> c, store |-> c]
                   ELSE [config EXCEPT !.runtime = c]

-----------------------------------------------------------------------------
(* The action engine: one action for each call that attach() and detach()  *)
(* make on the provider.  A call of theirs from inside a callback is       *)
(* refused by the provider like any other and changes nothing.             *)

EngineUnchanged == UNCHANGED <<manual, life, marker, op, runReq, done, disp, runs, callback,
                               chanOn, rt, worker, rtStopped, config, pubLife>>

EngineBegins(doing) ==
  /\ engine.doing = "idle" /\ op = "idle"
  /\ \E t \in Threads : engine' = [engine EXCEPT !.doing = doing, !.by = t, !.rule = 1]
  /\ UNCHANGED <<owner, reg>> /\ EngineUnchanged

AttachBegin == ~engine.attached /\ EngineBegins("attach")
DetachBegin == engine.attached /\ EngineBegins("undo")

EngineEnds(e, attached) == [e EXCEPT !.attached = attached, !.doing = "idle", !.by = NoIdentity]

(* The provider accepts a call of the engine's thread, or it refuses it;   *)
(* even a refused one may claim the lifecycle.                             *)
Accepted ==
  ~CallbackMutationRejected(engine.by) /\ owner \in {NoIdentity, engine.by} /\ life = "Stopped"
Claims ==
  owner' = IF owner = NoIdentity /\ ~CallbackMutationRejected(engine.by) THEN engine.by ELSE owner

(* SubscriptionSet::subscribe, for the next rule of attach().              *)
Holds(c) == \E i \in DOMAIN engine.held : engine.held[i].channel = c
CanAttach(c) == Len(engine.held) < EngineCapacity /\ Accepted /\ CanSubscribe(reg, c)

AttachRule ==
  /\ engine.doing = "attach" /\ engine.rule <= Len(RuleSignals)
  /\ LET c == RuleSignals[engine.rule] IN
     \/ /\ Holds(c)
        /\ engine' = [engine EXCEPT !.rule = @ + 1] /\ UNCHANGED <<owner, reg>>
     \/ /\ ~Holds(c) /\ CanAttach(c) /\ Claims
        /\ reg' = SubscribeGenericDescriptor(reg, c)
        /\ engine' = [engine EXCEPT !.rule = @ + 1, !.held = Append(@, Issued(reg'))]
     \/ /\ ~Holds(c) /\ ~CanAttach(c) /\ Claims
        /\ engine' = [engine EXCEPT !.doing = "undo"] /\ UNCHANGED reg
  /\ EngineUnchanged

AttachDone ==
  /\ engine.doing = "attach" /\ engine.rule > Len(RuleSignals)
  /\ engine' = EngineEnds(engine, TRUE)
  /\ UNCHANGED <<owner, reg>> /\ EngineUnchanged

(* unsubscribe_all, as detach() and the rollback of attach() call it: from *)
(* the last one back, until one is refused.                                *)
CanUndo == Accepted /\ CanUnsubscribeGeneric(reg, Last(engine.held))

UndoOne ==
  /\ engine.doing = "undo" /\ engine.held # <<>> /\ CanUndo /\ Claims
  /\ reg' = UnsubscribeGeneric(reg, Last(engine.held))
  /\ engine' = [engine EXCEPT !.held = Front(@)]
  /\ EngineUnchanged

UndoDone ==
  /\ engine.doing = "undo"
  /\ \/ engine.held = <<>> /\ UNCHANGED owner
     \/ engine.held # <<>> /\ ~CanUndo /\ Claims
  /\ engine' = EngineEnds(engine, engine.held # <<>>)
  /\ UNCHANGED reg /\ EngineUnchanged

-----------------------------------------------------------------------------
OwnerStep == RejectedCall \/ StartBegin \/ StartRuntime \/ StartDispatcher \/ StopBegin
             \/ StopRuntime \/ StopTimeout \/ StopFinish \/ Configure
WorkerStep == WorkerTakesReport \/ OnDiagnostics \/ WorkerFaults \/ WorkerEnds
DispatcherStep(r) == LoopCheck(r) \/ DispatchOne(r) \/ CallbackReturns(r) \/ DispatcherDone(r)
DrainStep == DrainBegin \/ DrainOne \/ DrainCallbackReturns
SubscriberStep == SubscribeTyped \/ ProviderSubscribe \/ UnsubscribeTyped
                  \/ ProviderUnsubscribe
EngineStep == AttachBegin \/ DetachBegin \/ AttachRule \/ AttachDone \/ UndoOne \/ UndoDone

Next == OwnerStep \/ WorkerStep \/ (\E r \in Runs : DispatcherStep(r)) \/ DrainStep
        \/ SubscriberStep \/ EngineStep

Spec == Init /\ [][Next]_vars

-----------------------------------------------------------------------------
Lives == {"Stopped", "Running", "Stopping", "Faulted"}

TypeOK ==
  /\ manual \in BOOLEAN /\ life \in Lives /\ pubLife \in Lives /\ rt \in Lives
  /\ owner \in Threads \cup {NoIdentity}
  /\ marker \in Threads \cup {NoIdentity, Dispatcher}
  /\ op \in {"idle", "startRuntime", "startDispatcher", "stopRuntime", "wait", "drain",
             "drainCallback"}
  /\ runReq \in BOOLEAN /\ done \in BOOLEAN /\ rtStopped \in BOOLEAN
  /\ disp \in [Runs -> {"none", "check", "dispatch", "callback", "exit"}] /\ runs \in 0..MaxRuns
  /\ callback \in Channels \cup {NoChannel} /\ chanOn \in [Channels -> BOOLEAN]
  /\ worker \in Lives \cup {"none", "idle"}

(* A stopped facade is quiescent: no worker, no dispatcher, no callback    *)
(* and no running channel, whatever stop() gave up on before               *)
(* (vehicle_telemetry.cpp:752-799; telemetry-contracts.md).                *)
StoppedIsQuiescent ==
  life = "Stopped" =>
    /\ worker = "none" /\ callback = NoChannel
    /\ \A r \in Runs : disp[r] = "none"
    /\ \A c \in Channels : ~chanOn[c]

(* Two dispatchers never overlap: a restart waits for the task that an     *)
(* earlier stop() timed out on (vehicle_telemetry.cpp:715,781).            *)
OneDispatcher ==
  /\ \A q, r \in Runs : disp[q] # "none" /\ disp[r] # "none" => q = r
  /\ (\E r \in Runs : disp[r] # "none") => ~done

(* What a callback can reach does not change under it: registrations,      *)
(* records and channel slots are stable while any dispatch is under way    *)
(* (signal_subscription_record.hpp:16-25).                                 *)
RegistryStableInDispatch ==
  [][(callback # NoChannel \/ marker # NoIdentity) => UNCHANGED <<reg, config>>]_vars

(* A token removes the registration it was issued for or none: a stale one *)
(* can match a later registration only after the slot's generation wrapped *)
(* (vehicle_telemetry.cpp:419-429).                                        *)
TokenNamesItsRegistration ==
  \A tok \in reg.issued :
    LET e == reg.regs[tok.channel][tok.slot] IN
    FindRegistration(reg, tok) =>
      e.serial = tok.serial \/ e.serial >= tok.serial + MaxGeneration

(* No channel slot points at a released trampoline record, and every       *)
(* record belongs to one live generic registration                         *)
(* (vehicle_telemetry_service.hpp:617-640).                                *)
TrampolinesLive ==
  /\ \A c \in Channels, s \in Slots :
       LET e == reg.regs[c][s] IN
       IF e.active
         THEN IF e.generic
                THEN \E k \in Records :
                       /\ reg.subs[c][e.handle] = <<k>>
                       /\ reg.records[k] = [active |-> TRUE, channel |-> c, slot |-> s,
                                            gen |-> e.gen]
                ELSE reg.subs[c][e.handle] = <<0>>
         ELSE TRUE
  /\ \A c \in Channels :
       Cardinality({s \in Slots : reg.regs[c][s].active})
         = Cardinality({s \in Slots : reg.subs[c][s] # <<>>})
  /\ Cardinality({k \in Records : reg.records[k].active})
       = Cardinality({p \in Channels \X Slots : reg.regs[p[1]][p[2]].generic})

(* The engine is attached while it holds a registration, and each one it   *)
(* holds is live: an attach that fails half way strands none, and attach() *)
(* and detach() leave it subscribed to all of its rules or to none         *)
(* (engine.cpp:139-164).                                                   *)
EngineHoldsWhatItSubscribed ==
  /\ \A i \in DOMAIN engine.held : CanUnsubscribeGeneric(reg, engine.held[i])
  /\ engine.doing = "idle" =>
       /\ engine.held # <<>> => engine.attached
       /\ engine.attached => \A i \in DOMAIN RuleSignals : Holds(RuleSignals[i])

(* The three copies of the configuration agree: a stopped facade always    *)
(* published "Stopped", so the store cannot refuse what the runtime took   *)
(* (vehicle_telemetry.cpp:497-508).                                        *)
ConfigCopiesAgree == config.service = config.runtime /\ config.service = config.store

(* A stopped facade is quiescent, and a running one has one dispatcher.    *)
FacadeQuiescent == StoppedIsQuiescent /\ OneDispatcher

(* Whatever several parts keep of one registration or configuration        *)
(* agrees: tokens, channel slots, trampoline records, the engine's list    *)
(* and the three copies of the configuration.                              *)
BookkeepingAgrees ==
  /\ TypeOK /\ TokenNamesItsRegistration /\ TrampolinesLive
  /\ EngineHoldsWhatItSubscribed /\ ConfigCopiesAgree

=============================================================================
