------------------------ MODULE TelemetryLifecycleProofs ------------------------
(***************************************************************************)
(* Theorems about the telemetry facade, for any channels, slots, threads,  *)
(* rules, registrations and runs.                                          *)
(*                                                                         *)
(* ControlInv is the inductive invariant of the lifecycle: who may be in a *)
(* callback (MarkerInv), that a task that runs has not reported done       *)
(* (TaskInv), that a worker in sight never reports "Stopped" (WorkerInv),  *)
(* and what each step of start() and stop() may still find (StepInv).      *)
(*                                                                         *)
(* BookInv is that of the registrations: whose channel slot is whose       *)
(* (HandleInv), where a channel slot leads (ContextInv), what a record in  *)
(* use is for (RecordInv), and how old a token and a slot's generation are *)
(* (TokenInv).  LiveInv and FlowInv are the engine's: what it holds, and   *)
(* what attach() and detach() have come to.                                *)
(***************************************************************************)
EXTENDS TelemetryLifecycle, FiniteSetTheorems, SequenceTheorems, TLAPS

-----------------------------------------------------------------------------
(* Types. *)
Ops == {"idle", "startRuntime", "startDispatcher", "stopRuntime", "wait", "drain",
        "drainCallback"}
Tasks == {"none", "check", "dispatch", "callback", "exit"}
EngineRecord(held) ==
  [held : {held}, attached : BOOLEAN, doing : {"idle", "attach", "undo"},
   by : Threads \cup {NoIdentity}, rule : Nat]
EngineTyped ==
  /\ engine \in EngineRecord(engine.held)
  /\ engine.doing = "idle" <=> engine.by = NoIdentity

(* A callback runs under the marker of the task or thread that runs it. *)
MarkerInv ==
  /\ \A r \in Runs : disp[r] \in {"dispatch", "callback"} => marker = Dispatcher
  /\ op \in {"drain", "drainCallback"} => marker = owner /\ owner # NoIdentity
  /\ marker # NoIdentity => \/ op \in {"drain", "drainCallback"}
                            \/ \E r \in Runs : disp[r] \in {"dispatch", "callback"}
  /\ callback # NoChannel => op = "drainCallback" \/ \E r \in Runs : disp[r] = "callback"

(* At most one dispatcher lives, and none where dispatch is manual. *)
TaskInv ==
  /\ OneDispatcher
  /\ manual => \A r \in Runs : disp[r] = "none"
  /\ ~manual => op \notin {"drain", "drainCallback"}

WorkerInv == worker # "none" => worker # "Stopped" /\ rt # "Stopped"

(* What start() and stop() may still find, and that they end a Stopped state. *)
StepInv ==
  /\ op # "idle" => life # "Stopped"
  /\ op \in {"startRuntime", "startDispatcher"} =>
       runs < MaxRuns /\ callback = NoChannel /\ \A r \in Runs : disp[r] = "none"
  /\ op = "startRuntime" => worker = "none"
  /\ op = "wait" /\ rtStopped => worker = "none"
  /\ life = "Stopped" => pubLife = "Stopped"

ControlInv ==
  /\ TypeOK /\ EngineTyped
  /\ MarkerInv /\ TaskInv /\ WorkerInv /\ StepInv /\ StoppedIsQuiescent /\ ConfigCopiesAgree

-----------------------------------------------------------------------------
(* No call is accepted from inside a callback. *)
LEMMA MutationFacts ==
  ASSUME ControlInv, NEW t \in Callers, Mutation(t)
  PROVE  t \in Threads /\ t # engine.by /\ op = "idle" /\ owner' \in Threads
         /\ owner \in {NoIdentity, t} /\ owner' = t
  <1> USE LifecycleAssumption
  <1>1. CASE t = Dispatcher
    BY <1>1 DEF Mutation, CanCall, CallbackMutationRejected, ControlInv, MarkerInv
  <1>2. CASE t \in Threads
    <2>1. op \in {"idle", "drainCallback"} /\ t # engine.by
      BY <1>2 DEF Mutation, CanCall
    <2>2. owner \in {NoIdentity, t} /\ owner' = t /\ marker # t
      BY <1>2 DEF Mutation, ClaimOrValidateLifecycleOwner, CallbackMutationRejected
    <2>3. op # "drainCallback"
      BY <2>2 DEF ControlInv, MarkerInv
    <2> QED
      BY <1>2, <2>1, <2>2, <2>3
  <1> QED
    BY <1>1, <1>2 DEF Callers

(* While the facade is stopped nobody is in a callback. *)
LEMMA StoppedFacts ==
  ASSUME ControlInv, life = "Stopped"
  PROVE  /\ op = "idle" /\ marker = NoIdentity /\ callback = NoChannel /\ worker = "none"
         /\ \A r \in Runs : disp[r] = "none"
  BY DEF ControlInv, StepInv, StoppedIsQuiescent, MarkerInv

LEMMA ControlInit == Init => ControlInv
  <1> SUFFICES ASSUME Init PROVE ControlInv
    OBVIOUS
  <1> USE LifecycleAssumption
  <1>1. TypeOK
    <2>1. 0 \in 0 .. MaxRuns
      OBVIOUS
    <2>2. disp \in [Runs -> Tasks] /\ chanOn \in [Channels -> BOOLEAN]
      BY DEF Init, Tasks
    <2> QED
      BY <2>1, <2>2 DEF Init, TypeOK, Lives, Tasks
  <1>2. EngineTyped
    BY DEF Init, EngineTyped, EngineRecord
  <1>3. MarkerInv /\ TaskInv
    BY DEF Init, MarkerInv, TaskInv, OneDispatcher
  <1>4. WorkerInv /\ StepInv /\ StoppedIsQuiescent /\ ConfigCopiesAgree
    BY DEF Init, WorkerInv, StepInv, StoppedIsQuiescent, ConfigCopiesAgree
  <1> QED
    BY <1>1, <1>2, <1>3, <1>4 DEF ControlInv

(* A step outside dispatch leaves its invariants alone. *)
LEMMA OutsideDispatch ==
  ASSUME ControlInv, UNCHANGED <<manual, marker, disp, callback>>, done' = done,
         {op, op'} \cap {"drain", "drainCallback"} = {}
  PROVE  MarkerInv' /\ TaskInv'
  BY DEF ControlInv, MarkerInv, TaskInv, OneDispatcher

(* So does a call that only claims the lifecycle and changes registrations. *)
LEMMA ClaimOnly ==
  ASSUME ControlInv, UNCHANGED <<manual, life, marker, op, runReq, done, disp, runs, callback, chanOn,
                                 rt, worker, rtStopped, pubLife>>,
         owner' \in Threads \cup {NoIdentity}, owner # NoIdentity => owner' = owner,
         EngineTyped', ConfigCopiesAgree'
  PROVE  ControlInv'
  <1>1. TypeOK'
    BY DEF ControlInv, TypeOK
  <1>2. MarkerInv' /\ TaskInv'
    BY DEF ControlInv, MarkerInv, TaskInv, OneDispatcher
  <1>3. WorkerInv' /\ StepInv' /\ StoppedIsQuiescent'
    BY DEF ControlInv, WorkerInv, StepInv, StoppedIsQuiescent
  <1> QED
    BY <1>1, <1>2, <1>3 DEF ControlInv

-----------------------------------------------------------------------------
(* The owner's steps. *)
LEMMA StartSteps ==
  ASSUME ControlInv, StartBegin \/ StartRuntime \/ StartDispatcher
  PROVE  ControlInv'
  <1> USE LifecycleAssumption
  <1>1. CASE StartBegin
    <2>1. owner' \in Threads /\ op = "idle"
      BY <1>1, MutationFacts DEF StartBegin
    <2>2. life = "Stopped" /\ runs < MaxRuns
      BY <1>1 DEF StartBegin
    <2>3. /\ marker = NoIdentity /\ callback = NoChannel /\ worker = "none"
          /\ \A r \in Runs : disp[r] = "none"
      BY <2>2, StoppedFacts
    <2>4. \/ life' = "Running" /\ op' = "startRuntime" /\ chanOn' = [c \in Channels |-> TRUE]
          \/ /\ life' = "Faulted" /\ op' = op
             /\ \E before \in SUBSET {c \in Channels : ~chanOn[c]} :
                  chanOn' = [c \in Channels |-> chanOn[c] \/ c \in before]
      BY <1>1 DEF StartBegin, Publish
    <2>5. pubLife' = life' /\ UNCHANGED <<manual, marker, runReq, done, disp, runs, callback, rt, worker,
                                           rtStopped, config, engine>>
      BY <1>1 DEF StartBegin, Publish
    <2>6. MarkerInv' /\ TaskInv'
      BY <2>1, <2>4, <2>5, OutsideDispatch
    <2>7. TypeOK'
      <3>1. chanOn' \in [Channels -> BOOLEAN] /\ op' \in Ops /\ life' \in Lives
        BY <2>1, <2>4 DEF ControlInv, TypeOK, Lives, Ops
      <3> QED
        BY <2>1, <2>5, <3>1 DEF ControlInv, TypeOK, Ops
    <2>9. EngineTyped'
      BY <2>5 DEF ControlInv, EngineTyped
    <2>8. WorkerInv' /\ StepInv' /\ StoppedIsQuiescent' /\ ConfigCopiesAgree'
      BY <2>1, <2>2, <2>3, <2>4, <2>5
         DEF ControlInv, WorkerInv, StepInv, StoppedIsQuiescent, ConfigCopiesAgree
    <2> QED
      BY <2>6, <2>7, <2>8, <2>9 DEF ControlInv
  <1>2. CASE StartRuntime
    <2>1. chanOn' = chanOn \/ chanOn' = [c \in Channels |-> FALSE]
      BY <1>2, ZenonT(60) DEF StartRuntime, StopChannels, ControlInv, StepInv, TypeOK
    <2>2. op = "startRuntime" /\ op' \in {"idle", "startDispatcher"} /\ life' \in Lives
          /\ pubLife' \in Lives /\ rt' \in Lives /\ worker' \in {worker, "idle"}
          /\ worker = "none" /\ callback = NoChannel /\ (\A r \in Runs : disp[r] = "none")
          /\ chanOn' \in [Channels -> BOOLEAN]
      BY <1>2, <2>1 DEF StartRuntime, Publish, ControlInv, StepInv, TypeOK, Lives
    <2>6. MarkerInv' /\ TaskInv'
      BY <1>2, <2>2, OutsideDispatch DEF StartRuntime
    <2>7. TypeOK' /\ EngineTyped'
      BY <1>2, <2>2 DEF StartRuntime, ControlInv, TypeOK, EngineTyped
    <2>8. WorkerInv' /\ StepInv' /\ StoppedIsQuiescent' /\ ConfigCopiesAgree'
      <3>1. CASE rt' = "Running" /\ worker' = "idle" /\ op' = "startDispatcher"
                 /\ UNCHANGED <<life, pubLife, chanOn>>
        BY <1>2, <2>2, <3>1
           DEF StartRuntime, ControlInv, WorkerInv, StepInv, StoppedIsQuiescent, ConfigCopiesAgree
      <3>2. CASE worker' = worker /\ op' = "idle" /\ pubLife' = life'
                 /\ chanOn' = [c \in Channels |-> FALSE]
        BY <1>2, <2>2, <3>2
           DEF StartRuntime, ControlInv, WorkerInv, StepInv, StoppedIsQuiescent, ConfigCopiesAgree
      <3>3. StopChannels = [c \in Channels |-> FALSE]
        BY <2>2 DEF StopChannels, ControlInv, TypeOK
      <3> QED
        BY <1>2, <2>2, <3>1, <3>2, <3>3 DEF StartRuntime, Publish
    <2> QED
      BY <2>6, <2>7, <2>8 DEF ControlInv
  <1>3. CASE StartDispatcher
    <2>1. /\ runs < MaxRuns /\ callback = NoChannel /\ op' = "idle"
          /\ \A r \in Runs : disp[r] = "none"
      BY <1>3 DEF StartDispatcher, ControlInv, StepInv
    <2>2. chanOn' \in [Channels -> BOOLEAN]
      BY <1>3 DEF StartDispatcher, StopChannels, ControlInv, TypeOK
    <2>3. runs + 1 \in Runs /\ runs + 1 \in 0 .. MaxRuns
      BY <2>1 DEF ControlInv, TypeOK, Runs
    <2>4. worker' \in Lives \cup {"none", "idle"} /\ rt' \in Lives
          /\ (worker' # "none" => worker' # "Stopped" /\ rt' # "Stopped")
          /\ life' \in {life, "Faulted"} /\ life # "Stopped" /\ pubLife' \in Lives
      BY <1>3 DEF StartDispatcher, RuntimeStop, Publish, ControlInv, StepInv, TypeOK, WorkerInv, Lives
    <2>5. CASE disp' = disp /\ runs' = runs /\ done'
      BY <1>3, <2>1, <2>2, <2>4, <2>5, ZenonT(60)
         DEF StartDispatcher, ControlInv, TypeOK, EngineTyped, MarkerInv, TaskInv, OneDispatcher,
             WorkerInv, StepInv, StoppedIsQuiescent, ConfigCopiesAgree, Lives
    <2>6. CASE ~manual /\ ~done' /\ runs' = runs + 1
               /\ disp' = [disp EXCEPT ![runs + 1] = "check"]
      <3>1. \A r \in Runs : disp'[r] = IF r = runs + 1 THEN "check" ELSE "none"
        BY <2>1, <2>3, <2>6 DEF ControlInv, TypeOK
      <3>2. disp' \in [Runs -> Tasks]
        BY <2>3, <2>6 DEF ControlInv, TypeOK, Tasks
      <3> QED
        BY <1>3, <2>1, <2>2, <2>3, <2>4, <2>6, <3>1, <3>2, ZenonT(60)
           DEF StartDispatcher, ControlInv, TypeOK, EngineTyped, MarkerInv, TaskInv, OneDispatcher,
               WorkerInv, StepInv, StoppedIsQuiescent, ConfigCopiesAgree, Lives, Tasks
    <2> QED
      BY <1>3, <2>5, <2>6 DEF StartDispatcher
  <1> QED
    BY <1>1, <1>2, <1>3

LEMMA StopSteps ==
  ASSUME ControlInv, StopBegin \/ StopRuntime \/ StopTimeout \/ StopFinish
  PROVE  ControlInv'
  <1> USE LifecycleAssumption
  <1>1. CASE StopBegin
    <2>1. owner' \in Threads /\ op = "idle"
      BY <1>1, MutationFacts DEF StopBegin
    <2>6. MarkerInv' /\ TaskInv'
      BY <1>1, <2>1, OutsideDispatch DEF StopBegin
    <2>7. TypeOK' /\ EngineTyped'
      <3>1. UNCHANGED <<manual, marker, done, disp, runs, callback, chanOn, rt, worker, rtStopped, pubLife,
                        engine>> /\ life' = "Stopping" /\ runReq' = FALSE /\ op' = "stopRuntime"
        BY <1>1 DEF StopBegin
      <3>2. EngineTyped'
        BY <3>1 DEF ControlInv, EngineTyped
      <3>3. life' \in Lives /\ op' \in Ops /\ runReq' \in BOOLEAN
        BY <3>1 DEF Lives, Ops
      <3> QED
        BY <2>1, <3>1, <3>2, <3>3 DEF ControlInv, TypeOK, Ops
    <2>8. WorkerInv' /\ StepInv' /\ StoppedIsQuiescent' /\ ConfigCopiesAgree'
      BY <1>1, <2>1
         DEF StopBegin, ControlInv, WorkerInv, StepInv, StoppedIsQuiescent, ConfigCopiesAgree
    <2> QED
      BY <2>6, <2>7, <2>8 DEF ControlInv
  <1>2. CASE StopRuntime
    <2>1. worker' \in Lives \cup {"none", "idle"} /\ rt' \in Lives /\ rtStopped' \in BOOLEAN
          /\ (worker' # "none" => worker' # "Stopped" /\ rt' # "Stopped")
          /\ (rtStopped' => worker' = "none") /\ op' = "wait" /\ op = "stopRuntime"
          /\ life # "Stopped" /\ pubLife' = "Stopping"
      BY <1>2 DEF StopRuntime, RuntimeStop, ControlInv, TypeOK, WorkerInv, StepInv, Lives
    <2>6. MarkerInv' /\ TaskInv'
      BY <1>2, <2>1, OutsideDispatch DEF StopRuntime
    <2>7. TypeOK' /\ EngineTyped'
      BY <1>2, <2>1 DEF StopRuntime, ControlInv, TypeOK, EngineTyped, Lives
    <2>8. WorkerInv' /\ StepInv' /\ StoppedIsQuiescent' /\ ConfigCopiesAgree'
      BY <1>2, <2>1
         DEF StopRuntime, ControlInv, WorkerInv, StepInv, StoppedIsQuiescent, ConfigCopiesAgree
    <2> QED
      BY <2>6, <2>7, <2>8 DEF ControlInv
  <1>3. CASE StopTimeout
    <2>6. MarkerInv' /\ TaskInv'
      BY <1>3, OutsideDispatch DEF StopTimeout
    <2>7. TypeOK' /\ EngineTyped'
      BY <1>3 DEF StopTimeout, ControlInv, TypeOK, EngineTyped, Lives
    <2>8. WorkerInv' /\ StepInv' /\ StoppedIsQuiescent' /\ ConfigCopiesAgree'
      BY <1>3
         DEF StopTimeout, ControlInv, WorkerInv, StepInv, StoppedIsQuiescent, ConfigCopiesAgree
    <2> QED
      BY <2>6, <2>7, <2>8 DEF ControlInv
  <1>4. CASE StopFinish
    <2>1. op = "wait" /\ done /\ op' = "idle" /\ chanOn' = StopChannels
      BY <1>4 DEF StopFinish
    <2>2. \A r \in Runs : disp[r] = "none"
      BY <2>1 DEF ControlInv, TaskInv, OneDispatcher
    <2>3. callback = NoChannel /\ marker = NoIdentity
      BY <2>1, <2>2 DEF ControlInv, MarkerInv
    <2>4. chanOn' = [c \in Channels |-> FALSE]
      BY <2>1, <2>3 DEF StopChannels, ControlInv, TypeOK
    <2>5. \/ life' = "Stopped" /\ pubLife' = "Stopped" /\ worker = "none"
          \/ life' = "Faulted" /\ pubLife' = pubLife
      BY <1>4, <2>1 DEF StopFinish, Publish, ControlInv, StepInv
    <2>6. MarkerInv' /\ TaskInv'
      BY <1>4, <2>1, <2>2, <2>3, <2>4, <2>5, OutsideDispatch DEF StopFinish
    <2>7. TypeOK' /\ EngineTyped'
      BY <1>4, <2>1, <2>2, <2>3, <2>4, <2>5 DEF StopFinish, ControlInv, TypeOK, EngineTyped, Lives
    <2>8. WorkerInv' /\ StepInv' /\ StoppedIsQuiescent' /\ ConfigCopiesAgree'
      BY <1>4, <2>1, <2>2, <2>3, <2>4, <2>5
         DEF StopFinish, ControlInv, WorkerInv, StepInv, StoppedIsQuiescent, ConfigCopiesAgree
    <2> QED
      BY <2>6, <2>7, <2>8 DEF ControlInv
  <1> QED
    BY <1>1, <1>2, <1>3, <1>4

LEMMA OwnerMoves == ControlInv /\ OwnerStep => ControlInv'
  <1> SUFFICES ASSUME ControlInv, OwnerStep PROVE ControlInv'
    OBVIOUS
  <1>1. CASE RejectedCall
    <2>1. owner' \in Threads /\ (owner # NoIdentity => owner' = owner)
      BY <1>1, MutationFacts DEF RejectedCall
    <2>2. EngineTyped' /\ ConfigCopiesAgree'
      BY <1>1 DEF RejectedCall, ControlInv, EngineTyped, ConfigCopiesAgree
    <2> QED
      BY <1>1, <2>1, <2>2, ClaimOnly DEF RejectedCall
  <1>2. CASE Configure
    <2>1. owner' \in Threads /\ (owner # NoIdentity => owner' = owner) /\ pubLife = "Stopped"
      BY <1>2, MutationFacts DEF Configure, StoppedMutation, ControlInv, StepInv
    <2>2. ConfigCopiesAgree'
      BY <1>2, <2>1 DEF Configure, ConfigCopiesAgree
    <2>3. EngineTyped'
      BY <1>2 DEF Configure, ControlInv, EngineTyped
    <2> QED
      BY <1>2, <2>1, <2>2, <2>3, ClaimOnly DEF Configure, StoppedMutation
  <1> QED
    BY <1>1, <1>2, StartSteps, StopSteps DEF OwnerStep

-----------------------------------------------------------------------------
(* The worker, the dispatcher and drain. *)
LEMMA WorkerMoves == ControlInv /\ WorkerStep => ControlInv'
  <1> SUFFICES ASSUME ControlInv, WorkerStep PROVE ControlInv'
    OBVIOUS
  <1>1. CASE OnDiagnostics
    <2>1. worker \in Lives /\ worker # "Stopped" /\ worker' = "idle" /\ rt # "Stopped"
          /\ life' = worker /\ pubLife' = worker
      BY <1>1 DEF OnDiagnostics, MapLifecycle, ControlInv, TypeOK, WorkerInv, Lives
    <2>2. life # "Stopped"
      BY <1>1 DEF OnDiagnostics, ControlInv, StoppedIsQuiescent
    <2>3. TypeOK' /\ EngineTyped'
      BY <1>1, <2>1 DEF OnDiagnostics, WorkerUnchanged, ControlInv, TypeOK, EngineTyped, Lives
    <2>4. MarkerInv' /\ TaskInv'
      BY <1>1 DEF OnDiagnostics, WorkerUnchanged, ControlInv, MarkerInv, TaskInv, OneDispatcher
    <2>5. WorkerInv' /\ StepInv' /\ StoppedIsQuiescent' /\ ConfigCopiesAgree'
      BY <1>1, <2>1, <2>2 DEF OnDiagnostics, WorkerUnchanged, ControlInv, WorkerInv, StepInv,
                              StoppedIsQuiescent, ConfigCopiesAgree
    <2> QED
      BY <2>3, <2>4, <2>5 DEF ControlInv
  <1>2. CASE WorkerTakesReport \/ WorkerFaults \/ WorkerEnds
    <2> USE <1>2 DEF WorkerTakesReport, WorkerFaults, WorkerEnds, WorkerUnchanged, ControlInv
    <2>1. TypeOK' /\ EngineTyped'
      BY DEF TypeOK, EngineTyped, Lives
    <2>2. MarkerInv' /\ TaskInv'
      BY DEF MarkerInv, TaskInv, OneDispatcher
    <2>3. WorkerInv' /\ ConfigCopiesAgree'
      BY DEF WorkerInv, ConfigCopiesAgree
    <2>4. StepInv'
      BY DEF StepInv
    <2>5. StoppedIsQuiescent'
      BY DEF StoppedIsQuiescent
    <2> QED
      BY <2>1, <2>2, <2>3, <2>4, <2>5
  <1> QED
    BY <1>1, <1>2 DEF WorkerStep

(* A step of the dispatcher changes the state of the one task that lives. *)
LEMMA DispatcherMoves == ASSUME ControlInv, NEW r \in Runs, DispatcherStep(r) PROVE ControlInv'
  <1> USE LifecycleAssumption
  <1>1. PICK next \in Tasks : disp' = [disp EXCEPT ![r] = next]
    BY DEF DispatcherStep, LoopCheck, DispatchOne, CallbackReturns, DispatcherDone, Tasks
  <1>2. disp[r] # "none"
    BY DEF DispatcherStep, LoopCheck, DispatchOne, CallbackReturns, DispatcherDone
  <1>3. ~manual /\ ~done /\ life # "Stopped" /\ op \notin {"drain", "drainCallback"}
        /\ op \notin {"startRuntime", "startDispatcher"}
    BY <1>2 DEF ControlInv, TaskInv, OneDispatcher, StepInv, StoppedIsQuiescent
  <1>4. \A q \in Runs : q # r => disp[q] = "none" /\ disp'[q] = "none"
    BY <1>1, <1>2 DEF ControlInv, TaskInv, OneDispatcher, TypeOK
  <1>5. disp'[r] = next /\ disp' \in [Runs -> Tasks]
    BY <1>1 DEF ControlInv, TypeOK, Tasks
  <1>6. /\ next \in {"dispatch", "callback"} => marker' = Dispatcher
        /\ next \notin {"dispatch", "callback"} => marker' = NoIdentity
        /\ next = "callback" => callback' \in Channels
        /\ next # "callback" => callback' = NoChannel
        /\ done' = (next = "none") /\ UNCHANGED <<op, runReq>>
    <2>1. disp[r] # "callback" => callback = NoChannel
      BY <1>3, <1>4 DEF ControlInv, MarkerInv
    <2>2. disp[r] \notin {"dispatch", "callback"} => marker = NoIdentity
      BY <1>3, <1>4 DEF ControlInv, MarkerInv
    <2>3. disp[r] \in {"dispatch", "callback"} => marker = Dispatcher
      BY DEF ControlInv, MarkerInv
    <2>4. done = FALSE
      BY <1>3 DEF ControlInv, TypeOK
    <2>5. CASE LoopCheck(r)
      BY <1>5, <2>1, <2>2, <2>4, <2>5 DEF LoopCheck, ControlInv, TypeOK
    <2>6. CASE DispatchOne(r)
      BY <1>5, <2>1, <2>3, <2>4, <2>6 DEF DispatchOne, ControlInv, TypeOK
    <2>7. CASE CallbackReturns(r)
      BY <1>5, <2>4, <2>7 DEF CallbackReturns, ControlInv, TypeOK
    <2>8. CASE DispatcherDone(r)
      BY <1>5, <2>1, <2>2, <2>4, <2>8 DEF DispatcherDone, ControlInv, TypeOK
    <2> QED
      BY <2>5, <2>6, <2>7, <2>8 DEF DispatcherStep
  <1>7. DispatchUnchanged /\ engine' = engine
    BY DEF DispatcherStep, LoopCheck, DispatchOne, CallbackReturns, DispatcherDone, DispatchUnchanged
  <1>8. TypeOK' /\ EngineTyped'
    <2>1. marker' \in Threads \cup {NoIdentity, Dispatcher} /\ callback' \in Channels \cup {NoChannel}
          /\ done' \in BOOLEAN
      BY <1>6
    <2> QED
      BY <1>5, <1>6, <1>7, <2>1 DEF ControlInv, TypeOK, EngineTyped, DispatchUnchanged, Tasks
  <1>9. MarkerInv'
    BY <1>3, <1>4, <1>5, <1>6, <1>7 DEF MarkerInv, DispatchUnchanged, Tasks
  <1>10. TaskInv'
    BY <1>3, <1>4, <1>5, <1>6, <1>7 DEF TaskInv, OneDispatcher, DispatchUnchanged
  <1>11. WorkerInv' /\ StepInv' /\ StoppedIsQuiescent' /\ ConfigCopiesAgree'
    BY <1>3, <1>6, <1>7
       DEF ControlInv, WorkerInv, StepInv, StoppedIsQuiescent, ConfigCopiesAgree, DispatchUnchanged
  <1> QED
    BY <1>8, <1>9, <1>10, <1>11 DEF ControlInv

LEMMA DrainMoves == ControlInv /\ DrainStep => ControlInv'
  <1> SUFFICES ASSUME ControlInv, DrainStep PROVE ControlInv'
    OBVIOUS
  <1> USE LifecycleAssumption
  <1>1. manual /\ \A r \in Runs : disp[r] = "none"
    BY DEF DrainStep, DrainBegin, DrainOne, DrainCallbackReturns, ControlInv, TaskInv
  <1>2. life # "Stopped" /\ owner # NoIdentity
    BY DEF DrainStep, DrainBegin, DrainOne, DrainCallbackReturns, ControlInv, StepInv, MarkerInv
  <1>3. DispatchUnchanged /\ engine' = engine /\ disp' = disp /\ done' = done /\ runReq' = runReq
    BY DEF DrainStep, DrainBegin, DrainOne, DrainCallbackReturns, DispatchUnchanged
  <1>4. /\ op' \in {"idle", "drain", "drainCallback"}
        /\ op' = "idle" => marker' = NoIdentity
        /\ op' # "idle" => marker' = owner
        /\ op' = "drainCallback" => callback' \in Channels
        /\ op' # "drainCallback" => callback' = NoChannel
    BY <1>1 DEF DrainStep, DrainBegin, DrainOne, DrainCallbackReturns, ControlInv, MarkerInv, TypeOK
  <1>5. TypeOK' /\ EngineTyped'
    <2>1. marker' \in Threads \cup {NoIdentity, Dispatcher} /\ callback' \in Channels \cup {NoChannel}
      BY <1>4 DEF ControlInv, TypeOK
    <2> QED
      BY <1>3, <1>4, <2>1 DEF ControlInv, TypeOK, EngineTyped, DispatchUnchanged
  <1>6. MarkerInv' /\ TaskInv'
    BY <1>1, <1>2, <1>3, <1>4 DEF MarkerInv, TaskInv, OneDispatcher, DispatchUnchanged
  <1>7. WorkerInv' /\ StepInv' /\ StoppedIsQuiescent' /\ ConfigCopiesAgree'
    BY <1>2, <1>3, <1>4 DEF ControlInv, WorkerInv, StepInv, StoppedIsQuiescent, ConfigCopiesAgree,
                            DispatchUnchanged
  <1> QED
    BY <1>5, <1>6, <1>7 DEF ControlInv

-----------------------------------------------------------------------------
(* Subscribers and the engine leave the lifecycle alone, but for its owner. *)
LEMMA SubscriberMoves == ControlInv /\ SubscriberStep => ControlInv'
  <1> SUFFICES ASSUME ControlInv, SubscriberStep PROVE ControlInv'
    OBVIOUS
  <1>1. StoppedMutation /\ UNCHANGED <<config, engine>>
    BY DEF SubscriberStep, SubscribeTyped, ProviderSubscribe, UnsubscribeTyped, ProviderUnsubscribe
  <1>2. owner' \in Threads /\ (owner # NoIdentity => owner' = owner)
    BY <1>1, MutationFacts DEF StoppedMutation
  <1>3. EngineTyped' /\ ConfigCopiesAgree'
    BY <1>1 DEF ControlInv, EngineTyped, ConfigCopiesAgree
  <1> QED
    BY <1>1, <1>2, <1>3, ClaimOnly DEF StoppedMutation

LEMMA EngineMoves == ControlInv /\ EngineStep => ControlInv'
  <1> SUFFICES ASSUME ControlInv, EngineStep PROVE ControlInv'
    OBVIOUS
  <1> USE LifecycleAssumption
  <1>1. EngineUnchanged
    BY DEF EngineStep, AttachBegin, DetachBegin, EngineBegins, AttachRule, AttachDone, UndoOne, UndoDone
  <1>2. owner' = owner \/ Claims
    BY DEF EngineStep, AttachBegin, DetachBegin, EngineBegins, AttachRule, AttachDone, UndoOne, UndoDone
  <1>3. owner' \in Threads \cup {NoIdentity} /\ (owner # NoIdentity => owner' = owner)
    BY <1>2 DEF Claims, ControlInv, TypeOK, EngineTyped, EngineRecord
  <1>4. EngineTyped'
    <2>1. CASE AttachBegin \/ DetachBegin
      <3>1. PICK t \in Threads, doing \in {"attach", "undo"} :
              engine' = [engine EXCEPT !.doing = doing, !.by = t, !.rule = 1]
        BY <2>1 DEF AttachBegin, DetachBegin, EngineBegins
      <3>2. engine' \in EngineRecord(engine.held) /\ engine'.held = engine.held
            /\ engine'.doing = doing /\ engine'.by = t
        BY <3>1 DEF ControlInv, EngineTyped, EngineRecord
      <3> QED
        BY <3>2, ZenonT(60) DEF EngineTyped
    <2>2. CASE AttachRule
      <3> DEFINE held == Append(engine.held, Issued(reg'))
      <3>1. \/ engine' = [engine EXCEPT !.rule = @ + 1]
            \/ engine' = [engine EXCEPT !.rule = @ + 1, !.held = held]
            \/ engine' = [engine EXCEPT !.doing = "undo"]
        BY <2>2 DEF AttachRule
      <3>2. engine \in EngineRecord(engine.held) /\ engine.doing = "attach" /\ engine.by # NoIdentity
        BY <2>2 DEF AttachRule, ControlInv, EngineTyped
      <3> HIDE DEF held
      <3>3. engine' \in EngineRecord(engine'.held) /\ engine'.by = engine.by /\ engine'.doing # "idle"
        <4>1. CASE engine' = [engine EXCEPT !.rule = @ + 1]
          BY <3>2, <4>1 DEF EngineRecord
        <4>2. CASE engine' = [engine EXCEPT !.rule = @ + 1, !.held = held]
          <5> DEFINE e == [engine EXCEPT !.rule = @ + 1]
          <5>1. e \in EngineRecord(engine.held) /\ e.by = engine.by /\ e.doing = "attach"
            BY <3>2 DEF EngineRecord
          <5>2. engine' = [e EXCEPT !.held = held]
            BY <3>2, <4>2 DEF EngineRecord
          <5> HIDE DEF e
          <5>3. engine'.held = held /\ engine'.by = e.by /\ engine'.doing = e.doing
                /\ engine' \in EngineRecord(held)
            BY <5>1, <5>2 DEF EngineRecord
          <5> QED
            BY <5>1, <5>3
        <4>3. CASE engine' = [engine EXCEPT !.doing = "undo"]
          BY <3>2, <4>3 DEF EngineRecord
        <4> QED
          BY <3>1, <4>1, <4>2, <4>3
      <3> QED
        BY <3>2, <3>3 DEF EngineTyped
    <2>3. CASE AttachDone \/ UndoDone
      BY <2>3 DEF AttachDone, UndoDone, EngineEnds, ControlInv, EngineTyped, EngineRecord
    <2>4. CASE UndoOne
      BY <2>4 DEF UndoOne, ControlInv, EngineTyped, EngineRecord
    <2> QED
      BY <2>1, <2>2, <2>3, <2>4 DEF EngineStep
  <1>5. ConfigCopiesAgree'
    BY <1>1 DEF EngineUnchanged, ControlInv, ConfigCopiesAgree
  <1> QED
    BY <1>1, <1>3, <1>4, <1>5, ClaimOnly DEF EngineUnchanged

LEMMA ControlNext == ControlInv /\ [Next]_vars => ControlInv'
  <1> SUFFICES ASSUME ControlInv, [Next]_vars PROVE ControlInv'
    OBVIOUS
  <1>1. CASE UNCHANGED vars
    <2>1. EngineTyped' /\ ConfigCopiesAgree' /\ owner' \in Threads \cup {NoIdentity}
      BY <1>1 DEF vars, lifeVars, ControlInv, TypeOK, EngineTyped, ConfigCopiesAgree
    <2> QED
      BY <1>1, <2>1, ClaimOnly DEF vars, lifeVars
  <1>2. CASE \E r \in Runs : DispatcherStep(r)
    BY <1>2, DispatcherMoves
  <1> QED
    BY <1>1, <1>2, OwnerMoves, WorkerMoves, DrainMoves, SubscriberMoves, EngineMoves DEF Next

(* The lifecycle's inductive invariant holds in every reachable state *)
(* (vehicle_telemetry.cpp, start to dispatcher_task_entry).           *)
THEOREM ControlHolds == Spec => []ControlInv
  BY ControlInit, ControlNext, PTL DEF Spec

(* A stopped facade has no worker, dispatcher, callback or running channel, and *)
(* no two dispatchers overlap, whatever stop() timed out on, for any number of  *)
(* runs, threads and channels (stop, workers_done, dispatcher_loop).            *)
THEOREM QuiescentWhenStopped == Spec => []FacadeQuiescent
  <1>1. ControlInv => FacadeQuiescent
    BY DEF ControlInv, TaskInv, FacadeQuiescent
  <1> QED
    BY <1>1, ControlHolds, PTL

(* No registration, record, channel slot or configuration changes while a       *)
(* callback runs or a dispatch is under way (callback_mutation_rejected,        *)
(* claim_or_validate_lifecycle_owner).                                          *)
THEOREM RegistryStable == Spec => RegistryStableInDispatch
  <1> DEFINE A == callback # NoChannel \/ marker # NoIdentity => UNCHANGED <<reg, config>>
  <1>1. ControlInv /\ [Next]_vars => A
    <2> SUFFICES ASSUME ControlInv, [Next]_vars, life # "Stopped" PROVE UNCHANGED <<reg, config>>
      BY StoppedFacts
    <2>1. CASE EngineStep
      BY <2>1 DEF EngineStep, AttachBegin, DetachBegin, EngineBegins, AttachRule, AttachDone, UndoOne,
                  UndoDone, EngineUnchanged, CanAttach, CanUndo, Accepted
    <2>2. CASE SubscriberStep
      BY <2>2 DEF SubscriberStep, SubscribeTyped, ProviderSubscribe, UnsubscribeTyped,
                  ProviderUnsubscribe, StoppedMutation
    <2>3. CASE OwnerStep
      BY <2>3 DEF OwnerStep, RejectedCall, StartBegin, StartRuntime, StartDispatcher, StopBegin,
                  StopRuntime, StopTimeout, StopFinish, Configure, StoppedMutation
    <2>4. CASE WorkerStep
      BY <2>4 DEF WorkerStep, WorkerTakesReport, OnDiagnostics, WorkerFaults, WorkerEnds,
                  WorkerUnchanged
    <2>5. CASE DrainStep \/ \E r \in Runs : DispatcherStep(r)
      BY <2>5 DEF DrainStep, DrainBegin, DrainOne, DrainCallbackReturns, DispatcherStep, LoopCheck,
                  DispatchOne, CallbackReturns, DispatcherDone, DispatchUnchanged
    <2>6. CASE UNCHANGED vars
      BY <2>6 DEF vars, lifeVars
    <2> QED
      BY <2>1, <2>2, <2>3, <2>4, <2>5, <2>6 DEF Next
  <1> QED
    BY <1>1, ControlHolds, PTL DEF Spec, RegistryStableInDispatch

-----------------------------------------------------------------------------
(* Registrations. *)
Generations == 0 .. MaxGeneration
Contexts == {0} \cup Records
Entries == [active : BOOLEAN, generic : BOOLEAN, gen : Generations, handle : Slots \cup {0},
            serial : Nat]
Trampolines == [active : BOOLEAN, channel : Channels \cup {NoChannel}, slot : Slots \cup {0},
                gen : Generations]
Tokens == [channel : Channels, slot : Slots, gen : Generations, generic : BOOLEAN, serial : Nat]
Books == [regs : [Channels -> [Slots -> Entries]],
          subs : [Channels -> [Slots -> {<<>>} \cup {<<k>> : k \in Contexts}]],
          records : [Records -> Trampolines], issued : SUBSET Tokens, next : Nat]

(* How far a slot's generation has gone since a. *)
Dist(a, b) == IF b > a THEN b - a ELSE (b - a) + MaxGeneration

(* A live registration has a channel slot of its own, and no other is in use. *)
HandleInv(R) ==
  /\ \A c \in Channels, s \in Slots :
       /\ R.regs[c][s].generic => R.regs[c][s].active
       /\ R.regs[c][s].active =>
            R.regs[c][s].handle \in Slots /\ R.subs[c][R.regs[c][s].handle] # <<>>
  /\ \A c \in Channels, s, t \in Slots :
       /\ R.regs[c][s].active /\ R.regs[c][t].active
       /\ R.regs[c][s].handle = R.regs[c][t].handle
       => s = t
  /\ \A c \in Channels, x \in Slots : R.subs[c][x] # <<>> =>
       \E s \in Slots : R.regs[c][s].active /\ R.regs[c][s].handle = x

(* The record of a live generic registration. *)
Names(R, k, c, s) == R.records[k] = [active |-> TRUE, channel |-> c, slot |-> s,
                                     gen |-> R.regs[c][s].gen]

(* A channel slot leads to the record of its registration, and a record in use *)
(* to the channel slot that leads to it.                                       *)
ContextInv(R) ==
  \A c \in Channels, s \in Slots : R.regs[c][s].active =>
    IF R.regs[c][s].generic
      THEN \E k \in Records : R.subs[c][R.regs[c][s].handle] = <<k>> /\ Names(R, k, c, s)
      ELSE R.subs[c][R.regs[c][s].handle] = <<0>>

RecordInv(R) ==
  \A k \in Records : R.records[k].active =>
    \E c \in Channels, s \in Slots :
      R.regs[c][s].generic /\ Names(R, k, c, s) /\ R.subs[c][R.regs[c][s].handle] = <<k>>

(* A token is as old as its serial number says. *)
TokenInv(R) ==
  /\ \A c \in Channels, s \in Slots : R.regs[c][s].serial < R.next
  /\ \A tok \in R.issued :
       LET e == R.regs[tok.channel][tok.slot] IN
       /\ tok.serial < R.next /\ tok.gen # 0 /\ e.gen # 0
       /\ \/ e.serial = tok.serial /\ e.gen = tok.gen
          \/ e.serial >= tok.serial + Dist(tok.gen, e.gen)

BookInv(R) ==
  R \in Books /\ HandleInv(R) /\ ContextInv(R) /\ RecordInv(R) /\ TokenInv(R)

-----------------------------------------------------------------------------
(* Choosing the first free slot or record: there is one. *)
LEMMA Least ==
  ASSUME NEW S \in SUBSET Nat, IsFiniteSet(S), S # {}
  PROVE  First(S) \in S
  <1> DEFINE Below(t) == {s \in S : s < t}
             T == {Below(t) : t \in S}
             R == StrictSubsetOrdering(S)
  <1>1. T \subseteq FiniteSubsetsOf(S) /\ T # {}
    <2>1. \A t \in S : Below(t) \in SUBSET S
      OBVIOUS
    <2>2. \A U \in SUBSET S : IsFiniteSet(U)
      BY FS_Subset
    <2>3. \A t \in S : Below(t) \in FiniteSubsetsOf(S)
      BY <2>1, <2>2 DEF FiniteSubsetsOf
    <2> QED
      BY <2>3
  <1>2. PICK b \in T : \A c \in T : ~(<<c, b>> \in R)
    <2>1. IsWellFoundedOn(R, FiniteSubsetsOf(S))
      BY FS_StrictSubsetOrderingWellFounded
    <2> HIDE DEF R, T
    <2> QED
      BY <1>1, <2>1, WFMin
  <1>3. PICK s \in S : b = Below(s)
    OBVIOUS
  <1>4. ASSUME NEW t \in S, t < s PROVE FALSE
    <2>1. s \in Nat /\ t \in Nat /\ ~(t < t)
      OBVIOUS
    <2>2. t \in Below(s) /\ t \notin Below(t)
      BY <1>4, <2>1
    <2>3. \A u \in S : u < t => u < s
      BY <1>4
    <2>4. Below(t) \subseteq Below(s)
      BY <2>3
    <2>5. <<Below(t), Below(s)>> \in R
      BY <2>2, <2>4 DEF StrictSubsetOrdering
    <2> QED
      BY <1>2, <1>3, <2>5
  <1>5. \A t \in S : s <= t
    BY <1>4
  <1> HIDE DEF Below, T, R
  <1> QED
    BY <1>5 DEF First

LEMMA SlotFacts ==
  /\ Slots \subseteq Nat /\ IsFiniteSet(Slots) /\ Cardinality(Slots) \in Nat
  /\ IsFiniteSet(Channels \X Slots)
  /\ Cardinality(Channels \X Slots) = Cardinality(Records)
  /\ IsFiniteSet(Records) /\ Records \subseteq Nat \ {0}
  <1> USE LifecycleAssumption
  <1> DEFINE n == Cardinality(Channels) * Cardinality(Slots)
  <1>1. Cardinality(Channels) \in Nat /\ Cardinality(Slots) \in Nat
    BY FS_CardinalityType
  <1>2. n \in Nat
    BY <1>1, SMT
  <1>3. IsFiniteSet(Channels \X Slots) /\ Cardinality(Channels \X Slots) = n
    BY FS_Product
  <1>4. Records = 1 .. n
    BY DEF Records
  <1> HIDE DEF n
  <1>5. IsFiniteSet(Records) /\ Cardinality(Records) = n
    BY <1>2, <1>4, FS_Interval, SMT
  <1> QED
    BY <1>1, <1>2, <1>3, <1>4, <1>5

(* As many channel slots are in use as registrations are live, and as many *)
(* records as there are live generic registrations.                        *)
LEMMA Counts ==
  ASSUME NEW R, BookInv(R)
  PROVE  /\ \A c \in Channels :
              Cardinality({s \in Slots : R.regs[c][s].active})
                = Cardinality({s \in Slots : R.subs[c][s] # <<>>})
         /\ Cardinality({k \in Records : R.records[k].active})
              = Cardinality({p \in Channels \X Slots : R.regs[p[1]][p[2]].generic})
  <1>1. ASSUME NEW c \in Channels
        PROVE  Cardinality({s \in Slots : R.regs[c][s].active})
                 = Cardinality({s \in Slots : R.subs[c][s] # <<>>})
    <2> DEFINE A == {s \in Slots : R.regs[c][s].active}
               B == {s \in Slots : R.subs[c][s] # <<>>}
               f == [s \in A |-> R.regs[c][s].handle]
    <2>1. IsFiniteSet(A)
      BY SlotFacts, FS_Subset
    <2>2. f \in [A -> B]
      BY ZenonT(60) DEF BookInv, HandleInv
    <2>3. \A s, t \in A : f[s] = f[t] => s = t
      BY DEF BookInv, HandleInv
    <2>4. \A x \in B : \E s \in A : f[s] = x
      BY DEF BookInv, HandleInv
    <2> HIDE DEF A, B, f
    <2>5. f \in Bijection(A, B)
      BY <2>2, <2>3, <2>4 DEF Bijection, Injection, Surjection, IsInjective
    <2> QED
      BY <2>1, <2>5, FS_Bijection DEF ExistsBijection, A, B
  <1>2. Cardinality({k \in Records : R.records[k].active})
          = Cardinality({p \in Channels \X Slots : R.regs[p[1]][p[2]].generic})
    <2> DEFINE K == {k \in Records : R.records[k].active}
               P == {p \in Channels \X Slots : R.regs[p[1]][p[2]].generic}
               f == [k \in K |-> <<R.records[k].channel, R.records[k].slot>>]
    <2>1. IsFiniteSet(K)
      BY SlotFacts, FS_Subset, ZenonT(60)
    <2>2. \A k \in K : \E c \in Channels, s \in Slots :
            f[k] = <<c, s>> /\ R.regs[c][s].generic /\ R.subs[c][R.regs[c][s].handle] = <<k>>
      <3> SUFFICES ASSUME NEW k \in K
                   PROVE  \E c \in Channels, s \in Slots :
                            f[k] = <<c, s>> /\ R.regs[c][s].generic
                            /\ R.subs[c][R.regs[c][s].handle] = <<k>>
        OBVIOUS
      <3>1. PICK c \in Channels, s \in Slots :
              R.regs[c][s].generic /\ Names(R, k, c, s) /\ R.subs[c][R.regs[c][s].handle] = <<k>>
        BY ZenonT(60) DEF BookInv, RecordInv
      <3>2. f[k] = <<c, s>>
        BY <3>1 DEF Names
      <3> QED
        BY <3>1, <3>2, ZenonT(60)
    <2>3. \A p \in P : \E k \in K : f[k] = p
      <3> SUFFICES ASSUME NEW p \in P PROVE \E k \in K : f[k] = p
        OBVIOUS
      <3>1. p[1] \in Channels /\ p[2] \in Slots /\ p = <<p[1], p[2]>> /\ R.regs[p[1]][p[2]].generic
        BY SMTT(60)
      <3>2. PICK k \in Records : Names(R, k, p[1], p[2])
        BY <3>1 DEF BookInv, HandleInv, ContextInv
      <3>3. k \in K /\ f[k] = <<p[1], p[2]>>
        BY <3>2 DEF Names
      <3> QED
        BY <3>1, <3>3
    <2>4. DOMAIN f = K /\ f = [k \in K |-> f[k]]
      OBVIOUS
    <2>5. \A c \in Channels, s \in Slots : R.regs[c][s].generic => <<c, s>> \in P
      OBVIOUS
    <2> HIDE DEF K, P, f
    <2>9. \A k \in K : f[k] \in P
      BY <2>2, <2>5
    <2>6. f \in [K -> P]
      BY <2>4, <2>9
    <2>7. \A j, k \in K : f[j] = f[k] => j = k
      BY <2>2
    <2>8. f \in Bijection(K, P)
      BY <2>3, <2>6, <2>7 DEF Bijection, Injection, Surjection, IsInjective
    <2> QED
      BY <2>1, <2>8, FS_Bijection DEF ExistsBijection, K, P
  <1> QED
    BY <1>1, <1>2

LEMMA FreeOnes ==
  ASSUME NEW R, BookInv(R), NEW c \in Channels, FreeRegistration(R, c) # {}
  PROVE  /\ First(FreeRegistration(R, c)) \in FreeRegistration(R, c)
         /\ First({x \in Slots : R.subs[c][x] = <<>>}) \in {x \in Slots : R.subs[c][x] = <<>>}
         /\ First({k \in Records : ~R.records[k].active}) \in {k \in Records : ~R.records[k].active}
  <1> DEFINE A == {s \in Slots : R.regs[c][s].active}
             B == {s \in Slots : R.subs[c][s] # <<>>}
             K == {k \in Records : R.records[k].active}
             P == {p \in Channels \X Slots : R.regs[p[1]][p[2]].generic}
             pairs == Channels \X Slots
  <1>0. PICK s \in Slots : ~R.regs[c][s].active
    BY DEF FreeRegistration
  <1>1. A # Slots /\ P # pairs
    <2>1. s \notin A
      BY <1>0
    <2>2. <<c, s>> \notin P
      BY <1>0 DEF BookInv, HandleInv
    <2>3. <<c, s>> \in Channels \X Slots
      OBVIOUS
    <2> QED
      BY <2>1, <2>2, <2>3
  <1>2. Cardinality(A) = Cardinality(B) /\ Cardinality(K) = Cardinality(P)
    BY Counts
  <1>3. A \in SUBSET Slots /\ B \in SUBSET Slots /\ K \in SUBSET Records /\ P \in SUBSET pairs
    OBVIOUS
  <1> HIDE DEF A, B, K, P, pairs
  <1>4. B # Slots
    BY <1>1, <1>2, <1>3, SlotFacts, FS_Subset
  <1>5. Cardinality(P) # Cardinality(pairs)
    BY <1>1, <1>3, SlotFacts, FS_Subset DEF pairs
  <1>6. K # Records
    BY <1>2, <1>5, SlotFacts DEF pairs
  <1>7. {x \in Slots : R.subs[c][x] = <<>>} # {} /\ {k \in Records : ~R.records[k].active} # {}
    BY <1>3, <1>4, <1>6 DEF B, K
  <1>8. /\ FreeRegistration(R, c) \in SUBSET Nat /\ IsFiniteSet(FreeRegistration(R, c))
        /\ {x \in Slots : R.subs[c][x] = <<>>} \in SUBSET Nat
        /\ IsFiniteSet({x \in Slots : R.subs[c][x] = <<>>})
        /\ {k \in Records : ~R.records[k].active} \in SUBSET Nat
        /\ IsFiniteSet({k \in Records : ~R.records[k].active})
    BY SlotFacts, FS_Subset DEF FreeRegistration
  <1> QED
    BY <1>7, <1>8, Least

-----------------------------------------------------------------------------
(* One registration more. *)
NewEntry(R, c, s, h, generic) ==
  [active |-> TRUE, generic |-> generic, gen |-> NextGeneration(R.regs[c][s].gen), handle |-> h,
   serial |-> R.next]
NewToken(R, c, s, generic) ==
  [channel |-> c, slot |-> s, gen |-> NextGeneration(R.regs[c][s].gen), generic |-> generic,
   serial |-> R.next]

Added(R, S, c, s, h, generic, context) ==
  /\ ~R.regs[c][s].active /\ R.subs[c][h] = <<>>
  /\ S \in Books
  /\ \A d \in Channels, t \in Slots :
       /\ S.regs[d][t] = IF d = c /\ t = s THEN NewEntry(R, c, s, h, generic) ELSE R.regs[d][t]
       /\ S.subs[d][t] = IF d = c /\ t = h THEN <<context>> ELSE R.subs[d][t]
  /\ S.issued = R.issued \cup {NewToken(R, c, s, generic)}
  /\ S.next = R.next + 1

LEMMA NextGenerationType ==
  ASSUME NEW g \in Generations
  PROVE  NextGeneration(g) \in Generations /\ NextGeneration(g) # 0
  BY LifecycleAssumption DEF Generations, NextGeneration

LEMMA RegisterFacts ==
  ASSUME NEW R, BookInv(R), NEW c \in Channels, CanSubscribe(R, c),
         NEW generic \in BOOLEAN, NEW context \in Contexts
  PROVE  \E s, h \in Slots :
           /\ Added(R, RegisterSubscription(R, c, generic, context), c, s, h, generic, context)
           /\ RegisterSubscription(R, c, generic, context).records = R.records
  <1> DEFINE s == First(FreeRegistration(R, c))
             h == First({x \in Slots : R.subs[c][x] = <<>>})
             g == NextGeneration(R.regs[c][s].gen)
             new == NewEntry(R, c, s, h, generic)
             tok == NewToken(R, c, s, generic)
             S == [regs |-> [R.regs EXCEPT ![c] = [R.regs[c] EXCEPT ![s] = new]],
                   subs |-> [R.subs EXCEPT ![c] = [R.subs[c] EXCEPT ![h] = <<context>>]],
                   records |-> R.records, issued |-> R.issued \cup {tok}, next |-> R.next + 1]
  <1>1. s \in Slots /\ ~R.regs[c][s].active /\ h \in Slots /\ R.subs[c][h] = <<>>
    <2>1. FreeRegistration(R, c) # {}
      BY DEF CanSubscribe
    <2>2. s \in FreeRegistration(R, c) /\ h \in {x \in Slots : R.subs[c][x] = <<>>}
      BY <2>1, FreeOnes
    <2> HIDE DEF s, h
    <2> QED
      BY <2>2 DEF FreeRegistration
  <1>2. R \in Books
    BY DEF BookInv
  <1>3. S = RegisterSubscription(R, c, generic, context)
    <2>1. RegisterSubscription(R, c, generic, context)
            = [R EXCEPT !.regs[c][s] = new, !.subs[c][h] = <<context>>, !.issued = @ \cup {tok},
                        !.next = @ + 1]
      BY DEF RegisterSubscription, NewEntry, NewToken
    <2> HIDE DEF s, h, new, tok
    <2>2. R = [regs |-> R.regs, subs |-> R.subs, records |-> R.records, issued |-> R.issued,
               next |-> R.next]
      BY <1>2 DEF Books
    <2> QED
      BY <2>1, <2>2
  <1>4. g \in Generations
    <2> HIDE DEF s
    <2>1. R.regs[c][s].gen \in Generations
      BY <1>1, <1>2 DEF Books, Entries
    <2> QED
      BY <2>1, NextGenerationType
  <1> HIDE DEF s, h
  <1>5. new \in Entries /\ tok \in Tokens
    BY <1>1, <1>2, <1>4 DEF NewEntry, NewToken, Entries, Tokens, Books
  <1> HIDE DEF g, new, tok
  <1>6. S \in Books
    <2>1. S.regs \in [Channels -> [Slots -> Entries]]
      BY <1>1, <1>2, <1>5 DEF Books
    <2>2. S.subs \in [Channels -> [Slots -> {<<>>} \cup {<<k>> : k \in Contexts}]]
      BY <1>1, <1>2 DEF Books
    <2>3. S.records \in [Records -> Trampolines] /\ S.issued \in SUBSET Tokens /\ S.next \in Nat
      BY <1>2, <1>5 DEF Books
    <2> QED
      BY <2>1, <2>2, <2>3 DEF Books
  <1>7. \A d \in Channels, t \in Slots :
          /\ S.regs[d][t] = IF d = c /\ t = s THEN new ELSE R.regs[d][t]
          /\ S.subs[d][t] = IF d = c /\ t = h THEN <<context>> ELSE R.subs[d][t]
    BY <1>1, <1>2 DEF Books
  <1>8. Added(R, S, c, s, h, generic, context)
    BY <1>1, <1>6, <1>7 DEF Added, new, tok
  <1>9. S.records = R.records
    OBVIOUS
  <1> HIDE DEF S
  <1> QED
    BY <1>1, <1>3, <1>8, <1>9

(* The token of the new registration is the one issued last. *)
IssuedLast(R, S, c, s, generic) == Issued(S) = NewToken(R, c, s, generic)

LEMMA IssuedFacts ==
  ASSUME NEW R, BookInv(R), NEW S, NEW c \in Channels, NEW s \in Slots, NEW h \in Slots,
         NEW generic, NEW context, Added(R, S, c, s, h, generic, context)
  PROVE  IssuedLast(R, S, c, s, generic)
  <1>1. \A tok \in R.issued : tok.serial < R.next
    BY DEF BookInv, TokenInv
  <1>2. R.next \in Nat /\ \A tok \in R.issued : tok.serial \in Nat
    BY DEF BookInv, Books, Tokens
  <1>3. \A tok \in S.issued : tok.serial = S.next - 1 <=> tok = NewToken(R, c, s, generic)
    BY <1>1, <1>2 DEF Added, NewToken
  <1>4. NewToken(R, c, s, generic) \in S.issued
    BY DEF Added
  <1> QED
    BY <1>3, <1>4 DEF Issued, IssuedLast

LEMMA AddedTokens ==
  ASSUME NEW R, BookInv(R), NEW S, NEW c \in Channels, NEW s \in Slots, NEW h \in Slots,
         NEW generic \in BOOLEAN, NEW context, Added(R, S, c, s, h, generic, context)
  PROVE  TokenInv(S)
  <1> DEFINE g == R.regs[c][s].gen
             n == NextGeneration(g)
  <1>1. R.next \in Nat /\ S.next = R.next + 1 /\ g \in Generations /\ n \in Generations /\ n # 0
    BY NextGenerationType DEF BookInv, Books, Entries, Added
  <1>2. \A d \in Channels, t \in Slots : S.regs[d][t].serial < S.next
    <2>1. \A d \in Channels, t \in Slots :
            R.regs[d][t].serial \in Nat /\ R.regs[d][t].serial < R.next
      BY DEF BookInv, Books, Entries, TokenInv
    <2>2. \A d \in Channels, t \in Slots :
            S.regs[d][t].serial = R.regs[d][t].serial \/ S.regs[d][t].serial = R.next
      BY DEF Added, NewEntry
    <2> QED
      BY <1>1, <2>1, <2>2
  <1>3. ASSUME NEW tok \in S.issued
        PROVE  /\ tok.serial < S.next /\ tok.gen # 0 /\ S.regs[tok.channel][tok.slot].gen # 0
               /\ \/ /\ S.regs[tok.channel][tok.slot].serial = tok.serial
                     /\ S.regs[tok.channel][tok.slot].gen = tok.gen
                  \/ S.regs[tok.channel][tok.slot].serial
                       >= tok.serial + Dist(tok.gen, S.regs[tok.channel][tok.slot].gen)
    <2>1. CASE tok = NewToken(R, c, s, generic)
      <3>1. S.regs[c][s] = NewEntry(R, c, s, h, generic)
        BY DEF Added
      <3> QED
        BY <1>1, <2>1, <3>1 DEF NewToken, NewEntry
    <2>2. CASE tok \in R.issued
      <3> DEFINE e == R.regs[tok.channel][tok.slot]
      <3>1. tok.channel \in Channels /\ tok.slot \in Slots /\ tok.gen \in Generations /\ tok.serial \in Nat
        BY <2>2 DEF BookInv, Books, Tokens
      <3>2. e.gen \in Generations /\ e.serial \in Nat
        BY <3>1 DEF BookInv, Books, Entries
      <3>3. /\ tok.serial < R.next /\ tok.gen # 0 /\ e.gen # 0 /\ e.serial < R.next
            /\ \/ e.serial = tok.serial /\ e.gen = tok.gen
               \/ e.serial >= tok.serial + Dist(tok.gen, e.gen)
        BY <2>2, <3>1 DEF BookInv, TokenInv
      <3>4. CASE tok.channel = c /\ tok.slot = s
        <4>1. S.regs[tok.channel][tok.slot].serial = R.next /\ S.regs[tok.channel][tok.slot].gen = n /\ e.gen = g
          BY <3>4 DEF Added, NewEntry
        <4>2. ASSUME NEW a \in Generations, NEW b \in Generations, NEW x \in Nat, NEW y \in Nat,
                     NEW z \in Nat, y < z,
                     (y = x /\ b = a) \/ y >= x + Dist(a, b), a # 0, b # 0
              PROVE  z >= x + Dist(a, NextGeneration(b))
          <5>1. MaxGeneration \in Nat /\ a \in Int /\ b \in Int /\ a <= MaxGeneration /\ b <= MaxGeneration
                /\ a >= 1 /\ b >= 1
            BY <4>2, LifecycleAssumption DEF Generations
          <5>2. CASE y = x /\ b = a
            BY <4>2, <5>1, <5>2 DEF Dist, NextGeneration
          <5>3. CASE y >= x + Dist(a, b)
            BY <4>2, <5>1, <5>3 DEF Dist, NextGeneration
          <5> QED
            BY <4>2, <5>2, <5>3
        <4>3. R.next >= tok.serial + Dist(tok.gen, n)
          BY <1>1, <3>1, <3>2, <3>3, <4>1, <4>2
        <4> QED
          BY <1>1, <3>1, <3>3, <4>1, <4>3
      <3>5. CASE ~(tok.channel = c /\ tok.slot = s)
        <4>1. S.regs[tok.channel][tok.slot] = R.regs[tok.channel][tok.slot]
          BY <3>1, <3>5 DEF Added
        <4> QED
          BY <1>1, <3>1, <3>3, <4>1
      <3> QED
        BY <3>4, <3>5
    <2> QED
      BY <2>1, <2>2 DEF Added
  <1> QED
    BY <1>2, <1>3 DEF TokenInv

LEMMA AddedHandles ==
  ASSUME NEW R, BookInv(R), NEW S, NEW c \in Channels, NEW s \in Slots, NEW h \in Slots,
         NEW generic \in BOOLEAN, NEW context, Added(R, S, c, s, h, generic, context)
  PROVE  HandleInv(S)
  <1>1. ~R.regs[c][s].active /\ R.subs[c][h] = <<>> /\ HandleInv(R)
    BY DEF Added, BookInv
  <1>2. S.regs[c][s].active /\ S.regs[c][s].handle = h /\ S.subs[c][h] # <<>>
    BY DEF Added, NewEntry
  <1>3. \A d \in Channels, t \in Slots : ~(d = c /\ t = s) => S.regs[d][t] = R.regs[d][t]
    BY DEF Added
  <1>4. \A d \in Channels, t \in Slots : ~(d = c /\ t = h) => S.subs[d][t] = R.subs[d][t]
    BY DEF Added
  <1>5. ASSUME NEW d \in Channels, NEW t \in Slots
        PROVE  /\ S.regs[d][t].generic => S.regs[d][t].active
               /\ S.regs[d][t].active =>
                    S.regs[d][t].handle \in Slots /\ S.subs[d][S.regs[d][t].handle] # <<>>
    <2>1. CASE d = c /\ t = s
      BY <1>2, <2>1
    <2>2. CASE ~(d = c /\ t = s)
      <3>1. S.regs[d][t] = R.regs[d][t]
        BY <1>3, <2>2
      <3>2. R.regs[d][t].generic => R.regs[d][t].active
        BY <1>1 DEF HandleInv
      <3>3. R.regs[d][t].active =>
              R.regs[d][t].handle \in Slots /\ R.subs[d][R.regs[d][t].handle] # <<>>
        BY <1>1 DEF HandleInv
      <3>4. ASSUME R.regs[d][t].active
            PROVE  S.subs[d][R.regs[d][t].handle] = R.subs[d][R.regs[d][t].handle]
        BY <1>1, <1>4, <3>3, <3>4
      <3> QED
        BY <3>1, <3>2, <3>3, <3>4
    <2> QED
      BY <2>1, <2>2
  <1>6. \A d \in Channels, t, u \in Slots :
          /\ S.regs[d][t].active /\ S.regs[d][u].active
          /\ S.regs[d][t].handle = S.regs[d][u].handle
          => t = u
    BY <1>1, <1>2, <1>3, SMTT(60) DEF HandleInv
  <1>7. \A d \in Channels, x \in Slots : S.subs[d][x] # <<>> =>
          \E t \in Slots : S.regs[d][t].active /\ S.regs[d][t].handle = x
    BY <1>1, <1>2, <1>3, <1>4, SMTT(60) DEF HandleInv
  <1> QED
    BY <1>5, <1>6, <1>7 DEF HandleInv

LEMMA TypedAdded ==
  ASSUME NEW R, BookInv(R), NEW S, NEW c \in Channels, NEW s \in Slots, NEW h \in Slots,
         Added(R, S, c, s, h, FALSE, 0), S.records = R.records
  PROVE  BookInv(S)
  <1>1. HandleInv(S) /\ TokenInv(S) /\ S \in Books
    <2>1. HandleInv(S)
      BY AddedHandles, Zenon
    <2>2. TokenInv(S)
      BY AddedTokens, Zenon
    <2>3. S \in Books
      BY DEF Added
    <2> QED
      BY <2>1, <2>2, <2>3
  <1>2. ~R.regs[c][s].active /\ R.subs[c][h] = <<>> /\ HandleInv(R) /\ ContextInv(R) /\ RecordInv(R)
    BY DEF Added, BookInv
  <1>3. S.regs[c][s].active /\ S.regs[c][s].handle = h /\ S.subs[c][h] = <<0>> /\ ~S.regs[c][s].generic
    BY DEF Added, NewEntry
  <1>4. \A d \in Channels, t \in Slots : ~(d = c /\ t = s) => S.regs[d][t] = R.regs[d][t]
    BY DEF Added
  <1>5. \A d \in Channels, t \in Slots : ~(d = c /\ t = h) => S.subs[d][t] = R.subs[d][t]
    BY DEF Added
  <1>6. ASSUME NEW d \in Channels, NEW t \in Slots, ~(d = c /\ t = s), S.regs[d][t].active
        PROVE  S.regs[d][t].handle \in Slots
               /\ S.subs[d][S.regs[d][t].handle] = R.subs[d][R.regs[d][t].handle]
    <2>1. S.regs[d][t] = R.regs[d][t]
      BY <1>4, <1>6
    <2>2. R.regs[d][t].handle \in Slots /\ R.subs[d][R.regs[d][t].handle] # <<>>
      BY <1>2, <1>6, <2>1 DEF HandleInv
    <2>3. ~(d = c /\ R.regs[d][t].handle = h)
      BY <1>2, <2>2
    <2> QED
      BY <1>5, <2>1, <2>2, <2>3
  <1>7. \A d \in Channels, t \in Slots, k \in Records :
          ~(d = c /\ t = s) => (Names(S, k, d, t) <=> Names(R, k, d, t))
    BY <1>4, ZenonT(60) DEF Names
  <1>8. ContextInv(S)
    <2> SUFFICES ASSUME NEW d \in Channels, NEW t \in Slots, S.regs[d][t].active
                 PROVE  IF S.regs[d][t].generic
                          THEN \E j \in Records : S.subs[d][S.regs[d][t].handle] = <<j>>
                                                  /\ Names(S, j, d, t)
                          ELSE S.subs[d][S.regs[d][t].handle] = <<0>>
      BY DEF ContextInv
    <2>1. CASE d = c /\ t = s
      BY <1>3, <2>1, ZenonT(60)
    <2>2. CASE ~(d = c /\ t = s)
      <3>1. S.regs[d][t] = R.regs[d][t]
        BY <1>4, <2>2
      <3>2. S.subs[d][S.regs[d][t].handle] = R.subs[d][R.regs[d][t].handle]
        BY <1>6, <2>2, ZenonT(60)
      <3>3. IF R.regs[d][t].generic
              THEN \E j \in Records : R.subs[d][R.regs[d][t].handle] = <<j>> /\ Names(R, j, d, t)
              ELSE R.subs[d][R.regs[d][t].handle] = <<0>>
        BY <1>2, <3>1 DEF ContextInv
      <3> QED
        BY <1>7, <2>2, <3>1, <3>2, <3>3
    <2> QED
      BY <2>1, <2>2
  <1>9. RecordInv(S)
    <2> SUFFICES ASSUME NEW k \in Records, R.records[k].active
                 PROVE  \E d \in Channels, t \in Slots :
                          S.regs[d][t].generic /\ Names(S, k, d, t)
                          /\ S.subs[d][S.regs[d][t].handle] = <<k>>
      BY DEF RecordInv
    <2>1. PICK d \in Channels, t \in Slots :
            R.regs[d][t].generic /\ Names(R, k, d, t) /\ R.subs[d][R.regs[d][t].handle] = <<k>>
      BY <1>2 DEF RecordInv
    <2>4. R.regs[d][t].active
      BY <1>2, <2>1 DEF HandleInv
    <2>5. ~(d = c /\ t = s)
      BY <1>2, <2>4
    <2>2. ~(d = c /\ t = s) /\ S.regs[d][t].active /\ S.regs[d][t].generic
      BY <1>4, <2>1, <2>4, <2>5, ZenonT(60)
    <2>3. S.subs[d][S.regs[d][t].handle] = <<k>> /\ Names(S, k, d, t)
      BY <1>6, <1>7, <2>1, <2>2
    <2> QED
      BY <2>2, <2>3
  <1> QED
    BY <1>1, <1>8, <1>9 DEF BookInv

(* A generic registration takes a free record with it. *)
LEMMA GenericAdded ==
  ASSUME NEW R, BookInv(R), NEW S, NEW c \in Channels, NEW s \in Slots, NEW h \in Slots,
         NEW k \in Records, Added(R, S, c, s, h, TRUE, k), ~R.records[k].active,
         S.records = [R.records EXCEPT ![k] = [active |-> TRUE, channel |-> c, slot |-> s,
                                               gen |-> NextGeneration(R.regs[c][s].gen)]]
  PROVE  BookInv(S)
  <1>1. HandleInv(S) /\ TokenInv(S) /\ S \in Books
    <2>1. HandleInv(S)
      BY AddedHandles, Zenon
    <2>2. TokenInv(S)
      BY AddedTokens, Zenon
    <2>3. S \in Books
      BY DEF Added
    <2> QED
      BY <2>1, <2>2, <2>3
  <1>2. ~R.regs[c][s].active /\ R.subs[c][h] = <<>> /\ HandleInv(R) /\ ContextInv(R) /\ RecordInv(R)
    BY DEF Added, BookInv
  <1>3. S.regs[c][s].active /\ S.regs[c][s].handle = h /\ S.subs[c][h] = <<k>> /\ S.regs[c][s].generic
    BY DEF Added, NewEntry
  <1>4. \A d \in Channels, t \in Slots : ~(d = c /\ t = s) => S.regs[d][t] = R.regs[d][t]
    BY DEF Added
  <1>5. \A d \in Channels, t \in Slots : ~(d = c /\ t = h) => S.subs[d][t] = R.subs[d][t]
    BY DEF Added
  <1>6. ASSUME NEW d \in Channels, NEW t \in Slots, ~(d = c /\ t = s), S.regs[d][t].active
        PROVE  S.regs[d][t].handle \in Slots
               /\ S.subs[d][S.regs[d][t].handle] = R.subs[d][R.regs[d][t].handle]
    <2>1. S.regs[d][t] = R.regs[d][t]
      BY <1>4, <1>6
    <2>2. R.regs[d][t].handle \in Slots /\ R.subs[d][R.regs[d][t].handle] # <<>>
      BY <1>2, <1>6, <2>1 DEF HandleInv
    <2>3. ~(d = c /\ R.regs[d][t].handle = h)
      BY <1>2, <2>2
    <2> QED
      BY <1>5, <2>1, <2>2, <2>3
  <1>7. R.records \in [Records -> Trampolines]
    BY DEF BookInv, Books
  <1>8. Names(S, k, c, s)
    <2>1. S.regs[c][s].gen = NextGeneration(R.regs[c][s].gen)
      BY DEF Added, NewEntry
    <2> QED
      BY <1>7, <2>1 DEF Names
  <1>9. \A j \in Records : j # k => S.records[j] = R.records[j]
    BY <1>7
  <1>10. \A d \in Channels, t \in Slots, j \in Records :
          ~(d = c /\ t = s) /\ j # k => (Names(S, j, d, t) <=> Names(R, j, d, t))
    BY <1>4, <1>9, ZenonT(60) DEF Names
  <1>11. \A d \in Channels, t \in Slots : ~Names(R, k, d, t)
    BY DEF Names
  <1>12. ContextInv(S)
    <2> SUFFICES ASSUME NEW d \in Channels, NEW t \in Slots, S.regs[d][t].active
                 PROVE  IF S.regs[d][t].generic
                          THEN \E j \in Records : S.subs[d][S.regs[d][t].handle] = <<j>>
                                                  /\ Names(S, j, d, t)
                          ELSE S.subs[d][S.regs[d][t].handle] = <<0>>
      BY DEF ContextInv
    <2>1. CASE d = c /\ t = s
      BY <1>3, <1>8, <2>1, ZenonT(60)
    <2>2. CASE ~(d = c /\ t = s)
      <3>1. S.regs[d][t] = R.regs[d][t]
        BY <1>4, <2>2
      <3>2. S.subs[d][S.regs[d][t].handle] = R.subs[d][R.regs[d][t].handle]
        BY <1>6, <2>2, ZenonT(60)
      <3>3. IF R.regs[d][t].generic
              THEN \E j \in Records : R.subs[d][R.regs[d][t].handle] = <<j>> /\ Names(R, j, d, t)
              ELSE R.subs[d][R.regs[d][t].handle] = <<0>>
        BY <1>2, <3>1, ZenonT(60) DEF ContextInv
      <3> QED
        BY <1>10, <1>11, <2>2, <3>1, <3>2, <3>3
    <2> QED
      BY <2>1, <2>2
  <1>13. RecordInv(S)
    <2> SUFFICES ASSUME NEW j \in Records, S.records[j].active
                 PROVE  \E d \in Channels, t \in Slots :
                          S.regs[d][t].generic /\ Names(S, j, d, t)
                          /\ S.subs[d][S.regs[d][t].handle] = <<j>>
      BY DEF RecordInv
    <2>1. CASE j = k
      BY <1>3, <1>8, <2>1, ZenonT(60)
    <2>2. CASE j # k
      <3>1. PICK d \in Channels, t \in Slots :
              R.regs[d][t].generic /\ Names(R, j, d, t) /\ R.subs[d][R.regs[d][t].handle] = <<j>>
        BY <1>2, <1>9, <2>2 DEF RecordInv
      <3>4. R.regs[d][t].active
        BY <1>2, <3>1 DEF HandleInv
      <3>5. ~(d = c /\ t = s)
        BY <1>2, <3>4, ZenonT(60)
      <3>2. ~(d = c /\ t = s) /\ S.regs[d][t].active /\ S.regs[d][t].generic
        BY <1>4, <3>1, <3>4, <3>5, ZenonT(60)
      <3>3. S.subs[d][S.regs[d][t].handle] = <<j>> /\ Names(S, j, d, t)
        BY <1>6, <1>10, <2>2, <3>1, <3>2
      <3> QED
        BY <3>2, <3>3, ZenonT(60)
    <2> QED
      BY <2>1, <2>2, ZenonT(60)
  <1> QED
    BY <1>1, <1>12, <1>13 DEF BookInv

-----------------------------------------------------------------------------
(* One registration less. *)
Released(R, S, c, s) ==
  LET h == R.regs[c][s].handle IN
  /\ R.regs[c][s].active
  /\ S \in Books
  /\ \A d \in Channels, t \in Slots :
       /\ S.regs[d][t] = IF d = c /\ t = s
                           THEN [R.regs[c][s] EXCEPT !.active = FALSE, !.generic = FALSE]
                           ELSE R.regs[d][t]
       /\ S.subs[d][t] = IF d = c /\ t = h THEN <<>> ELSE R.subs[d][t]
  /\ S.issued = R.issued /\ S.next = R.next

LEMMA UnregisterFacts ==
  ASSUME NEW R, BookInv(R), NEW tok \in Tokens, FindRegistration(R, tok)
  PROVE  /\ Released(R, UnsubscribeRegistration(R, tok), tok.channel, tok.slot)
         /\ UnsubscribeRegistration(R, tok).records = R.records
  <1> DEFINE c == tok.channel
             s == tok.slot
             h == R.regs[c][s].handle
             old == [R.regs[c][s] EXCEPT !.active = FALSE, !.generic = FALSE]
             S == [regs |-> [R.regs EXCEPT ![c] = [R.regs[c] EXCEPT ![s] = old]],
                   subs |-> [R.subs EXCEPT ![c] = [R.subs[c] EXCEPT ![h] = <<>>]],
                   records |-> R.records, issued |-> R.issued, next |-> R.next]
  <1>1. c \in Channels /\ s \in Slots
    BY DEF Tokens
  <1>2. R \in Books /\ R.regs[c][s].active /\ h \in Slots
    BY <1>1 DEF BookInv, HandleInv, FindRegistration
  <1>3. S = UnsubscribeRegistration(R, tok)
    <2>1. UnsubscribeRegistration(R, tok) = [R EXCEPT !.regs[c][s] = old, !.subs[c][h] = <<>>]
      <3>1. R.regs \in [Channels -> [Slots -> Entries]]
        BY <1>2 DEF Books
      <3> QED
        BY <1>1, <3>1 DEF UnsubscribeRegistration
    <2> HIDE DEF c, s, h, old
    <2>2. R = [regs |-> R.regs, subs |-> R.subs, records |-> R.records, issued |-> R.issued,
               next |-> R.next]
      BY <1>2 DEF Books
    <2> QED
      BY <2>1, <2>2
  <1>4. old \in Entries
    <2> HIDE DEF c, s
    <2>1. R.regs[c][s] \in Entries
      BY <1>1, <1>2 DEF Books
    <2> QED
      BY <2>1 DEF Entries
  <1>5. Released(R, S, c, s)
    <2> HIDE DEF c, s
    <2>1. S \in Books
      <3> HIDE DEF h, old
      <3>1. S.regs \in [Channels -> [Slots -> Entries]]
        BY <1>1, <1>2, <1>4 DEF Books
      <3>2. S.subs \in [Channels -> [Slots -> {<<>>} \cup {<<k>> : k \in Contexts}]]
        BY <1>1, <1>2 DEF Books
      <3>3. S.records \in [Records -> Trampolines] /\ S.issued \in SUBSET Tokens /\ S.next \in Nat
        BY <1>2 DEF Books
      <3> QED
        BY <3>1, <3>2, <3>3 DEF Books
    <2>2. \A d \in Channels, t \in Slots :
            /\ S.regs[d][t] = IF d = c /\ t = s THEN old ELSE R.regs[d][t]
            /\ S.subs[d][t] = IF d = c /\ t = h THEN <<>> ELSE R.subs[d][t]
      <3> HIDE DEF h, old
      <3> QED
        BY <1>1, <1>2 DEF Books
    <2> QED
      BY <1>2, <2>1, <2>2 DEF Released
  <1>6. S.records = R.records
    OBVIOUS
  <1> QED
    BY <1>3, <1>5, <1>6

OthersKept(R, S, c, s) ==
  \A d \in Channels, t \in Slots : ~(d = c /\ t = s) /\ R.regs[d][t].active =>
    S.subs[d][R.regs[d][t].handle] = R.subs[d][R.regs[d][t].handle]

LEMMA ReleasedOthers ==
  ASSUME NEW R, BookInv(R), NEW S, NEW c \in Channels, NEW s \in Slots, Released(R, S, c, s)
  PROVE  OthersKept(R, S, c, s)
  <1> SUFFICES ASSUME NEW d \in Channels, NEW t \in Slots, ~(d = c /\ t = s), R.regs[d][t].active
               PROVE  S.subs[d][R.regs[d][t].handle] = R.subs[d][R.regs[d][t].handle]
    BY ZenonT(60) DEF OthersKept
  <1> DEFINE h == R.regs[c][s].handle
  <1>1. R.regs[c][s].active /\ HandleInv(R) /\ R.regs[d][t].handle \in Slots
    BY DEF Released, BookInv, HandleInv
  <1>2. ~(d = c /\ R.regs[d][t].handle = h)
    BY <1>1 DEF HandleInv
  <1>3. \A e \in Channels, x \in Slots : ~(e = c /\ x = h) => S.subs[e][x] = R.subs[e][x]
    BY DEF Released
  <1> QED
    BY <1>1, <1>2, <1>3

LEMMA ReleasedKeeps ==
  ASSUME NEW R, BookInv(R), NEW S, NEW c \in Channels, NEW s \in Slots, Released(R, S, c, s)
  PROVE  HandleInv(S) /\ TokenInv(S)
  <1> DEFINE h == R.regs[c][s].handle
  <1>1. R.regs[c][s].active /\ HandleInv(R) /\ h \in Slots
    BY DEF Released, BookInv, HandleInv
  <1>2. \A d \in Channels, t \in Slots : ~(d = c /\ t = s) => S.regs[d][t] = R.regs[d][t]
    BY DEF Released
  <1>3. \A d \in Channels, t \in Slots : ~(d = c /\ t = h) => S.subs[d][t] = R.subs[d][t]
    BY DEF Released
  <1>4. S.subs[c][h] = <<>>
    BY <1>1 DEF Released
  <1>5. /\ S.regs[c][s].active = FALSE /\ S.regs[c][s].generic = FALSE
        /\ S.regs[c][s].gen = R.regs[c][s].gen /\ S.regs[c][s].serial = R.regs[c][s].serial
    <2>1. R.regs[c][s] \in Entries
      BY DEF BookInv, Books
    <2>2. S.regs[c][s] = [R.regs[c][s] EXCEPT !.active = FALSE, !.generic = FALSE]
      BY DEF Released
    <2> QED
      BY <2>1, <2>2 DEF Entries
  <1> HIDE DEF h
  <1>6. ASSUME NEW d \in Channels, NEW t \in Slots, ~(d = c /\ t = s), R.regs[d][t].active
        PROVE  /\ R.regs[d][t].handle \in Slots /\ R.subs[d][R.regs[d][t].handle] # <<>>
               /\ S.subs[d][R.regs[d][t].handle] = R.subs[d][R.regs[d][t].handle]
    <2>1. R.regs[d][t].handle \in Slots /\ R.subs[d][R.regs[d][t].handle] # <<>>
      BY <1>1, <1>6 DEF HandleInv
    <2>2. S.subs[d][R.regs[d][t].handle] = R.subs[d][R.regs[d][t].handle]
      <3>1. OthersKept(R, S, c, s)
        BY ReleasedOthers, Zenon
      <3> QED
        BY <1>6, <3>1 DEF OthersKept
    <2> QED
      BY <2>1, <2>2
  <1>7. HandleInv(S)
    <2>1. ASSUME NEW d \in Channels, NEW t \in Slots
          PROVE  /\ S.regs[d][t].generic => S.regs[d][t].active
                 /\ S.regs[d][t].active =>
                      S.regs[d][t].handle \in Slots /\ S.subs[d][S.regs[d][t].handle] # <<>>
      <3>1. CASE d = c /\ t = s
        BY <1>5, <3>1
      <3>2. CASE ~(d = c /\ t = s)
        <4>1. S.regs[d][t] = R.regs[d][t]
          BY <1>2, <3>2
        <4>2. R.regs[d][t].generic => R.regs[d][t].active
          BY <1>1 DEF HandleInv
        <4> QED
          BY <1>6, <3>2, <4>1, <4>2
      <3> QED
        BY <3>1, <3>2
    <2>2. ASSUME NEW d \in Channels, NEW t \in Slots, NEW u \in Slots,
                 S.regs[d][t].active, S.regs[d][u].active,
                 S.regs[d][t].handle = S.regs[d][u].handle
          PROVE  t = u
      <3>1. ~(d = c /\ t = s) /\ ~(d = c /\ u = s)
        BY <1>5, <2>2
      <3>2. S.regs[d][t] = R.regs[d][t] /\ S.regs[d][u] = R.regs[d][u]
        BY <1>2, <3>1
      <3> QED
        BY <1>1, <2>2, <3>2 DEF HandleInv
    <2>3. ASSUME NEW d \in Channels, NEW x \in Slots, S.subs[d][x] # <<>>
          PROVE  \E t \in Slots : S.regs[d][t].active /\ S.regs[d][t].handle = x
      <3>1. ~(d = c /\ x = h)
        BY <1>4, <2>3
      <3>2. R.subs[d][x] # <<>>
        BY <1>3, <2>3, <3>1
      <3>3. PICK t \in Slots : R.regs[d][t].active /\ R.regs[d][t].handle = x
        BY <1>1, <3>2 DEF HandleInv
      <3>4. ~(d = c /\ t = s)
        BY <3>1, <3>3 DEF h
      <3> QED
        BY <1>2, <3>3, <3>4
    <2> QED
      BY <2>1, <2>2, <2>3 DEF HandleInv
  <1>8. TokenInv(S)
    <2>1. \A d \in Channels, t \in Slots :
            S.regs[d][t].gen = R.regs[d][t].gen /\ S.regs[d][t].serial = R.regs[d][t].serial
      BY <1>2, <1>5
    <2>2. S.issued = R.issued /\ S.next = R.next
      BY DEF Released
    <2>3. \A tok \in R.issued : tok.channel \in Channels /\ tok.slot \in Slots
      BY DEF BookInv, Books, Tokens
    <2> QED
      BY <2>1, <2>2, <2>3, SMTT(60) DEF BookInv, TokenInv
  <1> QED
    BY <1>7, <1>8

LEMMA TypedReleased ==
  ASSUME NEW R, BookInv(R), NEW S, NEW c \in Channels, NEW s \in Slots, Released(R, S, c, s),
         ~R.regs[c][s].generic, S.records = R.records
  PROVE  BookInv(S)
  <1>1. HandleInv(S) /\ TokenInv(S) /\ S \in Books
    <2>1. HandleInv(S) /\ TokenInv(S)
      BY ReleasedKeeps, Zenon
    <2> QED
      BY <2>1 DEF Released
  <1>2. \A d \in Channels, t \in Slots : ~(d = c /\ t = s) => S.regs[d][t] = R.regs[d][t]
    BY DEF Released
  <1>3. ASSUME NEW d \in Channels, NEW t \in Slots, ~(d = c /\ t = s), R.regs[d][t].active
        PROVE  S.subs[d][R.regs[d][t].handle] = R.subs[d][R.regs[d][t].handle]
    <2>1. OthersKept(R, S, c, s)
      BY ReleasedOthers, Zenon
    <2> QED
      BY <1>3, <2>1 DEF OthersKept
  <1>4. HandleInv(R) /\ ContextInv(R) /\ RecordInv(R)
    BY DEF BookInv
  <1>5. \A d \in Channels, t \in Slots, k \in Records :
          ~(d = c /\ t = s) => (Names(S, k, d, t) <=> Names(R, k, d, t))
    BY <1>2 DEF Names
  <1>6. S.regs[c][s].active = FALSE
    <2>1. R.regs[c][s] \in Entries
      BY ZenonT(60) DEF BookInv, Books
    <2> QED
      BY <2>1 DEF Released, Entries
  <1>7. ContextInv(S)
    <2> SUFFICES ASSUME NEW d \in Channels, NEW t \in Slots, S.regs[d][t].active
                 PROVE  IF S.regs[d][t].generic
                          THEN \E j \in Records : S.subs[d][S.regs[d][t].handle] = <<j>>
                                                  /\ Names(S, j, d, t)
                          ELSE S.subs[d][S.regs[d][t].handle] = <<0>>
      BY DEF ContextInv
    <2>1. ~(d = c /\ t = s)
      BY <1>6
    <2>2. S.regs[d][t] = R.regs[d][t] /\ S.subs[d][S.regs[d][t].handle] = R.subs[d][R.regs[d][t].handle]
      BY <1>2, <1>3, <2>1, SMTT(60)
    <2>3. IF R.regs[d][t].generic
            THEN \E j \in Records : R.subs[d][R.regs[d][t].handle] = <<j>> /\ Names(R, j, d, t)
            ELSE R.subs[d][R.regs[d][t].handle] = <<0>>
      BY <1>4, <2>2, ZenonT(60) DEF ContextInv
    <2> QED
      BY <1>5, <2>1, <2>2, <2>3, ZenonT(60)
  <1>8. RecordInv(S)
    <2> SUFFICES ASSUME NEW k \in Records, R.records[k].active
                 PROVE  \E d \in Channels, t \in Slots :
                          S.regs[d][t].generic /\ Names(S, k, d, t)
                          /\ S.subs[d][S.regs[d][t].handle] = <<k>>
      BY DEF RecordInv
    <2>1. PICK d \in Channels, t \in Slots :
            R.regs[d][t].generic /\ Names(R, k, d, t) /\ R.subs[d][R.regs[d][t].handle] = <<k>>
      BY <1>4, ZenonT(60) DEF RecordInv
    <2>2. ~(d = c /\ t = s) /\ R.regs[d][t].active
      BY <1>4, <2>1 DEF HandleInv
    <2>3. S.regs[d][t] = R.regs[d][t]
      BY <1>2, <2>2
    <2>4. Names(S, k, d, t)
      BY <1>5, <2>1, <2>2, ZenonT(60)
    <2>5. S.subs[d][S.regs[d][t].handle] = <<k>>
      BY <1>3, <2>1, <2>2, <2>3, ZenonT(60)
    <2> QED
      BY <2>1, <2>3, <2>4, <2>5, ZenonT(60)
  <1> QED
    BY <1>1, <1>7, <1>8 DEF BookInv

(* A generic registration gives its record back. *)
LEMMA GenericReleased ==
  ASSUME NEW R, BookInv(R), NEW S, NEW c \in Channels, NEW s \in Slots, Released(R, S, c, s),
         NEW k \in Records, R.regs[c][s].generic, Names(R, k, c, s),
         S.records = [R.records EXCEPT ![k] = EmptyRecord]
  PROVE  BookInv(S)
  <1>1. HandleInv(S) /\ TokenInv(S) /\ S \in Books
    <2>1. HandleInv(S) /\ TokenInv(S)
      BY ReleasedKeeps, Zenon
    <2> QED
      BY <2>1 DEF Released
  <1>2. \A d \in Channels, t \in Slots : ~(d = c /\ t = s) => S.regs[d][t] = R.regs[d][t]
    BY DEF Released
  <1>3. ASSUME NEW d \in Channels, NEW t \in Slots, ~(d = c /\ t = s), R.regs[d][t].active
        PROVE  S.subs[d][R.regs[d][t].handle] = R.subs[d][R.regs[d][t].handle]
    <2>1. OthersKept(R, S, c, s)
      BY ReleasedOthers, Zenon
    <2> QED
      BY <1>3, <2>1 DEF OthersKept
  <1>4. HandleInv(R) /\ ContextInv(R) /\ RecordInv(R) /\ R.records \in [Records -> Trampolines]
    BY DEF BookInv, Books
  <1>5. S.records[k].active = FALSE /\ \A j \in Records : j # k => S.records[j] = R.records[j]
    BY <1>4 DEF EmptyRecord
  <1>6. \A d \in Channels, t \in Slots : ~(d = c /\ t = s) => ~Names(R, k, d, t)
    BY DEF Names
  <1>9. \A d \in Channels, t \in Slots, j \in Records :
          ~(d = c /\ t = s) /\ j # k => (Names(S, j, d, t) <=> Names(R, j, d, t))
    BY <1>2, <1>5, ZenonT(60) DEF Names
  <1>10. S.regs[c][s].active = FALSE
    <2>1. R.regs[c][s] \in Entries
      BY ZenonT(60) DEF BookInv, Books
    <2> QED
      BY <2>1, ZenonT(60) DEF Released, Entries
  <1>7. ContextInv(S)
    <2> SUFFICES ASSUME NEW d \in Channels, NEW t \in Slots, S.regs[d][t].active
                 PROVE  IF S.regs[d][t].generic
                          THEN \E j \in Records : S.subs[d][S.regs[d][t].handle] = <<j>>
                                                  /\ Names(S, j, d, t)
                          ELSE S.subs[d][S.regs[d][t].handle] = <<0>>
      BY DEF ContextInv
    <2>1. ~(d = c /\ t = s)
      BY <1>10
    <2>2. S.regs[d][t] = R.regs[d][t] /\ S.subs[d][S.regs[d][t].handle] = R.subs[d][R.regs[d][t].handle]
      BY <1>2, <1>3, <2>1, SMTT(60)
    <2>3. IF R.regs[d][t].generic
            THEN \E j \in Records : R.subs[d][R.regs[d][t].handle] = <<j>> /\ Names(R, j, d, t)
            ELSE R.subs[d][R.regs[d][t].handle] = <<0>>
      BY <1>4, <2>2, ZenonT(60) DEF ContextInv
    <2> QED
      BY <1>6, <1>9, <2>1, <2>2, <2>3, ZenonT(60)
  <1>8. RecordInv(S)
    <2> SUFFICES ASSUME NEW j \in Records, S.records[j].active
                 PROVE  \E d \in Channels, t \in Slots :
                          S.regs[d][t].generic /\ Names(S, j, d, t)
                          /\ S.subs[d][S.regs[d][t].handle] = <<j>>
      BY DEF RecordInv
    <2>0. j # k /\ R.records[j].active
      BY <1>5
    <2>1. PICK d \in Channels, t \in Slots :
            R.regs[d][t].generic /\ Names(R, j, d, t) /\ R.subs[d][R.regs[d][t].handle] = <<j>>
      BY <1>4, <2>0 DEF RecordInv
    <2>4. R.subs[c][R.regs[c][s].handle] = <<k>>
      <3>1. R.records[k].active
        BY SMTT(60) DEF Names
      <3>2. PICK e \in Channels, u \in Slots :
              R.regs[e][u].generic /\ Names(R, k, e, u) /\ R.subs[e][R.regs[e][u].handle] = <<k>>
        BY <1>4, <3>1 DEF RecordInv
      <3>3. e = c /\ u = s
        BY <1>6, <3>2
      <3> QED
        BY <3>2, <3>3
    <2>5. ~(d = c /\ t = s)
      <3>1. <<j>> # <<k>>
        BY <2>0, ZenonT(60)
      <3> QED
        BY <2>1, <2>4, <3>1
    <2>2. R.regs[d][t].active
      BY <1>4, <2>1 DEF HandleInv
    <2>3. S.regs[d][t] = R.regs[d][t]
      BY <1>2, <2>5, ZenonT(60)
    <2>6. Names(S, j, d, t)
      BY <1>9, <2>0, <2>1, <2>5, ZenonT(60)
    <2>7. S.subs[d][S.regs[d][t].handle] = <<j>>
      BY <1>3, <2>1, <2>2, <2>3, <2>5, ZenonT(60)
    <2> QED
      BY <2>1, <2>3, <2>6, <2>7, ZenonT(60)
  <1> QED
    BY <1>1, <1>7, <1>8 DEF BookInv

-----------------------------------------------------------------------------
(* What each call does to the registrations. *)
WithRecord(R, S, c, s, h, k) ==
  /\ Added(R, S, c, s, h, TRUE, k)
  /\ ~R.records[k].active
  /\ S.records = [R.records EXCEPT ![k] = [active |-> TRUE, channel |-> c, slot |-> s,
                                           gen |-> NextGeneration(R.regs[c][s].gen)]]

LEMMA RecordTaken ==
  ASSUME NEW R, BookInv(R), NEW c \in Channels, NEW s \in Slots, NEW h \in Slots, NEW k \in Records,
         NEW T, Added(R, T, c, s, h, TRUE, k), T.records = R.records, ~R.records[k].active,
         NEW S, S = [T EXCEPT !.records[k] = [active |-> TRUE, channel |-> c, slot |-> Issued(T).slot,
                                              gen |-> Issued(T).gen]]
  PROVE  WithRecord(R, S, c, s, h, k)
  <1>1. Issued(T) = NewToken(R, c, s, TRUE)
    <2>1. IssuedLast(R, T, c, s, TRUE)
      BY IssuedFacts, Zenon
    <2> QED
      BY <2>1 DEF IssuedLast
  <1> DEFINE new == [active |-> TRUE, channel |-> c, slot |-> s, gen |-> NextGeneration(R.regs[c][s].gen)]
  <1>2. S = [T EXCEPT !.records[k] = new]
    BY <1>1 DEF NewToken
  <1>3. new \in Trampolines
    <2>1. R.regs[c][s].gen \in Generations
      BY DEF BookInv, Books, Entries
    <2>2. NextGeneration(R.regs[c][s].gen) \in Generations
      BY <2>1, NextGenerationType
    <2> QED
      BY <2>2 DEF Trampolines
  <1> HIDE DEF new
  <1>4. T \in Books /\ R \in Books
    BY DEF Added, BookInv
  <1>5. /\ S \in Books /\ S.records = [R.records EXCEPT ![k] = new]
        /\ S.regs = T.regs /\ S.subs = T.subs /\ S.issued = T.issued /\ S.next = T.next
    <2> DEFINE recs == [R.records EXCEPT ![k] = new]
    <2>1. recs \in [Records -> Trampolines]
      BY <1>3, <1>4 DEF Books
    <2>2. S = [T EXCEPT !.records = recs]
      BY <1>2
    <2> HIDE DEF recs
    <2>3. S \in Books /\ S.records = recs
      BY <1>4, <2>1, <2>2 DEF Books
    <2>4. S.regs = T.regs /\ S.subs = T.subs /\ S.issued = T.issued /\ S.next = T.next
      BY <1>4, <2>2 DEF Books
    <2> QED
      BY <2>3, <2>4 DEF recs
  <1>6. ASSUME NEW d \in Channels, NEW t \in Slots
        PROVE  /\ S.regs[d][t] = IF d = c /\ t = s THEN NewEntry(R, c, s, h, TRUE) ELSE R.regs[d][t]
               /\ S.subs[d][t] = IF d = c /\ t = h THEN <<k>> ELSE R.subs[d][t]
    <2>1. /\ T.regs[d][t] = IF d = c /\ t = s THEN NewEntry(R, c, s, h, TRUE) ELSE R.regs[d][t]
          /\ T.subs[d][t] = IF d = c /\ t = h THEN <<k>> ELSE R.subs[d][t]
      BY Zenon DEF Added
    <2>2. S.regs = T.regs /\ S.subs = T.subs
      BY <1>5
    <2>3. S.regs[d][t] = T.regs[d][t] /\ S.subs[d][t] = T.subs[d][t]
      BY <2>2
    <2> QED
      BY <2>1, <2>3, Zenon
  <1>7. Added(R, S, c, s, h, TRUE, k)
    <2>1. /\ ~R.regs[c][s].active /\ R.subs[c][h] = <<>>
          /\ S.issued = R.issued \cup {NewToken(R, c, s, TRUE)} /\ S.next = R.next + 1
      BY <1>5 DEF Added
    <2> QED
      BY <1>5, <1>6, <2>1, Zenon DEF Added
  <1> QED
    BY <1>5, <1>7 DEF WithRecord, new

LEMMA RecordIssued ==
  ASSUME NEW R, BookInv(R), NEW c \in Channels, NEW s \in Slots, NEW h \in Slots, NEW k \in Records,
         NEW S, WithRecord(R, S, c, s, h, k)
  PROVE  Added(R, S, c, s, h, TRUE, k) /\ Issued(S) = NewToken(R, c, s, TRUE)
  <1>1. Added(R, S, c, s, h, TRUE, k)
    BY DEF WithRecord
  <1>2. IssuedLast(R, S, c, s, TRUE)
    BY <1>1, IssuedFacts, Zenon
  <1> QED
    BY <1>1, <1>2 DEF IssuedLast

LEMMA SubscribeFacts ==
  ASSUME NEW R, BookInv(R), NEW c \in Channels, CanSubscribe(R, c),
         NEW S, S = SubscribeGenericDescriptor(R, c)
  PROVE  \E s, h \in Slots, k \in Records : WithRecord(R, S, c, s, h, k)
  <1> DEFINE k == First({x \in Records : ~R.records[x].active})
             T == RegisterSubscription(R, c, TRUE, k)
  <1>1. k \in Records /\ ~R.records[k].active
    <2>1. FreeRegistration(R, c) # {}
      BY DEF CanSubscribe
    <2>2. k \in {x \in Records : ~R.records[x].active}
      BY <2>1, FreeOnes
    <2> HIDE DEF k
    <2> QED
      BY <2>2
  <1>2. S = [T EXCEPT !.records[k] = [active |-> TRUE, channel |-> c, slot |-> Issued(T).slot,
                                      gen |-> Issued(T).gen]]
    BY DEF SubscribeGenericDescriptor
  <1> HIDE DEF k
  <1>3. k \in Contexts
    BY <1>1 DEF Contexts
  <1>4. PICK s, h \in Slots : Added(R, T, c, s, h, TRUE, k)
    BY <1>3, RegisterFacts
  <1>5. T.records = R.records
    BY <1>3, RegisterFacts
  <1> HIDE DEF T
  <1>6. WithRecord(R, S, c, s, h, k)
    BY <1>1, <1>2, <1>4, <1>5, RecordTaken
  <1> QED
    BY <1>1, <1>6

LEMMA UnsubscribeFacts ==
  ASSUME NEW R, BookInv(R), NEW tok \in Tokens, CanUnsubscribeGeneric(R, tok),
         NEW S, S = UnsubscribeGeneric(R, tok)
  PROVE  /\ Released(R, S, tok.channel, tok.slot)
         /\ \E k \in Records : /\ Names(R, k, tok.channel, tok.slot)
                               /\ S.records = [R.records EXCEPT ![k] = EmptyRecord]
  <1> DEFINE k == First(RecordOf(R, tok))
             T == UnsubscribeRegistration(R, tok)
  <1>1. k \in RecordOf(R, tok)
    <2>1. RecordOf(R, tok) # {}
      BY DEF CanUnsubscribeGeneric
    <2>2. RecordOf(R, tok) \in SUBSET Nat /\ IsFiniteSet(RecordOf(R, tok))
      BY SlotFacts, FS_Subset DEF RecordOf
    <2> QED
      BY <2>1, <2>2, Least
  <1> HIDE DEF k
  <1>2. k \in Records /\ Names(R, k, tok.channel, tok.slot)
    BY <1>1 DEF RecordOf, Names, CanUnsubscribeGeneric, FindRegistration
  <1>3. FindRegistration(R, tok)
    BY DEF CanUnsubscribeGeneric
  <1>4. Released(R, T, tok.channel, tok.slot) /\ T.records = R.records
    BY <1>3, UnregisterFacts
  <1>5. S = [T EXCEPT !.records[k] = EmptyRecord]
    BY DEF UnsubscribeGeneric, k
  <1> HIDE DEF T
  <1>6. EmptyRecord \in Trampolines
    BY LifecycleAssumption DEF EmptyRecord, Trampolines, Generations
  <1>7. T \in Books /\ R \in Books
    BY <1>4 DEF Released, BookInv
  <1>8. /\ S \in Books /\ S.records = [R.records EXCEPT ![k] = EmptyRecord]
        /\ S.regs = T.regs /\ S.subs = T.subs /\ S.issued = T.issued /\ S.next = T.next
    BY <1>2, <1>4, <1>5, <1>6, <1>7, ZenonT(60) DEF Books
  <1>9. Released(R, S, tok.channel, tok.slot)
    BY <1>4, <1>8 DEF Released
  <1> QED
    BY <1>2, <1>8, <1>9

-----------------------------------------------------------------------------
(* Every step registers one subscription, removes one or does neither. *)
Joins(R, S) ==
  \E c \in Channels : CanSubscribe(R, c)
    /\ (S = RegisterSubscription(R, c, FALSE, 0) \/ S = SubscribeGenericDescriptor(R, c))
Leaves(R, S, tok) ==
  \/ CanUnsubscribeTyped(R, tok) /\ S = UnsubscribeRegistration(R, tok)
  \/ CanUnsubscribeGeneric(R, tok) /\ S = UnsubscribeGeneric(R, tok)

(* The engine holds tokens that were issued. *)
HeldInv == engine.held \in Seq(reg.issued) /\ engine.rule \in Nat \ {0}
BooksKept == BookInv(reg)

LEMMA JoinFacts ==
  ASSUME NEW R, BookInv(R), NEW S, Joins(R, S)
  PROVE  /\ BookInv(S)
         /\ \E c \in Channels, s, h \in Slots, generic \in BOOLEAN, context \in Contexts :
              Added(R, S, c, s, h, generic, context)
  <1>1. PICK c \in Channels : CanSubscribe(R, c)
          /\ (S = RegisterSubscription(R, c, FALSE, 0) \/ S = SubscribeGenericDescriptor(R, c))
    BY DEF Joins
  <1>2. CASE S = RegisterSubscription(R, c, FALSE, 0)
    <2>1. 0 \in Contexts
      BY DEF Contexts
    <2>2. PICK s, h \in Slots : Added(R, S, c, s, h, FALSE, 0) /\ S.records = R.records
      BY <1>1, <1>2, <2>1, RegisterFacts
    <2>3. BookInv(S)
      BY <2>2, TypedAdded, Zenon
    <2> QED
      BY <2>1, <2>2, <2>3
  <1>3. CASE S = SubscribeGenericDescriptor(R, c)
    <2>1. PICK s, h \in Slots, k \in Records : WithRecord(R, S, c, s, h, k)
      BY <1>1, <1>3, SubscribeFacts, Zenon
    <2>2. BookInv(S)
      BY <2>1, GenericAdded, Zenon DEF WithRecord
    <2>3. k \in Contexts /\ Added(R, S, c, s, h, TRUE, k)
      BY <2>1 DEF Contexts, WithRecord
    <2> QED
      BY <2>2, <2>3
  <1> QED
    BY <1>1, <1>2, <1>3

LEMMA LeaveFacts ==
  ASSUME NEW R, BookInv(R), NEW S, NEW tok \in R.issued, Leaves(R, S, tok)
  PROVE  BookInv(S) /\ Released(R, S, tok.channel, tok.slot)
  <1>1. tok \in Tokens
    BY DEF BookInv, Books
  <1>0. tok.channel \in Channels /\ tok.slot \in Slots
    BY <1>1 DEF Tokens
  <1>2. CASE CanUnsubscribeTyped(R, tok) /\ S = UnsubscribeRegistration(R, tok)
    <2>1. FindRegistration(R, tok) /\ ~R.regs[tok.channel][tok.slot].generic
      BY <1>2 DEF CanUnsubscribeTyped
    <2>2. Released(R, S, tok.channel, tok.slot) /\ S.records = R.records
      BY <1>1, <1>2, <2>1, UnregisterFacts
    <2>3. BookInv(S)
      BY <1>0, <2>1, <2>2, TypedReleased, Zenon
    <2> QED
      BY <2>2, <2>3
  <1>3. CASE CanUnsubscribeGeneric(R, tok) /\ S = UnsubscribeGeneric(R, tok)
    <2>1. Released(R, S, tok.channel, tok.slot)
      BY <1>1, <1>3, UnsubscribeFacts
    <2>2. PICK k \in Records : Names(R, k, tok.channel, tok.slot)
                               /\ S.records = [R.records EXCEPT ![k] = EmptyRecord]
      BY <1>1, <1>3, UnsubscribeFacts
    <2>3. R.regs[tok.channel][tok.slot].generic
      BY <1>3 DEF CanUnsubscribeGeneric
    <2>4. BookInv(S)
      BY <1>0, <2>1, <2>2, <2>3, GenericReleased, Zenon
    <2> QED
      BY <2>1, <2>4
  <1> QED
    BY <1>2, <1>3 DEF Leaves

LEMMA RegMoves ==
  ASSUME BooksKept, HeldInv, [Next]_vars
  PROVE  reg' = reg \/ Joins(reg, reg') \/ \E tok \in reg.issued : Leaves(reg, reg', tok)
  <1>1. CASE SubscriberStep
    <2>1. CASE SubscribeTyped
      BY <2>1 DEF SubscribeTyped, Joins
    <2>2. CASE ProviderSubscribe
      BY <2>2 DEF ProviderSubscribe, Joins
    <2>3. CASE UnsubscribeTyped
      BY <2>3 DEF UnsubscribeTyped, Leaves
    <2>4. CASE ProviderUnsubscribe
      BY <2>4 DEF ProviderUnsubscribe, Leaves
    <2> QED
      BY <1>1, <2>1, <2>2, <2>3, <2>4 DEF SubscriberStep
  <1>2. CASE EngineStep
    <2>1. CASE AttachRule
      <3> DEFINE c == RuleSignals[engine.rule]
      <3>1. CASE reg' = reg
        BY <3>1
      <3>2. CASE CanAttach(c) /\ reg' = SubscribeGenericDescriptor(reg, c)
        <4>1. engine.rule \in DOMAIN RuleSignals
          BY <2>1, LifecycleAssumption DEF AttachRule, HeldInv
        <4>2. c \in Channels
          BY <4>1, LifecycleAssumption
        <4> QED
          BY <3>2, <4>2 DEF Joins, CanAttach
      <3> QED
        BY <2>1, <3>1, <3>2 DEF AttachRule
    <2>2. CASE UndoOne
      <3>1. engine.held \in Seq(reg.issued) /\ engine.held # <<>>
        BY <2>2 DEF UndoOne, HeldInv
      <3>2. Last(engine.held) \in reg.issued
        BY <3>1 DEF Last
      <3>3. Leaves(reg, reg', Last(engine.held))
        BY <2>2 DEF UndoOne, CanUndo, Leaves
      <3> QED
        BY <3>2, <3>3
    <2>3. CASE AttachBegin \/ DetachBegin \/ AttachDone \/ UndoDone
      BY <2>3 DEF AttachBegin, DetachBegin, EngineBegins, AttachDone, UndoDone
    <2> QED
      BY <1>2, <2>1, <2>2, <2>3 DEF EngineStep
  <1>3. CASE OwnerStep
    BY <1>3 DEF OwnerStep, RejectedCall, StartBegin, StartRuntime, StartDispatcher, StopBegin,
                StopRuntime, StopTimeout, StopFinish, Configure
  <1>4. CASE WorkerStep
    BY <1>4 DEF WorkerStep, WorkerTakesReport, OnDiagnostics, WorkerFaults, WorkerEnds, WorkerUnchanged
  <1>5. CASE DrainStep \/ \E r \in Runs : DispatcherStep(r)
    BY <1>5 DEF DrainStep, DrainBegin, DrainOne, DrainCallbackReturns, DispatcherStep, LoopCheck,
                DispatchOne, CallbackReturns, DispatcherDone, DispatchUnchanged
  <1>6. CASE UNCHANGED vars
    BY <1>6 DEF vars
  <1> QED
    BY <1>1, <1>2, <1>3, <1>4, <1>5, <1>6 DEF Next

(* Only the engine changes what it holds: a token more, or one less. *)
LEMMA HeldMoves ==
  ASSUME HeldInv, [Next]_vars, engine' # engine
  PROVE  EngineStep
  <1>1. CASE OwnerStep
    BY <1>1 DEF OwnerStep, RejectedCall, StartBegin, StartRuntime, StartDispatcher, StopBegin,
                StopRuntime, StopTimeout, StopFinish, Configure
  <1>2. CASE WorkerStep
    BY <1>2 DEF WorkerStep, WorkerTakesReport, OnDiagnostics, WorkerFaults, WorkerEnds, WorkerUnchanged
  <1>3. CASE DrainStep \/ \E r \in Runs : DispatcherStep(r)
    BY <1>3 DEF DrainStep, DrainBegin, DrainOne, DrainCallbackReturns, DispatcherStep, LoopCheck,
                DispatchOne, CallbackReturns, DispatcherDone, DispatchUnchanged
  <1>4. CASE SubscriberStep
    BY <1>4 DEF SubscriberStep, SubscribeTyped, ProviderSubscribe, UnsubscribeTyped,
                ProviderUnsubscribe
  <1>5. CASE UNCHANGED vars
    BY <1>5 DEF vars
  <1> QED
    BY <1>1, <1>2, <1>3, <1>4, <1>5 DEF Next

LEMMA BooksNext ==
  ASSUME BooksKept, HeldInv, [Next]_vars
  PROVE  BooksKept' /\ reg.issued \subseteq reg'.issued
  <1>1. BookInv(reg)
    BY DEF BooksKept
  <1>2. CASE reg' = reg
    BY <1>1, <1>2 DEF BooksKept
  <1>3. CASE Joins(reg, reg')
    <2>1. BookInv(reg')
      BY <1>1, <1>3, JoinFacts, Zenon
    <2>2. PICK c \in Channels, s, h \in Slots, generic \in BOOLEAN, context \in Contexts :
            Added(reg, reg', c, s, h, generic, context)
      BY <1>1, <1>3, JoinFacts, Zenon
    <2>3. reg.issued \subseteq reg'.issued
      BY <2>2 DEF Added
    <2> QED
      BY <2>1, <2>3 DEF BooksKept
  <1>4. CASE \E tok \in reg.issued : Leaves(reg, reg', tok)
    <2>1. PICK tok \in reg.issued : Leaves(reg, reg', tok)
      BY <1>4
    <2>2. BookInv(reg') /\ Released(reg, reg', tok.channel, tok.slot)
      BY <1>1, <2>1, LeaveFacts, Zenon
    <2> QED
      BY <2>2 DEF BooksKept, Released
  <1> QED
    BY <1>2, <1>3, <1>4, RegMoves

(* The token that attach() appends is the new registration's. *)
LEMMA AttachFacts ==
  ASSUME BooksKept, HeldInv, AttachRule, reg' # reg
  PROVE  LET c == RuleSignals[engine.rule] IN
         /\ c \in Channels /\ ~Holds(c) /\ Accepted /\ Claims
         /\ engine' = [engine EXCEPT !.rule = @ + 1, !.held = Append(@, Issued(reg'))]
         /\ \E s, h \in Slots, k \in Records :
              Added(reg, reg', c, s, h, TRUE, k) /\ Issued(reg') = NewToken(reg, c, s, TRUE)
  <1> DEFINE c == RuleSignals[engine.rule]
  <1>1. engine.rule \in DOMAIN RuleSignals
    BY LifecycleAssumption DEF AttachRule, HeldInv
  <1>2. c \in Channels
    BY <1>1, LifecycleAssumption
  <1>3. /\ ~Holds(c) /\ Accepted /\ Claims /\ CanSubscribe(reg, c)
        /\ reg' = SubscribeGenericDescriptor(reg, c)
        /\ engine' = [engine EXCEPT !.rule = @ + 1, !.held = Append(@, Issued(reg'))]
    BY DEF AttachRule, CanAttach
  <1>4. BookInv(reg)
    BY DEF BooksKept
  <1> HIDE DEF c
  <1>5. PICK s, h \in Slots, k \in Records : WithRecord(reg, reg', c, s, h, k)
    BY <1>2, <1>3, <1>4, SubscribeFacts, Zenon
  <1>6. Added(reg, reg', c, s, h, TRUE, k) /\ Issued(reg') = NewToken(reg, c, s, TRUE)
    BY <1>2, <1>4, <1>5, RecordIssued, ZenonT(60)
  <1> QED
    BY <1>2, <1>3, <1>6 DEF c

LEMMA FrontFacts ==
  ASSUME NEW T, NEW q \in Seq(T), q # <<>>
  PROVE  /\ Front(q) \in Seq(T) /\ Len(Front(q)) = Len(q) - 1 /\ Len(q) \in Nat \ {0}
         /\ \A i \in 1 .. Len(q) - 1 : Front(q)[i] = q[i]
         /\ Last(q) \in T /\ Last(q) = q[Len(q)]
  <1>1. Len(q) \in Nat \ {0} /\ \A i \in 1 .. Len(q) : q[i] \in T
    OBVIOUS
  <1>2. Front(q) \in Seq(T) /\ Len(Front(q)) = Len(q) - 1
        /\ \A i \in 1 .. Len(q) - 1 : Front(q)[i] = q[i]
    <2> DEFINE n == Len(q) - 1
    <2>1. n \in Nat /\ \A i \in 1 .. n : q[i] \in T
      BY <1>1
    <2> HIDE DEF n
    <2>2. /\ SubSeq(q, 1, n) \in Seq(T) /\ Len(SubSeq(q, 1, n)) = IF 1 <= n THEN n - 1 + 1 ELSE 0
          /\ \A i \in 1 .. n - 1 + 1 : SubSeq(q, 1, n)[i] = q[1 + i - 1]
      BY <2>1, SubSeqProperties
    <2>3. ASSUME NEW i \in 1 .. n PROVE SubSeq(q, 1, n)[i] = q[i]
      <3>1. i \in 1 .. n - 1 + 1 /\ 1 + i - 1 = i
        BY <2>1
      <3>2. SubSeq(q, 1, n)[i] = q[1 + i - 1]
        BY <2>2, <3>1, Zenon
      <3> QED
        BY <3>1, <3>2, Zenon
    <2>4. Front(q) = SubSeq(q, 1, n)
      BY DEF Front, n
    <2>5. Len(SubSeq(q, 1, n)) = n
      BY <2>1, <2>2
    <2> QED
      BY <2>2, <2>3, <2>4, <2>5 DEF n
  <1> QED
    BY <1>1, <1>2 DEF Last

LEMMA AppendTyped ==
  ASSUME NEW T, NEW q \in Seq(T), NEW x \in T
  PROVE  Append(q, x) \in Seq(T)
  OBVIOUS

(* attach() goes on over a rule whose signal it holds, and rolls back otherwise. *)
LEMMA AttachSame ==
  ASSUME BooksKept, HeldInv, AttachRule, reg' = reg
  PROVE  \/ /\ Holds(RuleSignals[engine.rule]) /\ owner' = owner
            /\ engine' = [engine EXCEPT !.rule = @ + 1]
         \/ /\ ~Holds(RuleSignals[engine.rule]) /\ Claims
            /\ engine' = [engine EXCEPT !.doing = "undo"]
  <1> DEFINE c == RuleSignals[engine.rule]
  <1>1. engine.rule \in DOMAIN RuleSignals
    BY LifecycleAssumption DEF AttachRule, HeldInv
  <1>2. c \in Channels
    BY <1>1, LifecycleAssumption
  <1> HIDE DEF c
  <1>3. ASSUME CanSubscribe(reg, c), reg' = SubscribeGenericDescriptor(reg, c)
        PROVE  FALSE
    <2>1. Joins(reg, reg')
      BY <1>2, <1>3 DEF Joins
    <2>2. PICK d \in Channels, s, h \in Slots, generic \in BOOLEAN, context \in Contexts :
            Added(reg, reg', d, s, h, generic, context)
      BY <2>1, JoinFacts, Zenon DEF BooksKept
    <2>3. reg'.next = reg.next
      OBVIOUS
    <2> QED
      BY <2>2, <2>3 DEF Added, BooksKept, BookInv, Books
  <1> QED
    BY <1>3 DEF AttachRule, CanAttach, c

LEMMA HeldNext ==
  ASSUME ControlInv, BooksKept, HeldInv, [Next]_vars
  PROVE  HeldInv'
  <1>1. reg.issued \subseteq reg'.issued
    BY BooksNext
  <1>2. engine.held \in Seq(reg'.issued) /\ engine.rule \in Nat \ {0}
    BY <1>1 DEF HeldInv
  <1>3. engine \in EngineRecord(engine.held)
    BY DEF ControlInv, EngineTyped
  <1>4. CASE engine' = engine
    BY <1>2, <1>4 DEF HeldInv
  <1>5. CASE AttachRule /\ reg' # reg
    <2>1. engine' = [engine EXCEPT !.rule = @ + 1, !.held = Append(@, Issued(reg'))]
      BY <1>5, AttachFacts
    <2>2. PICK s, h \in Slots, k \in Records :
            Added(reg, reg', RuleSignals[engine.rule], s, h, TRUE, k)
            /\ Issued(reg') = NewToken(reg, RuleSignals[engine.rule], s, TRUE)
      BY <1>5, AttachFacts
    <2>3. Issued(reg') \in reg'.issued
      BY <2>2 DEF Added
    <2>4. engine'.held = Append(engine.held, Issued(reg')) /\ engine'.rule = engine.rule + 1
      BY <1>3, <2>1 DEF EngineRecord
    <2>5. Append(engine.held, Issued(reg')) \in Seq(reg'.issued)
      BY <1>2, <2>3, AppendTyped
    <2>6. engine.rule + 1 \in Nat \ {0}
      BY <1>2
    <2> QED
      BY <2>4, <2>5, <2>6 DEF HeldInv
  <1>6. CASE AttachRule /\ reg' = reg
    <2>1. engine'.held = engine.held /\ engine'.rule \in {engine.rule, engine.rule + 1}
      BY <1>3, <1>6, AttachSame DEF EngineRecord
    <2> QED
      BY <1>2, <2>1 DEF HeldInv
  <1>7. CASE UndoOne
    <2>1. engine'.held = Front(engine.held) /\ engine'.rule = engine.rule
      BY <1>3, <1>7 DEF UndoOne, EngineRecord
    <2>2. engine.held # <<>>
      BY <1>7 DEF UndoOne
    <2>3. Front(engine.held) \in Seq(reg'.issued)
      BY <1>2, <2>2, FrontFacts
    <2> QED
      BY <1>2, <2>1, <2>3 DEF HeldInv
  <1>8. CASE AttachBegin \/ DetachBegin
    <2>1. PICK t \in Threads, doing \in {"attach", "undo"} :
            engine' = [engine EXCEPT !.doing = doing, !.by = t, !.rule = 1]
      BY <1>8 DEF AttachBegin, DetachBegin, EngineBegins
    <2>2. engine'.held = engine.held /\ engine'.rule = 1
      BY <1>3, <2>1 DEF EngineRecord
    <2> QED
      BY <1>2, <2>2, SMTT(60) DEF HeldInv
  <1>9. CASE AttachDone \/ UndoDone
    <2>1. engine'.held = engine.held /\ engine'.rule = engine.rule
      BY <1>3, <1>9 DEF AttachDone, UndoDone, EngineEnds, EngineRecord
    <2> QED
      BY <1>2, <2>1 DEF HeldInv
  <1> QED
    BY <1>4, <1>5, <1>6, <1>7, <1>8, <1>9, HeldMoves DEF EngineStep

LEMMA BooksInit == Init => BooksKept /\ HeldInv
  <1> SUFFICES ASSUME Init PROVE BooksKept /\ HeldInv
    OBVIOUS
  <1> USE LifecycleAssumption
  <1>1. reg = [regs |-> [c \in Channels |-> [s \in Slots |-> EmptyReg]],
               subs |-> [c \in Channels |-> [s \in Slots |-> <<>>]],
               records |-> [k \in Records |-> EmptyRecord], issued |-> {}, next |-> 1]
    BY DEF Init
  <1>2. EmptyReg \in Entries /\ EmptyRecord \in Trampolines
    BY DEF EmptyReg, EmptyRecord, Entries, Trampolines, Generations
  <1>3. /\ \A c \in Channels, s \in Slots :
             /\ reg.regs[c][s].active = FALSE /\ reg.regs[c][s].generic = FALSE
             /\ reg.regs[c][s].serial = 0 /\ reg.subs[c][s] = <<>>
        /\ \A k \in Records : reg.records[k].active = FALSE
        /\ reg.issued = {} /\ reg.next = 1
    BY <1>1 DEF EmptyReg, EmptyRecord
  <1>4. reg \in Books
    <2>1. [c \in Channels |-> [s \in Slots |-> <<>>]]
            \in [Channels -> [Slots -> {<<>>} \cup {<<k>> : k \in Contexts}]]
      OBVIOUS
    <2>2. [c \in Channels |-> [s \in Slots |-> EmptyReg]] \in [Channels -> [Slots -> Entries]]
      BY <1>2, ZenonT(60)
    <2> QED
      BY <1>1, <1>2, <2>1, <2>2 DEF Books
  <1>5. HandleInv(reg) /\ ContextInv(reg) /\ RecordInv(reg) /\ TokenInv(reg)
    BY <1>3, SMTT(60) DEF HandleInv, ContextInv, RecordInv, TokenInv
  <1>6. HeldInv
    BY <1>3 DEF Init, HeldInv
  <1> QED
    BY <1>4, <1>5, <1>6 DEF BooksKept, BookInv

(* The registrations' invariant holds in every reachable state: it says more than *)
(* the two properties of the next theorem, which are not inductive                *)
(* (vehicle_telemetry_service.hpp, register_subscription to unsubscribe).         *)
THEOREM BooksHold == Spec => [](ControlInv /\ BooksKept /\ HeldInv)
  <1>1. Init => ControlInv /\ BooksKept /\ HeldInv
    BY ControlInit, BooksInit
  <1>2. ControlInv /\ BooksKept /\ HeldInv /\ [Next]_vars => (ControlInv /\ BooksKept /\ HeldInv)'
    BY ControlNext, BooksNext, HeldNext
  <1> QED
    BY <1>1, <1>2, PTL DEF Spec

LEMMA BooksGive ==
  ASSUME BooksKept
  PROVE  TokenNamesItsRegistration /\ TrampolinesLive
  <1>1. BookInv(reg)
    BY DEF BooksKept
  <1>2. TokenNamesItsRegistration
    <2> SUFFICES ASSUME NEW tok \in reg.issued, FindRegistration(reg, tok)
                 PROVE  \/ reg.regs[tok.channel][tok.slot].serial = tok.serial
                        \/ reg.regs[tok.channel][tok.slot].serial >= tok.serial + MaxGeneration
      BY DEF TokenNamesItsRegistration
    <2>1. reg.regs[tok.channel][tok.slot].gen = tok.gen
      BY DEF FindRegistration
    <2>2. tok.gen \in Nat
      BY <1>1 DEF BookInv, Books, Tokens, Generations
    <2>3. Dist(tok.gen, tok.gen) = MaxGeneration
      BY <2>2, LifecycleAssumption DEF Dist
    <2> QED
      BY <1>1, <2>1, <2>3 DEF BookInv, TokenInv
  <1>3. TrampolinesLive
    <2>1. \A c \in Channels, s \in Slots :
            reg.regs[c][s].active =>
              IF reg.regs[c][s].generic
                THEN \E k \in Records :
                       /\ reg.subs[c][reg.regs[c][s].handle] = <<k>>
                       /\ reg.records[k] = [active |-> TRUE, channel |-> c, slot |-> s,
                                            gen |-> reg.regs[c][s].gen]
                ELSE reg.subs[c][reg.regs[c][s].handle] = <<0>>
      BY <1>1 DEF BookInv, ContextInv, Names
    <2>2. /\ \A c \in Channels :
              Cardinality({s \in Slots : reg.regs[c][s].active})
                = Cardinality({s \in Slots : reg.subs[c][s] # <<>>})
          /\ Cardinality({k \in Records : reg.records[k].active})
              = Cardinality({p \in Channels \X Slots : reg.regs[p[1]][p[2]].generic})
      BY <1>1, Counts
    <2> QED
      BY <2>1, <2>2, ZenonT(60) DEF TrampolinesLive
  <1> QED
    BY <1>2, <1>3

(* Without any bound on the registrations made: a token finds the registration it *)
(* was issued for, or one a full turn of the generations later, and every channel *)
(* slot in use leads to the one live record of its registration                   *)
(* (find_registration, subscribe_generic_descriptor, unsubscribe_generic).        *)
THEOREM TokensAndTrampolines == Spec => [](TokenNamesItsRegistration /\ TrampolinesLive)
  BY BooksHold, BooksGive, PTL

-----------------------------------------------------------------------------
(* The engine's tokens, while no generation comes round. *)
NoWrap == MaxRegistrations <= MaxGeneration

SerialInv(R) ==
  /\ R.next \in 1 .. MaxRegistrations + 1
  /\ \A tok \in R.issued : tok.serial \in Nat \ {0}
  /\ \A tok, u \in R.issued : tok.serial = u.serial => tok = u
SerialsKept == SerialInv(reg)

(* What the engine holds is registered, once for a channel. *)
Live(R, tok) == FindRegistration(R, tok) /\ R.regs[tok.channel][tok.slot].generic
LiveInv ==
  /\ \A i \in DOMAIN engine.held : Live(reg, engine.held[i])
  /\ \A i, j \in DOMAIN engine.held : engine.held[i].channel = engine.held[j].channel => i = j

(* With part of its rules registered only, the engine's thread owns a stopped facade: *)
(* nobody can make the provider refuse its next call.                                 *)
AllHeld == \A i \in DOMAIN RuleSignals : Holds(RuleSignals[i])
Steady == owner = engine.by /\ life = "Stopped"
FlowInv ==
  /\ engine.doing = "idle" => (engine.held # <<>> => engine.attached) /\ (engine.attached => AllHeld)
  /\ engine.doing = "attach" =>
       /\ \A i \in DOMAIN RuleSignals : i < engine.rule => Holds(RuleSignals[i])
       /\ engine.held # <<>> => Steady
  /\ engine.doing = "undo" => engine.held = <<>> \/ AllHeld \/ Steady

LEMMA SerialNext ==
  ASSUME BooksKept, HeldInv, SerialsKept, [Next]_vars
  PROVE  SerialsKept'
  <1>1. BookInv(reg) /\ SerialInv(reg)
    BY DEF BooksKept, SerialsKept
  <1>2. CASE reg' = reg
    BY <1>1, <1>2 DEF SerialsKept
  <1>3. CASE Joins(reg, reg')
    <2>1. reg.next <= MaxRegistrations
      BY <1>3 DEF Joins, CanSubscribe
    <2>2. PICK c \in Channels, s, h \in Slots, generic \in BOOLEAN, context \in Contexts :
            Added(reg, reg', c, s, h, generic, context)
      BY <1>1, <1>3, JoinFacts, Zenon
    <2> DEFINE tok == NewToken(reg, c, s, generic)
    <2>3. reg'.next = reg.next + 1 /\ reg'.issued = reg.issued \cup {tok}
      BY <2>2 DEF Added
    <2>4. tok.serial = reg.next /\ reg.next \in Nat \ {0}
      BY <1>1 DEF NewToken, SerialInv
    <2> HIDE DEF tok
    <2>5. \A u \in reg.issued : u.serial < reg.next
      BY <1>1 DEF BookInv, TokenInv
    <2>6. reg'.next \in 1 .. MaxRegistrations + 1
      BY <2>1, <2>3, <2>4, LifecycleAssumption
    <2>7. \A t \in reg'.issued : t.serial \in Nat \ {0}
      BY <1>1, <2>3, <2>4 DEF SerialInv
    <2>8. \A t, u \in reg'.issued : t.serial = u.serial => t = u
      BY <1>1, <2>3, <2>4, <2>5 DEF SerialInv
    <2> QED
      BY <2>6, <2>7, <2>8 DEF SerialInv, SerialsKept
  <1>4. CASE \E tok \in reg.issued : Leaves(reg, reg', tok)
    <2>1. PICK tok \in reg.issued : Leaves(reg, reg', tok)
      BY <1>4
    <2>2. Released(reg, reg', tok.channel, tok.slot)
      BY <1>1, <2>1, LeaveFacts, Zenon
    <2>3. reg'.issued = reg.issued /\ reg'.next = reg.next
      BY <2>2 DEF Released
    <2> QED
      BY <1>1, <2>3 DEF SerialInv, SerialsKept
  <1> QED
    BY <1>2, <1>3, <1>4, RegMoves

LEMMA SameToken ==
  ASSUME NoWrap, NEW R, BookInv(R), SerialInv(R), NEW tok \in R.issued, NEW u \in R.issued,
         FindRegistration(R, tok), FindRegistration(R, u),
         tok.channel = u.channel, tok.slot = u.slot
  PROVE  tok = u
  <1> DEFINE e == R.regs[tok.channel][tok.slot]
  <1>1. tok.channel \in Channels /\ tok.slot \in Slots /\ tok.gen \in Nat /\ tok.serial \in Nat \ {0}
        /\ u.gen \in Nat /\ u.serial \in Nat \ {0}
    BY DEF BookInv, Books, Tokens, Generations, SerialInv
  <1>2. e.serial < R.next /\ e.serial \in Nat /\ R.next \in 1 .. MaxRegistrations + 1
    BY <1>1 DEF BookInv, TokenInv, SerialInv, Books, Entries
  <1>3. /\ e.serial = tok.serial \/ e.serial >= tok.serial + Dist(tok.gen, e.gen)
        /\ e.serial = u.serial \/ e.serial >= u.serial + Dist(u.gen, e.gen)
    BY DEF BookInv, TokenInv
  <1>4. e.gen = tok.gen /\ e.gen = u.gen
    BY DEF FindRegistration
  <1> HIDE DEF e
  <1>5. Dist(tok.gen, e.gen) = MaxGeneration /\ Dist(u.gen, e.gen) = MaxGeneration
    BY <1>1, <1>4, LifecycleAssumption DEF Dist
  <1>6. tok.serial = u.serial
    BY <1>1, <1>2, <1>3, <1>5, LifecycleAssumption, SMTT(60) DEF NoWrap
  <1> QED
    BY <1>6 DEF SerialInv

LEMMA LiveAdded ==
  ASSUME NEW R, NEW S, NEW c \in Channels, NEW s \in Slots, NEW h \in Slots, NEW generic, NEW context,
         Added(R, S, c, s, h, generic, context), NEW tok \in Tokens, Live(R, tok)
  PROVE  Live(S, tok)
  <1>1. tok.channel \in Channels /\ tok.slot \in Slots
    BY DEF Tokens
  <1>2. ~(tok.channel = c /\ tok.slot = s)
    BY DEF Live, FindRegistration, Added
  <1>3. S.regs[tok.channel][tok.slot] = R.regs[tok.channel][tok.slot]
    BY <1>1, <1>2 DEF Added
  <1> QED
    BY <1>3 DEF Live, FindRegistration

LEMMA LiveReleased ==
  ASSUME NEW R, NEW S, NEW c \in Channels, NEW s \in Slots, Released(R, S, c, s),
         NEW tok \in Tokens, Live(R, tok), ~(tok.channel = c /\ tok.slot = s)
  PROVE  Live(S, tok)
  <1>1. tok.channel \in Channels /\ tok.slot \in Slots
    BY DEF Tokens
  <1>2. S.regs[tok.channel][tok.slot] = R.regs[tok.channel][tok.slot]
    BY <1>1 DEF Released
  <1> QED
    BY <1>2 DEF Live, FindRegistration

LEMMA LiveRemovable ==
  ASSUME NEW R, BookInv(R), NEW tok \in Tokens, Live(R, tok)
  PROVE  CanUnsubscribeGeneric(R, tok)
  <1>1. tok.channel \in Channels /\ tok.slot \in Slots
    BY DEF Tokens
  <1>2. R.regs[tok.channel][tok.slot].active /\ R.regs[tok.channel][tok.slot].generic
        /\ R.regs[tok.channel][tok.slot].gen = tok.gen
    BY DEF Live, FindRegistration
  <1>3. PICK k \in Records : Names(R, k, tok.channel, tok.slot)
    BY <1>1, <1>2 DEF BookInv, ContextInv
  <1>4. k \in RecordOf(R, tok)
    BY <1>2, <1>3 DEF RecordOf, Names
  <1> QED
    BY <1>4 DEF CanUnsubscribeGeneric, Live

LEMMA LiveNext ==
  ASSUME NoWrap, ControlInv, BooksKept, HeldInv, SerialsKept, LiveInv, [Next]_vars
  PROVE  LiveInv'
  <1>1. BookInv(reg) /\ SerialInv(reg) /\ reg.issued \subseteq Tokens
    BY DEF BooksKept, SerialsKept, BookInv, Books
  <1>2. engine \in EngineRecord(engine.held)
    BY DEF ControlInv, EngineTyped
  <1>3. \A i \in DOMAIN engine.held :
          engine.held[i] \in reg.issued /\ engine.held[i] \in Tokens /\ Live(reg, engine.held[i])
    BY <1>1 DEF HeldInv, LiveInv
  <1>4. ASSUME engine'.held = engine.held, \A i \in DOMAIN engine.held : Live(reg', engine.held[i])
        PROVE  LiveInv'
    BY <1>4 DEF LiveInv
  <1>5. CASE Joins(reg, reg') /\ engine'.held = engine.held
    <2>1. PICK c \in Channels, s, h \in Slots, generic \in BOOLEAN, context \in Contexts :
            Added(reg, reg', c, s, h, generic, context)
      BY <1>1, <1>5, JoinFacts, Zenon
    <2>2. \A i \in DOMAIN engine.held : Live(reg', engine.held[i])
      BY <1>3, <2>1, LiveAdded, Zenon
    <2> QED
      BY <1>4, <1>5, <2>2
  <1>6. CASE SubscriberStep
    <2>1. engine'.held = engine.held
      BY <1>6 DEF SubscriberStep, SubscribeTyped, ProviderSubscribe, UnsubscribeTyped,
                  ProviderUnsubscribe
    <2>2. CASE SubscribeTyped \/ ProviderSubscribe
      BY <1>5, <2>1, <2>2 DEF SubscribeTyped, ProviderSubscribe, Joins
    <2>3. CASE UnsubscribeTyped \/ ProviderUnsubscribe
      <3>1. PICK tok \in reg.issued :
              /\ FindRegistration(reg, tok) /\ Leaves(reg, reg', tok)
              /\ reg.regs[tok.channel][tok.slot].generic => tok \notin Range(engine.held)
        BY <2>3 DEF UnsubscribeTyped, ProviderUnsubscribe, Leaves, CanUnsubscribeTyped,
                    CanUnsubscribeGeneric
      <3>2. Released(reg, reg', tok.channel, tok.slot)
        BY <1>1, <3>1, LeaveFacts, Zenon
      <3>3. tok \in Tokens /\ tok.channel \in Channels /\ tok.slot \in Slots
        BY <1>1 DEF Tokens
      <3>4. ASSUME NEW i \in DOMAIN engine.held
            PROVE  Live(reg', engine.held[i])
        <4> DEFINE u == engine.held[i]
        <4>1. u \in reg.issued /\ u \in Tokens /\ Live(reg, u) /\ u \in Range(engine.held)
          BY <1>3 DEF Range
        <4> HIDE DEF u
        <4>2. FindRegistration(reg, u) /\ reg.regs[u.channel][u.slot].generic
          BY <4>1 DEF Live
        <4>3. ~(u.channel = tok.channel /\ u.slot = tok.slot)
          <5>1. ASSUME u.channel = tok.channel, u.slot = tok.slot PROVE tok = u
            BY <1>1, <3>1, <4>1, <4>2, <5>1, SameToken
          <5> QED
            BY <3>1, <4>1, <4>2, <5>1
        <4>4. Live(reg', u)
          BY <3>2, <3>3, <4>1, <4>3, LiveReleased
        <4> QED
          BY <4>4 DEF u
      <3> QED
        BY <1>4, <2>1, <3>4, ZenonT(60)
    <2> QED
      BY <1>6, <2>2, <2>3 DEF SubscriberStep
  <1>7. CASE AttachRule /\ reg' # reg
    <2> DEFINE c == RuleSignals[engine.rule]
    <2>1. /\ c \in Channels /\ ~Holds(c)
          /\ engine' = [engine EXCEPT !.rule = @ + 1, !.held = Append(@, Issued(reg'))]
      BY <1>7, AttachFacts
    <2>2. PICK s, h \in Slots, k \in Records :
            Added(reg, reg', c, s, h, TRUE, k) /\ Issued(reg') = NewToken(reg, c, s, TRUE)
      BY <1>7, AttachFacts
    <2> HIDE DEF c
    <2> DEFINE tok == NewToken(reg, c, s, TRUE)
    <2>3. engine'.held = Append(engine.held, tok)
      BY <1>2, <2>1, <2>2 DEF EngineRecord
    <2>4. tok.channel = c /\ Live(reg', tok)
      <3>1. reg'.regs[c][s] = NewEntry(reg, c, s, h, TRUE)
        BY <2>1, <2>2 DEF Added
      <3> QED
        BY <3>1 DEF NewToken, NewEntry, Live, FindRegistration
    <2>5. \A i \in DOMAIN engine.held : Live(reg', engine.held[i]) /\ engine.held[i].channel # c
      <3>1. \A i \in DOMAIN engine.held : Live(reg', engine.held[i])
        BY <1>3, <2>1, <2>2, LiveAdded, Zenon
      <3> QED
        BY <2>1, <3>1 DEF Holds
    <2> HIDE DEF tok
    <2>6. engine.held \in Seq(Tokens)
      BY <1>1 DEF HeldInv
    <2>7. /\ DOMAIN engine'.held = 1 .. Len(engine.held) + 1 /\ DOMAIN engine.held = 1 .. Len(engine.held)
          /\ \A i \in DOMAIN engine.held : engine'.held[i] = engine.held[i]
          /\ engine'.held[Len(engine.held) + 1] = tok /\ Len(engine.held) \in Nat
      BY <2>3, <2>6
    <2>8. \A i \in DOMAIN engine'.held : i \in DOMAIN engine.held \/ i = Len(engine.held) + 1
      BY <2>7
    <2>9. \A i \in DOMAIN engine'.held : Live(reg', engine'.held[i])
      BY <2>4, <2>5, <2>7, <2>8
    <2>10. \A i, j \in DOMAIN engine'.held : engine'.held[i].channel = engine'.held[j].channel => i = j
      BY <2>4, <2>5, <2>7, <2>8 DEF LiveInv
    <2> QED
      BY <2>9, <2>10 DEF LiveInv
  <1>8. CASE AttachRule /\ reg' = reg
    <2>1. engine'.held = engine.held
      BY <1>2, <1>8, AttachSame DEF EngineRecord
    <2> QED
      BY <1>3, <1>4, <1>8, <2>1
  <1>9. CASE UndoOne
    <2> DEFINE q == engine.held
               tok == Last(q)
    <2>1. engine'.held = Front(q) /\ q # <<>> /\ q \in Seq(reg.issued)
          /\ reg' = UnsubscribeGeneric(reg, tok) /\ CanUnsubscribeGeneric(reg, tok)
      BY <1>2, <1>9 DEF UndoOne, CanUndo, EngineRecord, HeldInv
    <2>2. /\ Front(q) \in Seq(reg.issued) /\ Len(Front(q)) = Len(q) - 1 /\ Len(q) \in Nat \ {0}
          /\ \A i \in 1 .. Len(q) - 1 : Front(q)[i] = q[i]
          /\ tok \in reg.issued /\ tok = q[Len(q)]
      BY <2>1, FrontFacts
    <2>3. Released(reg, reg', tok.channel, tok.slot)
      <3>1. Leaves(reg, reg', tok)
        BY <2>1 DEF Leaves
      <3> HIDE DEF tok
      <3> QED
        BY <1>1, <2>2, <3>1, LeaveFacts, Zenon
    <2>4. tok \in Tokens /\ tok.channel \in Channels /\ tok.slot \in Slots
      BY <1>1, <2>2 DEF Tokens
    <2>5. DOMAIN q = 1 .. Len(q) /\ DOMAIN Front(q) = 1 .. Len(q) - 1
      BY <2>1, <2>2
    <2>6. \A i \in DOMAIN Front(q) :
            i \in DOMAIN q /\ Front(q)[i] = q[i] /\ i # Len(q) /\ Len(q) \in DOMAIN q
      BY <2>2, <2>5
    <2> HIDE DEF tok, q
    <2>7. ASSUME NEW i \in DOMAIN Front(q)
          PROVE  Live(reg', Front(q)[i])
      <3>1. q[i] \in Tokens /\ Live(reg, q[i])
        BY <1>3, <2>6 DEF q
      <3>2. q[i].channel # tok.channel
        BY <2>2, <2>6 DEF LiveInv, q
      <3>3. Live(reg', q[i])
        BY <2>3, <2>4, <3>1, <3>2, LiveReleased
      <3> QED
        BY <2>6, <3>3
    <2>8. \A i, j \in DOMAIN Front(q) : Front(q)[i].channel = Front(q)[j].channel => i = j
      BY <2>6 DEF LiveInv, q
    <2> QED
      BY <2>1, <2>7, <2>8 DEF LiveInv, q
  <1>10. CASE AttachBegin \/ DetachBegin \/ AttachDone \/ UndoDone
    <2>1. engine'.held = engine.held /\ reg' = reg
      BY <1>2, <1>10 DEF AttachBegin, DetachBegin, EngineBegins, AttachDone, UndoDone, EngineEnds,
                         EngineRecord
    <2> QED
      BY <1>3, <1>4, <2>1
  <1>11. CASE engine' = engine /\ ~SubscriberStep /\ ~EngineStep
    <2>1. reg' = reg
      <3>1. CASE OwnerStep
        BY <3>1 DEF OwnerStep, RejectedCall, StartBegin, StartRuntime, StartDispatcher, StopBegin,
                    StopRuntime, StopTimeout, StopFinish, Configure
      <3>2. CASE WorkerStep
        BY <3>2 DEF WorkerStep, WorkerTakesReport, OnDiagnostics, WorkerFaults, WorkerEnds,
                    WorkerUnchanged
      <3>3. CASE DrainStep \/ \E r \in Runs : DispatcherStep(r)
        BY <3>3 DEF DrainStep, DrainBegin, DrainOne, DrainCallbackReturns, DispatcherStep, LoopCheck,
                    DispatchOne, CallbackReturns, DispatcherDone, DispatchUnchanged
      <3>4. CASE UNCHANGED vars
        BY <3>4 DEF vars
      <3> QED
        BY <1>11, <3>1, <3>2, <3>3, <3>4 DEF Next
    <2> QED
      BY <1>3, <1>4, <1>11, <2>1
  <1> QED
    BY <1>6, <1>7, <1>8, <1>9, <1>10, <1>11, HeldMoves DEF EngineStep

(* While a thread owns a stopped facade inside attach() or detach(), nobody takes *)
(* it away or starts it.                                                          *)
LEMMA SteadyKept ==
  ASSUME ControlInv, HeldInv, Steady, engine.doing # "idle", [Next]_vars, ~EngineStep
  PROVE  Steady' /\ engine' = engine
  <1>1. engine' = engine
    BY HeldMoves
  <1>2. engine.by # NoIdentity /\ owner = engine.by /\ life = "Stopped"
    BY DEF ControlInv, EngineTyped, Steady
  <1>3. /\ op = "idle" /\ worker = "none" /\ \A r \in Runs : disp[r] = "none"
    BY <1>2, StoppedFacts
  <1>4. \A t \in Callers : ~Mutation(t)
    BY <1>2, MutationFacts
  <1>5. UNCHANGED <<owner, life>>
    <2>1. CASE OwnerStep
      BY <1>3, <1>4, <2>1 DEF OwnerStep, RejectedCall, StartBegin, StartRuntime, StartDispatcher,
           StopBegin, StopRuntime, StopTimeout, StopFinish, Configure, StoppedMutation
    <2>2. CASE WorkerStep
      BY <1>3, <2>2 DEF WorkerStep, WorkerTakesReport, OnDiagnostics, WorkerFaults, WorkerEnds
    <2>3. CASE DrainStep
      BY <1>2, <1>3, <2>3 DEF DrainStep, DrainBegin, DrainOne, DrainCallbackReturns
    <2>4. CASE \E r \in Runs : DispatcherStep(r)
      BY <1>3, <2>4 DEF DispatcherStep, LoopCheck, DispatchOne, CallbackReturns, DispatcherDone
    <2>5. CASE SubscriberStep
      BY <1>4, <2>5 DEF SubscriberStep, SubscribeTyped, ProviderSubscribe, UnsubscribeTyped,
                        ProviderUnsubscribe, StoppedMutation
    <2>6. CASE UNCHANGED vars
      BY <2>6 DEF vars, lifeVars
    <2> QED
      BY <2>1, <2>2, <2>3, <2>4, <2>5, <2>6 DEF Next
  <1> QED
    BY <1>1, <1>2, <1>5 DEF Steady

LEMMA FlowNext ==
  ASSUME ControlInv, BooksKept, HeldInv, LiveInv, FlowInv, [Next]_vars
  PROVE  FlowInv'
  <1>1. engine \in EngineRecord(engine.held) /\ (engine.doing = "idle" <=> engine.by = NoIdentity)
        /\ engine.rule \in Nat \ {0}
    BY DEF ControlInv, EngineTyped, HeldInv
  <1>2. ASSUME engine'.held = engine.held PROVE \A c : Holds(c)' = Holds(c)
    BY <1>2 DEF Holds
  <1>3. CASE ~EngineStep
    <2>1. engine' = engine
      BY <1>3, HeldMoves
    <2>2. Steady /\ engine.doing # "idle" => Steady'
      BY <1>3, SteadyKept
    <2>3. \A c : Holds(c)' = Holds(c)
      BY <1>2, <2>1
    <2> QED
      BY <1>1, <2>1, <2>2, <2>3 DEF FlowInv, AllHeld
  <1>4. CASE AttachBegin
    <2>1. PICK t \in Threads : engine' = [engine EXCEPT !.doing = "attach", !.by = t, !.rule = 1]
      BY <1>4 DEF AttachBegin, EngineBegins
    <2>2. engine'.held = engine.held /\ engine'.doing = "attach" /\ engine'.rule = 1
      BY <1>1, <2>1 DEF EngineRecord
    <2>3. engine.held = <<>>
      BY <1>4 DEF AttachBegin, EngineBegins, FlowInv
    <2>4. \A i \in DOMAIN RuleSignals : ~(i < 1)
      BY LifecycleAssumption
    <2> QED
      BY <2>2, <2>3, <2>4 DEF FlowInv
  <1>5. CASE DetachBegin
    <2>1. PICK t \in Threads : engine' = [engine EXCEPT !.doing = "undo", !.by = t, !.rule = 1]
      BY <1>5 DEF DetachBegin, EngineBegins
    <2>2. engine'.held = engine.held /\ engine'.doing = "undo"
      BY <1>1, <2>1 DEF EngineRecord
    <2>3. AllHeld
      BY <1>5 DEF DetachBegin, EngineBegins, FlowInv
    <2> QED
      BY <1>2, <2>2, <2>3 DEF FlowInv, AllHeld
  <1>6. CASE AttachRule /\ reg' # reg
    <2>0. PICK c : c = RuleSignals[engine.rule]
      OBVIOUS
    <2>1. /\ c \in Channels /\ Accepted /\ Claims
          /\ engine' = [engine EXCEPT !.rule = @ + 1, !.held = Append(@, Issued(reg'))]
      BY <1>6, <2>0, AttachFacts
    <2>2. PICK s \in Slots : Issued(reg') = NewToken(reg, c, s, TRUE)
      BY <1>6, <2>0, AttachFacts
    <2>3. engine'.held = Append(engine.held, NewToken(reg, c, s, TRUE))
          /\ engine'.rule = engine.rule + 1 /\ engine'.doing = "attach" /\ engine'.by = engine.by
      BY <1>1, <1>6, <2>1, <2>2 DEF EngineRecord, AttachRule
    <2>4. Steady'
      <3>1. owner' = engine.by
        BY <2>1 DEF Accepted, Claims
      <3>2. life' = life /\ life = "Stopped"
        BY <1>6, <2>1 DEF AttachRule, EngineUnchanged, Accepted
      <3> QED
        BY <2>3, <3>1, <3>2 DEF Steady
    <2>5. NewToken(reg, c, s, TRUE).channel = c
      BY DEF NewToken
    <2> DEFINE tok == NewToken(reg, c, s, TRUE)
    <2>6. engine.held \in Seq(reg.issued)
      BY DEF HeldInv
    <2>7. /\ \A i \in DOMAIN engine.held : i \in DOMAIN engine'.held /\ engine'.held[i] = engine.held[i]
          /\ Len(engine.held) + 1 \in DOMAIN engine'.held
          /\ engine'.held[Len(engine.held) + 1].channel = c
      <3>1. /\ \A i \in DOMAIN engine.held :
                 i \in DOMAIN Append(engine.held, tok) /\ Append(engine.held, tok)[i] = engine.held[i]
            /\ Len(engine.held) + 1 \in DOMAIN Append(engine.held, tok)
            /\ Append(engine.held, tok)[Len(engine.held) + 1] = tok
        <4> HIDE DEF tok
        <4> QED
          BY <2>6
      <3> QED
        BY <2>3, <2>5, <3>1
    <2>8. Holds(c)' /\ \A d : Holds(d) => Holds(d)'
      <3>1. \E i \in DOMAIN engine'.held : engine'.held[i].channel = c
        BY <2>7
      <3>2. ASSUME NEW d, Holds(d) PROVE \E i \in DOMAIN engine'.held : engine'.held[i].channel = d
        BY <2>7, <3>2 DEF Holds
      <3> QED
        BY <3>1, <3>2 DEF Holds
    <2>9. ASSUME NEW i \in DOMAIN RuleSignals, i < engine.rule + 1 PROVE Holds(RuleSignals[i])'
      <3>1. i = engine.rule \/ i < engine.rule
        BY <1>1, <2>9, LifecycleAssumption
      <3>2. CASE i = engine.rule
        BY <2>0, <2>8, <3>2
      <3>3. CASE i < engine.rule
        <4>1. Holds(RuleSignals[i])
          BY <1>6, <3>3 DEF FlowInv, AttachRule
        <4> QED
          BY <2>8, <4>1
      <3> QED
        BY <3>1, <3>2, <3>3
    <2> QED
      BY <2>3, <2>4, <2>9 DEF FlowInv
  <1>7. CASE AttachRule /\ reg' = reg
    <2>0. engine.doing = "attach" /\ life' = life
      BY <1>7 DEF AttachRule, EngineUnchanged
    <2>1. CASE /\ Holds(RuleSignals[engine.rule]) /\ owner' = owner
               /\ engine' = [engine EXCEPT !.rule = @ + 1]
      <3>1. engine'.held = engine.held /\ engine'.rule = engine.rule + 1 /\ engine'.doing = "attach"
            /\ engine'.by = engine.by
        BY <1>1, <2>0, <2>1 DEF EngineRecord
      <3>2. ASSUME NEW i \in DOMAIN RuleSignals, i < engine.rule + 1 PROVE Holds(RuleSignals[i])
        <4>1. i = engine.rule \/ i < engine.rule
          BY <1>1, <3>2, LifecycleAssumption
        <4> QED
          BY <2>0, <2>1, <4>1 DEF FlowInv
      <3>3. Steady => Steady'
        BY <2>0, <2>1, <3>1 DEF Steady
      <3> QED
        BY <1>2, <2>0, <3>1, <3>2, <3>3 DEF FlowInv
    <2>2. CASE Claims /\ engine' = [engine EXCEPT !.doing = "undo"]
      <3>1. engine'.held = engine.held /\ engine'.doing = "undo" /\ engine'.by = engine.by
        BY <1>1, <2>2 DEF EngineRecord
      <3>2. Steady => Steady'
        BY <1>1, <2>0, <2>2, <3>1 DEF Steady, Claims
      <3> QED
        BY <2>0, <3>1, <3>2 DEF FlowInv
    <2> QED
      BY <1>7, <2>1, <2>2, AttachSame
  <1>8. CASE AttachDone
    <2>1. engine'.held = engine.held /\ engine'.doing = "idle" /\ engine'.attached
      BY <1>1, <1>8 DEF AttachDone, EngineEnds, EngineRecord
    <2>2. AllHeld
      <3>1. engine.doing = "attach" /\ engine.rule > Len(RuleSignals)
        BY <1>8 DEF AttachDone
      <3>2. \A i \in DOMAIN RuleSignals : i < engine.rule
        BY <1>1, <3>1, LifecycleAssumption
      <3> QED
        BY <3>1, <3>2 DEF FlowInv, AllHeld
    <2> QED
      BY <1>2, <2>1, <2>2 DEF FlowInv, AllHeld
  <1>9. CASE UndoOne
    <2>1. engine'.doing = "undo" /\ engine'.by = engine.by
      BY <1>1, <1>9 DEF UndoOne, EngineRecord
    <2>2. owner' = engine.by /\ life = "Stopped" /\ life' = life
      BY <1>9 DEF UndoOne, CanUndo, Accepted, Claims, EngineUnchanged
    <2> QED
      BY <2>1, <2>2 DEF FlowInv, Steady
  <1>10. CASE UndoDone
    <2>0. engine.doing = "undo"
      BY <1>10 DEF UndoDone
    <2>1. engine'.held = engine.held /\ engine'.doing = "idle"
          /\ (engine.held = <<>> => engine'.attached = FALSE) /\ (engine.held # <<>> => engine'.attached = TRUE)
      <3> DEFINE still == engine.held # <<>>
      <3>1. engine' = [engine EXCEPT !.attached = still, !.doing = "idle", !.by = NoIdentity]
        BY <1>10 DEF UndoDone, EngineEnds
      <3>2. still \in {TRUE, FALSE}
        OBVIOUS
      <3> HIDE DEF still
      <3>3. engine'.held = engine.held /\ engine'.doing = "idle" /\ engine'.attached = still
        BY <1>1, <3>1 DEF EngineRecord
      <3> QED
        BY <3>2, <3>3 DEF still
    <2>2. CASE engine.held = <<>>
      BY <2>1, <2>2 DEF FlowInv
    <2>3. CASE engine.held # <<>>
      <3>1. ~CanUndo
        BY <1>10, <2>3 DEF UndoDone
      <3>2. Last(engine.held) \in reg.issued /\ Live(reg, Last(engine.held))
        <4> DEFINE q == engine.held
        <4>1. q \in Seq(reg.issued) /\ q # <<>>
          BY <2>3 DEF HeldInv
        <4>2. Len(q) \in Nat \ {0} /\ Last(q) \in reg.issued /\ Last(q) = q[Len(q)]
          BY <4>1, FrontFacts
        <4>3. Len(q) \in DOMAIN q
          BY <4>1, <4>2
        <4> QED
          BY <4>2, <4>3 DEF LiveInv
      <3>3. CanUnsubscribeGeneric(reg, Last(engine.held))
        <4>1. Last(engine.held) \in Tokens
          BY <3>2 DEF BooksKept, BookInv, Books
        <4> QED
          BY <3>2, <4>1, LiveRemovable, Zenon DEF BooksKept
      <3>4. ~Accepted
        BY <3>1, <3>3 DEF CanUndo
      <3>5. ~Steady
        BY <1>1, <2>0, <3>4, StoppedFacts DEF Steady, Accepted, CallbackMutationRejected
      <3>6. AllHeld
        BY <2>0, <2>3, <3>5 DEF FlowInv
      <3> QED
        BY <1>2, <2>1, <3>6 DEF FlowInv, AllHeld
    <2> QED
      BY <2>2, <2>3
  <1> QED
    BY <1>3, <1>4, <1>5, <1>6, <1>7, <1>8, <1>9, <1>10 DEF EngineStep

(* While a behaviour makes no more registrations than a slot has generations, the *)
(* engine's tokens, the registrations, the trampoline records and the copies of   *)
(* the configuration agree in every reachable state, for any number of threads,   *)
(* rules and channels (attach, detach, unsubscribe_all, find_registration).       *)
THEOREM BookkeepingHolds ==
  ASSUME NoWrap
  PROVE  Spec => []BookkeepingAgrees
  <1> DEFINE Inv == ControlInv /\ BooksKept /\ HeldInv /\ SerialsKept /\ LiveInv /\ FlowInv
  <1>1. Init => Inv
    <2> SUFFICES ASSUME Init PROVE Inv
      OBVIOUS
    <2>1. ControlInv /\ BooksKept /\ HeldInv
      BY ControlInit, BooksInit
    <2>2. SerialsKept
      BY LifecycleAssumption DEF Init, SerialsKept, SerialInv
    <2>3. LiveInv /\ FlowInv
      BY DEF Init, LiveInv, FlowInv
    <2> QED
      BY <2>1, <2>2, <2>3
  <1>2. Inv /\ [Next]_vars => Inv'
    BY ControlNext, BooksNext, HeldNext, SerialNext, LiveNext, FlowNext
  <1>3. Inv => BookkeepingAgrees
    <2> SUFFICES ASSUME Inv PROVE BookkeepingAgrees
      OBVIOUS
    <2>1. \A i \in DOMAIN engine.held : CanUnsubscribeGeneric(reg, engine.held[i])
      <3> SUFFICES ASSUME NEW i \in DOMAIN engine.held
                   PROVE  CanUnsubscribeGeneric(reg, engine.held[i])
        OBVIOUS
      <3>1. engine.held[i] \in Tokens /\ Live(reg, engine.held[i])
        BY DEF HeldInv, LiveInv, BooksKept, BookInv, Books
      <3> QED
        BY <3>1, LiveRemovable DEF BooksKept
    <2>2. EngineHoldsWhatItSubscribed
      BY <2>1 DEF EngineHoldsWhatItSubscribed, FlowInv, AllHeld
    <2> QED
      BY <2>2, BooksGive DEF BookkeepingAgrees, ControlInv
  <1> HIDE DEF Inv
  <1> QED
    BY <1>1, <1>2, <1>3, PTL DEF Spec

=============================================================================
