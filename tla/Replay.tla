------------------------------- MODULE Replay -------------------------------
(***************************************************************************)
(* lib/replay on the host: run_replay() drives a ReplayController on       *)
(* replay time.  The controller owns a telemetry facade whose runtime      *)
(* worker is a second thread.  A GatedReplaySource lets that worker        *)
(* receive only what the host grants, and a PublicationBarrier makes the   *)
(* host wait for the publication of each grant before it drains the        *)
(* notifications, samples the rules and ticks the output stage.            *)
(*                                                                         *)
(* The stage renders into a stream of records that ends in a file or, in   *)
(* the emulator, in a browser: `wire` is what was accepted by its end.     *)
(***************************************************************************)
EXTENDS GvretCapture, FiniteSets, FiniteSetsExt

CONSTANTS Captures,   \* the capture files: [header, rows]
          Buses,      \* the buses a user may select
          Schedules,  \* ReplayScheduleOptions: [end, avail, poll, tick, sample]
          MaxEvents,  \* kMaximumScheduledEvents
          Faults      \* bound: the faults injected in each mode

FaultKinds == {"load", "start", "write", "drain", "sample", "sync", "stop"}

ASSUME ReplayAssumption ==
  MaxEvents \in Nat \ {0} /\ Faults \in [{"render", "web"} -> SUBSET FaultKinds]

ASSUME SchedulesAssumption ==
  Schedules \subseteq [end : Nat, avail : Nat, poll : Nat, tick : Nat, sample : Nat \cup {None}]

ASSUME CapturesAssumption ==
  \A csv \in Captures :
    /\ csv.rows \in Seq({csv.rows[i] : i \in DOMAIN csv.rows})
    /\ \A i \in DOMAIN csv.rows : csv.rows[i].time \in Nat \cup {Bad, Empty}

VARIABLES
  mode,     \* "render" (can-replay) or "web" (the emulator)
  pc,       \* where the host thread is
  plan,     \* frames, cadences and horizon of the replay
  clock,    \* ReplayClock
  next,     \* ReplayAcquisitionSource::next_frame_
  gated,    \* GatedReplaySource
  bar,      \* PublicationBarrier
  worker,   \* the runtime worker
  tele,     \* lifecycle the telemetry facade reports
  ctl,      \* ReplayController state_, who tears it down, tries its destructor has
  step,     \* the input step under way: what run_replay asked for
  cad,      \* run_replay: due time, next deadlines, end_of_stream
  status,   \* ReplayScheduleResult::status
  events,   \* what the ReplayEventSink recorded
  stage,    \* LocalArgbOutputStage: mailbox, command, renderer
  sink,     \* JsonlPixelFrameSink
  obs,      \* SignalObserverFanOut and what its observers saw
  attached, \* ActionEngine::attached()
  wire      \* the stream's records

ctlVars == <<ctl, tele, attached, obs>>
syncVars == <<gated, bar, worker, next>>
vars == <<mode, pc, plan, clock, next, gated, bar, worker, tele, ctl, step, cad, status,
          events, stage, sink, obs, attached, wire>>

Outcome(fault) == IF fault \in Faults[mode] THEN BOOLEAN ELSE {TRUE}

-----------------------------------------------------------------------------
(* Options and the schedule they mean.                                     *)

(* Mutant: the inclusive cadences are counted without their tick at zero.  *)
MFitsEventBudget(p) ==
  1 + p.end \div p.avail + p.end \div p.tick + p.end \div p.poll <= MaxEvents

(* fits() and fits_inclusive_cadence() take what is left of the budget one *)
(* cadence after the other; one event is kept for the end of stream.       *)
FitsEventBudget(p) ==
  LET avail == p.end \div p.avail
      left1 == MaxEvents - 1 - avail
      left2 == left1 - (p.end \div p.tick + 1)
      left3 == left2 - (p.end \div p.poll + 1)
  IN  /\ left1 >= 0 /\ p.end \div p.tick < left1 /\ p.end \div p.poll < left2
      /\ p.sample # None => p.end \div p.sample < left3

Validate(p) ==
  IF 0 \in {p.avail, p.tick, p.poll, p.sample} THEN "InvalidOptions"
  ELSE IF p.frames # <<>> /\ p.frames[1] # 0 THEN "InvalidInput"
  ELSE IF p.frames # <<>> /\ Last(p.frames) > p.end THEN "InvalidOptions"
  ELSE IF \E i \in 2..Len(p.frames) : p.frames[i] < p.frames[i - 1] THEN "InvalidInput"
  ELSE IF FitsEventBudget(p) THEN "Ok" ELSE "InvalidOptions"

NextDeadline(current, period, end) == IF current + period <= end THEN current + period ELSE None

NextFrameTime == IF next > Len(plan.frames) THEN None ELSE plan.frames[next]

EarliestDue ==
  LET times == {NextFrameTime, cad.avail, cad.poll, cad.sample, cad.tick} \ {None}
  IN  IF times = {} THEN None ELSE Min(times)

(* The calls that the options ask for, from the header comment: every      *)
(* frame at its time, the end of stream with the last of them, and each    *)
(* cadence at its multiples.                                               *)
Kinds == <<"Frame", "EndOfStream", "Timeout", "Poll", "SignalSample", "OutputTick">>

Call(time, rank, nth) == [time |-> time, rank |-> rank, nth |-> nth]
EveryMultiple(rank, period, times) == {Call(t, rank, 0) : t \in {u \in times : u % period = 0}}

Calls(p) ==
  {Call(p.frames[i], 1, i) : i \in DOMAIN p.frames}
    \cup {Call(IF p.frames = <<>> THEN 0 ELSE Last(p.frames), 2, 0)}
    \cup EveryMultiple(3, p.avail, 1..p.end) \cup EveryMultiple(4, p.poll, 0..p.end)
    \cup (IF p.sample = None THEN {} ELSE EveryMultiple(5, p.sample, 0..p.end))
    \cup EveryMultiple(6, p.tick, 0..p.end)

(* What is due at one time comes in the order of Kinds.                    *)
Earlier(c, d) ==
  \/ c.time < d.time
  \/ c.time = d.time /\ (c.rank < d.rank \/ (c.rank = d.rank /\ c.nth < d.nth))

EarlierThan(d, calls) == {c \in calls : Earlier(c, d)}

-----------------------------------------------------------------------------
(* The stream and the output stage.  A write that fails leaves the stream  *)
(* failed: an ostream keeps its badbit, the socket's line buffer its flag. *)
(* Records that say the same twice running are one record here.            *)

Append1(w, r) == IF w # <<>> /\ Last(w) = r THEN w ELSE Append(w, r)

StreamWrite(s, w, r, ok) ==
  LET good == s.good /\ ok
      open == IF s.header THEN w ELSE Append1(w, "header")
  IN  [sink |-> [s EXCEPT !.good = good, !.header = s.header \/ good],
       wire |-> IF good THEN Append1(open, r) ELSE w, ok |-> good]

(* RendererController::write_desired(): an unchanged frame is not written. *)
(* Operators on the output take and give a record of all three variables.  *)
Out == [stage |-> stage, sink |-> sink, wire |-> wire, ok |-> TRUE]

WriteDesired(o, d, ok) ==
  IF o.stage.last = d THEN [o EXCEPT !.ok = TRUE]
  ELSE LET w == StreamWrite(o.sink, o.wire, d, ok)
       IN  [stage |-> [o.stage EXCEPT !.last = IF w.ok THEN d ELSE "none",
                                      !.faulted = o.stage.faulted \/ ~w.ok],
            sink |-> w.sink, wire |-> w.wire, ok |-> w.ok]

(* apply() recovers a faulted renderer only over a strip known black.      *)
Applied(st, command) ==
  [st EXCEPT !.command = command, !.mail = "none",
             !.faulted = st.faulted /\ st.last # "black"]

(* A lit command draws pixels until its animation or deadline ends.        *)
Drawn(st, burns) == IF ~st.faulted /\ st.command = "on" /\ burns THEN "lit" ELSE "black"

StageStart(o, ok) ==
  WriteDesired([o EXCEPT !.stage.last = "none", !.stage.faulted = FALSE], "black", ok)

StageTick(o, ok, burns) ==
  LET st == IF o.stage.mail = "none" THEN o.stage ELSE Applied(o.stage, o.stage.mail)
  IN  WriteDesired([o EXCEPT !.stage = st], Drawn(st, burns), ok)

(* Mutant: the command that waits in the mailbox is not discarded.         *)
MFailOff(o, ok) ==
  LET st == Applied(o.stage, IF o.stage.mail = "none" THEN "off" ELSE o.stage.mail)
  IN  WriteDesired([o EXCEPT !.stage = st], Drawn(st, TRUE), ok)

FailOff(o, ok) == WriteDesired([o EXCEPT !.stage = Applied(o.stage, "off")], "black", ok)

Commit(w) == stage' = w.stage /\ sink' = w.sink /\ wire' = w.wire

(* What the engine may have put in the mailbox while it was called.  A     *)
(* command that lights nothing is one that does not burn at the next tick. *)
EngineRan(o, m) == IF m = "none" THEN o ELSE [o EXCEPT !.stage.mail = m]
Mail == {"none", "on"}

-----------------------------------------------------------------------------
(* Observers.                                                              *)

Saw(o) == [o EXCEPT !.readings = TRUE]

(* Until open(), readings are held.                                        *)
Receive(o) ==
  IF ~o.injected \/ ~o.attached THEN o
  ELSE IF o.opened THEN Saw(o) ELSE [o EXCEPT !.held = TRUE]

Open(o) == [o EXCEPT !.opened = TRUE, !.catalog = o.injected,
                     !.readings = o.readings \/ o.held, !.held = FALSE]

Detached(o) == [o EXCEPT !.attached = FALSE, !.opened = FALSE, !.held = FALSE]

-----------------------------------------------------------------------------
(* Construction, one replay at a time.                                     *)

NewGated == [running |-> FALSE, cancelled |-> FALSE, pending |-> FALSE,
             grant |-> "Timeout", last |-> "Timeout"]
NewBarrier == [completed |-> 0, released |-> 0, cancelled |-> FALSE]
NewController == [state |-> "Ready", caller |-> "run", tries |-> 2, began |-> FALSE]
NewStage == [mail |-> "none", command |-> "none", last |-> "none", faulted |-> FALSE]
NewSink == [good |-> TRUE, header |-> FALSE]
NewObservers(injected) == [injected |-> injected, attached |-> FALSE, opened |-> FALSE,
                           held |-> FALSE, catalog |-> FALSE, readings |-> FALSE]
NewCadences == [due |-> 0, avail |-> None, poll |-> None, sample |-> None,
                tick |-> None, eos |-> FALSE]

NewReplay(p) ==
  /\ clock' = 0 /\ next' = 1 /\ gated' = NewGated /\ bar' = NewBarrier
  /\ worker' = "none" /\ tele' = "Stopped"
  /\ ctl' = NewController
  /\ step' = [ask |-> "none", epoch |-> 0] /\ cad' = NewCadences
  /\ events' = <<>> /\ stage' = NewStage
  /\ obs' = NewObservers(p.sample # None) /\ attached' = FALSE

Init ==
  /\ mode \in {"render", "web"} /\ pc = "load"
  /\ plan = [frames |-> <<>>, end |-> 0, avail |-> 1, poll |-> 1, tick |-> 1, sample |-> None]
  /\ clock = 0 /\ next = 1 /\ gated = NewGated /\ bar = NewBarrier
  /\ worker = "none" /\ tele = "Stopped"
  /\ ctl = NewController
  /\ step = [ask |-> "none", epoch |-> 0] /\ cad = NewCadences
  /\ status = "Ok" /\ events = <<>> /\ stage = NewStage /\ sink = NewSink
  /\ obs = NewObservers(FALSE) /\ attached = FALSE /\ wire = <<>>

(* main(): load the capture, then render it, or serve it up to its last    *)
(* frame.  Only can-replay injects observers.                              *)
Load ==
  /\ pc = "load"
  /\ \E csv \in Captures, bus \in Buses, o \in Schedules, readable \in Outcome("load") :
       LET loaded == LoadFile(csv, bus, readable)
           last == IF loaded.frames = <<>> THEN 0 ELSE Last(loaded.frames)
       IN  IF loaded.ok
             THEN /\ plan' = [frames |-> loaded.frames, avail |-> o.avail, poll |-> o.poll,
                              tick |-> o.tick,
                              end |-> IF mode = "web" THEN last ELSE o.end,
                              sample |-> IF mode = "web" THEN None ELSE o.sample]
                  /\ pc' = IF mode = "web" THEN "serverStart" ELSE "run"
                  /\ UNCHANGED status
             ELSE status' = "LoadFailed" /\ pc' = "exit" /\ UNCHANGED plan
  /\ UNCHANGED <<mode, clock, syncVars, ctlVars, step, cad, events, stage, sink, wire>>

(* run_replay(): nothing is started for options that do not validate.      *)
RunReplay ==
  /\ pc = "run"
  /\ NewReplay(plan)
  /\ status' = Validate(plan)
  /\ pc' = IF status' = "Ok" THEN "start" ELSE "over"
  /\ UNCHANGED <<mode, plan, sink, wire>>

-----------------------------------------------------------------------------
(* start().                                                                *)

StartFaults ==
  IF "start" \notin Faults[mode] THEN {"none"}
  ELSE {"none", "configure", "engine", "telemetry", "half"}
         \cup IF obs.injected THEN {"observers"} ELSE {}

(* An attempt that fails before telemetry runs releases the stage at once  *)
(* and leaves no consumer attached.  A telemetry start may fail half way,  *)
(* with its worker alive.                                                  *)
Start ==
  /\ pc = "start" /\ ctl.state = "Ready"
  /\ \E ok, off \in Outcome("write"), fault \in StartFaults :
       LET o == StageStart(Out, ok)
       IN  IF ~o.ok \/ fault \notin {"none", "half"}
             THEN /\ Commit(FailOff(o, off))
                  /\ ctl' = [ctl EXCEPT !.state = "Stopped"]
                  /\ bar' = [bar EXCEPT !.cancelled = fault \in {"observers", "telemetry"}]
                  /\ status' = "ControllerFailure" /\ pc' = "destroy"
                  /\ UNCHANGED <<gated, worker, tele, obs, attached>>
             ELSE /\ Commit(o)
                  /\ ctl' = [ctl EXCEPT !.state = "Starting"]
                  /\ attached' = TRUE /\ obs' = [obs EXCEPT !.attached = TRUE]
                  /\ worker' = "waiting" /\ gated' = [gated EXCEPT !.running = TRUE]
                  /\ tele' = IF fault = "half" THEN "Stopping" ELSE "Running"
                  /\ status' = IF fault = "half" THEN "ControllerFailure" ELSE status
                  /\ pc' = IF fault = "half" THEN "cancel" ELSE "startDrain"
                  /\ UNCHANGED bar
  /\ UNCHANGED <<mode, plan, clock, next, step, cad, events>>

(* The start-time notifications, the first tick, and only then the         *)
(* observers.                                                              *)
StartDrain ==
  /\ pc = "startDrain"
  /\ \E drained \in Outcome("drain"), ok \in Outcome("write"), burns \in BOOLEAN, m \in Mail :
       LET o == StageTick(EngineRan(Out, m), ok, burns)
           heard == Receive(obs)
       IN  IF drained /\ o.ok
             THEN /\ Commit(o)
                  /\ obs' = Open(heard)
                  /\ ctl' = [ctl EXCEPT !.state = "Running", !.began = TRUE]
                  /\ cad' = [due |-> 0, poll |-> 0, tick |-> 0, eos |-> FALSE,
                             avail |-> NextDeadline(0, plan.avail, plan.end),
                             sample |-> IF plan.sample = None THEN None ELSE 0]
                  /\ pc' = "loop" /\ UNCHANGED status
             ELSE /\ Commit(IF drained THEN o ELSE EngineRan(Out, m))
                  /\ obs' = heard
                  /\ status' = "ControllerFailure" /\ pc' = "cancel"
                  /\ UNCHANGED <<ctl, cad>>
  /\ UNCHANGED <<mode, plan, clock, syncVars, tele, step, events, attached>>

-----------------------------------------------------------------------------
(* The runtime worker: receive() on the gated source, the report, and      *)
(* publication_completed() at the end of it.                               *)

WorkerWakes ==
  /\ worker = "waiting"
  /\ gated.pending \/ gated.cancelled \/ ~gated.running
  /\ IF ~gated.running
       THEN worker' = "done" /\ UNCHANGED gated
       ELSE worker' = "receiving" /\ gated' = [gated EXCEPT !.pending = FALSE]
  /\ UNCHANGED <<mode, pc, plan, clock, next, bar, ctlVars, step, cad, status, events, stage,
                 sink, wire>>

(* A frame is not received before its replay time.                         *)
WorkerReceives ==
  /\ worker = "receiving"
  /\ LET frame == gated.grant = "Receive" /\ NextFrameTime # None /\ NextFrameTime <= clock
     IN  /\ gated' = [gated EXCEPT !.last = IF frame THEN "Frame" ELSE "Timeout"]
         /\ next' = IF frame THEN next + 1 ELSE next
  /\ worker' = "publishing"
  /\ UNCHANGED <<mode, pc, plan, clock, bar, ctlVars, step, cad, status, events, stage, sink,
                 wire>>

PublicationCompleted ==
  /\ worker = "publishing"
  /\ IF bar.cancelled
       THEN worker' = "waiting" /\ UNCHANGED bar
       ELSE worker' = "held" /\ bar' = [bar EXCEPT !.completed = bar.completed + 1]
  /\ UNCHANGED <<mode, pc, plan, clock, next, gated, ctlVars, step, cad, status, events, stage,
                 sink, wire>>

WorkerReleased ==
  /\ worker = "held"
  /\ bar.cancelled \/ bar.released >= bar.completed
  /\ worker' = "waiting"
  /\ UNCHANGED <<mode, pc, plan, clock, next, gated, bar, ctlVars, step, cad, status, events,
                 stage, sink, wire>>

Worker == WorkerWakes \/ WorkerReceives \/ PublicationCompleted \/ WorkerReleased

-----------------------------------------------------------------------------
(* run_replay(): one due time after the other, each admitted before the    *)
(* clock moves to it.                                                      *)

Loop ==
  /\ pc = "loop"
  /\ cad' = [cad EXCEPT !.due = IF EarliestDue = None THEN plan.end ELSE EarliestDue]
  /\ pc' = IF EarliestDue # None THEN "admit" ELSE IF clock < plan.end THEN "admitEnd" ELSE "cancel"
  /\ UNCHANGED <<mode, plan, clock, syncVars, ctlVars, step, status, events, stage, sink, wire>>

(* The gate said yes; the clock refuses to go back.                        *)
AdvanceTo ==
  /\ clock' = IF cad.due > clock THEN cad.due ELSE clock
  /\ status' = IF cad.due >= clock THEN status ELSE "ClockFailure"
  /\ pc' = IF status' = "Ok" /\ pc = "admit" THEN "frames" ELSE "cancel"

(* can-replay has no gate.                                                 *)
Ungated ==
  /\ mode = "render" /\ pc \in {"admit", "admitEnd"}
  /\ AdvanceTo
  /\ UNCHANGED <<mode, plan, syncVars, ctlVars, step, cad, events, stage, sink, wire>>

Fail(o, off) ==
  /\ ctl' = [ctl EXCEPT !.state = "Failed"]
  /\ Commit(FailOff(o, off))
  /\ status' = "ControllerFailure" /\ pc' = "cancel"

(* Mutant: the step waits for the publication that was the last.           *)
MPrepareStep == bar.completed

PrepareStep == bar.completed + 1

(* prepare_step() frees the worker and names the epoch of the next         *)
(* publication; grant() lets the worker receive once.                      *)
ProcessInput(ask) ==
  /\ IF bar.cancelled \/ ~gated.running \/ gated.cancelled \/ gated.pending
       THEN \E off \in Outcome("write") : Fail(Out, off) /\ UNCHANGED <<bar, gated, step>>
       ELSE /\ bar' = [bar EXCEPT !.released = bar.completed]
            /\ step' = [ask |-> ask, epoch |-> PrepareStep]
            /\ gated' = [gated EXCEPT !.pending = TRUE,
                            !.grant = IF ask = "Timeout" THEN "Timeout" ELSE "Receive"]
            /\ pc' = "wait" /\ UNCHANGED <<ctl, stage, sink, wire, status>>
  /\ UNCHANGED <<mode, plan, clock, next, worker, tele, cad, events, obs, attached>>

Skip(to) ==
  /\ pc' = to
  /\ UNCHANGED <<mode, plan, clock, syncVars, ctlVars, step, cad, status, events, stage, sink,
                 wire>>

Frames ==
  pc = "frames" /\ IF NextFrameTime = cad.due THEN ProcessInput("Frame") ELSE Skip("eof")

EndOfStream ==
  pc = "eof" /\ IF ~cad.eos /\ NextFrameTime = None THEN ProcessInput("EndOfStream")
                                                     ELSE Skip("timeout")

Availability ==
  pc = "timeout" /\ IF cad.avail = cad.due THEN ProcessInput("Timeout") ELSE Skip("poll")

PublicationSeen ==
  /\ pc = "wait" /\ bar.completed >= step.epoch
  /\ Skip("drain")

(* A loaded host: the worker did not publish in time.                      *)
SynchronizationTimeout ==
  /\ pc = "wait" /\ bar.completed < step.epoch /\ "sync" \in Faults[mode]
  /\ \E off \in Outcome("write") : Fail(Out, off)
  /\ UNCHANGED <<mode, plan, clock, syncVars, tele, step, cad, events, obs, attached>>

InputResult ==
  IF gated.last = "Frame" THEN "Frame"
  ELSE IF gated.grant = "Receive" /\ NextFrameTime = None THEN "EndOfStream" ELSE "Timeout"

Record(kind) == Append(events, <<cad.due, kind>>)

(* Draining runs the engine and the observers on the host thread.  A       *)
(* result other than the one asked for ends the replay.                    *)
Drain ==
  /\ pc = "drain"
  /\ \E drained \in Outcome("drain"), off \in Outcome("write"), m \in Mail, heard \in {obs, Receive(obs)} :
       LET o == EngineRan(Out, m)
       IN  /\ obs' = heard
           /\ IF ~drained THEN Fail(o, off) /\ UNCHANGED <<events, cad>>
              ELSE /\ Commit(o) /\ UNCHANGED ctl
                   /\ IF InputResult # step.ask
                        THEN status' = "ControllerFailure" /\ pc' = "cancel" /\ UNCHANGED <<events, cad>>
                        ELSE /\ events' = Record(step.ask)
                             /\ cad' = [cad EXCEPT
                                   !.eos = cad.eos \/ step.ask = "EndOfStream",
                                   !.avail = IF step.ask = "Timeout"
                                     THEN NextDeadline(cad.due, plan.avail, plan.end) ELSE cad.avail]
                             /\ pc' = CASE step.ask = "Frame" -> "frames"
                                        [] step.ask = "EndOfStream" -> "timeout"
                                        [] step.ask = "Timeout" -> "poll"
                             /\ UNCHANGED status
  /\ UNCHANGED <<mode, plan, clock, syncVars, tele, step, attached>>

(* A cadence step: the work may fail; when it is done it is recorded and   *)
(* its next deadline set.                                                  *)
Did(kind, o, newCad, to) ==
  /\ Commit(o) /\ events' = Record(kind) /\ cad' = newCad /\ pc' = to
  /\ UNCHANGED <<ctl, status>>

Failed(o, off) == Fail(o, off) /\ UNCHANGED <<events, cad>>

Poll ==
  /\ pc = "poll"
  /\ IF cad.poll # cad.due THEN Skip("sample")
     ELSE /\ \E sampled \in Outcome("sample"), off \in Outcome("write"), m \in Mail :
               IF sampled
                 THEN Did("Poll", EngineRan(Out, m),
                          [cad EXCEPT !.poll = NextDeadline(cad.due, plan.poll, plan.end)], "sample")
                 ELSE Failed(EngineRan(Out, m), off)
          /\ UNCHANGED <<mode, plan, clock, syncVars, tele, step, obs, attached>>

SampleSignals ==
  /\ pc = "sample"
  /\ IF cad.sample # cad.due THEN Skip("tick")
     ELSE /\ obs' = Saw(obs)
          /\ \E sampled \in Outcome("sample"), off \in Outcome("write") :
               IF sampled
                 THEN Did("SignalSample", Out,
                          [cad EXCEPT !.sample = NextDeadline(cad.due, plan.sample, plan.end)], "tick")
                 ELSE Failed(Out, off)
          /\ UNCHANGED <<mode, plan, clock, syncVars, tele, step, attached>>

TickOutput ==
  /\ pc = "tick"
  /\ IF cad.tick # cad.due THEN Skip("loop")
     ELSE /\ \E ok, off \in Outcome("write"), burns \in BOOLEAN :
               LET o == StageTick(Out, ok, burns)
               IN  IF o.ok
                     THEN Did("OutputTick", o,
                              [cad EXCEPT !.tick = NextDeadline(cad.due, plan.tick, plan.end)], "loop")
                     ELSE Failed(o, off)
          /\ UNCHANGED <<mode, plan, clock, syncVars, tele, step, obs, attached>>

-----------------------------------------------------------------------------
(* stop(), cleanup_failed_start() and the destructor.                      *)

(* publication_barrier_.cancel() comes first, so that no worker waits in   *)
(* the barrier while telemetry waits for the worker.                       *)
Cancel ==
  /\ pc = "cancel"
  /\ bar' = [bar EXCEPT !.cancelled = TRUE, !.released = bar.completed]
  /\ pc' = "stopTelemetry"
  /\ UNCHANGED <<mode, plan, clock, next, gated, worker, ctlVars, step, cad, status, events,
                 stage, sink, wire>>

StopTelemetry ==
  /\ pc = "stopTelemetry"
  /\ gated' = [gated EXCEPT !.running = FALSE, !.cancelled = TRUE, !.pending = FALSE]
  /\ tele' = "Stopping" /\ pc' = "stopWait"
  /\ UNCHANGED <<mode, plan, clock, next, bar, worker, ctl, attached, obs, step, cad, status,
                 events, stage, sink, wire>>

(* Consumers are detached only from a quiescent facade.  The output is     *)
(* failed off either way; a failed start that is not quiescent releases    *)
(* the stage in a later stop().                                            *)
FinishStop(quiescent) ==
  \E off \in Outcome("write") :
    LET o == FailOff(Out, off)
    IN  /\ Commit(o)
        /\ attached' = (attached /\ ~quiescent)
        /\ obs' = IF quiescent THEN Detached(obs) ELSE obs
        /\ ctl' = [ctl EXCEPT !.state = IF quiescent THEN "Stopped" ELSE "Failed"]
        /\ status' = IF status = "Ok" /\ ctl.caller = "run" /\ ~(quiescent /\ o.ok)
                       THEN "ControllerFailure" ELSE status
        /\ pc' = "destroy"

StopDone ==
  /\ pc = "stopWait" /\ worker = "done"
  /\ tele' = "Stopped"
  /\ FinishStop(TRUE)
  /\ UNCHANGED <<mode, plan, clock, syncVars, step, cad, events>>

StopTimesOut ==
  /\ pc = "stopWait" /\ worker # "done" /\ "stop" \in Faults[mode]
  /\ FinishStop(FALSE)
  /\ UNCHANGED <<mode, plan, clock, syncVars, tele, step, cad, events>>

(* The destructor stops what is left, twice at most.                       *)
Destroy ==
  /\ pc = "destroy"
  /\ IF ctl.state = "Failed" /\ ctl.tries > 0
       THEN pc' = "cancel" /\ ctl' = [ctl EXCEPT !.caller = "destructor", !.tries = ctl.tries - 1]
       ELSE pc' = "over" /\ UNCHANGED ctl
  /\ UNCHANGED <<mode, plan, clock, syncVars, tele, attached, obs, step, cad, status, events,
                 stage, sink, wire>>

(* can-replay: the end record, after a replay that went well.              *)
RenderEnds ==
  /\ mode = "render" /\ pc = "over" /\ pc' = "exit"
  /\ \E ok \in Outcome("write") :
       LET w == StreamWrite(sink, wire, "end", ok)
       IN  IF status = "Ok"
             THEN sink' = w.sink /\ wire' = w.wire
             ELSE UNCHANGED <<sink, wire>>
  /\ UNCHANGED <<mode, plan, clock, syncVars, ctlVars, step, cad, status, events, stage>>

Controller ==
  \/ Start \/ StartDrain \/ Loop \/ Frames \/ EndOfStream \/ Availability \/ PublicationSeen
  \/ SynchronizationTimeout \/ Drain \/ Poll \/ SampleSignals \/ TickOutput
  \/ Cancel \/ StopTelemetry \/ StopDone \/ StopTimesOut \/ Destroy

Host == Load \/ RunReplay \/ Ungated \/ Controller \/ RenderEnds
=============================================================================
