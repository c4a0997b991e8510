------------------------ MODULE LightingRuntimeProofs ------------------------
(***************************************************************************)
(* Proofs that the properties of LightingRuntime hold for every set of     *)
(* publishers and every bound on driver faults.                            *)
(***************************************************************************)
EXTENDS LightingRuntime, TLAPS

(* The inductive invariant, by the part of the program it speaks of.        *)

\* in_flight_ counts exactly the publishers between entry and return.
FlightInv == \A p \in Publishers : p \in inFlight <=> pc[p] # "idle"

\* A lit newest command after an off order was sent by a racing publisher that
\* has not reached its trailing black yet.
RaceInv ==
    order = "off" /\ Latest = "Lit" =>
        \E p \in Publishers : pc[p] \in {"recheck", "compare", "black"} /\ ~same[p]

\* From the stall's gate close to its reopening the gate is not open, and from
\* the epoch change on nobody is about to send with a current epoch.
StallInv ==
    /\ spc # "idle" => gate # "Open"
    /\ spc \in {"closeBlack", "stalled"} => \A p \in Publishers : pc[p] = "send" => ~same[p]
    /\ spc = "stalled" => order = "off"

Drains == {"sample", "publish", "waitPass", "waitQueue", "waitBlack", "confirmed"}

\* The gate stays shut, and after the drain no publisher is past its check.
ShutInv ==
    /\ rpc \in {"shutEpoch", "drain"} \cup Drains => gate = "Shut"
    /\ rpc \in Drains =>
          \A p \in Publishers : pc[p] \notin {"send", "recheck", "compare", "black"}

\* last_written_ is what the strip shows, and the worker draws only from held.
RenderInv ==
    /\ phase \in {"boot", "cleared"} => wpc = "off" /\ ~workerBlack
    /\ phase = "cleared" => lastWritten = "Black"
    /\ lastWritten # "None" /\ wpc # "hung" => strip = lastWritten
    /\ held # "Lit" => desired = "Black"
    /\ phase \in {"cleared", "created", "up"} /\ held = "None" =>
          lastWritten = "Black" /\ wpc \notin {"write", "clear", "hung"}

\* g_worker_black is stale only during a pass that draws from a lit command.
BlackInv ==
    /\ workerBlack /\ wpc \in {"receive", "count"} => lastWritten = "Black"
    /\ workerBlack /\ held # "Lit" =>
          lastWritten = "Black" /\ wpc \notin {"write", "clear", "hung"}

\* What each load of fail_off_for_restart's wait loop has established.
ConfirmInv ==
    /\ rpc \in {"waitPass", "waitQueue", "waitBlack", "confirmed"} =>
          queue # "Lit" /\ (queue = "Empty" => held # "Lit")
    /\ rpc \in {"waitBlack", "confirmed"} => held # "Lit"
    /\ rpc = "confirmed" => workerBlack

IInv ==
    /\ TypeOK
    /\ FlightInv /\ RaceInv /\ StallInv /\ ShutInv
    /\ RenderInv /\ BlackInv /\ ConfirmInv

-----------------------------------------------------------------------------
(* Proofs. *)

\* Every step keeps every variable in its type.
LEMMA TypeStep == TypeOK /\ [Next]_vars => TypeOK'
  <1> SUFFICES ASSUME TypeOK, [Next]_vars PROVE TypeOK'
    OBVIOUS
  <1> USE MaxFaultsAssumption DEF TypeOK, Frames, StartupAttempts, bootVars, gateVars, rendererVars
  <1>1. CASE StartRefused
    BY <1>1 DEF StartRefused
  <1>2. CASE StartupBlack
    <2>1. CASE strip' = "Black" /\ lastWritten' = "Black" /\ phase' = "cleared" /\ UNCHANGED <<attempts, faulted, faults>>
      BY <1>2, <2>1 DEF StartupBlack
    <2>2. CASE faults < MaxFaults /\ attempts' = attempts + 1 /\ faults' = faults + 1 /\ faulted' = TRUE /\ lastWritten' = "None"
               /\ phase' \in {"refused", phase} /\ strip' \in {strip, "Black"}
      BY <1>2, <2>2 DEF StartupBlack
    <2> QED
      BY <1>2, <2>1, <2>2 DEF StartupBlack
  <1>3. CASE CreateWorker
    BY <1>3 DEF CreateWorker
  <1>4. CASE FinishStart
    BY <1>4 DEF FinishStart
  <1>5. ASSUME NEW p \in Publishers, Enter(p) PROVE  TypeOK'
    BY <1>5 DEF Enter, PublishOther, Goto, Started
  <1>6. ASSUME NEW p \in Publishers, ReadEpoch(p) PROVE  TypeOK'
    BY <1>6 DEF ReadEpoch, PublishOther, Goto
  <1>7. ASSUME NEW p \in Publishers, CheckOpen(p) PROVE  TypeOK'
    BY <1>7 DEF CheckOpen, PublishOther, Goto
  <1>8. ASSUME NEW p \in Publishers, Send(p) PROVE  TypeOK'
    BY <1>8 DEF Send, PublishOther, Goto
  <1>9. ASSUME NEW p \in Publishers, RecheckOpen(p) PROVE  TypeOK'
    BY <1>9 DEF RecheckOpen, PublishOther, Goto
  <1>10. ASSUME NEW p \in Publishers, CompareEpoch(p) PROVE  TypeOK'
    BY <1>10 DEF CompareEpoch, PublishOther, Goto
  <1>11. ASSUME NEW p \in Publishers, TrailingBlack(p) PROVE  TypeOK'
    BY <1>11 DEF TrailingBlack, PublishOther, Goto
  <1>12. ASSUME NEW p \in Publishers, Leave(p) PROVE  TypeOK'
    BY <1>12 DEF Leave, PublishOther, Goto
  <1>13. CASE CloseState
    BY <1>13 DEF CloseState, SupervisorOther, Started
  <1>14. CASE CloseEpoch
    BY <1>14 DEF CloseEpoch, SupervisorOther, Invalidate
  <1>15. CASE CloseBlack
    BY <1>15 DEF CloseBlack, SupervisorOther
  <1>16. CASE OpenEpoch
    BY <1>16 DEF OpenEpoch, SupervisorOther, Invalidate
  <1>17. CASE OpenState
    BY <1>17 DEF OpenState, SupervisorOther
  <1>18. CASE FailOffEpoch
    BY <1>18 DEF FailOffEpoch, Started, Invalidate
  <1>19. CASE FailOffBlack
    BY <1>19 DEF FailOffBlack
  <1>20. CASE RestartBegin
    BY <1>20 DEF RestartBegin, RestartOther, Started
  <1>21. CASE ShutState
    BY <1>21 DEF ShutState, RestartOther
  <1>22. CASE ShutEpoch
    BY <1>22 DEF ShutEpoch, RestartOther, Invalidate
  <1>23. CASE Drained
    BY <1>23 DEF Drained, RestartOther
  <1>24. CASE SamplePasses
    <2>1. passed' \in BOOLEAN
      BY <1>24, Zenon DEF SamplePasses, RestartOther
    <2> QED
      BY <1>24, <2>1 DEF SamplePasses, RestartOther
  <1>25. CASE QueueBlack
    BY <1>25 DEF QueueBlack, RestartOther
  <1>26. CASE SeePass
    BY <1>26 DEF SeePass, RestartOther
  <1>27. CASE SeeQueue
    BY <1>27 DEF SeeQueue, RestartOther
  <1>28. CASE SeeBlack
    BY <1>28 DEF SeeBlack, RestartOther
  <1>29. CASE RestartTimeout
    BY <1>29 DEF RestartTimeout, RestartOther
  <1>30. CASE Restart
    <2>1. passed' \in BOOLEAN
      BY <1>30, Zenon DEF Restart, Reboot
    <2>2. faulted' \in BOOLEAN
      BY <1>30, Zenon DEF Restart, Reboot
    <2>3. workerBlack' \in BOOLEAN
      BY <1>30, Zenon DEF Restart, Reboot
    <2> QED
      BY <1>30, <2>1, <2>2, <2>3 DEF Restart, Reboot
  <1>31. CASE WatchdogRestart
    <2>1. passed' \in BOOLEAN
      BY <1>31, Zenon DEF WatchdogRestart, Reboot
    <2>2. faulted' \in BOOLEAN
      BY <1>31, Zenon DEF WatchdogRestart, Reboot
    <2>3. workerBlack' \in BOOLEAN
      BY <1>31, Zenon DEF WatchdogRestart, Reboot
    <2> QED
      BY <1>31, <2>1, <2>2, <2>3 DEF WatchdogRestart, Reboot
  <1>32. CASE Apply
    BY <1>32 DEF Apply, WorkerOther, Drawable, AfterDraw
  <1>33. CASE Tick
    BY <1>33 DEF Tick, WorkerOther, Drawable, AfterDraw
  <1>34. CASE WriteOk
    BY <1>34 DEF WriteOk, WorkerOther
  <1>35. CASE WriteFail
    BY <1>35 DEF WriteFail, WorkerOther
  <1>36. CASE WriteHang
    BY <1>36 DEF WriteHang, WorkerOther
  <1>37. CASE InvalidateIfFaulted
    <2>1. same' \in [Publishers -> BOOLEAN]
      <3>1. CASE faulted
        <4>1. same' = [p \in Publishers |-> FALSE]
          BY <1>37, <3>1 DEF InvalidateIfFaulted, WorkerOther, Invalidate
        <4> QED
          BY <4>1
      <3>2. CASE ~faulted
        BY <1>37, <3>2 DEF InvalidateIfFaulted, WorkerOther, Invalidate
      <3> QED
        BY <3>1, <3>2
    <2> QED
      BY <1>37, <2>1 DEF InvalidateIfFaulted, WorkerOther, Invalidate
  <1>38. CASE StoreBlack
    BY <1>38 DEF StoreBlack, WorkerOther
  <1>39. CASE CountPass
    BY <1>39 DEF CountPass, WorkerOther
  <1>40. CASE Halted
    BY <1>40 DEF Halted, vars
  <1>41. CASE UNCHANGED vars
    BY <1>41, SMTT(60) DEF vars
  <1> QED
    BY <1>1, <1>2, <1>3, <1>4, <1>5, <1>6, <1>7, <1>8, <1>9, <1>10, <1>11, <1>12, <1>13, <1>14, <1>15, <1>16, <1>17, <1>18, <1>19, <1>20, <1>21, <1>22, <1>23, <1>24, <1>25, <1>26, <1>27, <1>28, <1>29, <1>30, <1>31, <1>32, <1>33, <1>34, <1>35, <1>36, <1>37, <1>38, <1>39, <1>40, <1>41 DEF Next, Startup, Publish, Supervisor, FailOff, FailOffForRestart, Worker

\* Every step preserves the inductive invariant.
LEMMA InvStep == IInv /\ [Next]_vars => IInv'
  <1> SUFFICES ASSUME IInv, [Next]_vars PROVE IInv'
    OBVIOUS
  <1>t. TypeOK'
    BY TypeStep DEF IInv
  <1> USE <1>t DEF IInv, TypeOK, Frames, bootVars, gateVars, rendererVars, FlightInv, RaceInv, StallInv, ShutInv, RenderInv, BlackInv, ConfirmInv, Drains, Latest
  <1>1. CASE StartRefused
    BY <1>1 DEF StartRefused
  <1>2. CASE StartupBlack
    <2>1. CASE strip' = "Black" /\ lastWritten' = "Black" /\ phase' = "cleared" /\ UNCHANGED <<attempts, faulted, faults>>
      BY <1>2, <2>1 DEF StartupBlack
    <2>2. CASE faults < MaxFaults /\ attempts' = attempts + 1 /\ faults' = faults + 1 /\ faulted' = TRUE /\ lastWritten' = "None"
               /\ phase' \in {"refused", phase} /\ strip' \in {strip, "Black"}
      BY <1>2, <2>2 DEF StartupBlack
    <2> QED
      BY <1>2, <2>1, <2>2 DEF StartupBlack
  <1>3. CASE CreateWorker
    BY <1>3 DEF CreateWorker
  <1>4. CASE FinishStart
    BY <1>4 DEF FinishStart
  <1>5. ASSUME NEW p \in Publishers, Enter(p) PROVE  IInv'
    BY <1>5 DEF Enter, PublishOther, Goto, Started
  <1>6. ASSUME NEW p \in Publishers, ReadEpoch(p) PROVE  IInv'
    BY <1>6 DEF ReadEpoch, PublishOther, Goto
  <1>7. ASSUME NEW p \in Publishers, CheckOpen(p) PROVE  IInv'
    BY <1>7 DEF CheckOpen, PublishOther, Goto
  <1>8. ASSUME NEW p \in Publishers, Send(p) PROVE  IInv'
    BY <1>8 DEF Send, PublishOther, Goto
  <1>9. ASSUME NEW p \in Publishers, RecheckOpen(p) PROVE  IInv'
    BY <1>9 DEF RecheckOpen, PublishOther, Goto
  <1>10. ASSUME NEW p \in Publishers, CompareEpoch(p) PROVE  IInv'
    BY <1>10 DEF CompareEpoch, PublishOther, Goto
  <1>11. ASSUME NEW p \in Publishers, TrailingBlack(p) PROVE  IInv'
    BY <1>11 DEF TrailingBlack, PublishOther, Goto
  <1>12. ASSUME NEW p \in Publishers, Leave(p) PROVE  IInv'
    BY <1>12 DEF Leave, PublishOther, Goto
  <1>13. CASE CloseState
    BY <1>13 DEF CloseState, SupervisorOther, Started
  <1>14. CASE CloseEpoch
    BY <1>14 DEF CloseEpoch, SupervisorOther, Invalidate
  <1>15. CASE CloseBlack
    BY <1>15 DEF CloseBlack, SupervisorOther
  <1>16. CASE OpenEpoch
    BY <1>16 DEF OpenEpoch, SupervisorOther, Invalidate
  <1>17. CASE OpenState
    BY <1>17 DEF OpenState, SupervisorOther
  <1>18. CASE FailOffEpoch
    BY <1>18 DEF FailOffEpoch, Started, Invalidate
  <1>19. CASE FailOffBlack
    BY <1>19 DEF FailOffBlack
  <1>20. CASE RestartBegin
    BY <1>20 DEF RestartBegin, RestartOther, Started
  <1>21. CASE ShutState
    BY <1>21 DEF ShutState, RestartOther
  <1>22. CASE ShutEpoch
    BY <1>22 DEF ShutEpoch, RestartOther, Invalidate
  <1>23. CASE Drained
    BY <1>23 DEF Drained, RestartOther
  <1>24. CASE SamplePasses
    BY <1>24 DEF SamplePasses, RestartOther
  <1>25. CASE QueueBlack
    BY <1>25 DEF QueueBlack, RestartOther
  <1>26. CASE SeePass
    BY <1>26 DEF SeePass, RestartOther
  <1>27. CASE SeeQueue
    BY <1>27 DEF SeeQueue, RestartOther
  <1>28. CASE SeeBlack
    BY <1>28 DEF SeeBlack, RestartOther
  <1>29. CASE RestartTimeout
    BY <1>29 DEF RestartTimeout, RestartOther
  <1>30. CASE Restart
    BY <1>30 DEF Restart, Reboot
  <1>31. CASE WatchdogRestart
    BY <1>31 DEF WatchdogRestart, Reboot
  <1>32. CASE Apply
    BY <1>32 DEF Apply, WorkerOther, Drawable, AfterDraw
  <1>33. CASE Tick
    BY <1>33 DEF Tick, WorkerOther, Drawable, AfterDraw
  <1>34. CASE WriteOk
    BY <1>34 DEF WriteOk, WorkerOther
  <1>35. CASE WriteFail
    BY <1>35 DEF WriteFail, WorkerOther
  <1>36. CASE WriteHang
    BY <1>36 DEF WriteHang, WorkerOther
  <1>37. CASE InvalidateIfFaulted
    BY <1>37 DEF InvalidateIfFaulted, WorkerOther, Invalidate
  <1>38. CASE StoreBlack
    <2>1. CASE lastWritten = "Black"
      <3>1. workerBlack' = TRUE
        BY <1>38, <2>1 DEF StoreBlack, WorkerOther
      <3> QED
        BY <1>38, <2>1, <3>1 DEF StoreBlack, WorkerOther
    <2>2. CASE lastWritten # "Black"
      <3>1. workerBlack' = FALSE
        BY <1>38, <2>2 DEF StoreBlack, WorkerOther
      <3> QED
        BY <1>38, <2>2, <3>1 DEF StoreBlack, WorkerOther
    <2> QED
      BY <2>1, <2>2
  <1>39. CASE CountPass
    BY <1>39 DEF CountPass, WorkerOther
  <1>40. CASE Halted
    BY <1>40 DEF Halted, vars
  <1>41. CASE UNCHANGED vars
    BY <1>41 DEF vars
  <1> QED
    BY <1>1, <1>2, <1>3, <1>4, <1>5, <1>6, <1>7, <1>8, <1>9, <1>10, <1>11, <1>12, <1>13, <1>14, <1>15, <1>16, <1>17, <1>18, <1>19, <1>20, <1>21, <1>22, <1>23, <1>24, <1>25, <1>26, <1>27, <1>28, <1>29, <1>30, <1>31, <1>32, <1>33, <1>34, <1>35, <1>36, <1>37, <1>38, <1>39, <1>40, <1>41 DEF Next, Startup, Publish, Supervisor, FailOff, FailOffForRestart, Worker

\* Power-on establishes the inductive invariant.
LEMMA InitInv == Init => IInv
  <1> SUFFICES ASSUME Init PROVE IInv
    OBVIOUS
  <1>1. passed \in BOOLEAN /\ faulted \in BOOLEAN /\ workerBlack \in BOOLEAN
    BY Zenon DEF Init
  <1>2. TypeOK
    BY <1>1, MaxFaultsAssumption DEF Init, TypeOK, Frames, StartupAttempts
  <1>3. FlightInv /\ RaceInv /\ StallInv /\ ShutInv
    BY DEF Init, FlightInv, RaceInv, StallInv, ShutInv, Drains, Latest
  <1>4. RenderInv /\ BlackInv /\ ConfirmInv
    BY DEF Init, RenderInv, BlackInv, ConfirmInv
  <1> QED
    BY <1>2, <1>3, <1>4 DEF IInv

\* The inductive invariant holds in every reachable state.
LEMMA Invariance == Spec => []IInv
  BY InitInv, InvStep, PTL DEF Spec

\* Every variable keeps its type, whatever the tasks interleave.
THEOREM TypeCorrect == Spec => []TypeOK
  <1>1. IInv => TypeOK
    BY DEF IInv
  <1> QED
    BY <1>1, Invariance, PTL

\* A command that raced an off order cannot stay lit, for any number of
\* publishers (StallGatedSink::publish against close, shut and fail_off).
THEOREM OffOrderTheorem == Spec => []OffOrderHolds
  <1>1. IInv => OffOrderHolds
    BY DEF IInv, RaceInv, OffOrderHolds, Racing
  <1> QED
    BY <1>1, Invariance, PTL

\* No publisher relights the strip while watched progress is stalled.
THEOREM StallTheorem == Spec => []StallStaysDark
  <1>1. IInv => StallStaysDark
    BY DEF IInv, RaceInv, StallInv, StallStaysDark, Racing
  <1> QED
    BY <1>1, Invariance, PTL

\* fail_off_for_restart() confirms only a strip that is and stays black.
THEOREM RestartTheorem == Spec => []RestartConfirmedBlack
  <1>1. IInv => RestartConfirmedBlack
    BY DEF IInv, ConfirmInv, BlackInv, RenderInv, RestartConfirmedBlack
  <1> QED
    BY <1>1, Invariance, PTL

\* After the drain nothing queues a lit command any more.
THEOREM DrainTheorem == Spec => NoLitAfterDrain
  <1> DEFINE Quiet == rpc \in Drains /\ queue' = "Lit" => queue = "Lit"
  <1>1. ASSUME IInv, [Next]_vars PROVE  Quiet
    <2> SUFFICES ASSUME rpc \in Drains, queue' = "Lit", queue # "Lit" PROVE  FALSE
      OBVIOUS
    <2>1. \A p \in Publishers : ~Send(p)
      BY <1>1 DEF IInv, ShutInv, Send
    <2>2. PICK p \in Publishers : Send(p)
      BY <1>1 DEF Next, vars, Startup, StartRefused, StartupBlack, CreateWorker, FinishStart,
         Publish, Enter, ReadEpoch, CheckOpen, RecheckOpen, CompareEpoch, TrailingBlack, Leave,
         Supervisor, CloseState, CloseEpoch, CloseBlack, OpenEpoch, OpenState, FailOff,
         FailOffEpoch, FailOffBlack, FailOffForRestart, RestartBegin, ShutState, ShutEpoch,
         Drained, SamplePasses, QueueBlack, SeePass, SeeQueue, SeeBlack, RestartTimeout, Restart,
         WatchdogRestart, Reboot, Worker, Apply, Tick, WriteOk, WriteFail, WriteHang,
         InvalidateIfFaulted, StoreBlack, CountPass, Halted
    <2> QED
      BY <2>1, <2>2
  <1>2. NoLitAfterDrain <=> [][Quiet]_vars
    BY DEF NoLitAfterDrain, Drains
  <1> QED
    BY <1>1, <1>2, Invariance, PTL DEF Spec

\* The strip is dark from startup black to the first command of the boot.
THEOREM DarkStartTheorem == Spec => []DarkUntilFirstCommand
  <1>1. IInv => DarkUntilFirstCommand
    BY DEF IInv, RenderInv, DarkUntilFirstCommand
  <1> QED
    BY <1>1, Invariance, PTL

=============================================================================
