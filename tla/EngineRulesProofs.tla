--------------------------- MODULE EngineRulesProofs ---------------------------
(***************************************************************************)
(* Proofs about NotificationChannel and EngineRules, for every number of   *)
(* slots, readings, generations, registrations and publications, and every *)
(* signal, condition and level mapping.                                    *)
(*                                                                         *)
(* Delivery without loss is inductive with the types of the channel. What  *)
(* a pending notice says of the transitions it hides needs NoticeInv: how  *)
(* far its slot has read the log. That a waiting slot is not starved needs *)
(* WaitInv: how many registrations may still be served before it.          *)
(*                                                                         *)
(* The engine is one subscriber of the channel, so what is proved of the   *)
(* channel holds around it. The rules' properties need to know what the    *)
(* engine has not seen yet: LevelInv says when the state rule's level may  *)
(* lag behind, EdgeInv how far the event rule's baseline has read the log. *)
(***************************************************************************)
EXTENDS EngineRules, FiniteSetTheorems, TLAPS

-----------------------------------------------------------------------------
(* The channel.                                                            *)

\* Every step keeps the variables among their values.
LEMMA ChannelInitTypes == Init => TypeOK
<1> SUFFICES ASSUME Init PROVE TypeOK
  OBVIOUS
<1> USE ReadingsAssumption, BoundsAssumption DEF Init
<1>1. EmptyNotice \in Notices /\ <<NoReading>> \in Seq(Readings)
  BY DEF Notices, EmptyNotice
<1>2. 0 \in Generations /\ 0 \in Orders /\ nextOrder \in 1..(MaxRegistrations + 1)
  BY DEF Generations, Orders
<1>3. /\ generation \in [Slots -> Generations] /\ regOrder \in [Slots -> Orders]
      /\ seen \in [Slots -> Nat] /\ overtaken \in [Slots -> Nat]
      /\ notice \in [Slots -> Notices] /\ delivered \in [Slots -> Notices]
  BY <1>1, <1>2
<1> QED
  BY <1>1, <1>2, <1>3 DEF TypeOK

LEMMA ChannelStepTypes == TypeOK /\ [Next]_vars => TypeOK'
<1> SUFFICES ASSUME TypeOK, [Next]_vars PROVE TypeOK'
  OBVIOUS
<1>0. EmptyNotice \in Notices /\ SeedNotice \in Notices
  BY ReadingsAssumption DEF Notices, EmptyNotice, SeedNotice
<1> USE BoundsAssumption, SlotsAssumption, ReadingsAssumption
<1>1. ASSUME NEW s \in Slots, Subscribe(s) PROVE TypeOK'
  <2>1. NextGeneration(generation[s]) \in Generations
    BY DEF NextGeneration, TypeOK, Generations
  <2>2. handles' \subseteq Slots \X Generations \X Orders
    BY <1>1, <2>1 DEF Subscribe, TypeOK, Orders
  <2>3. generation' \in [Slots -> Generations] /\ regOrder' \in [Slots -> Orders]
    BY <1>1, <2>1 DEF Subscribe, TypeOK, Orders
  <2>4. nextOrder' \in 1..(MaxRegistrations + 1)
    BY <1>1 DEF Subscribe, TypeOK
  <2> QED
    BY <1>0, <1>1, <2>2, <2>3, <2>4 DEF Subscribe, TypeOK
<1>2. ASSUME NEW h \in handles, Unsubscribe(h) PROVE TypeOK'
  <2>1. h[1] \in Slots
    BY DEF TypeOK
  <2>2. regOrder' \in [Slots -> Orders]
    BY <1>2, <2>1 DEF Unsubscribe, TypeOK, Orders
  <2> QED
    BY <1>0, <1>2, <2>1, <2>2 DEF Unsubscribe, TypeOK
<1>3. CASE Start
  <2>1. <<NoReading>> \in Seq(Readings) /\ 0 \in Orders
    BY DEF Orders
  <2>2. seen' \in [Slots -> Nat] /\ overtaken' \in [Slots -> Nat]
    BY <1>3 DEF Start
  <2> QED
    BY <1>0, <1>3, <2>1, <2>2 DEF Start, TypeOK, registration
<1>4. CASE Stop
  BY <1>0, <1>4 DEF Stop, TypeOK, registration
<1>5. CASE Publish
  <2>1. PICK reading \in Readings \ {current} :
          LET update == [EmptyNotice EXCEPT
                           !.current = reading,
                           !.becameUnavailable = current \in Available /\ reading \notin Available,
                           !.recovered = current \notin Available /\ reading \in Available
                                           /\ hasPeriod]
          IN  /\ current' = reading
              /\ hasPeriod' = (hasPeriod \/ reading \in Available)
              /\ notice' = [s \in Slots |-> IF active[s] THEN Merged(s, update) ELSE notice[s]]
              /\ log' = Append(log, reading)
    BY <1>5 DEF Publish
  <2> DEFINE update == [EmptyNotice EXCEPT
                          !.current = reading,
                          !.becameUnavailable = current \in Available /\ reading \notin Available,
                          !.recovered = current \notin Available /\ reading \in Available
                                          /\ hasPeriod]
  <2>2. update \in Notices
    BY <1>0 DEF Notices, EmptyNotice, TypeOK
  <2>3. \A s \in Slots : Merged(s, update) \in Notices
    <3> TAKE s \in Slots
    <3>1. notice[s] \in Notices /\ pendingSeed[s] \in BOOLEAN
      BY DEF TypeOK
    <3> HIDE DEF update
    <3> QED
      BY <2>2, <3>1, ZenonT(60) DEF Merged, Notices
  <2>4. notice' \in [Slots -> Notices]
    BY <2>1, <2>3 DEF TypeOK
  <2>5. log' \in Seq(Readings) /\ current' \in Readings /\ hasPeriod' \in BOOLEAN
    BY <2>1 DEF TypeOK
  <2> QED
    BY <1>5, <2>4, <2>5 DEF Publish, TypeOK, registration
<1>6. CASE TakeNotice
  <2>1. PICK s \in NextPending :
          /\ cursor' = regOrder[s]
          /\ pending' = [pending EXCEPT ![s] = FALSE]
          /\ pendingSeed' = [pendingSeed EXCEPT ![s] = FALSE]
          /\ calling' = s
          /\ seen' = [seen EXCEPT ![s] = Len(log)]
          /\ delivered' = [delivered EXCEPT ![s] = notice[s]]
          /\ overtaken' = [t \in Slots |->
                             IF t \in Ready \ {s} THEN overtaken[t] + 1 ELSE 0]
    BY <1>6 DEF TakeNotice
  <2>2. s \in Slots /\ Len(log) \in Nat
    BY DEF NextPending, Oldest, After, Ready, TypeOK
  <2>3. overtaken' \in [Slots -> Nat] /\ seen' \in [Slots -> Nat]
    BY <2>1, <2>2 DEF TypeOK
  <2>4. cursor' \in Orders /\ calling' \in {0} \cup Slots /\ delivered' \in [Slots -> Notices]
    BY <2>1, <2>2 DEF TypeOK
  <2>5. pending' \in [Slots -> BOOLEAN] /\ pendingSeed' \in [Slots -> BOOLEAN]
    BY <2>1, <2>2 DEF TypeOK
  <2> QED
    BY <1>6, <2>3, <2>4, <2>5 DEF TakeNotice, TypeOK, registration
<1>7. CASE CallbackReturns
  BY <1>7 DEF CallbackReturns, TypeOK, registration
<1>8. CASE UNCHANGED vars
  BY <1>8 DEF vars, TypeOK
<1> QED
  BY <1>1, <1>2, <1>3, <1>4, <1>5, <1>6, <1>7, <1>8 DEF Next

\* Type correctness of a notification channel.
THEOREM ChannelTypeCorrect == Spec => []TypeOK
BY ChannelInitTypes, ChannelStepTypes, PTL DEF Spec

-----------------------------------------------------------------------------
(* Delivery and quiescence.                                                 *)

\* What Publish does, with the update it merges into every registered slot.
UpdateFor(reading) ==
    [EmptyNotice EXCEPT !.current = reading,
                        !.becameUnavailable = current \in Available /\ reading \notin Available,
                        !.recovered = current \notin Available /\ reading \in Available /\ hasPeriod]

LEMMA PublishEffect ==
    ASSUME Publish
    PROVE  \E reading \in Readings :
              /\ current' = reading /\ hasPeriod' = (hasPeriod \/ reading \in Available)
              /\ notice' = [s \in Slots |-> IF active[s] THEN Merged(s, UpdateFor(reading))
                                            ELSE notice[s]]
              /\ log' = Append(log, reading)
BY DEF Publish, UpdateFor

\* The slot that TakeNotice serves, and what it leaves to the others.
LEMMA TakeEffect ==
    ASSUME TakeNotice
    PROVE  \E s \in NextPending :
              /\ s \in Ready /\ s \in Slots
              /\ cursor' = regOrder[s]
              /\ pending' = [pending EXCEPT ![s] = FALSE]
              /\ pendingSeed' = [pendingSeed EXCEPT ![s] = FALSE]
              /\ calling' = s
              /\ seen' = [seen EXCEPT ![s] = Len(log)]
              /\ delivered' = [delivered EXCEPT ![s] = notice[s]]
              /\ overtaken' = [t \in Slots |->
                                 IF t \in Ready \ {s} THEN overtaken[t] + 1 ELSE 0]
BY DEF TakeNotice, NextPending, Oldest, After, Ready

\* A registration, a stop or a return of a callback delivers nothing.
LEMMA StepDelivers ==
    TypeOK /\ LatestStateReachesSubscriber /\ [Next]_vars => LatestStateReachesSubscriber'
<1> SUFFICES ASSUME TypeOK, LatestStateReachesSubscriber, [Next]_vars, running',
                    NEW s \in Slots, active'[s]
             PROVE  IF pending'[s] THEN notice'[s].current = current'
                    ELSE delivered'[s].current = current'
  BY DEF LatestStateReachesSubscriber
<1> USE DEF LatestStateReachesSubscriber
<1>1. CASE Start
  BY <1>1 DEF Start, registration, SeedNotice, EmptyNotice
<1>2. CASE Publish
  <2>1. active[s] /\ pending'[s]
    BY <1>2 DEF Publish, registration, TypeOK
  <2>2. PICK reading \in Readings :
          /\ current' = reading
          /\ notice'[s] = Merged(s, UpdateFor(reading))
    BY <1>2, <2>1, PublishEffect
  <2>3. UpdateFor(reading).current = reading
    BY DEF UpdateFor, EmptyNotice
  <2>4. notice[s] \in Notices
    BY DEF TypeOK
  <2>5. Merged(s, UpdateFor(reading)).current = reading
    BY <2>3, <2>4 DEF Merged, Notices
  <2> QED
    BY <2>1, <2>2, <2>5
<1>3. CASE TakeNotice
  <2>1. PICK t \in Ready : /\ pending' = [pending EXCEPT ![t] = FALSE]
                           /\ delivered' = [delivered EXCEPT ![t] = notice[t]]
    BY <1>3, TakeEffect
  <2>2. running /\ active' = active /\ notice' = notice /\ current' = current
    BY <1>3 DEF TakeNotice, registration
  <2> QED
    BY <2>1, <2>2 DEF Ready, TypeOK
<1>4. CASE CallbackReturns
  BY <1>4 DEF CallbackReturns, registration
<1>5. CASE ~running'
  BY <1>5
<1>6. CASE UNCHANGED vars
  BY <1>6 DEF vars
<1> QED
  BY <1>1, <1>2, <1>3, <1>4, <1>5, <1>6 DEF Next, Subscribe, Unsubscribe, Stop

\* No update is lost, however publications, callbacks and runs interleave.
THEOREM DeliveryTheorem == Spec => []LatestStateReachesSubscriber
<1>1. Init => LatestStateReachesSubscriber
  BY DEF Init, LatestStateReachesSubscriber
<1> QED
  BY <1>1, ChannelInitTypes, ChannelStepTypes, StepDelivers, PTL DEF Spec

\* Registration, stop and start wait for the callback that runs.
LEMMA StepQuiesces == TypeOK /\ CallbackOnlyWhileRunning /\ [Next]_vars => CallbackOnlyWhileRunning'
<1> SUFFICES ASSUME TypeOK, CallbackOnlyWhileRunning, [Next]_vars PROVE CallbackOnlyWhileRunning'
  OBVIOUS
<1> USE DEF CallbackOnlyWhileRunning
<1>1. CASE TakeNotice
  BY <1>1, TakeEffect DEF TakeNotice, registration, Ready
<1>2. CASE UNCHANGED <<calling, running, active>>
  BY <1>2
<1>3. CASE calling' = 0
  BY <1>3
<1> QED
  BY <1>1, <1>2, <1>3
  DEF Next, vars, registration, Subscribe, Unsubscribe, Start, Stop, Publish, CallbackReturns

\* After stop() or unsubscribe() no callback of the channel runs.
THEOREM QuiescenceTheorem == Spec => []CallbackOnlyWhileRunning
<1>1. Init => CallbackOnlyWhileRunning
  BY DEF Init, CallbackOnlyWhileRunning
<1> QED
  BY <1>1, ChannelInitTypes, ChannelStepTypes, StepQuiesces, PTL DEF Spec

-----------------------------------------------------------------------------
(* Handles and generations.                                                 *)

\* How many registrations, at least, separate a handle from its slot's present one.
Age(h) == IF generation[h[1]] >= h[2] THEN generation[h[1]] - h[2]
          ELSE generation[h[1]] + MaxGeneration - h[2]

\* Every registration of a slot moves both its order and its generation on.
HandleInv ==
    \A h \in handles :
        /\ h[2] # 0 /\ generation[h[1]] # 0
        /\ nextOrder > h[3] + Age(h)
        /\ active[h[1]] =>
              IF Age(h) = 0 THEN regOrder[h[1]] = h[3] \/ regOrder[h[1]] >= h[3] + MaxGeneration
              ELSE regOrder[h[1]] >= h[3] + Age(h)

LEMMA StepHandles == TypeOK /\ HandleInv /\ [Next]_vars => HandleInv'
<1> SUFFICES ASSUME TypeOK, HandleInv, [Next]_vars PROVE HandleInv'
  OBVIOUS
<1> USE BoundsAssumption
<1>1. ASSUME NEW s \in Slots, Subscribe(s) PROVE HandleInv'
  <2> SUFFICES ASSUME NEW h \in handles'
               PROVE  /\ h[2] # 0 /\ generation'[h[1]] # 0
                      /\ nextOrder' > h[3] + Age(h)'
                      /\ active'[h[1]] =>
                           IF Age(h)' = 0
                           THEN regOrder'[h[1]] = h[3] \/ regOrder'[h[1]] >= h[3] + MaxGeneration
                           ELSE regOrder'[h[1]] >= h[3] + Age(h)'
    BY DEF HandleInv
  <2>1. generation[s] \in 0..MaxGeneration /\ nextOrder \in Nat /\ nextOrder' = nextOrder + 1
    BY <1>1 DEF Subscribe, TypeOK, Generations
  <2>2. /\ generation' = [generation EXCEPT ![s] = NextGeneration(generation[s])]
        /\ regOrder' = [regOrder EXCEPT ![s] = nextOrder]
        /\ active' = [active EXCEPT ![s] = TRUE]
    BY <1>1 DEF Subscribe
  <2>3. CASE h \in handles /\ h[1] = s
    <3>1. h[2] \in 1..MaxGeneration /\ h[3] \in Nat /\ generation[s] \in 1..MaxGeneration
          /\ nextOrder > h[3] + Age(h)
      BY <2>1, <2>3 DEF HandleInv, TypeOK, Generations, Orders
    <3>2. generation'[s] = NextGeneration(generation[s]) /\ regOrder'[s] = nextOrder
      BY <2>2 DEF TypeOK
    <3> QED
      BY <2>1, <2>3, <3>1, <3>2 DEF Age, NextGeneration
  <2>4. CASE h \in handles /\ h[1] # s
    <3>1. h[1] \in Slots /\ h[2] \in Nat /\ h[3] \in Nat
      BY <2>4 DEF TypeOK, Generations, Orders
    <3>2. /\ generation'[h[1]] = generation[h[1]] /\ regOrder'[h[1]] = regOrder[h[1]]
          /\ active'[h[1]] = active[h[1]] /\ generation[h[1]] \in Nat
      BY <2>2, <2>4, <3>1 DEF TypeOK, Generations
    <3> QED
      BY <2>1, <2>4, <3>1, <3>2 DEF HandleInv, Age
  <2>5. CASE h = <<s, NextGeneration(generation[s]), nextOrder>>
    <3>1. generation'[s] = h[2] /\ regOrder'[s] = h[3] /\ h[2] \in 1..MaxGeneration
      BY <2>1, <2>2, <2>5 DEF NextGeneration, TypeOK
    <3> QED
      BY <2>1, <2>5, <3>1 DEF Age
  <2> QED
    BY <1>1, <2>3, <2>4, <2>5 DEF Subscribe
<1>2. ASSUME NEW h \in handles, Unsubscribe(h) PROVE HandleInv'
  <2>1. /\ active' = [active EXCEPT ![h[1]] = FALSE] /\ regOrder' = [regOrder EXCEPT ![h[1]] = 0]
        /\ UNCHANGED <<generation, nextOrder, handles>>
    BY <1>2 DEF Unsubscribe
  <2>2. \A g \in handles : g[1] \in Slots
    BY DEF TypeOK
  <2> QED
    BY <2>1, <2>2 DEF HandleInv, Age, TypeOK
<1>3. CASE UNCHANGED registration
  BY <1>3 DEF registration, HandleInv, Age
<1> QED
  BY <1>1, <1>2, <1>3
  DEF Next, vars, registration, Start, Stop, Publish, TakeNotice, CallbackReturns

\* A stale handle matches a later registration only MaxGeneration registrations on.
THEOREM HandleTheorem == Spec => []HandleNamesItsRegistration
<1>1. Init => HandleInv
  BY DEF Init, HandleInv
<1>2. TypeOK /\ HandleInv => HandleNamesItsRegistration
  BY BoundsAssumption DEF HandleInv, HandleNamesItsRegistration, Matches, Age, TypeOK, Generations
<1> QED
  BY <1>1, <1>2, ChannelInitTypes, ChannelStepTypes, StepHandles, PTL DEF Spec

-----------------------------------------------------------------------------
(* What a pending notice says.                                              *)

\* The log ends with the current reading; a slot without a pending notice has
\* read it to the end, and a pending seed stands for the reading of start().
NoticeInv ==
    running =>
        /\ Len(log) >= 1 /\ log[Len(log)] = current
        /\ hasPeriod <=> \E m \in 1..Len(log) : log[m] \in Available
        /\ \A s \in Slots : active[s] =>
              /\ seen[s] <= Len(log)
              /\ IF pending[s]
                 THEN IF pendingSeed[s] THEN seen[s] = 0 /\ Len(log) = 1
                      ELSE Len(log) > IF seen[s] = 0 THEN 1 ELSE seen[s]
                 ELSE seen[s] = Len(log)

\* One more reading at the end of the log.
LEMMA AppendedLog ==
    ASSUME TypeOK, NEW reading \in Readings, log' = Append(log, reading)
    PROVE  /\ Len(log') = Len(log) + 1 /\ Len(log) \in Nat
           /\ log'[Len(log) + 1] = reading
           /\ \A k \in 1..Len(log) : log'[k] = log[k]
BY DEF TypeOK

LEMMA StepReads == TypeOK /\ NoticeInv /\ [Next]_vars => NoticeInv'
<1> SUFFICES ASSUME TypeOK, NoticeInv, [Next]_vars, running' PROVE NoticeInv'
  BY DEF NoticeInv
<1>1. CASE Start
  <2>1. log' = <<NoReading>> /\ Len(log') = 1 /\ log'[1] = NoReading
    BY <1>1 DEF Start
  <2> QED
    BY <1>1, <2>1, ReadingsAssumption DEF Start, NoticeInv, registration
<1>2. CASE Publish
  <2>1. PICK reading \in Readings : /\ current' = reading
                                    /\ hasPeriod' = (hasPeriod \/ reading \in Available)
                                    /\ log' = Append(log, reading)
    BY <1>2, PublishEffect
  <2>2. running /\ active' = active /\ seen' = seen
    BY <1>2 DEF Publish, registration
  <2>3. hasPeriod' <=> \E m \in 1..Len(log') : log'[m] \in Available
    <3>1. /\ Len(log') = Len(log) + 1 /\ Len(log) \in Nat /\ log'[Len(log) + 1] = reading
          /\ \A k \in 1..Len(log) : log'[k] = log[k]
      BY <2>1, AppendedLog
    <3>2. (\E m \in 1..Len(log') : log'[m] \in Available)
             <=> reading \in Available \/ \E m \in 1..Len(log) : log[m] \in Available
      <4>1. 1..Len(log') = 1..Len(log) \cup {Len(log) + 1}
        BY <3>1
      <4> QED
        BY <3>1, <4>1
    <3> QED
      BY <2>1, <2>2, <3>2 DEF NoticeInv
  <2>4. ASSUME NEW s \in Slots, active[s]
        PROVE  /\ seen'[s] <= Len(log') /\ pending'[s] /\ ~pendingSeed'[s]
               /\ Len(log') > IF seen'[s] = 0 THEN 1 ELSE seen'[s]
    <3>1. pending'[s] /\ ~pendingSeed'[s] /\ seen[s] \in Nat
      BY <1>2, <2>4 DEF Publish, TypeOK
    <3>2. seen[s] <= Len(log) /\ Len(log) >= 1
      BY <2>2, <2>4 DEF NoticeInv
    <3> QED
      BY <2>1, <2>2, <3>1, <3>2, AppendedLog
  <2> QED
    BY <2>1, <2>2, <2>3, <2>4, AppendedLog DEF NoticeInv
<1>3. CASE TakeNotice
  <2>1. PICK t \in Ready : /\ pending' = [pending EXCEPT ![t] = FALSE]
                           /\ pendingSeed' = [pendingSeed EXCEPT ![t] = FALSE]
                           /\ seen' = [seen EXCEPT ![t] = Len(log)]
    BY <1>3, TakeEffect
  <2>2. UNCHANGED <<running, current, hasPeriod, log, active>>
    BY <1>3 DEF TakeNotice, registration
  <2>3. \A s \in Slots : IF s = t THEN ~pending'[s] /\ seen'[s] = Len(log)
                         ELSE /\ pending'[s] = pending[s] /\ pendingSeed'[s] = pendingSeed[s]
                              /\ seen'[s] = seen[s]
    BY <2>1 DEF TypeOK
  <2>4. Len(log) \in Nat
    BY DEF TypeOK
  <2> QED
    BY <2>2, <2>3, <2>4 DEF NoticeInv
<1>4. CASE CallbackReturns
  BY <1>4 DEF CallbackReturns, registration, NoticeInv
<1>5. CASE UNCHANGED vars
  BY <1>5 DEF vars, NoticeInv
<1> QED
  BY <1>1, <1>2, <1>3, <1>4, <1>5 DEF Next, Subscribe, Unsubscribe, Stop

\* A longer log lost or recovered the signal where it had, or with its last reading.
LEMMA LostOnAppend ==
    ASSUME TypeOK, NEW reading \in Readings, log' = Append(log, reading),
           NEW CONSTANT i \in Nat, i <= Len(log), Len(log) >= 1
    PROVE  LostBetween(i, Len(log))' <=>
              \/ LostBetween(i, Len(log))
              \/ log[Len(log)] \in Available /\ reading \notin Available
<1> DEFINE n == Len(log)
<1>1. /\ Len(log') = n + 1 /\ n \in Nat /\ log'[n + 1] = reading
      /\ \A k \in 1..n : log'[k] = log[k]
  BY AppendedLog
<1>2. (i + 1)..(n + 1) = (i + 1)..n \cup {n + 1}
  BY <1>1
<1> HIDE DEF n
<1>3. \A k \in (i + 1)..n : k > 1 => k \in 1..n /\ k - 1 \in 1..n
  BY <1>1
<1>4. n + 1 > 1 /\ (n + 1) - 1 = n /\ n \in 1..n
  BY <1>1 DEF n
<1>5. LostBetween(i, Len(log))' <=>
        \E k \in (i + 1)..(n + 1) : k > 1 /\ log'[k - 1] \in Available /\ log'[k] \notin Available
  BY <1>1 DEF LostBetween
<1>6. LostBetween(i, Len(log)) <=>
        \E k \in (i + 1)..n : k > 1 /\ log[k - 1] \in Available /\ log[k] \notin Available
  BY DEF LostBetween, n
<1> QED
  BY <1>1, <1>2, <1>3, <1>4, <1>5, <1>6 DEF n

LEMMA RecoveredOnAppend ==
    ASSUME TypeOK, NEW reading \in Readings, log' = Append(log, reading),
           NEW CONSTANT i \in Nat, i <= Len(log), Len(log) >= 1
    PROVE  RecoveredBetween(i, Len(log))' <=>
              \/ RecoveredBetween(i, Len(log))
              \/ /\ log[Len(log)] \notin Available /\ reading \in Available
                 /\ \E m \in 1..Len(log) : log[m] \in Available
<1> DEFINE n == Len(log)
           Before(k) == \E m \in 1..(k - 1) : log[m] \in Available
           BeforeNow(k) == \E m \in 1..(k - 1) : log'[m] \in Available
<1>1. /\ Len(log') = n + 1 /\ n \in Nat /\ log'[n + 1] = reading
      /\ \A k \in 1..n : log'[k] = log[k]
  BY AppendedLog
<1>2. (i + 1)..(n + 1) = (i + 1)..n \cup {n + 1}
  BY <1>1
<1> HIDE DEF n
<1>3. \A k \in (i + 1)..n : k > 1 => k \in 1..n /\ k - 1 \in 1..n
  BY <1>1
<1>4. n + 1 > 1 /\ (n + 1) - 1 = n /\ n \in 1..n
  BY <1>1 DEF n
<1>5. \A k \in (i + 1)..(n + 1) : Before(k) <=> BeforeNow(k)
  BY <1>1
<1>6. RecoveredBetween(i, Len(log))' <=>
        \E k \in (i + 1)..(n + 1) :
           k > 1 /\ log'[k - 1] \notin Available /\ log'[k] \in Available /\ BeforeNow(k)
  BY <1>1 DEF RecoveredBetween
<1>7. RecoveredBetween(i, Len(log)) <=>
        \E k \in (i + 1)..n :
           k > 1 /\ log[k - 1] \notin Available /\ log[k] \in Available /\ Before(k)
  BY DEF RecoveredBetween, n
<1>8. Before(n + 1) <=> \E m \in 1..n : log[m] \in Available
  BY <1>4
<1> HIDE DEF Before, BeforeNow
<1> QED
  BY <1>1, <1>2, <1>3, <1>4, <1>5, <1>6, <1>7, <1>8 DEF n

\* Merging keeps every transition and forgets every reading but the last.
LEMMA StepTruthful ==
    TypeOK /\ NoticeInv /\ PendingNoticeTruthful /\ [Next]_vars => PendingNoticeTruthful'
<1> DEFINE Says(s) ==
             /\ notice[s].becameUnavailable <=> LostBetween(seen[s], Len(log))
             /\ notice[s].recovered <=> RecoveredBetween(seen[s], Len(log))
             /\ notice[s].initial <=> seen[s] = 0
             /\ notice[s].coalesced <=> Len(log) - (IF seen[s] = 0 THEN 1 ELSE seen[s]) >= 2
<1> SUFFICES ASSUME TypeOK, NoticeInv, PendingNoticeTruthful, [Next]_vars, running',
                    NEW s \in Slots, active'[s], pending'[s]
             PROVE  Says(s)'
  BY DEF PendingNoticeTruthful
<1>0. running /\ active[s] /\ pending[s] => Says(s)
  BY DEF PendingNoticeTruthful
<1>1. CASE Start
  <2>1. log' = <<NoReading>> /\ Len(log') = 1 /\ log'[1] = NoReading /\ seen'[s] = 0
    BY <1>1 DEF Start
  <2>2. notice'[s] = SeedNotice
    BY <1>1 DEF Start
  <2>3. ~LostBetween(seen[s], Len(log))' /\ ~RecoveredBetween(seen[s], Len(log))'
    BY <2>1 DEF LostBetween, RecoveredBetween
  <2> QED
    BY <2>1, <2>2, <2>3 DEF SeedNotice, EmptyNotice
<1>2. CASE Publish
  <2>1. PICK reading \in Readings : /\ log' = Append(log, reading)
                                    /\ notice'[s] = Merged(s, UpdateFor(reading))
    <3>1. active[s]
      BY <1>2 DEF Publish, registration
    <3> QED
      BY <1>2, <3>1, PublishEffect
  <2>2. PICK i \in Nat : i = seen[s]
    BY DEF TypeOK
  <2>3. running /\ active[s] /\ seen'[s] = i
    BY <1>2, <2>2 DEF Publish, registration
  <2>4. /\ Len(log) >= 1 /\ log[Len(log)] = current /\ i <= Len(log)
        /\ hasPeriod <=> \E m \in 1..Len(log) : log[m] \in Available
    BY <2>2, <2>3 DEF NoticeInv
  <2>5. Len(log') = Len(log) + 1 /\ Len(log) \in Nat
    BY <2>1, AppendedLog
  <2> DEFINE lost == current \in Available /\ reading \notin Available
             recovered == current \notin Available /\ reading \in Available /\ hasPeriod
  <2>6. /\ LostBetween(seen[s], Len(log))' <=> LostBetween(i, Len(log)) \/ lost
        /\ RecoveredBetween(seen[s], Len(log))' <=> RecoveredBetween(i, Len(log)) \/ recovered
    <3>1. LostBetween(i, Len(log))' <=> LostBetween(i, Len(log)) \/ lost
      BY <2>1, <2>4, LostOnAppend
    <3>2. RecoveredBetween(i, Len(log))' <=> RecoveredBetween(i, Len(log)) \/ recovered
      BY <2>1, <2>4, RecoveredOnAppend
    <3> QED
      BY <2>3, <3>1, <3>2 DEF LostBetween, RecoveredBetween
  <2>7. /\ UpdateFor(reading).becameUnavailable = lost
        /\ UpdateFor(reading).recovered = recovered
        /\ ~UpdateFor(reading).initial /\ ~UpdateFor(reading).coalesced
    BY DEF UpdateFor, EmptyNotice
  <2>8. CASE ~pending[s]
    <3>1. i = Len(log) /\ notice'[s] = UpdateFor(reading)
      BY <2>1, <2>2, <2>3, <2>8 DEF NoticeInv, Merged
    <3>2. ~LostBetween(i, Len(log)) /\ ~RecoveredBetween(i, Len(log))
      BY <2>5, <3>1 DEF LostBetween, RecoveredBetween
    <3> HIDE DEF lost, recovered
    <3>3. /\ notice'[s].becameUnavailable <=> LostBetween(seen[s], Len(log))'
          /\ notice'[s].recovered <=> RecoveredBetween(seen[s], Len(log))'
      BY <2>6, <2>7, <3>1, <3>2
    <3>4. /\ notice'[s].initial <=> seen'[s] = 0
          /\ notice'[s].coalesced <=> Len(log') - (IF seen'[s] = 0 THEN 1 ELSE seen'[s]) >= 2
      BY <2>3, <2>4, <2>5, <2>7, <3>1
    <3> QED
      BY <3>3, <3>4
  <2>9. CASE pending[s]
    <3>1. notice[s] \in Notices /\ pendingSeed[s] \in BOOLEAN
      BY DEF TypeOK
    <3> HIDE DEF lost, recovered
    <3>2. /\ notice'[s].becameUnavailable <=> notice[s].becameUnavailable \/ lost
          /\ notice'[s].recovered <=> notice[s].recovered \/ recovered
          /\ notice'[s].initial = notice[s].initial
          /\ notice'[s].coalesced <=> notice[s].coalesced \/ ~pendingSeed[s]
      <4>1. notice'[s] =
              [notice[s] EXCEPT
                 !.current = UpdateFor(reading).current,
                 !.becameUnavailable = notice[s].becameUnavailable \/ UpdateFor(reading).becameUnavailable,
                 !.recovered = notice[s].recovered \/ UpdateFor(reading).recovered,
                 !.coalesced = notice[s].coalesced \/ ~pendingSeed[s]]
        BY <2>1, <2>9 DEF Merged
      <4>2. DOMAIN notice[s] = {"current", "initial", "becameUnavailable", "recovered", "coalesced"}
        BY <3>1 DEF Notices
      <4> HIDE DEF UpdateFor
      <4>3. /\ notice'[s].becameUnavailable =
                 (notice[s].becameUnavailable \/ UpdateFor(reading).becameUnavailable)
            /\ notice'[s].recovered = (notice[s].recovered \/ UpdateFor(reading).recovered)
            /\ notice'[s].initial = notice[s].initial
            /\ notice'[s].coalesced = (notice[s].coalesced \/ ~pendingSeed[s])
        BY <4>1, <4>2
      <4> QED
        BY <2>7, <4>3
    <3>3. Says(s)
      BY <1>0, <2>3, <2>9
    <3>4. IF pendingSeed[s] THEN i = 0 /\ Len(log) = 1
          ELSE Len(log) > IF i = 0 THEN 1 ELSE i
      BY <2>2, <2>3, <2>9 DEF NoticeInv
    <3>5. /\ notice'[s].becameUnavailable <=> LostBetween(seen[s], Len(log))'
          /\ notice'[s].recovered <=> RecoveredBetween(seen[s], Len(log))'
      BY <2>2, <2>6, <3>2, <3>3
    <3>6. notice'[s].initial <=> seen'[s] = 0
      BY <2>2, <2>3, <3>2, <3>3
    <3>7. notice'[s].coalesced <=> Len(log') - (IF seen'[s] = 0 THEN 1 ELSE seen'[s]) >= 2
      <4>1. Len(log') - (IF i = 0 THEN 1 ELSE i) >= 2 <=>
              Len(log) - (IF i = 0 THEN 1 ELSE i) >= 2 \/ ~pendingSeed[s]
        <5>1. CASE pendingSeed[s]
          <6>1. i = 0 /\ Len(log) = 1 /\ Len(log') = 2
            <7>1. i = 0 /\ Len(log) = 1
              BY <3>4, <5>1, Zenon
            <7> QED
              BY <2>5, <7>1
          <6>2. ~(Len(log') - (IF i = 0 THEN 1 ELSE i) >= 2)
                /\ ~(Len(log) - (IF i = 0 THEN 1 ELSE i) >= 2)
            BY <6>1
          <6> QED
            BY <5>1, <6>2
        <5>2. CASE ~pendingSeed[s]
          BY <2>2, <2>5, <3>4, <5>2
        <5> QED
          BY <5>1, <5>2
      <4> QED
        BY <2>2, <2>3, <3>2, <3>3, <4>1
    <3> QED
      BY <3>5, <3>6, <3>7
  <2> QED
    BY <2>8, <2>9
<1>3. CASE TakeNotice
  <2>1. PICK t \in Ready : /\ pending' = [pending EXCEPT ![t] = FALSE]
                           /\ seen' = [seen EXCEPT ![t] = Len(log)]
    BY <1>3, TakeEffect
  <2>2. running /\ UNCHANGED <<log, notice, active>>
    BY <1>3 DEF TakeNotice, registration
  <2>3. t # s /\ seen'[s] = seen[s] /\ pending[s] /\ active[s]
    BY <2>1, <2>2 DEF TypeOK
  <2> QED
    BY <1>0, <2>2, <2>3 DEF LostBetween, RecoveredBetween
<1>4. CASE CallbackReturns \/ UNCHANGED vars
  BY <1>0, <1>4 DEF CallbackReturns, registration, vars, LostBetween, RecoveredBetween
<1> QED
  BY <1>1, <1>2, <1>3, <1>4 DEF Next, Subscribe, Unsubscribe, Stop

\* Coalescing hides readings and never a loss, a recovery or that it happened.
THEOREM TruthTheorem == Spec => []PendingNoticeTruthful
<1>1. Init => NoticeInv /\ PendingNoticeTruthful
  BY DEF Init, NoticeInv, PendingNoticeTruthful
<1> QED
  BY <1>1, ChannelInitTypes, ChannelStepTypes, StepReads, StepTruthful, PTL DEF Spec

-----------------------------------------------------------------------------
(* No slot starves.                                                         *)

\* Registrations in use have different orders, below the next one.
OrderInv ==
    /\ \A s \in Slots : active[s] => regOrder[s] \in 1..(nextOrder - 1)
    /\ \A s, t \in Slots : active[s] /\ active[t] /\ regOrder[s] = regOrder[t] => s = t

\* The registrations that the dispatcher meets before s, from its cursor on and
\* round to the oldest.
AheadOf(s) ==
    {t \in Slots \ {s} :
        /\ active[t]
        /\ IF regOrder[s] > cursor THEN regOrder[t] > cursor /\ regOrder[t] < regOrder[s]
           ELSE regOrder[t] > cursor \/ regOrder[t] < regOrder[s]}

\* Every delivery to another slot takes one registration away from those ahead.
WaitInv ==
    /\ \A s \in Ready : running => overtaken[s] + Cardinality(AheadOf(s)) < NumSlots
    /\ NoSlotStarves

LEMMA StepOrders == TypeOK /\ OrderInv /\ [Next]_vars => OrderInv'
<1> SUFFICES ASSUME TypeOK, OrderInv, [Next]_vars PROVE OrderInv'
  OBVIOUS
<1>1. ASSUME NEW s \in Slots, Subscribe(s) PROVE OrderInv'
  <2>1. /\ active' = [active EXCEPT ![s] = TRUE] /\ regOrder' = [regOrder EXCEPT ![s] = nextOrder]
        /\ nextOrder' = nextOrder + 1 /\ nextOrder \in Nat /\ nextOrder >= 1
    BY <1>1, BoundsAssumption DEF Subscribe, TypeOK
  <2>2. \A t \in Slots : IF t = s THEN active'[t] /\ regOrder'[t] = nextOrder
                         ELSE active'[t] = active[t] /\ regOrder'[t] = regOrder[t]
    BY <2>1 DEF TypeOK
  <2> QED
    BY <2>1, <2>2 DEF OrderInv
<1>2. ASSUME NEW h \in handles, Unsubscribe(h) PROVE OrderInv'
  <2>1. h[1] \in Slots
    BY DEF TypeOK
  <2> QED
    BY <1>2, <2>1 DEF Unsubscribe, OrderInv, TypeOK
<1>3. CASE UNCHANGED registration
  BY <1>3 DEF registration, OrderInv
<1> QED
  BY <1>1, <1>2, <1>3
  DEF Next, vars, registration, Start, Stop, Publish, TakeNotice, CallbackReturns

\* A set of other slots has fewer members than there are slots.
LEMMA OthersAreFewer ==
    ASSUME NEW s \in Slots, NEW T \in SUBSET (Slots \ {s})
    PROVE  IsFiniteSet(T) /\ Cardinality(T) \in Nat /\ Cardinality(T) < NumSlots
<1>1. IsFiniteSet(Slots) /\ Cardinality(Slots) = NumSlots
  BY FS_Interval, SlotsAssumption DEF Slots
<1>2. IsFiniteSet(Slots \ {s}) /\ Cardinality(Slots \ {s}) = NumSlots - 1
  BY <1>1, FS_RemoveElement
<1> QED
  BY <1>2, FS_Subset, FS_CardinalityType, SlotsAssumption

\* The slot that TakeNotice serves was ahead of every other slot that waits, and
\* from its order on fewer registrations are ahead of them.
LEMMA TakeCloses ==
    ASSUME TypeOK, OrderInv, NEW t \in NextPending, NEW s \in Ready, s # t,
           cursor' = regOrder[t], UNCHANGED <<active, regOrder>>
    PROVE  t \in AheadOf(s) /\ AheadOf(s)' \subseteq AheadOf(s) \ {t}
<1>1. t \in Ready /\ t \in Slots /\ s \in Slots /\ regOrder[s] # regOrder[t]
  BY DEF NextPending, Oldest, After, Ready, OrderInv
<1>2. /\ \A u \in Slots : regOrder[u] \in Nat
      /\ cursor \in Nat
  BY BoundsAssumption DEF TypeOK, Orders
<1>3. CASE regOrder[s] > cursor
  <2>1. s \in After
    BY <1>3 DEF After
  <2>2. t \in After /\ regOrder[t] < regOrder[s]
    BY <1>1, <1>2, <2>1 DEF NextPending, Oldest
  <2> QED
    BY <1>1, <1>2, <1>3, <2>2 DEF AheadOf, After, Ready
<1>4. CASE ~(regOrder[s] > cursor) /\ After # {}
  <2>1. regOrder[t] > cursor
    BY <1>4 DEF NextPending, Oldest, After
  <2> QED
    BY <1>1, <1>2, <1>4, <2>1 DEF AheadOf, Ready
<1>5. CASE ~(regOrder[s] > cursor) /\ After = {}
  <2>1. regOrder[t] < regOrder[s]
    BY <1>1, <1>2, <1>5 DEF NextPending, Oldest
  <2> QED
    BY <1>1, <1>2, <1>5, <2>1 DEF AheadOf, Ready
<1> QED
  BY <1>3, <1>4, <1>5

LEMMA StepWaits == TypeOK /\ OrderInv /\ WaitInv /\ [Next]_vars => WaitInv'
<1> SUFFICES ASSUME TypeOK, OrderInv, WaitInv, [Next]_vars PROVE WaitInv'
  OBVIOUS
<1> USE SlotsAssumption
<1>1. CASE Start
  <2>1. \A s \in Slots : overtaken'[s] = 0
    BY <1>1 DEF Start
  <2>2. \A s \in Slots : AheadOf(s)' \in SUBSET (Slots \ {s})
    BY DEF AheadOf
  <2>3. \A s \in Slots : Cardinality(AheadOf(s)') \in Nat /\ Cardinality(AheadOf(s)') < NumSlots
    BY <2>2, OthersAreFewer
  <2> QED
    BY <2>1, <2>3 DEF WaitInv, NoSlotStarves, Ready
<1>2. CASE Publish
  <2>1. UNCHANGED <<running, active, regOrder, cursor>> /\ running
    BY <1>2 DEF Publish, registration
  <2>2. \A s \in Slots : overtaken'[s] = IF pending[s] THEN overtaken[s] ELSE 0
    BY <1>2 DEF Publish
  <2>3. \A s \in Slots : AheadOf(s)' = AheadOf(s)
    BY <2>1 DEF AheadOf
  <2>4. \A s \in Slots : Cardinality(AheadOf(s)) \in Nat /\ Cardinality(AheadOf(s)) < NumSlots
    <3>1. \A s \in Slots : AheadOf(s) \in SUBSET (Slots \ {s})
      BY DEF AheadOf
    <3> QED
      BY <3>1, OthersAreFewer
  <2>5. ASSUME NEW s \in Slots, active[s]
        PROVE  overtaken'[s] + Cardinality(AheadOf(s)') < NumSlots
    <3>1. CASE pending[s]
      BY <2>1, <2>2, <2>3, <2>5, <3>1 DEF WaitInv, Ready
    <3>2. CASE ~pending[s]
      BY <2>2, <2>3, <2>4, <3>2
    <3> QED
      BY <3>1, <3>2
  <2> QED
    BY <2>1, <2>2, <2>5 DEF WaitInv, NoSlotStarves, Ready
<1>3. CASE TakeNotice
  <2>1. PICK t \in NextPending :
          /\ t \in Slots
          /\ cursor' = regOrder[t]
          /\ pending' = [pending EXCEPT ![t] = FALSE]
          /\ overtaken' = [u \in Slots |->
                             IF u \in Ready \ {t} THEN overtaken[u] + 1 ELSE 0]
    BY <1>3, TakeEffect
  <2>2. running /\ UNCHANGED <<active, regOrder>>
    BY <1>3 DEF TakeNotice, registration
  <2>3. ASSUME NEW s \in Ready, s # t
        PROVE  /\ overtaken[s] + 1 + Cardinality(AheadOf(s)') < NumSlots
               /\ overtaken[s] + 1 < NumSlots
    <3>1. t \in AheadOf(s) /\ AheadOf(s)' \subseteq AheadOf(s) \ {t}
      BY <2>1, <2>2, <2>3, TakeCloses
    <3>2. /\ IsFiniteSet(AheadOf(s)) /\ Cardinality(AheadOf(s)) \in Nat
      <4>1. AheadOf(s) \in SUBSET (Slots \ {s}) /\ s \in Slots
        BY DEF AheadOf, Ready
      <4> QED
        BY <4>1, OthersAreFewer
    <3>3. /\ IsFiniteSet(AheadOf(s) \ {t})
          /\ Cardinality(AheadOf(s) \ {t}) = Cardinality(AheadOf(s)) - 1
      BY <3>1, <3>2, FS_RemoveElement
    <3>4. /\ IsFiniteSet(AheadOf(s)')
          /\ Cardinality(AheadOf(s)') <= Cardinality(AheadOf(s)) - 1
      BY <3>1, <3>3, FS_Subset
    <3>5. Cardinality(AheadOf(s)') \in Nat
      BY <3>4, FS_CardinalityType
    <3>6. overtaken[s] \in Nat /\ overtaken[s] + Cardinality(AheadOf(s)) < NumSlots
      BY <2>2 DEF WaitInv, TypeOK, Ready
    <3> QED
      BY <3>2, <3>4, <3>5, <3>6
  <2>4. \A s \in Slots : s \in Ready' => s \in Ready /\ s # t
    BY <2>1, <2>2 DEF Ready, TypeOK
  <2>5. \A s \in Ready' : overtaken'[s] + Cardinality(AheadOf(s)') < NumSlots
    <3> TAKE s \in Ready'
    <3>1. s \in Ready /\ s # t /\ s \in Slots
      BY <2>4 DEF Ready
    <3>2. overtaken'[s] = overtaken[s] + 1
      BY <2>1, <3>1
    <3> QED
      BY <2>3, <3>1, <3>2
  <2>6. \A s \in Slots : overtaken'[s] < NumSlots
    BY <2>1, <2>3
  <2> QED
    BY <2>5, <2>6 DEF WaitInv, NoSlotStarves
<1>4. CASE CallbackReturns \/ UNCHANGED vars
  <2>1. UNCHANGED <<running, active, regOrder, cursor, pending, overtaken>>
    BY <1>4 DEF CallbackReturns, registration, vars
  <2>2. Ready' = Ready /\ \A s \in Slots : AheadOf(s)' = AheadOf(s)
    BY <2>1 DEF Ready, AheadOf
  <2> QED
    BY <2>1, <2>2 DEF WaitInv, NoSlotStarves, Ready
<1>5. CASE ~running' /\ UNCHANGED overtaken
  BY <1>5 DEF WaitInv, NoSlotStarves
<1> QED
  BY <1>1, <1>2, <1>3, <1>4, <1>5 DEF Next, Subscribe, Unsubscribe, Stop

\* While a slot waits, each other registration is served at most once before it.
THEOREM StarvationTheorem == Spec => []NoSlotStarves
<1>1. Init => OrderInv /\ WaitInv
  BY SlotsAssumption DEF Init, OrderInv, WaitInv, NoSlotStarves, Ready
<1>2. WaitInv => NoSlotStarves
  BY DEF WaitInv
<1> QED
  BY <1>1, <1>2, ChannelInitTypes, ChannelStepTypes, StepOrders, StepWaits, PTL DEF Spec

-----------------------------------------------------------------------------
(* The engine on the channel.                                              *)

\* While attached, the handle is the registration in the engine's slot.
HandleKept ==
    engineSlot # 0 =>
        /\ engineSlot \in Slots /\ active[engineSlot] /\ handle \in handles
        /\ handle = <<engineSlot, generation[engineSlot], regOrder[engineSlot]>>

\* Another subscriber never takes the engine's registration away.
LEMMA OthersSpareEngine ==
    ASSUME TypeOK, HandleKept, engineSlot # 0, OtherSubscriber
    PROVE  /\ active'[engineSlot] /\ handles \subseteq handles'
           /\ generation'[engineSlot] = generation[engineSlot]
           /\ regOrder'[engineSlot] = regOrder[engineSlot]
<1>1. ASSUME NEW s \in Slots, Subscribe(s)
      PROVE  /\ active'[engineSlot] /\ handles \subseteq handles'
             /\ generation'[engineSlot] = generation[engineSlot]
             /\ regOrder'[engineSlot] = regOrder[engineSlot]
  <2>1. s # engineSlot /\ engineSlot \in Slots
    BY <1>1 DEF Subscribe, FreeSlot, HandleKept
  <2> QED
    BY <1>1, <2>1 DEF Subscribe, HandleKept, TypeOK
<1>2. ASSUME NEW h \in handles \ {handle}, regOrder[h[1]] = h[3], Unsubscribe(h)
      PROVE  /\ active'[engineSlot] /\ handles \subseteq handles'
             /\ generation'[engineSlot] = generation[engineSlot]
             /\ regOrder'[engineSlot] = regOrder[engineSlot]
  <2>1. h = <<h[1], h[2], h[3]>> /\ generation[h[1]] = h[2]
    BY <1>2 DEF TypeOK, Unsubscribe, Matches
  <2>2. h[1] # engineSlot /\ h[1] \in Slots
    BY <1>2, <2>1 DEF HandleKept, TypeOK
  <2> QED
    BY <1>2, <2>2 DEF Unsubscribe, HandleKept, TypeOK
<1> QED
  BY <1>1, <1>2 DEF OtherSubscriber

\* Every step of the engine is a step of the channel or leaves it alone.
LEMMA EngineStepIsChannelStep == HandleKept /\ [EngineNext]_allVars => [Next]_vars
<1> SUFFICES ASSUME HandleKept, [EngineNext]_allVars PROVE Next \/ UNCHANGED vars
  OBVIOUS
<1>1. CASE EngineDetach
  BY <1>1 DEF EngineDetach, HandleKept, Next
<1>2. CASE OtherSubscriber
  BY <1>2 DEF OtherSubscriber, Next
<1>3. CASE Attach
  BY <1>3 DEF Attach, Next
<1>4. CASE StartProvider \/ StopProvider \/ PublishReading \/ BeginDelivery \/ EndDelivery
  BY <1>4 DEF StartProvider, StopProvider, PublishReading, BeginDelivery, EndDelivery, Next
<1>5. CASE OnNotice \/ ReadPolled \/ OnSample \/ UNCHANGED allVars
  BY <1>5 DEF OnNotice, ReadPolled, OnSample, allVars
<1> QED
  BY <1>1, <1>2, <1>3, <1>4, <1>5 DEF EngineNext

LEMMA StepHandleKept == TypeOK /\ HandleKept /\ [EngineNext]_allVars => HandleKept'
<1> SUFFICES ASSUME TypeOK, HandleKept, [EngineNext]_allVars PROVE HandleKept'
  OBVIOUS
<1>1. CASE Attach
  <2>1. PICK s \in Slots : /\ Subscribe(s) /\ engineSlot' = s
                           /\ handle' = <<s, NextGeneration(generation[s]), nextOrder>>
    BY <1>1 DEF Attach
  <2>2. /\ active'[s] /\ generation'[s] = NextGeneration(generation[s])
        /\ regOrder'[s] = nextOrder
        /\ handles' = handles \cup {<<s, NextGeneration(generation[s]), nextOrder>>}
    BY <2>1 DEF Subscribe, TypeOK
  <2> QED
    BY <2>1, <2>2 DEF HandleKept
<1>2. CASE EngineDetach
  BY <1>2 DEF EngineDetach, HandleKept
<1>3. CASE OtherSubscriber
  <2>1. UNCHANGED <<engineSlot, handle>>
    BY <1>3 DEF OtherSubscriber, engineVars
  <2> QED
    BY <1>3, <2>1, OthersSpareEngine DEF HandleKept
<1>4. CASE UNCHANGED <<registration, engineSlot, handle>>
  BY <1>4 DEF registration, HandleKept
<1> QED
  BY <1>1, <1>2, <1>3, <1>4
  DEF EngineNext, allVars, vars, engineVars, registration, StartProvider, Start, StopProvider, Stop,
      PublishReading, Publish, BeginDelivery, TakeNotice, EndDelivery, CallbackReturns, OnNotice,
      ReadPolled, OnSample

\* The channel's invariants, around the engine.
ChannelInv ==
    /\ TypeOK /\ LatestStateReachesSubscriber /\ CallbackOnlyWhileRunning
    /\ NoticeInv /\ PendingNoticeTruthful
    /\ HandleKept

LEMMA StepChannelInv == ChannelInv /\ [EngineNext]_allVars => ChannelInv'
BY EngineStepIsChannelStep, StepHandleKept, ChannelStepTypes, StepDelivers, StepQuiesces, StepReads,
   StepTruthful
DEF ChannelInv

LEMMA InitChannelInv == EngineInit => ChannelInv
<1> SUFFICES ASSUME EngineInit PROVE ChannelInv
  OBVIOUS
<1>1. TypeOK
  BY ChannelInitTypes DEF EngineInit
<1> QED
  BY <1>1
  DEF EngineInit, Init, ChannelInv, LatestStateReachesSubscriber, CallbackOnlyWhileRunning,
      NoticeInv, PendingNoticeTruthful, HandleKept

\* The action engine uses the channel only through its operations.
THEOREM EngineUsesChannel == EngineSpec => Spec
<1>1. EngineInit => Init
  BY DEF EngineInit
<1>2. ChannelInv => HandleKept
  BY DEF ChannelInv
<1> QED
  BY <1>1, <1>2, InitChannelInv, StepChannelInv, EngineStepIsChannelStep, PTL DEF EngineSpec, Spec

-----------------------------------------------------------------------------
(* The rules on the sampling task.                                          *)

\* What both rules know of the reads since attach().
SampleInv ==
    /\ samples \in Seq(Readings \cup {ReadFailed})
    /\ inHand \in Readings \cup {ReadFailed, Nothing}
    /\ IF samples = <<>> THEN sampledOut = Unknown /\ rangeLast = Unknown
       ELSE /\ sampledOut \in {"on", "off"} /\ sampledLevel = sampledOut
            /\ rangeLevel = rangeLast
    /\ SampledFollowsHysteresis /\ RangeFollowsLastRead

\* One more read: some earlier activation has been kept, or this read is one.
LEMMA HysteresisOnAppend ==
    ASSUME NEW run \in Seq(Readings \cup {ReadFailed}), NEW read \in Readings \cup {ReadFailed}
    PROVE  LET Kept(reads) == \E i \in 1..Len(reads) : /\ reads[i] \in Holds
                                                       /\ \A j \in i..Len(reads) : reads[j] \in Keeps
           IN  Kept(Append(run, read)) <=> \/ Kept(run) /\ read \in Keeps
                                           \/ read \in Holds
<1> DEFINE n == Len(run)
           next == Append(run, read)
<1>1. /\ n \in Nat /\ Len(next) = n + 1 /\ next[n + 1] = read
      /\ \A k \in 1..n : next[k] = run[k]
  OBVIOUS
<1> HIDE DEF n, next
<1>2. \A i \in 1..n : (\A j \in i..(n + 1) : next[j] \in Keeps)
                        <=> (\A j \in i..n : run[j] \in Keeps) /\ read \in Keeps
  <2> TAKE i \in 1..n
  <2>1. i..(n + 1) = i..n \cup {n + 1} /\ i..n \subseteq 1..n
    BY <1>1
  <2> QED
    BY <1>1, <2>1
<1>3. (\A j \in (n + 1)..(n + 1) : next[j] \in Keeps) <=> read \in Keeps
  BY <1>1
<1>4. 1..(n + 1) = 1..n \cup {n + 1}
  BY <1>1
<1>5. (\E i \in 1..(n + 1) : next[i] \in Holds /\ \A j \in i..(n + 1) : next[j] \in Keeps)
        <=> \/ (\E i \in 1..n : run[i] \in Holds /\ \A j \in i..n : run[j] \in Keeps) /\ read \in Keeps
            \/ read \in Holds
  BY <1>1, <1>2, <1>3, <1>4, ConditionAssumption
<1> QED
  BY <1>1, <1>5 DEF n, next

LEMMA StepSamples == TypeOK /\ SampleInv /\ [EngineNext]_allVars => SampleInv'
<1> SUFFICES ASSUME TypeOK, SampleInv, [EngineNext]_allVars PROVE SampleInv'
  OBVIOUS
<1> USE DEF SampleInv
<1>1. CASE OnSample
  <2>1. /\ inHand \in Readings \cup {ReadFailed} /\ samples' = Append(samples, inHand)
        /\ inHand' = Nothing
    BY <1>1 DEF OnSample
  <2>2. /\ samples' \in Seq(Readings \cup {ReadFailed}) /\ samples' # <<>>
        /\ samples'[Len(samples')] = inHand
    BY <2>1
  <2>3. sampledOut' \in {"on", "off"} /\ sampledLevel' = sampledOut'
        /\ (sampledOut' = "on" <=> inHand \in SampledCondition)
    BY <1>1 DEF OnSample, Unknown
  <2>4. SampledFollowsHysteresis'
    <3>1. (\E i \in 1..Len(samples') :
             samples'[i] \in Holds /\ \A j \in i..Len(samples') : samples'[j] \in Keeps)
          <=> \/ /\ \E i \in 1..Len(samples) :
                      samples[i] \in Holds /\ \A j \in i..Len(samples) : samples[j] \in Keeps
                 /\ inHand \in Keeps
              \/ inHand \in Holds
      BY <2>1, HysteresisOnAppend
    <3>2. CASE samples = <<>>
      BY <2>3, <3>1, <3>2 DEF SampledCondition, SampledFollowsHysteresis, Unknown
    <3>3. CASE samples # <<>>
      BY <2>3, <3>1, <3>3, ConditionAssumption DEF SampledCondition, SampledFollowsHysteresis
    <3> QED
      BY <3>2, <3>3
  <2>5. rangeLast' = RangeCommand(inHand) /\ rangeLevel' = rangeLast'
    <3>1. RangeCommand(inHand) # Unknown
      BY ConditionAssumption DEF RangeCommand, Unknown
    <3> QED
      BY <1>1, <3>1 DEF OnSample
  <2> QED
    BY <2>1, <2>2, <2>3, <2>4, <2>5 DEF RangeFollowsLastRead, RangeCommand
<1>2. CASE Attach
  BY <1>2 DEF Attach, sinkVars, SampledFollowsHysteresis, RangeFollowsLastRead
<1>3. CASE ReadPolled
  BY <1>3
  DEF ReadPolled, ruleVars, sinkVars, SampledFollowsHysteresis, RangeFollowsLastRead
<1>4. CASE UNCHANGED <<samples, inHand, sampledOut, rangeLast, sampledLevel, rangeLevel>>
  BY <1>4 DEF SampledFollowsHysteresis, RangeFollowsLastRead
<1> QED
  BY <1>1, <1>2, <1>3, <1>4
  DEF EngineNext, allVars, engineVars, ruleVars, sinkVars, pollVars, EngineDetach, OtherSubscriber,
      StartProvider, StopProvider, PublishReading, BeginDelivery, OnNotice, EndDelivery

\* Hysteresis holds for every sequence of reads.
THEOREM HysteresisTheorem == EngineSpec => [](SampledFollowsHysteresis /\ RangeFollowsLastRead)
<1>1. EngineInit => SampleInv
  BY DEF EngineInit, SampleInv, SampledFollowsHysteresis, RangeFollowsLastRead
<1>2. ChannelInv => TypeOK
  BY DEF ChannelInv
<1>3. SampleInv => SampledFollowsHysteresis /\ RangeFollowsLastRead
  BY DEF SampleInv
<1> QED
  BY <1>1, <1>2, <1>3, InitChannelInv, StepChannelInv, StepSamples, PTL DEF EngineSpec

-----------------------------------------------------------------------------
(* The rules on the dispatcher task.                                        *)

\* The engine's callback runs and has not evaluated its notice.
Waiting == calling = engineSlot /\ ~evaluated

\* The state rule has written the output for the notice it saw last; only the
\* first notice of a run meets a level that may be someone else's.
LevelInv ==
    running /\ engineSlot # 0 =>
        IF Waiting THEN delivered[engineSlot].initial \/ level = lastOutput
        ELSE seen[engineSlot] # 0 =>
                lastOutput = StateOutput(delivered[engineSlot].current) /\ level = lastOutput

\* A trigger that was right stays right when the log grows.
TriggerInv ==
    trigger # <<>> =>
        /\ trigger[1] \in Nat /\ trigger[2] \in 1..Len(log) /\ trigger[1] > 0 /\ trigger[1] < trigger[2]
        /\ log[trigger[1]] \in Actionable \ Holds /\ log[trigger[2]] \in Holds
        /\ ~LostBetween(trigger[1], trigger[2])

\* The baseline is the condition at the last evaluated position; a notice that
\* waits reports what happened from there to its own position.
EdgeInv ==
    /\ prevSeen \in 0..Len(log)
    /\ running /\ engineSlot # 0 =>
          /\ prevSeen # 0 => baseline = Evaluate(log[prevSeen], Holds)
          /\ ~Waiting => prevSeen = seen[engineSlot]
          /\ Waiting =>
                /\ prevSeen < seen[engineSlot] /\ seen[engineSlot] <= Len(log)
                /\ delivered[engineSlot].current = log[seen[engineSlot]]
                /\ delivered[engineSlot].initial <=> prevSeen = 0
                /\ delivered[engineSlot].becameUnavailable <=> LostBetween(prevSeen, seen[engineSlot])

\* What a delivery to the engine starts from.
LEMMA EngineTakes ==
    ASSUME ChannelInv, TakeNotice, engineSlot # 0
    PROVE  /\ running /\ calling = 0 /\ UNCHANGED <<running, log, current>>
           /\ Len(log) \in Nat /\ engineSlot \in Slots
           /\ IF calling' = engineSlot
              THEN /\ active[engineSlot] /\ pending[engineSlot]
                   /\ seen'[engineSlot] = Len(log) /\ seen[engineSlot] < Len(log)
                   /\ delivered'[engineSlot] = notice[engineSlot]
              ELSE /\ seen'[engineSlot] = seen[engineSlot]
                   /\ delivered'[engineSlot] = delivered[engineSlot]
<1>1. PICK t \in Ready : /\ t \in Slots /\ calling' = t
                         /\ seen' = [seen EXCEPT ![t] = Len(log)]
                         /\ delivered' = [delivered EXCEPT ![t] = notice[t]]
  BY TakeEffect
<1>2. running /\ calling = 0 /\ UNCHANGED <<running, log, current>>
  BY DEF TakeNotice
<1>3. TypeOK /\ NoticeInv /\ Len(log) \in Nat /\ engineSlot \in Slots
  BY DEF ChannelInv, TypeOK, HandleKept
<1>4. CASE t = engineSlot
  <2>1. active[engineSlot] /\ pending[engineSlot] /\ seen[engineSlot] \in Nat
    BY <1>1, <1>3, <1>4 DEF Ready, TypeOK
  <2>2. seen[engineSlot] < Len(log)
    BY <1>2, <1>3, <2>1 DEF NoticeInv
  <2> QED
    BY <1>1, <1>2, <1>3, <1>4, <2>1, <2>2 DEF TypeOK
<1>5. CASE t # engineSlot
  BY <1>1, <1>2, <1>3, <1>5 DEF TypeOK
<1> QED
  BY <1>4, <1>5

LEMMA StepLevel == ChannelInv /\ LevelInv /\ [EngineNext]_allVars => LevelInv'
<1> SUFFICES ASSUME ChannelInv, LevelInv, [EngineNext]_allVars, running', engineSlot' # 0
             PROVE  LevelInv'
  BY DEF LevelInv
<1> USE DEF LevelInv, Waiting
<1>1. CASE OnNotice
  <2>1. /\ UNCHANGED <<running, engineSlot, calling, seen, delivered>> /\ evaluated' /\ Waiting
    BY <1>1 DEF OnNotice, vars
  <2>2. /\ lastOutput' = StateOutput(delivered[engineSlot].current)
        /\ level' = lastOutput'
    BY <1>1, <2>1 DEF OnNotice
  <2> QED
    BY <2>1, <2>2
<1>2. CASE BeginDelivery
  <2>1. TakeNotice /\ ~evaluated' /\ UNCHANGED <<engineSlot, lastOutput, level>>
    BY <1>2 DEF BeginDelivery, ruleVars, sinkVars
  <2>2. CASE calling' = engineSlot
    <3>1. /\ running /\ ~Waiting /\ active[engineSlot] /\ pending[engineSlot]
          /\ delivered'[engineSlot] = notice[engineSlot]
      BY <2>1, <2>2, EngineTakes
    <3>2. notice[engineSlot].initial <=> seen[engineSlot] = 0
      <4>1. engineSlot \in Slots /\ PendingNoticeTruthful
        BY <2>1, EngineTakes DEF ChannelInv
      <4> QED
        BY <3>1, <4>1 DEF PendingNoticeTruthful
    <3> QED
      BY <2>1, <2>2, <3>1, <3>2
  <2>3. CASE calling' # engineSlot
    BY <2>1, <2>3, EngineTakes
  <2> QED
    BY <2>2, <2>3
<1>3. CASE StartProvider
  <2>1. HandleKept
    BY DEF ChannelInv
  <2> QED
    BY <1>3, <2>1 DEF StartProvider, Start, HandleKept
<1>4. CASE EndDelivery
  BY <1>4 DEF EndDelivery, CallbackReturns, engineVars, ruleVars, sinkVars
<1>5. CASE PublishReading
  BY <1>5 DEF PublishReading, Publish, engineVars, ruleVars, sinkVars
<1>6. CASE ReadPolled \/ OnSample \/ UNCHANGED allVars
  <2>1. UNCHANGED <<vars, engineSlot, evaluated, lastOutput, level>>
    BY <1>6 DEF ReadPolled, OnSample, allVars, engineVars, ruleVars, sinkVars
  <2> QED
    BY <2>1 DEF vars
<1>7. ~Attach /\ ~EngineDetach /\ ~OtherSubscriber /\ ~StopProvider
  BY DEF Attach, EngineDetach, OtherSubscriber, StopProvider, Subscribe, Unsubscribe, Stop
<1> QED
  BY <1>1, <1>2, <1>3, <1>4, <1>5, <1>6, <1>7 DEF EngineNext

\* Once settled, the level is what the current reading calls for.
LEMMA SettledLevel == ChannelInv /\ LevelInv => LevelFollowsSignal
<1> SUFFICES ASSUME ChannelInv, LevelInv, Settled PROVE level = "on" <=> current \in Holds
  BY DEF LevelFollowsSignal
<1>1. /\ running /\ engineSlot # 0 /\ ~pending[engineSlot] /\ ~Waiting
      /\ engineSlot \in Slots /\ active[engineSlot]
  BY DEF Settled, Waiting, ChannelInv, HandleKept
<1>2. seen[engineSlot] # 0
  BY <1>1 DEF ChannelInv, NoticeInv
<1>3. delivered[engineSlot].current = current
  BY <1>1 DEF ChannelInv, LatestStateReachesSubscriber
<1>4. level = StateOutput(current)
  BY <1>1, <1>2, <1>3 DEF LevelInv
<1> QED
  BY <1>4, ConditionAssumption DEF StateOutput, Evaluate, Unknown

\* No restart, re-attachment, coalescing or deduplication leaves a stale level.
THEOREM LevelTheorem == EngineSpec => []LevelFollowsSignal
<1>1. EngineInit => LevelInv
  BY DEF EngineInit, LevelInv
<1> QED
  BY <1>1, InitChannelInv, StepChannelInv, StepLevel, SettledLevel, PTL DEF EngineSpec

\* Each action has the level that its own rule's input calls for.
THEOREM LevelsTheorem == EngineSpec => []LevelsFollowInputs
BY LevelTheorem, HysteresisTheorem, PTL DEF LevelsFollowInputs

-----------------------------------------------------------------------------
(* The event rule.                                                          *)

\* What happened between two positions does not change when the log grows.
LEMMA LostIsPast ==
    ASSUME TypeOK, NEW reading \in Readings, log' = Append(log, reading),
           NEW CONSTANT i \in Nat, NEW CONSTANT j \in 0..Len(log)
    PROVE  LostBetween(i, j)' <=> LostBetween(i, j)
<1>1. \A k \in 1..Len(log) : log'[k] = log[k]
  BY AppendedLog
<1>2. \A k \in (i + 1)..j : k > 1 => k \in 1..Len(log) /\ k - 1 \in 1..Len(log)
  BY DEF TypeOK
<1> QED
  BY <1>1, <1>2 DEF LostBetween

\* What the event rule knows survives a publication.
LEMMA PublishKeepsPast ==
    ASSUME ChannelInv, Publish
    PROVE  /\ Len(log') = Len(log) + 1 /\ Len(log) \in Nat
           /\ \A k \in 1..Len(log) : log'[k] = log[k]
           /\ \A i \in Nat : \A j \in 0..Len(log) : LostBetween(i, j)' <=> LostBetween(i, j)
<1>1. PICK reading \in Readings : log' = Append(log, reading)
  BY PublishEffect
<1>2. TypeOK
  BY DEF ChannelInv
<1>3. \A i \in Nat : \A j \in 0..Len(log) : LostBetween(i, j)' <=> LostBetween(i, j)
  <2>1. ASSUME NEW CONSTANT i \in Nat, NEW CONSTANT j \in 0..Len(log)
        PROVE  LostBetween(i, j)' <=> LostBetween(i, j)
    BY <1>1, <1>2, LostIsPast
  <2> QED
    BY <2>1
<1> QED
  BY <1>1, <1>2, <1>3, AppendedLog

\* An event fires only on two readings between which nothing was lost.
LEMMA StepTrigger == ChannelInv /\ EdgeInv /\ TriggerInv /\ [EngineNext]_allVars => TriggerInv'
<1> SUFFICES ASSUME ChannelInv, EdgeInv, TriggerInv, [EngineNext]_allVars PROVE TriggerInv'
  OBVIOUS
<1>1. CASE OnNotice
  <2>1. /\ Waiting /\ engineSlot # 0 /\ UNCHANGED log /\ running
    BY <1>1 DEF OnNotice, vars, Waiting, ChannelInv, CallbackOnlyWhileRunning
  <2> DEFINE n == delivered[engineSlot]
             j == seen[engineSlot]
             previous == IF RestartsBaseline(n) THEN Unknown ELSE baseline
  <2>2. trigger' = IF Fires(previous, Evaluate(n.current, Holds)) THEN <<prevSeen, j>> ELSE trigger
    BY <1>1 DEF OnNotice
  <2>3. /\ prevSeen \in Nat /\ Len(log) \in Nat /\ j \in Nat
        /\ prevSeen # 0 => baseline = Evaluate(log[prevSeen], Holds)
        /\ prevSeen < j /\ j <= Len(log) /\ n.current = log[j]
        /\ n.initial <=> prevSeen = 0
        /\ n.becameUnavailable <=> LostBetween(prevSeen, j)
    BY <2>1 DEF EdgeInv, ChannelInv, TypeOK, HandleKept
  <2>4. CASE Fires(previous, Evaluate(n.current, Holds))
    <3>1. ~n.initial /\ ~n.becameUnavailable /\ baseline = "off" /\ Evaluate(n.current, Holds) = "on"
      BY <2>4 DEF Fires, RestartsBaseline, Unknown
    <3>2. log[j] \in Holds /\ log[prevSeen] \in Actionable \ Holds
      BY <2>3, <3>1 DEF Evaluate, Unknown
    <3>3. /\ trigger' = <<prevSeen, j>> /\ ~LostBetween(prevSeen, j)
          /\ prevSeen > 0 /\ prevSeen < j /\ j \in 1..Len(log)
      BY <2>2, <2>3, <2>4, <3>1
    <3> HIDE DEF n, j, previous
    <3>4. trigger'[1] = prevSeen /\ trigger'[2] = j
      BY <3>3
    <3>5. LostBetween(trigger[1], trigger[2])' <=> LostBetween(prevSeen, j)
      BY <2>1, <3>4 DEF LostBetween
    <3> QED
      BY <2>1, <3>2, <3>3, <3>4, <3>5, <2>3 DEF TriggerInv
  <2>5. CASE ~Fires(previous, Evaluate(n.current, Holds))
    <3>1. trigger' = trigger
      BY <2>2, <2>5
    <3> QED
      BY <2>1, <3>1 DEF TriggerInv, LostBetween
  <2> QED
    BY <2>4, <2>5
<1>2. CASE PublishReading
  <2>1. Publish /\ trigger' = trigger
    BY <1>2 DEF PublishReading, engineVars
  <2> SUFFICES ASSUME trigger # <<>>
               PROVE  TriggerInv'
    BY <2>1 DEF TriggerInv
  <2>2. /\ trigger[1] \in Nat /\ trigger[2] \in 1..Len(log) /\ trigger[1] > 0
        /\ trigger[1] < trigger[2] /\ ~LostBetween(trigger[1], trigger[2])
    BY DEF TriggerInv
  <2>3. /\ Len(log') = Len(log) + 1 /\ Len(log) \in Nat
        /\ \A k \in 1..Len(log) : log'[k] = log[k]
    BY <2>1, PublishKeepsPast
  <2>4. PICK i \in Nat, j \in 0..Len(log) : i = trigger[1] /\ j = trigger[2]
    BY <2>2
  <2>5. LostBetween(i, j)' <=> LostBetween(i, j)
    BY <2>1, PublishKeepsPast
  <2>6. ~LostBetween(trigger[1], trigger[2])'
    BY <2>1, <2>2, <2>4, <2>5 DEF LostBetween
  <2> QED
    BY <2>1, <2>2, <2>3, <2>6 DEF TriggerInv
<1>3. CASE StartProvider
  BY <1>3 DEF StartProvider, TriggerInv
<1>4. CASE UNCHANGED <<trigger, log>>
  BY <1>4 DEF TriggerInv, LostBetween
<1> QED
  BY <1>1, <1>2, <1>3, <1>4
  DEF EngineNext, allVars, vars, engineVars, Attach, EngineDetach, OtherSubscriber, Subscribe, Unsubscribe,
      StopProvider, Stop, BeginDelivery, TakeNotice, EndDelivery, CallbackReturns, ReadPolled, OnSample

\* The baseline follows the log notice by notice.
LEMMA StepEdge == ChannelInv /\ EdgeInv /\ [EngineNext]_allVars => EdgeInv'
<1> SUFFICES ASSUME ChannelInv, EdgeInv, [EngineNext]_allVars PROVE EdgeInv'
  OBVIOUS
<1>0. Len(log) \in Nat /\ prevSeen \in 0..Len(log) /\ (engineSlot # 0 => engineSlot \in Slots)
  BY DEF ChannelInv, TypeOK, EdgeInv, HandleKept
<1>1. CASE OnNotice
  <2>1. /\ Waiting /\ engineSlot # 0 /\ running
        /\ UNCHANGED <<log, running, engineSlot, calling, seen, delivered>> /\ evaluated'
        /\ prevSeen' = seen[engineSlot]
        /\ baseline' = Evaluate(delivered[engineSlot].current, Holds)
    BY <1>1 DEF OnNotice, vars, Waiting, ChannelInv, CallbackOnlyWhileRunning
  <2>2. /\ seen[engineSlot] \in Nat /\ seen[engineSlot] <= Len(log)
        /\ delivered[engineSlot].current = log[seen[engineSlot]]
    BY <1>0, <2>1 DEF EdgeInv, ChannelInv, TypeOK
  <2> QED
    BY <1>0, <2>1, <2>2 DEF EdgeInv, Waiting, Evaluate
<1>2. CASE BeginDelivery
  <2>1. TakeNotice /\ ~evaluated' /\ UNCHANGED <<engineSlot, baseline, prevSeen, running, log>>
    BY <1>2 DEF BeginDelivery, ruleVars, TakeNotice
  <2>2. CASE engineSlot = 0
    BY <1>0, <2>1, <2>2 DEF EdgeInv
  <2>3. CASE engineSlot # 0 /\ calling' # engineSlot
    <3>1. running /\ ~Waiting /\ seen'[engineSlot] = seen[engineSlot] /\ ~Waiting'
      BY <2>1, <2>3, EngineTakes DEF Waiting
    <3> QED
      BY <1>0, <2>1, <2>3, <3>1 DEF EdgeInv, Evaluate
  <2>4. CASE engineSlot # 0 /\ calling' = engineSlot
    <3>1. /\ running /\ ~Waiting /\ Waiting' /\ active[engineSlot] /\ pending[engineSlot]
          /\ seen'[engineSlot] = Len(log) /\ seen[engineSlot] < Len(log)
          /\ delivered'[engineSlot] = notice[engineSlot]
      BY <2>1, <2>4, EngineTakes DEF Waiting
    <3>2. prevSeen = seen[engineSlot] /\ (prevSeen # 0 => baseline = Evaluate(log[prevSeen], Holds))
      BY <2>4, <3>1 DEF EdgeInv
    <3>3. notice[engineSlot].current = log[Len(log)]
      BY <1>0, <2>4, <3>1 DEF ChannelInv, LatestStateReachesSubscriber, NoticeInv
    <3>4. /\ notice[engineSlot].initial <=> prevSeen = 0
          /\ notice[engineSlot].becameUnavailable <=> LostBetween(prevSeen, Len(log))
      BY <1>0, <2>4, <3>1, <3>2 DEF ChannelInv, PendingNoticeTruthful
    <3>5. LostBetween(prevSeen, seen[engineSlot])' <=> LostBetween(prevSeen, Len(log))
      BY <2>1, <3>1 DEF LostBetween
    <3> QED
      BY <1>0, <2>1, <2>4, <3>1, <3>2, <3>3, <3>4, <3>5 DEF EdgeInv, Evaluate
  <2> QED
    BY <2>2, <2>3, <2>4
<1>3. CASE PublishReading
  <2>1. Publish /\ UNCHANGED <<engineSlot, evaluated, baseline, prevSeen>>
    BY <1>3 DEF PublishReading, engineVars, ruleVars
  <2>2. UNCHANGED <<running, calling, seen, delivered>>
    BY <2>1 DEF Publish
  <2>3. /\ Len(log') = Len(log) + 1
        /\ \A k \in 1..Len(log) : log'[k] = log[k]
    BY <2>1, PublishKeepsPast
  <2>4. CASE running /\ engineSlot # 0
    <3>1. seen[engineSlot] \in Nat
      BY <1>0, <2>4 DEF ChannelInv, TypeOK
    <3>2. (prevSeen # 0 => baseline' = Evaluate(log'[prevSeen], Holds)) /\ (~Waiting' => prevSeen = seen[engineSlot])
      BY <1>0, <2>1, <2>2, <2>3, <2>4 DEF EdgeInv, Waiting
    <3>3. ASSUME Waiting'
          PROVE  /\ prevSeen < seen[engineSlot] /\ seen[engineSlot] <= Len(log)
                 /\ delivered[engineSlot].current = log'[seen[engineSlot]]
                 /\ delivered[engineSlot].initial <=> prevSeen = 0
                 /\ delivered[engineSlot].becameUnavailable <=> LostBetween(prevSeen, seen[engineSlot])'
      <4>1. /\ prevSeen < seen[engineSlot] /\ seen[engineSlot] <= Len(log)
            /\ delivered[engineSlot].current = log[seen[engineSlot]]
            /\ delivered[engineSlot].initial <=> prevSeen = 0
            /\ delivered[engineSlot].becameUnavailable <=> LostBetween(prevSeen, seen[engineSlot])
        BY <2>1, <2>2, <2>4, <3>3 DEF EdgeInv, Waiting
      <4>2. PICK i \in Nat, j \in 0..Len(log) : i = prevSeen /\ j = seen[engineSlot]
        BY <1>0, <3>1, <4>1
      <4>3. LostBetween(i, j)' <=> LostBetween(i, j)
        BY <2>1, PublishKeepsPast
      <4>4. LostBetween(prevSeen, seen[engineSlot])' <=> LostBetween(prevSeen, seen[engineSlot])
        BY <2>1, <2>2, <4>2, <4>3 DEF LostBetween
      <4> QED
        BY <1>0, <2>3, <3>1, <4>1, <4>4
    <3> QED
      BY <1>0, <2>1, <2>2, <2>3, <2>4, <3>1, <3>2, <3>3 DEF EdgeInv, Evaluate
  <2>5. CASE ~(running /\ engineSlot # 0)
    BY <1>0, <2>1, <2>2, <2>3, <2>5 DEF EdgeInv
  <2> QED
    BY <2>4, <2>5
<1>4. CASE StartProvider
  <2>1. /\ prevSeen' = 0 /\ Len(log') = 1 /\ calling' = 0 /\ UNCHANGED engineSlot
        /\ seen' = [s \in Slots |-> 0]
    BY <1>4 DEF StartProvider, Start
  <2> QED
    BY <1>0, <2>1 DEF EdgeInv, Waiting
<1>5. CASE EndDelivery
  <2>1. /\ UNCHANGED <<running, engineSlot, log, baseline, prevSeen, seen, delivered, evaluated>>
        /\ ~Waiting /\ calling' = 0
    BY <1>5 DEF EndDelivery, CallbackReturns, engineVars, ruleVars, Waiting
  <2> QED
    BY <1>0, <2>1 DEF EdgeInv, Waiting, Evaluate
<1>6. CASE ReadPolled \/ OnSample \/ UNCHANGED allVars
  <2>1. UNCHANGED <<running, calling, seen, delivered, log, engineSlot, evaluated, baseline, prevSeen>>
    BY <1>6 DEF ReadPolled, OnSample, allVars, vars, engineVars, ruleVars
  <2> QED
    BY <2>1 DEF EdgeInv, Waiting, LostBetween, Evaluate
<1>7. CASE Attach \/ EngineDetach \/ OtherSubscriber \/ StopProvider
  <2>1. ~running' /\ UNCHANGED <<log, prevSeen>>
    BY <1>7 DEF Attach, EngineDetach, OtherSubscriber, StopProvider, Subscribe, Unsubscribe, Stop, engineVars
  <2> QED
    BY <1>0, <2>1 DEF EdgeInv
<1> QED
  BY <1>1, <1>2, <1>3, <1>4, <1>5, <1>6, <1>7 DEF EngineNext

\* No event fires across a data gap, not even one that coalescing hid.
THEOREM TriggerTheorem == EngineSpec => []TriggerSpansNoGap
<1>1. EngineInit => EdgeInv /\ TriggerInv
  BY DEF EngineInit, Init, EdgeInv, TriggerInv
<1>2. TriggerInv => TriggerSpansNoGap
  BY DEF TriggerInv, TriggerSpansNoGap
<1> QED
  BY <1>1, <1>2, InitChannelInv, StepChannelInv, StepEdge, StepTrigger, PTL DEF EngineSpec

\* What is proved of every channel holds around the engine.
THEOREM EngineKeepsChannel ==
    EngineSpec => [](/\ LatestStateReachesSubscriber /\ PendingNoticeTruthful /\ NoSlotStarves
                     /\ CallbackOnlyWhileRunning /\ HandleNamesItsRegistration)
BY EngineUsesChannel, DeliveryTheorem, TruthTheorem, StarvationTheorem, QuiescenceTheorem,
   HandleTheorem, PTL

=============================================================================
