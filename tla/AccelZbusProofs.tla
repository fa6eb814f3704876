--------------------------- MODULE AccelZbusProofs ---------------------------
(***************************************************************************)
(* What holds of the sampling loop for a queue of any size.                *)
(***************************************************************************)
EXTENDS AccelZbus, TLAPS

\* Every variable stays in its range; the queue never exceeds its size.
THEOREM ZbusTypeCorrect == ZbusSpec => []ZbusTypeOK
<1> USE ZbusAssumption
<1>1. ZbusInit => ZbusTypeOK
  <2> SUFFICES ASSUME ZbusInit PROVE ZbusTypeOK
    OBVIOUS
  <2>1. queue \in 0..QueueSize
    BY DEF ZbusInit
  <2> QED BY <2>1 DEF ZbusInit, ZbusTypeOK
<1>2. ZbusTypeOK /\ [ZbusNext]_zbusVars => ZbusTypeOK'
  <2> SUFFICES ASSUME ZbusTypeOK, [ZbusNext]_zbusVars PROVE ZbusTypeOK'
    OBVIOUS
  <2> USE DEF ZbusTypeOK
  <2>1. CASE sensor_init
    BY <2>1 DEF sensor_init
  <2>2. CASE timer_start_init \/ StartThreads
    BY <2>2 DEF timer_start_init, StartThreads
  <2>3. CASE Tick \/ start_work_handler
    BY <2>3 DEF Tick, start_work_handler
  <2>4. CASE PutNotification
    <3>1. queue' \in 0..QueueSize
      BY <2>4 DEF PutNotification
    <3> QED BY <2>4, <3>1 DEF PutNotification
  <2>5. CASE PutTimeout
    BY <2>5 DEF PutTimeout
  <2>6. CASE zbus_sub_wait
    <3>1. queue' \in 0..QueueSize
      BY <2>6 DEF zbus_sub_wait
    <3> QED BY <2>6, <3>1 DEF zbus_sub_wait
  <2>7. CASE sensor_sample_fetch \/ sensor_channel_get \/ PublishSample
    BY <2>7 DEF sensor_sample_fetch, sensor_channel_get, PublishSample
  <2>8. CASE \E runs \in BOOLEAN : ZbusBoot(runs)
    <3>1. queue' \in 0..QueueSize
      BY <2>8 DEF ZbusBoot
    <3> QED BY <2>8, <3>1 DEF ZbusBoot
  <2>9. CASE UNCHANGED zbusVars
    BY <2>9 DEF zbusVars
  <2> QED BY <2>1, <2>2, <2>3, <2>4, <2>5, <2>6, <2>7, <2>8, <2>9
          DEF ZbusNext, ZbusStep, SysInit, WorkQueue, sensor_task
<1> QED BY <1>1, <1>2, PTL DEF ZbusSpec

\* No tick is forgotten, whatever the size of the queue: the property is
\* inductive, because a queue that is full holds a notification.
THEOREM TicksRemembered == ZbusSpec => []NoTickForgotten
<1> USE ZbusAssumption
<1>1. ZbusInit => NoTickForgotten
  BY DEF ZbusInit, NoTickForgotten
<1>2. ZbusTypeOK /\ NoTickForgotten /\ [ZbusNext]_zbusVars => NoTickForgotten'
  <2> SUFFICES ASSUME ZbusTypeOK, NoTickForgotten, [ZbusNext]_zbusVars
               PROVE  NoTickForgotten'
    OBVIOUS
  <2> USE DEF NoTickForgotten
  <2>1. CASE SysInit
    BY <2>1 DEF SysInit, sensor_init, timer_start_init, StartThreads
  <2>2. CASE Tick \/ start_work_handler
    BY <2>2 DEF Tick, start_work_handler
  <2>3. CASE PutNotification
    <3>1. queue' > 0
      BY <2>3 DEF PutNotification, ZbusTypeOK
    <3> QED BY <3>1
  <2>4. CASE PutTimeout
    <3>1. queue' > 0
      BY <2>4 DEF PutTimeout
    <3> QED BY <3>1
  <2>5. CASE zbus_sub_wait
    BY <2>5 DEF zbus_sub_wait
  <2>6. CASE sensor_sample_fetch \/ sensor_channel_get \/ PublishSample
    BY <2>6 DEF sensor_sample_fetch, sensor_channel_get, PublishSample
  <2>7. CASE \E runs \in BOOLEAN : ZbusBoot(runs)
    BY <2>7 DEF ZbusBoot
  <2>8. CASE UNCHANGED zbusVars
    BY <2>8 DEF zbusVars
  <2> QED BY <2>1, <2>2, <2>3, <2>4, <2>5, <2>6, <2>7, <2>8
          DEF ZbusNext, ZbusStep, WorkQueue, sensor_task
<1> QED BY <1>1, <1>2, ZbusTypeCorrect, PTL DEF ZbusSpec

-----------------------------------------------------------------------------
(* The promise of the sampling loop: Sampler.                              *)

\* Whichever contexts a tick passes through, it coalesces with another, is
\* fetched for, or is dropped, the latter at a full queue only.
THEOREM SamplerImplemented == ZbusSpec => ImplementsSampler
<1> USE ZbusAssumption
<1>1. ZbusInit => Sampling!Init
  BY DEF ZbusInit, Sampling!Init, Ticks, One
<1>2. ZbusTypeOK /\ [ZbusNext]_zbusVars => [Sampling!Next]_(Sampling!vars)
  <2> SUFFICES ASSUME ZbusTypeOK, [ZbusNext]_zbusVars
               PROVE  Sampling!Next \/ UNCHANGED <<Ticks, owed>>
    BY DEF Sampling!vars
  <2> USE DEF Ticks, One
  <2>0. queue \in 0..QueueSize /\ queue \in Nat
    BY DEF ZbusTypeOK
  <2>1. CASE SysInit
    BY <2>1 DEF SysInit, sensor_init, timer_start_init, StartThreads
  <2>2. CASE Tick
    <3>1. Ticks' \in {Ticks, Ticks + 1} /\ Ticks' \in 1..QueueSize + 2 /\ owed' = TRUE
      BY <2>0, <2>2 DEF Tick
    <3> QED BY <3>1 DEF Sampling!Next, Sampling!Tick
  <2>3. CASE start_work_handler \/ PutNotification
    <3>1. Ticks' = Ticks /\ owed' = owed
      BY <2>0, <2>3 DEF start_work_handler, PutNotification
    <3> QED BY <3>1
  <2>4. CASE PutTimeout
    <3>1. Ticks > QueueSize /\ Ticks' = Ticks - 1 /\ owed' = owed
      BY <2>0, <2>4 DEF PutTimeout
    <3> QED BY <3>1 DEF Sampling!Next, Sampling!Drop
  <2>5. CASE zbus_sub_wait
    <3>1. Ticks > 0 /\ Ticks' = Ticks - 1 /\ owed' = FALSE
      BY <2>0, <2>5 DEF zbus_sub_wait
    <3> QED BY <3>1 DEF Sampling!Next, Sampling!Fetch
  <2>6. CASE sensor_sample_fetch \/ sensor_channel_get \/ PublishSample
    BY <2>6 DEF sensor_sample_fetch, sensor_channel_get, PublishSample
  <2>7. CASE \E runs \in BOOLEAN : ZbusBoot(runs)
    <3>1. Ticks' = 0 /\ owed' = FALSE
      BY <2>7 DEF ZbusBoot
    <3> QED BY <3>1 DEF Sampling!Next, Sampling!Reset
  <2>8. CASE UNCHANGED zbusVars
    BY <2>8 DEF zbusVars
  <2> QED BY <2>1, <2>2, <2>3, <2>4, <2>5, <2>6, <2>7, <2>8
          DEF ZbusNext, ZbusStep, WorkQueue, sensor_task
<1> QED BY <1>1, <1>2, ZbusTypeCorrect, PTL
        DEF ZbusSpec, Sampling!Spec, ImplementsSampler

-----------------------------------------------------------------------------
(* Every tick is served.                                                   *)

\* The sensor thread runs once the initialisation is done, and no tick comes
\* before the last step of that.
ZbusStaged ==
  /\ task = "not_started" <=> init # "done"
  /\ armed \/ owed => init \in {"threads", "done"}

LEMMA ZbusStagesKept == ZbusSpec => []ZbusStaged
<1>1. ZbusInit => ZbusStaged
  BY DEF ZbusInit, ZbusStaged
<1>2. ZbusTypeOK /\ ZbusStaged /\ [ZbusNext]_zbusVars => ZbusStaged'
  <2> SUFFICES ASSUME ZbusTypeOK, ZbusStaged, [ZbusNext]_zbusVars
               PROVE  ZbusStaged'
    OBVIOUS
  <2> USE DEF ZbusStaged
  <2>1. CASE SysInit
    BY <2>1 DEF SysInit, sensor_init, timer_start_init, StartThreads
  <2>2. CASE Tick \/ WorkQueue
    BY <2>2 DEF Tick, WorkQueue, start_work_handler, PutNotification, PutTimeout
  <2>3. CASE sensor_task
    BY <2>3 DEF sensor_task, zbus_sub_wait, sensor_sample_fetch,
                sensor_channel_get, PublishSample
  <2>4. CASE \E runs \in BOOLEAN : ZbusBoot(runs)
    BY <2>4 DEF ZbusBoot
  <2>5. CASE UNCHANGED zbusVars
    BY <2>5 DEF zbusVars
  <2> QED BY <2>1, <2>2, <2>3, <2>4, <2>5 DEF ZbusNext, ZbusStep
<1> QED BY <1>1, <1>2, ZbusTypeCorrect, PTL DEF ZbusSpec

ZbusInv == ZbusTypeOK /\ ZbusStaged /\ NoTickForgotten

\* How many steps of the context that is in charge a fetch is away, at most: of
\* the initialisation, then of the work queue, then of the sensor thread.
Distance ==
  CASE init # "done"                          -> 7
    [] init = "done" /\ queue = 0
         /\ publisher = "idle"                -> 6
    [] init = "done" /\ queue = 0
         /\ publisher = "putting"             -> 5
    [] init = "done" /\ queue > 0             ->
         CASE task = "fetch" -> 4 [] task = "get" -> 3
           [] task = "publish" -> 2 [] OTHER -> 1

LEMMA DistanceBound == ZbusInv => Distance \in 1..7
BY DEF ZbusInv, ZbusTypeOK, Distance

LEMMA DistanceBoundNext == ZbusInv' => Distance' \in 1..7
BY DEF ZbusInv, ZbusTypeOK, Distance

\* No step takes the fetch further away.
LEMMA NeverFurther ==
  ASSUME ZbusInv, ZbusInv', owed, owed', [ZbusNext]_zbusVars
  PROVE  Distance' <= Distance
<1> USE ZbusAssumption DEF Distance, ZbusInv, ZbusTypeOK, ZbusStaged,
        NoTickForgotten
<1>1. CASE SysInit
  BY <1>1 DEF SysInit, sensor_init, timer_start_init, StartThreads
<1>2. CASE Tick
  BY <1>2 DEF Tick
<1>3. CASE start_work_handler
  BY <1>3 DEF start_work_handler
<1>4. CASE PutNotification
  BY <1>4 DEF PutNotification
<1>5. CASE PutTimeout
  BY <1>5 DEF PutTimeout
<1>6. CASE zbus_sub_wait
  BY <1>6 DEF zbus_sub_wait
<1>7. CASE sensor_sample_fetch
  BY <1>7 DEF sensor_sample_fetch
<1>8. CASE sensor_channel_get
  BY <1>8 DEF sensor_channel_get
<1>9. CASE PublishSample
  BY <1>9 DEF PublishSample
<1>10. CASE \E runs \in BOOLEAN : ZbusBoot(runs)
  BY <1>10 DEF ZbusBoot
<1>11. CASE UNCHANGED zbusVars
  BY <1>11 DEF zbusVars
<1> QED BY <1>1, <1>2, <1>3, <1>4, <1>5, <1>6, <1>7, <1>8, <1>9, <1>10, <1>11
        DEF ZbusNext, ZbusStep, WorkQueue, sensor_task

\* A step of the context that is in charge brings it closer.
LEMMA StepCloser ==
  ASSUME ZbusInv, ZbusInv', owed, owed',
         \/ Distance = 7 /\ SysInit
         \/ Distance \in 5..6 /\ WorkQueue
         \/ Distance \in 1..4 /\ sensor_task
  PROVE  Distance' < Distance
<1> USE ZbusAssumption DEF Distance, ZbusInv, ZbusTypeOK, ZbusStaged,
        NoTickForgotten
<1>1. CASE Distance = 7 /\ SysInit
  BY <1>1 DEF SysInit, sensor_init, timer_start_init, StartThreads
<1>2. CASE Distance \in 5..6 /\ start_work_handler
  BY <1>2 DEF start_work_handler
<1>3. CASE Distance \in 5..6 /\ PutNotification
  BY <1>3 DEF PutNotification
<1>4. CASE Distance \in 5..6 /\ PutTimeout
  BY <1>4 DEF PutTimeout
<1>5. CASE Distance \in 1..4 /\ sensor_task
  <2>1. CASE zbus_sub_wait
    BY <2>1 DEF zbus_sub_wait
  <2>2. CASE sensor_sample_fetch
    BY <1>5, <2>2 DEF sensor_sample_fetch
  <2>3. CASE sensor_channel_get
    BY <1>5, <2>3 DEF sensor_channel_get
  <2>4. CASE PublishSample
    BY <1>5, <2>4 DEF PublishSample
  <2> QED BY <1>5, <2>1, <2>2, <2>3, <2>4 DEF sensor_task
<1> QED BY <1>1, <1>2, <1>3, <1>4, <1>5 DEF WorkQueue

\* A fetch is owed, and at most n steps away.
Within(n) == owed /\ Distance \in 1..n

\* From n steps away, context A gets at most m steps away, and others do no harm.
Closer(n, m, A) ==
  /\ ZbusInv /\ ZbusInv' /\ Within(n) /\ [ZbusNext]_zbusVars
       => (Within(n) \/ ~owed)'
  /\ ZbusInv /\ ZbusInv' /\ Within(n) /\ ~Within(m) /\ <<A>>_zbusVars
       => (Within(m) \/ ~owed)'
  /\ ZbusInv /\ ZbusGoesOn /\ Within(n) /\ ~Within(m) => ENABLED <<A>>_zbusVars

LEMMA EachStepCloser ==
  /\ Closer(7, 6, SysInit)
  /\ Closer(6, 5, WorkQueue) /\ Closer(5, 4, WorkQueue)
  /\ Closer(4, 3, sensor_task) /\ Closer(3, 2, sensor_task)
  /\ Closer(2, 1, sensor_task) /\ Closer(1, 0, sensor_task)
<1>1. ASSUME NEW n \in 1..7, ZbusInv, ZbusInv', Within(n), [ZbusNext]_zbusVars
      PROVE  (Within(n) \/ ~owed)'
  BY <1>1, DistanceBoundNext, NeverFurther DEF Within
<1>2. ASSUME NEW n \in 1..7, NEW m \in 0..6, n = m + 1,
             ZbusInv, Within(n), ~Within(m)
      PROVE  owed /\ Distance = n
  BY <1>2, DistanceBound DEF Within
<1>3. ASSUME NEW m \in 0..6, ZbusInv, ZbusInv', Distance = m + 1,
             owed' => Distance' < Distance
      PROVE  (Within(m) \/ ~owed)'
  BY <1>3, DistanceBoundNext DEF Within
<1>4. ASSUME ZbusInv, ZbusGoesOn, owed
      PROVE  /\ Distance = 7 => ENABLED <<SysInit>>_zbusVars
             /\ Distance \in 5..6 => ENABLED <<WorkQueue>>_zbusVars
             /\ Distance \in 1..4 => ENABLED <<sensor_task>>_zbusVars
  BY <1>4 DEF ZbusGoesOn, ZbusInv, ZbusTypeOK, ZbusStaged, NoTickForgotten, Distance
<1>5. Closer(7, 6, SysInit)
  <2>1. ASSUME ZbusInv, ZbusInv', Distance = 7, owed, SysInit
        PROVE  (Within(6) \/ ~owed)'
    <3>1. owed' => Distance' < Distance
      BY <2>1, StepCloser
    <3> QED BY <1>3, <2>1, <3>1
  <2> QED BY <1>1, <1>2, <1>4, <2>1 DEF Closer
<1>6. Closer(6, 5, WorkQueue) /\ Closer(5, 4, WorkQueue)
  <2>1. ASSUME NEW m \in 4..5, ZbusInv, ZbusInv', Distance = m + 1, owed, WorkQueue
        PROVE  (Within(m) \/ ~owed)'
    <3>1. owed' => Distance' < Distance
      BY <2>1, StepCloser
    <3> QED BY <1>3, <2>1, <3>1
  <2> QED BY <1>1, <1>2, <1>4, <2>1 DEF Closer
<1>7. /\ Closer(4, 3, sensor_task) /\ Closer(3, 2, sensor_task)
      /\ Closer(2, 1, sensor_task) /\ Closer(1, 0, sensor_task)
  <2>1. ASSUME NEW m \in 0..3, ZbusInv, ZbusInv', Distance = m + 1, owed, sensor_task
        PROVE  (Within(m) \/ ~owed)'
    <3>1. owed' => Distance' < Distance
      BY <2>1, StepCloser
    <3> QED BY <1>3, <2>1, <3>1
  <2> QED BY <1>1, <1>2, <1>4, <2>1 DEF Closer
<1> QED BY <1>5, <1>6, <1>7

\* Every tick is followed by a fetch that begins after it, whatever the size of
\* the queue, provided that neither context gets stuck.
THEOREM TickIsServed ==
  ZbusSpec /\ ZbusFairness /\ []ZbusGoesOn => TickServed
<1>1. ZbusSpec => []ZbusInv
  BY ZbusTypeCorrect, ZbusStagesKept, TicksRemembered, PTL DEF ZbusInv
<1>2. ZbusInv /\ owed => Within(7)
  BY DistanceBound DEF Within
<1>3. ~Within(0)
  BY DEF Within
<1> QED BY <1>1, <1>2, <1>3, EachStepCloser, PTL
        DEF Closer, ZbusSpec, ZbusFairness, TickServed
=============================================================================
