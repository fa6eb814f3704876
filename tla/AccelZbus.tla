------------------------------ MODULE AccelZbus ------------------------------
(***************************************************************************)
(* samples/accelerometer_zbus: a tick, of the one-second timer or of the   *)
(* accelerometer's data-ready trigger, makes the system work queue publish *)
(* on sample_start_chan; its subscriber, the sensor thread, fetches a      *)
(* sample and publishes it on sample_data_chan, whose listener runs in the *)
(* same thread.                                                            *)
(*                                                                         *)
(* zbus is outside src/: a publication puts a notification into the        *)
(* subscriber's queue and, if that stays full for the 500 ms of the call,  *)
(* gives up.  Start messages are all alike, so the queue is a number.      *)
(***************************************************************************)
EXTENDS Integers

CONSTANT
  QueueSize   \* the size of sample_start_sub's queue

ASSUME ZbusAssumption == QueueSize \in Nat \ {0}

VARIABLES
  init,       \* where the SYS_INIT functions are; "off" while the image does
              \* not run
  trigger,    \* the build has CONFIG_LIS2DH_TRIGGER: the sensor ticks
  ready,      \* the accelerometer is there
  armed,      \* the timer runs, or the trigger is set
  work,       \* the work that publishes the start is pending
  publisher,  \* the work queue: "idle", or "putting" the notification
  queue,      \* notifications in sample_start_sub
  task,       \* where the sensor thread is
  owed        \* history: no fetch has begun since the last tick

zbusVars == <<init, trigger, ready, armed, work, publisher, queue, task, owed>>

ZbusInit ==
  /\ init = "off" /\ armed = FALSE
  /\ trigger = FALSE /\ ready = FALSE
  /\ work = FALSE /\ publisher = "idle"
  /\ queue = 0 /\ task = "not_started"
  /\ owed = FALSE

\* The processor is reset and starts this image, in either build and with or
\* without the accelerometer, or another image.
ZbusBoot(runs) ==
  /\ init' = IF runs THEN "sensor" ELSE "off"
  /\ armed' = FALSE
  /\ IF runs THEN trigger' \in BOOLEAN /\ ready' \in BOOLEAN
             ELSE trigger' = FALSE /\ ready' = FALSE
  /\ work' = FALSE /\ publisher' = "idle"
  /\ queue' = 0 /\ task' = "not_started"
  /\ owed' = FALSE

-----------------------------------------------------------------------------
(* System initialisation; what the functions return is not looked at.      *)

\* With the trigger, setting the data rate or the trigger itself may fail.
sensor_init ==
  /\ init = "sensor" /\ init' = IF trigger THEN "threads" ELSE "timer"
  /\ IF trigger /\ ready THEN armed' \in BOOLEAN ELSE UNCHANGED armed
  /\ UNCHANGED <<trigger, ready, work, publisher, queue, task, owed>>

\* Without it, the timer is started even if there is no accelerometer.
timer_start_init ==
  /\ init = "timer" /\ init' = "threads"
  /\ armed' = TRUE
  /\ UNCHANGED <<trigger, ready, work, publisher, queue, task, owed>>

\* The kernel starts the threads defined at compile time.
StartThreads ==
  /\ init = "threads" /\ init' = "done"
  /\ task' = "wait"
  /\ UNCHANGED <<trigger, ready, armed, work, publisher, queue, owed>>

-----------------------------------------------------------------------------
(* Ticks and the system work queue.                                        *)

\* sample_timer_handler, or the interrupt behind trigger_handler.  Work that
\* is pending already is not submitted again.
Tick ==
  /\ armed
  /\ work' = TRUE /\ owed' = TRUE
  /\ UNCHANGED <<init, trigger, ready, armed, publisher, queue, task>>

start_work_handler ==
  /\ work /\ publisher = "idle"
  /\ work' = FALSE /\ publisher' = "putting"
  /\ UNCHANGED <<init, trigger, ready, armed, queue, task, owed>>

PutNotification ==
  /\ publisher = "putting" /\ publisher' = "idle"
  /\ queue < QueueSize /\ queue' = queue + 1
  /\ UNCHANGED <<init, trigger, ready, armed, work, task, owed>>

\* zbus_chan_pub gives up; the handler does not look at its result.
Wrong_WaitsForever ==
  publisher = "putting" /\ queue = QueueSize /\ UNCHANGED zbusVars

PutTimeout ==
  /\ publisher = "putting" /\ publisher' = "idle"
  /\ queue = QueueSize
  /\ UNCHANGED <<init, trigger, ready, armed, work, queue, task, owed>>

WorkQueue == start_work_handler \/ PutNotification \/ PutTimeout

-----------------------------------------------------------------------------
(* The sensor thread: sensor_task.                                         *)

zbus_sub_wait ==
  /\ task = "wait" /\ queue > 0
  /\ queue' = queue - 1 /\ task' = "fetch"
  /\ owed' = FALSE
  /\ UNCHANGED <<init, trigger, ready, armed, work, publisher>>

\* The variants called Wrong_ are mistakes that the properties tell from the
\* code.
Wrong_PurgesQueue ==
  /\ task = "fetch"
  /\ queue' = 0
  /\ (ready /\ task' = "get") \/ task' = "wait"
  /\ UNCHANGED <<init, trigger, ready, armed, work, publisher, owed>>

Wrong_StopsOnError ==
  /\ task = "fetch"
  /\ (ready /\ task' = "get") \/ task' = "not_started"
  /\ UNCHANGED <<init, trigger, ready, armed, work, publisher, queue, owed>>

\* An overrun (-EBADMSG) counts as success, any other error skips the sample.
sensor_sample_fetch ==
  /\ task = "fetch"
  /\ (ready /\ task' = "get") \/ task' = "wait"
  /\ UNCHANGED <<init, trigger, ready, armed, work, publisher, queue, owed>>

sensor_channel_get ==
  /\ task = "get" /\ task' \in {"publish", "wait"}
  /\ UNCHANGED <<init, trigger, ready, armed, work, publisher, queue, owed>>

\* listener_cb only reads the message: nothing makes this call wait.
PublishSample ==
  /\ task = "publish" /\ task' = "wait"
  /\ UNCHANGED <<init, trigger, ready, armed, work, publisher, queue, owed>>

sensor_task ==
  zbus_sub_wait \/ sensor_sample_fetch \/ sensor_channel_get \/ PublishSample

SysInit == sensor_init \/ timer_start_init \/ StartThreads

ZbusStep == SysInit \/ Tick \/ WorkQueue \/ sensor_task

ZbusNext == ZbusStep \/ \E runs \in BOOLEAN : ZbusBoot(runs)

ZbusSpec == ZbusInit /\ [][ZbusNext]_zbusVars

\* Initialisation goes on, both threads get to run and their calls return;
\* no tick has to come.
ZbusFairness == WF_zbusVars(SysInit) /\ WF_zbusVars(WorkQueue)
                  /\ WF_zbusVars(sensor_task)

-----------------------------------------------------------------------------
(* What the sample promises.                                               *)

ZbusTypeOK ==
  /\ init \in {"off", "sensor", "timer", "threads", "done"}
  /\ trigger \in BOOLEAN /\ ready \in BOOLEAN /\ armed \in BOOLEAN
  /\ work \in BOOLEAN /\ owed \in BOOLEAN
  /\ publisher \in {"idle", "putting"} /\ queue \in 0..QueueSize
  /\ task \in {"not_started", "wait", "fetch", "get", "publish"}

\* A tick on its way to a fetch is pending work, a notification being put, or
\* one in the queue.
One(b) == IF b THEN 1 ELSE 0
Ticks == One(work) + One(publisher = "putting") + queue

\* Ticks coalesce in the pending work, and one is dropped only at a full queue:
\* whichever contexts a tick passes through, it is fetched for or another is.
Sampling == INSTANCE Sampler WITH Capacity <- QueueSize, requests <- Ticks

\* The threads and queues of the sample implement the abstract sampler.
ImplementsSampler == Sampling!Spec

\* A tick that no fetch has followed yet is on its way in some form, also while
\* a fetch or a publication is in progress.
NoTickForgotten ==
  owed => work \/ publisher = "putting" \/ queue > 0

\* Neither thread gets stuck: the work queue never waits for ever at a full
\* queue, and the sensor thread waits for nothing but a start message.
ZbusGoesOn ==
  /\ init \in {"sensor", "timer", "threads"} => ENABLED <<SysInit>>_zbusVars
  /\ work \/ publisher = "putting" => ENABLED <<WorkQueue>>_zbusVars
  /\ task \in {"fetch", "get", "publish"} \/ (task = "wait" /\ queue > 0)
       => ENABLED <<sensor_task>>_zbusVars

\* Every tick is followed by a fetch that begins after it.
TickServed == owed ~> ~owed
=============================================================================
