-------------------------------- MODULE Sms --------------------------------
(***************************************************************************)
(* samples/sms/src/main.c: a press of the button schedules a work item,    *)
(* whose handler sends two AT commands to the modem without waiting for    *)
(* the answers.                                                            *)
(*                                                                         *)
(* Three contexts interleave: main, which enables the button's interrupt   *)
(* before it initialises the work item; the interrupt, which runs          *)
(* button_pressed to completion; and the system work queue.  The queue,    *)
(* the modem and its library are outside src/.  The modem takes one        *)
(* asynchronous command at a time and may refuse any.                      *)
(***************************************************************************)
EXTENDS Naturals

VARIABLES
  smsPc,       \* where main is; "off" while the image does not run
  irq,         \* the button's interrupt is enabled
  callback,    \* button_pressed is registered
  initialised, \* the work item knows its handler
  listed,      \* the work item is in the list of the work queue
  flagged,     \* the work item says that it is queued
  command,     \* the next command of the running handler, 0 if none runs
  pending,     \* the command the modem is busy with, 0 if none
  crashed,     \* the work queue has met an item it cannot run
  pressed,     \* history: a press that no run of the handler has followed
  early,       \* history: a press came before the initialisation
  tried        \* history: the commands of the last run

buttonVars == <<irq, callback>>
workVars   == <<initialised, listed, flagged, crashed>>
histVars   == <<pressed, early, tried>>
smsVars    == <<smsPc, buttonVars, workVars, command, pending, histVars>>

Commands == {1, 2}   \* AT+CNMI and AT+CMGS, the message itself

SmsInit ==
  /\ smsPc = "off" /\ irq = FALSE /\ callback = FALSE
  /\ initialised = FALSE /\ listed = FALSE /\ flagged = FALSE
  /\ command = 0 /\ pending = 0 /\ crashed = FALSE
  /\ pressed = FALSE /\ early = FALSE /\ tried = Commands

\* The processor is reset, and the modem with it.
SmsBoot(runs) ==
  /\ smsPc' = IF runs THEN "configure" ELSE "off"
  /\ irq' = FALSE /\ callback' = FALSE
  /\ initialised' = FALSE /\ listed' = FALSE /\ flagged' = FALSE
  /\ command' = 0 /\ pending' = 0 /\ crashed' = FALSE
  /\ pressed' = FALSE /\ early' = FALSE /\ tried' = Commands

-----------------------------------------------------------------------------
(* main.                                                                   *)

SmsGoto(from, to) == smsPc = from /\ smsPc' = to

\* button_init returns without the interrupt if one of its calls fails; main
\* goes on.
ConfigurePin ==
  /\ SmsGoto("configure", "interrupt") \/ SmsGoto("configure", "work_init")
  /\ UNCHANGED <<buttonVars, workVars, command, pending, histVars>>

EnableInterrupt ==
  /\ \/ SmsGoto("interrupt", "callback") /\ irq' = TRUE
     \/ SmsGoto("interrupt", "work_init") /\ UNCHANGED irq
  /\ UNCHANGED <<callback, workVars, command, pending, histVars>>

gpio_add_callback ==
  /\ SmsGoto("callback", "work_init")
  /\ callback' = TRUE
  /\ UNCHANGED <<irq, workVars, command, pending, histVars>>

\* The item forgets that it is in the list, if it is.
k_work_init_delayable ==
  /\ SmsGoto("work_init", "returned")
  /\ initialised' = TRUE /\ flagged' = FALSE
  /\ UNCHANGED <<buttonVars, listed, crashed, command, pending, histVars>>

SmsMain == ConfigurePin \/ EnableInterrupt \/ gpio_add_callback
             \/ k_work_init_delayable

-----------------------------------------------------------------------------
(* The button's interrupt.                                                 *)

\* An item that is queued already stays where it is; one that is running is
\* queued once more; one that is listed without saying so is linked to itself.
\* The variants called Wrong_, here and below, are mistakes that the properties
\* tell from the code.
Wrong_NotWhileRunning ==
  IF flagged \/ command # 0 THEN UNCHANGED <<listed, flagged, crashed>>
  ELSE flagged' = TRUE /\ listed' = TRUE /\ crashed' = (crashed \/ listed)
k_work_schedule ==
  IF flagged THEN UNCHANGED <<listed, flagged, crashed>>
  ELSE flagged' = TRUE /\ listed' = TRUE /\ crashed' = (crashed \/ listed)

\* A press without the callback has no effect.
button_pressed ==
  /\ irq /\ callback /\ k_work_schedule
  /\ pressed' = TRUE
  /\ early' = (early \/ smsPc # "returned")
  /\ UNCHANGED <<smsPc, buttonVars, initialised, command, pending, tried>>

-----------------------------------------------------------------------------
(* The system work queue: sms_work_fn.                                     *)

\* The handler of an item that is not initialised is a null pointer.
StartHandler ==
  /\ listed /\ ~crashed /\ command = 0
  /\ listed' = FALSE /\ flagged' = FALSE
  /\ IF initialised
     THEN command' = 1 /\ tried' = {} /\ pressed' = FALSE /\ UNCHANGED crashed
     ELSE crashed' = TRUE /\ UNCHANGED <<command, tried, pressed>>
  /\ UNCHANGED <<smsPc, buttonVars, initialised, pending, early>>

\* The loop goes on with the next command whatever became of this one.
NextCommand == command' = IF command = 2 THEN 0 ELSE command + 1

\* A command is refused while another is pending, or for any other reason.
Wrong_StopsWhenRefused ==
  /\ command # 0 /\ tried' = tried \cup {command}
  /\ \/ pending = 0 /\ pending' = command /\ NextCommand
     \/ command' = 0 /\ UNCHANGED pending
  /\ UNCHANGED <<smsPc, buttonVars, workVars, pressed, early>>

nrf_modem_at_cmd_async ==
  /\ command # 0 /\ tried' = tried \cup {command}
  /\ \/ pending = 0 /\ pending' = command
     \/ UNCHANGED pending
  /\ NextCommand
  /\ UNCHANGED <<smsPc, buttonVars, workVars, pressed, early>>

SmsWork == StartHandler \/ nrf_modem_at_cmd_async

\* The modem answers; the handler of the answer only prints it.
at_cmd_handler ==
  /\ pending # 0 /\ pending' = 0
  /\ UNCHANGED <<smsPc, buttonVars, workVars, command, histVars>>

-----------------------------------------------------------------------------
SmsStep == SmsMain \/ button_pressed \/ SmsWork \/ at_cmd_handler

SmsNext == SmsStep \/ \E runs \in BOOLEAN : SmsBoot(runs)

SmsSpec == SmsInit /\ [][SmsNext]_smsVars

\* The work queue and main are scheduled; nobody has to press the button, and
\* the modem need not answer.
SmsFairness == WF_smsVars(SmsWork) /\ WF_smsVars(SmsMain)

-----------------------------------------------------------------------------
(* What the program promises.                                              *)

SmsTypeOK ==
  /\ smsPc \in {"off", "configure", "interrupt", "callback", "work_init",
                "returned"}
  /\ irq \in BOOLEAN /\ callback \in BOOLEAN
  /\ initialised \in BOOLEAN /\ listed \in BOOLEAN /\ flagged \in BOOLEAN
  /\ crashed \in BOOLEAN /\ pressed \in BOOLEAN /\ early \in BOOLEAN
  /\ command \in {0} \cup Commands /\ pending \in {0} \cup Commands
  /\ tried \subseteq Commands

\* A press is never forgotten: until a run of the handler has started after
\* it, the item is in the queue, also when the press came during a run.  And no
\* message without a press: nothing else puts the item there.
PressQueued == ~crashed => (pressed <=> listed)

\* The work queue gets into trouble only through a press between the lines
\* that enable the button and the one that initialises the work item.
CrashOnlyWhenEarly == crashed => early

\* A refused command does not keep the next one from being tried: whenever no
\* handler runs, the last run has tried both.
BothTried == command = 0 => tried = Commands

\* Presses stay queued, only early ones do harm, and each run sends both commands.
SmsSafe == PressQueued /\ CrashOnlyWhenEarly /\ BothTried

\* Neither context gets stuck: main until it returns, and the work queue while
\* an item is listed or a handler runs, can always take their next step, however
\* long the modem is busy.
SmsGoesOn ==
  /\ smsPc \in {"configure", "interrupt", "callback", "work_init"}
       => ENABLED <<SmsMain>>_smsVars
  /\ (listed /\ ~crashed) \/ command # 0 => ENABLED <<SmsWork>>_smsVars

\* A press during or after the initialisation is followed by a run.
PressServed == pressed ~> (~pressed \/ crashed)
=============================================================================
