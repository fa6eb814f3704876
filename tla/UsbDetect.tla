----------------------------- MODULE UsbDetect -----------------------------
(***************************************************************************)
(* samples/usb_detect/src/main.c: the PMIC reports that VBUS appeared or   *)
(* went away, event_callback records it in vbus_connected and gives a      *)
(* binary semaphore, and the main thread switches the BUCK2 regulator, its *)
(* pull-down and the console UART accordingly.                             *)
(*                                                                         *)
(* Two threads share vbus_connected and usb_detect_sem: the system work    *)
(* queue, which runs event_callback to completion (it is cooperative), and *)
(* the main thread, which the callback may preempt between any two steps.  *)
(* The cable is the environment.  The PMIC event bits, the reference count *)
(* kept by the regulator API and the device power management of the UART   *)
(* are outside src/ and modelled from how main.c calls them.               *)
(***************************************************************************)
EXTENDS Integers

CONSTANTS
  MaxMoves,    \* bound: how often the cable is plugged or unplugged
  MaxFaults,   \* bound: how many device calls return an error
  Calm,        \* phases of the program during which the cable stays put
  Matched      \* TRUE: BUCK2 comes up on exactly when the cable is in

ASSUME UsbAssumption ==
  /\ MaxMoves \in Nat
  /\ MaxFaults \in Nat
  /\ Calm \subseteq {"boot", "event", "loop"}
  /\ Matched \in BOOLEAN

VARIABLES
  cable,           \* TRUE while a cable is in
  latched,         \* PMIC events not yet passed to event_callback
  registered,      \* event_cb is on the PMIC driver's callback list
  vbus_connected,  \* the flag shared by event_callback and main
  usb_detect_sem,  \* count of the semaphore, at most 1
  pc,              \* where the main thread is
  val,             \* main's sample of VBUS, not yet stored
  enabled,         \* the branch main took last: TRUE for "USB connected"
  served,          \* history: main has completed a pass of its loop
  refcnt,          \* reference count of the regulator API for BUCK2
  buck2,           \* BUCK2 is on
  pulldown,        \* BUCK2's pull-down is active
  uart,            \* the console UART is active (not suspended)
  hfclk,           \* the high-frequency clock has not been stopped
  console_err,     \* history: the last call to change the console has failed
  moves, faults    \* how much of MaxMoves and MaxFaults is used up

mainVars == <<pc, val, enabled, served>>
buckVars == <<refcnt, buck2, pulldown>>
consoleVars == <<uart, hfclk, console_err>>
vars == <<cable, latched, registered, vbus_connected, usb_detect_sem,
          mainVars, buckVars, consoleVars, moves, faults>>

Event == {"VBUS_DETECTED", "VBUS_REMOVED"}
Loop  == {"wait", "check", "buck2", "pulldown", "uart"}

\* Main is blocked in k_sem_take and nothing is on its way to it.
Idle == pc = "wait" /\ usb_detect_sem = 0 /\ latched = {}

\* One more device call returns an error.
Fault == faults < MaxFaults /\ faults' = faults + 1

Init ==
  /\ cable \in BOOLEAN
  /\ latched = {}
  /\ registered = FALSE
  /\ vbus_connected = FALSE
  /\ usb_detect_sem = 0
  /\ pc = "init" /\ val = FALSE /\ enabled = FALSE /\ served = FALSE
  /\ buck2 \in BOOLEAN /\ (Matched => buck2 = cable)
  /\ refcnt = IF buck2 THEN 1 ELSE 0
  /\ pulldown \in BOOLEAN
  /\ uart = TRUE /\ hfclk = TRUE /\ console_err = FALSE
  /\ moves = 0 /\ faults = 0

-----------------------------------------------------------------------------
(* The cable and the PMIC driver.                                          *)

\* Calm says when the cable keeps still: while main initialises ("boot"),
\* while an event is latched ("event"), until main is idle again ("loop").
MayMove ==
  /\ "boot"  \in Calm => pc \in Loop
  /\ "event" \in Calm => latched = {}
  /\ "loop"  \in Calm => Idle

\* The cable is plugged or unplugged.  One bit per kind of event: the PMIC
\* does not remember in which order two of them came.
MoveCable ==
  /\ moves < MaxMoves /\ MayMove
  /\ cable' = ~cable
  /\ latched' = IF ~registered THEN latched
                ELSE latched \cup {IF cable THEN "VBUS_REMOVED"
                                            ELSE "VBUS_DETECTED"}
  /\ moves' = moves + 1
  /\ UNCHANGED <<registered, vbus_connected, usb_detect_sem, mainVars,
                 buckVars, consoleVars, faults>>

\* Every event gives the semaphore, whose limit is 1.  The variants called
\* Wrong_, here and below, are mistakes that the properties tell from the code.
Wrong_GiveDetectedOnly(pins) ==
  usb_detect_sem' = IF "VBUS_DETECTED" \in pins THEN 1 ELSE usb_detect_sem
Wrong_GiveWaits(pins) == usb_detect_sem = 0 /\ usb_detect_sem' = 1
k_sem_give(pins) == usb_detect_sem' = 1

\* event_callback: both tests are made, the one for the removal last.
event_callback(pins) ==
  /\ registered
  /\ pins # {} /\ pins \subseteq latched
  /\ latched' = latched \ pins
  /\ vbus_connected' = ("VBUS_REMOVED" \notin pins)
  /\ k_sem_give(pins)
  /\ UNCHANGED <<cable, registered, mainVars, buckVars, consoleVars,
                 moves, faults>>

-----------------------------------------------------------------------------
(* The main thread: initialisation.                                        *)

\* mfd_npm1300_add_callback; main does not look at what it returns.
AddCallback ==
  /\ pc = "init" /\ pc' = "sample"
  /\ \/ registered' = TRUE /\ UNCHANGED faults
     \/ Fault /\ UNCHANGED registered
  /\ UNCHANGED <<cable, latched, vbus_connected, usb_detect_sem, val,
                 enabled, served, buckVars, consoleVars, moves>>

\* sensor_attr_get reads VBUS into val; main returns if it fails.
SampleVbus ==
  /\ pc = "sample"
  /\ \/ val' = cable /\ pc' = "store" /\ UNCHANGED faults
     \/ Fault /\ pc' = "returned" /\ UNCHANGED val
  /\ UNCHANGED <<cable, latched, registered, vbus_connected, usb_detect_sem,
                 enabled, served, buckVars, consoleVars, moves>>

\* The sampled value goes into the flag the callback also writes.
Wrong_StoreDropped ==
  /\ pc = "store" /\ pc' = "wait"
  /\ UNCHANGED <<cable, latched, registered, vbus_connected, usb_detect_sem,
                 val, enabled, served, buckVars, consoleVars, moves, faults>>

StoreVbus ==
  /\ pc = "store" /\ pc' = "wait"
  /\ vbus_connected' = val
  /\ UNCHANGED <<cable, latched, registered, usb_detect_sem, val, enabled,
                 served, buckVars, consoleVars, moves, faults>>

-----------------------------------------------------------------------------
(* The main thread: its loop.                                              *)

TakeSem ==
  /\ pc = "wait" /\ pc' = "check"
  /\ usb_detect_sem = 1 /\ usb_detect_sem' = 0
  /\ UNCHANGED <<cable, latched, registered, vbus_connected, val, enabled,
                 served, buckVars, consoleVars, moves, faults>>

\* if (vbus_connected): main does not remember which branch it took before.
Wrong_SkipIfUnchanged ==
  /\ pc = "check" /\ pc' = IF vbus_connected = enabled THEN "wait" ELSE "buck2"
  /\ enabled' = vbus_connected
  /\ UNCHANGED <<cable, latched, registered, vbus_connected, usb_detect_sem,
                 val, served, buckVars, consoleVars, moves, faults>>

CheckVbus ==
  /\ pc = "check" /\ pc' = "buck2"
  /\ enabled' = vbus_connected
  /\ UNCHANGED <<cable, latched, registered, vbus_connected, usb_detect_sem,
                 val, served, buckVars, consoleVars, moves, faults>>

\* The regulator API counts requests: BUCK2 goes on when the count becomes 1
\* and off when it becomes 0, and keeps its state at any other count.
regulator_enable  == refcnt' = refcnt + 1 /\ buck2' = (buck2 \/ refcnt' = 1)
Wrong_NoDisable   == UNCHANGED <<refcnt, buck2>>
regulator_disable == refcnt' = refcnt - 1 /\ buck2' = (buck2 /\ refcnt' # 0)

\* buck2_set_mode, first half.  An error (the PMIC is not ready, or the
\* regulator call fails) returns before the pull-down is touched.
Wrong_ErrorSkipsConsole ==
  /\ pc = "buck2"
  /\ \/ /\ IF enabled THEN regulator_enable ELSE regulator_disable
        /\ pc' = "pulldown" /\ UNCHANGED faults
     \/ Fault /\ pc' = "wait" /\ UNCHANGED <<refcnt, buck2>>
  /\ UNCHANGED <<cable, latched, registered, vbus_connected, usb_detect_sem,
                 val, enabled, served, pulldown, consoleVars, moves>>

SetBuck2 ==
  /\ pc = "buck2"
  /\ \/ /\ IF enabled THEN regulator_enable ELSE regulator_disable
        /\ pc' = "pulldown" /\ UNCHANGED faults
     \/ /\ Fault
        /\ pc' = "uart" /\ UNCHANGED <<refcnt, buck2>>
  /\ UNCHANGED <<cable, latched, registered, vbus_connected, usb_detect_sem,
                 val, enabled, served, pulldown, consoleVars, moves>>

\* buck2_set_mode, second half: the masked update of BUCKCTRL0.
Wrong_Polarity == pulldown' = enabled
mfd_npm1300_reg_update == pulldown' = ~enabled

SetPulldown ==
  /\ pc = "pulldown" /\ pc' = "uart"
  /\ \/ mfd_npm1300_reg_update /\ UNCHANGED faults
     \/ Fault /\ UNCHANGED pulldown
  /\ UNCHANGED <<cable, latched, registered, vbus_connected, usb_detect_sem,
                 val, enabled, served, refcnt, buck2, consoleVars, moves>>

\* uart_set_mode.  Suspending or resuming a device that already is in that
\* state is an error too, so the clock is stopped by the first suspend only.
pm_device_action_run ==
  uart' = enabled /\ hfclk' = (hfclk /\ ~(uart /\ ~enabled))

uart_set_mode ==
  /\ pc = "uart" /\ pc' = "wait"
  /\ served' = TRUE
  /\ \/ pm_device_action_run /\ console_err' = FALSE /\ UNCHANGED faults
     \/ Fault /\ console_err' = TRUE /\ UNCHANGED <<uart, hfclk>>
  /\ UNCHANGED <<cable, latched, registered, vbus_connected, usb_detect_sem,
                 val, enabled, buckVars, moves>>

-----------------------------------------------------------------------------
Main == \/ AddCallback \/ SampleVbus \/ StoreVbus
        \/ TakeSem \/ CheckVbus \/ SetBuck2 \/ SetPulldown \/ uart_set_mode

WorkQueue == \E pins \in SUBSET Event : event_callback(pins)

Next == MoveCable \/ WorkQueue \/ Main

Spec == Init /\ [][Next]_vars

\* Both threads are scheduled whenever they can run; nothing obliges the
\* cable to move, and nothing obliges a device call to fail.
FairSpec == Spec /\ WF_vars(WorkQueue) /\ WF_vars(Main)

-----------------------------------------------------------------------------
(* What the program relies on and promises.                                *)

\* Every variable stays in its range; the semaphore never exceeds its limit.
TypeOK ==
  /\ cable \in BOOLEAN /\ latched \subseteq Event
  /\ registered \in BOOLEAN /\ vbus_connected \in BOOLEAN
  /\ usb_detect_sem \in 0..1
  /\ pc \in {"init", "sample", "store", "returned"} \cup Loop
  /\ val \in BOOLEAN /\ enabled \in BOOLEAN /\ served \in BOOLEAN
  /\ refcnt \in Int /\ buck2 \in BOOLEAN /\ pulldown \in BOOLEAN
  /\ uart \in BOOLEAN /\ hfclk \in BOOLEAN /\ console_err \in BOOLEAN
  /\ moves \in 0..MaxMoves /\ faults \in 0..MaxFaults

\* No lost wake-up: once main has run, it never sleeps on an empty semaphore
\* with the flag differing from the branch it took last, however the callback
\* interleaves with its loop, although the semaphore counts only to one.
NoLostWakeup ==
  pc = "wait" /\ usb_detect_sem = 0 /\ served => enabled = vbus_connected

\* Whenever main sleeps, and whatever calls for BUCK2 have failed on the way or
\* for the console before, the console is active exactly when main last took the
\* "USB connected" branch, unless that pass's own call for it failed; the clock
\* has been stopped with it, also when a branch is taken twice in a row.
ConsoleFollows ==
  pc = "wait" /\ served /\ ~console_err =>
    uart = enabled /\ (~enabled => ~hfclk)

\* Once the loop is reached and every event has been delivered, the flag
\* agrees with the cable.  It needs a cable that keeps still while main
\* initialises and while an event is latched (see Calm).
FlagMatchesCable ==
  registered /\ pc \in Loop /\ latched = {} => vbus_connected = cable

\* With main at rest, BUCK2 is on exactly with a cable, also before the first
\* pass, although the position sampled at boot is not acted upon: a BUCK2 that
\* is matched to the cable at boot needs no action.  After a pass its pull-down
\* is active exactly without a cable.
PowerFollowsCable ==
  registered /\ Idle /\ faults = 0 =>
    buck2 = cable /\ (served => pulldown = ~cable)

\* After main took the "USB disconnected" branch the regulator is off, as the
\* comment "Disable regulator" in that branch says.
RegulatorDisabled ==
  Idle /\ served /\ faults = 0 /\ ~enabled => ~buck2

\* No step of a program whose calls succeed activates the pull-down of a
\* BUCK2 that is on: the regulator is switched off before.
NoPulldownOnPower ==
  [][faults' = 0 /\ ~pulldown /\ pulldown' => ~buck2]_vars

\* Neither thread gets stuck: the callback never waits for main, and main waits
\* for nothing but the semaphore, whatever calls fail.
ThreadsGoOn ==
  /\ registered /\ latched # {} => ENABLED <<WorkQueue>>_vars
  /\ pc \notin {"wait", "returned"} \/ (pc = "wait" /\ usb_detect_sem = 1)
       => ENABLED <<Main>>_vars

\* An event that reaches the registered callback makes main take the branch
\* of the flag and come to rest, as long as the cable stops moving, which it
\* does after MaxMoves.
EventServed ==
  (latched # {} /\ pc \in Loop) ~> (Idle /\ served /\ enabled = vbus_connected)

-----------------------------------------------------------------------------
(* The power switch the program is meant to be.                            *)

\* The outputs that still follow the cable's old position.
due == IF latched # {} \/ usb_detect_sem = 1 \/ pc \in {"check", "buck2"}
       THEN {"power", "console"}
       ELSE IF pc \in {"pulldown", "uart"} THEN {"console"} ELSE {}

Switch == INSTANCE PowerSwitch WITH power <- buck2, console <- uart

\* Under a calm cable and with BUCK2 matched to it at boot, the two threads,
\* the flag and the semaphore implement PowerSwitch.
ImplementsSwitch == Switch!Spec
=============================================================================
