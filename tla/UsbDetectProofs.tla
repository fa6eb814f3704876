-------------------------- MODULE UsbDetectProofs --------------------------
(***************************************************************************)
(* Proofs about UsbDetect, for every value of its constants.               *)
(***************************************************************************)
EXTENDS UsbDetect, TLAPS

LEMMA InitType == Init => TypeOK
<1> SUFFICES ASSUME Init PROVE TypeOK
  OBVIOUS
<1>1. refcnt \in Int
  BY DEF Init
<1>2. moves \in 0..MaxMoves /\ faults \in 0..MaxFaults /\ usb_detect_sem \in 0..1
  BY UsbAssumption DEF UsbAssumption, Init
<1> QED
  BY <1>1, <1>2, Zenon DEF Init, TypeOK

LEMMA NextType == TypeOK /\ [Next]_vars => TypeOK'
<1> SUFFICES ASSUME TypeOK, [Next]_vars PROVE TypeOK'
  OBVIOUS
<1> USE UsbAssumption DEF UsbAssumption, TypeOK
<1>1. CASE MoveCable
  <2>1. moves' \in 0..MaxMoves
    BY <1>1 DEF MoveCable
  <2>2. latched' \subseteq Event
    BY <1>1 DEF MoveCable, Event
  <2> QED
    BY <1>1, <2>1, <2>2, SMTT(30) DEF MoveCable, mainVars, buckVars, consoleVars
<1>2. ASSUME NEW pins \in SUBSET Event, event_callback(pins) PROVE TypeOK'
  BY <1>2 DEF event_callback, k_sem_give, mainVars, buckVars, consoleVars
<1>3. CASE AddCallback
  <2>1. faults' \in 0..MaxFaults
    BY <1>3 DEF AddCallback, Fault
  <2>2. registered' \in BOOLEAN
    BY <1>3 DEF AddCallback
  <2> QED
    BY <1>3, <2>1, <2>2, Zenon DEF AddCallback, buckVars, consoleVars
<1>4. CASE SampleVbus
  BY <1>4 DEF SampleVbus, Fault, buckVars, consoleVars
<1>5. CASE StoreVbus
  BY <1>5 DEF StoreVbus, Loop, buckVars, consoleVars
<1>6. CASE TakeSem
  BY <1>6 DEF TakeSem, Loop, buckVars, consoleVars
<1>7. CASE CheckVbus
  BY <1>7 DEF CheckVbus, Loop, buckVars, consoleVars
<1>8. CASE SetBuck2
  <2>1. refcnt' \in Int /\ buck2' \in BOOLEAN
    BY <1>8 DEF SetBuck2, regulator_enable, regulator_disable
  <2> QED
    BY <1>8, <2>1 DEF SetBuck2, Fault, Loop, consoleVars
<1>9. CASE SetPulldown
  <2>1. faults' \in 0..MaxFaults
    BY <1>9 DEF SetPulldown, Fault
  <2>2. pulldown' \in BOOLEAN
    BY <1>9, Zenon DEF SetPulldown, mfd_npm1300_reg_update
  <2> QED
    BY <1>9, <2>1, <2>2, Zenon DEF SetPulldown, Loop, consoleVars
<1>10. CASE uart_set_mode
  <2>1. uart' \in BOOLEAN /\ hfclk' \in BOOLEAN /\ console_err' \in BOOLEAN
    BY <1>10, Zenon DEF uart_set_mode, pm_device_action_run
  <2>2. faults' \in 0..MaxFaults
    BY <1>10 DEF uart_set_mode, Fault
  <2> QED
    BY <1>10, <2>1, <2>2 DEF uart_set_mode, Loop, buckVars
<1>11. CASE UNCHANGED vars
  BY <1>11 DEF vars, mainVars, buckVars, consoleVars
<1> QED
  BY <1>1, <1>2, <1>3, <1>4, <1>5, <1>6, <1>7, <1>8, <1>9, <1>10, <1>11
     DEF Next, WorkQueue, Main

\* Type correctness: in particular the semaphore never exceeds its limit and
\* main is always at one of its program points.
THEOREM TypeCorrect == Spec => []TypeOK
BY InitType, NextType, PTL DEF Spec

-----------------------------------------------------------------------------
(* No lost wake-up.  NoLostWakeup speaks of the moments at which main       *)
(* sleeps; its strengthening says what holds while main acts on the branch  *)
(* it chose: if the callback changed the flag since, the semaphore tells.   *)

WakeInv ==
  /\ TypeOK
  /\ pc \in {"init", "sample", "store"} => ~served
  /\ pc \in {"buck2", "pulldown", "uart"} /\ usb_detect_sem = 0 =>
       enabled = vbus_connected
  /\ NoLostWakeup

\* Main never sleeps while the flag differs from the branch it took last,
\* wherever the callback preempts it (usb_detect main.c:140-155, 231-254).
THEOREM WakeupNeverLost == Spec => []NoLostWakeup
<1>1. Init => WakeInv
  BY InitType DEF Init, WakeInv, NoLostWakeup
<1>2. WakeInv /\ [Next]_vars => WakeInv'
  <2> SUFFICES ASSUME WakeInv, [Next]_vars PROVE WakeInv'
    OBVIOUS
  <2>0. TypeOK'
    BY NextType DEF WakeInv
  <2> USE <2>0 DEF WakeInv, NoLostWakeup, TypeOK
  <2>1. CASE MoveCable
    BY <2>1 DEF MoveCable, mainVars
  <2>2. ASSUME NEW pins \in SUBSET Event, event_callback(pins) PROVE WakeInv'
    BY <2>2 DEF event_callback, k_sem_give, mainVars
  <2>3. CASE AddCallback \/ SampleVbus
    BY <2>3 DEF AddCallback, SampleVbus
  <2>4. CASE StoreVbus
    BY <2>4 DEF StoreVbus
  <2>5. CASE TakeSem
    BY <2>5 DEF TakeSem
  <2>6. CASE CheckVbus
    BY <2>6 DEF CheckVbus
  <2>7. CASE SetBuck2 \/ SetPulldown
    BY <2>7 DEF SetBuck2, SetPulldown
  <2>8. CASE uart_set_mode
    BY <2>8 DEF uart_set_mode
  <2>9. CASE UNCHANGED vars
    BY <2>9 DEF vars, mainVars
  <2> QED
    BY <2>1, <2>2, <2>3, <2>4, <2>5, <2>6, <2>7, <2>8, <2>9
       DEF Next, WorkQueue, Main
<1>3. WakeInv => NoLostWakeup
  BY DEF WakeInv
<1> QED
  BY <1>1, <1>2, <1>3, PTL DEF Spec

-----------------------------------------------------------------------------
(* The console.  The clock part has to hold at every program point: a       *)
(* suspended console never has a running clock, because the only step that  *)
(* suspends it stops the clock.                                             *)

ConsoleInv ==
  /\ TypeOK
  /\ ~uart => ~hfclk
  /\ pc = "wait" /\ served /\ ~console_err => uart = enabled
  /\ pc \in {"init", "sample", "store"} => ~served

\* The console and its clock are as the branch taken last demands whenever main
\* sleeps (main.c:54-87), whatever number of events one pass of the loop answered
\* and whatever calls failed, but for that pass's own call for the console.
THEOREM ConsoleFollowsBranch == Spec => []ConsoleFollows
<1>1. Init => ConsoleInv
  BY InitType DEF Init, ConsoleInv
<1>2. ConsoleInv /\ [Next]_vars => ConsoleInv'
  <2> SUFFICES ASSUME ConsoleInv, [Next]_vars PROVE ConsoleInv'
    OBVIOUS
  <2>0. TypeOK'
    BY NextType DEF ConsoleInv
  <2> USE <2>0 DEF ConsoleInv, TypeOK
  <2>1. CASE MoveCable
    BY <2>1 DEF MoveCable, mainVars, consoleVars
  <2>2. ASSUME NEW pins \in SUBSET Event, event_callback(pins) PROVE ConsoleInv'
    BY <2>2 DEF event_callback, mainVars, consoleVars
  <2>3. CASE AddCallback \/ SampleVbus \/ SetBuck2 \/ SetPulldown
    BY <2>3 DEF AddCallback, SampleVbus, SetBuck2, SetPulldown, Fault, consoleVars
  <2>4. CASE StoreVbus \/ TakeSem \/ CheckVbus
    BY <2>4 DEF StoreVbus, TakeSem, CheckVbus, consoleVars
  <2>5. CASE uart_set_mode
    <3>1. CASE pm_device_action_run
      <4>1. (~uart' => ~hfclk') /\ uart' = enabled
        BY <3>1, Zenon DEF pm_device_action_run
      <4> QED
        BY <2>5, <4>1 DEF uart_set_mode
    <3>2. CASE console_err' = TRUE /\ UNCHANGED <<uart, hfclk>>
      BY <2>5, <3>2 DEF uart_set_mode
    <3> QED
      BY <2>5, <3>1, <3>2 DEF uart_set_mode
  <2>6. CASE UNCHANGED vars
    BY <2>6 DEF vars, mainVars, consoleVars
  <2> QED
    BY <2>1, <2>2, <2>3, <2>4, <2>5, <2>6 DEF Next, WorkQueue, Main
<1>3. ConsoleInv => ConsoleFollows
  BY DEF ConsoleInv, ConsoleFollows
<1> QED
  BY <1>1, <1>2, <1>3, PTL DEF Spec

-----------------------------------------------------------------------------
(* The flag and the cable.  While main initialises nothing is latched; from *)
(* then on at most one event is, the one that belongs to the position of    *)
(* the cable, so the order in which event_callback tests the bits does not  *)
(* matter.                                                                  *)

EventOf(position) == IF position THEN "VBUS_DETECTED" ELSE "VBUS_REMOVED"

FlagInv ==
  /\ TypeOK
  /\ pc \notin Loop \/ ~registered => latched = {}
  /\ pc = "store" => val = cable
  /\ registered /\ pc \in Loop =>
       \/ latched = {} /\ vbus_connected = cable
       \/ latched = {EventOf(cable)}

LEMMA InitFlag == Init => FlagInv
BY InitType DEF Init, FlagInv, Loop

LEMMA NextFlag ==
  ASSUME {"boot", "event"} \subseteq Calm
  PROVE  FlagInv /\ [Next]_vars => FlagInv'
<1> SUFFICES ASSUME FlagInv, [Next]_vars PROVE FlagInv'
  OBVIOUS
<1>0. TypeOK'
  BY NextType DEF FlagInv
<1> USE <1>0 DEF FlagInv, TypeOK
<1>1. CASE MoveCable
  <2>1. pc \in Loop /\ latched = {} /\ UNCHANGED <<pc, registered, vbus_connected>>
    BY <1>1 DEF MoveCable, MayMove, mainVars
  <2>2. registered => latched' = {EventOf(cable')}
    BY <1>1, <2>1 DEF MoveCable, EventOf
  <2>3. ~registered => latched' = {}
    BY <1>1, <2>1 DEF MoveCable
  <2> QED
    BY <2>1, <2>2, <2>3 DEF Loop
<1>2. ASSUME NEW pins \in SUBSET Event, event_callback(pins) PROVE FlagInv'
  <2>1. registered /\ UNCHANGED <<cable, registered, pc, val>>
    BY <1>2 DEF event_callback, mainVars
  <2>2. pc \in Loop /\ latched = {EventOf(cable)}
    BY <1>2, <2>1 DEF event_callback
  <2>3. pins = {EventOf(cable)}
    BY <1>2, <2>2 DEF event_callback
  <2>4. latched' = {} /\ vbus_connected' = cable
    BY <1>2, <2>2, <2>3 DEF event_callback, EventOf
  <2> QED
    BY <2>1, <2>2, <2>4 DEF Loop
<1>3. CASE AddCallback
  BY <1>3 DEF AddCallback, Loop
<1>4. CASE SampleVbus
  BY <1>4 DEF SampleVbus, Loop
<1>5. CASE StoreVbus
  BY <1>5 DEF StoreVbus, Loop
<1>6. CASE TakeSem \/ CheckVbus
  BY <1>6 DEF TakeSem, CheckVbus, Loop
<1>7. CASE SetBuck2 \/ SetPulldown \/ uart_set_mode
  BY <1>7 DEF SetBuck2, SetPulldown, uart_set_mode, Loop
<1>8. CASE UNCHANGED vars
  BY <1>8 DEF vars, mainVars, Loop
<1> QED
  BY <1>1, <1>2, <1>3, <1>4, <1>5, <1>6, <1>7, <1>8 DEF Next, WorkQueue, Main

\* With a cable that is still while main initialises and while an event is
\* latched, the flag that main acts on tells where the cable is once every
\* event has been delivered (main.c:140-155, 218-229).
THEOREM FlagAgreesWithCable ==
  ASSUME {"boot", "event"} \subseteq Calm
  PROVE  Spec => []FlagMatchesCable
<1>1. FlagInv /\ [Next]_vars => FlagInv'
  BY NextFlag
<1>2. FlagInv => FlagMatchesCable
  BY DEF FlagInv, FlagMatchesCable
<1> QED
  BY InitFlag, <1>1, <1>2, PTL DEF Spec

-----------------------------------------------------------------------------
(* The power switch.  With a cable that moves only while main is idle and a *)
(* BUCK2 that matches it at boot, each event is answered by exactly one     *)
(* pass of the loop, which flips BUCK2 once; that keeps the reference count *)
(* of the regulator API at 0 or 1, without which no disable would be final. *)

\* Where main and the event are between a move of the cable and the end of
\* the pass that answers it.
Phase ==
  \/ /\ pc \notin Loop /\ usb_detect_sem = 0 /\ ~served /\ latched = {}
     /\ buck2 = cable
  \/ /\ pc = "wait" /\ usb_detect_sem = 0 /\ latched # {}
     /\ buck2 = ~cable
  \/ /\ pc = "wait" /\ usb_detect_sem = 1 /\ latched = {}
     /\ buck2 = ~cable
  \/ /\ pc = "wait" /\ usb_detect_sem = 0 /\ latched = {}
     /\ buck2 = cable /\ (served => pulldown = ~cable)
  \/ /\ pc = "check" /\ usb_detect_sem = 0 /\ latched = {}
     /\ buck2 = ~cable
  \/ /\ pc = "buck2" /\ usb_detect_sem = 0 /\ latched = {}
     /\ buck2 = ~cable /\ enabled = cable
  \/ /\ pc = "pulldown" /\ usb_detect_sem = 0 /\ latched = {}
     /\ buck2 = cable /\ enabled = cable
  \/ /\ pc = "uart" /\ usb_detect_sem = 0 /\ latched = {}
     /\ buck2 = cable /\ enabled = cable /\ pulldown = ~cable

SwitchInv ==
  /\ FlagInv
  /\ faults = 0 =>
       /\ pc # "init" => registered
       /\ refcnt = IF buck2 THEN 1 ELSE 0
       /\ Phase

\* The environment of the power switch.
CalmCable == Calm = {"boot", "event", "loop"} /\ Matched

LEMMA InitSwitch == CalmCable /\ Init => SwitchInv
BY InitFlag DEF CalmCable, Init, SwitchInv, Phase, Loop

LEMMA NextSwitch ==
  ASSUME CalmCable
  PROVE  SwitchInv /\ [Next]_vars => SwitchInv'
<1> SUFFICES ASSUME SwitchInv, [Next]_vars, faults' = 0
             PROVE  /\ pc' # "init" => registered'
                    /\ refcnt' = IF buck2' THEN 1 ELSE 0
                    /\ Phase'
  BY NextFlag DEF CalmCable, SwitchInv
<1>0. /\ TypeOK /\ FlagInv /\ FlagInv' /\ TypeOK'
  BY NextFlag DEF CalmCable, SwitchInv, FlagInv
<1>f. ASSUME faults = 0
      PROVE  /\ pc # "init" => registered
             /\ refcnt = IF buck2 THEN 1 ELSE 0
             /\ Phase
  BY <1>f DEF SwitchInv
<1>1. CASE MoveCable
  <2>1. faults = 0 /\ Idle /\ UNCHANGED <<registered, usb_detect_sem, pc, buck2, refcnt>>
    BY <1>1 DEF MoveCable, MayMove, CalmCable, mainVars, buckVars
  <2>2. registered /\ buck2 = cable
    BY <1>f, <2>1 DEF Phase, Idle, Loop
  <2>3. latched' # {} /\ buck2' = ~cable'
    BY <1>1, <1>0, <2>1, <2>2 DEF MoveCable, TypeOK
  <2> QED
    BY <1>f, <2>1, <2>2, <2>3 DEF Phase, Idle
<1>2. ASSUME NEW pins \in SUBSET Event, event_callback(pins)
      PROVE  /\ pc' # "init" => registered'
             /\ refcnt' = IF buck2' THEN 1 ELSE 0
             /\ Phase'
  <2>1. /\ faults = 0 /\ registered /\ latched # {} /\ usb_detect_sem' = 1
        /\ UNCHANGED <<cable, registered, pc, buck2, refcnt>>
    BY <1>2 DEF event_callback, k_sem_give, mainVars, buckVars
  <2>2. pc = "wait" /\ buck2 = ~cable
    BY <1>f, <2>1 DEF Phase
  <2>3. latched' = {}
    <3>1. latched = {EventOf(cable)}
      BY <1>0, <2>1, <2>2 DEF FlagInv, Loop
    <3> QED
      BY <3>1, <1>2 DEF event_callback
  <2> QED
    BY <1>f, <2>1, <2>2, <2>3 DEF Phase
<1>3. CASE AddCallback
  <2>1. faults = 0 /\ registered'
    BY <1>3, <1>0 DEF AddCallback, Fault, TypeOK
  <2> QED
    BY <1>3, <1>f, <2>1 DEF AddCallback, Phase, Loop, buckVars
<1>4. CASE SampleVbus \/ StoreVbus
  <2>1. faults = 0
    BY <1>4, <1>0 DEF SampleVbus, StoreVbus, Fault, TypeOK
  <2> QED
    BY <1>4, <1>f, <2>1 DEF SampleVbus, StoreVbus, Phase, Loop, buckVars
<1>5. CASE TakeSem
  BY <1>5, <1>f DEF TakeSem, Phase, Loop, buckVars
<1>6. CASE CheckVbus
  <2>1. faults = 0 /\ registered /\ latched = {} /\ pc = "check"
    BY <1>6, <1>f DEF CheckVbus, Phase, Loop
  <2>2. vbus_connected = cable
    BY <1>0, <2>1 DEF FlagInv, Loop
  <2> QED
    BY <1>6, <1>f, <2>1, <2>2 DEF CheckVbus, Phase, Loop, buckVars
<1>7. CASE SetBuck2
  <2>1. faults = 0 /\ pc = "buck2" /\ pc' = "pulldown"
    BY <1>7, <1>0 DEF SetBuck2, Fault, TypeOK
  <2>2. IF enabled THEN regulator_enable ELSE regulator_disable
    BY <1>7, <1>0, <2>1 DEF SetBuck2, Fault, TypeOK
  <2>3. buck2 = ~cable /\ enabled = cable /\ usb_detect_sem = 0 /\ latched = {}
    BY <1>f, <2>1 DEF Phase, Loop
  <2>4. buck2' = enabled /\ refcnt' = IF buck2' THEN 1 ELSE 0
    <3>1. CASE enabled
      <4>1. ~buck2 /\ refcnt = 0
        BY <1>0, <1>f, <2>1, <2>3, <3>1 DEF TypeOK
      <4>2. refcnt' = 1 /\ buck2' = (buck2 \/ refcnt' = 1)
        BY <2>2, <3>1, <4>1 DEF regulator_enable
      <4> QED
        BY <1>0, <3>1, <4>1, <4>2 DEF TypeOK
    <3>2. CASE ~enabled
      <4>1. buck2 /\ refcnt = 1
        BY <1>0, <1>f, <2>1, <2>3, <3>2 DEF TypeOK
      <4>2. refcnt' = 0 /\ buck2' = (buck2 /\ refcnt' # 0)
        BY <2>2, <3>2, <4>1 DEF regulator_disable
      <4>3. buck2' = FALSE
        BY <4>2
      <4> QED
        BY <1>0, <3>2, <4>2, <4>3 DEF TypeOK
    <3> QED
      BY <3>1, <3>2
  <2> QED
    BY <1>7, <1>f, <2>1, <2>3, <2>4 DEF SetBuck2, Phase
<1>8. CASE SetPulldown
  <2>1. faults = 0 /\ pulldown' = ~enabled
    BY <1>8, <1>0 DEF SetPulldown, mfd_npm1300_reg_update, Fault, TypeOK
  <2> QED
    BY <1>8, <1>f, <2>1 DEF SetPulldown, Phase, Loop
<1>9. CASE uart_set_mode
  <2>1. faults = 0
    BY <1>9, <1>0 DEF uart_set_mode, Fault, TypeOK
  <2> QED
    BY <1>9, <1>f, <2>1 DEF uart_set_mode, Phase, Loop, buckVars
<1>10. CASE UNCHANGED vars
  BY <1>10, <1>f DEF vars, mainVars, buckVars, Phase
<1> QED
  BY <1>1, <1>2, <1>3, <1>4, <1>5, <1>6, <1>7, <1>8, <1>9, <1>10
     DEF Next, WorkQueue, Main

\* Main at rest means BUCK2 as the cable says and its pull-down the opposite.
THEOREM PowerAgreesWithCable ==
  ASSUME CalmCable
  PROVE  Spec => []PowerFollowsCable
<1>1. Init => SwitchInv
  BY InitSwitch
<1>2. SwitchInv /\ [Next]_vars => SwitchInv'
  BY NextSwitch
<1>3. SwitchInv => PowerFollowsCable
  BY DEF SwitchInv, Phase, PowerFollowsCable, Idle, Loop
<1> QED
  BY <1>1, <1>2, <1>3, PTL DEF Spec

\* The pull-down is never activated on a BUCK2 that is on (main.c:119-133).
THEOREM PulldownAfterPower ==
  ASSUME CalmCable
  PROVE  Spec => NoPulldownOnPower
<1>1. SwitchInv /\ [Next]_vars => (faults' = 0 /\ ~pulldown /\ pulldown' => ~buck2)
  <2> SUFFICES ASSUME SwitchInv, [Next]_vars, faults' = 0, ~pulldown, pulldown'
               PROVE  ~buck2
    OBVIOUS
  <2>1. SetPulldown
    <3>1. ~UNCHANGED pulldown
      OBVIOUS
    <3> QED
      BY <3>1 DEF Next, WorkQueue, Main, MoveCable, event_callback, AddCallback,
         SampleVbus, StoreVbus, TakeSem, CheckVbus, SetBuck2, uart_set_mode,
         vars, buckVars
  <2>2. pulldown' = ~enabled
    BY <2>1 DEF SetPulldown, mfd_npm1300_reg_update
  <2>3. pc = "pulldown" /\ faults = 0
    BY <2>1 DEF SetPulldown, Fault, SwitchInv, FlagInv, TypeOK
  <2>4. buck2 = enabled
    BY <2>3 DEF SwitchInv, Phase, Loop
  <2> QED
    BY <2>2, <2>4, Zenon
<1>2. Init => SwitchInv
  BY InitSwitch
<1>3. SwitchInv /\ [Next]_vars => SwitchInv'
  BY NextSwitch
<1> QED
  BY <1>1, <1>2, <1>3, PTL DEF Spec, NoPulldownOnPower

-----------------------------------------------------------------------------
(* The program implements PowerSwitch: first the steps of the switch, then  *)
(* that both outputs follow in the end.                                     *)

Reliable == CalmCable /\ MaxFaults = 0

LEMMA NoFaults == ASSUME Reliable, TypeOK PROVE faults = 0
BY DEF Reliable, TypeOK

LEMMA SwitchInit == ASSUME Reliable, Init PROVE Switch!Init
BY DEF Reliable, CalmCable, Init, Switch!Init, due

LEMMA SwitchStep ==
  ASSUME Reliable, SwitchInv, SwitchInv', [Next]_vars
  PROVE  [Switch!Next]_(Switch!vars)
<1>0. TypeOK /\ TypeOK' /\ Phase /\ Phase' /\ FlagInv /\ faults = 0 /\ faults' = 0
  BY NoFaults DEF SwitchInv, FlagInv, Reliable, TypeOK
<1> USE DEF Switch!vars
<1>1. CASE MoveCable
  <2>1. Idle /\ cable' = ~cable /\ UNCHANGED <<pc, usb_detect_sem, buck2, uart>>
    BY <1>1 DEF MoveCable, MayMove, Reliable, CalmCable, mainVars, buckVars, consoleVars
  <2>2. latched' # {}
    <3>1. registered
      BY <2>1, <1>0 DEF SwitchInv, Idle
    <3> QED
      BY <3>1, <1>1 DEF MoveCable
  <2>3. due = {} /\ due' = {"power", "console"}
    BY <2>1, <2>2 DEF due, Idle
  <2> QED
    BY <2>1, <2>3 DEF Switch!Move, Switch!Next
<1>2. ASSUME NEW pins \in SUBSET Event, event_callback(pins)
      PROVE  UNCHANGED Switch!vars
  BY <1>2 DEF event_callback, k_sem_give, due, mainVars, buckVars, consoleVars
<1>3. CASE AddCallback \/ SampleVbus \/ StoreVbus
  BY <1>3, <1>0 DEF AddCallback, SampleVbus, StoreVbus, Phase, Loop, due, buckVars, consoleVars
<1>4. CASE TakeSem \/ CheckVbus
  BY <1>4 DEF TakeSem, CheckVbus, due, buckVars, consoleVars
<1>5. CASE SetBuck2
  <2>1. pc = "buck2" /\ pc' = "pulldown" /\ UNCHANGED <<cable, uart>>
    BY <1>5, <1>0 DEF SetBuck2, Fault, consoleVars
  <2>2. buck2' = cable
    BY <1>0, <2>1 DEF Phase, Loop
  <2>3. due = {"power", "console"} /\ due' = {"console"}
    BY <1>0, <2>1 DEF due, Phase, Loop
  <2> QED
    BY <2>1, <2>2, <2>3 DEF Switch!SwitchPower, Switch!Follow, Switch!Next
<1>6. CASE SetPulldown
  BY <1>6, <1>0 DEF SetPulldown, due, Phase, Loop, consoleVars
<1>7. CASE uart_set_mode
  <2>1. pc = "uart" /\ pc' = "wait" /\ UNCHANGED <<cable, buck2, enabled, latched, usb_detect_sem>>
    BY <1>7 DEF uart_set_mode, buckVars
  <2>2. usb_detect_sem = 0 /\ latched = {} /\ enabled = cable
    BY <1>0, <2>1 DEF Phase, Loop
  <2>3. pm_device_action_run
    BY <1>7, <1>0 DEF uart_set_mode, Fault
  <2>4. uart' = cable
    BY <2>2, <2>3 DEF pm_device_action_run
  <2>5. due = {"console"} /\ due' = {}
    BY <2>1, <2>2 DEF due
  <2> QED
    BY <2>1, <2>4, <2>5 DEF Switch!SwitchConsole, Switch!Follow, Switch!Next
<1>8. CASE UNCHANGED vars
  BY <1>8 DEF vars, due, mainVars, buckVars, consoleVars
<1> QED
  BY <1>1, <1>2, <1>3, <1>4, <1>5, <1>6, <1>7, <1>8 DEF Next, WorkQueue, Main

\* Threads, flag and semaphore together are a power switch: each move of the
\* cable is followed by the power and then by the console, and nothing else
\* ever switches either (main.c:89-155, 231-254).
THEOREM SwitchImplemented ==
  ASSUME Reliable
  PROVE  Spec => Switch!SafeSpec
<1>1. Init => SwitchInv /\ Switch!Init
  BY InitSwitch, SwitchInit DEF Reliable
<1>2. SwitchInv /\ [Next]_vars => SwitchInv'
  BY NextSwitch DEF Reliable
<1>3. SwitchInv /\ SwitchInv' /\ [Next]_vars => [Switch!Next]_(Switch!vars)
  BY SwitchStep
<1> QED
  BY <1>1, <1>2, <1>3, PTL DEF Spec, Switch!SafeSpec

\* How far the pass is that answers the last move of the cable: 6 while its
\* event is latched, 0 when both outputs have followed.
Stage ==
  CASE latched # {}       -> 6 [] latched = {} /\ usb_detect_sem = 1 -> 5
    [] latched = {} /\ usb_detect_sem # 1 ->
         CASE pc = "check" -> 4 [] pc = "buck2" -> 3 [] pc = "pulldown" -> 2
           [] pc = "uart"  -> 1 [] OTHER -> 0

\* The context that moves on at each stage.
Turn ==
  \/ Stage = 6 /\ WorkQueue
  \/ Stage \in 1..5 /\ Main

LEMMA PassGoesOn ==
  ASSUME Reliable, SwitchInv, SwitchInv', Stage # 0
  PROVE  /\ [Next]_vars => UNCHANGED Stage \/ Turn
         /\ Turn => Stage' = Stage - 1
<1>0. /\ TypeOK /\ TypeOK' /\ Phase /\ Phase' /\ FlagInv /\ faults = 0 /\ faults' = 0
  BY NoFaults DEF SwitchInv, FlagInv, Reliable, TypeOK
<1>1. Stage \in 1..6
  BY DEF Stage
<1>2. ASSUME MoveCable PROVE FALSE
  BY <1>2 DEF MoveCable, MayMove, Reliable, CalmCable, Idle, Stage
<1>3. ASSUME WorkQueue PROVE Stage = 6 /\ Stage' = 5
  <2>1. PICK pins \in SUBSET Event : event_callback(pins)
    BY <1>3 DEF WorkQueue
  <2>2. latched # {} /\ usb_detect_sem' = 1
    BY <2>1 DEF event_callback, k_sem_give
  <2>3. latched' = {}
    BY <1>0, <2>2 DEF Phase
  <2> QED
    BY <2>2, <2>3 DEF Stage
<1>4. ASSUME Main PROVE Stage # 6 /\ Stage' = Stage - 1
  <2>1. latched = {}
    BY <1>0, <1>4 DEF Main, AddCallback, SampleVbus, StoreVbus, TakeSem, CheckVbus,
       SetBuck2, SetPulldown, uart_set_mode, Phase, Loop
  <2>2. ~(AddCallback \/ SampleVbus \/ StoreVbus)
    BY <1>0, <2>1 DEF AddCallback, SampleVbus, StoreVbus, Phase, Loop, Stage
  <2>3. CASE TakeSem
    BY <1>0, <2>1, <2>3 DEF TakeSem, Stage
  <2>4. CASE CheckVbus \/ SetBuck2 \/ SetPulldown \/ uart_set_mode
    BY <1>0, <2>1, <2>4 DEF CheckVbus, SetBuck2, SetPulldown, uart_set_mode, Fault,
       Phase, Loop, Stage
  <2> QED
    BY <1>4, <2>1, <2>2, <2>3, <2>4 DEF Main, Stage
<1>5. ASSUME UNCHANGED vars PROVE UNCHANGED Stage
  BY <1>5 DEF vars, mainVars, Stage
<1> QED
  BY <1>1, <1>2, <1>3, <1>4, <1>5 DEF Next, Turn

\* From a stage the context whose turn it is leads to the one below.
Passes(n, m, A) ==
  /\ SwitchInv /\ SwitchInv' /\ Stage = n /\ [Next]_vars => (Stage = n)' \/ (Stage = m)'
  /\ SwitchInv /\ SwitchInv' /\ Stage = n /\ <<A>>_vars => (Stage = m)'
  /\ SwitchInv /\ ThreadsGoOn /\ Stage = n => ENABLED <<A>>_vars

LEMMA EachStagePasses ==
  ASSUME Reliable
  PROVE  /\ Passes(6, 5, WorkQueue) /\ Passes(5, 4, Main) /\ Passes(4, 3, Main)
         /\ Passes(3, 2, Main) /\ Passes(2, 1, Main) /\ Passes(1, 0, Main)
<1>1. ASSUME NEW n \in 1..6, SwitchInv, SwitchInv', Stage = n, [Next]_vars
      PROVE  Stage' \in {n, n - 1}
  BY <1>1, PassGoesOn
<1>2. ASSUME NEW n \in 1..6, SwitchInv, SwitchInv', Stage = n, Turn
      PROVE  Stage' = n - 1
  BY <1>2, PassGoesOn
<1>3. ASSUME NEW n \in 1..6, SwitchInv, ThreadsGoOn, Stage = n
      PROVE  /\ n = 6 => ENABLED <<WorkQueue>>_vars
             /\ n # 6 => ENABLED <<Main>>_vars
  <2>1. registered \/ latched = {}
    BY <1>3, NoFaults DEF SwitchInv, FlagInv, Reliable, Phase, Loop
  <2>2. n = 6 => latched # {}
    BY <1>3 DEF Stage
  <2>3. n # 6 => pc \notin {"wait", "returned"} \/ (pc = "wait" /\ usb_detect_sem = 1)
    BY <1>3, NoFaults DEF Stage, SwitchInv, FlagInv, Reliable, Phase, Loop
  <2> QED
    BY <1>3, <2>1, <2>2, <2>3 DEF ThreadsGoOn
<1>4. Passes(6, 5, WorkQueue)
  BY <1>1, <1>2, <1>3 DEF Passes, Turn
<1>5. ASSUME NEW n \in 1..5, NEW m \in 0..4, n = m + 1 PROVE Passes(n, m, Main)
  BY <1>1, <1>2, <1>3, <1>5 DEF Passes, Turn
<1> QED
  BY <1>4, <1>5

\* The whole refinement: each move of a calm cable is also followed in the end,
\* provided that neither thread gets stuck.
THEOREM SwitchFollows ==
  ASSUME Reliable
  PROVE  FairSpec /\ []ThreadsGoOn => ImplementsSwitch
<1>1. Init => SwitchInv
  BY InitSwitch DEF Reliable
<1>2. SwitchInv /\ [Next]_vars => SwitchInv'
  BY NextSwitch DEF Reliable
<1>3. Spec => []SwitchInv
  BY <1>1, <1>2, PTL DEF Spec
<1>4. due # {} => \/ Stage = 6 \/ Stage = 5 \/ Stage = 4
                  \/ Stage = 3 \/ Stage = 2 \/ Stage = 1
  BY DEF due, Stage
<1>5. Stage = 0 => due = {}
  BY DEF due, Stage
<1>6. FairSpec /\ []ThreadsGoOn => Switch!Follows
  <2>1. /\ Passes(6, 5, WorkQueue) /\ Passes(5, 4, Main) /\ Passes(4, 3, Main)
        /\ Passes(3, 2, Main) /\ Passes(2, 1, Main) /\ Passes(1, 0, Main)
    BY EachStagePasses
  <2> QED
    BY <1>3, <1>4, <1>5, <2>1, PTL DEF Passes, FairSpec, Spec, Switch!Follows
<1> QED
  BY <1>6, SwitchImplemented, PTL DEF FairSpec, ImplementsSwitch, Switch!Spec

\* The comment "Disable regulator" holds under a calm cable: after the branch
\* for the removal, and a pass without a failing call, BUCK2 is off
\* (main.c:242-247).
THEOREM RegulatorReleased ==
  ASSUME CalmCable
  PROVE  Spec => []RegulatorDisabled
<1>1. SwitchInv /\ NoLostWakeup => RegulatorDisabled
  BY DEF SwitchInv, FlagInv, Phase, NoLostWakeup, RegulatorDisabled, Idle, Loop
<1>2. Init => SwitchInv
  BY InitSwitch
<1>3. SwitchInv /\ [Next]_vars => SwitchInv'
  BY NextSwitch
<1> QED
  BY <1>1, <1>2, <1>3, WakeupNeverLost, PTL DEF Spec

-----------------------------------------------------------------------------
(* An event is served.  From the moment it is latched there is work left    *)
(* until main rests after a pass; once the cable keeps still, the work      *)
(* queue delivers the events one by one and main works off the rest.        *)

EventInv == TypeOK /\ NoLostWakeup /\ (latched # {} => registered)

LEMMA EventsAreRegistered == Spec => []EventInv
<1>1. Init => (latched # {} => registered)
  BY DEF Init
<1>2. TypeOK /\ (latched # {} => registered) /\ [Next]_vars
        => (latched # {} => registered)'
  <2> SUFFICES ASSUME TypeOK, latched # {} => registered, [Next]_vars
               PROVE  (latched # {} => registered)'
    OBVIOUS
  <2>1. CASE MoveCable
    BY <2>1 DEF MoveCable
  <2>2. ASSUME NEW pins \in SUBSET Event, event_callback(pins)
        PROVE  (latched # {} => registered)'
    BY <2>2 DEF event_callback
  <2>3. CASE AddCallback
    BY <2>3 DEF AddCallback, TypeOK
  <2>4. CASE UNCHANGED <<latched, registered>>
    BY <2>4
  <2> QED
    BY <2>1, <2>2, <2>3, <2>4 DEF Next, WorkQueue, Main, SampleVbus, StoreVbus, TakeSem,
       CheckVbus, SetBuck2, SetPulldown, uart_set_mode, vars
<1> QED
  BY <1>1, <1>2, TypeCorrect, WakeupNeverLost, PTL DEF Spec, EventInv

\* An event has come that main has not rested on, or main rests after a pass.
Begun ==
  /\ registered /\ pc \in Loop
  /\ latched # {} \/ usb_detect_sem = 1 \/ pc # "wait" \/ served

\* How many events the PMIC still holds, and how many steps main is from rest.
Undelivered == IF latched = {} THEN 0 ELSE IF latched = Event THEN 2 ELSE 1

Distance ==
  (CASE pc = "check" -> 4 [] pc = "buck2" -> 3 [] pc = "pulldown" -> 2
     [] pc = "uart" -> 1 [] OTHER -> 0)
  + (IF usb_detect_sem = 1 THEN 5 ELSE 0)

Left(n) == Begun /\ Undelivered <= n
Near(n) == Left(0) /\ Distance <= n

\* What one step does to the work that is left.
LEMMA WorkQueueDelivers ==
  ASSUME EventInv, Begun, WorkQueue
  PROVE  Begun' /\ Undelivered' < Undelivered
<1> PICK pins \in SUBSET Event : event_callback(pins)
  BY DEF WorkQueue
<1>1. Begun'
  BY DEF event_callback, k_sem_give, mainVars, Begun
<1>2. latched # {} /\ latched' # latched /\ latched' \subseteq latched
  BY DEF event_callback
<1>3. latched # Event => \E e \in Event : latched = {e}
  BY <1>2 DEF EventInv, TypeOK, Event
<1>4. latched' # Event
  BY <1>2 DEF EventInv, TypeOK
<1>5. latched # Event => latched' = {}
  BY <1>2, <1>3
<1> QED
  BY <1>1, <1>2, <1>4, <1>5 DEF Undelivered

LEMMA MainComesCloser ==
  ASSUME EventInv, EventInv', Begun, Main
  PROVE  Begun' /\ latched' = latched /\ Distance' < Distance
<1> USE DEF EventInv, TypeOK, Begun, Distance, Loop
<1>1. CASE AddCallback \/ SampleVbus \/ StoreVbus
  BY <1>1 DEF AddCallback, SampleVbus, StoreVbus
<1>2. CASE TakeSem
  BY <1>2 DEF TakeSem
<1>3. CASE CheckVbus
  BY <1>3 DEF CheckVbus
<1>4. CASE SetBuck2
  BY <1>4 DEF SetBuck2
<1>5. CASE SetPulldown
  BY <1>5 DEF SetPulldown
<1>6. CASE uart_set_mode
  BY <1>6 DEF uart_set_mode
<1> QED
  BY <1>1, <1>2, <1>3, <1>4, <1>5, <1>6 DEF Main

\* Whatever happens, the work that has begun is not forgotten, and while the
\* cable keeps still it does not grow.
LEMMA BegunKept == EventInv /\ EventInv' /\ Begun /\ [Next]_vars => Begun'
<1> SUFFICES ASSUME EventInv, EventInv', Begun, [Next]_vars PROVE Begun'
  OBVIOUS
<1>1. CASE MoveCable
  BY <1>1 DEF MoveCable, mainVars, Begun
<1>2. CASE UNCHANGED vars
  BY <1>2 DEF vars, mainVars, Begun
<1> QED
  BY <1>1, <1>2, WorkQueueDelivers, MainComesCloser DEF Next

LEMMA StillCable ==
  ASSUME EventInv, EventInv', Begun, [Next]_vars, [~MoveCable]_vars
  PROVE  /\ Undelivered' <= Undelivered
         /\ latched = {} => latched' = {} /\ Distance' <= Distance
<1>1. /\ Undelivered \in 0..2 /\ Undelivered' \in 0..2
      /\ Distance \in 0..9 /\ Distance' \in 0..9
  BY DEF Undelivered, Distance, EventInv, TypeOK
<1>2. CASE WorkQueue
  BY <1>1, <1>2, WorkQueueDelivers DEF WorkQueue, event_callback
<1>3. CASE Main
  BY <1>1, <1>3, MainComesCloser DEF Undelivered
<1>4. CASE UNCHANGED vars
  BY <1>1, <1>4 DEF vars, mainVars, Undelivered, Distance
<1> QED
  BY <1>2, <1>3, <1>4 DEF Next

\* The work queue delivers the events.
Delivers(n, m) ==
  /\ EventInv /\ EventInv' /\ Left(n) /\ [Next]_vars /\ [~MoveCable]_vars => Left(n)'
  /\ EventInv /\ EventInv' /\ Left(n) /\ ~Left(m) /\ <<WorkQueue>>_vars => Left(m)'
  /\ EventInv /\ ThreadsGoOn /\ Left(n) /\ ~Left(m) => ENABLED <<WorkQueue>>_vars

\* The last conjunct says that delivered events stay delivered.
LEMMA EventsDelivered == Delivers(2, 1) /\ Delivers(1, 0) /\ Delivers(0, 0)
<1>1. /\ EventInv => Undelivered \in 0..2
      /\ EventInv' => Undelivered' \in 0..2
  BY DEF Undelivered
<1>2. ASSUME NEW n \in 0..2, EventInv, EventInv', Left(n), [Next]_vars,
             [~MoveCable]_vars
      PROVE  Left(n)'
  BY <1>1, <1>2, BegunKept, StillCable DEF Left
<1>3. ASSUME NEW m \in 0..1, EventInv, EventInv', Left(m + 1), ~Left(m), WorkQueue
      PROVE  Left(m)'
  BY <1>1, <1>3, WorkQueueDelivers DEF Left
<1>4. ASSUME NEW m \in 0..1, EventInv, ThreadsGoOn, Left(m + 1), ~Left(m)
      PROVE  ENABLED <<WorkQueue>>_vars
  <2>1. latched # {} /\ registered
    BY <1>4 DEF Left, Undelivered, EventInv
  <2> QED
    BY <1>4, <2>1 DEF ThreadsGoOn
<1>5. ASSUME NEW m \in 0..1 PROVE Delivers(m + 1, m)
  BY <1>2, <1>3, <1>4 DEF Delivers
<1>6. Delivers(0, 0)
  BY <1>2 DEF Delivers
<1> QED
  BY <1>5, <1>6

\* Main works off its pass, and one more for an event that came during it.
Closer(n, m) ==
  /\ EventInv /\ EventInv' /\ Near(n) /\ [Next]_vars /\ [~MoveCable]_vars => Near(n)'
  /\ EventInv /\ EventInv' /\ Near(n) /\ ~Near(m) /\ <<Main>>_vars => Near(m)'
  /\ EventInv /\ ThreadsGoOn /\ Near(n) /\ ~Near(m) => ENABLED <<Main>>_vars

LEMMA EachStepCloser ==
  /\ Closer(9, 8) /\ Closer(8, 7) /\ Closer(7, 6) /\ Closer(6, 5) /\ Closer(5, 4)
  /\ Closer(4, 3) /\ Closer(3, 2) /\ Closer(2, 1) /\ Closer(1, 0)
<1>1. /\ EventInv => Distance \in 0..9
      /\ EventInv' => Distance' \in 0..9
      /\ Left(0) <=> Begun /\ latched = {}
      /\ Left(0)' <=> (Begun /\ latched = {})'
  BY DEF Distance, Left, Undelivered, EventInv, TypeOK
<1>2. ASSUME NEW n \in 0..9, EventInv, EventInv', Near(n), [Next]_vars,
             [~MoveCable]_vars
      PROVE  Near(n)'
  BY <1>1, <1>2, BegunKept, StillCable DEF Near
<1>3. ASSUME NEW m \in 0..8, EventInv, EventInv', Near(m + 1), ~Near(m), Main
      PROVE  Near(m)'
  BY <1>1, <1>3, MainComesCloser DEF Near
<1>4. ASSUME NEW m \in 0..8, EventInv, ThreadsGoOn, Near(m + 1), ~Near(m)
      PROVE  ENABLED <<Main>>_vars
  <2>1. Begun /\ Distance # 0
    BY <1>1, <1>4 DEF Near
  <2> QED
    BY <1>4, <2>1 DEF ThreadsGoOn, Begun, Distance, Loop
<1>5. ASSUME NEW m \in 0..8 PROVE Closer(m + 1, m)
  BY <1>2, <1>3, <1>4 DEF Closer
<1> QED
  BY <1>5

\* Every event makes main act on the flag and come to rest, although the
\* semaphore counts only to one and an event may come at any point of a pass,
\* provided that neither thread gets stuck and the cable comes to rest itself
\* (main.c:140-155, 231-254).
THEOREM EventIsServed ==
  FairSpec /\ []ThreadsGoOn /\ <>[][~MoveCable]_vars => EventServed
<1>1. EventInv /\ latched # {} /\ pc \in Loop => Begun
  BY DEF EventInv, Begun
<1>2. EventInv /\ Begun => Left(2)
  BY DEF EventInv, Left, Undelivered
<1>3. EventInv /\ Left(0) => Near(9)
  BY DEF EventInv, TypeOK, Near, Distance
<1>4. EventInv /\ Near(0) => Idle /\ served /\ enabled = vbus_connected
  BY DEF EventInv, TypeOK, NoLostWakeup, Near, Left, Begun, Undelivered, Distance,
     Loop, Idle
<1>5. Left(2) => Begun
  BY DEF Left
<1>6. FairSpec /\ []ThreadsGoOn /\ <>[][~MoveCable]_vars => (Begun ~> []Left(0))
  BY <1>2, <1>5, EventsAreRegistered, BegunKept, EventsDelivered, PTL
     DEF Delivers, FairSpec, Spec
<1>7. FairSpec /\ []ThreadsGoOn /\ <>[][~MoveCable]_vars => ([]Left(0) ~> Near(0))
  BY <1>3, EventsAreRegistered, EachStepCloser, PTL DEF Closer, FairSpec, Spec
<1> QED
  BY <1>1, <1>4, <1>6, <1>7, EventsAreRegistered, PTL DEF EventServed, FairSpec
=============================================================================
