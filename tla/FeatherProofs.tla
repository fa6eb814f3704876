---------------------------- MODULE FeatherProofs ----------------------------
(***************************************************************************)
(* What holds of a board on which any images are flashed in any order and  *)
(* reset at any step.  Every component is proved correct on its own; then  *)
(* the behaviour of the board is shown to be one of each component, which  *)
(* carries the theorems of all of them over to the board.                  *)
(***************************************************************************)
EXTENDS Feather, FlashCounterProofs, AccelZbusProofs

-----------------------------------------------------------------------------
(* Sms.                                                                    *)

\* Every variable of the sms sample stays in its range.
THEOREM SmsTypeCorrect == SmsSpec => []SmsTypeOK
<1> USE DEF Commands, buttonVars, workVars, histVars
<1>1. SmsInit => SmsTypeOK
  BY DEF SmsInit, SmsTypeOK
<1>2. SmsTypeOK /\ [SmsNext]_smsVars => SmsTypeOK'
  <2> SUFFICES ASSUME SmsTypeOK, [SmsNext]_smsVars PROVE SmsTypeOK'
    OBVIOUS
  <2> USE DEF SmsTypeOK, SmsGoto
  <2>1. CASE ConfigurePin
    BY <2>1 DEF ConfigurePin
  <2>9. CASE EnableInterrupt
    <3>1. smsPc' \in {"callback", "work_init"} /\ irq' \in BOOLEAN
      BY <2>9 DEF EnableInterrupt
    <3> QED BY <2>9, <3>1 DEF EnableInterrupt
  <2>8. CASE gpio_add_callback \/ k_work_init_delayable
    BY <2>8 DEF gpio_add_callback, k_work_init_delayable
  <2>2. CASE button_pressed
    BY <2>2 DEF button_pressed, k_work_schedule
  <2>3. CASE StartHandler
    BY <2>3 DEF StartHandler
  <2>4. CASE nrf_modem_at_cmd_async
    <3>1. command' \in {0} \cup Commands
      BY <2>4 DEF nrf_modem_at_cmd_async, NextCommand
    <3> QED BY <2>4, <3>1 DEF nrf_modem_at_cmd_async
  <2>5. CASE at_cmd_handler
    BY <2>5 DEF at_cmd_handler
  <2>6. ASSUME NEW runs \in BOOLEAN, SmsBoot(runs) PROVE SmsTypeOK'
    BY <2>6 DEF SmsBoot
  <2>7. CASE UNCHANGED smsVars
    BY <2>7 DEF smsVars
  <2> QED BY <2>1, <2>2, <2>3, <2>4, <2>5, <2>6, <2>7, <2>8, <2>9
          DEF SmsNext, SmsStep, SmsMain, SmsWork
<1> QED BY <1>1, <1>2, PTL DEF SmsSpec

\* What keeps the work queue out of trouble: the item says that it is queued
\* only if it is, and the two differ only after an early press.
ItemSound ==
  /\ flagged => listed
  /\ listed /\ (~flagged \/ smsPc # "returned") => early
  /\ smsPc = "returned" => initialised

\* The second command comes after the first has been tried.
FirstTried == command = 2 => 1 \in tried

SmsInv == SmsTypeOK /\ ItemSound /\ FirstTried /\ SmsSafe

LEMMA SmsInvKept ==
  ASSUME SmsInv, [SmsNext]_smsVars
  PROVE  ItemSound' /\ FirstTried' /\ SmsSafe'
<1> USE DEF SmsInv, ItemSound, FirstTried, SmsSafe, PressQueued,
            CrashOnlyWhenEarly, BothTried, SmsGoto, Commands,
            buttonVars, workVars, histVars
<1>1. CASE SmsMain
  BY <1>1 DEF SmsMain, ConfigurePin, EnableInterrupt, gpio_add_callback,
              k_work_init_delayable
<1>2. CASE button_pressed
  BY <1>2 DEF button_pressed, k_work_schedule
<1>3. CASE StartHandler
  <2>1. CASE initialised
    BY <1>3, <2>1 DEF StartHandler, SmsTypeOK
  <2>2. CASE ~initialised
    BY <1>3, <2>2 DEF StartHandler
  <2> QED BY <2>1, <2>2
<1>4. CASE nrf_modem_at_cmd_async
  <2>1. command \in {1, 2} /\ tried \subseteq {1, 2}
    BY <1>4 DEF nrf_modem_at_cmd_async, SmsTypeOK
  <2>2. tried' = tried \cup {command} /\ NextCommand
    BY <1>4 DEF nrf_modem_at_cmd_async
  <2>3. CASE command = 1
    <3>1. command' = 2 /\ 1 \in tried'
      BY <2>2, <2>3 DEF NextCommand
    <3> QED BY <1>4, <3>1 DEF nrf_modem_at_cmd_async
  <2>4. CASE command = 2
    <3>1. command' = 0 /\ tried' = {1, 2}
      BY <2>1, <2>2, <2>4 DEF NextCommand
    <3> QED BY <1>4, <3>1 DEF nrf_modem_at_cmd_async
  <2> QED BY <2>1, <2>3, <2>4
<1>5. CASE at_cmd_handler
  BY <1>5 DEF at_cmd_handler
<1>6. ASSUME NEW runs \in BOOLEAN, SmsBoot(runs)
      PROVE  ItemSound' /\ FirstTried' /\ SmsSafe'
  BY <1>6 DEF SmsBoot
<1>7. CASE UNCHANGED smsVars
  BY <1>7 DEF smsVars
<1> QED BY <1>1, <1>2, <1>3, <1>4, <1>5, <1>6, <1>7
        DEF SmsNext, SmsStep, SmsWork

\* No press is forgotten, only an early one harms the work queue, and both
\* commands are tried.
THEOREM PressesQueued == SmsSpec => []SmsSafe
<1>1. SmsInit => ItemSound /\ FirstTried /\ SmsSafe
  BY DEF SmsInit, ItemSound, FirstTried, SmsSafe, PressQueued,
         CrashOnlyWhenEarly, BothTried
<1>2. SmsTypeOK /\ (ItemSound /\ FirstTried /\ SmsSafe) /\ [SmsNext]_smsVars
        => (ItemSound /\ FirstTried /\ SmsSafe)'
  BY SmsInvKept DEF SmsInv
<1> QED BY <1>1, <1>2, SmsTypeCorrect, PTL DEF SmsSpec

\* A press is followed by a run of the handler, or meets a work queue that an
\* early press has stopped, however long the modem is busy: the commands of a
\* run in progress come first.
THEOREM PressIsServed ==
  SmsSpec /\ SmsFairness /\ []SmsGoesOn => PressServed
<1> DEFINE Ends     == ~pressed \/ crashed
           Waits(c) == ~Ends /\ command = c
           Inv      == SmsTypeOK /\ SmsSafe
<1>1. Inv /\ ~Ends => listed /\ (Waits(0) \/ Waits(1) \/ Waits(2))
  BY DEF SmsTypeOK, Commands, SmsSafe, PressQueued
<1>2. ASSUME NEW c \in 0..2, Inv, Waits(c), [SmsNext]_smsVars
      PROVE  Waits(c)' \/ (c = 1 /\ Waits(2)') \/ (c = 2 /\ Waits(0)') \/ Ends'
  <2>1. CASE SmsMain
    BY <1>2, <2>1 DEF SmsMain, ConfigurePin, EnableInterrupt, gpio_add_callback,
       k_work_init_delayable, workVars, histVars
  <2>2. CASE button_pressed
    BY <1>2, <2>2 DEF button_pressed
  <2>3. CASE StartHandler
    BY <1>2, <2>3 DEF StartHandler
  <2>4. CASE nrf_modem_at_cmd_async
    BY <1>2, <2>4 DEF nrf_modem_at_cmd_async, NextCommand, workVars
  <2>5. CASE at_cmd_handler
    BY <1>2, <2>5 DEF at_cmd_handler, workVars, histVars
  <2>6. ASSUME NEW runs \in BOOLEAN, SmsBoot(runs) PROVE Ends'
    BY <2>6 DEF SmsBoot
  <2>7. CASE UNCHANGED smsVars
    BY <1>2, <2>7 DEF smsVars, workVars, histVars
  <2> QED BY <1>2, <2>1, <2>2, <2>3, <2>4, <2>5, <2>6, <2>7
          DEF SmsNext, SmsStep, SmsWork
<1>3. ASSUME NEW c \in 0..2, Inv, Waits(c), SmsWork
      PROVE  (c = 1 /\ Waits(2)') \/ (c = 2 /\ Waits(0)') \/ Ends'
  <2>1. CASE StartHandler
    BY <1>3, <2>1 DEF StartHandler
  <2>2. CASE nrf_modem_at_cmd_async
    BY <1>3, <2>2 DEF nrf_modem_at_cmd_async, NextCommand, workVars
  <2> QED BY <1>3, <2>1, <2>2 DEF SmsWork
<1>4. Inv /\ SmsGoesOn /\ ~Ends => ENABLED <<SmsWork>>_smsVars
  BY <1>1 DEF SmsGoesOn
<1> HIDE DEF Ends, Waits, Inv
<1>5. /\ Inv /\ Waits(1) /\ [SmsNext]_smsVars => Waits(1)' \/ Waits(2)' \/ Ends'
      /\ Inv /\ Waits(2) /\ [SmsNext]_smsVars => Waits(2)' \/ Waits(0)' \/ Ends'
      /\ Inv /\ Waits(0) /\ [SmsNext]_smsVars => Waits(0)' \/ Ends'
  BY <1>2
<1>6. /\ Inv /\ Waits(1) /\ <<SmsWork>>_smsVars => Waits(2)' \/ Ends'
      /\ Inv /\ Waits(2) /\ <<SmsWork>>_smsVars => Waits(0)' \/ Ends'
      /\ Inv /\ Waits(0) /\ <<SmsWork>>_smsVars => Ends'
  BY <1>3
<1>7. Ends => ~pressed \/ crashed
  BY DEF Ends
<1>8. SmsSpec => []Inv
  BY SmsTypeCorrect, PressesQueued, PTL DEF Inv
<1> QED BY <1>1, <1>4, <1>5, <1>6, <1>7, <1>8, PTL
        DEF SmsSpec, SmsFairness, PressServed

-----------------------------------------------------------------------------
(* Rtc.                                                                    *)

\* Every variable of the clock and its two samples stays in its range.
THEOREM RtcTypeCorrect == RtcSpec => []RtcTypeOK
<1> USE DEF clockVars, syncVars
<1>0. 0 \in 0..1 /\ 1 \in 0..1
  OBVIOUS
<1>1. RtcInit => RtcTypeOK
  BY <1>0 DEF RtcInit, RtcTypeOK
<1>2. RtcTypeOK /\ [RtcNext]_rtcVars => RtcTypeOK'
  <2> SUFFICES ASSUME RtcTypeOK, [RtcNext]_rtcVars PROVE RtcTypeOK'
    OBVIOUS
  <2> USE DEF RtcTypeOK, RtcGoto, Called, Missed, MayFail, RtcFails
  <2>1. CASE rtc_init
    BY <2>1 DEF rtc_init
  <2>2. CASE lte_lc_connect \/ CheckRequest
    BY <2>2 DEF lte_lc_connect, CheckRequest
  <2>3. CASE date_time_update_async
    BY <2>3 DEF date_time_update_async
  <2>4. CASE WaitForTime
    BY <2>4 DEF WaitForTime
  <2>5. CASE GetTime
    BY <2>5 DEF GetTime
  <2>6. CASE pcf85063a_set_time
    BY <2>6 DEF pcf85063a_set_time
  <2>7. CASE pcf85063a_get_time
    BY <2>7 DEF pcf85063a_get_time
  <2>8. CASE counter_set_channel_alarm
    BY <2>8 DEF counter_set_channel_alarm
  <2>9. CASE counter_get_pending_int
    BY <2>9 DEF counter_get_pending_int
  <2>10. CASE counter_cancel_channel_alarm
    BY <2>10 DEF counter_cancel_channel_alarm
  <2>11. CASE AlarmGoesOff
    BY <2>11 DEF AlarmGoesOff
  <2>12. ASSUME NEW type \in {"obtained", "not_obtained"},
                date_time_event_handler(type)
         PROVE  RtcTypeOK'
    BY <2>12 DEF date_time_event_handler
  <2>13. ASSUME NEW first \in FirstSteps, RtcBoot(first) PROVE RtcTypeOK'
    BY <1>0, <2>13 DEF RtcBoot, FirstSteps
  <2>14. CASE UNCHANGED rtcVars
    BY <2>14 DEF rtcVars
  <2> QED BY <2>1, <2>2, <2>3, <2>4, <2>5, <2>6, <2>7, <2>8, <2>9, <2>10,
             <2>11, <2>12, <2>13, <2>14
          DEF RtcNext, RtcStep, SyncMain, AlarmMain
<1> QED BY <1>1, <1>2, PTL DEF RtcSpec

\* The semaphore holds every report that main has not yet waited for, and
\* nothing but a report; the clock is started, then set, then main returns.
SyncStaged ==
  /\ rtcPc \in {"start", "connect", "request", "check", "wait"} /\ obtained
       => date_time_ready = 1
  /\ date_time_ready = 1 => obtained
  /\ rtcPc \in {"connect", "request", "check", "wait", "convert", "set", "read"}
       /\ rtcClean => ticking
  /\ rtcPc = "read" => rtcTime = "network"
  /\ rtcResult # "none" => rtcPc = "done"

LEMMA SyncInvKept ==
  ASSUME RtcTypeOK, SyncStaged, SyncSafe, [RtcNext]_rtcVars
  PROVE  SyncStaged' /\ SyncSafe'
<1> USE DEF SyncStaged, SyncSafe, TimeNotForgotten, SyncNeedsTime,
            SyncedMeansSet, clockVars, syncVars, RtcGoto, Called, Missed,
            MayFail, RtcFails
<1>1. CASE rtc_init
  BY <1>1 DEF rtc_init
<1>2. CASE lte_lc_connect \/ CheckRequest
  <2>1. rtcClean' => rtcClean
    BY <1>2 DEF lte_lc_connect, CheckRequest
  <2>2. CASE lte_lc_connect
    BY <2>1, <2>2 DEF lte_lc_connect
  <2>3. CASE CheckRequest
    BY <2>3 DEF CheckRequest
  <2> QED BY <1>2, <2>2, <2>3
<1>3. CASE date_time_update_async
  BY <1>3 DEF date_time_update_async
<1>4. CASE WaitForTime
  BY <1>4 DEF WaitForTime
<1>5. CASE GetTime
  BY <1>5 DEF GetTime
<1>6. CASE pcf85063a_set_time
  BY <1>6 DEF pcf85063a_set_time
<1>7. CASE pcf85063a_get_time
  <2>1. rtcClean' => rtcClean
    BY <1>7 DEF pcf85063a_get_time
  <2> QED BY <1>7, <2>1 DEF pcf85063a_get_time
<1>8. CASE counter_set_channel_alarm
  BY <1>8 DEF counter_set_channel_alarm
<1>9. CASE counter_get_pending_int \/ AlarmGoesOff
  BY <1>9 DEF counter_get_pending_int, AlarmGoesOff
<1>10. CASE counter_cancel_channel_alarm
  BY <1>10 DEF counter_cancel_channel_alarm
<1>11. ASSUME NEW type \in {"obtained", "not_obtained"},
              date_time_event_handler(type)
       PROVE  SyncStaged' /\ SyncSafe'
  BY <1>11 DEF date_time_event_handler, Gives
<1>12. ASSUME NEW first \in FirstSteps, RtcBoot(first)
       PROVE  SyncStaged' /\ SyncSafe'
  BY <1>12 DEF RtcBoot, FirstSteps
<1>13. CASE UNCHANGED rtcVars
  BY <1>13 DEF rtcVars
<1> QED BY <1>1, <1>2, <1>3, <1>4, <1>5, <1>6, <1>7, <1>8, <1>9, <1>10,
           <1>11, <1>12, <1>13
        DEF RtcNext, RtcStep, SyncMain, AlarmMain

\* No report of the time is forgotten, the clock is set on nothing else, and a
\* result of 0 means that it holds the time.
THEOREM ClockSetSafely == RtcSpec => []SyncSafe
<1>1. RtcInit => SyncStaged /\ SyncSafe
  BY DEF RtcInit, SyncStaged, SyncSafe, TimeNotForgotten, SyncNeedsTime,
         SyncedMeansSet
<1>2. RtcTypeOK /\ (SyncStaged /\ SyncSafe) /\ [RtcNext]_rtcVars
        => (SyncStaged /\ SyncSafe)'
  BY SyncInvKept
<1> QED BY <1>1, <1>2, RtcTypeCorrect, PTL DEF RtcSpec

\* A report of the time ends the waiting, and an alarm that is armed ends the
\* polling: a flag stays set until main has seen it.
THEOREM ClockIsServed ==
  RtcSpec /\ RtcFairness /\ []RtcGoesOn => ClockServed
<1> DEFINE Told == rtcPc = "wait" /\ date_time_ready = 1
           Armed == rtcPc = "poll" /\ alarm_on /\ ticking /\ ~flag
           Rings == rtcPc = "poll" /\ flag
<1> USE DEF RtcGoto, RtcFails, clockVars, syncVars
<1>1. ASSUME RtcTypeOK, [RtcNext]_rtcVars
      PROVE  /\ Told => Told' \/ (rtcPc # "wait")'
             /\ Armed => Armed' \/ Rings' \/ (rtcPc # "poll")'
             /\ Rings => Rings' \/ (rtcPc # "poll")'
  <2>1. CASE SyncMain
    BY <2>1 DEF SyncMain, rtc_init, lte_lc_connect, date_time_update_async,
       CheckRequest, WaitForTime, GetTime, pcf85063a_set_time, pcf85063a_get_time
  <2>2. CASE AlarmMain
    BY <2>2 DEF AlarmMain, counter_set_channel_alarm, counter_get_pending_int,
       counter_cancel_channel_alarm
  <2>3. CASE AlarmGoesOff
    BY <2>3 DEF AlarmGoesOff
  <2>4. ASSUME NEW type \in {"obtained", "not_obtained"},
               date_time_event_handler(type)
        PROVE  date_time_ready = 1 => date_time_ready' = 1
    BY <2>4 DEF date_time_event_handler
  <2>5. CASE \E type \in {"obtained", "not_obtained"} :
               date_time_event_handler(type)
    BY <2>4, <2>5 DEF date_time_event_handler
  <2>6. CASE \E first \in FirstSteps : RtcBoot(first)
    BY <2>6 DEF RtcBoot, FirstSteps
  <2>7. CASE UNCHANGED rtcVars
    BY <2>7 DEF rtcVars
  <2> QED BY <1>1, <2>1, <2>2, <2>3, <2>5, <2>6, <2>7 DEF RtcNext, RtcStep
<1>2. Told /\ <<SyncMain>>_rtcVars => (rtcPc # "wait")'
  BY DEF SyncMain, rtc_init, lte_lc_connect, date_time_update_async,
     CheckRequest, WaitForTime, GetTime, pcf85063a_set_time, pcf85063a_get_time
<1>3. Armed /\ <<AlarmGoesOff>>_rtcVars => Rings'
  BY DEF AlarmGoesOff
<1>4. Rings /\ <<AlarmMain>>_rtcVars => (rtcPc # "poll")'
  BY DEF AlarmMain, counter_set_channel_alarm, counter_get_pending_int,
     counter_cancel_channel_alarm
<1>5. RtcGoesOn => /\ Told => ENABLED <<SyncMain>>_rtcVars
                   /\ Armed => ENABLED <<AlarmGoesOff>>_rtcVars
                   /\ Rings => ENABLED <<AlarmMain>>_rtcVars
  BY DEF RtcGoesOn
<1>6. SyncSafe /\ rtcPc = "wait" /\ obtained => Told
  BY DEF SyncSafe, TimeNotForgotten
<1>7. RtcTypeOK /\ rtcPc = "poll" /\ alarm_on /\ ticking => Armed \/ Rings
  BY DEF RtcTypeOK
<1> HIDE DEF Told, Armed, Rings
<1>8. RtcSpec /\ RtcFairness /\ []RtcGoesOn => TimeServed
  BY <1>1, <1>2, <1>5, <1>6, RtcTypeCorrect, ClockSetSafely, PTL
     DEF RtcSpec, RtcFairness, TimeServed
<1>9. RtcSpec /\ RtcFairness /\ []RtcGoesOn => AlarmReported
  BY <1>1, <1>3, <1>4, <1>5, <1>7, RtcTypeCorrect, PTL
     DEF RtcSpec, RtcFairness, AlarmReported
<1> QED BY <1>8, <1>9 DEF ClockServed

-----------------------------------------------------------------------------
(* LedPwm.                                                                 *)

\* The first test is that of the first LED.
FirstLedFirst == ledPc = "bind" => led = 0

LEMMA LedRanges == LedSpec => [](LedTypeOK /\ FirstLedFirst)
<1> USE LedAssumption DEF lampVars, Leds
<1>1. LedInit => LedTypeOK /\ FirstLedFirst
  <2> SUFFICES ASSUME LedInit PROVE LedTypeOK /\ FirstLedFirst
    OBVIOUS
  <2>1. bright \in [Leds -> 0..MaxBrightness]
    BY DEF LedInit
  <2> QED BY <2>1 DEF LedInit, LedTypeOK, FirstLedFirst
<1>2. LedTypeOK /\ FirstLedFirst /\ [LedNext]_ledVars
        => LedTypeOK' /\ FirstLedFirst'
  <2> SUFFICES ASSUME LedTypeOK, FirstLedFirst, [LedNext]_ledVars
               PROVE  LedTypeOK' /\ FirstLedFirst'
    OBVIOUS
  <2> USE DEF LedTypeOK, FirstLedFirst, LedGoto
  <2>1. ASSUME TestEnds, led \in Leds
        PROVE  led' \in Leds /\ led' \in Nat /\ ledPc' = "on"
                 /\ level' \in 0..MaxBrightness + 1
    BY <2>1 DEF TestEnds, NextLed
  <2>2. ASSUME NEW value \in 0..MaxBrightness, Shines(value)
        PROVE  bright' \in [Leds -> 0..MaxBrightness] /\ blinking' \subseteq Leds
    BY <2>2 DEF Shines
  <2>3. ASSUME GivesUp, led \in Leds PROVE LedTypeOK' /\ FirstLedFirst'
    <3>1. TestEnds /\ gaveUp' = gaveUp \cup {led} /\ UNCHANGED <<bright, blinking>>
      BY <2>3 DEF GivesUp
    <3> QED BY <2>1, <2>3, <3>1
  <2>4. CASE device_get_binding
    <3>1. NumLeds > 0 => 0 \in 0..NumLeds - 1
      OBVIOUS
    <3>2. led = 0
      BY <2>4 DEF device_get_binding
    <3> QED BY <2>4, <3>1, <3>2 DEF device_get_binding
  <2>5. CASE led_on
    <3>1. led \in Leds /\ MaxBrightness \in 0..MaxBrightness
      BY <2>5 DEF led_on
    <3> QED BY <2>2, <2>3, <2>5, <3>1 DEF led_on
  <2>6. CASE led_off
    <3>1. led \in Leds /\ 0 \in 0..MaxBrightness
      BY <2>6 DEF led_off
    <3> QED BY <2>2, <2>3, <2>6, <3>1 DEF led_off
  <2>7. CASE led_set_brightness
    <3>1. led \in Leds /\ level \in 0..MaxBrightness
            /\ level + 1 \in 0..MaxBrightness + 1
      BY <2>7 DEF led_set_brightness, FadeGoesOn
    <3> QED BY <2>2, <2>3, <2>7, <3>1 DEF led_set_brightness
  <2>8. CASE BlinkFast
    <3>1. led \in Leds
      BY <2>8 DEF BlinkFast
    <3> QED BY <2>3, <2>8, <3>1 DEF BlinkFast, Blinks
  <2>9. CASE BlinkSlowly
    BY <2>9 DEF BlinkSlowly
  <2>10. CASE FinalOff
    <3>1. led \in Leds /\ 0 \in 0..MaxBrightness
      BY <2>10 DEF FinalOff
    <3> QED BY <2>1, <2>2, <2>3, <2>10, <3>1 DEF FinalOff
  <2>11. ASSUME NEW runs \in BOOLEAN, LedBoot(runs) PROVE LedTypeOK' /\ FirstLedFirst'
    <3>1. bright' \in [Leds -> 0..MaxBrightness]
      BY <2>11 DEF LedBoot
    <3> QED BY <2>11, <3>1 DEF LedBoot
  <2>12. CASE UNCHANGED ledVars
    BY <2>12 DEF ledVars
  <2> QED BY <2>4, <2>5, <2>6, <2>7, <2>8, <2>9, <2>10, <2>11, <2>12
          DEF LedNext, LedStep, run_led_test
<1> QED BY <1>1, <1>2, PTL DEF LedSpec

\* Every variable of the led_pwm sample stays in its range, for any number of
\* LEDs, none included.
THEOREM LedTypeCorrect == LedSpec => []LedTypeOK
BY LedRanges, PTL

\* How bright the LED under test is at each step of its test.
FadeStaged ==
  /\ ledPc \in {"bind", "on", "off_again"} => level = 0
  /\ ledPc = "fade" /\ level > 0 => bright[led] = level - 1

LedInv == LedTypeOK /\ FirstLedFirst /\ FadeStaged /\ LedSafe

LEMMA OthersStayDark ==
  ASSUME LedInv, [LedNext]_ledVars
  PROVE  OthersDark'
<1> USE DEF LedInv, LedSafe, OthersDark, Dark, LedGoto, lampVars
<1>1. ASSUME NEW value \in Nat, Shines(value), led' = led, gaveUp' = gaveUp
      PROVE  OthersDark'
  BY <1>1 DEF Shines, LedTypeOK
<1>2. ASSUME GivesUp PROVE OthersDark'
  BY <1>2 DEF GivesUp
<1>3. CASE device_get_binding
  BY <1>3 DEF device_get_binding
<1>4. CASE led_on
  <2>1. MaxBrightness \in Nat
    BY LedAssumption
  <2> QED BY <1>1, <1>2, <1>4, <2>1 DEF led_on
<1>5. CASE led_off
  BY <1>1, <1>2, <1>5 DEF led_off
<1>6. CASE led_set_brightness
  <2>1. level \in Nat
    BY DEF LedTypeOK
  <2> QED BY <1>1, <1>2, <1>6, <2>1 DEF led_set_brightness
<1>7. CASE BlinkFast
  BY <1>2, <1>7 DEF BlinkFast, Blinks
<1>8. CASE BlinkSlowly
  BY <1>8 DEF BlinkSlowly
<1>9. CASE FinalOff
  <2>1. led \in Leds
    BY <1>9 DEF FinalOff, LedTypeOK
  <2>2. CASE Shines(0) /\ gaveUp' = gaveUp \ {led}
    <3>1. bright' = [bright EXCEPT ![led] = 0] /\ blinking' = blinking \ {led}
      BY <2>2 DEF Shines
    <3>2. bright'[led] = 0 /\ led \notin blinking'
      BY <2>1, <3>1 DEF LedTypeOK
    <3> QED BY <2>2, <3>1, <3>2 DEF LedTypeOK
  <2> QED BY <1>2, <1>9, <2>2 DEF FinalOff
<1>10. ASSUME NEW runs \in BOOLEAN, LedBoot(runs) PROVE OthersDark'
  BY <1>10 DEF LedBoot
<1>11. CASE UNCHANGED ledVars
  BY <1>11 DEF ledVars
<1> QED BY <1>3, <1>4, <1>5, <1>6, <1>7, <1>8, <1>9, <1>10, <1>11
        DEF LedNext, LedStep, run_led_test

LEMMA FadeReachesTop ==
  ASSUME LedInv, [LedNext]_ledVars
  PROVE  FadeStaged' /\ FullBeforeBlink'
<1> USE LedAssumption
    DEF LedInv, LedSafe, FadeStaged, FullBeforeBlink, LedGoto, lampVars
<1>1. ASSUME TestEnds PROVE FadeStaged' /\ FullBeforeBlink'
  BY <1>1 DEF TestEnds
<1>2. ASSUME GivesUp PROVE FadeStaged' /\ FullBeforeBlink'
  BY <1>1, <1>2 DEF GivesUp
<1>3. CASE device_get_binding \/ BlinkSlowly
  BY <1>3 DEF device_get_binding, BlinkSlowly
<1>4. CASE led_on \/ led_off
  BY <1>2, <1>4 DEF led_on, led_off
<1>5. CASE led_set_brightness
  <2>1. led \in Leds /\ level \in Nat /\ ledPc = "fade"
    BY <1>5 DEF led_set_brightness, LedTypeOK
  <2>2. CASE level' = level + 1 /\ Shines(level) /\ UNCHANGED <<ledPc, led>>
    <3>1. bright'[led] = level
      BY <2>1, <2>2 DEF Shines, LedTypeOK
    <3> QED BY <2>1, <2>2, <3>1
  <2> QED BY <1>2, <1>5, <2>2 DEF led_set_brightness
<1>6. CASE BlinkFast
  <2>1. ledPc = "fade" /\ level = MaxBrightness + 1
    BY <1>6 DEF BlinkFast, FadeGoesOn, LedTypeOK
  <2>2. bright[led] = MaxBrightness
    BY <2>1
  <2> QED BY <1>2, <1>6, <2>2 DEF BlinkFast, Blinks
<1>7. CASE FinalOff
  BY <1>1, <1>2, <1>7 DEF FinalOff
<1>8. ASSUME NEW runs \in BOOLEAN, LedBoot(runs)
      PROVE  FadeStaged' /\ FullBeforeBlink'
  BY <1>8 DEF LedBoot
<1>9. CASE UNCHANGED ledVars
  BY <1>9 DEF ledVars
<1> QED BY <1>3, <1>4, <1>5, <1>6, <1>7, <1>8, <1>9
        DEF LedNext, LedStep, run_led_test

LEMMA LedInvariant == LedSpec => []LedInv
<1>1. LedInit => FadeStaged /\ LedSafe
  BY DEF LedInit, FadeStaged, LedSafe, OthersDark, FullBeforeBlink, Dark
<1>2. (LedTypeOK /\ FirstLedFirst) /\ (FadeStaged /\ LedSafe) /\ [LedNext]_ledVars
        => (FadeStaged /\ LedSafe)'
  BY OthersStayDark, FadeReachesTop DEF LedInv, LedSafe
<1> QED BY <1>1, <1>2, LedRanges, PTL DEF LedSpec, LedInv

\* For any number of LEDs and any brightness: a test leaves its LED dark
\* unless it was given up, and an LED blinks only after its full fade.
THEOREM LedsLeftDark == LedSpec => []LedSafe
BY LedInvariant, PTL DEF LedInv

\* How many tests come before that of LED l, and how many calls the current
\* test has left at most.
TestsBefore(l) == IF led <= l THEN l - led ELSE l + NumLeds - led
CallsLeft ==
  CASE ledPc = "on"        -> MaxBrightness + 6
    [] ledPc = "off_again" -> MaxBrightness + 5
    [] ledPc = "fade"      -> MaxBrightness + 4 - level
    [] ledPc = "blink"     -> 2
    [] OTHER               -> 1

\* One of the two natural numbers falls, the first or, while it stays, the second.
Nearer(l) ==
  /\ TestsBefore(l) \in Nat /\ CallsLeft \in Nat
  /\ TestsBefore(l)' \in Nat /\ CallsLeft' \in Nat
  /\ \/ TestsBefore(l)' < TestsBefore(l)
     \/ TestsBefore(l)' = TestsBefore(l) /\ CallsLeft' < CallsLeft

LEMMA TestEndsNearer ==
  ASSUME LedTypeOK, TestEnds, led \in Leds, NEW l \in Leds \ {led}
  PROVE  TestsBefore(l) \in Nat /\ TestsBefore(l)' \in Nat
           /\ TestsBefore(l)' < TestsBefore(l)
BY LedAssumption DEF TestEnds, NextLed, TestsBefore, Leds

LEMMA CallNearer ==
  ASSUME LedTypeOK, FadeStaged, run_led_test, NEW l \in Leds \ {led}
  PROVE  Nearer(l)
<1> USE LedAssumption DEF LedTypeOK, FadeStaged, LedGoto
<1>1. led \in Leds /\ level \in 0..MaxBrightness + 1
  BY DEF run_led_test, led_on, led_off, led_set_brightness, BlinkFast, BlinkSlowly,
         FinalOff
<1>2. CallsLeft \in Nat
  BY <1>1 DEF CallsLeft
<1>3. ASSUME TestEnds PROVE Nearer(l)
  <2>1. CallsLeft' \in Nat
    BY <1>3 DEF TestEnds, CallsLeft
  <2> QED BY <1>1, <1>2, <1>3, <2>1, TestEndsNearer DEF Nearer
<1>4. ASSUME led' = led, CallsLeft' \in Nat, CallsLeft' < CallsLeft PROVE Nearer(l)
  <2>1. TestsBefore(l) \in Nat /\ TestsBefore(l)' = TestsBefore(l)
    BY <1>1, <1>4 DEF TestsBefore, Leds
  <2> QED BY <1>2, <1>4, <2>1 DEF Nearer
<1>5. CASE led_on
  BY <1>1, <1>3, <1>4, <1>5 DEF led_on, GivesUp, CallsLeft
<1>6. CASE led_off
  <2>1. CASE ledPc' = "fade" /\ UNCHANGED <<led, level>>
    BY <1>1, <1>4, <1>6, <2>1 DEF led_off, CallsLeft
  <2> QED BY <1>3, <1>6, <2>1 DEF led_off, GivesUp
<1>7. CASE led_set_brightness
  <2>1. CASE level' = level + 1 /\ UNCHANGED <<ledPc, led>>
    BY <1>1, <1>4, <1>7, <2>1 DEF led_set_brightness, FadeGoesOn, CallsLeft
  <2> QED BY <1>3, <1>7, <2>1 DEF led_set_brightness, GivesUp
<1>8. CASE BlinkFast
  <2>1. CASE ledPc' = "blink" /\ UNCHANGED led
    BY <1>1, <1>4, <1>8, <2>1 DEF BlinkFast, CallsLeft
  <2> QED BY <1>3, <1>8, <2>1 DEF BlinkFast, GivesUp
<1>9. CASE BlinkSlowly
  BY <1>1, <1>4, <1>9 DEF BlinkSlowly, CallsLeft
<1>10. CASE FinalOff
  BY <1>3, <1>10 DEF FinalOff, GivesUp
<1> QED BY <1>5, <1>6, <1>7, <1>8, <1>9, <1>10 DEF run_led_test

\* No call keeps the turn of another LED off: each brings it nearer.
TurnsCome == [][run_led_test => \A l \in Leds \ {led} : Nearer(l)]_ledVars

\* Whatever call fails, every call of a test brings the tests of all other LEDs
\* nearer (led_pwm main.c, run_led_test and the loop of main).
THEOREM LedTurnsCome == LedSpec => TurnsCome
<1>1. LedInv /\ run_led_test => \A l \in Leds \ {led} : Nearer(l)
  BY CallNearer DEF LedInv
<1> QED BY <1>1, LedInvariant, PTL DEF LedSpec, TurnsCome

\* How many calls come before the test of LED l at most: a test has at most
\* MaxBrightness + 6.
CallsBefore(l) == TestsBefore(l) * (MaxBrightness + 7) + CallsLeft

LEMMA LessOften ==
  ASSUME NEW k \in Nat, NEW a \in Nat, NEW b \in Nat, b < a
  PROVE  b * k + k <= a * k
<1>1. (a - (b + 1)) * k >= 0
  <2>1. a - (b + 1) \in Nat
    OBVIOUS
  <2> QED BY <2>1
<1> QED BY <1>1

LEMMA CallsRunOut ==
  ASSUME LedInv, LedInv', run_led_test, NEW l \in Leds \ {led}
  PROVE  /\ CallsBefore(l) \in Nat /\ CallsBefore(l)' \in Nat
         /\ CallsBefore(l)' < CallsBefore(l)
<1> DEFINE k == MaxBrightness + 7
           a == TestsBefore(l)
           b == TestsBefore(l)'
           c == CallsLeft
           d == CallsLeft'
<1>1. k \in Nat /\ k > 0
  BY LedAssumption DEF LedAssumption
<1>2. Nearer(l)
  BY CallNearer DEF LedInv
<1>3. d < k
  BY LedAssumption DEF LedAssumption, LedInv, LedTypeOK, FadeStaged, CallsLeft
<1>4. a \in Nat /\ b \in Nat /\ c \in Nat /\ d \in Nat
      /\ (b < a \/ (b = a /\ d < c))
  BY <1>2 DEF Nearer
<1>5. CallsBefore(l) = a * k + c /\ CallsBefore(l)' = b * k + d
  BY DEF CallsBefore
<1> HIDE DEF k, a, b, c, d
<1>6. a * k \in Nat /\ b * k \in Nat
  BY <1>1, <1>4
<1>7. b < a => b * k + k <= a * k
  BY <1>1, <1>4, LessOften
<1> QED BY <1>1, <1>3, <1>4, <1>5, <1>6, <1>7

\* LED l is neither under test nor is the program starting.
Waits(l) == ledPc \notin {"off", "bind", "done"} /\ led # l

TurnComes(l) == ledPc \in {"off", "bind"} \/ led = l

LEMMA CallsCounted ==
  ASSUME LedInv, NEW l \in Leds, Waits(l)
  PROVE  /\ TestsBefore(l) \in Nat /\ TestsBefore(l) < NumLeds
         /\ CallsLeft \in 1..MaxBrightness + 6
         /\ CallsBefore(l) \in Nat \ {0}
<1>1. TestsBefore(l) \in Nat /\ TestsBefore(l) < NumLeds
  BY LedAssumption DEF LedAssumption, Waits, TestsBefore, Leds, LedInv, LedTypeOK
<1>2. CallsLeft \in 1..MaxBrightness + 6
  BY LedAssumption DEF LedAssumption, CallsLeft, LedInv, LedTypeOK
<1>3. TestsBefore(l) * (MaxBrightness + 7) \in Nat
  BY <1>1, LedAssumption DEF LedAssumption
<1> QED BY <1>1, <1>2, <1>3 DEF CallsBefore

LEMMA WaitGoesOn ==
  ASSUME LedInv, LedInv', NEW l \in Leds, Waits(l), [LedNext]_ledVars
  PROVE  /\ CallsBefore(l) \in Nat
         /\ \/ TurnComes(l)' \/ UNCHANGED ledVars
            \/ Waits(l)' /\ CallsBefore(l)' \in Nat
                 /\ CallsBefore(l)' < CallsBefore(l)
         /\ LedStep => ~UNCHANGED ledVars
<1>1. led \in Leds /\ l \in Leds \ {led} /\ ledPc # "bind"
  BY DEF Waits, LedInv, LedTypeOK
<1>2. CallsBefore(l) \in Nat
  BY CallsCounted
<1>3. CASE run_led_test
  <2>1. CallsBefore(l)' \in Nat /\ CallsBefore(l)' < CallsBefore(l)
    BY <1>1, <1>3, CallsRunOut
  <2>2. ledPc' \notin {"off", "bind", "done"}
    BY <1>3 DEF run_led_test, led_on, led_off, led_set_brightness, BlinkFast,
       BlinkSlowly, FinalOff, GivesUp, TestEnds, LedGoto, Waits
  <2>3. ~UNCHANGED ledVars
    <3>1. CallsBefore(l)' # CallsBefore(l)
      BY <1>2, <2>1
    <3> QED BY <3>1 DEF ledVars, CallsBefore, TestsBefore, CallsLeft
  <2> QED BY <1>2, <2>1, <2>2, <2>3 DEF Waits, TurnComes
<1>4. ASSUME NEW runs \in BOOLEAN, LedBoot(runs) PROVE TurnComes(l)'
  BY <1>4 DEF LedBoot, TurnComes
<1>5. ~device_get_binding
  BY <1>1 DEF device_get_binding, LedGoto
<1> QED BY <1>2, <1>3, <1>4, <1>5 DEF LedNext, LedStep

LedRuns ==
  []LedInv /\ [][LedNext]_ledVars /\ WF_ledVars(LedStep) /\ []LedGoesOn

Reaches(n, l) ==
  LedRuns => [](Waits(l) /\ CallsBefore(l) <= n => <>TurnComes(l))

EachReached(n) == \A l \in Leds : Reaches(n, l)

\* Induction over the number of calls.  It holds of every behaviour, whatever
\* EachReached says; no prover at hand can derive it for a temporal formula.
InductionOverCalls ==
  EachReached(0) /\ (\A n \in Nat : EachReached(n) => EachReached(n + 1))
    => \A n \in Nat : EachReached(n)

LEMMA ReachedFromAnywhere == InductionOverCalls => \A n \in Nat : EachReached(n)
<1>1. ASSUME NEW l \in Leds PROVE Reaches(0, l)
  <2>1. LedInv /\ Waits(l) => ~(CallsBefore(l) <= 0)
    BY CallsCounted
  <2> QED BY <2>1, PTL DEF Reaches, LedRuns
<1>2. ASSUME NEW n \in Nat, NEW l \in Leds
      PROVE  Reaches(n, l) => Reaches(n + 1, l)
  <2> DEFINE At == Waits(l) /\ CallsBefore(l) = n + 1
             Below == Waits(l) /\ CallsBefore(l) <= n
  <2>1. LedInv /\ LedInv' /\ At /\ [LedNext]_ledVars
          => At' \/ Below' \/ TurnComes(l)'
    BY WaitGoesOn DEF Waits, CallsBefore, TestsBefore, CallsLeft, ledVars
  <2>2. LedInv /\ LedInv' /\ At /\ <<LedStep>>_ledVars => Below' \/ TurnComes(l)'
    BY WaitGoesOn DEF LedNext
  <2>3. LedInv /\ LedInv' /\ Waits(l) /\ CallsBefore(l) <= n + 1 /\ [LedNext]_ledVars
          => At \/ Below
    BY WaitGoesOn
  <2>4. At /\ LedGoesOn => ENABLED <<LedStep>>_ledVars
    BY DEF LedGoesOn, Waits
  <2> QED BY <2>1, <2>2, <2>3, <2>4, PTL DEF Reaches, LedRuns
<1>3. EachReached(0)
  BY <1>1 DEF EachReached
<1>4. ASSUME NEW n \in Nat PROVE EachReached(n) => EachReached(n + 1)
  BY <1>2 DEF EachReached
<1> QED BY <1>3, <1>4 DEF InductionOverCalls

LEMMA CallsBounded ==
  ASSUME LedInv, NEW l \in Leds, Waits(l)
  PROVE  /\ NumLeds * (MaxBrightness + 7) \in Nat
         /\ CallsBefore(l) <= NumLeds * (MaxBrightness + 7)
<1> DEFINE k == MaxBrightness + 7
           a == NumLeds
           b == TestsBefore(l)
           c == CallsLeft
<1>1. k \in Nat /\ a \in Nat
  BY LedAssumption DEF LedAssumption
<1>2. b \in Nat /\ b < a
  BY CallsCounted
<1>3. c \in Nat /\ c < k
  BY CallsCounted, LedAssumption DEF LedAssumption
<1>4. CallsBefore(l) = b * k + c
  BY DEF CallsBefore
<1>5. NumLeds * (MaxBrightness + 7) = a * k
  OBVIOUS
<1> HIDE DEF k, a, b, c
<1>6. a * k \in Nat /\ b * k \in Nat
  BY <1>1, <1>2
<1>7. b * k + k <= a * k
  BY <1>1, <1>2, LessOften
<1> QED BY <1>1, <1>2, <1>3, <1>4, <1>5, <1>6, <1>7

\* For any number of LEDs and any brightness, and whatever calls of a test fail,
\* every LED's turn comes: no error makes the program stay with one LED
\* (led_pwm main.c), provided that it does not get stuck.
THEOREM LedsAreTested ==
  LedSpec /\ LedFairness /\ []LedGoesOn /\ InductionOverCalls => EveryLedTested
<1> DEFINE bound == NumLeds * (MaxBrightness + 7)
<1>1. LedSpec /\ LedFairness /\ []LedGoesOn => LedRuns
  BY LedInvariant, PTL DEF LedSpec, LedFairness, LedRuns
<1>2. ASSUME NEW l \in Leds
      PROVE  LedRuns /\ InductionOverCalls
               => ((ledPc = "on") ~> (ledPc \in {"off", "bind"} \/ led = l))
  <2>1. bound \in Nat
    BY LedAssumption DEF LedAssumption
  <2>2. InductionOverCalls => Reaches(bound, l)
    <3>1. InductionOverCalls => EachReached(bound)
      BY <2>1, ReachedFromAnywhere
    <3>2. EachReached(bound) => Reaches(bound, l)
      BY DEF EachReached
    <3> QED BY <3>1, <3>2
  <2>3. LedInv /\ Waits(l) => CallsBefore(l) <= bound
    BY CallsBounded
  <2>4. ledPc = "on" => Waits(l) \/ TurnComes(l)
    BY DEF Waits, TurnComes
  <2> QED BY <2>2, <2>3, <2>4, PTL DEF LedRuns, Reaches, TurnComes
<1> QED BY <1>1, <1>2 DEF EveryLedTested

-----------------------------------------------------------------------------
(* JsonCodec.                                                              *)

\* A text is never empty, so that its length is no error.
LEMMA LengthsPositive == \A length \in Lengths : length \in Nat /\ length > 0
BY CodecAssumption DEF Lengths, Frame

\* The ranges, and that a payload is at hand while it is encoded.
JsonRanges ==
  JsonTypeOK /\ (jsonPc \in {"check", "encode"} => trueLen \in Lengths)

LEMMA JsonRangesKept == JsonRanges /\ [JsonNext]_jsonVars => JsonRanges'
<1> SUFFICES ASSUME JsonRanges, [JsonNext]_jsonVars PROVE JsonRanges'
  OBVIOUS
<1> USE DEF JsonRanges, JsonTypeOK, JsonReturns
<1>1. ASSUME NEW length \in Lengths, NEW size \in Buffers,
             example_json_codec_encode(length, size)
      PROVE  JsonRanges'
  BY <1>1 DEF example_json_codec_encode
<1>2. ASSUME NEW len \in Lengths, json_calc_encoded_len(len) PROVE JsonRanges'
  BY <1>2 DEF json_calc_encoded_len
<1>3. CASE json_obj_encode_buf
  BY <1>3 DEF json_obj_encode_buf
<1>4. ASSUME NEW runs \in BOOLEAN, JsonBoot(runs) PROVE JsonRanges'
  BY <1>4 DEF JsonBoot
<1>5. CASE UNCHANGED jsonVars
  BY <1>5 DEF jsonVars
<1> QED BY <1>1, <1>2, <1>3, <1>4, <1>5 DEF JsonNext, JsonStep

\* Every variable of the codec's caller stays in its range.
THEOREM JsonTypeCorrect == JsonSpec => []JsonTypeOK
<1>1. JsonInit => JsonRanges
  BY DEF JsonInit, JsonRanges, JsonTypeOK
<1>2. JsonRanges => JsonTypeOK
  BY DEF JsonRanges
<1> QED BY <1>1, <1>2, JsonRangesKept, PTL DEF JsonSpec

\* For payloads and buffers of any size: a length that is returned is that of
\* a whole text inside the buffer, and a buffer large enough for every payload
\* is never refused.
THEOREM CodecKeepsBuffer == JsonSpec => []CodecSafe
<1> USE DEF CodecSafe, EncodedWhole, LargeBufferServes, ENOMEM, JsonReturns
<1>1. JsonInit => JsonRanges /\ CodecSafe
  BY DEF JsonInit, JsonRanges, JsonTypeOK
<1>2. JsonRanges /\ CodecSafe /\ [JsonNext]_jsonVars => CodecSafe'
  <2> SUFFICES ASSUME JsonRanges, CodecSafe, [JsonNext]_jsonVars
               PROVE  CodecSafe'
    OBVIOUS
  <2> USE DEF JsonRanges, JsonTypeOK
  <2>1. ASSUME NEW length \in Lengths, NEW size \in Buffers,
               example_json_codec_encode(length, size)
        PROVE  CodecSafe'
    BY <2>1 DEF example_json_codec_encode
  <2>2. ASSUME NEW len \in Lengths, json_calc_encoded_len(len)
        PROVE  CodecSafe'
    <3>1. buf_len \in Nat /\ len \in Nat
      BY CodecAssumption, LengthsPositive
    <3> QED BY <2>2, <3>1 DEF json_calc_encoded_len
  <2>3. CASE json_obj_encode_buf
    <3>1. buf_len \in Nat /\ trueLen \in Lengths /\ trueLen \in Nat /\ trueLen > 0
      BY <2>3, CodecAssumption, LengthsPositive DEF json_obj_encode_buf
    <3> QED BY <2>3, <3>1 DEF json_obj_encode_buf
  <2>4. ASSUME NEW runs \in BOOLEAN, JsonBoot(runs) PROVE CodecSafe'
    BY <2>4 DEF JsonBoot
  <2>5. CASE UNCHANGED jsonVars
    BY <2>5 DEF jsonVars
  <2> QED BY <2>1, <2>2, <2>3, <2>4, <2>5 DEF JsonNext, JsonStep
<1> QED BY <1>1, <1>2, JsonRangesKept, PTL DEF JsonSpec

-----------------------------------------------------------------------------
(* Accelerometer.                                                          *)

\* Every variable of the images and the chip stays in its range.
THEOREM AccelTypeCorrect == AccelSpec => []AccelTypeOK
<1> USE DEF Bytes, registers, i2cVars, sleepVars
<1>1. AccelInit => AccelTypeOK
  <2> SUFFICES ASSUME AccelInit PROVE AccelTypeOK
    OBVIOUS
  <2>1. CTRL0 \in Bytes /\ TEMP_CFG \in Bytes /\ ctrl0_ctrl1 \in Bytes \X Bytes
    BY DEF AccelInit
  <2> QED BY <2>1 DEF AccelInit, AccelTypeOK
<1>2. AccelTypeOK /\ [AccelNext]_accelVars => AccelTypeOK'
  <2> SUFFICES ASSUME AccelTypeOK, [AccelNext]_accelVars PROVE AccelTypeOK'
    OBVIOUS
  <2> USE DEF AccelTypeOK, AccelGoto, I2cFails, Sleeps, Fails
  <2>1. CASE ReadWhoAmI \/ i2c_reg_write_byte
    BY <2>1 DEF ReadWhoAmI, i2c_reg_write_byte
  <2>2. CASE i2c_reg_update_byte
    BY <2>2 DEF i2c_reg_update_byte
  <2>3. CASE i2c_burst_read
    BY <2>3 DEF i2c_burst_read, SecondByte
  <2>4. CASE i2c_burst_write
    <3>1. CTRL0' \in Bytes /\ TEMP_CFG' \in Bytes
      BY <2>4 DEF i2c_burst_write, WriteBoth, WriteFirst
    <3> QED BY <2>4, <3>1 DEF i2c_burst_write
  <2>5. CASE setup_gpio
    BY <2>5 DEF setup_gpio, Devices
  <2>6. CASE setup_accel
    <3>1. awake' \subseteq Devices /\ failed' \subseteq Devices
      BY <2>6 DEF setup_accel, Devices
    <3> QED BY <2>6, <3>1 DEF setup_accel
  <2>7. CASE SuspendFlash \/ nrf_modem_lib_init \/ setup_uart
    <3>1. awake' \subseteq Devices /\ failed' \subseteq Devices
      BY <2>7 DEF SuspendFlash, nrf_modem_lib_init, setup_uart, Devices
    <3> QED BY <2>7, <3>1 DEF SuspendFlash, nrf_modem_lib_init, setup_uart
  <2>8. ASSUME NEW first \in AccelImages \cup {"off"}, AccelBoot(first)
        PROVE  AccelTypeOK'
    <3>1. awake' \subseteq Devices /\ failed' \subseteq Devices
      BY <2>8 DEF AccelBoot
    <3>2. accelPc' \in {"who_am_i", "gpio", "off"}
      BY <2>8 DEF AccelBoot
    <3>3. /\ CTRL0' \in Bytes /\ x_enabled' \in BOOLEAN
          /\ rate' \in {"down", "sampling"} /\ accel_ready' \in BOOLEAN
      BY <2>8 DEF AccelBoot, lis2dh_init, PullUpDisconnected
    <3> QED BY <2>8, <3>1, <3>2, <3>3 DEF AccelBoot
  <2>9. CASE UNCHANGED accelVars
    BY <2>9 DEF accelVars
  <2> QED BY <2>1, <2>2, <2>3, <2>4, <2>5, <2>6, <2>7, <2>8, <2>9
          DEF AccelNext, AccelStep, I2cMain, SleepMain
<1> QED BY <1>1, <1>2, PTL DEF AccelSpec

\* What the second burst will write is what the first has read, and that is
\* still in the registers; a result is the last thing main leaves.
BurstCurrent ==
  /\ accelPc = "burst_write" => ctrl0_ctrl1 = <<CTRL0, SecondByte>>
  /\ accelResult # "none" => accelPc = "done"

\* Whatever access fails, direct_i2c_access leaves the two registers as they
\* have to be, whether or not a burst goes on to the next register, and whatever
\* the driver of the other images has set in between.
THEOREM BurstsKeepRegisters == AccelSpec => []RegistersKept
<1> USE DEF RegistersKept, BurstCurrent, SecondByte, registers, i2cVars, sleepVars
<1>1. AccelInit => RegistersKept /\ BurstCurrent
  BY DEF AccelInit
<1>2. RegistersKept /\ BurstCurrent /\ [AccelNext]_accelVars
        => RegistersKept' /\ BurstCurrent'
  <2> SUFFICES ASSUME RegistersKept, BurstCurrent, [AccelNext]_accelVars
               PROVE  RegistersKept' /\ BurstCurrent'
    OBVIOUS
  <2> USE DEF AccelGoto, I2cFails
  <2>1. CASE ReadWhoAmI \/ i2c_reg_write_byte \/ i2c_reg_update_byte
    BY <2>1 DEF ReadWhoAmI, i2c_reg_write_byte, i2c_reg_update_byte
  <2>2. CASE i2c_burst_read
    BY <2>2 DEF i2c_burst_read
  <2>3. CASE i2c_burst_write
    BY <2>3 DEF i2c_burst_write, WriteBoth, WriteFirst
  <2>4. CASE SleepMain
    BY <2>4 DEF SleepMain, setup_gpio, setup_accel, SuspendFlash,
                nrf_modem_lib_init, setup_uart
  <2>5. ASSUME NEW first \in AccelImages \cup {"off"}, AccelBoot(first)
        PROVE  RegistersKept' /\ BurstCurrent'
    <3>1. /\ accelPc' \in {"who_am_i", "gpio", "off"} /\ accelResult' = "none"
          /\ TEMP_CFG' = TEMP_CFG
      BY <2>5 DEF AccelBoot
    <3>2. CTRL0' \in {"default", "no_pull_up"}
      BY <2>5 DEF AccelBoot, lis2dh_init, PullUpDisconnected
    <3> QED BY <3>1, <3>2
  <2>6. CASE UNCHANGED accelVars
    BY <2>6 DEF accelVars
  <2> QED BY <2>1, <2>2, <2>3, <2>4, <2>5, <2>6 DEF AccelNext, AccelStep, I2cMain
<1> QED BY <1>1, <1>2, PTL DEF AccelSpec

\* What is still to come at each step of active_sleep.
ToCome ==
  CASE accelPc = "gpio"    -> Devices
    [] accelPc = "accel"   -> {"accel", "flash", "modem", "console", "hfclk"}
    [] accelPc = "flash"   -> {"flash", "modem", "console", "hfclk"}
    [] accelPc = "modem"   -> {"modem", "console", "hfclk"}
    [] accelPc = "console" -> {"console", "hfclk"}
    [] OTHER               -> {}

SleepStaged ==
  \A d \in awake : \/ d \in failed \/ d \in ToCome
                   \/ accelPc = "done" /\ d = "hfclk" /\ "console" \in failed

\* Whatever calls of active_sleep fail, the other devices are put to sleep.
THEOREM SleepIsComplete == AccelSpec => []OnlyFailedAwake
<1> USE DEF SleepStaged, ToCome, Devices, AccelGoto, Sleeps, Fails
<1>1. AccelInit => SleepStaged
  BY DEF AccelInit
<1>2. SleepStaged /\ [AccelNext]_accelVars => SleepStaged'
  <2> SUFFICES ASSUME SleepStaged, [AccelNext]_accelVars PROVE SleepStaged'
    OBVIOUS
  <2>1. CASE I2cMain
    <3>1. ToCome = {} /\ accelPc # "done" /\ UNCHANGED <<awake, failed>>
      BY <2>1 DEF I2cMain, ReadWhoAmI, i2c_reg_write_byte, i2c_reg_update_byte,
                  i2c_burst_read, i2c_burst_write, I2cFails, sleepVars
    <3> QED BY <3>1
  <2>2. CASE setup_gpio
    BY <2>2 DEF setup_gpio
  <2>3. CASE setup_accel
    BY <2>3 DEF setup_accel
  <2>4. CASE SuspendFlash
    BY <2>4 DEF SuspendFlash
  <2>5. CASE nrf_modem_lib_init
    BY <2>5 DEF nrf_modem_lib_init
  <2>6. CASE setup_uart
    BY <2>6 DEF setup_uart
  <2>7. ASSUME NEW first \in AccelImages \cup {"off"}, AccelBoot(first)
        PROVE  SleepStaged'
    BY <2>7 DEF AccelBoot, AccelImages
  <2>8. CASE UNCHANGED accelVars
    BY <2>8 DEF accelVars, sleepVars
  <2> QED BY <2>1, <2>2, <2>3, <2>4, <2>5, <2>6, <2>7, <2>8
          DEF AccelNext, AccelStep, SleepMain
<1>3. SleepStaged => OnlyFailedAwake
  BY DEF OnlyFailedAwake
<1> QED BY <1>1, <1>2, <1>3, PTL DEF AccelSpec

\* A chip that the driver has set up has its pull-up disconnected, and keeps it
\* so while active_sleep runs.
ChipAsleep ==
  /\ accelResult # "none" => accelPc = "done"
  /\ accelPc \in {"gpio", "accel"} =>
       "accel" \in awake /\ (accel_ready => CTRL0 = "no_pull_up")
  /\ accelPc \in {"flash", "modem", "console", "done"} /\ accelResult = "none" =>
       "accel" \in awake \/ (rate = "down" /\ CTRL0 = "no_pull_up")

\* What active_sleep puts to sleep is asleep, whatever direct_i2c_access has
\* written to the chip before.
THEOREM ChipSleeps == AccelSpec => []AccelAsleep
<1>1. AccelInit => ChipAsleep
  BY DEF AccelInit, ChipAsleep
<1>2. RegistersKept /\ ChipAsleep /\ [AccelNext]_accelVars => ChipAsleep'
  <2> SUFFICES ASSUME RegistersKept, ChipAsleep, [AccelNext]_accelVars
               PROVE  ChipAsleep'
    OBVIOUS
  <2> USE DEF ChipAsleep, AccelGoto, registers, i2cVars, sleepVars, Sleeps, Fails
  <2>1. CASE I2cMain
    <3>1. /\ accelPc \in {"who_am_i", "write_ctrl0", "update_ctrl1", "burst_read",
                         "burst_write"}
          /\ \/ accelPc' = "done" /\ accelResult' # "none"
             \/ /\ accelPc' \in {"write_ctrl0", "update_ctrl1", "burst_read",
                                 "burst_write"}
                /\ accelResult' = accelResult
      BY <2>1 DEF I2cMain, ReadWhoAmI, i2c_reg_write_byte, i2c_reg_update_byte,
                  i2c_burst_read, i2c_burst_write, I2cFails
    <3> QED BY <3>1
  <2>2. CASE setup_gpio
    BY <2>2, PinsAssumption DEF setup_gpio
  <2>3. CASE setup_accel
    BY <2>3 DEF setup_accel
  <2>4. CASE SuspendFlash
    BY <2>4 DEF SuspendFlash
  <2>5. CASE nrf_modem_lib_init
    BY <2>5 DEF nrf_modem_lib_init
  <2>6. CASE setup_uart
    BY <2>6 DEF setup_uart
  <2>7. ASSUME NEW first \in AccelImages \cup {"off"}, AccelBoot(first)
        PROVE  ChipAsleep'
    <3>1. CASE first = "active_sleep"
      <4>1. accelPc' = "gpio" /\ accelResult' = "none" /\ "accel" \in awake'
        BY <2>7, <3>1 DEF AccelBoot, Devices
      <4>2. accel_ready' => CTRL0' = "no_pull_up"
        BY <2>7, <3>1 DEF AccelBoot, DriverImages, lis2dh_init, PullUpDisconnected,
                          RegistersKept
      <4> QED BY <4>1, <4>2
    <3>2. CASE first # "active_sleep"
      BY <2>7, <3>2 DEF AccelBoot
    <3> QED BY <3>1, <3>2
  <2>8. CASE UNCHANGED accelVars
    BY <2>8 DEF accelVars
  <2> QED BY <2>1, <2>2, <2>3, <2>4, <2>5, <2>6, <2>7, <2>8
          DEF AccelNext, AccelStep, SleepMain
<1>3. ChipAsleep => AccelAsleep
  BY DEF ChipAsleep, AccelAsleep
<1> QED BY <1>1, <1>2, <1>3, BurstsKeepRegisters, PTL DEF AccelSpec

\* The images of the accelerometer keep their promises.
THEOREM AccelKept == AccelSpec => []AccelSafe
BY BurstsKeepRegisters, SleepIsComplete, ChipSleeps, PTL DEF AccelSafe

-----------------------------------------------------------------------------
(* The board.                                                              *)

\* Whatever is flashed and whenever the board is reset, each component behaves
\* as it does alone.
LEMMA ComponentsBehave ==
  Spec => FlashSpec /\ SmsSpec /\ RtcSpec /\ LedSpec /\ JsonSpec /\ AccelSpec
            /\ ZbusSpec
<1>1. Init => FlashInit /\ SmsInit /\ RtcInit /\ LedInit /\ JsonInit
                /\ AccelInit /\ ZbusInit
  BY DEF Init
<1>2. ASSUME [Next]_vars
      PROVE  /\ [FlashNext]_flashVars /\ [SmsNext]_smsVars /\ [RtcNext]_rtcVars
             /\ [LedNext]_ledVars /\ [JsonNext]_jsonVars
             /\ [AccelNext]_accelVars /\ [ZbusNext]_zbusVars
  <2>1. CASE Step
    BY <2>1 DEF Step, FlashNext, SmsNext, RtcNext, LedNext, JsonNext, AccelNext,
                ZbusNext
  <2>2. ASSUME NEW img \in family, Boot(img)
        PROVE  /\ FlashNext /\ SmsNext /\ RtcNext /\ LedNext /\ JsonNext
               /\ AccelNext /\ ZbusNext
    <3>1. FirstRtcStep(img) \in FirstSteps /\ AccelImage(img) \in AccelImages \cup {"off"}
      BY DEF FirstRtcStep, FirstSteps, AccelImage
    <3> QED BY <2>2, <3>1 DEF Boot, FlashNext, SmsNext, RtcNext, LedNext, JsonNext,
                              AccelNext, ZbusNext
  <2>3. CASE UNCHANGED vars
    BY <2>3 DEF vars
  <2> QED BY <1>2, <2>1, <2>2, <2>3 DEF Next
<1> QED BY <1>1, <1>2, PTL DEF Spec, FlashSpec, SmsSpec, RtcSpec, LedSpec,
           JsonSpec, AccelSpec, ZbusSpec

\* Every variable of the board stays in its range.
THEOREM BoardTypeCorrect == Spec => []TypeOK
<1>1. Init => family \in Families /\ image \in {"off"} \cup family
  BY DEF Init
<1>2. (family \in Families /\ image \in {"off"} \cup family) /\ [Next]_vars
        => (family \in Families /\ image \in {"off"} \cup family)'
  BY DEF Next, Step, Boot, vars
<1>3. Spec => [](family \in Families /\ image \in {"off"} \cup family)
  BY <1>1, <1>2, PTL DEF Spec
<1> QED BY <1>3, ComponentsBehave, FlashTypeCorrect, SmsTypeCorrect,
           RtcTypeCorrect, LedTypeCorrect, JsonTypeCorrect, AccelTypeCorrect,
           ZbusTypeCorrect, PTL DEF TypeOK

\* Whatever is flashed in any order, and reset at any step, every image keeps
\* its promises.
THEOREM BoardSafe ==
  Spec => [](FlashSafe /\ SmsSafe /\ SyncSafe /\ LedSafe /\ CodecSafe
               /\ AccelSafe /\ NoTickForgotten)
BY ComponentsBehave, BootsCounted, PressesQueued, ClockSetSafely, LedsLeftDark,
   CodecKeepsBuffer, AccelKept, TicksRemembered, PTL

\* The board's flash keeps the count as the abstract counter has it, and ticks
\* become samples as the abstract sampler has it, also with other images flashed
\* in between.
THEOREM BoardCounts ==
  Spec => ImplementsCounter /\ MarkedCountKept /\ ImplementsSampler
BY ComponentsBehave, FlashImplementsCounter, MarkedCountSurvives,
   SamplerImplemented, PTL

\* On the board too, whatever is flashed and reset, presses, reports of the time,
\* alarms and ticks are served, unless a reset takes them away, and every LED's
\* turn comes.
THEOREM BoardServes ==
  FairSpec /\ []ThreadsGoOn
    => /\ PressServed /\ ClockServed /\ TickServed
       /\ InductionOverCalls => EveryLedTested
BY ComponentsBehave, PressIsServed, ClockIsServed, TickIsServed, LedsAreTested, PTL
   DEF FairSpec, ThreadsGoOn

\* No component does anything but while its own image runs: a component that
\* is off stays off until a boot starts its image.
THEOREM OneRuns == Spec => []OneImageRuns
<1>1. Init => OneImageRuns
  BY DEF Init, OneImageRuns, FlashInit, SmsInit, RtcInit, LedInit, JsonInit,
         AccelInit, ZbusInit
<1>2. OneImageRuns /\ [Next]_vars => OneImageRuns'
  <2> SUFFICES ASSUME OneImageRuns, [Next]_vars PROVE OneImageRuns'
    OBVIOUS
  <2>1. ASSUME FlashStep PROVE flashPc # "off"
    BY <2>1 DEF FlashStep, nor_storage_init, nor_storage_increment, fs_stat,
       littlefs_flash_erase, fs_mkdir, fs_open, ReadCount, fs_write, fs_close,
       FlashGoto, Returns, FailsAt, ClosesAfterError
  <2>2. ASSUME SmsStep PROVE smsPc # "off" \/ smsPc' = smsPc
    BY <2>2 DEF SmsStep, SmsMain, SmsWork, ConfigurePin, EnableInterrupt,
       gpio_add_callback, k_work_init_delayable, button_pressed, StartHandler,
       nrf_modem_at_cmd_async, at_cmd_handler, SmsGoto, histVars
  <2>3. ASSUME RtcStep PROVE rtcPc # "off" \/ rtcPc' = rtcPc
    BY <2>3 DEF RtcStep, SyncMain, AlarmMain, rtc_init, lte_lc_connect,
       date_time_update_async, CheckRequest, WaitForTime, GetTime,
       pcf85063a_set_time, pcf85063a_get_time, counter_set_channel_alarm,
       counter_get_pending_int, counter_cancel_channel_alarm, AlarmGoesOff,
       date_time_event_handler, RtcGoto, RtcFails
  <2>4. ASSUME LedStep PROVE ledPc # "off"
    BY <2>4 DEF LedStep, device_get_binding, run_led_test, led_on, led_off,
       led_set_brightness, BlinkFast, BlinkSlowly, FinalOff, LedGoto
  <2>5. ASSUME JsonStep PROVE jsonPc # "off"
    BY <2>5 DEF JsonStep, example_json_codec_encode, json_calc_encoded_len,
       json_obj_encode_buf
  <2>6. ASSUME AccelStep PROVE accelPc # "off"
    BY <2>6 DEF AccelStep, I2cMain, SleepMain, ReadWhoAmI, i2c_reg_write_byte,
       i2c_reg_update_byte, i2c_burst_read, i2c_burst_write, I2cFails,
       setup_gpio, setup_accel, SuspendFlash, nrf_modem_lib_init, setup_uart,
       AccelGoto
  <2>7. ASSUME ZbusStep PROVE init # "off" \/ init' = init
    BY <2>7 DEF ZbusStep, SysInit, WorkQueue, sensor_task, sensor_init,
       timer_start_init, StartThreads, Tick, start_work_handler,
       PutNotification, PutTimeout, zbus_sub_wait, sensor_sample_fetch,
       sensor_channel_get, PublishSample
  <2>8. CASE Step
    BY <2>1, <2>2, <2>3, <2>4, <2>5, <2>6, <2>7, <2>8
       DEF Step, OneImageRuns, flashVars, smsVars, rtcVars, ledVars, jsonVars,
           accelVars, zbusVars
  <2>9. ASSUME NEW img \in family, Boot(img) PROVE OneImageRuns'
    BY <2>9 DEF Boot, OneImageRuns, FlashBoot, SmsBoot, RtcBoot, LedBoot,
       JsonBoot, AccelBoot, ZbusBoot, FirstRtcStep, AccelImage
  <2>10. CASE UNCHANGED vars
    BY <2>10 DEF vars, OneImageRuns, flashVars, smsVars, rtcVars, ledVars,
       jsonVars, accelVars, zbusVars
  <2> QED BY <2>8, <2>9, <2>10 DEF Next
<1> QED BY <1>1, <1>2, PTL DEF Spec
=============================================================================
