-------------------------------- MODULE Rtc --------------------------------
(***************************************************************************)
(* The PCF85063A clock and the two samples that use it.                    *)
(* external_rtc_time_sync asks the date-time library for the time of the   *)
(* network, waits for the library's callback and sets the clock.           *)
(* external_rtc sets an alarm, polls for it and cancels it.                *)
(*                                                                         *)
(* The clock keeps its time and its alarm while the processor is reset or  *)
(* given another image.  The clock, its driver and the library, which      *)
(* calls back from a thread of its own and retries by itself, are outside  *)
(* src/ and modelled from how the samples use them.                        *)
(***************************************************************************)
EXTENDS Naturals

VARIABLES
  rtcTime,         \* the time in the clock: "other" or "network"
  ticking,         \* the clock has been started
  alarm_on,        \* the clock's alarm is armed
  flag,            \* the alarm has gone off and has not been cleared
  rtcPc,           \* where main is; "off" while neither image runs
  requested,       \* the library has accepted the request and the handler
  date_time_ready, \* count of the semaphore, at most 1
  obtained,        \* history: the library has reported a time in this boot
  timer_flag,      \* external_rtc has seen the alarm
  rtcResult,       \* what main returned: "none", "ok" or "error"
  rtcClean         \* history: no call has failed in this boot

clockVars == <<rtcTime, ticking, alarm_on, flag>>
syncVars  == <<requested, date_time_ready, obtained>>
rtcVars   == <<clockVars, syncVars, rtcPc, timer_flag, rtcResult, rtcClean>>

RtcInit ==
  /\ rtcTime = "other" /\ ticking \in BOOLEAN
  /\ alarm_on = FALSE /\ flag = FALSE
  /\ rtcPc = "off" /\ requested = FALSE /\ date_time_ready = 0
  /\ obtained = FALSE /\ timer_flag = FALSE
  /\ rtcResult = "none" /\ rtcClean = TRUE

\* The processor is reset; the first step of the image that runs is given,
\* "off" if it is neither of the two.
RtcBoot(first) ==
  /\ rtcPc' = first
  /\ requested' = FALSE /\ date_time_ready' = 0 /\ obtained' = FALSE
  /\ timer_flag' = FALSE /\ rtcResult' = "none" /\ rtcClean' = TRUE
  /\ UNCHANGED clockVars

FirstSteps == {"start", "alarm", "off"}

RtcGoto(from, to) == rtcPc = from /\ rtcPc' = to

\* A call succeeds, or fails without an effect on the state it would change.
Called == UNCHANGED rtcClean
Missed(kept) == rtcClean' = FALSE /\ UNCHANGED kept
MayFail == rtcClean' \in {rtcClean, FALSE}

-----------------------------------------------------------------------------
(* external_rtc_time_sync.                                                 *)

\* rtc_init: a failure is only logged.
rtc_init ==
  /\ RtcGoto("start", "connect")
  /\ \/ ticking' = TRUE /\ Called
     \/ Missed(ticking)
  /\ UNCHANGED <<rtcTime, alarm_on, flag, syncVars, timer_flag, rtcResult>>

\* The link to the network; a failure is only logged.
lte_lc_connect ==
  /\ RtcGoto("connect", "request")
  /\ MayFail
  /\ UNCHANGED <<clockVars, syncVars, timer_flag, rtcResult>>

\* From here on the library may call back, even before it has returned.
date_time_update_async ==
  /\ RtcGoto("request", "check")
  /\ \/ requested' = TRUE /\ Called
     \/ Missed(requested)
  /\ UNCHANGED <<clockVars, date_time_ready, obtained, timer_flag, rtcResult>>

\* A request that failed is only logged: main waits in any case.
CheckRequest ==
  /\ RtcGoto("check", "wait")
  /\ UNCHANGED <<clockVars, syncVars, timer_flag, rtcResult, rtcClean>>

\* Which events give the semaphore.  The variants called Wrong_, here and
\* below, are mistakes that the properties tell from the code.
Wrong_OnlyWhileWaiting(type) == type = "obtained" /\ rtcPc = "wait"
Gives(type) == type = "obtained"

date_time_event_handler(type) ==
  /\ requested
  /\ date_time_ready' = IF Gives(type) THEN 1 ELSE date_time_ready
  /\ obtained' = (obtained \/ type = "obtained")
  /\ UNCHANGED <<clockVars, requested, rtcPc, timer_flag, rtcResult, rtcClean>>

WaitForTime ==
  /\ RtcGoto("wait", "convert")
  /\ date_time_ready = 1 /\ date_time_ready' = 0
  /\ UNCHANGED <<clockVars, requested, obtained, timer_flag, rtcResult, rtcClean>>

\* main returns the error of a call.
RtcFails(from) == RtcGoto(from, "done") /\ rtcResult' = "error" /\ rtcClean' = FALSE

\* date_time_now and gmtime.
GetTime ==
  /\ \/ RtcGoto("convert", "set") /\ Called /\ UNCHANGED rtcResult
     \/ RtcFails("convert")
  /\ UNCHANGED <<clockVars, syncVars, timer_flag>>

\* A write that fails may have changed some of the clock's registers.
Wrong_SetErrorIgnored ==
  /\ RtcGoto("set", "read") /\ UNCHANGED rtcResult
  /\ \/ rtcTime' = "network" /\ Called
     \/ rtcTime' = "other" /\ rtcClean' = FALSE
  /\ UNCHANGED <<ticking, alarm_on, flag, syncVars, timer_flag>>

pcf85063a_set_time ==
  /\ \/ /\ RtcGoto("set", "read") /\ rtcTime' = "network"
        /\ Called /\ UNCHANGED rtcResult
     \/ RtcFails("set") /\ rtcTime' \in {rtcTime, "other"}
  /\ UNCHANGED <<ticking, alarm_on, flag, syncVars, timer_flag>>

\* The time is read back and printed; a failure is only logged.
pcf85063a_get_time ==
  /\ RtcGoto("read", "done") /\ rtcResult' = "ok"
  /\ MayFail
  /\ UNCHANGED <<clockVars, syncVars, timer_flag>>

SyncMain ==
  \/ rtc_init \/ lte_lc_connect \/ date_time_update_async \/ CheckRequest
  \/ WaitForTime \/ GetTime \/ pcf85063a_set_time \/ pcf85063a_get_time

-----------------------------------------------------------------------------
(* external_rtc.                                                           *)

\* Whether the driver clears an old flag is not known here.
counter_set_channel_alarm ==
  /\ RtcGoto("alarm", "poll")
  /\ \/ alarm_on' = TRUE /\ flag' \in {flag, FALSE} /\ Called
     \/ Missed(<<alarm_on, flag>>)
  /\ UNCHANGED <<rtcTime, ticking, syncVars, timer_flag, rtcResult>>

\* No line of this image starts the clock: an earlier one may have stopped it.
AlarmGoesOff ==
  /\ alarm_on /\ ticking /\ flag' = TRUE
  /\ UNCHANGED <<rtcTime, ticking, alarm_on, syncVars, rtcPc, timer_flag,
                 rtcResult, rtcClean>>

\* main looks every 100 ms; a read that fails or finds nothing changes nothing.
counter_get_pending_int ==
  /\ RtcGoto("poll", "cancel") /\ flag
  /\ timer_flag' = TRUE
  /\ UNCHANGED <<clockVars, syncVars, rtcResult, rtcClean>>

\* Then the loop only sleeps: timer_flag stays set.
counter_cancel_channel_alarm ==
  /\ RtcGoto("cancel", "sleep")
  /\ \/ alarm_on' = FALSE /\ flag' \in {flag, FALSE} /\ Called
     \/ Missed(<<alarm_on, flag>>)
  /\ UNCHANGED <<rtcTime, ticking, syncVars, timer_flag, rtcResult>>

AlarmMain == counter_set_channel_alarm \/ counter_get_pending_int
               \/ counter_cancel_channel_alarm

-----------------------------------------------------------------------------
RtcStep == SyncMain \/ AlarmMain \/ AlarmGoesOff
             \/ \E type \in {"obtained", "not_obtained"} :
                  date_time_event_handler(type)

RtcNext == RtcStep \/ \E first \in FirstSteps : RtcBoot(first)

RtcSpec == RtcInit /\ [][RtcNext]_rtcVars

\* Main is scheduled, an alarm that is armed goes off, and reading the pending
\* alarm does not fail for ever.  Nothing obliges the library to get a time.
RtcFairness == WF_rtcVars(SyncMain) /\ WF_rtcVars(AlarmMain)
                 /\ WF_rtcVars(AlarmGoesOff)

-----------------------------------------------------------------------------
(* What the programs promise.                                              *)

RtcTypeOK ==
  /\ rtcTime \in {"other", "network"} /\ ticking \in BOOLEAN
  /\ alarm_on \in BOOLEAN /\ flag \in BOOLEAN
  /\ rtcPc \in {"off", "start", "connect", "request", "check", "wait",
                "convert", "set", "read", "alarm", "poll", "cancel", "sleep", "done"}
  /\ requested \in BOOLEAN /\ date_time_ready \in 0..1 /\ obtained \in BOOLEAN
  /\ timer_flag \in BOOLEAN /\ rtcResult \in {"none", "ok", "error"}
  /\ rtcClean \in BOOLEAN

\* A time reported before main begins to wait is not forgotten.
TimeNotForgotten == rtcPc = "wait" /\ obtained => date_time_ready = 1

\* The clock is set after the library has reported a time, and on no other
\* event; until then main waits, for ever if need be.
SyncNeedsTime ==
  rtcPc \in {"convert", "set", "read"} \/ rtcResult # "none" => obtained

\* When main has returned 0 the clock holds the network's time, and if no call
\* failed, it has been started.
SyncedMeansSet ==
  rtcResult = "ok" => rtcTime = "network" /\ (rtcClean => ticking)

\* The clock is set exactly as reported, and no report is forgotten.
SyncSafe == TimeNotForgotten /\ SyncNeedsTime /\ SyncedMeansSet

\* main of either image can always take its next step unless it waits for the
\* library's report or for the alarm, and an alarm that is due can go off.
RtcGoesOn ==
  /\ \/ rtcPc \in {"start", "connect", "request", "check", "convert", "set", "read"}
     \/ (rtcPc = "wait" /\ date_time_ready = 1)
       => ENABLED <<SyncMain>>_rtcVars
  /\ rtcPc \in {"alarm", "cancel"} \/ (rtcPc = "poll" /\ flag)
       => ENABLED <<AlarmMain>>_rtcVars
  /\ alarm_on /\ ticking /\ ~flag => ENABLED <<AlarmGoesOff>>_rtcVars

\* A report of the time ends the waiting.
TimeServed == (rtcPc = "wait" /\ obtained) ~> (rtcPc # "wait")

\* An alarm that is armed, by this boot or an earlier one, ends the polling if the
\* clock is running.
AlarmReported == (rtcPc = "poll" /\ alarm_on /\ ticking) ~> (rtcPc # "poll")

\* Neither image waits for ever for what has come.
ClockServed == TimeServed /\ AlarmReported
=============================================================================
