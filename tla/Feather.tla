------------------------------ MODULE Feather ------------------------------
(***************************************************************************)
(* One board, on which images are flashed one after another and which is   *)
(* reset at any moment.  A reset takes away everything the processor held; *)
(* the external flash, the clock and the accelerometer keep what the       *)
(* images before have left in them.                                        *)
(*                                                                         *)
(* Every image is modelled in a module of its own, as a component that is  *)
(* "off" while another image runs.  Only the images of one family, which   *)
(* share devices, are exchanged for one another: what images of different  *)
(* families do is independent.                                             *)
(***************************************************************************)
EXTENDS FlashCounter, Sms, Rtc, LedPwm, JsonCodec, Accelerometer, AccelZbus

CONSTANT
  Families   \* sets of images that are flashed on the same board

Images == {"external_flash", "sms", "external_rtc_time_sync", "external_rtc",
           "led_pwm", "codec", "direct_i2c_access", "active_sleep",
           "accelerometer_zbus"}

ASSUME FeatherAssumption == Families \subseteq SUBSET Images

VARIABLES
  family,  \* fixed: the images that are flashed on this board
  image    \* the image that runs, "off" before the first boot

vars == <<family, image, flashVars, smsVars, rtcVars, ledVars, jsonVars,
          accelVars, zbusVars>>

\* A device that no image of the family uses is in one state from the start.
UnusedAtRest ==
  /\ "external_flash" \in family \/ (~wipe /\ stored = 0)
  /\ "external_rtc" \in family \/ "external_rtc_time_sync" \in family \/ ticking
  /\ family \cap AccelImages # {} \/ 
       (increments /\ x_enabled /\ CTRL0 = "default" /\ rate = "down")

Init ==
  /\ family \in Families /\ image = "off"
  /\ FlashInit /\ SmsInit /\ RtcInit /\ LedInit /\ JsonInit /\ AccelInit
  /\ ZbusInit
  /\ UnusedAtRest

\* The first step of the clock's two images, and the accelerometer's images.
FirstRtcStep(img) == CASE img = "external_rtc_time_sync" -> "start"
                       [] img = "external_rtc"           -> "alarm"
                       [] OTHER                          -> "off"
AccelImage(img) == IF img \in AccelImages THEN img ELSE "off"

\* A reset, a power-up or the flashing of another image.  The accelerometer is
\* there for accelerometer_zbus if its driver could set it up.
Boot(img) ==
  /\ image' = img /\ UNCHANGED family
  /\ FlashBoot(img = "external_flash") /\ SmsBoot(img = "sms")
  /\ RtcBoot(FirstRtcStep(img)) /\ LedBoot(img = "led_pwm")
  /\ JsonBoot(img = "codec") /\ AccelBoot(AccelImage(img))
  /\ ZbusBoot(img = "accelerometer_zbus")
  /\ img = "accelerometer_zbus" => ready' = accel_ready'

\* The image that runs, and the devices, take a step.
Step ==
  /\ \/ /\ FlashStep
        /\ UNCHANGED <<smsVars, rtcVars, ledVars, jsonVars, accelVars, zbusVars>>
     \/ /\ SmsStep
        /\ UNCHANGED <<flashVars, rtcVars, ledVars, jsonVars, accelVars, zbusVars>>
     \/ /\ RtcStep
        /\ UNCHANGED <<flashVars, smsVars, ledVars, jsonVars, accelVars, zbusVars>>
     \/ /\ LedStep
        /\ UNCHANGED <<flashVars, smsVars, rtcVars, jsonVars, accelVars, zbusVars>>
     \/ /\ JsonStep
        /\ UNCHANGED <<flashVars, smsVars, rtcVars, ledVars, accelVars, zbusVars>>
     \/ /\ AccelStep
        /\ UNCHANGED <<flashVars, smsVars, rtcVars, ledVars, jsonVars, zbusVars>>
     \/ /\ ZbusStep
        /\ UNCHANGED <<flashVars, smsVars, rtcVars, ledVars, jsonVars, accelVars>>
  /\ UNCHANGED <<family, image>>

Next == Step \/ \E img \in family : Boot(img)

Spec == Init /\ [][Next]_vars

FairSpec == Spec /\ SmsFairness /\ RtcFairness /\ LedFairness /\ ZbusFairness

-----------------------------------------------------------------------------
\* A reset is always possible, so that the board as a whole is never in a
\* deadlock.  What could be: no thread of the image that runs gets stuck.
ThreadsGoOn == SmsGoesOn /\ RtcGoesOn /\ LedGoesOn /\ ZbusGoesOn

(* Every component's type invariant, and that at most the component of the *)
(* image that runs is on.                                                  *)

TypeOK ==
  /\ family \in Families /\ image \in {"off"} \cup family
  /\ FlashTypeOK /\ SmsTypeOK /\ RtcTypeOK /\ LedTypeOK /\ JsonTypeOK
  /\ AccelTypeOK /\ ZbusTypeOK

OneImageRuns ==
  /\ flashPc # "off" => image = "external_flash"
  /\ smsPc # "off"   => image = "sms"
  /\ rtcPc # "off"   => image \in {"external_rtc_time_sync", "external_rtc"}
  /\ ledPc # "off"   => image = "led_pwm"
  /\ jsonPc # "off"  => image = "codec"
  /\ accelPc # "off" => image \in AccelImages
  /\ init # "off"    => image = "accelerometer_zbus"
=============================================================================
