--------------------------- MODULE Accelerometer ---------------------------
(***************************************************************************)
(* The images of the nRF9160 Feather that leave their mark in the LIS2DH   *)
(* accelerometer: direct_i2c_access writes its registers by hand,          *)
(* active_sleep puts the board's devices to sleep one after another and    *)
(* looks at no result, and accelerometer_zbus, which AccelZbus models,     *)
(* uses it as a sensor.  The last two are built with the chip's driver,    *)
(* which sets it up before main.  The chip keeps its registers while the   *)
(* processor is reset or given another image.                              *)
(*                                                                         *)
(* The chip and the drivers are outside src/.  An access may fail; a burst *)
(* that fails may have written its first byte.  Whether a burst goes on to *)
(* the next register depends on the chip, which the model leaves open.     *)
(***************************************************************************)
CONSTANT
  Pins   \* the pins that active_sleep configures

ASSUME PinsAssumption ==
  Pins \cap {"accel", "flash", "modem", "console", "hfclk"} = {}

VARIABLES
  increments, \* fixed: a burst goes on to the next register
  CTRL0,      \* register 0x1e: "default", or with the pull-up of a pin
              \* disconnected, as the board's device tree asks for
  TEMP_CFG,   \* register 0x1f; "found" is what it has held from power-up
  x_enabled,  \* bit 0 of register CTRL1 (0x20)
  rate,       \* the other bits of CTRL1: "down" or "sampling"
  accel_ready,\* the driver's set-up has succeeded
  accelPc,    \* where main is; "off" while neither of the first two runs
  ctrl0_ctrl1,\* direct_i2c_access: the two bytes of the bursts
  accelResult,\* direct_i2c_access: "none", "ok" or "error"
  awake,      \* active_sleep: the devices not put to sleep yet
  failed      \* history: that of which active_sleep's own call failed

registers == <<CTRL0, TEMP_CFG, x_enabled, rate>>
i2cVars   == <<ctrl0_ctrl1, accelResult>>
sleepVars == <<awake, failed>>
accelVars == <<increments, registers, accel_ready, accelPc, i2cVars, sleepVars>>

\* What active_sleep is to put into its state of least consumption.
Devices == Pins \cup {"accel", "flash", "modem", "console", "hfclk"}

DriverImages == {"active_sleep", "accelerometer_zbus"}
AccelImages  == {"direct_i2c_access"} \cup DriverImages

\* Programs before these may have disabled the axis, left it sampling, or
\* disconnected the pull-up.
AccelInit ==
  /\ increments \in BOOLEAN
  /\ CTRL0 \in {"default", "no_pull_up"} /\ TEMP_CFG = "found"
  /\ x_enabled \in BOOLEAN /\ rate \in {"down", "sampling"}
  /\ accel_ready = FALSE
  /\ accelPc = "off" /\ ctrl0_ctrl1 = <<"zero", "zero">>
  /\ accelResult = "none" /\ awake = {} /\ failed = {}

\* One bit of CTRL0 is set, and the rest kept.
PullUpDisconnected(r) == IF r = "default" THEN "no_pull_up" ELSE r

\* The driver's set-up, access by access: it disconnects the pull-up, clears
\* CTRL1, and at last sets the rate and the axes; it ends with the first error.
lis2dh_init ==
  \/ /\ accel_ready' = FALSE
     /\ UNCHANGED <<CTRL0, x_enabled, rate>>
  \/ /\ CTRL0' = PullUpDisconnected(CTRL0)
     /\ \/ accel_ready' = FALSE /\ UNCHANGED <<x_enabled, rate>>
        \/ accel_ready' = FALSE /\ x_enabled' = FALSE /\ rate' = "down"
        \/ accel_ready' = TRUE  /\ x_enabled' = TRUE  /\ rate' = "sampling"

\* The processor is reset and starts one of the images, or none ("off").
AccelBoot(first) ==
  /\ accelPc' = CASE first = "direct_i2c_access" -> "who_am_i"
                  [] first = "active_sleep"      -> "gpio"
                  [] OTHER                       -> "off"
  /\ ctrl0_ctrl1' = <<"zero", "zero">> /\ accelResult' = "none"
  /\ awake' = IF first = "active_sleep" THEN Devices ELSE {}
  /\ failed' = {}
  /\ IF first \in DriverImages
     THEN lis2dh_init
     ELSE accel_ready' = FALSE /\ UNCHANGED <<CTRL0, x_enabled, rate>>
  /\ UNCHANGED <<increments, TEMP_CFG>>

AccelGoto(from, to) == accelPc = from /\ accelPc' = to

-----------------------------------------------------------------------------
(* direct_i2c_access: the first error ends main.                           *)

I2cFails(from) ==
  /\ AccelGoto(from, "done") /\ accelResult' = "error"
  /\ UNCHANGED <<increments, accel_ready, registers, ctrl0_ctrl1, sleepVars>>

\* The readiness of the bus and the register WAI, which is only printed.
ReadWhoAmI ==
  \/ /\ AccelGoto("who_am_i", "write_ctrl0")
     /\ UNCHANGED <<increments, accel_ready, registers, i2cVars, sleepVars>>
  \/ I2cFails("who_am_i")

i2c_reg_write_byte ==
  \/ /\ AccelGoto("write_ctrl0", "update_ctrl1") /\ CTRL0' = "default"
     /\ UNCHANGED <<increments, accel_ready, TEMP_CFG, x_enabled, rate, i2cVars, sleepVars>>
  \/ I2cFails("write_ctrl0")

\* Reads the register, sets one bit and writes it back.
i2c_reg_update_byte ==
  \/ /\ AccelGoto("update_ctrl1", "burst_read") /\ x_enabled' = TRUE
     /\ UNCHANGED <<increments, accel_ready, CTRL0, TEMP_CFG, rate, i2cVars, sleepVars>>
  \/ I2cFails("update_ctrl1")

\* The second byte is not that of CTRL1, which the messages speak of.  The
\* variants called Wrong_, here and below, are mistakes that the properties
\* tell from the code.
SecondByte == IF increments THEN TEMP_CFG ELSE CTRL0

Wrong_ReadErrorIgnored ==
  /\ AccelGoto("burst_read", "burst_write")
  /\ ctrl0_ctrl1' \in {<<CTRL0, SecondByte>>, ctrl0_ctrl1}
  /\ UNCHANGED <<increments, accel_ready, registers, accelResult, sleepVars>>

i2c_burst_read ==
  \/ /\ AccelGoto("burst_read", "burst_write")
     /\ ctrl0_ctrl1' = <<CTRL0, SecondByte>>
     /\ UNCHANGED <<increments, accel_ready, registers, accelResult, sleepVars>>
  \/ I2cFails("burst_read")

WriteFirst == CTRL0' = ctrl0_ctrl1[1] /\ UNCHANGED TEMP_CFG

WriteBoth ==
  IF increments THEN CTRL0' = ctrl0_ctrl1[1] /\ TEMP_CFG' = ctrl0_ctrl1[2]
                ELSE CTRL0' = ctrl0_ctrl1[2] /\ UNCHANGED TEMP_CFG

i2c_burst_write ==
  /\ \/ accelResult' = "ok" /\ WriteBoth
     \/ accelResult' = "error" /\ (WriteFirst \/ UNCHANGED <<CTRL0, TEMP_CFG>>)
  /\ AccelGoto("burst_write", "done")
  /\ UNCHANGED <<increments, accel_ready, x_enabled, rate, ctrl0_ctrl1, sleepVars>>

I2cMain == ReadWhoAmI \/ i2c_reg_write_byte \/ i2c_reg_update_byte
             \/ i2c_burst_read \/ i2c_burst_write

-----------------------------------------------------------------------------
(* active_sleep on this board: every call is made, whatever came before.   *)

Sleeps(d) == awake' = awake \ {d} /\ UNCHANGED failed
Fails(d)  == failed' = failed \cup {d} /\ UNCHANGED awake

\* Each pin's own configuration may fail.
setup_gpio ==
  /\ AccelGoto("gpio", "accel")
  /\ \E bad \in SUBSET Pins : /\ awake' = awake \ (Pins \ bad)
                              /\ failed' = failed \cup bad
  /\ UNCHANGED <<increments, accel_ready, registers, i2cVars>>

\* The driver has not been set up, or the rate cannot be set to 0.
setup_accel ==
  /\ AccelGoto("accel", "flash")
  /\ \/ accel_ready /\ rate' = "down" /\ Sleeps("accel")
     \/ Fails("accel") /\ UNCHANGED rate
  /\ UNCHANGED <<increments, accel_ready, CTRL0, TEMP_CFG, x_enabled, i2cVars>>

\* nor_storage_init of this image.
SuspendFlash ==
  /\ AccelGoto("flash", "modem")
  /\ Sleeps("flash") \/ Fails("flash")
  /\ UNCHANGED <<increments, accel_ready, registers, i2cVars>>

nrf_modem_lib_init ==
  /\ AccelGoto("modem", "console")
  /\ Sleeps("modem") \/ Fails("modem")
  /\ UNCHANGED <<increments, accel_ready, registers, i2cVars>>

\* The clock is stopped only if the console could be suspended.
setup_uart ==
  /\ AccelGoto("console", "done")
  /\ \/ awake' = awake \ {"console", "hfclk"} /\ UNCHANGED failed
     \/ Fails("console")
  /\ UNCHANGED <<increments, accel_ready, registers, i2cVars>>

SleepMain == setup_gpio \/ setup_accel \/ SuspendFlash \/ nrf_modem_lib_init
               \/ setup_uart

-----------------------------------------------------------------------------
AccelStep == I2cMain \/ SleepMain

AccelNext ==
  AccelStep \/ \E first \in AccelImages \cup {"off"} : AccelBoot(first)

AccelSpec == AccelInit /\ [][AccelNext]_accelVars

-----------------------------------------------------------------------------
(* What the programs promise.                                              *)

Bytes == {"default", "no_pull_up", "found", "zero"}

AccelTypeOK ==
  /\ increments \in BOOLEAN /\ x_enabled \in BOOLEAN
  /\ CTRL0 \in Bytes /\ TEMP_CFG \in Bytes
  /\ rate \in {"down", "sampling"} /\ accel_ready \in BOOLEAN
  /\ accelPc \in {"off", "who_am_i", "write_ctrl0", "update_ctrl1",
                  "burst_read", "burst_write", "gpio", "accel", "flash",
                  "modem", "console", "done"}
  /\ ctrl0_ctrl1 \in Bytes \X Bytes
  /\ accelResult \in {"none", "ok", "error"}
  /\ awake \subseteq Devices /\ failed \subseteq Devices

\* Whatever access fails and wherever a boot is reset, the bursts write back
\* nothing but what the burst before has read: TEMP_CFG keeps its value, CTRL0
\* loses none of its bits but the one that the driver sets, and from the write
\* of the default on that one is clear, until an image with the driver boots.
RegistersKept ==
  /\ TEMP_CFG = "found" /\ CTRL0 \in {"default", "no_pull_up"}
  /\ accelPc \in {"update_ctrl1", "burst_read", "burst_write"} \/ accelResult = "ok"
       => CTRL0 = "default"

\* When active_sleep's main returns, only a device whose own call failed is
\* still awake: no failure keeps another device up, but for the clock that is
\* stopped after the console.
OnlyFailedAwake ==
  accelPc = "done" =>
    \A d \in awake : d \in failed \/ (d = "hfclk" /\ "console" \in failed)

\* An accelerometer that active_sleep has put to sleep samples nothing and has
\* its pull-up disconnected, whatever the images before left in its registers.
AccelAsleep ==
  accelPc = "done" /\ accelResult = "none" /\ "accel" \notin awake =>
    rate = "down" /\ CTRL0 = "no_pull_up"

\* All of it: what the images promise of the chip's registers, alone and after
\* one another, and that no device is left awake needlessly.
AccelSafe == RegistersKept /\ OnlyFailedAwake /\ AccelAsleep
=============================================================================
