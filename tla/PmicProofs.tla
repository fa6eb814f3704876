----------------------------- MODULE PmicProofs -----------------------------
(***************************************************************************)
(* What holds of the PMIC for either board, any sequence of images, resets *)
(* at any step and any failures.                                           *)
(***************************************************************************)
EXTENDS Pmic, TLAPS

\* Every variable stays in its range.
THEOREM TypeCorrect == Spec => []TypeOK
<1> USE PmicAssumption DEF Limit, Buck, ShipRegs, Images, Start
<1>1. Init => TypeOK
  BY DEF Init, TypeOK
<1>2. TypeOK /\ [Next]_vars => TypeOK'
  <2> SUFFICES ASSUME TypeOK, [Next]_vars PROVE TypeOK'
    OBVIOUS
  <2> USE DEF TypeOK, limitVars, buckVars, shipVars, program, StopsOnError
  <2>1. MainStart \in {"read_buck", "disable", "usb"}
    BY DEF MainStart
  <2>2. CASE ReadLimit
    BY <2>1, <2>2 DEF ReadLimit, return, Fails
  <2>3. CASE WriteLimit
    BY <2>1, <2>3 DEF WriteLimit, return, Fails, Target
  <2>4. CASE UpdateLimit
    BY <2>1, <2>4 DEF UpdateLimit, return, Fails
  <2>5. CASE DisableBuck2
    BY <2>5 DEF DisableBuck2
  <2>6. CASE ReadBuckctrl
    BY <2>6 DEF ReadBuckctrl
  <2>7. CASE WriteBuckctrl
    BY <2>7 DEF WriteBuckctrl, Pulldowns
  <2>8. CASE WriteConfig \/ WriteLpconfig
    BY <2>8 DEF WriteConfig, WriteLpconfig, WriteShip
  <2>9. CASE WriteStrobe
    BY <2>9 DEF WriteStrobe
  <2>10. CASE mfd_npm1300_hibernate
    BY <2>10 DEF mfd_npm1300_hibernate
  <2>11. ASSUME NEW enabled \in BOOLEAN, UsbSetMode(enabled) PROVE TypeOK'
    BY <2>11 DEF UsbSetMode
  <2>12. CASE PowerUp
    BY <2>12 DEF PowerUp, StartBoot, PowerUpRegisters
  <2>13. CASE Wake
    <3>1. CASE PowerUpRegisters
      BY <2>13, <3>1 DEF Wake, StartBoot, PowerUpRegisters
    <3>2. CASE UNCHANGED <<limitVars, buckVars, ship, strobed>>
      BY <2>13, <3>2 DEF Wake, StartBoot
    <3> QED BY <2>13, <3>1, <3>2 DEF Wake
  <2>14. ASSUME NEW img \in Images, Reset(img) PROVE TypeOK'
    BY <2>14 DEF Reset, StartBoot
  <2>15. CASE UNCHANGED vars
    BY <2>15 DEF vars
  <2> QED BY <2>2, <2>3, <2>4, <2>5, <2>6, <2>7, <2>8, <2>9, <2>10, <2>11,
             <2>12, <2>13, <2>14, <2>15 DEF Next, Processor, sysreg_setup
<1> QED BY <1>1, <1>2, PTL DEF Spec

-----------------------------------------------------------------------------
(* The current limit.                                                      *)

\* The register holds the limit while it is being applied; on the nRF9161 a
\* register that shows the limit is in force unless it is being applied.
LimitStaged ==
  /\ pc = "update" => ilim = Target
  /\ pc \in {"read_limit", "write_limit", "update"} => boot = "pending"
  /\ board = "nrf9161" /\ ilim = Target /\ pc # "update" => limit = Target
  /\ boot = "ok" => limit = Target
  /\ board = "nrf9151" => pc # "read_limit"
  /\ asleep => pc = "done"

\* The nRF9151 applies its limit in every boot that returns 0, whatever came
\* before; the nRF9161 if nothing came between the two writes.
THEOREM LimitApplied ==
  ASSUME "nrf9161" \in Boards => "nrf9161" \in Uninterrupted
  PROVE  Spec => []LimitInForce
<1> USE PmicAssumption DEF Target, Start
<1>1. Init => LimitStaged
  BY DEF Init, LimitStaged
<1>2. TypeOK /\ LimitStaged /\ [Next]_vars => LimitStaged'
  <2> SUFFICES ASSUME TypeOK, LimitStaged, [Next]_vars PROVE LimitStaged'
    OBVIOUS
  <2> USE DEF LimitStaged, limitVars, buckVars, shipVars, program, StopsOnError
  <2>0. board = "nrf9151" \/ (board = "nrf9161" /\ board \in Uninterrupted)
    BY DEF TypeOK
  <2>1. MainStart \in {"read_buck", "disable", "usb"}
    BY DEF MainStart, TypeOK, Images
  <2>2. CASE ReadLimit
    BY <2>0, <2>1, <2>2 DEF ReadLimit, return, Fails
  <2>3. CASE WriteLimit
    BY <2>1, <2>3 DEF WriteLimit, Fails
  <2>4. CASE UpdateLimit
    BY <2>0, <2>1, <2>4 DEF UpdateLimit, return, Fails
  <2>5. CASE DisableBuck2 \/ ReadBuckctrl \/ WriteBuckctrl
    BY <2>5 DEF DisableBuck2, ReadBuckctrl, WriteBuckctrl
  <2>6. CASE WriteConfig \/ WriteLpconfig \/ WriteStrobe
    BY <2>6 DEF WriteConfig, WriteLpconfig, WriteShip, WriteStrobe
  <2>7. CASE mfd_npm1300_hibernate
    BY <2>7 DEF mfd_npm1300_hibernate
  <2>8. ASSUME NEW enabled \in BOOLEAN, UsbSetMode(enabled) PROVE LimitStaged'
    BY <2>8 DEF UsbSetMode
  <2>9. CASE PowerUp
    BY <2>9 DEF PowerUp, StartBoot, PowerUpRegisters
  <2>10. CASE Wake
    <3>1. CASE PowerUpRegisters
      BY <2>10, <3>1 DEF Wake, StartBoot, PowerUpRegisters
    <3>2. CASE UNCHANGED <<limitVars, buckVars, ship, strobed>>
      BY <2>10, <3>2 DEF Wake, StartBoot
    <3> QED BY <2>10, <3>1, <3>2 DEF Wake
  <2>11. ASSUME NEW img \in Images, Reset(img) PROVE LimitStaged'
    BY <2>0, <2>11 DEF Reset, StartBoot
  <2>12. CASE UNCHANGED vars
    BY <2>12 DEF vars
  <2> QED BY <2>2, <2>3, <2>4, <2>5, <2>6, <2>7, <2>8, <2>9, <2>10, <2>11,
             <2>12 DEF Next, Processor, sysreg_setup
<1>3. LimitStaged => LimitInForce
  BY DEF LimitStaged, LimitInForce
<1> QED BY <1>1, <1>2, <1>3, TypeCorrect, PTL DEF Spec

-----------------------------------------------------------------------------
(* The sleep modes.                                                        *)

\* What deep_sleep has set up by each step.
ShipReady ==
  /\ pc \in {"lpconfig", "strobe", "hibernate"} => "CONFIG" \in ship
  /\ pc \in {"strobe", "hibernate"} => "LPCONFIG" \in ship
  /\ pc = "hibernate" \/ asleep => strobed = ShipRegs
  /\ asleep => pc = "done"

\* The PMIC never hibernates half configured.
THEOREM HibernationConfigured == Spec => []HibernatesConfigured
<1> USE PmicAssumption DEF ShipRegs, Start
<1>1. Init => ShipReady
  BY DEF Init, ShipReady
<1>2. TypeOK /\ ShipReady /\ [Next]_vars => ShipReady'
  <2> SUFFICES ASSUME TypeOK, ShipReady, [Next]_vars PROVE ShipReady'
    OBVIOUS
  <2> USE DEF ShipReady, limitVars, buckVars, shipVars, program, StopsOnError
  <2>0. ship \subseteq ShipRegs
    BY DEF TypeOK
  <2>1. MainStart \in {"read_buck", "disable", "usb"}
    BY DEF MainStart, TypeOK, Images
  <2>2. CASE sysreg_setup
    BY <2>1, <2>2 DEF sysreg_setup, ReadLimit, WriteLimit, UpdateLimit, return, Fails
  <2>3. CASE DisableBuck2 \/ ReadBuckctrl \/ WriteBuckctrl
    BY <2>3 DEF DisableBuck2, ReadBuckctrl, WriteBuckctrl
  <2>4. CASE WriteConfig \/ WriteLpconfig
    BY <2>4 DEF WriteConfig, WriteLpconfig, WriteShip
  <2>5. CASE WriteStrobe
    BY <2>0, <2>5 DEF WriteStrobe
  <2>6. CASE mfd_npm1300_hibernate
    BY <2>6 DEF mfd_npm1300_hibernate
  <2>7. ASSUME NEW enabled \in BOOLEAN, UsbSetMode(enabled) PROVE ShipReady'
    BY <2>7 DEF UsbSetMode
  <2>8. CASE PowerUp \/ Wake
    BY <2>8 DEF PowerUp, Wake, StartBoot
  <2>9. ASSUME NEW img \in Images, Reset(img) PROVE ShipReady'
    BY <2>9 DEF Reset, StartBoot
  <2>10. CASE UNCHANGED vars
    BY <2>10 DEF vars
  <2> QED BY <2>2, <2>3, <2>4, <2>5, <2>6, <2>7, <2>8, <2>9, <2>10
          DEF Next, Processor
<1>3. ShipReady => HibernatesConfigured
  BY DEF ShipReady, HibernatesConfigured
<1> QED BY <1>1, <1>2, <1>3, TypeCorrect, PTL DEF Spec

\* What active_sleep has set up by each step, as long as no access failed.
BuckReady ==
  /\ image = "active_sleep" /\ clean =>
       /\ pc \in {"read_buck", "write_buck", "done"} => ~buck2
       /\ pc = "write_buck" => reg = pulldowns
       /\ pc = "done" => "BUCK2" \in pulldowns
  /\ pc \in {"config", "lpconfig", "strobe", "hibernate"} => image = "deep_sleep"
  /\ pc = "usb" => image = "usb_detect"

\* active_sleep leaves BUCK2 off and pulled down after any earlier images.
THEOREM ActiveSleepReached == Spec => []BuckOffInActiveSleep
<1> USE PmicAssumption DEF Start
<1>1. Init => BuckReady
  BY DEF Init, BuckReady
<1>2. TypeOK /\ BuckReady /\ [Next]_vars => BuckReady'
  <2> SUFFICES ASSUME TypeOK, BuckReady, [Next]_vars PROVE BuckReady'
    OBVIOUS
  <2> USE DEF BuckReady, limitVars, buckVars, shipVars, program, StopsOnError
  <2>1. /\ image = "deep_sleep" => MainStart = "read_buck"
        /\ image = "active_sleep" => MainStart = "disable"
        /\ image = "usb_detect" => MainStart = "usb"
        /\ image \in {"deep_sleep", "active_sleep", "usb_detect"}
    BY DEF MainStart, TypeOK, Images
  <2>2. CASE sysreg_setup
    BY <2>1, <2>2 DEF sysreg_setup, ReadLimit, WriteLimit, UpdateLimit, return, Fails
  <2>3. CASE DisableBuck2
    BY <2>3 DEF DisableBuck2
  <2>4. CASE ReadBuckctrl
    BY <2>4 DEF ReadBuckctrl
  <2>5. CASE WriteBuckctrl
    BY <2>1, <2>5 DEF WriteBuckctrl, NeedsWrite, Pulldowns
  <2>6. CASE WriteConfig \/ WriteLpconfig \/ WriteStrobe \/ mfd_npm1300_hibernate
    BY <2>6 DEF WriteConfig, WriteLpconfig, WriteShip, WriteStrobe,
                mfd_npm1300_hibernate
  <2>7. ASSUME NEW enabled \in BOOLEAN, UsbSetMode(enabled) PROVE BuckReady'
    BY <2>7 DEF UsbSetMode
  <2>8. CASE PowerUp \/ Wake
    BY <2>8 DEF PowerUp, Wake, StartBoot
  <2>9. ASSUME NEW img \in Images, Reset(img) PROVE BuckReady'
    BY <2>9 DEF Reset, StartBoot
  <2>10. CASE UNCHANGED vars
    BY <2>10 DEF vars
  <2> QED BY <2>2, <2>3, <2>4, <2>5, <2>6, <2>7, <2>8, <2>9, <2>10
          DEF Next, Processor
<1>3. BuckReady => BuckOffInActiveSleep
  BY DEF BuckReady, BuckOffInActiveSleep
<1> QED BY <1>1, <1>2, <1>3, TypeCorrect, PTL DEF Spec

\* Both sleep images reach what they set out for, in whatever order the images
\* were flashed before (deep_sleep and active_sleep, main.c).
THEOREM SleepsReached == Spec => []SleepsConfigured
BY HibernationConfigured, ActiveSleepReached, PTL DEF SleepsConfigured

\* A pull-down of BUCK1 never comes without the one of BUCK2, so that a boot
\* that finds the latter missing has nothing to lose.
PulldownsPaired ==
  board = "nrf9161" =>
    /\ "BUCK1" \in pulldowns => "BUCK2" \in pulldowns
    /\ clean /\ pc = "write_buck" => reg = pulldowns
    /\ image \in {"deep_sleep", "active_sleep"} /\ pc # "usb"

\* The images of the nRF9161 never take back a pull-down.
THEOREM PulldownsAccumulate == Spec => PulldownsKept
<1> USE PmicAssumption DEF Start, Buck
<1>1. Init => PulldownsPaired
  BY DEF Init, PulldownsPaired, Images
<1>2. TypeOK /\ PulldownsPaired /\ [Next]_vars => PulldownsPaired'
  <2> SUFFICES ASSUME TypeOK, PulldownsPaired, [Next]_vars
               PROVE  PulldownsPaired'
    OBVIOUS
  <2> USE DEF PulldownsPaired, limitVars, buckVars, shipVars, program, StopsOnError
  <2>1. board = "nrf9161" => MainStart \in {"read_buck", "disable"}
    BY DEF MainStart
  <2>2. CASE sysreg_setup
    BY <2>1, <2>2 DEF sysreg_setup, ReadLimit, WriteLimit, UpdateLimit, return, Fails
  <2>3. CASE DisableBuck2 \/ ReadBuckctrl
    BY <2>3 DEF DisableBuck2, ReadBuckctrl
  <2>4. CASE WriteBuckctrl
    BY <2>4 DEF WriteBuckctrl, NeedsWrite, Pulldowns
  <2>5. CASE WriteConfig \/ WriteLpconfig \/ WriteStrobe \/ mfd_npm1300_hibernate
    BY <2>5 DEF WriteConfig, WriteLpconfig, WriteShip, WriteStrobe,
                mfd_npm1300_hibernate
  <2>6. ASSUME NEW enabled \in BOOLEAN, UsbSetMode(enabled) PROVE PulldownsPaired'
    BY <2>6 DEF UsbSetMode
  <2>7. CASE PowerUp \/ Wake
    BY <2>7 DEF PowerUp, Wake, StartBoot, PowerUpRegisters
  <2>8. ASSUME NEW img \in Images, Reset(img) PROVE PulldownsPaired'
    BY <2>8 DEF Reset, StartBoot, Images
  <2>9. CASE UNCHANGED vars
    BY <2>9 DEF vars
  <2> QED BY <2>2, <2>3, <2>4, <2>5, <2>6, <2>7, <2>8, <2>9 DEF Next, Processor
<1>3. TypeOK /\ PulldownsPaired /\ [Next]_vars =>
        [board = "nrf9161" /\ clean' /\ pc' # Start =>
           pulldowns \subseteq pulldowns']_vars
  <2> SUFFICES ASSUME TypeOK, PulldownsPaired, Next,
                      board = "nrf9161", clean', pc' # Start
               PROVE  pulldowns \subseteq pulldowns'
    OBVIOUS
  <2> USE DEF limitVars, buckVars, shipVars, program
  <2>1. CASE WriteBuckctrl
    BY <2>1 DEF WriteBuckctrl, NeedsWrite, Pulldowns, PulldownsPaired, TypeOK,
                StopsOnError
  <2>2. CASE sysreg_setup \/ DisableBuck2 \/ ReadBuckctrl
    BY <2>2 DEF sysreg_setup, ReadLimit, WriteLimit, UpdateLimit, DisableBuck2,
                ReadBuckctrl
  <2>3. CASE WriteConfig \/ WriteLpconfig \/ WriteStrobe \/ mfd_npm1300_hibernate
    BY <2>3 DEF WriteConfig, WriteLpconfig, WriteShip, WriteStrobe,
                mfd_npm1300_hibernate
  <2>4. ASSUME NEW enabled \in BOOLEAN, UsbSetMode(enabled) PROVE FALSE
    BY <2>4 DEF UsbSetMode, PulldownsPaired
  <2>5. CASE PowerUp \/ Wake \/ \E img \in Images : Reset(img)
    BY <2>5 DEF PowerUp, Wake, Reset, StartBoot
  <2> QED BY <2>1, <2>2, <2>3, <2>4, <2>5 DEF Next, Processor
<1> QED BY <1>1, <1>2, <1>3, TypeCorrect, PTL DEF Spec, PulldownsKept
=============================================================================
