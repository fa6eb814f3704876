-------------------------------- MODULE Pmic --------------------------------
(***************************************************************************)
(* The nPM1300 power management IC as successive programs leave it.  Each  *)
(* boot runs the board's startup.c (feather_nrf9161 or feather_nrf9151),   *)
(* then the main function of the image that is flashed: deep_sleep,        *)
(* active_sleep or, on the nRF9151 only, usb_detect.  The PMIC keeps its   *)
(* registers over a reset of the processor, and so over the flashing of    *)
(* another image: what one boot left half done is what the next one finds. *)
(*                                                                         *)
(* Every register access may fail.  The PMIC itself is outside src/ and    *)
(* modelled from how the programs use it.                                  *)
(***************************************************************************)
CONSTANTS
  Boards,        \* the boards that are built for
  Uninterrupted  \* those on which no reset and no failure comes between the
                 \* two writes of sysreg_setup

ASSUME PmicAssumption ==
  /\ Boards \subseteq {"nrf9161", "nrf9151"}
  /\ Uninterrupted \subseteq Boards

VARIABLES
  board,      \* fixed: the board
  ilim,       \* register VBUSINILIM0: the limit to be applied next
  limit,      \* the input current limit in force
  pulldowns,  \* bits 2 (BUCK1) and 3 (BUCK2) of register BUCKCTRL0
  buck2,      \* BUCK2 is on
  ship,       \* ship-mode registers that hold what deep_sleep writes
  strobed,    \* those of them that are in force
  asleep,     \* the PMIC hibernates and the processor is without power
  image,      \* the program that is flashed
  pc,         \* where the processor is
  boot,       \* what sysreg_setup returned: "pending", "ok", "error"
  reg,        \* deep_sleep, active_sleep: the bits read from BUCKCTRL0
  clean       \* history: no register access failed in this boot

limitVars == <<ilim, limit>>
buckVars  == <<pulldowns, buck2>>
shipVars  == <<ship, strobed, asleep>>
program   == <<board, image>>
vars == <<limitVars, buckVars, shipVars, program, pc, boot, reg, clean>>

Limit == {"500mA", "1000mA", "other"}
Buck  == {"BUCK1", "BUCK2"}
ShipRegs == {"CONFIG", "LPCONFIG"}
Images == {"deep_sleep", "active_sleep"}
            \cup (IF board = "nrf9151" THEN {"usb_detect"} ELSE {})

\* The limit that sysreg_setup is to set, and its first step.
Target == IF board = "nrf9161" THEN "500mA" ELSE "1000mA"
Start  == IF board = "nrf9161" THEN "read_limit" ELSE "write_limit"

MainStart == CASE image = "deep_sleep"   -> "read_buck"
               [] image = "active_sleep" -> "disable"
               [] image = "usb_detect"   -> "usb"

StartBoot(img) ==
  /\ image' = img /\ pc' = Start /\ UNCHANGED board
  /\ boot' = "pending" /\ reg' = {} /\ clean' = TRUE /\ asleep' = FALSE

\* After power-up the limit in force is the one the register shows.
PowerUpRegisters ==
  /\ ilim' \in Limit /\ limit' = ilim'
  /\ pulldowns' = {} /\ buck2' \in BOOLEAN
  /\ ship' = {} /\ strobed' = {}

Init ==
  /\ board \in Boards
  /\ ilim \in Limit /\ limit = ilim
  /\ pulldowns = {} /\ buck2 \in BOOLEAN
  /\ ship = {} /\ strobed = {} /\ asleep = FALSE
  /\ image \in Images /\ pc = Start
  /\ boot = "pending" /\ reg = {} /\ clean = TRUE

-----------------------------------------------------------------------------
(* Power and resets.                                                       *)

\* The battery is connected anew.
PowerUp == StartBoot(image) /\ PowerUpRegisters

\* The processor is reset, with the same image or another one.
Reset(img) ==
  /\ ~asleep
  /\ pc = "update" => board \notin Uninterrupted
  /\ StartBoot(img)
  /\ UNCHANGED <<limitVars, buckVars, ship, strobed>>

\* The hibernation ends after 60 s; the registers may have kept their values.
Wake ==
  /\ asleep /\ StartBoot(image)
  /\ PowerUpRegisters \/ UNCHANGED <<limitVars, buckVars, ship, strobed>>

-----------------------------------------------------------------------------
(* sysreg_setup of the boards' startup.c.                                  *)

\* The result is not looked at by the caller: main runs in any case.
return(result) == boot' = result /\ pc' = MainStart
Fails == boot' = "error" /\ pc' = MainStart /\ clean' = FALSE

\* nRF9161 only: nothing is written if the register already shows 500 mA.
ReadLimit ==
  /\ pc = "read_limit"
  /\ \/ ilim = Target /\ return("ok") /\ UNCHANGED clean
     \/ ilim # Target /\ pc' = "write_limit" /\ UNCHANGED <<boot, clean>>
     \/ Fails
  /\ UNCHANGED <<limitVars, buckVars, shipVars, program, reg>>

WriteLimit ==
  /\ pc = "write_limit"
  /\ \/ ilim' = Target /\ pc' = "update" /\ UNCHANGED <<boot, clean>>
     \/ Fails /\ UNCHANGED ilim
  /\ UNCHANGED <<limit, buckVars, shipVars, program, reg>>

\* TASKUPDATEILIMSW puts the limit into force.  The variants called Wrong_, here
\* and below, are mistakes that the properties tell from the code.
Wrong_UpdateErrorIgnored ==
  /\ pc = "update" /\ return("ok")
  /\ limit' \in {ilim, limit}
  /\ UNCHANGED <<ilim, buckVars, shipVars, program, reg, clean>>

UpdateLimit ==
  /\ pc = "update"
  /\ \/ limit' = ilim /\ return("ok") /\ UNCHANGED clean
     \/ board \notin Uninterrupted /\ Fails /\ UNCHANGED limit
  /\ UNCHANGED <<ilim, buckVars, shipVars, program, reg>>

sysreg_setup == ReadLimit \/ WriteLimit \/ UpdateLimit

-----------------------------------------------------------------------------
(* The pull-downs in deep_sleep and active_sleep.                          *)

\* active_sleep: BUCK2 is switched off first, or setup_pmic returns.
DisableBuck2 ==
  /\ pc = "disable"
  /\ \/ buck2' = FALSE /\ pc' = "read_buck" /\ UNCHANGED clean
     \/ buck2 /\ pc' = "done" /\ clean' = FALSE /\ UNCHANGED buck2
  /\ UNCHANGED <<limitVars, pulldowns, shipVars, program, boot, reg>>

\* reg keeps its initial 0 when the read fails.
ReadBuckctrl ==
  /\ pc = "read_buck" /\ pc' = "write_buck"
  /\ \/ reg' = pulldowns /\ UNCHANGED clean
     \/ reg' = {} /\ clean' = FALSE
  /\ UNCHANGED <<limitVars, buckVars, shipVars, program, boot>>

\* What a write of the whole register leaves in it.
Pulldowns == IF image = "deep_sleep" THEN Buck ELSE {"BUCK2"}

\* Only bit 3 (BUCK2) decides whether to write; a failed write is ignored.
Wrong_AlwaysWrites == TRUE
NeedsWrite == "BUCK2" \notin reg

WriteBuckctrl ==
  /\ pc = "write_buck"
  /\ pc' = IF image = "deep_sleep" THEN "config" ELSE "done"
  /\ \/ NeedsWrite /\ pulldowns' = Pulldowns /\ UNCHANGED clean
     \/ NeedsWrite /\ clean' = FALSE /\ UNCHANGED pulldowns
     \/ ~NeedsWrite /\ UNCHANGED <<pulldowns, clean>>
  /\ UNCHANGED <<limitVars, buck2, shipVars, program, boot, reg>>

-----------------------------------------------------------------------------
(* The end of deep_sleep; the first access that fails ends main.           *)

StopsOnError == pc' = "done" /\ clean' = FALSE

WriteShip(from, to, r) ==
  /\ pc = from
  /\ \/ ship' = ship \cup {r} /\ pc' = to /\ UNCHANGED clean
     \/ StopsOnError /\ UNCHANGED ship
  /\ UNCHANGED <<limitVars, buckVars, strobed, asleep, program, boot, reg>>

WriteConfig   == WriteShip("config", "lpconfig", "CONFIG")
WriteLpconfig == WriteShip("lpconfig", "strobe", "LPCONFIG")

Wrong_StrobeErrorIgnored ==
  /\ pc = "strobe" /\ pc' = "hibernate"
  /\ strobed' \in {ship, strobed}
  /\ UNCHANGED <<limitVars, buckVars, ship, asleep, program, boot, reg, clean>>

WriteStrobe ==
  /\ pc = "strobe"
  /\ \/ strobed' = ship /\ pc' = "hibernate" /\ UNCHANGED clean
     \/ StopsOnError /\ UNCHANGED strobed
  /\ UNCHANGED <<limitVars, buckVars, ship, asleep, program, boot, reg>>

mfd_npm1300_hibernate ==
  /\ pc = "hibernate"
  /\ \/ asleep' = TRUE /\ pc' = "done" /\ UNCHANGED clean
     \/ StopsOnError /\ UNCHANGED asleep
  /\ UNCHANGED <<limitVars, buckVars, ship, strobed, program, boot, reg>>

-----------------------------------------------------------------------------
\* usb_detect switches BUCK2 and updates bit 3 alone, again and again; either
\* call may fail, and the reference count may keep BUCK2 as it is.  Module
\* UsbDetect has the details.
UsbSetMode(enabled) ==
  /\ pc = "usb"
  /\ \/ /\ buck2' \in {enabled, buck2}
        /\ \/ /\ pulldowns' = IF enabled THEN pulldowns \ {"BUCK2"}
                                         ELSE pulldowns \cup {"BUCK2"}
              /\ UNCHANGED clean
           \/ clean' = FALSE /\ UNCHANGED pulldowns
     \/ clean' = FALSE /\ UNCHANGED buckVars
  /\ UNCHANGED <<limitVars, shipVars, program, pc, boot, reg>>

Processor ==
  \/ sysreg_setup
  \/ DisableBuck2 \/ ReadBuckctrl \/ WriteBuckctrl
  \/ WriteConfig \/ WriteLpconfig \/ WriteStrobe \/ mfd_npm1300_hibernate
  \/ \E enabled \in BOOLEAN : UsbSetMode(enabled)

Next == Processor \/ PowerUp \/ Wake \/ \E img \in Images : Reset(img)

Spec == Init /\ [][Next]_vars

-----------------------------------------------------------------------------
(* What the programs rely on and promise.                                  *)

TypeOK ==
  /\ board \in Boards /\ ilim \in Limit /\ limit \in Limit
  /\ pulldowns \subseteq Buck /\ reg \subseteq Buck /\ buck2 \in BOOLEAN
  /\ ship \subseteq ShipRegs /\ strobed \subseteq ShipRegs
  /\ asleep \in BOOLEAN /\ clean \in BOOLEAN
  /\ image \in Images
  /\ boot \in {"pending", "ok", "error"}
  /\ pc \in {"read_limit", "write_limit", "update", "disable", "read_buck",
             "write_buck", "config", "lpconfig", "strobe", "hibernate",
             "usb", "done"}

\* When sysreg_setup has returned 0, the limit of this board is in force,
\* whatever boots before it left in the PMIC.  On the nRF9161, which writes
\* nothing if the register shows the limit already, it needs that nothing
\* came between the two writes of an earlier boot (see Uninterrupted).
LimitInForce == boot = "ok" => limit = Target

\* The PMIC hibernates only with both ship-mode registers set and in force,
\* whatever access failed and at whatever step an earlier boot was reset.
HibernatesConfigured == asleep => strobed = ShipRegs

\* active_sleep whose accesses succeed ends with BUCK2 off and pulled down,
\* whichever images ran before.
BuckOffInActiveSleep ==
  image = "active_sleep" /\ pc = "done" /\ clean =>
    ~buck2 /\ "BUCK2" \in pulldowns

\* Both images sleep only as they have configured.
SleepsConfigured == HibernatesConfigured /\ BuckOffInActiveSleep

\* On the nRF9161, whose images all write the whole register, no boot whose
\* accesses succeed removes a pull-down that an earlier one enabled.
PulldownsKept ==
  [][board = "nrf9161" /\ clean' /\ pc' # Start =>
       pulldowns \subseteq pulldowns']_vars
=============================================================================
