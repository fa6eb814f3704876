---------------------------- MODULE BatteryDriver ----------------------------
(***************************************************************************)
(* drivers/battery/battery.c: the sensor driver that measures the battery  *)
(* through a voltage divider.  A fetch opens the power gate of the         *)
(* divider, sleeps while it settles, reads the ADC and closes the gate.    *)
(* The driver takes no lock and keeps everything but one local variable in *)
(* static ones, so that fetches of several threads interleave at the sleep *)
(* and between any two accesses to what they share.  The ADC reads one     *)
(* conversion at a time.                                                   *)
(***************************************************************************)
EXTENDS Integers, FiniteSets

CONSTANTS
  Clients,   \* the threads that use the driver
  Gated      \* the divider has a power gate (power_gpios)

ASSUME DriverAssumption == IsFiniteSet(Clients) /\ Gated \in BOOLEAN

VARIABLES
  battery_ok,    \* the setup succeeded
  ready,         \* the driver's init function has run
  gate,          \* the power gate is open
  calibrate,     \* adc_seq.calibrate
  raw,           \* the buffer the ADC writes to
  val,           \* each client's local copy of raw, from load to store
  voltage,       \* what channel_get copies
  pc,            \* where each client is
  calibrations,  \* history: successful reads of each client that calibrated
  shut,          \* history: a fetch has closed the gate while another slept
  rawOld, valOld, old,
                 \* history: the clients that have called sample_fetch since
                 \* the ADC took the reading in raw, in val, in voltage
  overtaken,     \* history: the clients whose last fetch began while another
                 \* was between its reading and its store
  failed,        \* history: the clients whose last fetch could not read
  clean          \* history: no call for the gate has failed

sharedVars  == <<battery_ok, ready, gate, calibrate, raw, voltage>>
ageVars     == <<rawOld, valOld, old, overtaken, failed>>
historyVars == <<calibrations, shut, ageVars, clean>>
vars == <<sharedVars, val, pc, historyVars>>

\* What the ADC sees: the battery, or a floating input while the gate is
\* closed; noise around zero may come out negative.
Reading == {"batt", "floating", "negative"}
InFetch(c) == pc[c] # "idle"
HoldsReading(c) == pc[c] \in {"clear", "load", "store"}

Init ==
  /\ battery_ok = FALSE /\ ready = FALSE
  /\ gate \in BOOLEAN /\ calibrate = FALSE
  /\ raw = "zero" /\ voltage = "zero"
  /\ val = [c \in Clients |-> "zero"]
  /\ pc = [c \in Clients |-> "idle"]
  /\ calibrations = [c \in Clients |-> 0]
  /\ rawOld = {} /\ valOld = [c \in Clients |-> {}] /\ old = {}
  /\ shut = FALSE /\ overtaken = {} /\ failed = {} /\ clean = TRUE

\* battery_measurement_init and divider_setup, before any client runs.  The
\* ADC may not be ready, then the gate is closed, if that call succeeds, and
\* the last call may fail as well.
divider_setup ==
  /\ ~ready /\ ready' = TRUE
  /\ \/ battery_ok' = FALSE /\ UNCHANGED <<gate, calibrate>>
     \/ /\ gate' = (IF Gated THEN FALSE ELSE gate)
        /\ calibrate' = TRUE
        /\ battery_ok' \in BOOLEAN
  /\ UNCHANGED <<raw, val, voltage, pc, historyVars>>

-----------------------------------------------------------------------------
(* battery_measurement_sample_fetch.                                       *)

\* battery_measure_enable; its result is not looked at.  The variants called
\* Wrong_ are mistakes that the properties tell from the code.
Wrong_EnableInverted(enable) ==
  /\ gate' = (IF battery_ok /\ Gated THEN ~enable ELSE gate)
  /\ UNCHANGED clean

battery_measure_enable(enable) ==
  \/ /\ gate' = (IF battery_ok /\ Gated THEN enable ELSE gate)
     /\ UNCHANGED clean
  \/ /\ battery_ok /\ Gated
     /\ clean' = FALSE /\ UNCHANGED gate

Goto(c, from, to) == pc[c] = from /\ pc' = [pc EXCEPT ![c] = to]

\* The fetch of the voltage begins; then the client sleeps for 100 us.  A
\* fetch of any other channel, that of all channels included, does nothing.
\* Whatever has been read by now is old for this client.
Ages(c) ==
  /\ rawOld' = rawOld \cup {c} /\ old' = old \cup {c}
  /\ valOld' = [d \in Clients |-> IF pc[d] = "store" THEN valOld[d] \cup {c} ELSE {}]
  /\ overtaken' = IF \E d \in Clients : HoldsReading(d)
                  THEN overtaken \cup {c} ELSE overtaken \ {c}
  /\ failed' = failed \ {c}

Wrong_BusySkips(c) ==
  /\ ready /\ pc[c] = "idle" /\ Ages(c)
  /\ IF \E d \in Clients : InFetch(d)
     THEN UNCHANGED <<pc, gate, clean>>
     ELSE Goto(c, "idle", "settle") /\ battery_measure_enable(TRUE)
  /\ UNCHANGED <<battery_ok, ready, calibrate, raw, val, voltage, calibrations, shut>>

OpenGate(c) ==
  /\ ready /\ Goto(c, "idle", "settle")
  /\ battery_measure_enable(TRUE)
  /\ Ages(c)
  /\ UNCHANGED <<battery_ok, ready, calibrate, raw, val, voltage, calibrations, shut>>

\* adc_read, in battery_sample; it is not called if the setup failed, and
\* whatever fails, the fetch goes on with closing the gate.
Read(c) ==
  /\ battery_ok /\ Goto(c, "settle", "clear")
  /\ raw' \in (IF gate \/ ~Gated THEN {"batt"} ELSE {"floating", "negative"})
  /\ calibrations' = [calibrations EXCEPT ![c] = @ + (IF calibrate THEN 1 ELSE 0)]
  /\ rawOld' = {} /\ UNCHANGED failed

Wrong_ReturnsOnError(c) ==
  /\ \/ Read(c)
     \/ Goto(c, "settle", "idle") /\ UNCHANGED <<raw, calibrations, rawOld, failed>>
  /\ UNCHANGED <<battery_ok, ready, gate, calibrate, val, voltage, shut, valOld,
                 old, overtaken, clean>>

adc_read(c) ==
  /\ \/ Read(c)
     \/ /\ Goto(c, "settle", "disable") /\ failed' = failed \cup {c}
        /\ UNCHANGED <<raw, calibrations, rawOld>>
  /\ UNCHANGED <<battery_ok, ready, gate, calibrate, val, voltage, shut, valOld,
                 old, overtaken, clean>>

\* The rest of battery_sample, one access to a shared variable at a time.
Wrong_KeepsCalibrating(c) ==
  /\ Goto(c, "clear", "load")
  /\ UNCHANGED <<sharedVars, val, historyVars>>

ClearCalibrate(c) ==
  /\ Goto(c, "clear", "load")
  /\ calibrate' = FALSE
  /\ UNCHANGED <<battery_ok, ready, gate, raw, voltage, val, historyVars>>

\* A negative reading is taken for the smallest positive one.
Clamped(r) == IF r = "negative" THEN "lowest" ELSE r

\* The reading need not be the one that this client has asked for.
LoadRaw(c) ==
  /\ Goto(c, "load", "store")
  /\ val' = [val EXCEPT ![c] = Clamped(raw)]
  /\ valOld' = [valOld EXCEPT ![c] = rawOld]
  /\ UNCHANGED <<sharedVars, calibrations, shut, rawOld, old, overtaken, failed, clean>>

\* The local variable is dead after the store.
StoreVoltage(c) ==
  /\ Goto(c, "store", "disable")
  /\ voltage' = val[c] /\ val' = [val EXCEPT ![c] = "zero"]
  /\ old' = valOld[c] /\ valOld' = [valOld EXCEPT ![c] = {}]
  /\ UNCHANGED <<battery_ok, ready, gate, calibrate, raw, calibrations, shut,
                 rawOld, overtaken, failed, clean>>

\* The gate is closed and the fetch returns 0, whatever failed.
CloseGate(c) ==
  /\ Goto(c, "disable", "idle")
  /\ battery_measure_enable(FALSE)
  /\ shut' = (shut \/ \E d \in Clients : pc[d] = "settle")
  /\ UNCHANGED <<battery_ok, ready, calibrate, raw, val, voltage, calibrations,
                 ageVars>>

sample_fetch(c) ==
  \/ OpenGate(c) \/ adc_read(c)
  \/ ClearCalibrate(c) \/ LoadRaw(c) \/ StoreVoltage(c)
  \/ CloseGate(c)

\* battery_measurement_channel_get of the voltage: what a client is given, at
\* any time, also during another client's fetch.
channel_get == IF battery_ok THEN voltage ELSE "ENODEV"

Next == divider_setup \/ \E c \in Clients : sample_fetch(c)

Spec == Init /\ [][Next]_vars

-----------------------------------------------------------------------------
(* What the driver promises.                                               *)

TypeOK ==
  /\ battery_ok \in BOOLEAN /\ ready \in BOOLEAN /\ gate \in BOOLEAN
  /\ calibrate \in BOOLEAN /\ shut \in BOOLEAN /\ clean \in BOOLEAN
  /\ rawOld \subseteq Clients /\ old \subseteq Clients
  /\ overtaken \subseteq Clients /\ failed \subseteq Clients
  /\ valOld \in [Clients -> SUBSET Clients]
  /\ raw \in Reading \cup {"zero"}
  /\ voltage \in {"zero", "lowest", "batt", "floating"}
  /\ val \in [Clients -> {"zero", "lowest", "batt", "floating"}]
  /\ pc \in [Clients -> {"idle", "settle", "clear", "load", "store", "disable"}]
  /\ calibrations \in [Clients -> Nat]

\* With no fetch in progress the divider draws no current: whichever reads
\* failed and however the fetches interleaved, the gate is closed again.
GateClosedAtRest ==
  battery_ok /\ Gated /\ clean /\ (\A c \in Clients : ~InFetch(c)) => ~gate

\* However fetches overlap, the voltage comes from the battery and never from
\* the floating input of a closed gate, until a fetch has closed the gate
\* while another slept.
SampledPowered ==
  clean /\ ~shut => channel_get \in {"zero", "batt", "ENODEV"}

\* sample_fetch returns 0 whatever failed.  A client whose call has returned
\* is given a voltage that was read before the call only if its own read has
\* failed, or if it began while another client held a reading that it had not
\* stored yet: that client may store it over the newer voltage.  Neither
\* another client's failure nor any other overlap makes the voltage old.
VoltageIsFresh ==
  \A c \in old : InFetch(c) \/ c \in failed \/ c \in overtaken

\* A thread calibrates the ADC in at most one successful read: the flag is
\* shared, but whoever has read with it clears it before reading again.
CalibratesOnce == \A c \in Clients : calibrations[c] <= 1
=============================================================================
