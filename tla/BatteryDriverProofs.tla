------------------------- MODULE BatteryDriverProofs -------------------------
(***************************************************************************)
(* What holds of the battery driver for any number of client threads.      *)
(***************************************************************************)
EXTENDS BatteryDriver, TLAPS

\* Every variable stays in its range, for any set of clients.
THEOREM TypeCorrect == Spec => []TypeOK
<1>1. Init => TypeOK
  <2> SUFFICES ASSUME Init PROVE TypeOK
    OBVIOUS
  <2>1. calibrations \in [Clients -> Nat]
    BY DEF Init
  <2> QED BY <2>1 DEF Init, TypeOK
<1>2. TypeOK /\ [Next]_vars => TypeOK'
  <2> SUFFICES ASSUME TypeOK, [Next]_vars PROVE TypeOK'
    OBVIOUS
  <2>1. CASE divider_setup
    BY <2>1 DEF TypeOK, divider_setup, historyVars, ageVars
  <2>2. ASSUME NEW c \in Clients, OpenGate(c) PROVE TypeOK'
    <3>1. valOld' \in [Clients -> SUBSET Clients]
      BY <2>2 DEF TypeOK, OpenGate, Ages
    <3>2. /\ rawOld' \subseteq Clients /\ old' \subseteq Clients
          /\ overtaken' \subseteq Clients /\ failed' \subseteq Clients
      BY <2>2 DEF TypeOK, OpenGate, Ages
    <3> QED BY <2>2, <3>1, <3>2 DEF TypeOK, OpenGate, Goto, battery_measure_enable
  <2>3. ASSUME NEW c \in Clients, adc_read(c) PROVE TypeOK'
    <3>1. calibrations' \in [Clients -> Nat]
      BY <2>3 DEF TypeOK, adc_read, Read
    <3>2. pc' \in [Clients -> {"idle", "settle", "clear", "load", "store", "disable"}]
      BY <2>3 DEF TypeOK, adc_read, Read, Goto
    <3>3. raw' \in Reading \cup {"zero"}
      BY <2>3 DEF TypeOK, adc_read, Read, Reading
    <3>4. rawOld' \subseteq Clients /\ failed' \subseteq Clients
      BY <2>3 DEF TypeOK, adc_read, Read
    <3> QED BY <2>3, <3>1, <3>2, <3>3, <3>4 DEF TypeOK, adc_read
  <2>4. ASSUME NEW c \in Clients, ClearCalibrate(c) PROVE TypeOK'
    BY <2>4 DEF TypeOK, ClearCalibrate, Goto, historyVars, ageVars
  <2>5. ASSUME NEW c \in Clients, LoadRaw(c) PROVE TypeOK'
    BY <2>5 DEF TypeOK, LoadRaw, Goto, Clamped, Reading, sharedVars
  <2>6. ASSUME NEW c \in Clients, StoreVoltage(c) PROVE TypeOK'
    BY <2>6 DEF TypeOK, StoreVoltage, Goto
  <2>7. ASSUME NEW c \in Clients, CloseGate(c) PROVE TypeOK'
    BY <2>7 DEF TypeOK, CloseGate, Goto, battery_measure_enable, ageVars
  <2>8. CASE UNCHANGED vars
    BY <2>8 DEF TypeOK, vars, sharedVars, historyVars, ageVars
  <2> QED BY <2>1, <2>2, <2>3, <2>4, <2>5, <2>6, <2>7, <2>8 DEF Next, sample_fetch
<1> QED BY <1>1, <1>2, PTL DEF Spec

-----------------------------------------------------------------------------
(* The power gate.                                                         *)

\* Once the set-up succeeded, the gate is open only while a fetch is in
\* progress, and no fetch begins before the set-up has run.
GateHeld ==
  /\ ~ready => ~battery_ok
  /\ battery_ok /\ Gated /\ clean /\ gate => \E c \in Clients : InFetch(c)

\* The driver leaves the divider without current when it is at rest.
THEOREM GateReleased == Spec => []GateClosedAtRest
<1>1. Init => GateHeld
  BY DEF Init, GateHeld
<1>2. TypeOK /\ GateHeld /\ [Next]_vars => GateHeld'
  <2> SUFFICES ASSUME TypeOK, GateHeld, [Next]_vars PROVE GateHeld'
    OBVIOUS
  <2>1. CASE divider_setup
    BY <2>1 DEF GateHeld, divider_setup, historyVars
  <2>2. ASSUME NEW c \in Clients, OpenGate(c) PROVE GateHeld'
    <3>1. InFetch(c)'
      BY <2>2 DEF TypeOK, OpenGate, Goto, InFetch
    <3> QED BY <2>2, <3>1 DEF GateHeld, OpenGate
  <2>3. ASSUME NEW c \in Clients, adc_read(c) PROVE GateHeld'
    <3>1. InFetch(c)'
      BY <2>3 DEF TypeOK, adc_read, Read, Goto, InFetch
    <3> QED BY <2>3, <3>1 DEF GateHeld, adc_read
  <2>4. ASSUME NEW c \in Clients, ClearCalibrate(c) \/ LoadRaw(c) \/ StoreVoltage(c)
        PROVE GateHeld'
    <3>1. InFetch(c)'
      BY <2>4 DEF TypeOK, ClearCalibrate, LoadRaw, StoreVoltage, Goto, InFetch
    <3> QED BY <2>4, <3>1
        DEF GateHeld, ClearCalibrate, LoadRaw, StoreVoltage, sharedVars, historyVars
  <2>5. ASSUME NEW c \in Clients, CloseGate(c) PROVE GateHeld'
    BY <2>5 DEF GateHeld, CloseGate, battery_measure_enable
  <2>6. CASE UNCHANGED vars
    BY <2>6 DEF GateHeld, InFetch, vars, sharedVars, historyVars
  <2> QED BY <2>1, <2>2, <2>3, <2>4, <2>5, <2>6 DEF Next, sample_fetch
<1>3. GateHeld => GateClosedAtRest
  BY DEF GateHeld, GateClosedAtRest
<1> QED BY <1>1, <1>2, <1>3, TypeCorrect, PTL DEF Spec

-----------------------------------------------------------------------------
(* The calibration flag.                                                   *)

\* A client that has calibrated is either about to clear the flag or finds
\* it cleared; the flag is set by the set-up alone.
FlagSpent ==
  /\ \A c \in Clients : calibrations[c] \in {0, 1}
  /\ ~ready => \A c \in Clients : pc[c] = "idle" /\ calibrations[c] = 0
  /\ calibrate => \A c \in Clients : calibrations[c] = 0 \/ pc[c] = "clear"

\* Any number of threads share the flag, and each calibrates at most once.
THEOREM OneCalibrationEach == Spec => []CalibratesOnce
<1>1. Init => FlagSpent
  BY DEF Init, FlagSpent
<1>2. TypeOK /\ FlagSpent /\ [Next]_vars => FlagSpent'
  <2> SUFFICES ASSUME TypeOK, FlagSpent, [Next]_vars PROVE FlagSpent'
    OBVIOUS
  <2>1. CASE divider_setup
    BY <2>1 DEF FlagSpent, divider_setup, historyVars
  <2>2. ASSUME NEW c \in Clients, OpenGate(c) PROVE FlagSpent'
    BY <2>2 DEF TypeOK, FlagSpent, OpenGate, Goto
  <2>3. ASSUME NEW c \in Clients, adc_read(c) PROVE FlagSpent'
    <3>1. CASE Goto(c, "settle", "clear")
      <4>1. calibrations' =
              [calibrations EXCEPT ![c] = @ + (IF calibrate THEN 1 ELSE 0)]
        BY <2>3, <3>1 DEF adc_read, Read, Goto, TypeOK
      <4>2. calibrate => calibrations[c] = 0
        BY <3>1 DEF FlagSpent, Goto
      <4>3. calibrations'[c] \in {0, 1}
        BY <4>1, <4>2 DEF FlagSpent, TypeOK
      <4>4. \A d \in Clients \ {c} : calibrations'[d] = calibrations[d]
        BY <4>1 DEF TypeOK
      <4>5. pc'[c] = "clear" /\ \A d \in Clients \ {c} : pc'[d] = pc[d]
        BY <3>1 DEF Goto, TypeOK
      <4>6. ready /\ ready' /\ calibrate' = calibrate
        BY <2>3, <3>1 DEF adc_read, Read, FlagSpent, Goto
      <4> QED BY <4>3, <4>4, <4>5, <4>6 DEF FlagSpent
    <3>2. CASE Goto(c, "settle", "disable")
      <4>1. calibrations' = calibrations /\ calibrate' = calibrate /\ ready' = ready
        BY <2>3, <3>2 DEF adc_read, Read, Goto, TypeOK
      <4> QED BY <3>2, <4>1 DEF FlagSpent, Goto, TypeOK
    <3> QED BY <2>3, <3>1, <3>2 DEF adc_read, Read
  <2>4. ASSUME NEW c \in Clients, ClearCalibrate(c) PROVE FlagSpent'
    BY <2>4 DEF TypeOK, FlagSpent, ClearCalibrate, Goto, historyVars
  <2>5. ASSUME NEW c \in Clients, LoadRaw(c) \/ StoreVoltage(c) PROVE FlagSpent'
    <3>1. /\ pc[c] \in {"load", "store"} /\ ready' = ready
          /\ \A d \in Clients \ {c} : pc'[d] = pc[d]
      BY <2>5 DEF TypeOK, LoadRaw, StoreVoltage, Goto, sharedVars
    <3>2. calibrate' = calibrate /\ calibrations' = calibrations
      BY <2>5 DEF LoadRaw, StoreVoltage, sharedVars
    <3> QED BY <3>1, <3>2 DEF FlagSpent
  <2>6. ASSUME NEW c \in Clients, CloseGate(c) PROVE FlagSpent'
    BY <2>6 DEF TypeOK, FlagSpent, CloseGate, Goto
  <2>7. CASE UNCHANGED vars
    BY <2>7 DEF FlagSpent, vars, sharedVars, historyVars
  <2> QED BY <2>1, <2>2, <2>3, <2>4, <2>5, <2>6, <2>7 DEF Next, sample_fetch
<1>3. FlagSpent => CalibratesOnce
  BY DEF FlagSpent, CalibratesOnce
<1> QED BY <1>1, <1>2, <1>3, TypeCorrect, PTL DEF Spec

-----------------------------------------------------------------------------
(* The samples.                                                            *)

\* Until a fetch closes the gate under another one, every sleeping client finds
\* the gate open, and what has been read since comes from the battery.
GateStaysOpen ==
  /\ ~ready => \A c \in Clients : pc[c] = "idle"
  /\ clean /\ ~shut =>
       /\ raw \in {"zero", "batt"} /\ voltage \in {"zero", "batt"}
       /\ \A c \in Clients :
            /\ val[c] \in {"zero", "batt"}
            /\ pc[c] = "settle" /\ battery_ok /\ Gated => gate

\* However many threads fetch and however they overlap, no floating input is
\* reported unless a fetch has closed the gate while another slept.
THEOREM SamplesFromBattery == Spec => []SampledPowered
<1>1. Init => GateStaysOpen
  BY DEF Init, GateStaysOpen
<1>2. TypeOK /\ GateStaysOpen /\ [Next]_vars => GateStaysOpen'
  <2> SUFFICES ASSUME TypeOK, GateStaysOpen, [Next]_vars PROVE GateStaysOpen'
    OBVIOUS
  <2>1. CASE divider_setup
    BY <2>1 DEF GateStaysOpen, divider_setup, historyVars
  <2>2. ASSUME NEW c \in Clients, OpenGate(c) PROVE GateStaysOpen'
    <3>0. clean' => clean
      BY <2>2 DEF OpenGate, battery_measure_enable, TypeOK
    <3>1. ready /\ UNCHANGED <<ready, raw, val, voltage, battery_ok, shut>>
      BY <2>2 DEF OpenGate
    <3>2. pc'[c] = "settle" /\ \A d \in Clients \ {c} : pc'[d] = pc[d]
      BY <2>2 DEF OpenGate, Goto, TypeOK
    <3>3. clean' /\ battery_ok /\ Gated => gate'
      BY <2>2 DEF OpenGate, battery_measure_enable, TypeOK
    <3> QED BY <3>0, <3>1, <3>2, <3>3 DEF GateStaysOpen
  <2>3. ASSUME NEW c \in Clients, adc_read(c) PROVE GateStaysOpen'
    <3>1. UNCHANGED <<battery_ok, ready, gate, val, voltage, shut, clean>>
      BY <2>3 DEF adc_read
    <3>2. /\ pc[c] = "settle" /\ pc'[c] # "settle"
          /\ \A d \in Clients \ {c} : pc'[d] = pc[d]
      BY <2>3 DEF adc_read, Read, Goto, TypeOK
    <3>3. \/ raw' = raw
          \/ battery_ok /\ (gate \/ ~Gated => raw' = "batt")
      BY <2>3 DEF adc_read, Read
    <3>4. Gated \in BOOLEAN
      BY DriverAssumption
    <3> QED BY <3>1, <3>2, <3>3, <3>4 DEF GateStaysOpen
  <2>4. ASSUME NEW c \in Clients, ClearCalibrate(c) PROVE GateStaysOpen'
    BY <2>4 DEF GateStaysOpen, ClearCalibrate, Goto, TypeOK, historyVars
  <2>5. ASSUME NEW c \in Clients, LoadRaw(c) PROVE GateStaysOpen'
    BY <2>5 DEF GateStaysOpen, LoadRaw, Clamped, Goto, TypeOK, sharedVars
  <2>6. ASSUME NEW c \in Clients, StoreVoltage(c) PROVE GateStaysOpen'
    BY <2>6 DEF GateStaysOpen, StoreVoltage, Goto, TypeOK
  <2>7. ASSUME NEW c \in Clients, CloseGate(c) PROVE GateStaysOpen'
    <3>0. clean' => clean
      BY <2>7 DEF CloseGate, battery_measure_enable, TypeOK
    <3>1. UNCHANGED <<battery_ok, ready, raw, val, voltage>>
      BY <2>7 DEF CloseGate
    <3>2. /\ pc[c] = "disable" /\ pc'[c] = "idle"
          /\ \A d \in Clients \ {c} : pc'[d] = pc[d]
      BY <2>7 DEF CloseGate, Goto, TypeOK
    <3>3. ~shut' => ~shut /\ \A d \in Clients : pc[d] # "settle"
      BY <2>7 DEF CloseGate, TypeOK
    <3> QED BY <3>0, <3>1, <3>2, <3>3 DEF GateStaysOpen
  <2>8. CASE UNCHANGED vars
    BY <2>8 DEF GateStaysOpen, vars, sharedVars, historyVars
  <2> QED BY <2>1, <2>2, <2>3, <2>4, <2>5, <2>6, <2>7, <2>8 DEF Next, sample_fetch
<1>3. GateStaysOpen => SampledPowered
  BY DEF GateStaysOpen, SampledPowered, channel_get
<1> QED BY <1>1, <1>2, <1>3, TypeCorrect, PTL DEF Spec

-----------------------------------------------------------------------------
(* Old voltages.                                                           *)

\* A reading in the buffer that is older than a client's fetch, which no other
\* overtook, is in no client's hands; no client holds a copy that is older; and
\* if the stored voltage is older, the client is on its way to store a newer
\* one, unless its read has failed.
AgesKnown ==
  /\ \A c \in rawOld \ overtaken : \A d \in Clients : ~HoldsReading(d)
  /\ \A d \in Clients : valOld[d] \subseteq overtaken
  /\ \A c \in old \ (failed \cup overtaken) : pc[c] = "settle" \/ HoldsReading(c)

\* However many threads fetch, a thread is given a voltage older than its own
\* fetch only if its read has failed, or if another thread held a reading that
\* it had not stored when the fetch began.
THEOREM FreshUnlessOvertaken == Spec => []VoltageIsFresh
<1>1. Init => AgesKnown
  BY DEF Init, AgesKnown
<1>2. TypeOK /\ AgesKnown /\ [Next]_vars => AgesKnown'
  <2> SUFFICES ASSUME TypeOK, AgesKnown, [Next]_vars PROVE AgesKnown'
    OBVIOUS
  <2> USE DEF HoldsReading
  <2>1. CASE divider_setup
    BY <2>1 DEF AgesKnown, divider_setup, historyVars, ageVars
  <2>2. ASSUME NEW c \in Clients, OpenGate(c) PROVE AgesKnown'
    <3>1. pc'[c] = "settle" /\ \A d \in Clients \ {c} : pc'[d] = pc[d]
      BY <2>2 DEF OpenGate, Goto, TypeOK
    <3>2. /\ rawOld' = rawOld \cup {c} /\ old' = old \cup {c}
          /\ failed' = failed \ {c}
          /\ overtaken \ {c} \subseteq overtaken'
          /\ overtaken' \subseteq overtaken \cup {c}
          /\ c \in overtaken' <=> \E d \in Clients : HoldsReading(d)
      BY <2>2 DEF OpenGate, Ages
    <3>3. pc[c] = "idle"
      BY <2>2 DEF OpenGate, Goto
    <3>4. ASSUME NEW d \in Clients PROVE valOld'[d] \subseteq overtaken'
      <4>1. CASE pc[d] = "store"
        <5>1. valOld'[d] = valOld[d] \cup {c} /\ c \in overtaken'
          BY <2>2, <3>2, <4>1 DEF OpenGate, Ages
        <5> QED BY <3>2, <5>1 DEF AgesKnown
      <4>2. CASE pc[d] # "store"
        BY <2>2, <4>2 DEF OpenGate, Ages
      <4> QED BY <4>1, <4>2
    <3>5. ASSUME NEW e \in rawOld' \ overtaken', NEW d \in Clients
          PROVE ~HoldsReading(d)'
      BY <3>1, <3>2, <3>3 DEF AgesKnown
    <3>6. ASSUME NEW e \in old' \ (failed' \cup overtaken')
          PROVE pc'[e] = "settle" \/ HoldsReading(e)'
      BY <3>1, <3>2 DEF AgesKnown, TypeOK
    <3> QED BY <3>4, <3>5, <3>6 DEF AgesKnown
  <2>3. ASSUME NEW c \in Clients, adc_read(c) PROVE AgesKnown'
    <3>1. /\ \A d \in Clients \ {c} : pc'[d] = pc[d]
          /\ UNCHANGED <<valOld, old, overtaken>>
      BY <2>3 DEF adc_read, Read, Goto, TypeOK
    <3>2. \/ pc'[c] = "clear" /\ rawOld' = {} /\ failed' = failed
          \/ pc'[c] = "disable" /\ rawOld' = rawOld /\ failed' = failed \cup {c}
      BY <2>3 DEF adc_read, Read, Goto, TypeOK
    <3> QED BY <3>1, <3>2 DEF AgesKnown, TypeOK
  <2>4. ASSUME NEW c \in Clients, ClearCalibrate(c) PROVE AgesKnown'
    BY <2>4 DEF AgesKnown, ClearCalibrate, Goto, TypeOK, historyVars, ageVars
  <2>5. ASSUME NEW c \in Clients, LoadRaw(c) PROVE AgesKnown'
    <3>1. /\ pc[c] = "load" /\ pc'[c] = "store"
          /\ \A d \in Clients \ {c} : pc'[d] = pc[d]
      BY <2>5 DEF LoadRaw, Goto, TypeOK
    <3>2. /\ valOld'[c] = rawOld /\ \A d \in Clients \ {c} : valOld'[d] = valOld[d]
          /\ UNCHANGED <<rawOld, old, overtaken, failed>>
      BY <2>5 DEF LoadRaw, TypeOK
    <3>3. rawOld \subseteq overtaken
      BY <3>1 DEF AgesKnown
    <3> QED BY <3>1, <3>2, <3>3 DEF AgesKnown, TypeOK
  <2>6. ASSUME NEW c \in Clients, StoreVoltage(c) PROVE AgesKnown'
    <3>1. /\ pc[c] = "store" /\ pc'[c] = "disable"
          /\ \A d \in Clients \ {c} : pc'[d] = pc[d]
      BY <2>6 DEF StoreVoltage, Goto, TypeOK
    <3>2. /\ valOld'[c] = {} /\ \A d \in Clients \ {c} : valOld'[d] = valOld[d]
          /\ old' = valOld[c] /\ UNCHANGED <<rawOld, overtaken, failed>>
      BY <2>6 DEF StoreVoltage, TypeOK
    <3>3. old' \subseteq overtaken'
      BY <3>2 DEF AgesKnown
    <3> QED BY <3>1, <3>2, <3>3 DEF AgesKnown
  <2>7. ASSUME NEW c \in Clients, CloseGate(c) PROVE AgesKnown'
    <3>1. /\ pc[c] = "disable" /\ pc'[c] = "idle"
          /\ \A d \in Clients \ {c} : pc'[d] = pc[d]
      BY <2>7 DEF CloseGate, Goto, TypeOK
    <3>2. UNCHANGED <<rawOld, valOld, old, overtaken, failed>>
      BY <2>7 DEF CloseGate, ageVars
    <3> QED BY <3>1, <3>2 DEF AgesKnown, TypeOK
  <2>8. CASE UNCHANGED vars
    BY <2>8 DEF AgesKnown, vars, historyVars, ageVars
  <2> QED BY <2>1, <2>2, <2>3, <2>4, <2>5, <2>6, <2>7, <2>8 DEF Next, sample_fetch
<1>3. TypeOK /\ AgesKnown => VoltageIsFresh
  BY DEF TypeOK, AgesKnown, VoltageIsFresh, InFetch, HoldsReading
<1> QED BY <1>1, <1>2, <1>3, TypeCorrect, PTL DEF Spec
=============================================================================
