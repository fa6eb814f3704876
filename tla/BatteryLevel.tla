---------------------------- MODULE BatteryLevel ----------------------------
(***************************************************************************)
(* battery_level_pptt of drivers/battery/battery.c: the remaining capacity *)
(* of a battery, in parts per ten thousand, read off a discharge curve.    *)
(*                                                                         *)
(* The search loop is a state machine, so that where its pointer goes can  *)
(* be stated; the result is computed as C does it, in unsigned arithmetic  *)
(* of the width of unsigned int.  The points hold values of half that      *)
(* width (uint16_t and 32 bits on the target); the model keeps the ratio   *)
(* and leaves the width open.                                              *)
(***************************************************************************)
EXTENDS Integers, Sequences

CONSTANTS
  Half,      \* number of values of a uint16_t
  Curves,    \* discharge curves
  Voltages   \* measured voltages: values of an unsigned int

Word == Half * Half   \* number of values of an unsigned int

Point == [lvl_pptt : 0..(Half - 1), lvl_mV : 0..(Half - 1)]

\* battery.h:18-21, but for the level of the first point, on which nothing
\* depends: a curve ends with level 0 and neither component ever rises.
IsCurve(c) ==
  /\ c \in Seq(Point) /\ Len(c) > 0
  /\ c[Len(c)].lvl_pptt = 0
  /\ \A i, j \in 1..Len(c) : i <= j =>
       c[i].lvl_pptt >= c[j].lvl_pptt /\ c[i].lvl_mV >= c[j].lvl_mV

ASSUME BatteryAssumption ==
  /\ Half \in Nat \ {0}
  /\ \A c \in Curves : IsCurve(c)
  /\ Voltages \subseteq 0..(Word - 1)

VARIABLES
  curve, batt_mV,  \* the arguments
  pb,              \* index of the point the pointer is at
  pc,              \* "entry", "search", "above", "done"
  level            \* what is returned

vars == <<curve, batt_mV, pb, pc, level>>

Init ==
  /\ curve \in Curves /\ batt_mV \in Voltages
  /\ pb = 1 /\ pc = "entry" /\ level = 0

\* Subtraction of unsigned int.
Minus(a, b) == (a - b) % Word

return(value) == pc' = "done" /\ level' = value /\ UNCHANGED <<curve, batt_mV, pb>>

\* At or above the highest point: its level.
Entry ==
  /\ pc = "entry"
  /\ \/ batt_mV >= curve[pb].lvl_mV /\ return(curve[pb].lvl_pptt)
     \/ /\ batt_mV < curve[pb].lvl_mV /\ pc' = "search"
        /\ UNCHANGED <<curve, batt_mV, pb, level>>

\* Down to the last point at or below the voltage, or to the end.  The
\* variants called Wrong_, here and below, are mistakes that the properties
\* tell from the code.
Wrong_GoOnAtEqual == curve[pb].lvl_pptt > 0 /\ batt_mV <= curve[pb].lvl_mV
GoOn == curve[pb].lvl_pptt > 0 /\ batt_mV < curve[pb].lvl_mV

Wrong_PointerStays ==
  /\ pc = "search"
  /\ ~GoOn /\ pc' = "above"
  /\ UNCHANGED <<curve, batt_mV, pb, level>>

Search ==
  /\ pc = "search"
  /\ \/ GoOn /\ pb' = pb + 1 /\ UNCHANGED pc
     \/ ~GoOn /\ pc' = "above" /\ UNCHANGED pb
  /\ UNCHANGED <<curve, batt_mV, level>>

\* Below the lowest point: its level.
Cap ==
  /\ pc = "above" /\ batt_mV < curve[pb].lvl_mV
  /\ return(curve[pb].lvl_pptt)

\* Linear interpolation between the points pa (above) and pb (below).
pa == pb - 1
Rise   == Minus(curve[pa].lvl_pptt, curve[pb].lvl_pptt)
Excess == Minus(batt_mV, curve[pb].lvl_mV)
Span   == Minus(curve[pa].lvl_mV, curve[pb].lvl_mV)

Wrong_FromAbove == (curve[pa].lvl_pptt + ((Rise * Excess) % Word) \div Span) % Word
Interpolated == (curve[pb].lvl_pptt + ((Rise * Excess) % Word) \div Span) % Word

Interpolate ==
  /\ pc = "above" /\ batt_mV >= curve[pb].lvl_mV
  /\ return(Interpolated)

Next == Entry \/ Search \/ Cap \/ Interpolate

Spec == Init /\ [][Next]_vars

FairSpec == Spec /\ WF_vars(Next)

-----------------------------------------------------------------------------
(* What the function promises.                                             *)

TypeOK ==
  /\ IsCurve(curve) /\ batt_mV \in 0..(Word - 1)
  /\ pb \in Nat /\ pc \in {"entry", "search", "above", "done"}
  /\ level \in 0..(Word - 1)

\* The pointer never leaves the curve, in either direction.
InsideCurve ==
  /\ pb \in 1..Len(curve)
  /\ pc = "above" /\ batt_mV >= curve[pb].lvl_mV => pa \in 1..Len(curve)

\* The interpolation divides by no zero, and none of its unsigned operations
\* wraps: it computes what the formula says over the integers.
ExactArithmetic ==
  pc = "above" /\ batt_mV >= curve[pb].lvl_mV =>
    /\ Span > 0
    /\ Rise = curve[pa].lvl_pptt - curve[pb].lvl_pptt
    /\ Excess = batt_mV - curve[pb].lvl_mV
    /\ Span = curve[pa].lvl_mV - curve[pb].lvl_mV
    /\ Rise * Excess < Word

\* Every point that is read is one of the curve, and every value exact.
CurveSafe == InsideCurve /\ ExactArithmetic

\* The level of a voltage, stated without pointers: the level of the first
\* point from its voltage on, that of the last point below its voltage, and
\* in between the largest level on or under the line through the neighbours.
Reference(v, c) ==
  LET last == Len(c)
      under(i, p) == (p - c[i+1].lvl_pptt) * (c[i].lvl_mV - c[i+1].lvl_mV)
                       <= (c[i].lvl_pptt - c[i+1].lvl_pptt) * (v - c[i+1].lvl_mV)
      between == {i \in 1..(last - 1) : c[i+1].lvl_mV <= v /\ v < c[i].lvl_mV}
  IN  IF v >= c[1].lvl_mV THEN c[1].lvl_pptt
      ELSE IF between = {} THEN 0
      ELSE LET i == CHOOSE i \in between : TRUE
               levels == {p \in c[i+1].lvl_pptt..c[i].lvl_pptt : under(i, p)}
           IN  CHOOSE p \in levels : \A q \in levels : q <= p

\* The result is the one of Reference.
LevelCorrect == pc = "done" => level = Reference(batt_mV, curve)

\* A higher voltage would never have given a lower level.
LevelRises ==
  pc = "done" => \A v \in Voltages : batt_mV <= v => level <= Reference(v, curve)

\* The function returns the right level, and rises with the voltage.
LevelSound == LevelCorrect /\ LevelRises

\* The level lies between those of the neighbours of the voltage.
LevelInSegment ==
  pc = "done" => \A i \in 1..Len(curve) :
    /\ batt_mV >= curve[i].lvl_mV => level >= curve[i].lvl_pptt
    /\ batt_mV <  curve[i].lvl_mV => level <= curve[i].lvl_pptt

\* The search ends.
Returns == <>(pc = "done")
=============================================================================
