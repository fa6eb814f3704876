--------------------------- MODULE MCBatteryLevel ---------------------------
(***************************************************************************)
(* All discharge curves of up to three points whose components are values  *)
(* of a "uint16_t" with six values, and voltages to just beyond its range. *)
(***************************************************************************)
EXTENDS BatteryLevel, SequencesExt

MCHalf == 6
MCCurves == {c \in BoundedSeq(Point, 3) : IsCurve(c)}
MCVoltages == 0..(MCHalf + 1)
=============================================================================
