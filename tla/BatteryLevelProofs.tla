------------------------- MODULE BatteryLevelProofs -------------------------
(***************************************************************************)
(* Proofs about BatteryLevel, for curves of any length and integers of any *)
(* width.                                                                  *)
(***************************************************************************)
EXTENDS BatteryLevel, WellFoundedInduction, TLAPS

-----------------------------------------------------------------------------
(* Arithmetic.                                                             *)

\* A product of two uint16_t fits an unsigned int.
LEMMA ProductFits ==
  ASSUME NEW a \in 0..(Half - 1), NEW b \in 0..(Half - 1)
  PROVE  a * b \in 0..(Word - 1)
<1> USE BatteryAssumption DEF BatteryAssumption
<1>1. a * b >= 0
  OBVIOUS
<1>2. a * b <= a * Half
  OBVIOUS
<1>3. a * Half <= (Half - 1) * Half
  OBVIOUS
<1>4. (Half - 1) * Half = Half * Half - Half
  OBVIOUS
<1>5. a * b \in Int /\ Half * Half \in Int /\ a * Half \in Int
  OBVIOUS
<1> QED
  BY <1>1, <1>2, <1>3, <1>4, <1>5 DEF Word

\* Unsigned subtraction is subtraction while the result is a uint16_t.
LEMMA MinusExact ==
  ASSUME NEW a \in Int, NEW b \in Int, a - b \in 0..(Half - 1)
  PROVE  Minus(a, b) = a - b
<1> USE BatteryAssumption DEF BatteryAssumption
<1>1. Half <= Word /\ Word \in Nat
  BY DEF Word
<1> QED
  BY <1>1 DEF Minus

\* A fraction of Rise, rounded down, lies between 0 and Rise.
LEMMA FractionBound ==
  ASSUME NEW r \in Nat, NEW e \in Nat, NEW s \in Nat \ {0}, e <= s
  PROVE  (r * e) \div s \in 0..r
<1>1. r * e <= r * s /\ r * e \in Nat /\ r * s \in Nat
  OBVIOUS
<1>2. (r * s) \div s = r
  OBVIOUS
<1>3. (r * e) \div s >= 0 /\ (r * e) \div s \in Int
  BY <1>1
<1>4. (r * e) \div s <= (r * s) \div s
  BY <1>1
<1> QED
  BY <1>2, <1>3, <1>4

\* Two values of the curve and a voltage between them.
LEMMA Differences ==
  ASSUME NEW up \in 0..(Half - 1), NEW down \in 0..(Half - 1), NEW v \in Nat,
         v < up, down <= v
  PROVE  up - down \in 1..(Half - 1) /\ v - down \in 0..(Half - 1) /\ v - down < up - down
BY BatteryAssumption DEF BatteryAssumption

LEMMA Difference ==
  ASSUME NEW up \in 0..(Half - 1), NEW down \in 0..(Half - 1), down <= up
  PROVE  up - down \in 0..(Half - 1)
BY BatteryAssumption DEF BatteryAssumption

LEMMA SumBetween ==
  ASSUME NEW up \in 0..(Half - 1), NEW down \in 0..(Half - 1), down <= up,
         NEW q \in 0..(up - down)
  PROVE  down + q \in down..up
BY BatteryAssumption DEF BatteryAssumption

-----------------------------------------------------------------------------
(* The search.  The pointer moves past a point only when the voltage is     *)
(* below that point, so behind it there is always a point above the voltage *)
(* to interpolate from; and it stops at level 0 at the latest, which the    *)
(* last point has.                                                          *)

SearchInv ==
  /\ TypeOK
  /\ pb \in 1..Len(curve)
  /\ pc = "entry" => pb = 1
  /\ pc \in {"search", "above"} =>
       \A i \in 1..Len(curve) : i < pb \/ i = 1 => batt_mV < curve[i].lvl_mV
  /\ pc = "above" => ~GoOn

LEMMA PointType ==
  ASSUME TypeOK, NEW i \in 1..Len(curve)
  PROVE  curve[i].lvl_mV \in 0..(Half - 1) /\ curve[i].lvl_pptt \in 0..(Half - 1)
<1>1. curve \in Seq(Point)
  BY DEF TypeOK, IsCurve
<1>2. curve[i] \in Point
  BY <1>1
<1> QED
  BY <1>2 DEF Point

\* Where the program interpolates, between which points, and that they lie in
\* the order the arithmetic needs.
LEMMA AtInterpolation ==
  ASSUME SearchInv, pc = "above", batt_mV >= curve[pb].lvl_mV
  PROVE  /\ pb > 1 /\ pa \in 1..Len(curve)
         /\ curve[pa].lvl_mV > batt_mV
         /\ curve[pa].lvl_pptt >= curve[pb].lvl_pptt
<1>1. \A i \in 1..Len(curve) : i < pb \/ i = 1 => batt_mV < curve[i].lvl_mV
  BY DEF SearchInv
<1>2. pb \in 1..Len(curve) /\ batt_mV \in Nat /\ Len(curve) \in Nat
  BY BatteryAssumption DEF SearchInv, TypeOK, IsCurve, BatteryAssumption, Word
<1>3. pb # 1
  <2>1. curve[pb].lvl_mV \in Int
    BY <1>2, PointType, BatteryAssumption DEF SearchInv, BatteryAssumption
  <2> QED
    BY <1>1, <1>2, <2>1
<1>4. pa \in 1..Len(curve) /\ pa < pb
  BY <1>2, <1>3 DEF pa
<1>5. batt_mV < curve[pa].lvl_mV
  BY <1>1, <1>4
<1>6. curve[pa].lvl_pptt >= curve[pb].lvl_pptt
  BY <1>2, <1>4 DEF SearchInv, TypeOK, IsCurve
<1>7. curve[pa].lvl_mV \in Int
  BY <1>4, PointType, BatteryAssumption DEF SearchInv, BatteryAssumption
<1> QED
  BY <1>2, <1>3, <1>4, <1>5, <1>6, <1>7

LEMMA Exact == ASSUME SearchInv PROVE ExactArithmetic
<1> SUFFICES ASSUME pc = "above", batt_mV >= curve[pb].lvl_mV
             PROVE  /\ Span > 0
                    /\ Rise = curve[pa].lvl_pptt - curve[pb].lvl_pptt
                    /\ Excess = batt_mV - curve[pb].lvl_mV
                    /\ Span = curve[pa].lvl_mV - curve[pb].lvl_mV
                    /\ Rise * Excess < Word
  BY DEF ExactArithmetic
<1> USE BatteryAssumption DEF BatteryAssumption
<1>1. /\ pb \in 1..Len(curve) /\ pa \in 1..Len(curve)
      /\ curve[pa].lvl_mV > batt_mV /\ curve[pa].lvl_pptt >= curve[pb].lvl_pptt
      /\ batt_mV \in Nat /\ Word \in Nat
  BY AtInterpolation DEF SearchInv, TypeOK, Word
<1>2. /\ curve[pa].lvl_mV \in 0..(Half - 1) /\ curve[pa].lvl_pptt \in 0..(Half - 1)
      /\ curve[pb].lvl_mV \in 0..(Half - 1) /\ curve[pb].lvl_pptt \in 0..(Half - 1)
  BY <1>1, PointType DEF SearchInv
<1>3. /\ curve[pa].lvl_pptt - curve[pb].lvl_pptt \in 0..(Half - 1)
      /\ batt_mV - curve[pb].lvl_mV \in 0..(Half - 1)
      /\ curve[pa].lvl_mV - curve[pb].lvl_mV \in 1..(Half - 1)
  <2>1. curve[pb].lvl_mV <= batt_mV /\ curve[pb].lvl_pptt <= curve[pa].lvl_pptt
        /\ batt_mV < curve[pa].lvl_mV
    BY <1>1, <1>2
  <2> QED
    BY <1>1, <1>2, <2>1, Difference, Differences
<1>4. /\ Rise = curve[pa].lvl_pptt - curve[pb].lvl_pptt
      /\ Excess = batt_mV - curve[pb].lvl_mV
      /\ Span = curve[pa].lvl_mV - curve[pb].lvl_mV
  <2>1. /\ curve[pa].lvl_mV \in Int /\ curve[pa].lvl_pptt \in Int /\ batt_mV \in Int
        /\ curve[pb].lvl_mV \in Int /\ curve[pb].lvl_pptt \in Int
    BY <1>1, <1>2
  <2> QED
    BY <1>3, <2>1, MinusExact DEF Rise, Excess, Span
<1>5. Rise * Excess \in 0..(Word - 1)
  BY <1>3, <1>4, ProductFits
<1> QED
  BY <1>1, <1>3, <1>4, <1>5

\* What the interpolation returns is the fraction over the integers, and lies
\* between the levels of its neighbours.
LEMMA InterpolatedBound ==
  ASSUME SearchInv, pc = "above", batt_mV >= curve[pb].lvl_mV
  PROVE  /\ Interpolated \in curve[pb].lvl_pptt..curve[pa].lvl_pptt
         /\ Interpolated = curve[pb].lvl_pptt +
              ((curve[pa].lvl_pptt - curve[pb].lvl_pptt) * (batt_mV - curve[pb].lvl_mV))
                \div (curve[pa].lvl_mV - curve[pb].lvl_mV)
<1> USE BatteryAssumption DEF BatteryAssumption
<1> DEFINE r == curve[pa].lvl_pptt - curve[pb].lvl_pptt
           e == batt_mV - curve[pb].lvl_mV
           s == curve[pa].lvl_mV - curve[pb].lvl_mV
<1>1. Rise = r /\ Excess = e /\ Span = s /\ r * e < Word
  BY Exact DEF ExactArithmetic
<1>2. /\ pb \in 1..Len(curve) /\ pa \in 1..Len(curve)
      /\ curve[pa].lvl_mV > batt_mV /\ curve[pa].lvl_pptt >= curve[pb].lvl_pptt
      /\ batt_mV \in Nat /\ Word \in Nat
  BY AtInterpolation DEF SearchInv, TypeOK, Word
<1>3. /\ curve[pa].lvl_mV \in 0..(Half - 1) /\ curve[pa].lvl_pptt \in 0..(Half - 1)
      /\ curve[pb].lvl_mV \in 0..(Half - 1) /\ curve[pb].lvl_pptt \in 0..(Half - 1)
  BY <1>2, PointType DEF SearchInv
<1>4. r \in Nat /\ e \in Nat /\ s \in Nat \ {0} /\ e <= s
  BY <1>2, <1>3
<1>5. r * e \in Nat /\ (r * e) % Word = r * e
  <2>1. r * e \in Nat
    BY <1>4
  <2> HIDE DEF r, e
  <2> QED
    BY <1>1, <1>2, <2>1
<1> DEFINE q == (r * e) \div s
           t == curve[pb].lvl_pptt + q
<1>6. q \in 0..r
  <2> HIDE DEF r, e, s
  <2> QED
    BY <1>4, FractionBound
<1>7. Half <= Word
  BY DEF Word
<1>8. Interpolated = t % Word
  BY <1>1, <1>5 DEF Interpolated
<1> HIDE DEF q
<1>9. t \in curve[pb].lvl_pptt..curve[pa].lvl_pptt
  <2>1. curve[pb].lvl_pptt <= curve[pa].lvl_pptt
    BY <1>2, <1>3
  <2> QED
    BY <1>3, <1>6, <2>1, SumBetween
<1> HIDE DEF t
<1>10. t \in 0..(Word - 1)
  BY <1>2, <1>3, <1>7, <1>9
<1>11. t % Word = t
  BY <1>2, <1>10
<1>12. Interpolated = t
  BY <1>8, <1>11
<1> QED
  BY <1>9, <1>12 DEF t, q

-----------------------------------------------------------------------------
(* The theorems.                                                           *)

\* What holds of the level once it is returned.
LevelInv == SearchInv /\ LevelInSegment

LEMMA InitLevel == Init => LevelInv
<1> SUFFICES ASSUME Init PROVE LevelInv
  OBVIOUS
<1> USE BatteryAssumption DEF BatteryAssumption
<1>1. IsCurve(curve) /\ batt_mV \in 0..(Word - 1) /\ 0 \in 0..(Word - 1)
  BY DEF Init, Word
<1>2. 1 \in 1..Len(curve)
  BY <1>1 DEF IsCurve
<1> QED
  BY <1>1, <1>2 DEF Init, LevelInv, SearchInv, TypeOK, LevelInSegment

LEMMA NextLevel == LevelInv /\ [Next]_vars => LevelInv'
<1> SUFFICES ASSUME LevelInv, [Next]_vars PROVE LevelInv'
  OBVIOUS
<1> USE BatteryAssumption DEF BatteryAssumption
<1>0. /\ SearchInv /\ TypeOK /\ pb \in 1..Len(curve) /\ Len(curve) \in Nat
      /\ batt_mV \in Nat /\ Word \in Nat /\ Half <= Word
  BY DEF LevelInv, SearchInv, TypeOK, IsCurve, Word
<1>t. \A i \in 1..Len(curve) :
        curve[i].lvl_mV \in 0..(Half - 1) /\ curve[i].lvl_pptt \in 0..(Half - 1)
  BY <1>0, PointType
<1>m. \A i, j \in 1..Len(curve) : i <= j =>
        curve[i].lvl_pptt >= curve[j].lvl_pptt /\ curve[i].lvl_mV >= curve[j].lvl_mV
  BY <1>0 DEF TypeOK, IsCurve
<1>d. ASSUME pc' = "done", UNCHANGED <<curve, batt_mV, pb>>,
             level' \in 0..(Word - 1), LevelInSegment'
      PROVE  LevelInv'
  BY <1>0, <1>d DEF LevelInv, SearchInv, TypeOK
<1>1. ASSUME pc = "entry", batt_mV >= curve[pb].lvl_mV, return(curve[pb].lvl_pptt)
      PROVE  LevelInv'
  <2>1. pb = 1 /\ 1 \in 1..Len(curve)
    BY <1>0, <1>1 DEF SearchInv
  <2>2. /\ level' = curve[1].lvl_pptt /\ UNCHANGED <<curve, batt_mV, pb>>
        /\ pc' = "done" /\ batt_mV >= curve[1].lvl_mV
    BY <1>1, <2>1 DEF return
  <2>3. ASSUME NEW i \in 1..Len(curve)
        PROVE  curve[1].lvl_pptt >= curve[i].lvl_pptt /\ curve[1].lvl_mV >= curve[i].lvl_mV
    BY <1>m, <2>1
  <2>4. ASSUME NEW i \in 1..Len(curve)
        PROVE  ~(batt_mV < curve[i].lvl_mV)
    BY <1>0, <1>t, <2>1, <2>2, <2>3
  <2>5. LevelInSegment'
    BY <2>2, <2>3, <2>4 DEF LevelInSegment
  <2>6. level' \in 0..(Word - 1)
    BY <1>0, <1>t, <2>1, <2>2
  <2> QED
    BY <1>d, <2>2, <2>5, <2>6
<1>2. ASSUME pc = "entry", batt_mV < curve[pb].lvl_mV, pc' = "search",
             UNCHANGED <<curve, batt_mV, pb, level>>
      PROVE  LevelInv'
  <2>1. pb = 1
    BY <1>0, <1>2 DEF SearchInv
  <2>2. \A i \in 1..Len(curve) : i < pb \/ i = 1 => batt_mV < curve[i].lvl_mV
    BY <1>2, <2>1
  <2> QED
    BY <1>0, <1>2, <2>2 DEF LevelInv, SearchInv, TypeOK, LevelInSegment
<1>3. CASE Search
  <2>1. CASE GoOn /\ pb' = pb + 1 /\ pc' = pc /\ pc = "search"
    <3>1. pb # Len(curve)
      BY <1>0, <2>1 DEF GoOn, TypeOK, IsCurve
    <3>2. pb' \in 1..Len(curve) /\ pb' \in Nat
      BY <1>0, <2>1, <3>1
    <3>3. \A i \in 1..Len(curve) : i < pb' \/ i = 1 => batt_mV < curve[i].lvl_mV
      <4>1. \A i \in 1..Len(curve) : i < pb \/ i = 1 => batt_mV < curve[i].lvl_mV
        BY <1>0, <2>1 DEF SearchInv
      <4>2. batt_mV < curve[pb].lvl_mV
        BY <2>1 DEF GoOn
      <4>3. ASSUME NEW i \in 1..Len(curve), i < pb' PROVE i < pb \/ i = pb
        BY <1>0, <2>1, <4>3
      <4> QED
        BY <4>1, <4>2, <4>3
    <3>4. UNCHANGED <<curve, batt_mV, level>>
      BY <1>3 DEF Search
    <3> QED
      BY <1>0, <2>1, <3>2, <3>3, <3>4 DEF LevelInv, SearchInv, TypeOK, LevelInSegment
  <2>2. CASE ~GoOn /\ pc' = "above" /\ pb' = pb /\ pc = "search"
    <3>1. UNCHANGED <<curve, batt_mV, level>>
      BY <1>3 DEF Search
    <3> QED
      BY <1>0, <2>2, <3>1 DEF LevelInv, SearchInv, TypeOK, LevelInSegment, GoOn
  <2> QED
    BY <1>3, <2>1, <2>2 DEF Search
<1>4. CASE Cap
  <2>1. /\ level' = curve[pb].lvl_pptt /\ UNCHANGED <<curve, batt_mV, pb>>
        /\ pc' = "done" /\ pc = "above" /\ batt_mV < curve[pb].lvl_mV
    BY <1>4 DEF Cap, return
  <2>2. curve[pb].lvl_pptt = 0
    BY <1>0, <1>t, <2>1 DEF SearchInv, GoOn
  <2>3. ASSUME NEW i \in 1..Len(curve), batt_mV >= curve[i].lvl_mV
        PROVE  curve[i].lvl_pptt = 0
    <3>1. ~(i <= pb)
      BY <1>0, <1>m, <1>t, <2>1, <2>3
    <3>2. curve[pb].lvl_pptt >= curve[i].lvl_pptt
      BY <1>0, <1>m, <3>1
    <3> QED
      BY <1>0, <1>t, <2>2, <3>2
  <2>4. LevelInSegment'
    BY <1>0, <1>t, <2>1, <2>2, <2>3 DEF LevelInSegment
  <2>5. level' \in 0..(Word - 1)
    BY <1>0, <1>t, <2>1
  <2> QED
    BY <1>d, <2>1, <2>4, <2>5
<1>5. CASE Interpolate
  <2>1. /\ level' = Interpolated /\ UNCHANGED <<curve, batt_mV, pb>>
        /\ pc' = "done" /\ pc = "above" /\ batt_mV >= curve[pb].lvl_mV
    BY <1>5 DEF Interpolate, return
  <2>2. Interpolated \in curve[pb].lvl_pptt..curve[pa].lvl_pptt
    BY <1>0, <2>1, InterpolatedBound
  <2>3. /\ pa \in 1..Len(curve) /\ curve[pa].lvl_mV > batt_mV /\ pa = pb - 1
    BY <1>0, <2>1, AtInterpolation DEF pa
  <2>4. ASSUME NEW i \in 1..Len(curve), batt_mV >= curve[i].lvl_mV
        PROVE  Interpolated >= curve[i].lvl_pptt
    <3>1. ~(i <= pa)
      BY <1>0, <1>m, <1>t, <2>3, <2>4
    <3>2. pb <= i
      BY <1>0, <2>3, <3>1
    <3>3. curve[pb].lvl_pptt >= curve[i].lvl_pptt
      BY <1>0, <1>m, <3>2
    <3> QED
      BY <1>0, <1>t, <2>2, <2>3, <3>3
  <2>5. ASSUME NEW i \in 1..Len(curve), batt_mV < curve[i].lvl_mV
        PROVE  Interpolated <= curve[i].lvl_pptt
    <3>1. ~(pb <= i)
      BY <1>0, <1>m, <1>t, <2>1, <2>5
    <3>2. i <= pa
      BY <1>0, <2>3, <3>1
    <3>3. curve[i].lvl_pptt >= curve[pa].lvl_pptt
      BY <1>m, <2>3, <3>2
    <3> QED
      BY <1>0, <1>t, <2>2, <2>3, <3>3
  <2>6. LevelInSegment'
    BY <2>1, <2>4, <2>5 DEF LevelInSegment
  <2>7. level' \in 0..(Word - 1)
    BY <1>0, <1>t, <2>1, <2>2, <2>3
  <2> QED
    BY <1>d, <2>1, <2>6, <2>7
<1>6. CASE UNCHANGED vars
  BY <1>6 DEF vars, LevelInv, SearchInv, TypeOK, LevelInSegment, GoOn
<1> QED
  BY <1>1, <1>2, <1>3, <1>4, <1>5, <1>6 DEF Next, Entry

LEMMA LevelInvariant == Spec => []LevelInv
BY InitLevel, NextLevel, PTL DEF Spec

\* Type correctness: the level is an unsigned int, the arguments stay put.
THEOREM TypeCorrect == Spec => []TypeOK
<1>1. LevelInv => TypeOK
  BY DEF LevelInv, SearchInv
<1> QED
  BY <1>1, LevelInvariant, PTL

\* How many steps the function has left at most.
StepsLeft ==
  Len(curve) - pb
    + (CASE pc = "entry" -> 3 [] pc = "search" -> 2 [] pc = "above" -> 1 [] OTHER -> 0)

\* A step lowers the number of steps that are left.
StepRunsOut == {StepsLeft, StepsLeft'} \subseteq Nat /\ StepsLeft' < StepsLeft

\* Level 0 stops the search at the last point of any curve (battery.c:240-244).
LEMMA StepTaken == ASSUME LevelInv, LevelInv', Next PROVE StepRunsOut
<1>1. /\ Len(curve) \in Nat /\ pb \in 1..Len(curve)
      /\ Len(curve') \in Nat /\ pb' \in 1..Len(curve')
  BY DEF LevelInv, SearchInv, TypeOK, IsCurve
<1>2. StepsLeft \in Nat /\ StepsLeft' \in Nat
  BY <1>1 DEF StepsLeft
<1> SUFFICES StepsLeft' < StepsLeft
  BY <1>2 DEF StepRunsOut
<1>3. CASE Search
  BY <1>1, <1>3 DEF Search, StepsLeft
<1>4. CASE Entry
  BY <1>1, <1>4 DEF Entry, return, StepsLeft
<1>5. CASE Cap \/ Interpolate
  BY <1>1, <1>5 DEF Cap, Interpolate, return, StepsLeft
<1> QED
  BY <1>3, <1>4, <1>5 DEF Next

\* Every step lowers a natural number, so that the search runs out of steps.
THEOREM SearchRunsOut == Spec => [][StepRunsOut]_vars
BY StepTaken, LevelInvariant, PTL DEF Spec

\* The function can take its next step until it returns.
SearchGoesOn == pc # "done" => ENABLED <<Next>>_vars

Ends(n) ==
  []LevelInv /\ [][Next]_vars /\ WF_vars(Next) /\ []SearchGoesOn
    => [](StepsLeft <= n => <>(pc = "done"))

\* Induction over the number of steps.  It holds of every behaviour, whatever
\* Ends says; no prover at hand can derive it for a temporal formula.
InductionOverSteps ==
  Ends(0) /\ (\A n \in Nat : Ends(n) => Ends(n + 1)) => \A n \in Nat : Ends(n)

LEMMA EndsFromAnywhere == InductionOverSteps => \A n \in Nat : Ends(n)
<1>1. LevelInv => StepsLeft \in Nat /\ (StepsLeft <= 0 => pc = "done")
  BY DEF LevelInv, SearchInv, TypeOK, IsCurve, StepsLeft
<1>2. Ends(0)
  BY <1>1, PTL DEF Ends
<1>3. ASSUME NEW n \in Nat PROVE Ends(n) => Ends(n + 1)
  <2>1. LevelInv /\ StepsLeft <= n + 1 => StepsLeft <= n \/ StepsLeft = n + 1
    BY <1>1
  <2>2. LevelInv /\ LevelInv' /\ StepsLeft = n + 1 /\ [Next]_vars
          => (StepsLeft = n + 1)' \/ (StepsLeft <= n)'
    BY StepTaken DEF StepRunsOut, vars, StepsLeft
  <2>3. LevelInv /\ LevelInv' /\ StepsLeft = n + 1 /\ <<Next>>_vars
          => (StepsLeft <= n)'
    BY StepTaken DEF StepRunsOut
  <2>4. SearchGoesOn => ENABLED <<Next>>_vars \/ pc = "done"
    BY DEF SearchGoesOn
  <2> QED
    BY <2>1, <2>2, <2>3, <2>4, PTL DEF Ends
<1> QED
  BY <1>2, <1>3 DEF InductionOverSteps

\* The search through a curve of any length ends, and the function returns,
\* provided that none of its operations gets stuck.
THEOREM SearchReturns ==
  FairSpec /\ []SearchGoesOn /\ InductionOverSteps => Returns
<1> SUFFICES ASSUME FairSpec, []SearchGoesOn, InductionOverSteps
             PROVE  <>(pc = "done")
  BY DEF Returns
<1>1. LevelInv
  BY InitLevel, PTL DEF FairSpec, Spec
<1>2. StepsLeft \in Nat
  BY <1>1 DEF LevelInv, SearchInv, TypeOK, IsCurve, StepsLeft
<1>3. PICK n \in Nat : StepsLeft <= n
  BY <1>2
<1>4. Ends(n)
  BY EndsFromAnywhere
<1> QED
  BY <1>3, <1>4, LevelInvariant, PTL DEF Ends, FairSpec, Spec

\* For every curve of uint16_t that battery.h allows, the pointer never leaves
\* it, pb - 1 is a point of it whenever it is read (battery.c:233-252), and the
\* interpolation divides by no zero and no operation of it wraps (battery.c:254).
THEOREM CurveReadSafely == Spec => []CurveSafe
<1>1. LevelInv => CurveSafe
  BY AtInterpolation, Exact DEF LevelInv, SearchInv, CurveSafe, InsideCurve
<1> QED
  BY <1>1, LevelInvariant, PTL

\* The level lies between those of the points around the voltage.
THEOREM LevelStaysInSegment == Spec => []LevelInSegment
<1>1. LevelInv => LevelInSegment
  BY DEF LevelInv
<1> QED
  BY <1>1, LevelInvariant, PTL

-----------------------------------------------------------------------------
(* The level is the one of Reference.                                      *)

\* Rounding down gives the largest integer under the line.
LEMMA FractionIsLargest ==
  ASSUME NEW n \in Nat, NEW s \in Nat \ {0}, NEW k \in Int
  PROVE  k * s <= n <=> k <= n \div s
<1> DEFINE q == n \div s
<1>1. q \in Int /\ q * s <= n /\ n < q * s + s
  OBVIOUS
<1> HIDE DEF q
<1>2. ASSUME k <= q PROVE k * s <= n
  <2>1. k * s <= q * s
    BY <1>1, <1>2
  <2> QED BY <1>1, <2>1
<1>3. ASSUME k > q PROVE ~(k * s <= n)
  <2>1. k >= q + 1
    BY <1>1, <1>3
  <2>2. k * s >= (q + 1) * s
    BY <1>1, <2>1
  <2>3. (q + 1) * s = q * s + s
    BY <1>1
  <2> QED BY <1>1, <2>2, <2>3
<1>4. k <= q \/ k > q
  BY <1>1
<1> QED BY <1>1, <1>2, <1>3, <1>4 DEF q

\* The program interpolates to the largest level on or under the line.
LEMMA InterpolatedIsLargest ==
  ASSUME SearchInv, pc = "above", batt_mV >= curve[pb].lvl_mV, NEW k \in Int
  PROVE  k <= Interpolated <=>
           (k - curve[pb].lvl_pptt) * (curve[pa].lvl_mV - curve[pb].lvl_mV)
             <= (curve[pa].lvl_pptt - curve[pb].lvl_pptt) * (batt_mV - curve[pb].lvl_mV)
<1> USE BatteryAssumption DEF BatteryAssumption
<1> DEFINE r == curve[pa].lvl_pptt - curve[pb].lvl_pptt
           e == batt_mV - curve[pb].lvl_mV
           s == curve[pa].lvl_mV - curve[pb].lvl_mV
           down == curve[pb].lvl_pptt
<1>1. r \in Nat /\ e \in Nat /\ s \in Nat \ {0} /\ down \in Nat /\ r * e \in Nat
  <2>1. /\ pb \in 1..Len(curve) /\ pa \in 1..Len(curve)
        /\ curve[pa].lvl_mV > batt_mV /\ curve[pa].lvl_pptt >= curve[pb].lvl_pptt
        /\ batt_mV \in Nat
    BY AtInterpolation DEF SearchInv, TypeOK, Word
  <2>2. /\ curve[pa].lvl_mV \in Nat /\ curve[pa].lvl_pptt \in Nat
        /\ curve[pb].lvl_mV \in Nat /\ curve[pb].lvl_pptt \in Nat
    BY <2>1, PointType DEF SearchInv
  <2>3. r \in Nat /\ e \in Nat
    BY <2>1, <2>2
  <2>4. s \in Nat \ {0}
    BY <2>1, <2>2
  <2> QED BY <2>2, <2>3, <2>4
<1>2. Interpolated = down + (r * e) \div s
  BY InterpolatedBound
<1> HIDE DEF r, e, s, down
<1>3. k - down \in Int /\ (r * e) \div s \in Int
  BY <1>1
<1>4. (k - down) * s <= r * e <=> k - down <= (r * e) \div s
  BY <1>1, <1>3, FractionIsLargest
<1>5. k - down <= (r * e) \div s <=> k <= Interpolated
  BY <1>1, <1>2, <1>3
<1> QED BY <1>4, <1>5 DEF r, e, s, down

\* Segment i of a curve c holds the voltage v; the level p is on or under its
\* line there.
Holds(c, v, i) == c[i+1].lvl_mV <= v /\ v < c[i].lvl_mV
OnOrUnder(c, v, i, p) ==
  (p - c[i+1].lvl_pptt) * (c[i].lvl_mV - c[i+1].lvl_mV)
    <= (c[i].lvl_pptt - c[i+1].lvl_pptt) * (v - c[i+1].lvl_mV)

\* A level that is the largest on or under the line, in every segment that
\* holds the voltage, is the one of Reference.
LEMMA ReferenceInSegment ==
  ASSUME NEW v, NEW c, NEW p \in Int, ~(v >= c[1].lvl_mV),
         NEW i \in 1..(Len(c) - 1), Holds(c, v, i),
         \A j \in 1..(Len(c) - 1) : Holds(c, v, j) =>
           /\ p \in c[j+1].lvl_pptt..c[j].lvl_pptt /\ OnOrUnder(c, v, j, p)
           /\ \A q \in c[j+1].lvl_pptt..c[j].lvl_pptt :
                OnOrUnder(c, v, j, q) => q <= p
  PROVE  Reference(v, c) = p
<1> DEFINE between == {j \in 1..(Len(c) - 1) : c[j+1].lvl_mV <= v /\ v < c[j].lvl_mV}
           k == CHOOSE j \in between : TRUE
           levels == {q \in c[k+1].lvl_pptt..c[k].lvl_pptt :
                        (q - c[k+1].lvl_pptt) * (c[k].lvl_mV - c[k+1].lvl_mV)
                          <= (c[k].lvl_pptt - c[k+1].lvl_pptt) * (v - c[k+1].lvl_mV)}
<1>1. k \in between
  <2>1. i \in between
    BY DEF Holds
  <2> QED BY <2>1
<1>2. Reference(v, c) = CHOOSE q \in levels : \A r \in levels : r <= q
  <2>1. between # {}
    BY <1>1
  <2> HIDE DEF between
  <2> QED BY <2>1 DEF Reference, between
<1>3. k \in 1..(Len(c) - 1) /\ Holds(c, v, k)
  BY <1>1 DEF Holds
<1> HIDE DEF k
<1>4. p \in levels /\ \A q \in levels : q <= p /\ q \in Int
  BY <1>3 DEF OnOrUnder
<1> HIDE DEF levels
<1> DEFINE m == CHOOSE q \in levels : \A r \in levels : r <= q
<1>5. m \in levels /\ \A r \in levels : r <= m
  BY <1>4
<1> HIDE DEF m
<1>6. m = p
  BY <1>4, <1>5
<1> QED BY <1>2, <1>6 DEF m

\* The result stays the one of Reference.
LEMMA NextCorrect ==
  ASSUME LevelInv, LevelCorrect, [Next]_vars
  PROVE  LevelCorrect'
<1> USE BatteryAssumption DEF BatteryAssumption
<1>0. /\ SearchInv /\ TypeOK /\ pb \in 1..Len(curve) /\ Len(curve) \in Nat
      /\ batt_mV \in Nat /\ Word \in Nat
  BY DEF LevelInv, SearchInv, TypeOK, IsCurve, Word
<1>t. \A i \in 1..Len(curve) :
        curve[i].lvl_mV \in 0..(Half - 1) /\ curve[i].lvl_pptt \in 0..(Half - 1)
  BY <1>0, PointType
<1>m. \A i, j \in 1..Len(curve) : i <= j =>
        curve[i].lvl_pptt >= curve[j].lvl_pptt /\ curve[i].lvl_mV >= curve[j].lvl_mV
  BY <1>0 DEF TypeOK, IsCurve
<1>1. ASSUME pc = "entry", batt_mV >= curve[pb].lvl_mV, return(curve[pb].lvl_pptt)
      PROVE  LevelCorrect'
  <2>1. pb = 1
    BY <1>0, <1>1 DEF SearchInv
  <2>2. Reference(batt_mV, curve) = curve[1].lvl_pptt
    BY <1>1, <2>1 DEF Reference
  <2> QED BY <1>1, <2>1, <2>2 DEF LevelCorrect, return
<1>2. CASE Cap
  <2>1. /\ level' = curve[pb].lvl_pptt /\ UNCHANGED <<curve, batt_mV>>
        /\ pc = "above" /\ batt_mV < curve[pb].lvl_mV
    BY <1>2 DEF Cap, return
  <2>2. curve[pb].lvl_pptt = 0
    BY <1>0, <1>t, <2>1 DEF SearchInv, GoOn
  <2>3. ASSUME NEW i \in 1..(Len(curve) - 1), Holds(curve, batt_mV, i)
        PROVE  curve[i].lvl_pptt = 0 /\ curve[i+1].lvl_pptt = 0
    <3>1. i \in 1..Len(curve) /\ i + 1 \in 1..Len(curve)
      BY <1>0
    <3>2. ~(i + 1 <= pb)
      BY <1>0, <1>m, <1>t, <2>1, <2>3, <3>1 DEF Holds
    <3>3. pb <= i
      BY <1>0, <3>2
    <3> QED BY <1>0, <1>m, <1>t, <2>2, <3>1, <3>3
  <2>4. ~(batt_mV >= curve[1].lvl_mV)
    <3>1. 1 \in 1..Len(curve) /\ batt_mV < curve[1].lvl_mV
      BY <1>0, <2>1 DEF SearchInv
    <3> QED BY <1>0, <1>t, <3>1
  <2>5. Reference(batt_mV, curve) = 0
    <3>1. CASE \E i \in 1..(Len(curve) - 1) : Holds(curve, batt_mV, i)
      <4>1. PICK i \in 1..(Len(curve) - 1) : Holds(curve, batt_mV, i)
        BY <3>1
      <4>2. ASSUME NEW j \in 1..(Len(curve) - 1), Holds(curve, batt_mV, j)
            PROVE  /\ 0 \in curve[j+1].lvl_pptt..curve[j].lvl_pptt
                   /\ OnOrUnder(curve, batt_mV, j, 0)
                   /\ \A q \in curve[j+1].lvl_pptt..curve[j].lvl_pptt :
                        OnOrUnder(curve, batt_mV, j, q) => q <= 0
        <5>1. curve[j].lvl_pptt = 0 /\ curve[j+1].lvl_pptt = 0
          BY <2>3, <4>2
        <5>2. curve[j].lvl_mV \in Int /\ curve[j+1].lvl_mV \in Int
          BY <1>0, <1>t
        <5> QED BY <1>0, <5>1, <5>2 DEF OnOrUnder
      <4> QED BY <2>4, <4>1, <4>2, ReferenceInSegment
    <3>2. CASE ~\E i \in 1..(Len(curve) - 1) : Holds(curve, batt_mV, i)
      BY <2>4, <3>2 DEF Reference, Holds
    <3> QED BY <3>1, <3>2
  <2> QED BY <2>1, <2>2, <2>5 DEF LevelCorrect
<1>3. CASE Interpolate
  <2>1. /\ level' = Interpolated /\ UNCHANGED <<curve, batt_mV>>
        /\ pc = "above" /\ batt_mV >= curve[pb].lvl_mV
    BY <1>3 DEF Interpolate, return
  <2>2. Interpolated \in curve[pb].lvl_pptt..curve[pa].lvl_pptt
    BY <1>0, <2>1, InterpolatedBound
  <2>3. /\ pa \in 1..Len(curve) /\ curve[pa].lvl_mV > batt_mV /\ pa = pb - 1
        /\ pa \in 1..(Len(curve) - 1) /\ pa + 1 = pb
    BY <1>0, <2>1, AtInterpolation DEF pa
  <2>4. ASSUME NEW i \in 1..(Len(curve) - 1), Holds(curve, batt_mV, i)
        PROVE  i = pa
    <3>1. i \in 1..Len(curve) /\ i + 1 \in 1..Len(curve)
      BY <1>0
    <3>2. ASSUME i + 1 <= pa PROVE FALSE
      <4>1. curve[i+1].lvl_mV >= curve[pa].lvl_mV
        BY <1>m, <2>3, <3>1, <3>2
      <4>2. curve[i+1].lvl_mV \in Int /\ curve[pa].lvl_mV \in Int
        BY <1>t, <2>3, <3>1
      <4> QED BY <1>0, <2>3, <2>4, <4>1, <4>2 DEF Holds
    <3>3. ~(pb <= i)
      BY <1>0, <1>m, <1>t, <2>1, <2>4, <3>1 DEF Holds
    <3> QED BY <1>0, <2>3, <3>2, <3>3
  <2>5. ~(batt_mV >= curve[1].lvl_mV)
    <3>1. 1 \in 1..Len(curve) /\ batt_mV < curve[1].lvl_mV
      BY <1>0, <2>1 DEF SearchInv
    <3> QED BY <1>0, <1>t, <3>1
  <2>6. ASSUME NEW q \in curve[pb].lvl_pptt..curve[pa].lvl_pptt
        PROVE  OnOrUnder(curve, batt_mV, pa, q) <=> q <= Interpolated
    BY <1>0, <2>1, <2>3, <2>6, InterpolatedIsLargest DEF OnOrUnder
  <2>7. /\ Interpolated \in Int /\ Interpolated <= Interpolated
        /\ Holds(curve, batt_mV, pa)
    BY <1>0, <1>t, <2>1, <2>2, <2>3 DEF Holds
  <2>8. Reference(batt_mV, curve) = Interpolated
    <3>1. ASSUME NEW j \in 1..(Len(curve) - 1), Holds(curve, batt_mV, j)
          PROVE  /\ Interpolated \in curve[j+1].lvl_pptt..curve[j].lvl_pptt
                 /\ OnOrUnder(curve, batt_mV, j, Interpolated)
                 /\ \A q \in curve[j+1].lvl_pptt..curve[j].lvl_pptt :
                      OnOrUnder(curve, batt_mV, j, q) => q <= Interpolated
      <4>1. j = pa /\ j + 1 = pb
        BY <2>3, <2>4, <3>1
      <4> QED BY <2>2, <2>6, <2>7, <4>1
    <3> QED BY <2>3, <2>5, <2>7, <3>1, ReferenceInSegment
  <2> QED BY <2>1, <2>8 DEF LevelCorrect
<1>4. ASSUME pc' # "done" PROVE LevelCorrect'
  BY <1>4 DEF LevelCorrect
<1>5. CASE Search
  BY <1>4, <1>5 DEF Search
<1>6. CASE UNCHANGED vars
  BY <1>6 DEF vars, LevelCorrect
<1> QED BY <1>1, <1>2, <1>3, <1>4, <1>5, <1>6 DEF Next, Entry

\* For every curve of uint16_t that battery.h allows and every voltage, the
\* level returned is the one of the definition without pointers or wrapping.
THEOREM LevelIsReference == Spec => []LevelCorrect
<1>1. Init => LevelCorrect
  BY DEF Init, LevelCorrect
<1>2. LevelInv /\ LevelCorrect /\ [Next]_vars => LevelCorrect'
  BY NextCorrect
<1> QED BY <1>1, <1>2, LevelInvariant, PTL DEF Spec

-----------------------------------------------------------------------------
(* The level rises with the voltage.  Within a segment it is the fraction   *)
(* Line; from one segment to the next the levels of the points do not fall. *)

LEMMA CurvePoints ==
  ASSUME NEW c, IsCurve(c)
  PROVE  /\ Len(c) \in Nat \ {0}
         /\ \A i \in 1..Len(c) : c[i].lvl_mV \in Nat /\ c[i].lvl_pptt \in Nat
         /\ \A i, j \in 1..Len(c) : i <= j =>
              c[i].lvl_pptt >= c[j].lvl_pptt /\ c[i].lvl_mV >= c[j].lvl_mV
<1> USE BatteryAssumption DEF BatteryAssumption
<1>1. c \in Seq(Point) /\ Len(c) > 0
  BY DEF IsCurve
<1>2. ASSUME NEW i \in 1..Len(c) PROVE c[i] \in Point
  BY <1>1
<1>3. Len(c) \in Nat \ {0}
  BY <1>1
<1>4. ASSUME NEW i \in 1..Len(c) PROVE c[i].lvl_mV \in Nat /\ c[i].lvl_pptt \in Nat
  BY <1>2 DEF Point
<1> QED
  BY <1>3, <1>4 DEF IsCurve

\* Of two segments the one with the higher voltage comes first.
LEMMA SegmentsInOrder ==
  ASSUME NEW c, IsCurve(c), NEW v \in Nat, NEW w \in Nat, v <= w,
         NEW i \in 1..(Len(c) - 1), NEW j \in 1..(Len(c) - 1),
         Holds(c, v, i), Holds(c, w, j)
  PROVE  j <= i
<1>1. Len(c) \in Nat /\ {i, i + 1, j, j + 1} \subseteq 1..Len(c)
  BY CurvePoints
<1>2. ~(i + 1 <= j)
  <2>1. i + 1 <= j => c[i+1].lvl_mV >= c[j].lvl_mV
    BY <1>1, CurvePoints
  <2>2. c[i+1].lvl_mV \in Nat /\ c[j].lvl_mV \in Nat
    BY <1>1, CurvePoints
  <2> QED
    BY <2>1, <2>2 DEF Holds
<1> QED
  BY <1>1, <1>2

Line(c, v, i) ==
  c[i+1].lvl_pptt + ((c[i].lvl_pptt - c[i+1].lvl_pptt) * (v - c[i+1].lvl_mV))
                      \div (c[i].lvl_mV - c[i+1].lvl_mV)

LEMMA InSegment ==
  ASSUME NEW up \in Nat, NEW down \in Nat, NEW x \in Nat, down <= x, x < up
  PROVE  /\ up - down \in Nat \ {0} /\ x - down \in Nat
         /\ x - down <= up - down
OBVIOUS

LEMMA Rises ==
  ASSUME NEW up \in Nat, NEW down \in Nat, up >= down
  PROVE  up - down \in Nat /\ up = down + (up - down)
OBVIOUS

LEMMA LineIsReference ==
  ASSUME NEW c, IsCurve(c), NEW v \in Nat, NEW i \in 1..(Len(c) - 1), Holds(c, v, i)
  PROVE  /\ Line(c, v, i) \in c[i+1].lvl_pptt..c[i].lvl_pptt
         /\ Reference(v, c) = Line(c, v, i)
<1> DEFINE r == c[i].lvl_pptt - c[i+1].lvl_pptt
           e == v - c[i+1].lvl_mV
           s == c[i].lvl_mV - c[i+1].lvl_mV
           down == c[i+1].lvl_pptt
           q == (r * e) \div s
<1>1. Len(c) \in Nat /\ {1, i, i + 1} \subseteq 1..Len(c)
  BY CurvePoints
<1>2. /\ c[i].lvl_mV \in Nat /\ c[i].lvl_pptt \in Nat /\ c[1].lvl_mV \in Nat
      /\ c[i+1].lvl_mV \in Nat /\ c[i+1].lvl_pptt \in Nat
      /\ c[i].lvl_pptt >= c[i+1].lvl_pptt /\ c[1].lvl_mV >= c[i].lvl_mV
  BY <1>1, CurvePoints
<1>3. r \in Nat /\ e \in Nat /\ s \in Nat \ {0} /\ e <= s /\ down \in Nat
      /\ c[i].lvl_pptt = down + r
  <2>1. s \in Nat \ {0} /\ e \in Nat /\ e <= s
    BY <1>2, InSegment DEF Holds
  <2>2. r \in Nat /\ c[i].lvl_pptt = down + r
    BY <1>2, Rises
  <2> QED
    BY <1>2, <2>1, <2>2
<1>4. Line(c, v, i) = down + q
  BY DEF Line
<1>5. \A p \in Int : OnOrUnder(c, v, i, p) <=> (p - down) * s <= r * e
  BY DEF OnOrUnder
<1> HIDE DEF r, e, s, down
<1>6. q \in 0..r
  BY <1>3, FractionBound
<1>7. r * e \in Nat
  BY <1>3
<1>8. ASSUME NEW p \in Int PROVE (p - down) * s <= r * e <=> p <= down + q
  <2>1. p - down \in Int /\ q \in Int
    BY <1>3, <1>6
  <2>2. (p - down) * s <= r * e <=> p - down <= q
    BY <1>3, <1>7, <2>1, FractionIsLargest
  <2> QED
    BY <1>3, <2>1, <2>2
<1> HIDE DEF q
<1>9. down + q \in Int /\ down + q \in c[i+1].lvl_pptt..c[i].lvl_pptt
  BY <1>3, <1>6 DEF down
<1>10. ~(v >= c[1].lvl_mV)
  BY <1>2 DEF Holds
<1>11. ASSUME NEW j \in 1..(Len(c) - 1), Holds(c, v, j)
       PROVE  /\ down + q \in c[j+1].lvl_pptt..c[j].lvl_pptt
              /\ OnOrUnder(c, v, j, down + q)
              /\ \A p \in c[j+1].lvl_pptt..c[j].lvl_pptt :
                   OnOrUnder(c, v, j, p) => p <= down + q
  <2>1. j = i
    <3>1. j <= i /\ i <= j
      BY <1>11, SegmentsInOrder
    <3> QED
      BY <1>1, <3>1
  <2>2. OnOrUnder(c, v, i, down + q)
    BY <1>5, <1>8, <1>9
  <2>3. ASSUME NEW p \in c[i+1].lvl_pptt..c[i].lvl_pptt, OnOrUnder(c, v, i, p)
        PROVE  p <= down + q
    BY <1>5, <1>8, <2>3
  <2> QED
    BY <1>9, <2>1, <2>2, <2>3
<1>12. Reference(v, c) = down + q
  BY <1>9, <1>10, <1>11, ReferenceInSegment
<1> QED
  BY <1>4, <1>9, <1>12

\* A voltage below the first point and not below every point lies in a segment:
\* the one that ends at the first point not above it.
LEMMA SegmentExists ==
  ASSUME NEW c, IsCurve(c), NEW v \in Nat, v < c[1].lvl_mV,
         NEW k \in 1..Len(c), c[k].lvl_mV <= v
  PROVE  \E i \in 1..(Len(c) - 1) : Holds(c, v, i)
<1> DEFINE T == {j \in 1..Len(c) : c[j].lvl_mV <= v}
<1>1. Len(c) \in Nat \ {0}
  BY CurvePoints
<1>2. PICK m \in T : \A j \in T : ~(<<j, m>> \in OpToRel(<, Nat))
  <2>1. T \subseteq Nat /\ T # {}
    BY <1>1
  <2> HIDE DEF T
  <2> QED
    BY <2>1, NatLessThanWellFounded, WFMin
<1>3. m \in 1..Len(c) /\ c[m].lvl_mV <= v
  BY <1>2
<1>4. m # 1
  <2>1. c[1].lvl_mV \in Nat
    BY <1>1, CurvePoints
  <2> QED
    BY <1>3, <2>1
<1>5. m - 1 \in 1..(Len(c) - 1) /\ m - 1 \in 1..Len(c) /\ (m - 1) + 1 = m
  BY <1>1, <1>3, <1>4
<1>6. m - 1 \notin T
  <2>1. <<m - 1, m>> \in OpToRel(<, Nat)
    BY <1>3, <1>5 DEF OpToRel
  <2> HIDE DEF T
  <2> QED
    BY <1>2, <2>1
<1>7. v < c[m - 1].lvl_mV
  BY <1>5, <1>6, CurvePoints
<1> QED
  BY <1>3, <1>5, <1>7 DEF Holds

\* In one segment the fraction grows with the voltage.
LEMMA LineRises ==
  ASSUME NEW r \in Nat, NEW e \in Nat, NEW f \in Nat, e <= f, NEW s \in Nat \ {0}
  PROVE  (r * e) \div s <= (r * f) \div s
<1> DEFINE q == (r * e) \div s
<1>1. r * e \in Nat /\ r * f \in Nat /\ r * e <= r * f
  OBVIOUS
<1>2. q \in Int
  BY <1>1
<1>3. q * s <= r * e
  BY <1>1, <1>2, FractionIsLargest
<1>4. q * s <= r * f
  <2> HIDE DEF q
  <2>1. q * s \in Int
    BY <1>2
  <2> QED
    BY <1>1, <1>3, <2>1
<1> QED
  BY <1>1, <1>2, <1>4, FractionIsLargest

LEMMA ReferenceRises ==
  ASSUME NEW c, IsCurve(c), NEW v \in Nat, NEW w \in Nat, v <= w
  PROVE  Reference(v, c) <= Reference(w, c)
<1>1. Len(c) \in Nat \ {0} /\ 1 \in 1..Len(c)
  BY CurvePoints
<1>2. c[1].lvl_mV \in Nat /\ c[1].lvl_pptt \in Nat
  BY <1>1, CurvePoints
<1>3. ASSUME NEW x \in Nat, x >= c[1].lvl_mV PROVE Reference(x, c) = c[1].lvl_pptt
  BY <1>3 DEF Reference
<1>4. ASSUME NEW x \in Nat, x < c[1].lvl_mV,
             ~\E i \in 1..(Len(c) - 1) : Holds(c, x, i)
      PROVE  Reference(x, c) = 0
  <2>1. ~(x >= c[1].lvl_mV)
    BY <1>2, <1>4
  <2> QED
    BY <1>4, <2>1 DEF Reference, Holds
<1>5. ASSUME NEW x \in Nat, NEW i \in 1..(Len(c) - 1), Holds(c, x, i)
      PROVE  /\ Reference(x, c) = Line(c, x, i) /\ Line(c, x, i) \in Int
             /\ c[i+1].lvl_pptt <= Line(c, x, i) /\ Line(c, x, i) <= c[i].lvl_pptt
             /\ i \in 1..Len(c) /\ i + 1 \in 1..Len(c)
             /\ c[i+1].lvl_pptt \in Nat /\ c[i].lvl_pptt \in Nat
  <2>1. i \in 1..Len(c) /\ i + 1 \in 1..Len(c)
    BY <1>1
  <2>2. c[i+1].lvl_pptt \in Nat /\ c[i].lvl_pptt \in Nat
    BY <2>1, CurvePoints
  <2>3. /\ Line(c, x, i) \in c[i+1].lvl_pptt..c[i].lvl_pptt
        /\ Reference(x, c) = Line(c, x, i)
    BY <1>5, LineIsReference
  <2> QED
    BY <2>1, <2>2, <2>3
<1>6. Reference(w, c) \in Nat
  <2>1. CASE w >= c[1].lvl_mV
    BY <1>2, <1>3, <2>1
  <2>2. CASE \E i \in 1..(Len(c) - 1) : Holds(c, w, i)
    BY <1>5, <2>2
  <2> QED
    BY <1>2, <1>4, <2>1, <2>2
<1>7. CASE v >= c[1].lvl_mV
  BY <1>2, <1>3, <1>7
<1>8. CASE v < c[1].lvl_mV /\ ~\E i \in 1..(Len(c) - 1) : Holds(c, v, i)
  BY <1>4, <1>6, <1>8
<1>9. ASSUME NEW i \in 1..(Len(c) - 1), Holds(c, v, i)
      PROVE  Reference(v, c) <= Reference(w, c)
  <2>1. CASE w >= c[1].lvl_mV
    <3>1. c[1].lvl_pptt >= c[i].lvl_pptt
      BY <1>1, <1>5, <1>9, CurvePoints
    <3> QED
      BY <1>2, <1>3, <1>5, <1>9, <2>1, <3>1
  <2>2. CASE w < c[1].lvl_mV
    <3>1. c[i+1].lvl_mV <= w
      <4>1. c[i+1].lvl_mV \in Nat
        BY <1>5, <1>9, CurvePoints
      <4> QED
        BY <1>9, <4>1 DEF Holds
    <3>2. PICK j \in 1..(Len(c) - 1) : Holds(c, w, j)
      BY <1>5, <1>9, <2>2, <3>1, SegmentExists
    <3>3. j <= i
      BY <1>9, <3>2, SegmentsInOrder
    <3>4. CASE j = i
      <4>1. /\ c[i].lvl_mV \in Nat /\ c[i+1].lvl_mV \in Nat
            /\ c[i].lvl_pptt >= c[i+1].lvl_pptt
        BY <1>1, <1>5, <1>9, CurvePoints
      <4> DEFINE r == c[i].lvl_pptt - c[i+1].lvl_pptt
                 e == v - c[i+1].lvl_mV
                 f == w - c[i+1].lvl_mV
                 s == c[i].lvl_mV - c[i+1].lvl_mV
      <4>2. r \in Nat /\ e \in Nat /\ f \in Nat /\ e <= f /\ s \in Nat \ {0}
        <5>1. s \in Nat \ {0} /\ e \in Nat
          BY <1>9, <4>1, InSegment DEF Holds
        <5>2. r \in Nat
          BY <1>5, <1>9, <4>1, Rises
        <5>3. f \in Nat /\ e <= f
          BY <3>1, <4>1, <5>1
        <5> QED
          BY <5>1, <5>2, <5>3
      <4>3. (r * e) \div s <= (r * f) \div s
        <5> HIDE DEF r, e, f, s
        <5> QED
          BY <4>2, LineRises
      <4>4. /\ Line(c, v, i) = c[i+1].lvl_pptt + (r * e) \div s
            /\ Line(c, w, i) = c[i+1].lvl_pptt + (r * f) \div s
        BY DEF Line
      <4>5. (r * e) \div s \in Int /\ (r * f) \div s \in Int
        <5> HIDE DEF r, e, f, s
        <5> QED
          BY <4>2
      <4>6. Line(c, v, i) <= Line(c, w, i)
        <5> HIDE DEF r, e, f, s
        <5> QED
          BY <1>5, <1>9, <4>3, <4>4, <4>5
      <4> QED
        BY <1>5, <1>9, <3>2, <3>4, <4>6
    <3>5. CASE j # i
      <4>1. j + 1 <= i
        BY <1>1, <3>3, <3>5
      <4>2. c[j+1].lvl_pptt >= c[i].lvl_pptt
        BY <1>5, <1>9, <3>2, <4>1, CurvePoints
      <4>3. /\ Reference(v, c) = Line(c, v, i) /\ Line(c, v, i) <= c[i].lvl_pptt
            /\ Line(c, v, i) \in Int /\ c[i].lvl_pptt \in Int
        BY <1>5, <1>9
      <4>4. /\ Reference(w, c) = Line(c, w, j) /\ c[j+1].lvl_pptt <= Line(c, w, j)
            /\ Line(c, w, j) \in Int /\ c[j+1].lvl_pptt \in Int
        BY <1>5, <3>2
      <4> QED
        BY <4>2, <4>3, <4>4
    <3> QED
      BY <3>4, <3>5
  <2> QED
    BY <1>2, <2>1, <2>2
<1> QED
  BY <1>2, <1>7, <1>8, <1>9

\* For every curve that battery.h allows and every voltage, the level is the
\* one of the definition without pointers or wrapping, and no higher voltage
\* has a lower one (battery.c:230-255).
THEOREM LevelIsSound == Spec => []LevelSound
<1>1. TypeOK /\ LevelCorrect => LevelRises
  <2> SUFFICES ASSUME TypeOK, LevelCorrect, pc = "done",
                      NEW v \in Voltages, batt_mV <= v
               PROVE  level <= Reference(v, curve)
    BY DEF LevelRises
  <2>1. v \in Nat /\ batt_mV \in Nat /\ IsCurve(curve)
    BY BatteryAssumption DEF BatteryAssumption, TypeOK, Word
  <2> QED
    BY <2>1, ReferenceRises DEF LevelCorrect
<1> QED
  BY <1>1, TypeCorrect, LevelIsReference, PTL DEF LevelSound
=============================================================================
