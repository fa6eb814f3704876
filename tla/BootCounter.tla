---------------------------- MODULE BootCounter ----------------------------
(***************************************************************************)
(* What a persistent boot counter promises: a boot adds one to the count   *)
(* at most once, in one step, and claims success only if it has done so.   *)
(* A reset may come at any time and changes nothing of the count.          *)
(***************************************************************************)
EXTENDS Integers

CONSTANT Values  \* how many values the counter has

VARIABLES
  wipes,   \* fixed: a boot may start the count anew before it adds to it
  count,   \* the count that survives a reset
  counted, \* this boot has added to it
  claimed  \* this boot has reported success

Init ==
  /\ wipes \in BOOLEAN
  /\ count \in 0..Values - 1
  /\ counted = FALSE /\ claimed = FALSE

Reset == counted' = FALSE /\ claimed' = FALSE /\ UNCHANGED count

StartAnew ==
  /\ wipes /\ ~counted
  /\ count' = 0 /\ UNCHANGED <<counted, claimed>>

\* An error may be reported although the count is in force.
Count ==
  /\ ~counted /\ counted' = TRUE
  /\ count' = (count + 1) % Values
  /\ claimed' \in BOOLEAN

Next == (Reset \/ StartAnew \/ Count) /\ UNCHANGED wipes

Spec == Init /\ [][Next]_<<wipes, count, counted, claimed>>
=============================================================================
