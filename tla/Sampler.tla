------------------------------ MODULE Sampler ------------------------------
(***************************************************************************)
(* What samples/accelerometer_zbus promises: a tick asks for a sample, and *)
(* no request gets lost on its way to a fetch.  No thread, work item or    *)
(* channel: a tick may coalesce with a request that waits already, and one *)
(* is dropped only while as many others as there is room for still wait.   *)
(***************************************************************************)
EXTENDS Integers

CONSTANT Capacity  \* how many requests wait without one being dropped

VARIABLES
  requests, \* requests on their way to a fetch
  owed      \* no fetch has begun since the last tick

vars == <<requests, owed>>

Init == requests = 0 /\ owed = FALSE

Reset == requests' = 0 /\ owed' = FALSE

\* Above the capacity, one request is about to be dropped and one comes after.
Tick ==
  /\ requests' \in {requests, requests + 1} /\ requests' \in 1..Capacity + 2
  /\ owed' = TRUE

Drop ==
  /\ requests > Capacity /\ requests' = requests - 1
  /\ UNCHANGED owed

Fetch ==
  /\ requests > 0 /\ requests' = requests - 1
  /\ owed' = FALSE

Next == Reset \/ Tick \/ Drop \/ Fetch

Spec == Init /\ [][Next]_vars
=============================================================================
