------------------------- MODULE FlashCounterProofs -------------------------
(***************************************************************************)
(* What holds of the boot counter for any range of the count, any failing  *)
(* calls and resets at any step.                                           *)
(***************************************************************************)
EXTENDS FlashCounter, TLAPS

\* Every variable stays in its range: the count wraps.
THEOREM FlashTypeCorrect == FlashSpec => []FlashTypeOK
<1> USE ValuesAssumption DEF Count, storeVars, bootVars
<1>0. 0 \in Count /\ \A n \in Count : Incremented(n) \in Count
  BY DEF Incremented
<1>1. FlashInit => FlashTypeOK
  BY <1>0 DEF FlashInit, FlashTypeOK
<1>2. FlashTypeOK /\ [FlashNext]_flashVars => FlashTypeOK'
  <2> SUFFICES ASSUME FlashTypeOK, [FlashNext]_flashVars PROVE FlashTypeOK'
    OBVIOUS
  <2> USE DEF FlashTypeOK, FlashGoto, Returns, FailsAt
  <2>1. CASE fs_stat
    BY <2>1 DEF fs_stat
  <2>2. CASE littlefs_flash_erase
    BY <1>0, <2>2 DEF littlefs_flash_erase, EraseArea
  <2>3. CASE fs_mkdir
    BY <2>3 DEF fs_mkdir
  <2>4. CASE fs_open
    BY <2>4 DEF fs_open
  <2>5. CASE ReadCount
    BY <2>5 DEF ReadCount, ClosesAfterError
  <2>6. CASE fs_write
    <3>1. boot_count' \in Count
      BY <1>0, <2>6 DEF fs_write, ClosesAfterError
    <3> QED BY <2>6, <3>1 DEF fs_write, ClosesAfterError
  <2>7. CASE fs_close
    BY <2>7 DEF fs_close, CountInForce
  <2>8. ASSUME NEW runs \in BOOLEAN, FlashBoot(runs) PROVE FlashTypeOK'
    BY <1>0, <2>8 DEF FlashBoot
  <2>9. CASE UNCHANGED flashVars
    BY <2>9 DEF flashVars
  <2> QED BY <2>1, <2>2, <2>3, <2>4, <2>5, <2>6, <2>7, <2>8, <2>9
          DEF FlashNext, FlashStep, nor_storage_init, nor_storage_increment
<1> QED BY <1>1, <1>2, PTL DEF FlashSpec

-----------------------------------------------------------------------------
(* The progress of a boot.                                                 *)

\* How far the count of this boot has come at each step.
CountStaged ==
  /\ ~counted => stored = base
  /\ flashPc = "write" => boot_count = base
  /\ flashPc = "close" => boot_count = Incremented(base)
  /\ counted => flashPc = "done" /\ stored = Incremented(base)
  /\ flashResult # "none" => flashPc = "done"
  /\ flashResult = "ok" => counted

\* What is known of the flash, and of the calls so far, on the way to the file.
MarkStaged ==
  /\ flashPc \in {"erase", "mkdir"} /\ flashClean => ~marker
  /\ flashPc = "close_error" => ~flashClean
  /\ flashPc = "done" /\ flashClean => flashResult = "ok"
  /\ wipe /\ flashPc = "mkdir" => erased
  /\ wipe /\ marker => erased

FlashInv == FlashTypeOK /\ CountStaged /\ MarkStaged

LEMMA CountStagedKept ==
  ASSUME FlashInv, [FlashNext]_flashVars
  PROVE  CountStaged'
<1> USE DEF FlashInv, CountStaged, FlashGoto, Returns, FailsAt, storeVars, bootVars
<1>1. CASE fs_stat
  BY <1>1 DEF fs_stat
<1>2. CASE littlefs_flash_erase
  BY <1>2 DEF littlefs_flash_erase, EraseArea
<1>3. CASE fs_mkdir \/ fs_open
  BY <1>3 DEF fs_mkdir, fs_open
<1>4. CASE ReadCount
  BY <1>4 DEF ReadCount, ClosesAfterError
<1>5. CASE fs_write
  BY <1>5 DEF fs_write, ClosesAfterError
<1>6. CASE fs_close
  BY <1>6 DEF fs_close, CountInForce
<1>7. ASSUME NEW runs \in BOOLEAN, FlashBoot(runs) PROVE CountStaged'
  BY <1>7 DEF FlashBoot
<1>8. CASE UNCHANGED flashVars
  BY <1>8 DEF flashVars
<1> QED BY <1>1, <1>2, <1>3, <1>4, <1>5, <1>6, <1>7, <1>8
        DEF FlashNext, FlashStep, nor_storage_init, nor_storage_increment

LEMMA MarkStagedKept ==
  ASSUME FlashInv, [FlashNext]_flashVars
  PROVE  MarkStaged'
<1> USE DEF FlashInv, FlashTypeOK, MarkStaged, FlashGoto, Returns, FailsAt,
            storeVars, bootVars
<1>1. CASE fs_stat
  BY <1>1 DEF fs_stat
<1>2. CASE littlefs_flash_erase
  BY <1>2 DEF littlefs_flash_erase, EraseArea
<1>3. CASE fs_mkdir \/ fs_open
  BY <1>3 DEF fs_mkdir, fs_open
<1>4. CASE ReadCount \/ fs_write
  BY <1>4 DEF ReadCount, fs_write, ClosesAfterError
<1>5. CASE fs_close
  BY <1>5 DEF fs_close
<1>6. ASSUME NEW runs \in BOOLEAN, FlashBoot(runs) PROVE MarkStaged'
  BY <1>6 DEF FlashBoot
<1>7. CASE UNCHANGED flashVars
  BY <1>7 DEF flashVars
<1> QED BY <1>1, <1>2, <1>3, <1>4, <1>5, <1>6, <1>7
        DEF FlashNext, FlashStep, nor_storage_init, nor_storage_increment

LEMMA FlashInvHolds == FlashSpec => []FlashInv
<1>1. FlashInit => CountStaged /\ MarkStaged
  BY DEF FlashInit, CountStaged, MarkStaged
<1>2. FlashTypeOK /\ CountStaged /\ MarkStaged /\ [FlashNext]_flashVars
        => CountStaged' /\ MarkStaged'
  BY CountStagedKept, MarkStagedKept DEF FlashInv
<1> QED BY <1>1, <1>2, FlashTypeCorrect, PTL DEF FlashSpec, FlashInv

\* A boot that claims success has counted once, a boot without failing calls
\* always does, and the marker stands for an erased flash.
THEOREM BootsCounted == FlashSpec => []FlashSafe
<1>1. FlashInv => FlashSafe
  BY DEF FlashInv, CountStaged, MarkStaged, FlashSafe, OkMeansCounted,
         CleanBootCounts, MarkerMeansErased, Incremented
<1> QED BY <1>1, FlashInvHolds, PTL

\* On a flash that is marked only a failing call can lose the count.
THEOREM MarkedCountSurvives == FlashSpec => MarkedCountKept
<1>1. FlashInv /\ [FlashNext]_flashVars =>
        [marker /\ flashClean' /\ stored' # stored =>
           stored' = (stored + 1) % Values]_flashVars
  <2> SUFFICES ASSUME FlashInv, FlashNext, marker, flashClean', stored' # stored
               PROVE  stored' = (stored + 1) % Values
    OBVIOUS
  <2> USE DEF FlashGoto, Returns, FailsAt, storeVars, bootVars
  <2>1. CASE fs_close
    <3>1. flashPc = "close" /\ stored' = boot_count
      BY <2>1 DEF fs_close, CountInForce
    <3>2. ~counted
      BY <3>1 DEF FlashInv, CountStaged
    <3> QED BY <3>1, <3>2 DEF FlashInv, CountStaged, Incremented
  <2>2. CASE littlefs_flash_erase
    BY <2>2 DEF littlefs_flash_erase, EraseArea, FlashInv, MarkStaged
  <2>3. CASE fs_stat \/ fs_mkdir \/ fs_open \/ ReadCount \/ fs_write
    BY <2>3 DEF fs_stat, fs_mkdir, fs_open, ReadCount, fs_write, ClosesAfterError
  <2>4. ASSUME NEW runs \in BOOLEAN, FlashBoot(runs) PROVE FALSE
    BY <2>4 DEF FlashBoot
  <2> QED BY <2>1, <2>2, <2>3, <2>4
          DEF FlashNext, FlashStep, nor_storage_init, nor_storage_increment
<1> QED BY <1>1, FlashInvHolds, PTL DEF FlashSpec, MarkedCountKept

-----------------------------------------------------------------------------
(* The abstract counter.                                                   *)

\* Every step of a boot is a reset, a new start, the one addition of the
\* abstract counter, or changes nothing that it knows of.
LEMMA CounterStep ==
  ASSUME FlashInv, [FlashNext]_flashVars
  PROVE  [Counter!Next]_<<wipe, stored, counted, flashResult = "ok">>
<1> USE DEF FlashGoto, Returns, FailsAt, storeVars, bootVars
<1>1. CASE fs_stat \/ fs_mkdir \/ fs_open \/ ReadCount \/ fs_write
  <2>1. UNCHANGED <<wipe, stored, counted>>
    BY <1>1 DEF fs_stat, fs_mkdir, fs_open, ReadCount, fs_write, ClosesAfterError
  <2>2. flashResult # "ok" /\ flashResult' # "ok"
    BY <1>1 DEF fs_stat, fs_mkdir, fs_open, ReadCount, fs_write,
                ClosesAfterError, FlashInv, CountStaged
  <2> QED BY <2>1, <2>2
<1>2. CASE littlefs_flash_erase
  <2>1. flashPc = "erase" /\ flashResult' # "ok" /\ UNCHANGED <<wipe, counted>>
    BY <1>2 DEF littlefs_flash_erase, EraseArea, FlashInv, CountStaged
  <2>2. flashResult # "ok" /\ ~counted
    BY <2>1 DEF FlashInv, CountStaged
  <2>3. (wipe /\ stored' = 0) \/ stored' = stored
    BY <1>2 DEF littlefs_flash_erase, EraseArea
  <2> QED BY <2>1, <2>2, <2>3 DEF Counter!Next, Counter!StartAnew
<1>3. CASE fs_close
  <2>1. flashPc \in {"close", "close_error"} /\ UNCHANGED wipe
    BY <1>3 DEF fs_close
  <2>2. flashResult # "ok" /\ ~counted
    BY <2>1 DEF FlashInv, CountStaged
  <2>3. CASE CountInForce
    <3>1. flashPc = "close" \/ UNCHANGED <<stored, counted>>
      BY <1>3 DEF fs_close
    <3>2. counted' /\ stored' = (stored + 1) % Values
      BY <2>2, <2>3, <3>1 DEF CountInForce, FlashInv, CountStaged, Incremented
    <3> QED BY <2>1, <2>2, <2>3, <3>2 DEF Counter!Next, Counter!Count, CountInForce
  <2>4. CASE ~CountInForce
    <3>1. UNCHANGED <<stored, counted>> /\ flashResult' # "ok"
      BY <1>3, <2>4 DEF fs_close
    <3> QED BY <2>1, <2>2, <3>1
  <2> QED BY <2>3, <2>4
<1>4. ASSUME NEW runs \in BOOLEAN, FlashBoot(runs)
      PROVE  Counter!Next
  BY <1>4 DEF FlashBoot, Counter!Next, Counter!Reset
<1>5. CASE UNCHANGED flashVars
  BY <1>5 DEF flashVars
<1> QED BY <1>1, <1>2, <1>3, <1>4, <1>5
        DEF FlashNext, FlashStep, nor_storage_init, nor_storage_increment

\* The program implements the abstract boot counter.
THEOREM FlashImplementsCounter == FlashSpec => ImplementsCounter
<1>1. FlashInit => Counter!Init
  BY DEF FlashInit, Counter!Init, Count
<1> QED BY <1>1, CounterStep, FlashInvHolds, PTL
        DEF FlashSpec, ImplementsCounter, Counter!Spec
=============================================================================
