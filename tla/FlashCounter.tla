---------------------------- MODULE FlashCounter ----------------------------
(***************************************************************************)
(* samples/external_flash/src/main.c: each boot makes sure that the flash  *)
(* was erased once, which a directory on it tells, and adds one to a count *)
(* kept in a file.  Any call may fail and the processor may be reset at    *)
(* any moment; the file system keeps what was closed before.               *)
(*                                                                         *)
(* LittleFS is outside src/.  A write to an open file is in force when the *)
(* file is closed; a close that fails may have put it into force or not.   *)
(* A file that is missing or empty reads as the count 0, so that stored    *)
(* need not tell them apart.                                               *)
(***************************************************************************)
EXTENDS Integers

CONSTANT Values    \* how many values the counter has: 2^8 for a uint8_t

ASSUME ValuesAssumption == Values \in Nat \ {0}

VARIABLES
  wipe,        \* the build option CONFIG_APP_WIPE_STORAGE
  marker,      \* the directory NOR_STORAGE_ERASED_ON_BOOT exists
  stored,      \* the count in the file, as far as it is in force
  flashPc,     \* where main is; "off" while the image does not run
  boot_count,  \* the local variable
  flashResult, \* what main returned: "none", "ok" or "error"
  base,        \* history: the count that this boot found or erased
  counted,     \* history: this boot has put its count into force
  erased,      \* history: the flash has been erased by the program
  flashClean   \* history: the flash has served every call of this boot

storeVars == <<wipe, marker, stored, erased>>
bootVars  == <<boot_count, flashResult, base, counted>>
flashVars == <<storeVars, bootVars, flashPc, flashClean>>

Count == 0..Values - 1

FlashInit ==
  /\ wipe \in BOOLEAN /\ marker = FALSE /\ stored \in Count /\ erased = FALSE
  /\ flashPc = "off" /\ boot_count = 0
  /\ flashResult = "none" /\ base = stored /\ counted = FALSE
  /\ flashClean = TRUE

\* The processor is reset and starts this image or another one.
FlashBoot(runs) ==
  /\ flashPc' = IF runs THEN "stat" ELSE "off"
  /\ boot_count' = 0
  /\ flashResult' = "none" /\ base' = stored /\ counted' = FALSE
  /\ flashClean' = TRUE
  /\ UNCHANGED storeVars

FlashGoto(from, to) == flashPc = from /\ flashPc' = to

Returns(from, result) == FlashGoto(from, "done") /\ flashResult' = result

\* A call fails and main returns its error.
FailsAt(from) ==
  /\ Returns(from, "error") /\ flashClean' = FALSE
  /\ UNCHANGED <<storeVars, boot_count, base, counted>>

-----------------------------------------------------------------------------
(* nor_storage_init.                                                       *)

\* Any error of fs_stat, not only a missing marker, starts the erasing.  The
\* variants called Wrong_, here and below, are mistakes that the properties
\* tell from the code.
Wrong_MarkerNotLookedAt ==
  /\ FlashGoto("stat", "erase")
  /\ UNCHANGED <<storeVars, bootVars, flashClean>>

fs_stat ==
  /\ \/ marker /\ FlashGoto("stat", "open") /\ UNCHANGED flashClean
     \/ ~marker /\ FlashGoto("stat", "erase") /\ UNCHANGED flashClean
     \/ marker /\ FlashGoto("stat", "erase") /\ flashClean' = FALSE
  /\ UNCHANGED <<storeVars, bootVars>>

\* littlefs_flash_erase: an erase that fails may have reached the marker and
\* the count.  Without the build option it only opens the flash area.
EraseArea ==
  /\ marker' = FALSE /\ stored' = 0 /\ base' = 0 /\ erased' = TRUE
  /\ UNCHANGED wipe

littlefs_flash_erase ==
  \/ /\ FlashGoto("erase", "mkdir")
     /\ IF wipe THEN EraseArea ELSE UNCHANGED <<storeVars, base>>
     /\ UNCHANGED <<boot_count, flashResult, counted, flashClean>>
  \/ FailsAt("erase")
  \/ /\ wipe /\ Returns("erase", "error") /\ flashClean' = FALSE
     /\ EraseArea /\ UNCHANGED <<boot_count, counted>>

\* A marker that fs_stat failed to find is an error here, the flash's no fault.
fs_mkdir ==
  \/ /\ ~marker /\ FlashGoto("mkdir", "open")
     /\ marker' = TRUE
     /\ UNCHANGED <<wipe, stored, erased, bootVars, flashClean>>
  \/ /\ marker /\ Returns("mkdir", "error")
     /\ UNCHANGED <<storeVars, boot_count, base, counted, flashClean>>
  \/ FailsAt("mkdir")

nor_storage_init == fs_stat \/ littlefs_flash_erase \/ fs_mkdir

-----------------------------------------------------------------------------
(* nor_storage_increment.                                                  *)

fs_open ==
  \/ /\ FlashGoto("open", "read")
     /\ UNCHANGED <<storeVars, bootVars, flashClean>>
  \/ FailsAt("open")

\* From here on an error leads to the close of the file.
ClosesAfterError(from) ==
  /\ FlashGoto(from, "close_error") /\ flashClean' = FALSE
  /\ UNCHANGED <<storeVars, bootVars>>

\* fs_read and fs_seek.
ReadCount ==
  \/ /\ FlashGoto("read", "write")
     /\ boot_count' = stored
     /\ UNCHANGED <<storeVars, flashResult, base, counted, flashClean>>
  \/ ClosesAfterError("read")

\* boot_count += 1 on a uint8_t.
Wrong_Saturates(n) == IF n = Values - 1 THEN n ELSE n + 1
Incremented(n) == (n + 1) % Values

fs_write ==
  \/ /\ FlashGoto("write", "close")
     /\ boot_count' = Incremented(boot_count)
     /\ UNCHANGED <<storeVars, flashResult, base, counted, flashClean>>
  \/ ClosesAfterError("write")

CountInForce == stored' = boot_count /\ counted' = TRUE

Wrong_CloseErrorIgnored ==
  /\ Returns("close", "ok")
  /\ CountInForce \/ UNCHANGED <<stored, counted>>
  /\ UNCHANGED <<wipe, marker, erased, boot_count, base, flashClean>>

\* The error of the close, if it fails, comes before that of an earlier call.
fs_close ==
  /\ \/ Returns("close", "ok") /\ CountInForce /\ UNCHANGED flashClean
     \/ /\ Returns("close", "error") /\ flashClean' = FALSE
        /\ CountInForce \/ UNCHANGED <<stored, counted>>
     \/ /\ Returns("close_error", "error")
        /\ UNCHANGED <<stored, counted, flashClean>>
  /\ UNCHANGED <<wipe, marker, erased, boot_count, base>>

nor_storage_increment == fs_open \/ ReadCount \/ fs_write \/ fs_close

FlashStep == nor_storage_init \/ nor_storage_increment

FlashNext == FlashStep \/ \E runs \in BOOLEAN : FlashBoot(runs)

FlashSpec == FlashInit /\ [][FlashNext]_flashVars

-----------------------------------------------------------------------------
(* What the program promises.                                              *)

FlashTypeOK ==
  /\ wipe \in BOOLEAN /\ marker \in BOOLEAN /\ erased \in BOOLEAN
  /\ stored \in Count /\ boot_count \in Count /\ base \in Count
  /\ flashPc \in {"off", "stat", "erase", "mkdir", "open", "read", "write",
                  "close", "close_error", "done"}
  /\ counted \in BOOLEAN /\ flashClean \in BOOLEAN
  /\ flashResult \in {"none", "ok", "error"}

\* main returns 0 only if the count that survives a reset is one more, modulo
\* the range of the counter, than the one this boot found.
OkMeansCounted == flashResult = "ok" => counted /\ stored = (base + 1) % Values

\* Whatever earlier boots left half done, on a flash with or without marker, a
\* boot without a failing call counts and returns 0.
CleanBootCounts == flashPc = "done" /\ flashClean => flashResult = "ok"

\* A build that is to erase the flash marks it only when it has been erased,
\* although erasing and marking are two steps that a reset can separate.
MarkerMeansErased == wipe /\ marker => erased

\* A boot counts what it claims to count, on a flash that was erased when marked.
FlashSafe == OkMeansCounted /\ CleanBootCounts /\ MarkerMeansErased

\* Once the flash is marked, no boot without a failing call loses the count,
\* not even one built to erase the flash.
MarkedCountKept ==
  [][marker /\ flashClean' /\ stored' # stored =>
       stored' = (stored + 1) % Values]_flashVars

\* Resets, failures and the cache of the file system make the program neither
\* count twice in a boot nor report a count that is not in force.
Counter == INSTANCE BootCounter
             WITH count <- stored, claimed <- flashResult = "ok", wipes <- wipe

\* Files, marker and resets implement the abstract boot counter.
ImplementsCounter == Counter!Spec
=============================================================================
