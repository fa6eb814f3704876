---------------------------- MODULE PowerSwitch ----------------------------
(***************************************************************************)
(* What samples/usb_detect promises (its Readme.md): two outputs, the      *)
(* power of the RP2040 and the console, follow the position of the cable.  *)
(* No thread, flag or semaphore: a move of the cable makes both outputs    *)
(* due, and each is brought to the cable's position, power first.          *)
(***************************************************************************)
VARIABLES
  cable,    \* the cable is in
  power,    \* BUCK2 supplies the RP2040
  console,  \* the console UART is active
  due       \* outputs that have not followed the last move yet

vars == <<cable, power, console, due>>

\* The console is active at boot whatever the cable does.
Init == cable \in BOOLEAN /\ power = cable /\ console = TRUE /\ due = {}

Move ==
  /\ due = {} /\ due' = {"power", "console"}
  /\ cable' = ~cable
  /\ UNCHANGED <<power, console>>

SwitchPower ==
  /\ "power" \in due /\ due' = due \ {"power"}
  /\ power' = cable
  /\ UNCHANGED <<cable, console>>

SwitchConsole ==
  /\ due = {"console"} /\ due' = {}
  /\ console' = cable
  /\ UNCHANGED <<cable, power>>

Follow == SwitchPower \/ SwitchConsole

Next == Move \/ Follow

SafeSpec == Init /\ [][Next]_vars

\* Whatever the cable does, both outputs have followed it in the end.
Follows == due # {} ~> due = {}

Spec == SafeSpec /\ Follows
=============================================================================
