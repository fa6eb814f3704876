------------------------------- MODULE LedPwm -------------------------------
(***************************************************************************)
(* samples/led_pwm/src/main.c: every LED in turn is switched on and off,   *)
(* faded up, made to blink at two rates and switched off, for ever.  A     *)
(* test that meets an error is given up and the next LED is tested.        *)
(*                                                                         *)
(* The LED driver is outside src/.  A call that fails changes nothing.     *)
(* The PWM unit is part of the processor: a reset switches all LEDs off.   *)
(***************************************************************************)
EXTENDS Integers

CONSTANTS
  NumLeds,        \* how many LEDs the board has
  MaxBrightness   \* MAX_BRIGHTNESS, 100

ASSUME LedAssumption == NumLeds \in Nat /\ MaxBrightness \in Nat \ {0}

VARIABLES
  ledPc,    \* the next call of main; "off" while the image does not run
  led,      \* the LED under test
  level,    \* the next brightness of the fade
  bright,   \* the brightness of each LED
  blinking, \* the LEDs that blink
  gaveUp    \* history: the LEDs whose last test ended with an error

lampVars == <<bright, blinking>>
ledVars  == <<ledPc, led, level, lampVars, gaveUp>>

Leds == 0..NumLeds - 1

LedInit ==
  /\ ledPc = "off" /\ led = 0 /\ level = 0
  /\ bright = [l \in Leds |-> 0] /\ blinking = {} /\ gaveUp = {}

\* The processor is reset and starts this image or another one.
LedBoot(runs) ==
  /\ ledPc' = IF runs THEN "bind" ELSE "off"
  /\ led' = 0 /\ level' = 0
  /\ bright' = [l \in Leds |-> 0] /\ blinking' = {} /\ gaveUp' = {}

LedGoto(from, to) == ledPc = from /\ ledPc' = to

\* main returns if there is no device or no LED.
device_get_binding ==
  /\ \/ LedGoto("bind", "on") /\ NumLeds > 0
     \/ LedGoto("bind", "done")
  /\ UNCHANGED <<led, level, lampVars, gaveUp>>

NextLed == led' = IF led + 1 < NumLeds THEN led + 1 ELSE 0

\* The test of this LED is over, and the loop in main takes the next.
TestEnds == ledPc' = "on" /\ level' = 0 /\ NextLed

\* The variants called Wrong_, here and below, are mistakes that the
\* properties tell from the code.
Wrong_TriesAgain ==
  /\ ledPc' = "on" /\ level' = 0
  /\ gaveUp' = gaveUp \cup {led} /\ UNCHANGED <<lampVars, led>>
GivesUp ==
  /\ TestEnds
  /\ gaveUp' = gaveUp \cup {led} /\ UNCHANGED lampVars

Shines(value) ==
  /\ bright' = [bright EXCEPT ![led] = value]
  /\ blinking' = blinking \ {led}

Blinks == blinking' = blinking \cup {led} /\ UNCHANGED bright

-----------------------------------------------------------------------------
(* run_led_test: its calls in order.                                       *)

led_on ==
  /\ ledPc = "on"
  /\ \/ /\ ledPc' = "off_again" /\ Shines(MaxBrightness)
        /\ UNCHANGED <<led, level, gaveUp>>
     \/ GivesUp

led_off ==
  /\ ledPc = "off_again"
  /\ \/ ledPc' = "fade" /\ Shines(0) /\ UNCHANGED <<led, level, gaveUp>>
     \/ GivesUp

FadeGoesOn(n) == n <= MaxBrightness

led_set_brightness ==
  /\ ledPc = "fade" /\ FadeGoesOn(level)
  /\ \/ /\ level' = level + 1 /\ Shines(level)
        /\ UNCHANGED <<ledPc, led, gaveUp>>
     \/ GivesUp

BlinkFast ==
  /\ ledPc = "fade" /\ ~FadeGoesOn(level)
  /\ \/ ledPc' = "blink" /\ Blinks /\ UNCHANGED <<led, level, gaveUp>>
     \/ GivesUp

\* An error here is only logged: the LED goes on blinking at the first rate.
BlinkSlowly ==
  /\ LedGoto("blink", "end")
  /\ UNCHANGED <<led, level, lampVars, gaveUp>>

Wrong_LeftBlinking ==
  /\ ledPc = "end" /\ TestEnds
  /\ gaveUp' = gaveUp \ {led} /\ UNCHANGED lampVars
FinalOff ==
  /\ ledPc = "end"
  /\ \/ TestEnds /\ Shines(0) /\ gaveUp' = gaveUp \ {led}
     \/ GivesUp

run_led_test == led_on \/ led_off \/ led_set_brightness \/ BlinkFast
                  \/ BlinkSlowly \/ FinalOff

LedStep == device_get_binding \/ run_led_test

LedNext == LedStep \/ \E runs \in BOOLEAN : LedBoot(runs)

LedSpec == LedInit /\ [][LedNext]_ledVars

LedFairness == WF_ledVars(LedStep)

-----------------------------------------------------------------------------
(* What the program promises.                                              *)

LedTypeOK ==
  /\ ledPc \in {"off", "bind", "on", "off_again", "fade", "blink", "end", "done"}
  /\ led \in Nat /\ (ledPc \notin {"off", "bind", "done"} => led \in Leds)
  /\ level \in 0..MaxBrightness + 1
  /\ bright \in [Leds -> 0..MaxBrightness]
  /\ blinking \subseteq Leds /\ gaveUp \subseteq Leds

Dark(l) == bright[l] = 0 /\ l \notin blinking

\* While an LED is tested all others are dark, but for those whose own last
\* test was given up: a test that runs to its end leaves nothing behind.
OthersDark == \A l \in Leds : l = led \/ l \in gaveUp \/ Dark(l)

\* An LED blinks on its way through a whole test only after the fade has
\* reached the full brightness.
FullBeforeBlink == ledPc \in {"blink", "end"} => bright[led] = MaxBrightness

\* Tests that end leave their LED dark, and blinking follows a whole fade.
LedSafe == OthersDark /\ FullBeforeBlink

\* Until the tests end, the program can always take its next step.
LedGoesOn == ledPc \notin {"off", "done"} => ENABLED <<LedStep>>_ledVars

\* No error makes the program stay with one LED: every LED's turn comes.
EveryLedTested ==
  \A l \in Leds : (ledPc = "on") ~> (ledPc \in {"off", "bind"} \/ led = l)
=============================================================================
