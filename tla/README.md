# Verification of the nRF9160 Feather examples and drivers

TLA+ models of the programs in this repository, TLC runs over small instances
of them, and theorems about them that the TLAPS proof system has checked.

The repository is a collection of small Zephyr programs for Circuit Dojo's
Feather boards (nRF9160, nRF9161, nRF9151): a battery driver, start-up code of
the boards, a JSON codec and some twenty samples. Few of them are large; their
difficulties are of other kinds: two contexts that share a flag, a sequence of
calls of which any may fail, a peripheral that remembers what an earlier
program did to it, a search that relies on the form of a table.

Paths below are relative to the repository, line numbers those of its files.

## 1. Inventory

| Component | State | Operations and interactions | What is hard, and what makes it correct |
|---|---|---|---|
| `samples/usb_detect` | `vbus_connected`, `usb_detect_sem`, BUCK2, its pull-down, the UART, the clock | PMIC callback on the system work queue; main loop that takes the semaphore and switches BUCK2 and the console | callback and main interleave at each step; events merge; errors halfway. The outputs follow the cable and no wake-up is lost |
| `samples/https` | certificate in the modem, LTE link, `thread_sem`, the publish in progress | main, timer interrupt, response callback, modem library | every call may fail, reboots during provisioning, a server that never answers. Nothing but the message of a failed set-up is lost, no request without a verified server, every tick is served |
| `drivers/battery`: measurement | power gate, `adc_seq.calibrate`, `raw`, `voltage` | set-up at boot; `sample_fetch`, `channel_get` called by any thread | no lock, and a sleep in the middle. The gate is closed again, samples are those of the battery, a voltage is newer than the call that asked for it |
| `drivers/battery`: level | none (a function) | `battery_level_pptt` walks a discharge curve and interpolates | unsigned arithmetic, a pointer without a length. The pointer stays inside, the result is the one of the formula |
| `boards/.../startup.c` (nRF9161, nRF9151) | limit registers of the nPM1300 | two or three register accesses before main | the PMIC survives resets: a half-finished start-up is what the next one finds |
| `samples/deep_sleep`, `samples/active_sleep` | BUCKCTRL0, BUCK2, ship-mode registers | register reads and writes, hibernation | failures halfway, registers written by other images. Never hibernate half configured |
| `samples/accelerometer_zbus` | pending work, subscriber's queue, accelerometer | timer or trigger, work queue, zbus, sensor thread | ticks coalesce, the queue overflows. No tick goes without a fetch |
| `samples/external_flash` | the marker directory, a boot counter in a file, the build option to erase | stat, erase, mkdir, open, read, seek, write, close over LittleFS | resets and failures between any two calls, a `uint8_t` that wraps. A boot counts once or reports an error; a marked flash keeps its count |
| `samples/sms` | the work item, the command the modem is busy with | button interrupt, work queue, modem callback | the interrupt is enabled before its work item exists; presses during a run; asynchronous commands issued back to back |
| `samples/external_rtc_time_sync`, `samples/external_rtc` | a semaphore; time, start and alarm of the clock | date-time callback from another thread; polling of the alarm | a report that comes early or not at all; a clock that keeps what earlier images did to it |
| `samples/led_pwm` | brightness and blinking of each LED | one thread, six kinds of calls | errors in the middle of a test, inside an endless loop. Tests that end leave nothing behind, every LED's turn comes |
| `lib/codec` | none | measures, then encodes a payload into a buffer | the length measured is that of something else |
| `samples/direct_i2c_access` | registers of the LIS2DH, which survive resets | five accesses over I2C; the chip's driver in the other images sets it up at boot | failures and resets between a read and the write that relies on it; what each image leaves to the next |
| `boards/.../feather_nrf9160/startup.c` | none | one clock request | - |
| polling samples (`accelerometer`, `bme280`, `temperature_sensor`), `battery`, `blinky` | none worth stating | fetch and print | - |
| `at_client`, `gps`, `button`, `mfw_update`, `serial_lte_modem` | - | build sources of the nRF Connect SDK, which are not here | - |
| tests, board descriptions, docs, `update_modem.py` | - | data of the build, host script | - |

The programs meet in devices. The nPM1300 outlives every reset of the nRF9161
and nRF9151 boards and is written by four programs; the external flash, the
PCF85063A clock and the LIS2DH accelerometer outlive those of the nRF9160 board.
What one image, or one boot that was cut short, leaves there is what the next
one finds.

`PROJECT.json` lists the same components with their status, and under
`hazards` each place at which this code could go wrong in a way that a test
would hardly show, with the properties that would reveal it.

## 2. Modules

| Module | Code | Extends or instantiates |
|---|---|---|
| `UsbDetect` | usb_detect/src/main.c | instantiates `PowerSwitch` |
| `PowerSwitch` | what usb_detect promises (its Readme.md) | - |
| `Https` | https/src/main.c, cloud/cloud.c | - |
| `BatteryDriver`, `MCBatteryDriver` | drivers/battery/battery.c:73-228, 257-284 | `MCBatteryDriver` extends `BatteryDriver` |
| `BatteryLevel`, `MCBatteryLevel` | drivers/battery/battery.c:230-255 | `MCBatteryLevel` extends `BatteryLevel` |
| `Pmic` | both startup.c, deep_sleep, active_sleep (`setup_pmic`), the effect of usb_detect | - |
| `AccelZbus` | accelerometer_zbus/src/main.c, sensor.c | instantiates `Sampler` |
| `Sampler` | what a sampler driven by ticks promises | - |
| `FlashCounter` | external_flash/src/main.c | instantiates `BootCounter` |
| `BootCounter` | what a persistent boot counter promises | - |
| `Sms` | sms/src/main.c | - |
| `Rtc` | external_rtc_time_sync/src/main.c, external_rtc/src/main.c | - |
| `LedPwm` | led_pwm/src/main.c | - |
| `JsonCodec` | lib/codec/example_json_codec.c | - |
| `Accelerometer` | direct_i2c_access/src/main.c, active_sleep/src/main.c but for `setup_pmic`, what the LIS2DH's driver does before main | - |
| `Feather` | one board that is flashed with one image after another | extends the components from `AccelZbus` on |
| `...Proofs` | theorems of the module named before | extends it, and TLAPS |

Definitions have the names of the C functions they model where there is one.
Definitions called `Wrong_...` belong to no specification: each is a plausible
mistake in the operator that follows it, kept to show that a property tells the
mistake from the code.

### UsbDetect

`pc` is main's position: `init`, `sample`, `store` (lines 211-229), then the
loop `wait`, `check`, `buck2`, `pulldown`, `uart` (231-254). `event_callback` is
one action, because it runs on the cooperative system work queue and main
cannot preempt it; it may run between any two of main's steps, and so between
the sampling of VBUS and the store of the sample. The PMIC latches one bit per
kind of event, so a removal and an insertion may reach one call of the callback
without their order. The regulator API counts enables and disables. `console_err` is a history of the
last call to change the console, which may fail as any other call.

What is outside the repository and modelled from its use: the latch of the
PMIC, the reference count of the regulator API, and the rule that suspending a
suspended device is an error.

`Calm` says in which phases the cable is assumed to keep still: while main
initialises (`boot`), while an event is latched (`event`), until main is idle
again (`loop`). `Matched` says that BUCK2 comes up on exactly if the cable is
in. The assumptions are parameters because the properties need different ones.

`PowerSwitch` is the abstract specification: a cable and two outputs that
follow it, power first. `due`, the outputs that have not followed yet, is a
function of the detailed state. That both outputs follow in the end (`Follows`)
is part of the specification, stated as what a user sees and not as the fairness
of an action. `UsbDetect!ImplementsSwitch` states the refinement.

### Https

Boot: `nrf_modem_lib_init`, then `cert_provision` (exists, compare, delete,
write, cloud.c:295-340), connection and timer (main.c). Publish: one action per
call that can fail. The seven socket options are set in the order of the code
(cloud.c:33-157); `nopt` counts them. `held` is the set of what
`cloud_publish` has acquired: the message, the address list and the socket. The
message comes from cJSON's allocator, which is the one of the C library
(`CONFIG_NEWLIB_LIBC`, prj.conf:7). Only `cJSON_free` (cloud.c:287) gives it
back; `k_free`, which the path of a failed set-up calls (249), hands it to the
kernel's heap, so that `held` keeps it. What `k_free` makes of a block that is
not its own is undefined: that it goes on is the action, that it ends in a fault
and a reset is `Reboot`; that it spoils the kernel's heap without a fault is not
modelled.
`Reboot` may happen at every step and keeps the certificate store only.
`LookupErrors` lists the signs of getaddrinfo's error codes, because
`cloud_publish` only tests for negative values.

Left out: what the message contains; of the TLS handshake only whether it
requires the right certificate.

### BatteryDriver

One client per thread. A fetch opens the gate, sleeps, reads the ADC, clears the
calibration flag, loads `raw`, stores `voltage` and closes the gate. Each access
to a shared variable is a step of its own (battery.c:202, 204, 216), because the
driver takes no lock and a thread may be preempted anywhere. `val` is the local
variable that carries the reading from the load to the store. What the ADC sees
depends on the gate. Millivolts are abstracted to where the reading came from.

Histories tell how old a reading is: `rawOld`, `valOld` and `old` are the
threads that have called `sample_fetch` since the reading in `raw`, in the local
copy and in `voltage` was taken. They move with the reading, so a late store
brings an old age with it. `overtaken` is the set of threads whose fetch began
while another held a reading it had not stored. `shut` says that a fetch has
closed the gate while another slept.

### BatteryLevel

The loop of the search is a state machine, `pb` is the pointer as an index, and
all arithmetic is taken modulo the word: `Half` is the number of values of a
`uint16_t`, `Half * Half` that of an `unsigned int`, whatever the width. The
preconditions on the curve (`IsCurve`) are those of the comment
battery.h:18-21 that the code relies on.

### Pmic

The PMIC keeps its registers over resets and over the flashing of another
image, so one module composes all programs that write to it: `StartBoot` runs
`sysreg_setup` of the board, then main of whichever image is flashed. Each
register access is an action and may fail. The limit written (`ilim`) and the
limit in force (`limit`) differ until the task register is written; likewise
`ship` and `strobed`. After hibernation the registers have kept their values or
not. `board`, fixed by Init, is one of `Boards`; on those in `Uninterrupted` no
reset and no failure comes between the two writes of `sysreg_setup`.

### AccelZbus and Sampler

`trigger` and `ready`, chosen at each boot, say which variant is built
(`CONFIG_LIS2DH_TRIGGER`) and whether there is an accelerometer. A tick submits
the work; the work queue puts a notification into the subscriber's queue, or
gives up when that stays full for 500 ms; the sensor thread takes notifications
and fetches. Start messages are all alike, so the queue is a number. `owed`
remembers that no fetch has begun since the last tick.

`Sampler` is the abstract specification: requests that wait for a fetch, without
threads, work item or channel. A tick may coalesce with a request that waits
already, and one is dropped only above `Capacity`. The refinement maps the
requests to `Ticks`, the sum of the pending work, the notification being put and
the queue, and `Capacity` to the size of the queue.

### FlashCounter and BootCounter

`flashPc` is the next call of `nor_storage_init` and `nor_storage_increment`.
`stored` is the count as a reset would leave it: a write to an open file is in
force with the close, and a close that fails may have put it into force or not.
`FlashBoot` may come between any two calls. `wipe` is the build option
`CONFIG_APP_WIPE_STORAGE`; without it `littlefs_flash_erase` erases nothing and
the marker is made all the same. What is assumed of LittleFS: it serves calls
on a flash area that was erased under it (the sample erases after the
automount, although the help of the option speaks of the time before mounting),
and a file that is missing or empty reads as the count 0.

`BootCounter` is the abstract specification: a boot adds one to the count at
most once, in one step, and claims success only if it has. `Values`, 2^8 in the
code, is a parameter of both.

### Sms

main, the interrupt and the work queue interleave. `listed` is the work queue's
own knowledge of the item, `flagged` the item's: `k_work_init_delayable` clears
the second only, so that an item which was queued before can be linked to
itself later. An item that runs before its initialisation has no handler. Both
end in `crashed`. The modem takes one asynchronous command at a time.

### Rtc

Both samples over one clock, whose time, start and alarm survive resets. The
date-time library calls back from a thread of its own as soon as the request
was accepted, so before main checks its result and before it waits.
`date_time_ready` is a count of at most one. `external_rtc` polls; a read that
fails or finds nothing is a step that changes nothing and is not modelled.

### LedPwm

One action per call of `run_led_test`, each of which may fail. `gaveUp` is a
history of the LEDs whose last test ended with an error. A reset stops the PWM.

### JsonCodec

A text is its length. `json_calc_encoded_len` is given the address of the
parameter instead of the payload, so the measured length is any length a
payload can have. The library wants room for the text and the 0 that ends it.

### Accelerometer

`direct_i2c_access` writes CTRL0, updates a bit of CTRL1 and copies two bytes
from register 0x1e on into an array and back. Its messages call the second byte
CTRL1, which is at 0x20, not 0x1f: whether the chip goes on to 0x1f or stays at
0x1e is a choice of Init (`increments`). `active_sleep` calls one function per
device and looks at no result; `awake` and `failed` record what became of each.

`active_sleep` and `accelerometer_zbus` are built with the chip's driver
(`CONFIG_LIS2DH=y`), whose set-up runs before main, and the board asks it to
disconnect the pull-up of the pin SDO/SA0 (board dtsi:176): `lis2dh_init` sets
that bit of CTRL0, clears CTRL1, sets the rate and the axes, and may fail at each
access. `direct_i2c_access` is built without the driver and writes the default
over CTRL0 (main.c:48). So CTRL0 has two values, which the images exchange.

### Feather

Every component has an `...Init`, a `...Boot` and a `...Step`; all of them but
that of the image that runs are "off". `Boot` flashes or resets to one of the
images of `family`. Images that share devices form a family; families are
chosen by Init and never mixed, since what images without a common device do is
independent. The three images that use the accelerometer are one family, and
`accelerometer_zbus` finds a sensor exactly if the driver could set it up.
`UnusedAtRest` gives a device that no image of the family uses one
state only.

## 3. Runs

| Run | What it asks | Bounds |
|---|---|---|
| `usb_free` | no lost wake-up, console follows the branch whatever fails for BUCK2, neither thread gets stuck, every event is served, with any cable and failing calls | 4 moves, 2 failing calls |
| `usb_calm` | flag and BUCK2 follow a calm cable; no pull-down on a BUCK2 that is on; the program implements `PowerSwitch` | 8 moves, no failing call |
| `usb_boot_race` | violated: the flag agrees with the cable if that moves during initialisation | 2 moves |
| `usb_bounce` | violated: after the "disconnected" branch the regulator is off | 4 moves |
| `https_any` | only the message of a failed set-up is lost, requests on verified sockets only, the store is repaired and written offline, one callback per publish, main never gets stuck, ticks are served | none: all failures, any number of reboots |
| `https_publish_result` | violated: `cloud_publish` reports failures | none |
| `battery_level` | pointer, arithmetic, result against a reference, no lower level for a higher voltage, termination | `Half` = 6, all curves of up to 3 points, voltages 0..7 |
| `battery_driver` | gate, samples, calibration and freshness under fetches that interleave at every access | 3 threads, up to their exchange |
| `pmic` | limit, hibernation, active sleep, pull-downs; resets, faults, any sequence of images | both boards; on the nRF9161 nothing comes between the two writes of the limit |
| `pmic_half_done` | violated: the limit is in force if a reset may come between the two writes | nRF9161 |
| `feather` | fourteen properties of nine images on one board, with resets and failures at any step | a counter of 4 values, 3 LEDs, brightness up to 3, 2 pins, three lengths of numbers, five buffers, a queue of 4 |
| `json_enough_room` | violated: a buffer with room for the text is accepted | three lengths of numbers, five buffers |

What `feather` checks, by image:

- external_flash: `FlashSafe` (a boot that returns 0 has counted; a boot without
  a failing call returns 0, whatever boots before it left half done; a marker
  means that the flash was erased), `MarkedCountKept` (once marked, only an
  error loses the count), `ImplementsCounter`.
- sms: `SmsSafe` (a press is in the queue until a run has started after it; the
  queue gets into trouble only through a press before the initialisation; every
  run has tried both commands), `PressServed`.
- external_rtc_time_sync, external_rtc: `SyncSafe` (an early report is not
  forgotten, the clock is set after a report only, 0 means that it is set),
  `ClockServed` (a report ends the waiting; an armed alarm of a running clock
  ends the polling).
- led_pwm: `LedSafe` (tests that end leave their LED dark, blinking follows a
  whole fade), `EveryLedTested`.
- lib/codec: `CodecSafe` (a returned length is that of a text that ends inside
  the buffer; a buffer for any payload is never refused).
- direct_i2c_access, active_sleep, accelerometer_zbus: `AccelSafe` (the bursts
  write back what was read, and CTRL0 loses no bit but the one of the pull-up;
  only a device whose own call failed is left awake; an accelerometer that was
  put to sleep samples nothing and has its pull-up disconnected).
- accelerometer_zbus: `ImplementsSampler`, `TickServed`.
- all: `ThreadsGoOn` (no thread of the image that runs gets stuck).

Why the bounds are enough. `MaxMoves` and `MaxFaults` only limit the
environment, and the theorems hold for every value of them. Four moves are two
more than the two that fit behind one semaphore; eight are four full cycles of
plugging. `battery_level`: three points have a first, an inner and a last one,
six values leave room for equal neighbours, steep and flat segments, and
products near the end of the word; the voltages go beyond the largest point.
The theorems are about every curve and every width. Three threads are one more
than are needed for an overlap that a third one observes; they are exchangeable,
as no definition tells them apart and no property of that run is a liveness one. A counter of four
values wraps after four boots; three LEDs have a first, one between and a last
one, and three levels an inner step of the fade. Numbers of 1, 6 and 11 characters are
the shortest, a middle and the longest of 32 bits; the buffers are smaller than
the frame of a payload, around the shortest text and around the longest one.
The zbus queue has the size of the code (sensor.c:92). The models of `Https`,
`Pmic`, `Sms`, `Rtc` and `Accelerometer` are finite as they are.

Fairness. `UsbDetect`: weak fairness of main and of the work queue, both of
which the kernel schedules when they can run. `Https`: weak fairness of main;
its network calls come back because the code sets timeouts (cloud.c:129-142,
279), the server owes nothing. `BatteryLevel`: the function goes on. `AccelZbus`:
weak fairness of initialisation, work queue and sensor thread. `Sms`: of main
and of the work queue. `Rtc`: of both main functions, and of an armed alarm of a
running clock, which goes off; the reading of a pending alarm does not fail for
ever. `LedPwm`: of main. No fairness is assumed of cables, ticks, reboots,
button, servers, time reports, the modem's answers or failures; where a call
can succeed or fail, weak fairness of its caller makes no choice between them.
Since a boot may come at any time, each liveness property is one that a reset
fulfils by taking the obligation away.

Deadlock. TLC checks it except where the system stops: `UsbDetect` (the cable
runs out of moves, or main returns after an error), `BatteryLevel` (the function
returns), and `Feather` and `JsonCodec`, where a boot, or another call, is
possible in every state. Where a boot, a reboot or a cable hides a thread that is
stuck, the check says little, and an invariant says what is meant: in every
state in which a thread has something to do, one of its steps is possible
(`ThreadsGoOn` of `UsbDetect` and `Feather`, `MainGoesOn` of `Https`). They hold because the publisher gives up at a full queue
(`Wrong_WaitsForever`), because the callback of usb_detect gives the semaphore
without waiting (`Wrong_GiveWaits`), and because a server that does not answer
ends in a timeout (`Wrong_NoTimeout`).

What the properties admit. Some of the code does go wrong, and the property
about that place then says how far: it holds outside the case that goes wrong,
and names that case in its statement. These are:

- `FlagMatchesCable`, `PowerFollowsCable`: with a cable that is calm. Two events
  in one call of the callback, and a BUCK2 that does not match the cable at boot,
  leave the outputs wrong until the next event.
- `OnlyFailedSetupLeaks`: the message of a publish whose set-up failed is lost.
- `RequestOnVerifiedSocket`: an error of getaddrinfo that is not negative.
- `GoodCertKept`: an error of the compare deletes a good certificate.
- `VoltageIsFresh`: the client's own read has failed, or another client held a
  reading as the fetch began.
- `SampledPowered`: a fetch has closed the gate while another slept.
- `PulldownsKept`, `SleepsConfigured`: a read or write of the PMIC has failed.
- `MarkedCountKept`: a call on the flash has failed in that boot.
- `ClockServed`: the alarm of a clock that nobody has started.

### Disagreements found

- usb_boot_race (`usb_detect/src/main.c:229`). An event delivered between
  the sampling of VBUS (222) and the store of the sample (229) is overwritten:
  flag and outputs are wrong until the next event. The same happens, outside
  the start, if a removal followed by an insertion reaches one call of the
  callback, which records the removal (149).
- usb_bounce (`usb_detect/src/main.c:242`). Removal and insertion before
  main runs once give one wake-up with the flag TRUE again. The regulator is
  enabled a second time, its count is two, and the disable that follows leaves
  it on, with its pull-down active. With a calm cable the comment does hold
  (`RegulatorReleased`, section 4).
- https_publish_result (`cloud.c:252`). `cloud_publish` returns 0 although
  nothing was sent; `cloud.h:19` promises a negative errno. `cloud_init` drops
  the error of `cert_provision` in the same way (356).
- pmic_half_done (`feather_nrf9161/startup.c:33`). The start-up does nothing
  if the register already shows 500 mA, also if a reset, or a failing second
  write, kept an earlier start-up from putting it into force.

- json_enough_room (`example_json_codec.c:20`). The length is that of the words
  behind the parameter's address. The encoding that follows checks the buffer
  itself, so that no text is cut (`CodecSafe`), but buffers with room are
  refused, where the comment at line 22 speaks of buffers that are not sized
  correctly.

Seen while modelling and not in a run of their own: a cable that is in before
boot is sampled but not acted on (usb_detect main.c:231); a press between the
lines 92 and 102 of sms main.c reaches a work item that is not initialised
(`CrashOnlyWhenEarly` says that nothing else does harm); the second of the two
AT commands, which is the message itself, is refused as long as the first is
pending (sms 51); a request for the time that fails leaves main waiting for ever
(time_sync 83-87); the marker is made even by a build that erases nothing, so
that a later build with the option on does not erase either (external_flash
51-86); `external_rtc` never starts the clock whose alarm it waits for;
`deep_sleep` tests the pull-down of BUCK2 only and so skips BUCK1's after
`active_sleep` (deep_sleep main.c:38); on the nRF9151 `active_sleep`'s write of
the whole register can clear BUCK1's pull-down, and on either board a failed
read counts as a register of zeros (active_sleep main.c:134-147); a publish whose
socket cannot be set up gives its message to the wrong heap (https cloud.c:249);
a thread that is preempted between battery.c:204 and 216 stores its voltage over
a newer one, and `sample_fetch` returns 0 in any case; `direct_i2c_access`
reconnects, at its line 48, the pull-up that the board's description disconnects
(circuitdojo_feather_nrf9160_common.dtsi:176), until an image with the driver
boots.

## 4. Theorems

All theorems hold for every value of the constants that the named assumption of
the module admits (`UsbAssumption`, `HttpsAssumption`, ...) and that the
theorem's own ASSUME, if any, narrows.

| Module | Theorems | Argument |
|---|---|---|
| `UsbDetectProofs` | `TypeCorrect`; `WakeupNeverLost`; `ConsoleFollowsBranch`; `FlagAgreesWithCable` (`boot`, `event` in `Calm`); `PowerAgreesWithCable`, `PulldownAfterPower`, `RegulatorReleased`, `SwitchImplemented`, `SwitchFollows` (all of `Calm`, `Matched`; the last two without faults); `EventIsServed` | `WakeInv`: while main acts on a branch and the semaphore is empty, the flag still is what main saw. `FlagInv`: the flag, or the one latched event, tells the position of the cable. `SwitchInv` adds to it what each position of main says of cable, BUCK2 and reference count (`Phase`), and so rules out the second enable of `usb_bounce`. `Stage` counts the steps until both outputs have followed |
| `HttpsProofs` | `TypeCorrect`, `StoreIsSafe`, `GoodCertSurvives`, `StoreOffline`, `OnlyMessageLost`, `RequestVerified`, `CalledBackOnce`, `TickIsServed` | `CountInv` bounds the counters by position; `StoreInv` says what each step of the provisioning knows of the store; `HeldInv` what exactly a publish holds at each step, the message included that a failed set-up leaves; `SocketInv` that without an error all options so far are set; `TimerStarted` that a tick finds main past the boot |
| `BatteryLevelProofs` | `TypeCorrect`, `CurveReadSafely`, `LevelStaysInSegment`, `LevelIsSound`, `SearchRunsOut`, `SearchReturns` | `SearchInv`: the voltage lies below every point passed. The lemmas on products, differences and fractions bound the interpolated value without nonlinear guesses by the prover. The reference picks the last point at or above the voltage; that the search has stopped there follows from `SearchInv` and the order of the curve. That the reference rises (`ReferenceRises`): inside a segment by the lemma on fractions, across segments by the points between |
| `BatteryDriverProofs` | `TypeCorrect`, `GateReleased`, `OneCalibrationEach`, `FreshUnlessOvertaken`, `SamplesFromBattery` | `GateHeld`: an open gate belongs to a fetch in progress. `FlagSpent`: a thread that has calibrated is about to clear the flag or finds it cleared. `GateStaysOpen`: until a gate has been closed under a sleeper, every thread that sleeps finds it open, so that `raw`, every local copy and `voltage` are the battery's. `AgesKnown`: an age names a thread only if that thread is still before its own read, has failed, or was overtaken by a reading then under way |
| `PmicProofs` | `TypeCorrect`; `LimitApplied` (if the nRF9161, where it is built for, is in `Uninterrupted`); `SleepsReached`; `PulldownsAccumulate` | `LimitStaged`, `ShipReady`, `BuckReady`, `PulldownsPaired`: what each step of a boot knows of the registers |
| `AccelZbusProofs` | `ZbusTypeCorrect`, `TicksRemembered`, `SamplerImplemented`, `TickIsServed` | `NoTickForgotten` is inductive with the types: a full queue holds a notification. Each step of a thread is a request, a drop, a fetch or a stutter of the sampler |
| `FlashCounterProofs` | `FlashTypeCorrect`, `BootsCounted`, `MarkedCountSurvives`, `FlashImplementsCounter` | what each call knows of the count: from the read on `boot_count` is that of the file, from the write on one more, and until the close the file still holds what the boot found; a boot that has reached the erasing with the marker in place has met an error |
| `FeatherProofs` | for `Sms`, `Rtc`, `LedPwm`, `JsonCodec`, `Accelerometer`: `SmsTypeCorrect`, `PressesQueued`, `PressIsServed`, `RtcTypeCorrect`, `ClockSetSafely`, `ClockIsServed`, `LedTypeCorrect`, `LedsLeftDark`, `LedTurnsCome`, `LedsAreTested`, `JsonTypeCorrect`, `CodecKeepsBuffer`, `AccelTypeCorrect`, `AccelKept`; for the board: `BoardTypeCorrect`, `BoardSafe`, `BoardCounts`, `BoardServes`, `OneRuns` | each component's invariant is that of its own specification (`SmsSpec`, ...). `ChipAsleep`: from the driver's set-up on CTRL0 has the driver's value in an image that has it, and from `setup_accel` on the rate is 0 or its call has failed. `ComponentsBehave`: every behaviour of `Feather` is one of each component, as its steps are a step, a boot or a stutter of it; so the board inherits every theorem about a component, refinement and liveness included |

Few of the invariants are inductive as they stand: they speak of moments at
which the program rests, and say nothing of the steps in between that lead
there. The strengthenings name, for each position of the program counter, what
the code has established there. Some invariants have several parts, which the
modules define one by one and a theorem proves together: `LevelSound` is
`LevelCorrect` and `LevelRises`, `StoreSafe` is `ProvisionedMeansCert` and
`BootRepairs`, and so on.

The type invariants are theorems and appear in no run: they hold for every
value of the constants, and every other proof rests on them.

Liveness. A proof measures how far the state is from the goal, as a bounded
number (`Distance`): every step of the context whose turn it is lowers it, and
no other step raises it. `Within(n)` says that the goal is at most n steps away;
one lemma (`EachStepCloser`) turns each n into n - 1 from weak fairness, and a
finite ladder of them, combined by the temporal prover, leads to the goal. A
weak-fairness step needs to know that the context can take a step, which is a
statement about ENABLED and beyond the prover. It enters the theorems as a
hypothesis, `[]ThreadsGoOn`, `[]MainGoesOn`, `[]ZbusGoesOn`, ...; for the board and
the bounds of the runs TLC checks those same formulas as invariants, so that
what is left unproved is exactly that no thread gets stuck.

- `AccelZbusProofs!TickIsServed`: seven steps at most, whatever the size of the
  queue, because a fetch needs one notification, not an empty queue.
- `HttpsProofs!TickIsServed`: sixteen steps through a publish that is in
  progress. The seven socket options count one by one, the fragments of the
  response not at all: nothing is expected of the server, because the timeout is
  a step of main.
- `EventIsServed`: first the events latched are delivered, then main comes to
  rest. It assumes that the cable comes to rest, `<>[][~MoveCable]_vars`. In the
  model that follows from `MaxMoves`, but only by induction over that number; the
  code needs it because a cable that moves for ever can keep main busy.
- `PressIsServed`: the commands of a run in progress come first, at most two.
- `ClockIsServed`: a flag that is set stays set until main has seen it.

- `SwitchFollows`: six stages from the event of the cable to rest, the delivery
  of the event and five of main (`Stage`).
- `SearchReturns`, `LedsAreTested`: the number of steps depends on the curve, or
  on the number of LEDs and the brightness, so no ladder of fixed length will do.
  Every step is proved to lower a natural number (`StepsLeft`; `CallsBefore`, the
  tests before that of the LED times the calls of a test, and the calls left in
  the current one), and from the goal at most n steps away follows the goal at
  most n + 1 steps away. The step from there to every n is induction over a
  temporal formula, which none of the provers can instantiate. The two theorems
  take that instance of the induction principle as a hypothesis
  (`InductionOverSteps`, `InductionOverCalls`): it says nothing of the code, as it
  is true of every behaviour, and is written out only because it cannot be
  derived here. `SearchRunsOut` and `LedTurnsCome`, which say that every step
  lowers the measure, do without it.

What is left to TLC, and why:

- the hypotheses about ENABLED above. `SearchGoesOn` has no run of its own: a
  search that stops early would violate `Returns`, which a run checks;
- the instances of the induction principle; `EveryLedTested` and `Returns`
  themselves are checked by TLC, on small instances and without any hypothesis;
- that a cable comes to rest, which `EventIsServed` assumes and `MaxMoves` implies.

The refinements of `PowerSwitch`, `BootCounter` and `Sampler` are proved as a
whole, the first one up to the hypothesis that no thread gets stuck.

## 5. Not modelled, and what is left

Not modelled for good: samples whose sources are not in the repository, board
descriptions and build files, the host script, the start-up of the nRF9160 (one
call in the bootloader), and samples that only fetch and print or toggle one
pin: they keep no state between two passes and have one thread. The user button
of usb_detect (157-195) only prints.

Within what is modelled: errors of `zbus_sub_wait`, which would end the sensor
thread of accelerometer_zbus (sensor.c:98) and which an endless wait on a
subscriber's queue does not give; what `k_free` of a foreign block does beyond
going on or a reset; what messages and payloads contain beyond their
lengths, delays, the TLS handshake beyond whether it requires the right
certificate, and the inside of LittleFS, zbus, the date-time library and the
drivers, which are outside the repository.

What could follow: an abstract credential store that the provisioning of `Https`
implements, and runs of their own for the disagreements listed last in
section 3.
