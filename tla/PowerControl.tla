---------------------------- MODULE PowerControl ----------------------------
(***************************************************************************)
(* The power control of the MightyHat: handlePowerControl() and the        *)
(* battery reading of MightyHat.ino, with the button, the latch that feeds *)
(* the Raspberry Pi and the two wires between them: SIG_SHUTOFF asks the   *)
(* Pi to go down, SIG_BOOTOK tells that it is up.                          *)
(*                                                                         *)
(* The handler blocks: each of its waiting loops is a value of pc, and one *)
(* action is one round of a loop, which takes between one unit of time and *)
(* MaxStep of them.  Times are in some unit; their order is the code's.    *)
(* The display (ENABLE_LCD is off) and the waves of the LED are left out.  *)
(***************************************************************************)
EXTENDS Naturals

CONSTANTS
    Debounce,            \* the 200 ms between two readings of the button
    RESETPULSETIME, RESETHOLDTIME, SHUTDOWNHOLDTIME, ShutoffTriggerDelay,
    ForcedShutoffDelay, ShutdownFinalDelay, RecycleTime,
    HaltsWithin,         \* the time in which a prompt Pi obeys the signal
    MaxStep              \* the longest round of a loop

ASSUME TimesAssumption ==
    /\ {Debounce, RESETPULSETIME, RESETHOLDTIME, SHUTDOWNHOLDTIME, ShutoffTriggerDelay,
        ForcedShutoffDelay, ShutdownFinalDelay, RecycleTime, HaltsWithin} \subseteq Nat
    /\ RESETHOLDTIME < SHUTDOWNHOLDTIME
    /\ SHUTDOWNHOLDTIME < ForcedShutoffDelay
    /\ ForcedShutoffDelay - SHUTDOWNHOLDTIME < ShutoffTriggerDelay
    /\ ShutoffTriggerDelay < RecycleTime
    /\ RESETPULSETIME < RecycleTime /\ SHUTDOWNHOLDTIME < RecycleTime
    /\ ShutdownFinalDelay < RecycleTime
ASSUME StepAssumption == MaxStep \in Nat \ {0}

VARIABLES
    PowerState,          \* TRUE is ON
    lastValidReading,    \* TRUE is pressed (LOW)
    age,                 \* the age of lastValidReadingTime
    voltage,             \* systemVoltage, by the thresholds it is compared with
    batteryLowShutdown,
    pc,                  \* the loop the sketch is in
    elapsed,             \* the age of NOW
    forceShutdown, recycleDetected,
    led,                 \* the button's LED
    sig,                 \* SIG_SHUTOFF
    pressed,             \* the button
    held,                \* how long the last press lasted, or lasts
    pi,                  \* the Raspberry Pi; "off" is without power
    prompt,              \* this Pi obeys within HaltsWithin
    stale                \* the sketch restarted and has not driven the latch since

readings == <<lastValidReading, age>>
waits    == <<elapsed, forceShutdown, recycleDetected>>
outside  == <<pressed, prompt>>
vars == <<PowerState, readings, voltage, batteryLowShutdown, pc, waits, led, sig,
          outside, held, pi, stale>>

Powered    == pi # "off"
batteryLow == voltage = "low"
charged    == voltage = "charged"
BOOTOK     == pi \in {"up", "halting"}

ForcedWait == ForcedShutoffDelay - SHUTDOWNHOLDTIME
UpTo(n, most) == IF n > most THEN most ELSE n
Rounds == 1 .. MaxStep

PowerTypeOK ==
    /\ PowerState \in BOOLEAN
    /\ lastValidReading \in BOOLEAN /\ age \in 0 .. Debounce + 1
    /\ voltage \in {"low", "fair", "charged"}
    /\ batteryLowShutdown \in BOOLEAN
    /\ pc \in {"top", "resetHold", "shutdownHold", "pulse", "reboot", "ask", "unbooted",
               "shutdownWait", "finalDelay", "lastChance", "forced", "leds", "rest"}
    /\ elapsed \in 0 .. RecycleTime + MaxStep /\ forceShutdown \in BOOLEAN /\ recycleDetected \in BOOLEAN
    /\ led \in {"green", "orange", "off"} /\ sig \in BOOLEAN
    /\ pressed \in BOOLEAN /\ held \in 0 .. ForcedShutoffDelay
    /\ pi \in {"off", "booting", "up", "halting", "halted"}
    /\ prompt \in BOOLEAN /\ stale \in BOOLEAN

\* The globals' initial values, setupPowerControl() and the first readBattery().
\* setup() takes about as long as the debouncing interval.
Init ==
    /\ PowerState = FALSE
    /\ lastValidReading = FALSE /\ age \in {Debounce, Debounce + 1}
    /\ voltage \in {"low", "fair", "charged"} /\ batteryLowShutdown = FALSE
    /\ pc = "top" /\ elapsed = 0 /\ forceShutdown = FALSE /\ recycleDetected = FALSE
    /\ led = "off" /\ sig = FALSE
    /\ pressed \in BOOLEAN /\ held = 0
    /\ pi = "off" /\ prompt \in BOOLEAN /\ stale = FALSE

\* Time passes for the ages while a loop makes a round.
Ages(d) ==
    /\ age' = UpTo(age + d, Debounce + 1)
    /\ held' = IF pressed THEN UpTo(held + d, ForcedShutoffDelay) ELSE held

\* Slip: NOW is read anew in every round.
WaitsFromNow(d) == elapsed' = elapsed /\ Ages(d)

Waits(d) == elapsed' = elapsed + d /\ Ages(d)

\* Slip: the latch is pulsed with its value always HIGH.
POWERAlwaysOn(on) ==
    /\ pi' = IF pi = "off" THEN "booting" ELSE pi
    /\ stale' = FALSE

\* POWER() pulses the latch; the Pi boots when power comes.
POWER(on) ==
    /\ pi' = IF ~on THEN "off" ELSE IF pi = "off" THEN "booting" ELSE pi
    /\ stale' = FALSE

Goto(next) == pc' = next /\ elapsed' = 0

-----------------------------------------------------------------------------
(***************************************************************************)
(* The handler.                                                            *)
(***************************************************************************)
\* The artificial reading after a low battery shutdown is HIGH: not pressed.
Reading == pressed /\ ~(~PowerState /\ batteryLowShutdown /\ charged)

\* Slip: the alarm waits for the button.
AcceptedNoAlarm == Reading # lastValidReading /\ age > Debounce

Accepted == \/ PowerState /\ batteryLow
            \/ Reading # lastValidReading /\ age > Debounce

Acts == (PowerState /\ batteryLow) \/ Reading

\* Slip: a negation is lost.
MeasuresInAlarm == batteryLow /\ PowerState

\* The two loops that measure the press run only with the Pi on and no alarm.
Measures == ~batteryLow /\ PowerState

HandlePowerControl ==
    /\ pc = "top"
    /\ sig' = FALSE
    /\ IF Accepted
       THEN /\ lastValidReading' = Reading /\ age' = 0
            /\ Goto(IF ~Acts THEN "leds" ELSE IF Measures THEN "resetHold" ELSE "ask")
            /\ led' = IF Acts /\ ~Measures THEN "orange" ELSE led
       ELSE pc' = "rest" /\ UNCHANGED <<readings, elapsed, led>>
    /\ UNCHANGED <<PowerState, voltage, batteryLowShutdown, forceShutdown, recycleDetected,
                   outside, held, pi, stale>>

ResetHold ==
    /\ pc = "resetHold"
    /\ \/ /\ elapsed < RESETHOLDTIME
          /\ \E d \in Rounds : Waits(d)
          /\ pc' = IF pressed THEN pc ELSE "rest"
          /\ UNCHANGED led
       \/ /\ elapsed >= RESETHOLDTIME
          /\ pc' = "shutdownHold" /\ led' = "orange"
          /\ UNCHANGED <<elapsed, age, held>>
    /\ UNCHANGED <<PowerState, lastValidReading, voltage, batteryLowShutdown, forceShutdown,
                   recycleDetected, sig, outside, pi, stale>>

\* A release in time asks the Pi to reboot, if it is up.
ShutdownHold ==
    /\ pc = "shutdownHold"
    /\ \/ /\ elapsed < SHUTDOWNHOLDTIME /\ pressed
          /\ \E d \in Rounds : Waits(d)
          /\ UNCHANGED <<pc, sig>>
       \/ /\ elapsed < SHUTDOWNHOLDTIME /\ ~pressed
          /\ Goto(IF BOOTOK THEN "pulse" ELSE "rest")
          /\ sig' = BOOTOK
          /\ UNCHANGED <<age, held>>
       \/ /\ elapsed >= SHUTDOWNHOLDTIME
          /\ Goto("ask")
          /\ UNCHANGED <<age, held, sig>>
    /\ UNCHANGED <<PowerState, lastValidReading, voltage, batteryLowShutdown, forceShutdown,
                   recycleDetected, led, outside, pi, stale>>

ResetPulse ==
    /\ pc = "pulse"
    /\ \/ /\ elapsed < RESETPULSETIME
          /\ \E d \in Rounds : Waits(d)
          /\ UNCHANGED <<pc, sig, recycleDetected>>
       \/ /\ elapsed >= RESETPULSETIME
          /\ sig' = FALSE /\ recycleDetected' = FALSE
          /\ Goto("reboot")
          /\ UNCHANGED <<age, held>>
    /\ UNCHANGED <<PowerState, lastValidReading, voltage, batteryLowShutdown, forceShutdown,
                   led, outside, pi, stale>>

\* A round of blinking; then the reboot is over if BOOTOK was low and is high.
RebootWait ==
    /\ pc = "reboot"
    /\ \/ /\ elapsed < RecycleTime
          /\ \E d \in Rounds : Waits(d)
          /\ recycleDetected' = (recycleDetected \/ ~BOOTOK)
          /\ pc' = IF BOOTOK /\ recycleDetected THEN "rest" ELSE pc
       \/ /\ elapsed >= RecycleTime
          /\ pc' = "rest"
          /\ UNCHANGED <<elapsed, age, held, recycleDetected>>
    /\ UNCHANGED <<PowerState, lastValidReading, voltage, batteryLowShutdown, forceShutdown,
                   led, sig, outside, pi, stale>>

\* The first reading of BOOTOK decides for a shutdown that asks the Pi.
AskPi ==
    /\ pc = "ask"
    /\ IF (batteryLow \/ PowerState) /\ BOOTOK
       THEN /\ batteryLowShutdown' = (batteryLowShutdown \/ batteryLow)
            /\ sig' = TRUE /\ led' = "off" /\ forceShutdown' = TRUE
            /\ Goto("shutdownWait")
       ELSE Goto("unbooted") /\ UNCHANGED <<batteryLowShutdown, sig, led, forceShutdown>>
    /\ UNCHANGED <<PowerState, readings, voltage, recycleDetected, outside, held, pi, stale>>

\* The other two branches; BOOTOK is read again.
Unbooted ==
    /\ pc = "unbooted"
    /\ \/ /\ PowerState /\ ~BOOTOK
          /\ Goto("forced")
          /\ UNCHANGED <<PowerState, batteryLowShutdown, pi, stale>>
       \/ /\ PowerState /\ BOOTOK
          /\ Goto("leds")
          /\ UNCHANGED <<PowerState, batteryLowShutdown, pi, stale>>
       \/ /\ ~PowerState
          /\ PowerState' = TRUE /\ batteryLowShutdown' = FALSE
          /\ POWER(TRUE)
          /\ Goto("leds")
    /\ UNCHANGED <<readings, voltage, forceShutdown, recycleDetected, led, sig, outside, held>>

\* Slip: a release does not end the force.
ForcedAnyway == forceShutdown

StillForced == forceShutdown /\ (elapsed <= ForcedWait => pressed)

\* A round of the shutdown's loop: the button is looked at until ForcedWait
\* has passed, the Pi after ShutoffTriggerDelay.
ShutdownWait ==
    /\ pc = "shutdownWait"
    /\ \/ /\ elapsed < RecycleTime
          /\ elapsed >= ForcedWait /\ StillForced
          /\ PowerState' = FALSE /\ POWER(FALSE)
          /\ Goto("lastChance") /\ led' = "off"
          /\ UNCHANGED <<age, held, forceShutdown>>
       \/ /\ elapsed < RecycleTime
          /\ ~(elapsed >= ForcedWait /\ StillForced)
          /\ elapsed > ShutoffTriggerDelay /\ ~BOOTOK
          /\ PowerState' = FALSE
          /\ Goto("finalDelay") /\ led' = "off"
          /\ UNCHANGED <<age, held, forceShutdown, pi, stale>>
       \/ /\ elapsed < RecycleTime
          /\ ~(elapsed >= ForcedWait /\ StillForced)
          /\ ~(elapsed > ShutoffTriggerDelay /\ ~BOOTOK)
          /\ forceShutdown' = StillForced
          /\ \E d \in Rounds : Waits(d) /\ (prompt /\ BOOTOK => elapsed + d <= HaltsWithin)
          /\ UNCHANGED <<PowerState, pc, led, pi, stale>>
       \/ /\ elapsed >= RecycleTime
          /\ Goto("lastChance")
          /\ UNCHANGED <<PowerState, age, held, forceShutdown, led, pi, stale>>
    /\ UNCHANGED <<lastValidReading, voltage, batteryLowShutdown, recycleDetected, sig, outside>>

FinalDelay ==
    /\ pc = "finalDelay"
    /\ \/ /\ elapsed < ShutdownFinalDelay
          /\ \E d \in Rounds : Waits(d)
          /\ UNCHANGED <<pc, pi, stale>>
       \/ /\ elapsed >= ShutdownFinalDelay
          /\ POWER(PowerState)
          /\ Goto("lastChance")
          /\ UNCHANGED <<age, held>>
    /\ UNCHANGED <<PowerState, lastValidReading, voltage, batteryLowShutdown, forceShutdown,
                   recycleDetected, led, sig, outside>>

LastChance ==
    /\ pc = "lastChance"
    /\ IF PowerState /\ pressed
       THEN PowerState' = FALSE /\ POWER(FALSE)
       ELSE UNCHANGED <<PowerState, pi, stale>>
    /\ sig' = FALSE
    /\ Goto("leds")
    /\ UNCHANGED <<readings, voltage, batteryLowShutdown, forceShutdown, recycleDetected, led,
                   outside, held>>

ForcedShutdown ==
    /\ pc = "forced"
    /\ \/ /\ ~pressed
          /\ Goto("leds")
          /\ UNCHANGED <<PowerState, age, held, pi, stale>>
       \/ /\ pressed /\ elapsed <= ForcedWait
          /\ \E d \in Rounds : Waits(d)
          /\ UNCHANGED <<PowerState, pc, pi, stale>>
       \/ /\ pressed /\ elapsed > ForcedWait
          /\ PowerState' = FALSE /\ POWER(FALSE)
          /\ Goto("leds")
          /\ UNCHANGED <<age, held>>
    /\ UNCHANGED <<lastValidReading, voltage, batteryLowShutdown, forceShutdown,
                   recycleDetected, led, sig, outside>>

\* Slip: the LED is not switched off.
ColourKept == IF PowerState THEN "green" ELSE led

Colour == IF PowerState THEN "green" ELSE "off"

ShowPower ==
    /\ pc = "leds"
    /\ led' = Colour
    /\ pc' = "rest"
    /\ UNCHANGED <<PowerState, readings, voltage, batteryLowShutdown, waits, sig, outside,
                   held, pi, stale>>

\* The rest of loop(); the battery is read once in a while.
RestOfLoop ==
    /\ pc = "rest"
    /\ voltage' \in {"low", "fair", "charged"}
    /\ \E d \in Rounds : Ages(d)
    /\ pc' = "top" /\ elapsed' = 0
    /\ UNCHANGED <<PowerState, lastValidReading, batteryLowShutdown, forceShutdown,
                   recycleDetected, led, sig, outside, pi, stale>>

-----------------------------------------------------------------------------
(***************************************************************************)
(* Around the sketch: a person, the Pi, a reset of the board.              *)
(***************************************************************************)
sketch == <<PowerState, readings, voltage, batteryLowShutdown, pc, waits, led, sig>>

\* While a press is measured, a release lasts until a round reads it.
Measuring == \/ pc \in {"resetHold", "shutdownHold", "ask", "unbooted", "forced"}
             \/ pc = "shutdownWait" /\ forceShutdown

Press ==
    /\ ~pressed /\ ~Measuring
    /\ pressed' = TRUE /\ held' = 0
    /\ UNCHANGED <<sketch, prompt, pi, stale>>

Release ==
    /\ pressed
    /\ pressed' = FALSE
    /\ UNCHANGED <<sketch, prompt, held, pi, stale>>

PiGoes(from, to) ==
    /\ pi = from /\ pi' = to
    /\ UNCHANGED <<sketch, outside, held, stale>>

PiBoots   == PiGoes("booting", "up")
PiReboots == pc = "reboot" /\ PiGoes("up", "booting")
PiObeys   == pc = "shutdownWait" /\ sig /\ PiGoes("up", "halting")
PiHalts   == PiGoes("halting", "halted")

\* The board restarts with its variables as at first; the latch keeps the Pi
\* as it is.
Restart ==
    /\ PowerState' = FALSE
    /\ lastValidReading' = FALSE /\ age' \in {Debounce, Debounce + 1}
    /\ voltage' \in {"low", "fair", "charged"} /\ batteryLowShutdown' = FALSE
    /\ Goto("top") /\ forceShutdown' = FALSE /\ recycleDetected' = FALSE
    /\ led' = "off" /\ sig' = FALSE
    /\ stale' = Powered
    /\ UNCHANGED <<outside, held, pi>>

Program ==
    \/ HandlePowerControl \/ ResetHold \/ ShutdownHold \/ ResetPulse \/ RebootWait
    \/ AskPi \/ Unbooted \/ ShutdownWait \/ FinalDelay \/ LastChance
    \/ ForcedShutdown \/ ShowPower \/ RestOfLoop

Next == \/ Program \/ Press \/ Release \/ PiBoots \/ PiReboots \/ PiObeys \/ PiHalts
        \/ Restart

\* The sketch runs, the Pi boots; only a prompt Pi is known to obey.
Fairness ==
    /\ WF_vars(Program)
    /\ WF_vars(PiBoots)
    /\ WF_vars(prompt /\ PiObeys)
    /\ WF_vars(prompt /\ PiHalts)

Spec == Init /\ [][Next]_vars /\ Fairness

-----------------------------------------------------------------------------
\* Whenever loop() starts, PowerState is what the latch was last told, unless
\* the board restarted under a running Pi: every path through the handler that
\* changes one changes the other.
LatchKnown == pc = "top" /\ ~stale => PowerState = Powered

\* Once the release of the button has been accepted, its LED tells PowerState,
\* whichever of the early returns the handler took before.
LedTruth ==
    pc = "top" /\ ~lastValidReading => led = (IF PowerState THEN "green" ELSE "off")

\* Power is cut only from a Pi that has halted, or after the button was held
\* for ForcedWait at least, or, if the Pi is up and has been asked for
\* RecycleTime to go down, when the button is pressed at the end.
CutSafely ==
    [][Powered /\ ~Powered' => \/ pi = "halted"
                               \/ held >= ForcedWait
                               \/ pc = "lastChance" /\ BOOTOK /\ pressed]_vars

\* The Pi is asked to shut down only after a press of SHUTDOWNHOLDTIME, or
\* for a low battery.
AskedOnPurpose ==
    [][pc = "ask" /\ sig' /\ ~sig => batteryLow \/ held >= SHUTDOWNHOLDTIME]_vars

\* With a low battery a Pi that obeys in time loses power, or the battery
\* recovers, or the board restarts.
LowBatteryOff ==
    (prompt /\ PowerState /\ batteryLow /\ pi \in {"booting", "up"})
        ~> (~Powered \/ ~batteryLow \/ stale)

\* Every wait of the handler ends: loop() goes on whatever the Pi and the
\* person at the button do.
LoopGoesOn == []<>(pc = "top")
=============================================================================
