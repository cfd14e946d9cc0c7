-------------------------- MODULE MightyHatProofs --------------------------
(***************************************************************************)
(* What is true of the MightyHat sketch.                                   *)
(*                                                                         *)
(* PowerControl: what the sketch knows of the latch, what its LED says,    *)
(* when it asks the Pi to go down and when it cuts the power, for all      *)
(* times that the sketch's constants may have and all lengths of a round.  *)
(*                                                                         *)
(* Gateway: the counter is the length of the list and the promises are in  *)
(* the list, for any nodes and commands, any memory that a byte can count, *)
(* and any lines of the host, however many requests one of them voids.     *)
(* Each turn of the walk that takes requests out counts what it frees, and *)
(* frees only what is voided; the memory is full before a byte wraps.      *)
(***************************************************************************)
EXTENDS PowerControl, Gateway, SequenceTheorems, WellFoundedInduction, TLAPS

-----------------------------------------------------------------------------
\* The handler of the power button.

Measured == {"resetHold", "shutdownHold", "pulse", "reboot"}
HeldFor(time, most) == held >= time \/ held >= most

\* The inductive invariant, by the loop that the sketch is in.  Latch: PowerState
\* leaves the latch behind only while the Pi is given time to halt.
Latch == /\ ~stale /\ pc # "finalDelay" => PowerState = Powered
         /\ pc = "finalDelay" => ~PowerState

\* The LED is another than PowerState's only on the way to "leds" or while the
\* accepted press lasts.
Led == /\ pc \in Measured => lastValidReading
       /\ pc \in {"top", "rest"} /\ ~lastValidReading => led = Colour

\* The press has lasted as long as the loop that measures it.
Held ==
    /\ pc \in {"resetHold", "shutdownHold"} => HeldFor(elapsed, SHUTDOWNHOLDTIME)
    /\ pc = "ask" => batteryLow \/ ~PowerState \/ held >= SHUTDOWNHOLDTIME
    /\ pc = "forced" => HeldFor(elapsed, ForcedWait)
    /\ pc = "shutdownWait" /\ forceShutdown => HeldFor(elapsed, ForcedWait)

\* A Pi that was asked while it was up does not boot again before it is cut off.
Asked ==
    /\ pc = "shutdownWait" => pi \in {"up", "halting", "halted"}
    /\ pc = "finalDelay" => pi = "halted"
    /\ pc = "lastChance" /\ PowerState => pi \in {"up", "halting", "halted"}

PowerInv == PowerTypeOK /\ Latch /\ Led /\ Held /\ Asked

\* The types, by kind: what a step assigns to each kind differs.
Flags == /\ PowerState \in BOOLEAN /\ lastValidReading \in BOOLEAN
         /\ batteryLowShutdown \in BOOLEAN /\ forceShutdown \in BOOLEAN
         /\ recycleDetected \in BOOLEAN /\ sig \in BOOLEAN /\ pressed \in BOOLEAN
         /\ prompt \in BOOLEAN /\ stale \in BOOLEAN
Times == /\ age \in 0 .. Debounce + 1 /\ elapsed \in 0 .. RecycleTime + MaxStep
         /\ held \in 0 .. ForcedShutoffDelay
Names == /\ voltage \in {"low", "fair", "charged"}
         /\ pc \in {"top", "resetHold", "shutdownHold", "pulse", "reboot", "ask", "unbooted",
                    "shutdownWait", "finalDelay", "lastChance", "forced", "leds", "rest"}
         /\ led \in {"green", "orange", "off"}
         /\ pi \in {"off", "booting", "up", "halting", "halted"}

\* Every round of every waiting loop of the handler keeps the invariant.
LEMMA PowerInvariant == Spec => []PowerInv
\* What the steps need of the constants.
<1>nat. /\ RESETHOLDTIME \in Nat /\ RESETPULSETIME \in Nat /\ SHUTDOWNHOLDTIME \in Nat
        /\ ShutoffTriggerDelay \in Nat /\ ShutdownFinalDelay \in Nat /\ RecycleTime \in Nat
        /\ ForcedShutoffDelay \in Nat /\ Debounce \in Nat /\ MaxStep \in Nat
        /\ RESETHOLDTIME < RecycleTime /\ RESETPULSETIME < RecycleTime
        /\ SHUTDOWNHOLDTIME < RecycleTime /\ ShutdownFinalDelay < RecycleTime
        /\ ForcedWait \in Nat /\ ForcedWait > 0 /\ ForcedWait < RecycleTime
        /\ ForcedWait < ForcedShutoffDelay \/ SHUTDOWNHOLDTIME = 0
        /\ SHUTDOWNHOLDTIME < ForcedShutoffDelay
  BY TimesAssumption, StepAssumption DEF TimesAssumption, StepAssumption, ForcedWait
<1>flags. Flags /\ [Next]_vars => Flags'
  <2> SUFFICES ASSUME Flags, [Next]_vars PROVE Flags'
    OBVIOUS
  <2> USE DEF Flags, Goto, readings, outside, POWER
  <2>1. CASE HandlePowerControl
    BY <2>1 DEF HandlePowerControl, Reading
  <2>2. CASE ResetHold
    BY <2>2 DEF ResetHold
  <2>3. CASE ShutdownHold
    <3>1. BOOTOK \in BOOLEAN
      BY DEF BOOTOK
    <3> QED
      BY <2>3, <3>1 DEF ShutdownHold
  <2>4. CASE ResetPulse
    BY <2>4 DEF ResetPulse
  <2>5. CASE RebootWait
    BY <2>5 DEF RebootWait, BOOTOK
  <2>6. CASE AskPi
    BY <2>6 DEF AskPi, batteryLow
  <2>7. CASE Unbooted
    BY <2>7 DEF Unbooted
  <2>8. CASE ShutdownWait
    BY <2>8 DEF ShutdownWait, StillForced
  <2>9. CASE FinalDelay
    BY <2>9 DEF FinalDelay
  <2>10. CASE LastChance
    BY <2>10 DEF LastChance
  <2>11. CASE ForcedShutdown
    BY <2>11 DEF ForcedShutdown
  <2>12. CASE ShowPower
    BY <2>12 DEF ShowPower, waits
  <2>13. CASE RestOfLoop
    BY <2>13 DEF RestOfLoop
  <2>14. CASE Press \/ Release
    BY <2>14 DEF Press, Release, sketch, waits
  <2>15. CASE PiBoots \/ PiReboots \/ PiObeys \/ PiHalts
    BY <2>15 DEF PiBoots, PiReboots, PiObeys, PiHalts, PiGoes, sketch, waits
  <2>16. CASE Restart
    BY <2>16 DEF Restart, Powered
  <2>17. CASE UNCHANGED vars
    BY <2>17 DEF vars, waits
  <2> QED
    BY <2>1, <2>2, <2>3, <2>4, <2>5, <2>6, <2>7, <2>8, <2>9, <2>10, <2>11,
       <2>12, <2>13, <2>14, <2>15, <2>16, <2>17 DEF Next, Program
<1>times. Times /\ [Next]_vars => Times'
  <2> USE <1>nat
  <2> SUFFICES ASSUME Times, [Next]_vars PROVE Times'
    OBVIOUS
  <2> DEFINE Stopped == elapsed' = 0 /\ UNCHANGED <<age, held>>
  <2> DEFINE Round(most) == elapsed =< most /\ \E d \in Rounds : Waits(d)
  <2>a. Stopped => Times'
    BY DEF Times
  <2>b. ASSUME NEW most \in 0 .. RecycleTime, Round(most) PROVE Times'
    BY <2>b DEF Times, Rounds, UpTo, Ages, Waits
  <2> USE DEF Times, Goto, readings, outside, Rounds, UpTo, Ages, Waits
  <2>1. CASE HandlePowerControl
    BY <2>1 DEF HandlePowerControl
  <2>2. CASE ResetHold
    BY <2>2 DEF ResetHold
  <2>3. CASE ShutdownHold
    BY <2>3 DEF ShutdownHold
  <2>4. CASE ResetPulse
    BY <2>4 DEF ResetPulse
  <2>5. CASE RebootWait
    BY <2>5 DEF RebootWait
  <2>6. CASE AskPi
    BY <2>6 DEF AskPi
  <2>7. CASE Unbooted
    <3>1. Stopped
      BY <2>7, Zenon DEF Unbooted
    <3> QED
      BY <3>1, <2>a, Zenon
  <2>8. CASE ShutdownWait
    <3>1. Stopped \/ (elapsed < RecycleTime /\ \E d \in Rounds : Waits(d))
      BY <2>8, Zenon DEF ShutdownWait
    <3>2. Stopped \/ Round(RecycleTime)
      BY <3>1
    <3> QED
      BY <3>2, <2>a, <2>b
  <2>9. CASE FinalDelay
    BY <2>9 DEF FinalDelay
  <2>10. CASE LastChance
    BY <2>10 DEF LastChance
  <2>11. CASE ForcedShutdown
    <3>1. Stopped \/ Round(ForcedWait)
      BY <2>11, Zenon DEF ForcedShutdown
    <3> QED
      BY <3>1, <2>a, <2>b
  <2>12. CASE ShowPower
    BY <2>12 DEF ShowPower, waits
  <2>13. CASE RestOfLoop
    BY <2>13 DEF RestOfLoop
  <2>14. CASE Press \/ Release
    BY <2>14 DEF Press, Release, sketch, waits
  <2>15. CASE PiBoots \/ PiReboots \/ PiObeys \/ PiHalts
    BY <2>15 DEF PiBoots, PiReboots, PiObeys, PiHalts, PiGoes, sketch, waits
  <2>16. CASE Restart
    BY <2>16 DEF Restart
  <2>17. CASE UNCHANGED vars
    BY <2>17 DEF vars, waits
  <2> QED
    BY <2>1, <2>2, <2>3, <2>4, <2>5, <2>6, <2>7, <2>8, <2>9, <2>10, <2>11,
       <2>12, <2>13, <2>14, <2>15, <2>16, <2>17 DEF Next, Program
<1>names. Names /\ [Next]_vars => Names'
  <2> SUFFICES ASSUME Names, [Next]_vars PROVE Names'
    OBVIOUS
  <2> USE DEF Names, Goto, readings, outside, POWER
  <2>1. CASE HandlePowerControl
    BY <2>1 DEF HandlePowerControl
  <2>2. CASE ResetHold
    BY <2>2 DEF ResetHold
  <2>3. CASE ShutdownHold
    BY <2>3 DEF ShutdownHold
  <2>4. CASE ResetPulse
    BY <2>4 DEF ResetPulse
  <2>5. CASE RebootWait
    BY <2>5 DEF RebootWait
  <2>6. CASE AskPi
    BY <2>6 DEF AskPi
  <2>7. CASE Unbooted
    BY <2>7 DEF Unbooted
  <2>8. CASE ShutdownWait
    BY <2>8 DEF ShutdownWait
  <2>9. CASE FinalDelay
    BY <2>9 DEF FinalDelay
  <2>10. CASE LastChance
    BY <2>10 DEF LastChance
  <2>11. CASE ForcedShutdown
    BY <2>11 DEF ForcedShutdown
  <2>12. CASE ShowPower
    BY <2>12 DEF ShowPower, Colour, waits
  <2>13. CASE RestOfLoop
    BY <2>13 DEF RestOfLoop
  <2>14. CASE Press \/ Release
    BY <2>14 DEF Press, Release, sketch, waits
  <2>15. CASE PiBoots \/ PiReboots \/ PiObeys \/ PiHalts
    BY <2>15 DEF PiBoots, PiReboots, PiObeys, PiHalts, PiGoes, sketch, waits
  <2>16. CASE Restart
    BY <2>16 DEF Restart
  <2>17. CASE UNCHANGED vars
    BY <2>17 DEF vars, waits
  <2> QED
    BY <2>1, <2>2, <2>3, <2>4, <2>5, <2>6, <2>7, <2>8, <2>9, <2>10, <2>11,
       <2>12, <2>13, <2>14, <2>15, <2>16, <2>17 DEF Next, Program
\* The latch is switched where PowerState is.
<1>latch. PowerTypeOK /\ Latch /\ [Next]_vars => Latch'
  <2> SUFFICES ASSUME PowerTypeOK, Latch, [Next]_vars PROVE Latch'
    OBVIOUS
  <2> USE DEF PowerTypeOK, Latch, Powered, POWER, Goto
  <2>1. CASE HandlePowerControl \/ ResetHold \/ ShutdownHold \/ ResetPulse \/ RebootWait \/ AskPi
    BY <2>1 DEF HandlePowerControl, ResetHold, ShutdownHold, ResetPulse, RebootWait, AskPi
  <2>2. CASE Unbooted \/ ForcedShutdown \/ LastChance
    BY <2>2 DEF Unbooted, ForcedShutdown, LastChance
  <2>3. CASE ShutdownWait \/ FinalDelay
    <3>1. CASE ShutdownWait
      BY <3>1, Zenon DEF ShutdownWait
    <3>2. CASE FinalDelay
      BY <3>2, Zenon DEF FinalDelay
    <3> QED
      BY <2>3, <3>1, <3>2
  <2>4. CASE ShowPower \/ RestOfLoop \/ Press \/ Release
    BY <2>4 DEF ShowPower, RestOfLoop, Press, Release, sketch
  <2>5. CASE PiBoots \/ PiReboots \/ PiObeys \/ PiHalts
    BY <2>5 DEF PiBoots, PiReboots, PiObeys, PiHalts, PiGoes, sketch
  <2>6. CASE Restart
    BY <2>6 DEF Restart
  <2>7. CASE UNCHANGED vars
    BY <2>7 DEF vars
  <2> HIDE DEF PowerTypeOK, Latch, Powered, POWER, Goto
  <2> QED
    BY <2>1, <2>2, <2>3, <2>4, <2>5, <2>6, <2>7 DEF Next, Program
<1>led. PowerTypeOK /\ Led /\ [Next]_vars => Led'
  <2> SUFFICES ASSUME PowerTypeOK, Led, [Next]_vars PROVE Led'
    OBVIOUS
  <2> USE DEF PowerTypeOK, Led, Measured, Colour, Goto
  <2>1. CASE HandlePowerControl
    <3>1. CASE Accepted
      <4>1. Acts /\ Measures => Reading
        BY Zenon DEF Acts, Measures
      <4>2. lastValidReading' = Reading /\ pc' \in {"leds", "resetHold", "ask"}
            /\ (pc' = "resetHold" => Acts /\ Measures)
        BY <2>1, <3>1 DEF HandlePowerControl
      <4> QED
        BY <4>1, <4>2
    <3>2. CASE ~Accepted
      BY <2>1, <3>2 DEF HandlePowerControl, readings
    <3> QED
      BY <3>1, <3>2
  <2>2. CASE ResetHold \/ ShutdownHold \/ ResetPulse \/ RebootWait \/ AskPi
    BY <2>2 DEF ResetHold, ShutdownHold, ResetPulse, RebootWait, AskPi, readings
  <2>3. CASE Unbooted \/ ShutdownWait \/ FinalDelay \/ LastChance \/ ForcedShutdown
    BY <2>3 DEF Unbooted, ShutdownWait, FinalDelay, LastChance, ForcedShutdown
  <2>4. CASE ShowPower \/ RestOfLoop \/ Press \/ Release
    BY <2>4 DEF ShowPower, RestOfLoop, Press, Release, sketch, readings
  <2>5. CASE PiBoots \/ PiReboots \/ PiObeys \/ PiHalts
    BY <2>5 DEF PiBoots, PiReboots, PiObeys, PiHalts, PiGoes, sketch, readings
  <2>6. CASE Restart
    BY <2>6 DEF Restart
  <2>7. CASE UNCHANGED vars
    BY <2>7 DEF vars, readings
  <2> HIDE DEF PowerTypeOK, Led, Measured, Colour, Goto
  <2> QED
    BY <2>1, <2>2, <2>3, <2>4, <2>5, <2>6, <2>7 DEF Next, Program
<1>held. PowerTypeOK /\ Held /\ [Next]_vars => Held'
  <2> USE <1>nat
  <2> SUFFICES ASSUME PowerTypeOK, Held, [Next]_vars PROVE Held'
    OBVIOUS
  \* A round with the button down, or after the wait for it, keeps HeldFor.
  <2>0. ASSUME NEW most \in 0 .. ForcedShutoffDelay, HeldFor(elapsed, most),
               NEW d \in Rounds, Waits(d), pressed \/ elapsed >= most
        PROVE  held' >= elapsed' \/ held' >= most
    <3>1. held \in Nat /\ elapsed \in Nat /\ d \in Nat /\ most \in Nat
      BY DEF PowerTypeOK, Rounds
    <3>2. elapsed' = elapsed + d
          /\ held' = IF pressed THEN UpTo(held + d, ForcedShutoffDelay) ELSE held
      BY <2>0 DEF Waits, Ages
    <3> QED
      BY <2>0, <3>1, <3>2 DEF HeldFor, UpTo
  <2> USE DEF PowerTypeOK, Held, HeldFor, ForcedWait, Goto, batteryLow, Rounds, Waits, Ages, UpTo
  <2>1. CASE HandlePowerControl
    BY <2>1 DEF HandlePowerControl, Measures
  <2>2. CASE ResetHold
    BY <2>2 DEF ResetHold
  <2>3. CASE ShutdownHold
    BY <2>3 DEF ShutdownHold
  <2>4. CASE ResetPulse \/ RebootWait
    BY <2>4 DEF ResetPulse, RebootWait
  <2>5. CASE AskPi \/ Unbooted
    <3>1. CASE AskPi
      <4>1. pc' \in {"shutdownWait", "unbooted"} /\ elapsed' = 0 /\ held' = held
        BY <3>1, Zenon DEF AskPi
      <4> QED
        BY <4>1
    <3>2. CASE Unbooted
      <4>1. pc' \in {"forced", "leds"} /\ elapsed' = 0 /\ held' = held
        BY <3>2, Zenon DEF Unbooted
      <4> QED
        BY <4>1
    <3> QED
      BY <2>5, <3>1, <3>2
  <2>6. CASE ShutdownWait
    <3>1. CASE pc' = "shutdownWait" /\ forceShutdown'
      <4>1. PICK d \in Rounds : Waits(d)
        BY <2>6, <3>1 DEF ShutdownWait
      <4>2. pc = "shutdownWait" /\ forceShutdown /\ (elapsed <= ForcedWait => pressed)
        BY <2>6, <3>1 DEF ShutdownWait, StillForced
      <4>3. held' >= elapsed' \/ held' >= ForcedWait
        BY <4>1, <4>2, <2>0
      <4> QED
        BY <3>1, <4>3
    <3>2. CASE ~(pc' = "shutdownWait" /\ forceShutdown')
      <4>1. pc' \in {"shutdownWait", "lastChance", "finalDelay"}
        BY <2>6, Zenon DEF ShutdownWait
      <4> QED
        BY <3>2, <4>1
    <3> QED
      BY <3>1, <3>2
  <2>7. CASE ForcedShutdown
    <3>1. CASE pc' = "forced"
      <4>1. PICK d \in Rounds : Waits(d) /\ pressed
        BY <2>7, <3>1 DEF ForcedShutdown
      <4>2. held' >= elapsed' \/ held' >= ForcedWait
        BY <2>7, <4>1, <2>0 DEF ForcedShutdown
      <4> QED
        BY <3>1, <4>2
    <3>2. CASE pc' # "forced"
      <4>1. pc' = "leds"
        BY <2>7, <3>2, Zenon DEF ForcedShutdown
      <4> QED
        BY <4>1
    <3> QED
      BY <3>1, <3>2
  <2>8. CASE FinalDelay \/ LastChance \/ ShowPower \/ RestOfLoop
    BY <2>8 DEF FinalDelay, LastChance, ShowPower, RestOfLoop
  <2>9. CASE Press
    BY <2>9 DEF Press, Measuring, sketch, waits
  <2>10. CASE Release \/ PiBoots \/ PiReboots \/ PiObeys \/ PiHalts
    BY <2>10 DEF Release, PiBoots, PiReboots, PiObeys, PiHalts, PiGoes, sketch, waits
  <2>11. CASE Restart
    BY <2>11 DEF Restart
  <2>12. CASE UNCHANGED vars
    BY <2>12 DEF vars, waits
  <2> HIDE DEF PowerTypeOK, Held, HeldFor, ForcedWait, Goto, batteryLow, Rounds, Waits, Ages, UpTo
  <2> QED
    BY <2>1, <2>2, <2>3, <2>4, <2>5, <2>6, <2>7, <2>8, <2>9, <2>10, <2>11, <2>12 DEF Next, Program
<1>asked. PowerTypeOK /\ Asked /\ [Next]_vars => Asked'
  <2> SUFFICES ASSUME PowerTypeOK, Asked, [Next]_vars PROVE Asked'
    OBVIOUS
  <2> USE DEF PowerTypeOK, Asked, Goto, BOOTOK, POWER
  <2>1. CASE HandlePowerControl \/ ResetHold \/ ShutdownHold \/ ResetPulse \/ RebootWait \/ AskPi
    BY <2>1 DEF HandlePowerControl, ResetHold, ShutdownHold, ResetPulse, RebootWait, AskPi
  <2>2. CASE Unbooted \/ ForcedShutdown
    BY <2>2 DEF Unbooted, ForcedShutdown
  <2>3. CASE ShutdownWait
    BY <2>3 DEF ShutdownWait
  <2>4. CASE FinalDelay \/ LastChance
    BY <2>4 DEF FinalDelay, LastChance
  <2>5. CASE ShowPower \/ RestOfLoop \/ Press \/ Release
    BY <2>5 DEF ShowPower, RestOfLoop, Press, Release, sketch
  <2>6. CASE PiBoots \/ PiReboots \/ PiObeys \/ PiHalts
    BY <2>6 DEF PiBoots, PiReboots, PiObeys, PiHalts, PiGoes, sketch
  <2>7. CASE Restart
    BY <2>7 DEF Restart
  <2>8. CASE UNCHANGED vars
    BY <2>8 DEF vars
  <2> HIDE DEF PowerTypeOK, Asked, Goto, BOOTOK, POWER
  <2> QED
    BY <2>1, <2>2, <2>3, <2>4, <2>5, <2>6, <2>7, <2>8 DEF Next, Program
<1>1. Init => PowerInv
  <2> SUFFICES ASSUME Init PROVE PowerInv
    OBVIOUS
  <2>1. Flags
    BY Zenon DEF Init, Flags
  <2>2. Times
    BY <1>nat DEF Init, Times
  <2>3. Names
    BY DEF Init, Names
  <2>4. Latch /\ Led /\ Held /\ Asked
    BY DEF Init, Latch, Led, Held, Asked, Measured, Colour, Powered
  <2> QED
    BY <2>1, <2>2, <2>3, <2>4 DEF PowerInv, PowerTypeOK, Flags, Times, Names
<1>2. PowerTypeOK /\ [Next]_vars => PowerTypeOK'
  BY <1>flags, <1>times, <1>names DEF PowerTypeOK, Flags, Times, Names
<1>3. PowerInv /\ [Next]_vars => PowerInv'
  BY <1>2, <1>latch, <1>led, <1>held, <1>asked DEF PowerInv
<1> QED
  BY <1>1, <1>3, PTL DEF Spec

\* Whenever loop() starts, PowerState is what the latch was last told, unless
\* the board restarted under a running Pi.
THEOREM LatchIsKnown == Spec => []LatchKnown
<1>1. PowerInv => LatchKnown
  BY DEF PowerInv, Latch, LatchKnown
<1> QED
  BY <1>1, PowerInvariant, PTL

\* With the button's release accepted, its LED tells PowerState.
THEOREM LedIsTrue == Spec => []LedTruth
<1>1. PowerInv => LedTruth
  BY DEF PowerInv, Led, LedTruth, Colour
<1> QED
  BY <1>1, PowerInvariant, PTL

\* Power is cut from a halted Pi, after a press of ForcedWait, or by a press at
\* the end of RecycleTime.
THEOREM CutsSafely == Spec => CutSafely
<1>1. PowerInv /\ [Next]_vars =>
        (Powered /\ ~Powered' => \/ pi = "halted" \/ held >= ForcedWait
                                 \/ pc = "lastChance" /\ BOOTOK /\ pressed)
  <2> USE TimesAssumption DEF TimesAssumption
  <2> SUFFICES ASSUME PowerInv, [Next]_vars, Powered, ~Powered'
               PROVE  \/ pi = "halted" \/ held >= ForcedWait
                      \/ pc = "lastChance" /\ BOOTOK /\ pressed
    OBVIOUS
  <2> USE DEF PowerInv, PowerTypeOK, Held, HeldFor, Asked, Powered, ForcedWait, BOOTOK, POWER
  <2>1. CASE HandlePowerControl \/ ResetHold \/ ShutdownHold \/ ResetPulse \/ RebootWait \/ AskPi
    BY <2>1 DEF HandlePowerControl, ResetHold, ShutdownHold, ResetPulse, RebootWait, AskPi
  <2>2. CASE Unbooted
    BY <2>2 DEF Unbooted
  <2>3. CASE ShutdownWait
    BY <2>3 DEF ShutdownWait, StillForced
  <2>4. CASE FinalDelay \/ LastChance
    BY <2>4 DEF FinalDelay, LastChance
  <2>5. CASE ForcedShutdown
    BY <2>5 DEF ForcedShutdown
  <2>6. CASE ShowPower \/ RestOfLoop \/ Press \/ Release \/ Restart
    BY <2>6 DEF ShowPower, RestOfLoop, Press, Release, Restart
  <2>7. CASE PiBoots \/ PiReboots \/ PiObeys \/ PiHalts
    BY <2>7 DEF PiBoots, PiReboots, PiObeys, PiHalts, PiGoes
  <2>8. CASE UNCHANGED vars
    BY <2>8 DEF vars
  <2> HIDE DEF PowerInv, PowerTypeOK, Held, HeldFor, Asked, Powered, ForcedWait, BOOTOK, POWER
  <2> QED
    BY <2>1, <2>2, <2>3, <2>4, <2>5, <2>6, <2>7, <2>8 DEF Next, Program
<1> QED
  BY <1>1, PowerInvariant, PTL DEF Spec, CutSafely

\* The Pi is asked to shut down for a press of SHUTDOWNHOLDTIME or a low battery.
THEOREM AsksOnPurpose == Spec => AskedOnPurpose
<1>1. PowerInv /\ [Next]_vars =>
        (pc = "ask" /\ sig' /\ ~sig => batteryLow \/ held >= SHUTDOWNHOLDTIME)
  <2> SUFFICES ASSUME PowerInv, [Next]_vars, pc = "ask", sig', ~sig
               PROVE  batteryLow \/ held >= SHUTDOWNHOLDTIME
    OBVIOUS
  <2>1. CASE AskPi
    BY <2>1 DEF PowerInv, Held, AskPi
  <2>2. CASE ~AskPi
    BY <2>2 DEF Next, Program, HandlePowerControl, ResetHold, ShutdownHold, ResetPulse, RebootWait,
       Unbooted, ShutdownWait, FinalDelay, LastChance, ForcedShutdown, ShowPower, RestOfLoop,
       Press, Release, Restart, PiBoots, PiReboots, PiObeys, PiHalts, PiGoes, sketch, vars
  <2> QED
    BY <2>1, <2>2
<1> QED
  BY <1>1, PowerInvariant, PTL DEF Spec, AskedOnPurpose

-----------------------------------------------------------------------------
\* The requests kept for sleeping nodes.

GatewayInv ==
    /\ queue \in Seq(REQUEST) /\ Len(queue) <= Capacity
    /\ SizeTruth
    /\ PromiseKept

-----------------------------------------------------------------------------
\* The counter, the list and the promises agree, line by line and packet by packet.
LEMMA GatewayInvariant == GatewaySpec => []GatewayInv
\* A byte that can hold the capacity can hold every length.
<1>byte. ASSUME NEW n \in 0 .. Capacity
         PROVE  n % Byte = n /\ (n + Byte) % Byte = n
  BY <1>byte, BoundsAssumption DEF BoundsAssumption
\* Whatever holds of 0, and of m + 1 if of m, holds of each length.
<1>induct. ASSUME NEW S \in SUBSET Nat, 0 \in S, \A m \in S : m + 1 \in S
           PROVE  S = Nat
  <2> SUFFICES ASSUME Nat \ S # {} PROVE FALSE
    BY <1>induct
  <2> DEFINE R == {ss \in Nat \X Nat : ss[1] < ss[2]}
  <2>1. PICK m \in Nat \ S : \A k \in Nat \ S : ~(<<k, m>> \in R)
    <3>1. IsWellFoundedOn(R, Nat)
      BY NatLessThanWellFounded DEF OpToRel
    <3> HIDE DEF R
    <3>2. QED
      BY <3>1, WFMin
  <2>2. m # 0 /\ m - 1 \in Nat /\ m - 1 < m /\ (m - 1) + 1 = m
    BY <1>induct
  <2>3. m - 1 \in S
    BY <2>1, <2>2
  <2>4. QED
    BY <1>induct, <2>2, <2>3
\* A list without one of its requests.
<1>without. ASSUME NEW list \in Seq(REQUEST), NEW short \in Seq(REQUEST),
                   NEW aux \in 1 .. Len(list), Len(short) = Len(list) - 1,
                   \A j \in 1 .. aux - 1 : short[j] = list[j],
                   \A j \in aux .. Len(short) : short[j] = list[j + 1]
            PROVE  Range(list) \ {list[aux]} \subseteq Range(short)
  <2> SUFFICES ASSUME NEW j \in 1 .. Len(list), j # aux PROVE list[j] \in Range(short)
    BY DEF Range
  <2>1. DOMAIN short = 1 .. Len(short) /\ Len(list) \in Nat /\ Len(short) \in Nat
    OBVIOUS
  <2>2. CASE j < aux
    <3>1. j \in DOMAIN short /\ short[j] = list[j]
      BY <1>without, <2>1, <2>2
    <3>2. QED
      BY <3>1 DEF Range
  <2>3. CASE j > aux
    <3>1. j - 1 \in DOMAIN short /\ short[j - 1] = list[(j - 1) + 1] /\ (j - 1) + 1 = j
      BY <1>without, <2>1, <2>3
    <3>2. QED
      BY <3>1 DEF Range
  <2>4. QED
    BY <2>2, <2>3
\* A walk counts what it frees, and frees only what is voided.
<1>walk. ASSUME queue \in Seq(REQUEST), Len(queue) <= Capacity, NEW voided
         PROVE  LET walk == Walk(voided) IN
                /\ walk.list \in Seq(REQUEST) /\ walk.removed \in Nat
                /\ Len(walk.list) + walk.removed = Len(queue)
                /\ Range(queue) \ voided \subseteq Range(walk.list)
  <2> USE <1>walk
  <2> DEFINE n == Len(queue)
             Start == [list |-> queue, aux |-> 1, removed |-> 0]
             Walked(g, m) == [i \in 0 .. m |-> IF i = 0 THEN Start ELSE Turn(g[i - 1], voided)]
  <2>0. n \in Nat /\ n \in 0 .. Capacity /\ Capacity \in Nat
    BY BoundsAssumption DEF BoundsAssumption
  \* The walk is defined up to every turn.
  <2>1. \E g : g = Walked(g, n)
    <3> HIDE DEF Start
    <3> DEFINE S == {m \in Nat : \E g : g = Walked(g, m)}
    <3>1. 0 \in S
      <4>1. [i \in 0 .. 0 |-> Start] = Walked([i \in 0 .. 0 |-> Start], 0)
        OBVIOUS
      <4>2. QED
        BY <4>1
    <3>2. ASSUME NEW m \in S PROVE m + 1 \in S
      <4>1. PICK g : g = Walked(g, m)
        BY <3>2
      <4> DEFINE last == Turn(g[m], voided)
                 h == [i \in 0 .. m + 1 |-> IF i = m + 1 THEN last ELSE g[i]]
      <4> HIDE DEF last
      <4>2. \A i \in 0 .. m : h[i] = g[i]
        OBVIOUS
      <4>3. ASSUME NEW i \in 0 .. m + 1 PROVE h[i] = Walked(h, m + 1)[i]
        <5>1. CASE i = m + 1
          <6>1. h[i] = last /\ h[i - 1] = g[m] /\ i # 0
            BY <4>2, <5>1
          <6>2. Walked(h, m + 1)[i] = Turn(h[i - 1], voided)
            BY <6>1
          <6>3. QED
            BY <6>1, <6>2, Zenon DEF last
        <5>2. CASE i \in 0 .. m
          <6>1. h[i] = Walked(g, m)[i]
            BY <4>1, <4>2, <5>2
          <6>2. i = 0 \/ (i # 0 /\ h[i - 1] = g[i - 1])
            BY <4>2, <5>2
          <6>3. CASE i = 0
            BY <6>1, <6>3
          <6>4. CASE i # 0
            <7>1. /\ Walked(g, m)[i] = Turn(g[i - 1], voided)
                  /\ Walked(h, m + 1)[i] = Turn(h[i - 1], voided)
              BY <5>2, <6>4
            <7>2. QED
              BY <6>1, <6>2, <6>4, <7>1, Zenon
          <6>5. QED
            BY <6>3, <6>4
        <5>3. QED
          BY <5>1, <5>2
      <4>4. h = Walked(h, m + 1)
        BY <4>3
      <4> HIDE DEF h, Walked
      <4>5. \E f : f = Walked(f, m + 1)
        BY <4>4
      <4>6. QED
        BY <4>5
    <3>3. S = Nat
      <4> HIDE DEF S
      <4>1. S \in SUBSET Nat
        BY DEF S
      <4>2. QED
        BY <1>induct, <3>1, <3>2, <4>1
    <3>4. QED
      BY <2>0, <3>3
  <2>2. PICK g : g = Walked(g, n) /\ Walk(voided) = g[n]
    <3> DEFINE k == CHOOSE g : g = Walked(g, n)
    <3>1. k = Walked(k, n)
      BY <2>1
    <3>2. Walk(voided) = k[n]
      BY DEF Walk
    <3> HIDE DEF k
    <3>3. QED
      BY <3>1, <3>2
  \* What is true after m turns.
  <2> DEFINE Good(v, turns) ==
               /\ v = [list |-> v.list, aux |-> v.aux, removed |-> v.removed]
               /\ v.list \in Seq(REQUEST) /\ v.removed \in Nat /\ v.aux \in Nat \ {0}
               /\ Len(v.list) + v.removed = n
               /\ v.aux + v.removed = turns + 1
               /\ Range(queue) \ voided \subseteq Range(v.list)
             Right(m) == Good(g[m], m)
  <2>3. Right(0)
    <3>1. g[0] = Start
      BY <2>0, <2>2
    <3> HIDE DEF Walked
    <3>2. QED
      BY <2>0, <3>1
  <2>4. ASSUME NEW m \in Nat, m < n, Right(m) PROVE Right(m + 1)
    <3> DEFINE w == g[m]
               v == g[m + 1]
               list == w.list
               aux == w.aux
               removed == w.removed
    <3>1. v = Turn(w, voided)
      <4>1. m + 1 \in 0 .. n /\ m + 1 # 0 /\ (m + 1) - 1 = m
        BY <2>0, <2>4
      <4>2. v = Turn(g[(m + 1) - 1], voided)
        BY <2>2, <4>1
      <4>3. QED
        BY <4>1, <4>2
    <3>2. /\ w = [list |-> list, aux |-> aux, removed |-> removed]
          /\ list \in Seq(REQUEST) /\ removed \in Nat /\ aux \in Nat \ {0}
          /\ Len(list) \in Nat /\ Len(list) + removed = n /\ aux + removed = m + 1
          /\ Range(queue) \ voided \subseteq Range(list)
      BY <2>4
    <3> HIDE DEF Walked, w, v, list, aux, removed
    <3>3. aux \in 1 .. Len(list) /\ Len(list) >= 1 /\ DOMAIN list = 1 .. Len(list)
      BY <2>0, <2>4, <3>2
    <3>4. Counted(w) = removed + 1
      <4>1. removed + 1 \in 0 .. Capacity
        BY <2>0, <3>2, <3>3
      <4>2. (removed + 1) % Byte = removed + 1
        BY <1>byte, <4>1
      <4>3. QED
        BY <3>2, <4>2 DEF Counted, removed
    <3>5. CASE list[aux] \notin voided
      <4>1. v = [list |-> list, aux |-> aux + 1, removed |-> removed]
        BY <3>1, <3>2, <3>5 DEF Turn, list, aux, removed
      <4>2. v.list = list /\ v.aux = aux + 1 /\ v.removed = removed
        BY <4>1
      <4>3. Good(v, m + 1)
        BY <3>2, <4>1, <4>2
      <4>4. QED
        BY <4>3, Zenon DEF v
    <3>6. CASE list[aux] \in voided
      \* What each of the places that free leaves behind.
      <4>1. PICK short : /\ v = [list |-> short, aux |-> aux, removed |-> removed + 1]
                         /\ short \in Seq(REQUEST) /\ Len(short) = Len(list) - 1
                         /\ Range(list) \ {list[aux]} \subseteq Range(short)
        <5>1. CASE aux > 1
          <6> DEFINE short == RemoveAt(list, aux)
          <6>1. v = [list |-> short, aux |-> aux, removed |-> removed + 1]
            BY <3>1, <3>2, <3>4, <3>6, <5>1 DEF Turn, FreeInside, list, aux, removed
          <6>2. /\ short \in Seq(REQUEST) /\ Len(short) = Len(list) - 1
                /\ \A j \in 1 .. aux - 1 : short[j] = list[j]
                /\ \A j \in aux .. Len(short) : short[j] = list[j + 1]
            <7> DEFINE a == SubSeq(list, 1, aux - 1)
                       b == SubSeq(list, aux + 1, Len(list))
            <7>0. /\ Len(list) \in Nat /\ aux \in 1 .. Len(list) /\ aux - 1 \in Int /\ aux + 1 \in Int
                  /\ \A j \in 1 .. Len(list) : list[j] \in REQUEST
              BY <3>2, <3>3
            <7>1. /\ a \in Seq(REQUEST) /\ Len(a) = aux - 1
                  /\ \A j \in 1 .. aux - 1 : a[j] = list[j]
              <8>1. \A j \in 1 .. aux - 1 : list[j] \in REQUEST
                BY <7>0
              <8>2. /\ a \in Seq(REQUEST)
                    /\ Len(a) = IF 1 <= aux - 1 THEN aux - 1 - 1 + 1 ELSE 0
                    /\ \A j \in 1 .. aux - 1 - 1 + 1 : a[j] = list[1 + j - 1]
                BY <7>0, <8>1, SubSeqProperties
              <8> HIDE DEF a
              <8>3. \A j \in 1 .. aux - 1 : j \in 1 .. aux - 1 - 1 + 1 /\ 1 + j - 1 = j
                BY <7>0
              <8>4. \A j \in 1 .. aux - 1 : a[j] = list[j]
                BY <8>2, <8>3
              <8>5. QED
                BY <7>0, <8>2, <8>4
            <7>2. /\ b \in Seq(REQUEST) /\ Len(b) = Len(list) - aux
                  /\ \A j \in 1 .. Len(list) - aux : b[j] = list[aux + j]
              <8>1. \A j \in aux + 1 .. Len(list) : list[j] \in REQUEST
                BY <7>0
              <8>2. /\ b \in Seq(REQUEST)
                    /\ Len(b) = IF aux + 1 <= Len(list) THEN Len(list) - (aux + 1) + 1 ELSE 0
                    /\ \A j \in 1 .. Len(list) - (aux + 1) + 1 : b[j] = list[aux + 1 + j - 1]
                BY <7>0, <8>1, SubSeqProperties
              <8> HIDE DEF b
              <8>3. \A j \in 1 .. Len(list) - aux :
                        j \in 1 .. Len(list) - (aux + 1) + 1 /\ aux + 1 + j - 1 = aux + j
                BY <7>0
              <8>4. \A j \in 1 .. Len(list) - aux : b[j] = list[aux + j]
                BY <8>2, <8>3
              <8>5. QED
                BY <7>0, <8>2, <8>4
            <7>3. short = a \o b
              BY DEF RemoveAt
            <7> HIDE DEF a, b, short
            <7>4. /\ short \in Seq(REQUEST) /\ Len(short) = Len(a) + Len(b)
                  /\ \A j \in 1 .. Len(a) + Len(b) :
                         short[j] = IF j <= Len(a) THEN a[j] ELSE b[j - Len(a)]
              BY <7>1, <7>2, <7>3, ConcatProperties
            <7>5. Len(short) = Len(list) - 1
              BY <7>0, <7>1, <7>2, <7>4
            <7>6. ASSUME NEW j \in 1 .. aux - 1 PROVE short[j] = list[j]
              <8>1. j \in 1 .. Len(a) + Len(b) /\ j <= Len(a)
                BY <7>0, <7>1, <7>2
              <8>2. QED
                BY <7>1, <7>4, <8>1
            <7>7. ASSUME NEW j \in aux .. Len(short) PROVE short[j] = list[j + 1]
              <8>1. /\ j \in 1 .. Len(a) + Len(b) /\ ~(j <= Len(a))
                    /\ j - Len(a) \in 1 .. Len(list) - aux /\ aux + (j - Len(a)) = j + 1
                BY <7>0, <7>1, <7>2, <7>5
              <8>2. short[j] = b[j - Len(a)]
                BY <7>4, <8>1
              <8>3. QED
                BY <7>2, <8>1, <8>2
            <7>8. QED
              BY <7>4, <7>5, <7>6, <7>7
          <6> HIDE DEF short
          <6>3. QED
            BY <1>without, <3>2, <3>3, <6>1, <6>2
        <5>2. CASE aux = 1 /\ Len(list) = 1
          <6> DEFINE short == <<>>
          <6>1. v = [list |-> short, aux |-> aux, removed |-> removed + 1]
            <7>1. v = FreeOnly(w)
              <8>1. ~(aux > 1)
                BY <5>2
              <8>2. QED
                BY <3>1, <3>6, <5>2, <8>1, Zenon DEF Turn, list, aux
            <7>2. QED
              BY <3>4, <5>2, <7>1, Zenon DEF FreeOnly
          <6>2. Range(list) \ {list[aux]} = {}
            BY <3>3, <5>2 DEF Range
          <6>3. short \in Seq(REQUEST) /\ Len(short) = 0
            OBVIOUS
          <6> HIDE DEF short
          <6>4. /\ Len(short) = Len(list) - 1
                /\ Range(list) \ {list[aux]} \subseteq Range(short)
            BY <5>2, <6>2, <6>3
          <6>5. QED
            BY <6>1, <6>3, <6>4, Zenon
        <5>3. CASE aux = 1 /\ Len(list) # 1
          <6> DEFINE short == Tail(list)
          <6>1. v = [list |-> short, aux |-> aux, removed |-> removed + 1]
            <7>1. v = FreeHead(w)
              <8>1. ~(aux > 1)
                BY <5>3
              <8>2. QED
                BY <3>1, <3>6, <5>3, <8>1, Zenon DEF Turn, list, aux
            <7>2. QED
              BY <3>4, <5>3, <7>1, Zenon DEF FreeHead, list
          <6>2. /\ short \in Seq(REQUEST) /\ Len(short) = Len(list) - 1
                /\ \A j \in 1 .. aux - 1 : short[j] = list[j]
                /\ \A j \in aux .. Len(short) : short[j] = list[j + 1]
            BY <3>2, <3>3, <5>3
          <6> HIDE DEF short
          <6>3. QED
            BY <1>without, <3>2, <3>3, <6>1, <6>2
        <5>4. QED
          BY <3>2, <5>1, <5>2, <5>3
      <4>2. v.list = short /\ v.aux = aux /\ v.removed = removed + 1
        BY <4>1
      <4>3. Range(queue) \ voided \subseteq Range(short)
        BY <3>2, <3>6, <4>1
      <4>4. Len(short) + (removed + 1) = n /\ aux + (removed + 1) = (m + 1) + 1
        BY <3>2, <4>1
      <4>5. /\ v = [list |-> v.list, aux |-> v.aux, removed |-> v.removed]
            /\ v.list \in Seq(REQUEST) /\ v.removed \in Nat /\ v.aux \in Nat \ {0}
        BY <3>2, <4>1, <4>2
      <4>6. Good(v, m + 1)
        BY <4>2, <4>3, <4>4, <4>5
      <4>7. QED
        BY <4>6, Zenon DEF v
    <3>7. QED
      BY <3>5, <3>6
  <2>5. Right(n)
    <3> HIDE DEF Right
    <3> DEFINE S == {m \in Nat : m <= n => Right(m)}
    <3>1. 0 \in S
      BY <2>3
    <3>2. ASSUME NEW m \in S PROVE m + 1 \in S
      <4> SUFFICES ASSUME m + 1 <= n PROVE Right(m + 1)
        OBVIOUS
      <4>1. m \in Nat /\ m < n /\ Right(m)
        BY <2>0
      <4>2. QED
        BY <2>4, <4>1
    <3>3. S = Nat
      <4> HIDE DEF S
      <4>1. S \in SUBSET Nat
        BY DEF S
      <4>2. QED
        BY <1>induct, <3>1, <3>2, <4>1
    <3>4. QED
      BY <2>0, <3>3
  <2>6. QED
    <3> HIDE DEF Walked
    <3>1. QED
      BY <2>2, <2>5
<1>1. GatewayInit => GatewayInv
  BY BoundsAssumption DEF BoundsAssumption, GatewayInit, GatewayInv, SizeTruth, PromiseKept
<1>2. ASSUME GatewayInv, NEW voided, TakeOut(voided) PROVE GatewayInv'
  <2> DEFINE walk == Walk(voided)
             n == Len(queue)
             m == Len(queue')
  <2>1. queue \in Seq(REQUEST) /\ n <= Capacity /\ size_of_queue = n
    BY <1>2 DEF GatewayInv, SizeTruth
  <2>2. /\ walk.list \in Seq(REQUEST) /\ walk.removed \in Nat
        /\ Len(walk.list) + walk.removed = n
        /\ Range(queue) \ voided \subseteq Range(walk.list)
    BY <1>walk, <2>1
  <2>3. queue' = walk.list /\ size_of_queue' = (size_of_queue + Byte - walk.removed) % Byte
    BY <1>2, Zenon DEF TakeOut
  <2> HIDE DEF walk
  <2>4. m \in 0 .. Capacity /\ n + Byte - walk.removed = m + Byte
    <3>1. /\ m = Len(walk.list) /\ n \in Nat /\ m \in Nat
          /\ walk.removed \in Nat /\ m + walk.removed = n /\ n <= Capacity
      BY <2>1, <2>2, <2>3
    <3> HIDE DEF m, n
    <3>2. QED
      BY <3>1, BoundsAssumption DEF BoundsAssumption
  <2>5. size_of_queue' = m
    <3>1. size_of_queue' = (m + Byte) % Byte
      BY <2>1, <2>3, <2>4, Zenon
    <3>2. QED
      BY <1>byte, <2>4, <3>1
  <2>6. PromiseKept'
    BY <1>2, <2>2, <2>3 DEF GatewayInv, PromiseKept, TakeOut
  <2>7. QED
    BY <2>2, <2>3, <2>4, <2>5, <2>6 DEF GatewayInv, SizeTruth
<1>3. ASSUME GatewayInv, NEW n \in Node, NEW c \in Command, QueueRequest(n, c)
      PROVE  GatewayInv'
  <2>1. CASE Duplicate(n, c)
    <3>1. UNCHANGED <<queue, size_of_queue>> /\ pending' = pending \cup {Req(n, c)}
      BY <1>3, <2>1 DEF QueueRequest
    <3>2. Req(n, c) \in Range(queue)
      BY <2>1 DEF Duplicate, Range
    <3>3. QED
      BY <1>3, <3>1, <3>2 DEF GatewayInv, SizeTruth, PromiseKept
  <2>2. CASE Insert(n, c) /\ Len(queue) < Capacity
    <3>1. /\ queue' = Append(queue, Req(n, c)) /\ size_of_queue' = (size_of_queue + 1) % Byte
          /\ pending' = pending \cup {Req(n, c)}
      BY <2>2 DEF Insert
    <3>2. Req(n, c) \in REQUEST
      BY DEF Req, REQUEST
    <3>3. /\ queue \in Seq(REQUEST) /\ queue' \in Seq(REQUEST) /\ Len(queue') = Len(queue) + 1
          /\ queue'[Len(queue) + 1] = Req(n, c)
          /\ \A i \in 1 .. Len(queue) : queue'[i] = queue[i]
      BY <1>3, <3>1, <3>2 DEF GatewayInv
    <3>4. Range(queue) \subseteq Range(queue') /\ Req(n, c) \in Range(queue')
      BY <3>3 DEF Range
    <3>5. size_of_queue' = Len(queue')
      <4>1. Len(queue) + 1 \in 0 .. Capacity
        BY <2>2, <3>3, BoundsAssumption DEF BoundsAssumption
      <4>2. QED
        BY <1>3, <1>byte, <3>1, <3>3, <4>1 DEF GatewayInv, SizeTruth
    <3>6. QED
      BY <1>3, <2>2, <3>1, <3>3, <3>4, <3>5, BoundsAssumption
      DEF BoundsAssumption, GatewayInv, SizeTruth, PromiseKept
  <2>3. CASE Insert(n, c) /\ ~(Len(queue) < Capacity)
    BY <1>3, <2>3 DEF Insert, GatewayInv, SizeTruth, PromiseKept
  <2>4. QED
    BY <1>3, <2>1, <2>2, <2>3 DEF QueueRequest
\* Nothing else touches the list, or promises anything.
<1>4. ASSUME GatewayInv, UNCHANGED <<queue, size_of_queue>>, pending' \subseteq pending
      PROVE  GatewayInv'
  BY <1>4 DEF GatewayInv, SizeTruth, PromiseKept
<1>5. GatewayInv /\ [GatewayNext]_gatewayVars => GatewayInv'
  <2> SUFFICES ASSUME GatewayInv, [GatewayNext]_gatewayVars PROVE GatewayInv'
    OBVIOUS
  <2>1. CASE PrintQueue \/ SendFails \/ Invalid \/ UNCHANGED gatewayVars
    BY <1>4, <2>1 DEF PrintQueue, SendFails, Invalid, gatewayVars
  <2>2. CASE Flush \/ \E n \in Node : VoidNode(n) \/ \E c \in Command : VoidRequest(n, c)
    BY <1>2, <2>2 DEF Flush, VoidNode, VoidRequest
  <2>3. ASSUME NEW n \in Node, NEW c \in Command, SentAtOnce(n, c) \/ QueueRequest(n, c)
        PROVE  GatewayInv'
    BY <1>3, <1>4, <2>3 DEF SentAtOnce
  <2>4. ASSUME NEW n \in Node, Acknowledged(n) PROVE GatewayInv'
    BY <1>4, <2>4 DEF Acknowledged
  <2>5. QED
    BY <2>1, <2>2, <2>3, <2>4 DEF GatewayNext, Line
<1>6. QED
  BY <1>1, <1>5, PTL DEF GatewaySpec

\* printQueue() may trust the counter: it is the length of the list, and never
\* wraps.
THEOREM CounterIsLength == GatewaySpec => []SizeTruth
<1>1. GatewayInv => SizeTruth
  BY DEF GatewayInv
<1>2. QED
  BY <1>1, GatewayInvariant, PTL

\* No request is lost that the gateway took and no node received: a line that
\* queues another, skips a duplicate, or voids others, keeps it.
THEOREM PromisesAreKept == GatewaySpec => []PromiseKept
<1>1. GatewayInv => PromiseKept
  BY DEF GatewayInv
<1>2. QED
  BY <1>1, GatewayInvariant, PTL
=============================================================================
