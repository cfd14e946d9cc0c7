----------------------------- MODULE GpioProofs -----------------------------
(***************************************************************************)
(* What is true of the library CppGPIO.                                    *)
(*                                                                         *)
(* Button: the debouncer loses no press and no release, whatever the       *)
(* intervals, if the hold interval is at least as long as the trigger      *)
(* interval.  The time of the last trigger is taken before the hold        *)
(* interval, so when the event loop looks at the next edge the trigger     *)
(* interval is over: the branch of debounce() that drops an edge unseen is *)
(* never taken.                                                            *)
(*                                                                         *)
(* SoftPwm: soft threads end and pins are switched as SoftPwm states, for  *)
(* any number of pins and clients and any ranges and ratios.               *)
(***************************************************************************)
EXTENDS Button, SoftPwm, TLAPS

-----------------------------------------------------------------------------
\* The push button.

\* The inductive invariant.  Triggered: the last trigger is old enough whenever
\* it is looked at.  Known: a level that differs is known to the loop, or an
\* edge (or a closed descriptor) will tell it.
Triggered == sinceTrigger >= Trigger
Known ==
    /\ loop \in {"poll", "callback"} /\ pin # m_state => pending \/ closed
    /\ loop \in {"none", "starting"} /\ pin # m_state => closed
    /\ loop = "ended" => closed
    /\ starts = 0 => loop = "none"
    /\ loop = "none" /\ starts # 0 => closed
NoLostEdgeInv == TypeOK /\ (Covered => Triggered /\ Known)

\* Button keeps to its types, for all intervals and bounds.
THEOREM ButtonTypeCorrect == ButtonSpec => []TypeOK
<1> USE IntervalAssumption, FlipsAssumption DEF IntervalAssumption, FlipsAssumption, Trigger, Hold
<1>1. ButtonInit => TypeOK
  <2>1. ButtonInit =>
          /\ interval \in Intervals /\ pin \in BOOLEAN /\ pending \in BOOLEAN /\ m_state \in BOOLEAN
          /\ m_terminate \in BOOLEAN /\ joining \in BOOLEAN /\ closed \in BOOLEAN
          /\ loop \in LoopPc /\ called \in {"nothing", "f_on", "f_off"}
    BY Zenon DEF ButtonInit, LoopPc
  <2>2. ButtonInit =>
          /\ sinceTrigger \in 0 .. Cap /\ slept \in 0 .. Cap /\ stable \in 0 .. Cap
          /\ flips \in 0 .. MaxFlips /\ starts \in 0 .. MaxStarts
    BY SMT DEF ButtonInit
  <2>3. QED
    BY <2>1, <2>2 DEF TypeOK
<1>2. TypeOK /\ [ButtonNext]_buttonVars => TypeOK'
  <2> SUFFICES ASSUME TypeOK, [ButtonNext]_buttonVars PROVE TypeOK'
    OBVIOUS
  <2> USE DEF TypeOK, LoopPc, loopOnly
  <2>0. CASE Stop \/ LoopJoined
    BY <2>0, Zenon DEF Stop, LoopJoined
  <2>1. CASE Start
    <3>1. starts' \in 0 .. MaxStarts
      BY <2>1 DEF Start
    <3>2. QED
      BY <2>1, <3>1, Zenon DEF Start
  <2>2. CASE ClearPending \/ Terminate \/ Notified \/ Callback
    BY <2>2 DEF ClearPending, Terminate, Notified, Callback
  <2>3. CASE Debounce
    BY <2>3 DEF Debounce, Rejected, NotDebounced, AcceptedAtOnce, WaitHold, Accepted, NotHeld
  <2>4. CASE Flip
    BY <2>4 DEF Flip
  <2>5. CASE Tick
    BY <2>5 DEF Tick, Older
  <2>6. CASE UNCHANGED buttonVars
    BY <2>6 DEF buttonVars
  <2>7. QED
    BY <2>0, <2>1, <2>2, <2>3, <2>4, <2>5, <2>6 DEF ButtonNext, Loop
<1>3. QED
  BY <1>1, <1>2, PTL DEF ButtonSpec

\* No edge is lost when the hold interval covers the trigger interval (2 ms and
\* 500 ms in MomentarySwitch) and the pin is at rest while the event loop starts:
\* the loop waits only when it knows the level or will be woken.
THEOREM NoEdgeIsLost ==
  ASSUME QuietStart
  PROVE  ButtonSpec => []NoLostEdge
<1>step. ASSUME QuietStart, NoLostEdgeInv, TypeOK', [ButtonNext]_buttonVars
         PROVE  NoLostEdgeInv'
  <2> USE <1>step
  <2> SUFFICES ASSUME Covered' PROVE (Triggered /\ Known)'
    BY DEF NoLostEdgeInv
  <2>0. interval' = interval /\ Covered
    BY Zenon DEF ButtonNext, Loop, Debounce, buttonVars, loopOnly, Start, Stop, LoopJoined, Flip, Tick,
       ClearPending, Terminate, Notified, Callback, Rejected, NotDebounced, AcceptedAtOnce,
       WaitHold, Accepted, NotHeld, Covered, Trigger, Hold
  <2> USE IntervalAssumption, FlipsAssumption, <2>0
          DEF IntervalAssumption, FlipsAssumption, Covered, NoLostEdgeInv, TypeOK, Triggered, Known,
              LoopPc, loopOnly, Trigger, Hold
  <2>1. CASE Start \/ Stop \/ LoopJoined
    BY <2>1 DEF Start, Stop, LoopJoined
  <2>2. CASE ClearPending \/ Terminate \/ Notified \/ Callback
    BY <2>2 DEF ClearPending, Terminate, Notified, Callback
  \* An edge is dropped unseen only while the last trigger is young.
  <2>3. CASE Debounce
    <3>1. CASE Rejected
      BY <2>3, <3>1 DEF Rejected
    <3>2. CASE NotDebounced \/ AcceptedAtOnce
      BY <2>3, <3>2 DEF NotDebounced, AcceptedAtOnce
    <3>3. CASE WaitHold
      BY <2>3, <3>3 DEF WaitHold
    \* The new trigger is as old as the hold interval was long.
    <3>4. CASE Accepted
      BY <2>3, <3>4 DEF Accepted
    <3>5. CASE NotHeld
      BY <2>3, <3>5 DEF NotHeld
    <3>6. QED
      BY <2>3, <3>1, <3>2, <3>3, <3>4, <3>5 DEF Debounce
  <2>4. CASE Flip
    BY <2>4 DEF Flip
  <2>5. CASE Tick
    BY <2>5 DEF Tick, Older
  <2>6. CASE UNCHANGED buttonVars
    BY <2>6 DEF buttonVars
  <2>7. QED
    BY <2>1, <2>2, <2>3, <2>4, <2>5, <2>6 DEF ButtonNext, Loop
<1>1. ButtonInit /\ TypeOK => NoLostEdgeInv
  <2>1. ButtonInit => Triggered
    BY IntervalAssumption DEF IntervalAssumption, ButtonInit, Triggered, Trigger
  <2>2. QuietStart /\ ButtonInit /\ TypeOK => Known
    BY Zenon DEF ButtonInit, Known
  <2>3. QED
    BY <2>1, <2>2 DEF NoLostEdgeInv
<1>2. NoLostEdgeInv /\ TypeOK' /\ [ButtonNext]_buttonVars => NoLostEdgeInv'
  BY <1>step
<1>3. NoLostEdgeInv => NoLostEdge
  BY DEF NoLostEdgeInv, Known, NoLostEdge
<1>4. QED
  BY <1>1, <1>2, <1>3, ButtonTypeCorrect, PTL DEF ButtonSpec

-----------------------------------------------------------------------------
\* While a callback is due the last one told of the other level; otherwise it
\* told of the debouncer's state.
ToldOf(state) == IF state THEN "f_on" ELSE "f_off"
Told == IF loop = "callback" THEN ToldOf(~m_state) ELSE ToldOf(m_state)
AlternateInv == Trigger > 0 /\ called # "nothing" => called = Told

\* f_on and f_off alternate whenever there is a trigger interval, whatever it is,
\* whatever the hold interval, and wherever the loop is stopped and started.
THEOREM CallbacksTakeTurns == ButtonSpec => CallbacksAlternate
<1>1. ButtonInit => AlternateInv
  BY Zenon DEF ButtonInit, AlternateInv
<1>2. TypeOK /\ AlternateInv /\ [ButtonNext]_buttonVars => AlternateInv'
  <2> SUFFICES ASSUME TypeOK, AlternateInv, [ButtonNext]_buttonVars,
                      (Trigger > 0)', (called # "nothing")'
               PROVE  called' = Told'
    BY DEF AlternateInv
  <2> USE DEF AlternateInv, Told, ToldOf, TypeOK, LoopPc, loopOnly, Trigger, Hold
  <2>1. CASE Start \/ Stop \/ LoopJoined
    BY <2>1 DEF Start, Stop, LoopJoined
  <2>2. CASE ClearPending \/ Terminate \/ Notified
    <3>1. loop # "callback" /\ loop' # "callback" /\ UNCHANGED <<m_state, called, interval>>
      BY <2>2 DEF ClearPending, Terminate, Notified
    <3>2. QED
      BY <3>1
  \* A debounced edge toggles the state before its callback.
  <2>3. CASE Debounce
    BY <2>3 DEF Debounce, Rejected, NotDebounced, AcceptedAtOnce, WaitHold, Accepted, NotHeld
  <2>4. CASE Callback
    BY <2>4 DEF Callback
  <2>5. CASE Flip \/ Tick \/ UNCHANGED buttonVars
    BY <2>5 DEF Flip, Tick, buttonVars
  <2>6. QED
    BY <2>1, <2>2, <2>3, <2>4, <2>5 DEF ButtonNext, Loop
\* Only Callback ends a callback.
<1>3. TypeOK /\ AlternateInv /\ [ButtonNext]_buttonVars =>
        [Trigger > 0 /\ called # "nothing" /\ loop = "callback" /\ loop' # "callback" =>
            called' # called]_buttonVars
  <2> SUFFICES ASSUME TypeOK, AlternateInv, ButtonNext, Trigger > 0, called # "nothing",
                      loop = "callback", loop' # "callback"
               PROVE  called' # called
    BY DEF buttonVars
  <2>1. CASE Callback
    BY <2>1 DEF Callback, AlternateInv, Told, ToldOf, TypeOK
  <2>2. CASE Stop
    BY <2>2 DEF Stop
  <2>3. QED
    BY <2>1, <2>2 DEF ButtonNext, Loop, Debounce, Start, LoopJoined, ClearPending, Terminate, Notified,
       Rejected, NotDebounced, AcceptedAtOnce, WaitHold, Accepted, NotHeld, Flip, Tick
<1>4. QED
  BY <1>1, <1>2, <1>3, ButtonTypeCorrect, PTL DEF ButtonSpec, CallbacksAlternate

-----------------------------------------------------------------------------
\* The outputs.

Label == {"idle", "mode", "endSpace", "join", "read", "clear", "reread", "set", "emplace", "range",
          "ratio", "space"}
Object == [class : Class \cup {"none"}, range : Nat, mark : Nat, space : Nat]
Calls  == [class : Class \cup {"none"}, range : Nat, ratio : Nat]

\* What the proofs need of the types.
SoftTypeOK ==
    /\ fsel \in Register /\ copy \in [Pin -> Register]
    /\ pc \in [Pin -> Label] /\ arg \in [Pin -> Calls]
    /\ soft \in [Pin -> Object]
    /\ run \in [Pin -> {"none", "mark", "space 0", "space", "high", "high, low", "low", "ended"}]
    /\ full \in [Pin -> BOOLEAN] /\ overlap \in [Pin -> BOOLEAN]
    /\ \A p \in Pin : pc[p] = "emplace" => arg[p].class \in Class

\* Between the stores of the mark and the space no space is below 0, and one of
\* 0 is known to be coming.
Marked ==
    \A p \in Pin : pc[p] = "space" =>
        soft[p].mark <= soft[p].range /\ (soft[p].mark = soft[p].range => full[p])

\* The outputs keep to their types; no space is computed from a mark beyond the
\* range.
THEOREM SoftTypeCorrect == Spec => [](SoftTypeOK /\ Marked)
<1>0. \A m, r \in Nat : (m > r <=> ~(m <= r)) /\ (m <= r => r - m \in Nat) /\ r <= r
  OBVIOUS
<1> USE DEF SoftTypeOK
<1>1. Init => SoftTypeOK /\ Marked
  BY DEF Init, Marked, AllInput, Register, NoCall, NoObject, Label, Object, Calls
<1>2. SoftTypeOK /\ Marked /\ [Next]_vars => SoftTypeOK'
  <2> SUFFICES ASSUME SoftTypeOK, Marked, [Next]_vars PROVE SoftTypeOK'
    OBVIOUS
  <2> USE RangeAssumption DEF RangeAssumption, Label, switch, object, client
  <2>1. ASSUME NEW p \in Pin, NEW label \in {"mode", "range", "ratio"}, NEW call \in Calls,
               Call(p, label, call)
        PROVE  SoftTypeOK'
    BY <2>1 DEF Call, Goto
  <2>2. ASSUME NEW p \in Pin, NEW c \in Class, NEW r \in Ranges, NEW v \in Ratios, Construct(p, c, r, v)
        PROVE  SoftTypeOK'
    <3>1. [class |-> c, range |-> IF c = "PWM" THEN r ELSE 0, ratio |-> IF IsSoft(c) THEN v ELSE 0] \in Calls
      BY DEF Calls
    <3> QED
      BY <2>2, <2>1, <3>1 DEF Construct
  <2>3. ASSUME NEW p \in Pin, NEW r \in Ranges, SetRange(p, r) PROVE SoftTypeOK'
    <3>1. [arg[p] EXCEPT !.range = r] \in Calls
      BY DEF Calls
    <3> QED
      BY <2>3, <2>1, <3>1 DEF SetRange
  <2>4. ASSUME NEW p \in Pin, NEW v \in Ratios, SetRatio(p, v) PROVE SoftTypeOK'
    <3>1. [arg[p] EXCEPT !.ratio = v] \in Calls
      BY DEF Calls
    <3> QED
      BY <2>4, <2>1, <3>1 DEF SetRatio
  <2>5. ASSUME NEW p \in Pin, Destroy(p) PROVE SoftTypeOK'
    <3>1. NoCall \in Calls
      BY DEF NoCall, Calls
    <3> QED
      BY <2>5, <2>1, <3>1 DEF Destroy
  <2>6. ASSUME NEW p \in Pin, NothingToErase(p) PROVE SoftTypeOK'
    BY <2>6 DEF NothingToErase, Goto
  \* The fields of an object one by one.
  <2>a. \A o \in Object, n \in Nat : /\ [o EXCEPT !.range = n] \in Object
                                    /\ [o EXCEPT !.mark = n] \in Object
                                    /\ [o EXCEPT !.space = n] \in Object
    BY DEF Object
  <2>b. ASSUME NEW p \in Pin, EndSpace(p) PROVE SoftTypeOK'
    <3>1. [soft[p] EXCEPT !.space = 0] \in Object
      BY <2>a
    <3>2. soft' = [soft EXCEPT ![p] = [soft[p] EXCEPT !.space = 0]]
      BY <2>b DEF EndSpace
    <3>3. soft' \in [Pin -> Object]
      BY <3>1, <3>2
    <3> QED
      BY <2>b, <3>3 DEF EndSpace, Goto
  <2>7. ASSUME NEW p \in Pin, TerminateSoft(p) PROVE SoftTypeOK'
    <3>1. [soft[p] EXCEPT !.range = 0] \in Object
      BY <2>a
    <3>2. [[soft[p] EXCEPT !.range = 0] EXCEPT !.mark = 0] \in Object
      BY <2>a, <3>1
    <3>3. \/ soft' = [soft EXCEPT ![p] = [soft[p] EXCEPT !.range = 0]]
          \/ soft' = [soft EXCEPT ![p] = [[soft[p] EXCEPT !.range = 0] EXCEPT !.mark = 0]]
      BY <2>7 DEF TerminateSoft
    <3>4. soft' \in [Pin -> Object]
      BY <3>1, <3>2, <3>3
    <3>5. pc' \in [Pin -> Label]
      BY <2>7 DEF TerminateSoft, Goto
    <3>6. \A q \in Pin : pc'[q] = "emplace" => pc[q] = "emplace"
      BY <2>7 DEF TerminateSoft, Goto
    <3> QED
      BY <2>7, <3>4, <3>5, <3>6 DEF TerminateSoft
  <2>8. ASSUME NEW p \in Pin, Joined(p) PROVE SoftTypeOK'
    BY <2>8 DEF Joined, Goto, NoObject, Object
  <2>9. ASSUME NEW p \in Pin, ReadRegister(p) PROVE SoftTypeOK'
    <3>1. overlap' \in [Pin -> BOOLEAN]
      BY <2>9, Zenon DEF ReadRegister, Switching
    <3> QED
      BY <2>9, <3>1 DEF ReadRegister, Goto
  <2>10. ASSUME NEW p \in Pin, ClearBits(p) \/ Reread(p) \/ SetBits(p) PROVE SoftTypeOK'
    <3>1. \A r \in Register, f \in {"INPUT", "OUTPUT"} : [r EXCEPT ![p] = f] \in Register
      BY DEF Register
    <3>2. AllInput \in Register
      BY DEF AllInput, Register
    <3>3. copy[p] \in Register
      OBVIOUS
    <3>4. CASE ClearBits(p)
      <4>1. fsel' \in Register /\ copy' \in [Pin -> Register]
        BY <3>1, <3>2, <3>3, <3>4 DEF ClearBits
      <4> QED
        BY <3>4, <4>1 DEF ClearBits, Goto
    <3>5. CASE Reread(p)
      BY <3>5 DEF Reread, Goto
    <3>6. CASE SetBits(p)
      <4>1. fsel' \in Register /\ copy' \in [Pin -> Register]
        BY <3>1, <3>2, <3>3, <3>6 DEF SetBits
      <4> QED
        BY <3>6, <4>1 DEF SetBits, Goto, IsSoft, Class
    <3> QED
      BY <2>10, <3>4, <3>5, <3>6
  <2>11. ASSUME NEW p \in Pin, Emplace(p) PROVE SoftTypeOK'
    <3> DEFINE c == arg[p].class
    <3>1. c \in Class
      BY <2>11 DEF Emplace, At
    <3>2. [class |-> c, range |-> DefaultRange[c], mark |-> 0, space |-> DefaultRange[c]] \in Object
      BY <3>1 DEF Object
    <3>3. soft' = [soft EXCEPT ![p] = [class |-> c, range |-> DefaultRange[c], mark |-> 0,
                                       space |-> DefaultRange[c]]]
      BY <2>11 DEF Emplace
    <3>4. soft' \in [Pin -> Object]
      BY <3>2, <3>3
    <3> QED
      BY <2>11, <3>4 DEF Emplace, Goto
  <2>12. ASSUME NEW p \in Pin, NEW r \in Nat, NEW v \in Nat, NEW next \in {"space", "ratio", "idle"},
                \/ soft' = [soft EXCEPT ![p].range = r]
                \/ soft' = [soft EXCEPT ![p].range = r, ![p].mark = v],
                full' \in [Pin -> BOOLEAN], pc' = [pc EXCEPT ![p] = next],
                \/ arg' = arg
                \/ arg' = [arg EXCEPT ![p].range = 0, ![p].ratio = 0],
                UNCHANGED <<switch, run>>
         PROVE  SoftTypeOK'
    <3>1. [soft[p] EXCEPT !.range = r] \in Object
      BY <2>a
    <3>2. [[soft[p] EXCEPT !.range = r] EXCEPT !.mark = v] \in Object
      BY <2>a, <3>1
    <3>3. \/ soft' = [soft EXCEPT ![p] = [soft[p] EXCEPT !.range = r]]
          \/ soft' = [soft EXCEPT ![p] = [[soft[p] EXCEPT !.range = r] EXCEPT !.mark = v]]
      BY <2>12
    <3>4. soft' \in [Pin -> Object]
      BY <3>1, <3>2, <3>3
    <3>5. [[arg[p] EXCEPT !.range = 0] EXCEPT !.ratio = 0] \in Calls
      BY DEF Calls
    <3>6. \/ arg' = arg
          \/ arg' = [arg EXCEPT ![p] = [[arg[p] EXCEPT !.range = 0] EXCEPT !.ratio = 0]]
      BY <2>12
    <3>7. arg' \in [Pin -> Calls]
      BY <3>5, <3>6
    <3>8. \A q \in Pin : pc'[q] = "emplace" => pc[q] = "emplace" /\ arg'[q].class = arg[q].class
      BY <2>12, <3>6 DEF Calls
    <3> QED
      BY <2>12, <3>4, <3>7, <3>8
  <2>13. ASSUME NEW p \in Pin, RangeSet(p) PROVE SoftTypeOK'
    <3>1. arg[p].range \in Nat
      BY DEF Calls
    <3>2. full' \in [Pin -> BOOLEAN]
      BY <2>13, Zenon DEF RangeSet, BeginValue
    <3>3. CASE soft[p].mark > arg[p].range
      <4>1. /\ soft' = [soft EXCEPT ![p].range = arg[p].range, ![p].mark = arg[p].range]
            /\ pc' = [pc EXCEPT ![p] = "space"] /\ arg' = arg /\ UNCHANGED <<switch, run>>
        <5>1. soft[p].mark \in Nat
          BY DEF Object
        <5>2. ~(soft[p].mark <= arg[p].range)
          BY <3>1, <3>3, <5>1, <1>0
        <5>3. /\ BeginValue(p, arg[p].range, arg[p].range) /\ Goto(p, "space")
              /\ UNCHANGED <<arg, switch, run>>
          BY <2>13, <5>2 DEF RangeSet
        <5> QED
          BY <5>3 DEF BeginValue, Goto
      <4> QED
        BY <3>1, <3>2, <4>1, <2>12
    <3>4. CASE ~(soft[p].mark > arg[p].range)
      <4>1. soft' = [soft EXCEPT ![p].range = arg[p].range] /\ UNCHANGED <<switch, run>>
        BY <2>13, <3>1, <3>4 DEF RangeSet
      <4>2. \/ pc' = [pc EXCEPT ![p] = "ratio"] /\ arg' = arg
            \/ /\ pc' = [pc EXCEPT ![p] = "idle"]
               /\ arg' = [arg EXCEPT ![p].range = 0, ![p].ratio = 0]
        BY <2>13, <3>1, <3>4 DEF RangeSet, Goto, Return
      <4> QED
        BY <3>1, <3>2, <4>1, <4>2, <2>12
    <3> QED
      BY <3>3, <3>4
  <2>14. ASSUME NEW p \in Pin, RatioRefused(p) PROVE SoftTypeOK'
    <3>1. [[arg[p] EXCEPT !.range = 0] EXCEPT !.ratio = 0] \in Calls
      BY DEF Calls
    <3>2. arg' = [arg EXCEPT ![p] = [[arg[p] EXCEPT !.range = 0] EXCEPT !.ratio = 0]]
          /\ pc' = [pc EXCEPT ![p] = "idle"]
      BY <2>14 DEF RatioRefused, Return, Goto
    <3>3. arg' \in [Pin -> Calls] /\ \A q \in Pin : arg'[q].class = arg[q].class
      BY <3>1, <3>2 DEF Calls
    <3> QED
      BY <2>14, <3>2, <3>3 DEF RatioRefused
  <2>15. ASSUME NEW p \in Pin, RatioSet(p) PROVE SoftTypeOK'
    <3>1. arg[p].ratio \in Nat /\ soft[p].range \in Nat
      BY DEF Calls, Object
    <3>2. full' \in [Pin -> BOOLEAN]
      BY <2>15, Zenon DEF RatioSet, BeginValue
    <3>3. /\ soft' = [soft EXCEPT ![p].range = soft[p].range, ![p].mark = arg[p].ratio]
          /\ pc' = [pc EXCEPT ![p] = "space"] /\ arg' = arg /\ UNCHANGED <<switch, run>>
      BY <2>15 DEF RatioSet, BeginValue, Goto
    <3> QED
      BY <3>1, <3>2, <3>3, <2>12
  <2>16. ASSUME NEW p \in Pin, SpaceSet(p) PROVE SoftTypeOK'
    <3>0. soft[p].mark \in Nat /\ soft[p].range \in Nat
      BY DEF Object
    <3>1. soft[p].range - soft[p].mark \in Nat
      <4>1. soft[p].mark <= soft[p].range
        BY <2>16 DEF SpaceSet, At, Marked
      <4> QED
        BY <3>0, <4>1, <1>0
    <3>2. [soft[p] EXCEPT !.space = soft[p].range - soft[p].mark] \in Object
      BY <2>a, <3>1
    <3>3. soft' = [soft EXCEPT ![p] = [soft[p] EXCEPT !.space = soft[p].range - soft[p].mark]]
      BY <2>16 DEF SpaceSet
    <3>4. soft' \in [Pin -> Object]
      BY <3>2, <3>3
    <3>5. [[arg[p] EXCEPT !.range = 0] EXCEPT !.ratio = 0] \in Calls
      BY DEF Calls
    <3>6. arg' = [arg EXCEPT ![p] = [[arg[p] EXCEPT !.range = 0] EXCEPT !.ratio = 0]]
          /\ pc' = [pc EXCEPT ![p] = "idle"]
      BY <2>16 DEF SpaceSet, Return, Goto
    <3>7. arg' \in [Pin -> Calls] /\ \A q \in Pin : arg'[q].class = arg[q].class
      BY <3>5, <3>6 DEF Calls
    <3> QED
      BY <2>16, <3>4, <3>6, <3>7 DEF SpaceSet
  <2>17. ASSUME NEW p \in Pin, SoftThread(p) PROVE SoftTypeOK'
    BY <2>17 DEF SoftThread, ReadMark, ReadSpace, High, Low, RunGoto
  <2>18. CASE UNCHANGED vars
    BY <2>18 DEF vars
  <2> HIDE DEF SoftTypeOK
  <2> QED
    BY <2>2, <2>3, <2>4, <2>5, <2>6, <2>b, <2>7, <2>8, <2>9, <2>10, <2>11, <2>13, <2>14,
       <2>15, <2>16, <2>17, <2>18 DEF Next, Locking, Going
<1>3. SoftTypeOK /\ Marked /\ [Next]_vars => Marked'
  <2> SUFFICES ASSUME SoftTypeOK, Marked, [Next]_vars, NEW q \in Pin, pc'[q] = "space"
               PROVE  soft'[q].mark <= soft'[q].range /\ (soft'[q].mark = soft'[q].range => full'[q])
    BY DEF Marked
  <2>0. soft[q].mark \in Nat /\ soft[q].range \in Nat /\ arg[q].range \in Nat /\ arg[q].ratio \in Nat
    BY DEF Object, Calls
  <2>1. CASE UNCHANGED <<pc[q], soft[q], full[q]>>
    BY <2>1 DEF Marked
  <2>2. ASSUME NEW r \in Nat, NEW v \in Nat, v <= r, BeginValue(q, r, v)
        PROVE  soft'[q].mark <= soft'[q].range /\ (soft'[q].mark = soft'[q].range => full'[q])
    <3>1. soft'[q].mark = v /\ soft'[q].range = r /\ (v = r => full'[q])
      BY <2>2 DEF BeginValue, SoftTypeOK, Object
    <3> QED
      BY <2>2, <3>1
  <2>3. ASSUME NEW p \in Pin, NEW label, NEW call, Call(p, label, call), label # "space"
        PROVE  UNCHANGED <<pc[q], soft[q], full[q]>>
    BY <2>3 DEF Call, Goto, object
  <2>4. ASSUME NEW p \in Pin,
               \/ \E c \in Class, r \in Ranges, v \in Ratios : Construct(p, c, r, v)
               \/ \E r \in Ranges : SetRange(p, r)
               \/ \E v \in Ratios : SetRatio(p, v)
               \/ Destroy(p)
        PROVE  UNCHANGED <<pc[q], soft[q], full[q]>>
    BY <2>3, <2>4 DEF Construct, SetRange, SetRatio, Destroy
  <2>5. ASSUME NEW p \in Pin, Locking(p) \/ Going(p), p # q
        PROVE  UNCHANGED <<pc[q], soft[q], full[q]>>
    <3> USE DEF SoftTypeOK, Goto, Return, object, BeginValue
    <3>1. CASE Locking(p)
      BY <2>5, <3>1 DEF Locking, NothingToErase, TerminateSoft, Emplace, RangeSet, RatioRefused, RatioSet
    <3>2. CASE Going(p)
      BY <2>5, <3>2 DEF Going, EndSpace, Joined, SpaceSet, ReadRegister, ClearBits, Reread, SetBits
    <3> QED
      BY <2>5, <3>1, <3>2
  <2>6. ASSUME Locking(q) \/ Going(q)
        PROVE  \E r \in Nat, v \in Nat : v <= r /\ BeginValue(q, r, v)
    <3> USE DEF SoftTypeOK, Goto, Return
    <3>1. CASE Going(q)
      BY <3>1 DEF Going, EndSpace, Joined, SpaceSet, ReadRegister, ClearBits, Reread, SetBits
    <3>2. CASE NothingToErase(q) \/ TerminateSoft(q) \/ Emplace(q) \/ RatioRefused(q)
      BY <3>2 DEF NothingToErase, TerminateSoft, Emplace, RatioRefused
    <3>3. CASE RangeSet(q)
      <4>1. CASE soft[q].mark <= arg[q].range
        <5>1. ~(soft[q].mark > arg[q].range)
          BY <4>1, <2>0, <1>0
        <5> QED
          BY <3>3, <5>1 DEF RangeSet
      <4>2. CASE ~(soft[q].mark <= arg[q].range)
        <5>1. BeginValue(q, arg[q].range, arg[q].range) /\ arg[q].range <= arg[q].range
          BY <3>3, <4>2, <2>0, <1>0 DEF RangeSet
        <5> QED
          BY <5>1, <2>0
      <4> QED
        BY <4>1, <4>2
    <3>4. CASE RatioSet(q)
      BY <3>4, <2>0 DEF RatioSet
    <3> QED
      BY <2>6, <3>1, <3>2, <3>3, <3>4 DEF Locking
  <2>7. ASSUME NEW p \in Pin, SoftThread(p) PROVE UNCHANGED <<pc[q], soft[q], full[q]>>
    BY <2>7 DEF SoftThread, ReadMark, ReadSpace, High, Low, client, object
  <2>8. CASE UNCHANGED vars
    BY <2>1, <2>8 DEF vars, client, object
  <2>9. CASE Locking(q) \/ Going(q)
    <3>1. PICK r \in Nat, v \in Nat : v <= r /\ BeginValue(q, r, v)
      BY <2>6, <2>9
    <3> QED
      BY <3>1, <2>2
  <2> QED
    <3>1. CASE Next
      <4>1. PICK p \in Pin :
              \/ \/ \E c \in Class, r \in Ranges, v \in Ratios : Construct(p, c, r, v)
                 \/ \E r \in Ranges : SetRange(p, r)
                 \/ \E v \in Ratios : SetRatio(p, v)
                 \/ Destroy(p)
              \/ Locking(p) \/ Going(p) \/ SoftThread(p)
        BY <3>1 DEF Next
      <4>2. CASE Locking(p) \/ Going(p)
        BY <4>2, <2>1, <2>5, <2>9
      <4>3. CASE SoftThread(p)
        BY <4>3, <2>1, <2>7
      <4> QED
        BY <4>1, <4>2, <4>3, <2>1, <2>4
    <3> QED
      BY <3>1, <2>8
<1> QED
  BY <1>1, <1>2, <1>3, PTL DEF Spec

\* Everything about pin p's thread that its ending depends on.
Driven ==
    \A p \in Pin :
        /\ soft[p].class # "none" /\ soft[p].space = 0 => Erasing(p) \/ full[p]
        /\ run[p] # "none" => soft[p].class # "none"

\* A soft thread ends only when its object is destroyed, or once a ratio has been
\* as large as its range: for any calls of any clients on any pins.
THEOREM SoftThreadsGoOn == Spec => []EndsOnlyWhenTold
<1>1. Init => Driven /\ EndsOnlyWhenTold
  BY DEF Init, Driven, NoObject, EndsOnlyWhenTold
<1>2. SoftTypeOK /\ Marked /\ Driven /\ EndsOnlyWhenTold /\ [Next]_vars => Driven' /\ EndsOnlyWhenTold'
  <2> SUFFICES ASSUME SoftTypeOK, Marked, Driven, EndsOnlyWhenTold, [Next]_vars, NEW q \in Pin
               PROVE  /\ soft'[q].class # "none" /\ soft'[q].space = 0 => Erasing(q)' \/ full'[q]
                      /\ run'[q] # "none" => soft'[q].class # "none"
                      /\ run'[q] = "ended" => Erasing(q)' \/ full'[q]
    BY DEF Driven, EndsOnlyWhenTold
  <2>0. /\ soft[q].class # "none" /\ soft[q].space = 0 => Erasing(q) \/ full[q]
        /\ run[q] # "none" => soft[q].class # "none"
        /\ run[q] = "ended" => Erasing(q) \/ full[q]
    BY DEF Driven, EndsOnlyWhenTold
  <2>1. CASE UNCHANGED <<soft[q], full[q], run[q]>> /\ (Erasing(q) => Erasing(q)')
    BY <2>0, <2>1
  <2>2. CASE soft'[q].space = soft[q].space /\ soft'[q].class = soft[q].class
             /\ run'[q] = run[q] /\ ~Erasing(q) /\ (full[q] => full'[q])
    BY <2>0, <2>2
  <2>3. ASSUME NEW p \in Pin, NEW label, NEW call, Call(p, label, call)
        PROVE  UNCHANGED <<soft[q], full[q], run[q]>> /\ (Erasing(q) => Erasing(q)')
    BY <2>3 DEF Call, Goto, object, At, Erasing, SoftTypeOK
  <2>4. ASSUME NEW p \in Pin,
               \/ \E c \in Class, r \in Ranges, v \in Ratios : Construct(p, c, r, v)
               \/ \E r \in Ranges : SetRange(p, r)
               \/ \E v \in Ratios : SetRatio(p, v)
               \/ Destroy(p)
        PROVE  UNCHANGED <<soft[q], full[q], run[q]>> /\ (Erasing(q) => Erasing(q)')
    BY <2>3, <2>4 DEF Construct, SetRange, SetRatio, Destroy
  <2>5. ASSUME NEW p \in Pin, Locking(p) \/ Going(p), p # q
        PROVE  UNCHANGED <<pc[q], soft[q], full[q], run[q]>>
    <3> USE DEF SoftTypeOK, Goto, Return, object, BeginValue
    <3>1. CASE Locking(p)
      BY <2>5, <3>1 DEF Locking, NothingToErase, TerminateSoft, Emplace, RangeSet, RatioRefused, RatioSet
    <3>2. CASE Going(p)
      BY <2>5, <3>2 DEF Going, EndSpace, Joined, SpaceSet, ReadRegister, ClearBits, Reread, SetBits
    <3> QED
      BY <2>5, <3>1, <3>2
  <2>6. CASE NothingToErase(q) \/ RatioRefused(q) \/ ReadRegister(q) \/ ClearBits(q) \/ Reread(q)
             \/ SetBits(q)
    BY <2>1, <2>6 DEF NothingToErase, RatioRefused, ReadRegister, ClearBits, Reread, SetBits, Goto,
       Return, object, At, Erasing
  <2>7. CASE TerminateSoft(q) \/ EndSpace(q)
    <3>1. Erasing(q)'
      BY <2>7 DEF TerminateSoft, EndSpace, Goto, Erasing, SoftTypeOK
    <3>2. run'[q] = run[q] /\ soft'[q].class = soft[q].class
      BY <2>7 DEF TerminateSoft, EndSpace, SoftTypeOK, Object
    <3> QED
      BY <2>0, <3>1, <3>2
  <2>8. CASE Joined(q)
    BY <2>8 DEF Joined, SoftTypeOK, NoObject
  <2>9. CASE Emplace(q)
    <3>1. arg[q].class \in Class
      BY <2>9 DEF Emplace, At, SoftTypeOK
    <3>2. soft'[q].class = arg[q].class /\ soft'[q].space = DefaultRange[arg[q].class] /\ run'[q] = "mark"
      BY <2>9 DEF Emplace, SoftTypeOK
    <3>3. DefaultRange[arg[q].class] # 0
      BY <3>1, RangeAssumption DEF RangeAssumption
    <3> QED
      BY <3>1, <3>2, <3>3 DEF Class
  <2>10. CASE RangeSet(q) \/ RatioSet(q)
    <3>1. ~Erasing(q) /\ run'[q] = run[q]
      BY <2>10 DEF RangeSet, RatioSet, At, Erasing
    <3> DEFINE Same(o) == o.space = soft[q].space /\ o.class = soft[q].class
    <3>2. ASSUME NEW r, NEW v, BeginValue(q, r, v)
          PROVE  Same(soft'[q]) /\ (full[q] => full'[q])
      BY <3>2 DEF BeginValue, SoftTypeOK, Object
    <3>3. ASSUME NEW r, soft' = [soft EXCEPT ![q].range = r] PROVE Same(soft'[q])
      BY <3>3 DEF SoftTypeOK, Object
    <3> HIDE DEF Same
    <3>4. Same(soft'[q]) /\ (full[q] => full'[q])
      BY <2>10, <3>2, <3>3 DEF RangeSet, RatioSet
    <3>5. soft'[q].space = soft[q].space /\ soft'[q].class = soft[q].class /\ (full[q] => full'[q])
      BY <3>4 DEF Same
    <3> QED
      BY <2>2, <3>1, <3>5
  <2>11. CASE SpaceSet(q)
    <3>1. soft'[q].space = soft[q].range - soft[q].mark /\ soft'[q].class = soft[q].class
          /\ run'[q] = run[q] /\ full' = full /\ pc[q] = "space"
      BY <2>11 DEF SpaceSet, SoftTypeOK, Object, At
    <3>2. soft[q].mark \in Nat /\ soft[q].range \in Nat
      BY DEF SoftTypeOK, Object
    <3>3. soft'[q].space = 0 => full'[q]
      BY <3>1, <3>2 DEF Marked
    <3> QED
      BY <2>0, <3>1, <3>3 DEF Erasing
  <2>12. ASSUME NEW p \in Pin, SoftThread(p) PROVE UNCHANGED <<pc, soft, full>>
    BY <2>12 DEF SoftThread, ReadMark, ReadSpace, High, Low, client, object
  <2>13. ASSUME NEW p \in Pin, SoftThread(p), p # q PROVE UNCHANGED <<pc[q], soft[q], full[q], run[q]>>
    BY <2>13, <2>12 DEF SoftThread, ReadMark, ReadSpace, High, Low, RunGoto, SoftTypeOK
  <2>14. CASE SoftThread(q)
    <3>1. run[q] # "none" /\ (run'[q] = "ended" => soft[q].space = 0)
      BY <2>14 DEF SoftThread, ReadMark, ReadSpace, High, Low, RunGoto, SoftTypeOK
    <3> QED
      BY <2>0, <2>12, <2>14, <3>1 DEF Erasing
  <2>15. CASE UNCHANGED vars
    BY <2>1, <2>15 DEF vars, client, object, Erasing
  <2>16. CASE Locking(q) \/ Going(q)
    BY <2>6, <2>7, <2>8, <2>9, <2>10, <2>11, <2>16 DEF Locking, Going
  <2>17. ASSUME NEW p \in Pin, Locking(p) \/ Going(p) \/ SoftThread(p), p # q
         PROVE  UNCHANGED <<soft[q], full[q], run[q]>> /\ (Erasing(q) => Erasing(q)')
    BY <2>17, <2>5, <2>13 DEF Erasing
  <2> QED
    <3>1. CASE Next
      <4>1. PICK p \in Pin :
              \/ \/ \E c \in Class, r \in Ranges, v \in Ratios : Construct(p, c, r, v)
                 \/ \E r \in Ranges : SetRange(p, r)
                 \/ \E v \in Ratios : SetRatio(p, v)
                 \/ Destroy(p)
              \/ Locking(p) \/ Going(p) \/ SoftThread(p)
        BY <3>1 DEF Next
      <4>2. CASE Locking(p) \/ Going(p) \/ SoftThread(p)
        BY <4>2, <2>1, <2>14, <2>16, <2>17
      <4> QED
        BY <4>1, <4>2, <2>1, <2>4
    <3> QED
      BY <3>1, <2>15
<1> QED
  BY <1>1, <1>2, SoftTypeCorrect, PTL DEF Spec

Settled(p) == pc[p] \in {"idle", "emplace", "range", "ratio", "space"}

\* Two that switch at the same time know it of each other; what one has read for a
\* settled pin is what the register says, unless they overlapped.
Apart ==
    /\ \A p, q \in Pin : p # q /\ Switching(p) /\ Switching(q) => overlap[p]
    /\ \A p, q \in Pin : p # q /\ Settled(p) /\ ~overlap[p] /\ pc[q] \in {"clear", "set"} =>
          copy[q][p] = fsel[p]
    /\ \A p \in Pin : pc[p] \in {"reread", "set"} => arg[p].class # "none"

\* A pin has the function its client last gave it, whatever the clients of the
\* register's other pins did, unless one of them called mode() at the same time.
THEOREM FunctionIsKept == Spec => []FunctionKept
<1> DEFINE Function(p) == IF arg[p].class = "none" THEN "INPUT" ELSE "OUTPUT"
           Kept == \A p \in Pin : Settled(p) /\ ~overlap[p] => fsel[p] = Function(p)
<1>0. Kept <=> FunctionKept
  BY DEF Settled, FunctionKept
<1>1. Init => Apart /\ Kept
  BY DEF Init, AllInput, NoCall, Switching, Settled, Apart
<1>2. SoftTypeOK /\ Apart /\ Kept /\ [Next]_vars => Apart' /\ Kept'
  <2> SUFFICES ASSUME SoftTypeOK, Apart, Kept, [Next]_vars PROVE Apart' /\ Kept'
    OBVIOUS
  <2> DEFINE Same(p) == overlap'[p] = overlap[p] /\ arg'[p].class = arg[p].class
             Quiet(p) == /\ Settled(p)' => Settled(p) /\ Same(p)
                         /\ Switching(p)' => pc'[p] = pc[p] /\ Same(p)
  \* A step that leaves the register alone and switches nobody.
  <2>1. ASSUME UNCHANGED <<fsel, copy>>, \A p \in Pin : Quiet(p) PROVE Apart' /\ Kept'
    <3>1. Kept'
      BY <2>1
    <3>2. Apart'
      BY <2>1 DEF Apart, Switching
    <3> QED
      BY <3>1, <3>2
  <2>2. ASSUME NEW q \in Pin, ReadRegister(q) PROVE Apart' /\ Kept'
    <3>1. /\ pc' = [pc EXCEPT ![q] = "clear"] /\ copy' = [copy EXCEPT ![q] = fsel]
          /\ UNCHANGED <<arg, fsel>> /\ pc[q] = "read"
      BY <2>2 DEF ReadRegister, Goto, At
    <3>2. \A p \in Pin \ {q} : overlap'[p] = (overlap[p] \/ Switching(p))
      BY <2>2 DEF ReadRegister
    <3>3. overlap'[q] = \E o \in Pin \ {q} : Switching(o)
      BY <2>2 DEF ReadRegister
    <3>4. \A p \in Pin \ {q} : pc'[p] = pc[p] /\ copy'[p] = copy[p]
      BY <3>1 DEF SoftTypeOK
    <3>5. pc'[q] = "clear" /\ copy'[q] = fsel
      BY <3>1 DEF SoftTypeOK
    <3>6. Kept'
      BY <3>1, <3>2, <3>4, <3>5 DEF Settled
    <3>7. \A p, o \in Pin : p # o /\ Switching(p)' /\ Switching(o)' => overlap'[p]
      BY <3>2, <3>3, <3>4, <3>5 DEF Apart, Switching
    <3>8. \A p, o \in Pin : p # o /\ Settled(p)' /\ ~overlap'[p] /\ pc'[o] \in {"clear", "set"} =>
             copy'[o][p] = fsel'[p]
      <4> SUFFICES ASSUME NEW p \in Pin, NEW o \in Pin, p # o, Settled(p)', ~overlap'[p],
                          pc'[o] \in {"clear", "set"}
                   PROVE  copy'[o][p] = fsel[p]
        BY <3>1
      <4>1. p # q /\ Settled(p) /\ ~overlap[p]
        BY <3>2, <3>4, <3>5 DEF Settled
      <4>2. CASE o = q
        BY <3>5, <4>2
      <4>3. CASE o # q
        BY <3>4, <4>1, <4>3 DEF Apart
      <4> QED
        BY <4>2, <4>3
    <3> QED
      BY <3>1, <3>4, <3>5, <3>6, <3>7, <3>8 DEF Apart
  <2>3. ASSUME NEW q \in Pin, NEW f, Switching(q), pc[q] \in {"clear", "set"},
               fsel' = [copy[q] EXCEPT ![q] = f], copy' = [copy EXCEPT ![q] = AllInput],
               UNCHANGED <<arg, overlap>>, pc' = [pc EXCEPT ![q] = pc'[q]],
               pc'[q] \in {"idle", "emplace"} => f = Function(q),
               pc'[q] \in {"idle", "emplace", "reread"},
               pc'[q] = "reread" => arg[q].class # "none"
        PROVE  Apart' /\ Kept'
    <3>1. \A p \in Pin \ {q} : Settled(p) /\ ~overlap[p] => fsel'[p] = fsel[p]
      BY <2>3 DEF Apart, SoftTypeOK, Register
    <3>2. fsel'[q] = f
      BY <2>3 DEF SoftTypeOK, Register
    <3>3. \A p \in Pin : p # q => pc'[p] = pc[p] /\ copy'[p] = copy[p]
      BY <2>3 DEF SoftTypeOK
    <3>4. Kept'
      BY <2>3, <3>1, <3>2, <3>3 DEF Settled
    <3>5. Apart'
      BY <2>3, <3>1, <3>3 DEF Settled, Apart, Switching
    <3> QED
      BY <3>4, <3>5
  <2>4. ASSUME NEW q \in Pin, ClearBits(q) PROVE Apart' /\ Kept'
    <3>1. /\ pc[q] = "clear" /\ fsel' = [copy[q] EXCEPT ![q] = "INPUT"]
          /\ copy' = [copy EXCEPT ![q] = AllInput] /\ UNCHANGED <<arg, overlap>>
          /\ pc' = [pc EXCEPT ![q] = IF arg[q].class = "none" THEN "idle" ELSE "reread"]
      BY <2>4 DEF ClearBits, At, Goto
    <3>2. pc'[q] = IF arg[q].class = "none" THEN "idle" ELSE "reread"
      BY <3>1 DEF SoftTypeOK
    <3>3. pc' = [pc EXCEPT ![q] = pc'[q]] /\ pc'[q] \in {"idle", "emplace", "reread"}
      BY <3>1, <3>2
    <3>4. /\ pc'[q] \in {"idle", "emplace"} => "INPUT" = Function(q)
          /\ pc'[q] = "reread" => arg[q].class # "none"
      BY <3>2
    <3>5. Switching(q) /\ pc[q] \in {"clear", "set"}
      BY <3>1 DEF Switching
    <3> HIDE DEF Function, Kept
    <3> QED
      BY <2>3, <3>1, <3>3, <3>4, <3>5
  <2>5. ASSUME NEW q \in Pin, SetBits(q) PROVE Apart' /\ Kept'
    <3>1. /\ pc[q] = "set" /\ fsel' = [copy[q] EXCEPT ![q] = "OUTPUT"]
          /\ copy' = [copy EXCEPT ![q] = AllInput] /\ UNCHANGED <<arg, overlap>>
          /\ pc' = [pc EXCEPT ![q] = IF IsSoft(arg[q].class) THEN "emplace" ELSE "idle"]
      BY <2>5 DEF SetBits, At, Goto
    <3>2. pc'[q] = IF IsSoft(arg[q].class) THEN "emplace" ELSE "idle"
      BY <3>1 DEF SoftTypeOK
    <3>3. arg[q].class # "none"
      BY <3>1 DEF Apart
    <3>4. pc' = [pc EXCEPT ![q] = pc'[q]] /\ pc'[q] \in {"idle", "emplace", "reread"}
      BY <3>1, <3>2
    <3>5. /\ pc'[q] \in {"idle", "emplace"} => "OUTPUT" = Function(q)
          /\ pc'[q] = "reread" => arg[q].class # "none"
      BY <3>2, <3>3
    <3>6. Switching(q) /\ pc[q] \in {"clear", "set"}
      BY <3>1 DEF Switching
    <3> HIDE DEF Function, Kept
    <3> QED
      BY <2>3, <3>1, <3>4, <3>5, <3>6
  <2>6. ASSUME NEW q \in Pin, Reread(q) PROVE Apart' /\ Kept'
    <3>1. /\ pc' = [pc EXCEPT ![q] = "set"] /\ copy' = [copy EXCEPT ![q] = fsel]
          /\ UNCHANGED <<arg, fsel, overlap>> /\ pc[q] = "reread"
      BY <2>6 DEF Reread, Goto, At
    <3>2. \A p \in Pin \ {q} : pc'[p] = pc[p] /\ copy'[p] = copy[p]
      BY <3>1 DEF SoftTypeOK
    <3>3. pc'[q] = "set" /\ copy'[q] = fsel
      BY <3>1 DEF SoftTypeOK
    <3>4. Kept'
      BY <3>1, <3>2, <3>3 DEF Settled
    <3>5. Apart'
      BY <3>1, <3>2, <3>3 DEF Apart, Settled, Switching
    <3> QED
      BY <3>4, <3>5
  <2>7. ASSUME NEW p \in Pin, NEW label \in {"mode", "range", "ratio"}, NEW call, Call(p, label, call),
               label = "mode" \/ call.class = arg[p].class
        PROVE  UNCHANGED <<fsel, copy>> /\ \A q \in Pin : Quiet(q)
    <3>1. pc'[p] = label /\ arg'[p] = call /\ pc[p] = "idle" /\ UNCHANGED <<fsel, copy>>
      BY <2>7 DEF Call, At, Goto, SoftTypeOK
    <3>2. overlap' = [overlap EXCEPT ![p] = overlap[p] /\ label # "mode"]
      BY <2>7 DEF Call
    <3>3. label # "mode" => overlap'[p] = overlap[p]
      BY <3>2 DEF SoftTypeOK
    <3>4. \A q \in Pin \ {p} : pc'[q] = pc[q] /\ arg'[q] = arg[q] /\ overlap'[q] = overlap[q]
      BY <2>7, <3>2 DEF Call, Goto, SoftTypeOK
    <3> QED
      BY <2>7, <3>1, <3>3, <3>4 DEF Settled, Switching
  <2>8. ASSUME NEW p \in Pin,
               \/ \E c \in Class, r \in Ranges, v \in Ratios : Construct(p, c, r, v)
               \/ \E r \in Ranges : SetRange(p, r)
               \/ \E v \in Ratios : SetRatio(p, v)
               \/ Destroy(p)
        PROVE  Apart' /\ Kept'
    <3>1. \A n \in Nat : /\ [arg[p] EXCEPT !.range = n].class = arg[p].class
                         /\ [arg[p] EXCEPT !.ratio = n].class = arg[p].class
      BY DEF SoftTypeOK, Calls
    <3>2. Ranges \subseteq Nat /\ Ratios \subseteq Nat
      BY RangeAssumption DEF RangeAssumption
    <3> QED
      BY <2>1, <2>7, <2>8, <3>1, <3>2 DEF Construct, SetRange, SetRatio, Destroy
  <2>9. ASSUME NEW p \in Pin, Locking(p) \/ EndSpace(p) \/ Joined(p) \/ SpaceSet(p)
        PROVE  Apart' /\ Kept'
    <3> USE DEF SoftTypeOK, Goto, switch
    <3>1. UNCHANGED <<fsel, copy, overlap>>
      BY <2>9 DEF Locking, NothingToErase, TerminateSoft, Emplace, RangeSet, RatioRefused, RatioSet,
         EndSpace, Joined, SpaceSet
    <3>2. /\ \A q \in Pin \ {p} : pc'[q] = pc[q]
          /\ Settled(p)' => Settled(p)
          /\ ~Switching(p)'
      BY <2>9 DEF Locking, NothingToErase, TerminateSoft, Emplace, RangeSet, RatioRefused, RatioSet,
         EndSpace, Joined, SpaceSet, Return, At, Settled, Switching
    <3>3. arg' = arg \/ arg' = [arg EXCEPT ![p].range = 0, ![p].ratio = 0]
      BY <2>9 DEF Locking, NothingToErase, TerminateSoft, Emplace, RangeSet, RatioRefused, RatioSet,
         EndSpace, Joined, SpaceSet, Return
    <3>4. \A q \in Pin : arg'[q].class = arg[q].class
      <4>1. [[arg[p] EXCEPT !.range = 0] EXCEPT !.ratio = 0].class = arg[p].class
        BY DEF Calls
      <4>2. \/ arg' = arg
            \/ arg' = [arg EXCEPT ![p] = [[arg[p] EXCEPT !.range = 0] EXCEPT !.ratio = 0]]
        BY <3>3
      <4> QED
        BY <4>1, <4>2
    <3> HIDE DEF SoftTypeOK, Goto, switch
    <3>5. \A q \in Pin : Quiet(q)
      BY <3>1, <3>2, <3>4 DEF Settled, Switching
    <3> QED
      BY <2>1, <3>1, <3>5
  <2>10. CASE UNCHANGED <<client, switch>>
    BY <2>1, <2>10 DEF client, switch, Settled, Switching
  <2>11. ASSUME NEW p \in Pin, SoftThread(p) PROVE UNCHANGED <<client, switch>>
    BY <2>11 DEF SoftThread, ReadMark, ReadSpace, High, Low
  <2>12. CASE Next
    <3>1. PICK p \in Pin :
            \/ \/ \E c \in Class, r \in Ranges, v \in Ratios : Construct(p, c, r, v)
               \/ \E r \in Ranges : SetRange(p, r)
               \/ \E v \in Ratios : SetRatio(p, v)
               \/ Destroy(p)
            \/ Locking(p) \/ Going(p) \/ SoftThread(p)
      BY <2>12 DEF Next
    <3>2. CASE Going(p)
      BY <3>2, <2>2, <2>4, <2>5, <2>6, <2>9 DEF Going
    <3> HIDE DEF Kept
    <3> QED
      BY <3>1, <3>2, <2>8, <2>9, <2>10, <2>11
  <2> QED
    BY <2>10, <2>12 DEF vars
<1> QED
  BY <1>0, <1>1, <1>2, SoftTypeCorrect, PTL DEF Spec
=============================================================================
