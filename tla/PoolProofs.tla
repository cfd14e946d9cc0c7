----------------------------- MODULE PoolProofs -----------------------------
(***************************************************************************)
(* The pool's relays, whatever they are and however they are wired: the    *)
(* interlock while the program runs, and what is left when its process     *)
(* ends and starts again.                                                  *)
(***************************************************************************)
EXTENDS PoolShutdown, RelaySwitcherProofs

-----------------------------------------------------------------------------
(***************************************************************************)
(* Part 1: PoolRelays.                                                     *)
(*                                                                         *)
(* When the push buttons of the pump and its dependents are left alone, so *)
(* that only the io_context thread operates these relays, the calls that   *)
(* CheckConditions makes keep the interlock at every instant, for any      *)
(* number of relays, dependents, pilot lights and other buttons.           *)
(*                                                                         *)
(* The argument: a forced call never forces another one, so the stack of   *)
(* the io_context thread is at most two deep; while the outer call is in   *)
(* its loop, the conditions it has passed are met, because every condition *)
(* of a relay asks for the same state and no other thread changes it; and  *)
(* state_ is the driven level except between the two assignments of one    *)
(* call.                                                                   *)
(***************************************************************************)

\* Only the io_context thread operates the pump and its dependents.
OneOperator == Buttons \cap Group = {}

-----------------------------------------------------------------------------
\* A step of the program keeps the types.
LEMMA PoolTypeStep ==
  ASSUME PoolTypeOK, [PoolNext]_poolVars
  PROVE  PoolTypeOK'
<1>0. TypeOK
  BY DEF PoolTypeOK
<1>1. ASSUME NEW op \in RelayState, NEW r \in Relay, Request(op, r) PROVE PoolTypeOK'
  <2>1. Ioc \in Thread /\ Call(Ioc, op, r)
    BY <1>1, ThreadAssumption DEF Request, ThreadAssumption
  <2>2. QED
    BY <1>0, <1>1, <2>1, CallShape DEF PoolTypeOK, Request, Call, TypeOK
<1>2. ASSUME NEW t \in Thread, RelayStep(t) PROVE PoolTypeOK'
  BY <1>0, <1>2, StepType DEF PoolTypeOK, RelayStep
<1>3. ASSUME NEW b \in Buttons, Pushed(b) \/ Released(b) PROVE PoolTypeOK'
  BY <1>3 DEF PoolTypeOK, TypeOK, Pushed, Released, vars, ReleasePc
<1>4. ASSUME NEW b \in Buttons, CallbackStep(b) PROVE PoolTypeOK'
  <2>1. b \in Thread /\ b \in Relay
    BY ThreadAssumption, ButtonsAssumption DEF ThreadAssumption, ButtonsAssumption
  <2>2. CASE FoundOff(b) \/ FoundOn(b)
    <3>1. PICK op \in RelayState : Call(b, op, b)
      BY <2>2 DEF FoundOff, FoundOn, RelayState
    <3>2. TypeOK'
      BY <1>0, <2>1, <3>1, CallShape DEF Call, TypeOK
    <3>3. QED
      BY <2>2, <3>2 DEF FoundOff, FoundOn, PoolTypeOK, ReleasePc
  <2>3. CASE NotOff(b) \/ NotOn(b)
    BY <2>3 DEF NotOff, NotOn, PoolTypeOK, TypeOK, vars, ReleasePc
  <2>4. QED
    BY <1>4, <2>2, <2>3 DEF CallbackStep
<1>5. CASE UNCHANGED poolVars
  BY <1>5 DEF PoolTypeOK, TypeOK, poolVars, vars
<1>6. QED
  BY <1>1, <1>2, <1>3, <1>4, <1>5 DEF PoolNext

\* PoolRelays keeps to its types, for all relays, wirings of dependents, pilots
\* and buttons.
THEOREM PoolTypeCorrect == PoolSpec => []PoolTypeOK
<1>1. PoolInit => PoolTypeOK
  <2>1. PoolInit => TypeOK
    <3>1. << >> \in Seq(Frame)
      OBVIOUS
    <3>2. QED
      BY <3>1 DEF PoolInit, Init, TypeOK, RelayState
  <2>2. QED
    BY <2>1 DEF PoolInit, PoolTypeOK, ReleasePc
<1>2. PoolTypeOK /\ [PoolNext]_poolVars => PoolTypeOK'
  BY PoolTypeStep
<1>3. QED
  BY <1>1, <1>2, PTL DEF PoolSpec

-----------------------------------------------------------------------------
(***************************************************************************)
(* The inductive invariant of the interlock.                               *)
(*                                                                         *)
(* These are facts about the states st, the outputs out and the stack s of *)
(* the io_context thread.                                                  *)
(***************************************************************************)
\* The conditions of f's relay up to the n-th that bind for f's request are
\* met in the states st, and all of them are.
Passed(st, f, n) ==
    \A k \in DOMAIN Conditions[f.relay] :
        k <= n /\ Conditions[f.relay][k].onOff = f.op =>
            st[Conditions[f.relay][k].relay] = f.op

AllMet(st, f) == \A n \in Nat : Passed(st, f, n)

OuterOK(st, f) ==
    IF f.pc = "conditions" THEN Passed(st, f, f.i - 1) ELSE AllMet(st, f)

\* g is past the assignment of state_.
Assigned(g) == g.pc \in {"pilot", "log", "unlock"}

\* g is the call that f, in its loop, makes for the condition before f.i.
InnerOK(st, f, g) ==
    /\ f.pc = "conditions"
    /\ f.i - 1 \in DOMAIN Conditions[f.relay]
    /\ Conditions[f.relay][f.i - 1].onOff = f.op
    /\ g.relay = Conditions[f.relay][f.i - 1].relay
    /\ g.op = f.op
    /\ Assigned(g) => st[g.relay] = g.op
    /\ Passed(st, f, f.i - 2)

\* Only SwitchOn has the test of state_.
TestOK(f) == f.pc = "test" => f.op = "ON"

\* The output is state_, except between the write of the one and the other.
Agree(st, out, f) ==
    \A r \in Group : out[r] = IF f.pc = "assign" /\ f.relay = r THEN f.op ELSE st[r]

IocInv(st, out, s) ==
    /\ Len(s) \in {0, 1, 2}
    /\ Len(s) = 0 => \A r \in Group : out[r] = st[r]
    /\ Len(s) = 1 => OuterOK(st, s[1]) /\ TestOK(s[1]) /\ Agree(st, out, s[1])
    /\ Len(s) = 2 => InnerOK(st, s[1], s[2]) /\ TestOK(s[2]) /\ Agree(st, out, s[2])

\* The other threads work on relays outside the group.
Elsewhere ==
    \A t \in Buttons : \A k \in 1 .. Len(stack[t]) : stack[t][k].relay \notin Group

CallInv == IocInv(state, gpio, stack[Ioc]) /\ Elsewhere

-----------------------------------------------------------------------------
\* What the wiring of main() gives to every relay.
LEMMA WiringFacts ==
  /\ Pump \in Relay /\ Dependents \subseteq Relay \ {Pump}
  /\ \A r \in Relay : \A k \in DOMAIN Conditions[r] :
        LET c == Conditions[r][k] IN
        /\ c.force = "FORCE_REQUIRED"
        /\ c.onOff = c.required
        /\ \/ r = Pump /\ c.relay \in Dependents /\ c.required = "OFF"
           \/ r \in Dependents /\ c.relay = Pump /\ c.required = "ON"
  /\ \A r \in Relay : /\ DOMAIN Conditions[r] = 1 .. Len(Conditions[r])
                      /\ Len(Conditions[r]) \in Nat
  /\ \A d \in Dependents : \E k \in DOMAIN Conditions[Pump] : Conditions[Pump][k].relay = d
  /\ \A d \in Dependents : 1 \in DOMAIN Conditions[d]
<1>1. /\ Pump \in Relay
      /\ \A k \in DOMAIN DependentOrder : DependentOrder[k] \in Relay \ {Pump}
      /\ DOMAIN DependentOrder \subseteq Nat \ {0}
  BY PumpAssumption, OrderAssumption, ElementOfSeq, LenProperties
  DEF PumpAssumption, OrderAssumption
<1>2. Dependents \subseteq Relay \ {Pump}
  BY <1>1 DEF Dependents
<1> DEFINE off(k) == [relay |-> DependentOrder[k], onOff |-> "OFF",
                      required |-> "OFF", force |-> "FORCE_REQUIRED"]
           on     == [relay |-> Pump, onOff |-> "ON",
                      required |-> "ON", force |-> "FORCE_REQUIRED"]
<1>3. Conditions[Pump] = [k \in DOMAIN DependentOrder |-> off(k)]
  BY <1>1, WiringAssumption, Zenon DEF WiringAssumption, Wiring
<1>4. \A r \in Dependents : Conditions[r] = <<on>>
  <2>1. \A r \in Dependents : r \in Relay /\ r # Pump
    BY <1>2
  <2>2. QED
    BY <2>1, WiringAssumption, Zenon DEF WiringAssumption, Wiring
<1>5. \A r \in Relay : r # Pump /\ r \notin Dependents => Conditions[r] = << >>
  BY WiringAssumption, Zenon DEF WiringAssumption, Wiring
<1>6. DOMAIN <<on>> = {1} /\ <<on>>[1] = on /\ DOMAIN << >> = {}
  OBVIOUS
<1>7. ASSUME NEW r \in Relay, NEW k \in DOMAIN Conditions[r]
      PROVE  LET c == Conditions[r][k] IN
             /\ c.force = "FORCE_REQUIRED"
             /\ c.onOff = c.required
             /\ \/ r = Pump /\ c.relay \in Dependents /\ c.required = "OFF"
                \/ r \in Dependents /\ c.relay = Pump /\ c.required = "ON"
  <2>1. CASE r = Pump
    <3>1. k \in DOMAIN DependentOrder /\ Conditions[r][k] = off(k)
      BY <1>3, <2>1
    <3>2. DependentOrder[k] \in Dependents
      BY <1>1, <3>1 DEF Dependents
    <3>3. QED
      BY <2>1, <3>1, <3>2
  <2>2. CASE r # Pump /\ r \in Dependents
    <3>1. k = 1 /\ Conditions[r][k] = on
      BY <1>4, <1>6, <2>2
    <3>2. QED
      BY <2>2, <3>1
  <2>3. CASE r # Pump /\ r \notin Dependents
    BY <1>5, <1>6, <2>3
  <2>4. QED
    BY <2>1, <2>2, <2>3
<1>8. ASSUME NEW d \in Dependents
      PROVE  /\ \E k \in DOMAIN Conditions[Pump] : Conditions[Pump][k].relay = d
             /\ 1 \in DOMAIN Conditions[d]
  <2>1. PICK k \in DOMAIN DependentOrder : DependentOrder[k] = d
    BY DEF Dependents
  <2>2. k \in DOMAIN Conditions[Pump] /\ Conditions[Pump][k].relay = d
    BY <1>3, <2>1
  <2>3. 1 \in DOMAIN Conditions[d]
    BY <1>4, <1>6
  <2>4. QED
    BY <2>2, <2>3
<1>9. ASSUME NEW r \in Relay
      PROVE  DOMAIN Conditions[r] = 1 .. Len(Conditions[r]) /\ Len(Conditions[r]) \in Nat
  <2>1. Conditions[r] \in Seq(RequiredState)
    BY ConditionsAssumption DEF ConditionsAssumption
  <2>2. QED
    BY <2>1, LenProperties
<1> HIDE DEF off, on
<1>10. QED
  BY <1>1, <1>2, <1>7, <1>8, <1>9

\* f may write its relay's output: the interlock allows it.
Allowed(out, f) ==
    /\ f.relay \in Dependents /\ f.op = "ON" => out[Pump] = "ON"
    /\ f.relay = Pump /\ f.op = "OFF" => \A d \in Dependents : out[d] = "OFF"

-----------------------------------------------------------------------------
(***************************************************************************)
(* What each step of a call does to the invariant, on stacks s and s2.     *)
(***************************************************************************)
\* s2 is s with f as its top frame.
TopBecomes(s, f, s2) ==
    /\ Len(s2) = Len(s)
    /\ s2[Len(s)] = f
    /\ \A k \in 1 .. Len(s) - 1 : s2[k] = s[k]

-----------------------------------------------------------------------------
(***************************************************************************)
(* The steps of the specification.                                         *)
(***************************************************************************)
\* A button's thread works on its own relay, which needs no other.
LEMMA ElsewhereStep ==
  ASSUME TypeOK, CallInv, NEW t \in Buttons, Step(t)
  PROVE  /\ Top(t).relay \in Relay \ Group
         /\ \A k \in 1 .. Len(stack'[t]) : stack'[t][k].relay \notin Group
<1>1. t \in Thread
  BY ThreadAssumption DEF ThreadAssumption
<1>2. ~Idle(t)
  BY <1>1, OwnStack
<1> DEFINE n == Len(stack[t])
<1>3. n \in Nat \ {0} /\ Top(t) = stack[t][n] /\ Top(t) \in Frame
  BY <1>1, <1>2, TopShape
<1>4. \A k \in 1 .. n : stack[t][k].relay \notin Group
  BY DEF CallInv, Elsewhere
<1>5. Top(t).relay \in Relay \ Group
  BY <1>3, <1>4 DEF Frame
<1>6. ~InLoop(t)
  <2>1. \A r \in Relay \ Group : DOMAIN Conditions[r] = {}
    BY WiringFacts DEF Group
  <2>2. QED
    BY <1>5, <2>1 DEF InLoop
<1>7. ASSUME NEW pc \in Statement, Goto(t, pc)
      PROVE  \A k \in 1 .. Len(stack'[t]) : stack'[t][k].relay \notin Group
  <2>1. /\ Len(stack'[t]) = n
        /\ stack'[t][n] = [Top(t) EXCEPT !.pc = pc]
        /\ \A k \in 1 .. n - 1 : stack'[t][k] = stack[t][k]
    BY <1>1, <1>2, <1>7, StackShapes
  <2>2. [Top(t) EXCEPT !.pc = pc].relay = Top(t).relay
    BY <1>3 DEF Frame
  <2>3. ASSUME NEW k \in 1 .. n PROVE stack'[t][k].relay \notin Group
    <3>1. CASE k = n
      BY <1>5, <2>1, <2>2, <3>1
    <3>2. CASE k # n
      BY <1>3, <1>4, <2>1, <3>2
    <3>3. QED
      BY <3>1, <3>2
  <2>4. QED
    BY <2>1, <2>3
<1>8. ASSUME Return(t)
      PROVE  \A k \in 1 .. Len(stack'[t]) : stack'[t][k].relay \notin Group
  <2>1. /\ Len(stack'[t]) = n - 1
        /\ \A k \in 1 .. n - 1 : stack'[t][k] = stack[t][k]
    BY <1>1, <1>2, <1>8, StackShapes
  <2>2. QED
    BY <1>3, <1>4, <2>1
<1>9. \/ \E pc \in Statement : Goto(t, pc)
      \/ Return(t)
  BY <1>6 DEF Step, ConditionHolds, ForceRequired, AbortRequest, ConditionsDone,
     AlreadyOn, NotYetOn, Drive, Assign, DrivePilot, Log, LogDisabled, LogLock, LogUnlock,
     Statement, AfterConditions
<1>10. QED
  BY <1>5, <1>7, <1>8, <1>9

\* Every step of the pool's relays keeps the invariant, and is a step of the
\* interlock or leaves the outputs alone.
LEMMA PoolStep ==
  ASSUME OneOperator, PoolTypeOK, CallInv, [PoolNext]_poolVars
  PROVE  CallInv' /\ [Promise!Next]_gpio
\* The frames of a stack of the io_context thread.
<1>frames. ASSUME NEW s \in Seq(Frame), s # << >>, NEW st, NEW out, IocInv(st, out, s)
           PROVE  /\ Len(s) = 1 \/ Len(s) = 2
                  /\ \A k \in 1 .. Len(s) : s[k] \in Frame
                  /\ s[Len(s)] \in Frame
                  /\ TestOK(s[Len(s)]) /\ Agree(st, out, s[Len(s)])
  <2> USE <1>frames
  <2>1. Len(s) # 0
    BY EmptySeq
  <2>2. QED
    BY <2>1, ElementOfSeq DEF IocInv
\* A call of the io_context thread, one step further.
<1>ioc. ASSUME TypeOK, CallInv, Step(Ioc)
        PROVE  /\ IocInv(state', gpio', stack'[Ioc])
               /\ Drive(Ioc) => Allowed(gpio, Top(Ioc))
  <2> USE <1>ioc
  \* What one condition of a relay r says.
  <2>wired. ASSUME NEW r \in Relay, NEW k \in DOMAIN Conditions[r]
            PROVE  /\ k \in Nat \ {0}
                   /\ Conditions[r][k].onOff = Conditions[r][k].required
                   /\ Conditions[r][k].relay \in Relay
                   /\ Conditions[r][k].relay # r
                   /\ \/ /\ r = Pump
                         /\ Conditions[r][k].relay \in Dependents
                         /\ Conditions[r][k].required = "OFF"
                      \/ /\ r \in Dependents
                         /\ Conditions[r][k].relay = Pump
                         /\ Conditions[r][k].required = "ON"
    BY <2>wired, WiringFacts
  \* What a thread that drives a relay has made sure of is what the interlock
  \* asks for.  A forced call asks for nothing more: it switches the pump on or a
  \* dependent off.
  <2>mayDrive. ASSUME NEW st, NEW f \in Frame, NEW out,
                      \A x \in Group : out[x] = st[x],
                      \/ AllMet(st, f)
                      \/ f.relay \in Dependents /\ f.op = "OFF"
                      \/ f.relay = Pump /\ f.op = "ON"
               PROVE  Allowed(out, f)
    <3> USE <2>mayDrive
    <3>1. CASE AllMet(st, f)
      <4>1. f.relay \in Relay
        BY DEF Frame
      <4>2. ASSUME NEW k \in DOMAIN Conditions[f.relay], Conditions[f.relay][k].onOff = f.op
            PROVE  st[Conditions[f.relay][k].relay] = f.op
        <5>1. k \in Nat /\ k <= k
          BY <4>1, <2>wired
        <5>2. QED
          BY <3>1, <4>2, <5>1 DEF AllMet, Passed
      <4>3. ASSUME f.relay \in Dependents, f.op = "ON" PROVE out[Pump] = "ON"
        <5>1. 1 \in DOMAIN Conditions[f.relay]
          BY <4>3, WiringFacts
        <5>2. /\ Conditions[f.relay][1].onOff = "ON"
              /\ Conditions[f.relay][1].relay = Pump
          BY <4>1, <4>3, <5>1, WiringFacts
        <5>3. QED
          BY <4>2, <4>3, <5>1, <5>2 DEF Group
      <4>4. ASSUME f.relay = Pump, f.op = "OFF", NEW d \in Dependents PROVE out[d] = "OFF"
        <5>1. PICK k \in DOMAIN Conditions[Pump] : Conditions[Pump][k].relay = d
          BY WiringFacts
        <5>2. Conditions[Pump][k].onOff = "OFF"
          BY <5>1, WiringFacts
        <5>3. QED
          BY <4>2, <4>4, <5>1, <5>2 DEF Group
      <4>5. QED
        BY <4>3, <4>4 DEF Allowed
    <3>2. CASE \/ f.relay \in Dependents /\ f.op = "OFF"
               \/ f.relay = Pump /\ f.op = "ON"
      BY <3>2, WiringFacts DEF Allowed
    <3>3. QED
      BY <3>1, <3>2
  \* A forced call switches the pump on or a dependent off.
  <2>forced. ASSUME NEW st, NEW f \in Frame, NEW g, InnerOK(st, f, g)
             PROVE  \/ g.relay \in Dependents /\ g.op = "OFF"
                    \/ g.relay = Pump /\ g.op = "ON"
    <3> USE <2>forced
    <3> DEFINE r == f.relay
               k == f.i - 1
               c == Conditions[r][k]
    <3>1. r \in Relay /\ k \in DOMAIN Conditions[r]
      BY DEF Frame, InnerOK
    <3>2. g.relay = c.relay /\ g.op = c.onOff
      BY DEF InnerOK
    <3> HIDE DEF r, k
    <3>3. /\ c.onOff = c.required
          /\ \/ c.relay \in Dependents /\ c.required = "OFF"
             \/ c.relay = Pump /\ c.required = "ON"
      BY <3>1, <2>wired
    <3> HIDE DEF c
    <3>4. QED
      BY <3>2, <3>3
  \* A condition that does not bind or is met is passed.
  <2>iterate. ASSUME NEW st, NEW out, NEW s \in Seq(Frame), s # << >>, NEW s2, IocInv(st, out, s),
                     NEW f, f = s[Len(s)], f.pc = "conditions", f.i \in DOMAIN Conditions[f.relay],
                     \/ Conditions[f.relay][f.i].onOff # f.op
                     \/ st[Conditions[f.relay][f.i].relay] = Conditions[f.relay][f.i].required,
                     TopBecomes(s, [f EXCEPT !.i = f.i + 1], s2)
              PROVE  IocInv(st, out, s2)
    <3> USE <2>iterate
    <3> DEFINE g == [f EXCEPT !.i = f.i + 1]
    <3>1. f \in Frame /\ (Len(s) = 1 \/ Len(s) = 2) /\ Agree(st, out, f)
      BY <1>frames
    <3>2. /\ g.op = f.op /\ g.relay = f.relay /\ g.pc = f.pc /\ g.i = f.i + 1
          /\ f.i \in Nat \ {0} /\ f.relay \in Relay
      BY <3>1 DEF Frame
    <3>3. s2[Len(s)] = g /\ Len(s2) = Len(s) /\ \A k \in 1 .. Len(s) - 1 : s2[k] = s[k]
      BY DEF TopBecomes
    <3> HIDE DEF g
    <3>4. TestOK(g) /\ Agree(st, out, g)
      BY <3>1, <3>2 DEF TestOK, Agree
    <3>5. CASE Len(s) = 1
      <4>1. Passed(st, f, f.i - 1)
        BY <3>5 DEF IocInv, OuterOK
      <4>2. ASSUME NEW k \in DOMAIN Conditions[g.relay], k <= f.i,
                   Conditions[g.relay][k].onOff = g.op
            PROVE  st[Conditions[g.relay][k].relay] = g.op
        <5>0. g.relay \in Relay
          BY <3>2
        <5>1. k \in Nat /\ Conditions[g.relay][k].onOff = Conditions[g.relay][k].required
          BY <5>0, <2>wired
        <5>2. CASE k = f.i
          BY <3>2, <4>2, <5>1, <5>2
        <5>3. CASE k # f.i
          <6>1. k <= f.i - 1
            BY <3>2, <4>2, <5>1, <5>3
          <6>2. k \in DOMAIN Conditions[f.relay] /\ Conditions[f.relay][k].onOff = f.op
            BY <3>2, <4>2
          <6>3. st[Conditions[f.relay][k].relay] = f.op
            BY <4>1, <6>1, <6>2 DEF Passed
          <6>4. QED
            BY <3>2, <6>3
        <5>4. QED
          BY <5>2, <5>3
      <4>3. g.pc = "conditions" /\ g.i - 1 = f.i
        BY <3>2
      <4>4. OuterOK(st, g)
        BY <4>2, <4>3 DEF OuterOK, Passed
      <4>5. QED
        BY <3>3, <3>4, <3>5, <4>4 DEF IocInv
    <3>6. CASE Len(s) = 2
      <4>1. InnerOK(st, s[1], f)
        BY <3>6 DEF IocInv
      <4>2. InnerOK(st, s[1], g)
        BY <3>2, <4>1 DEF InnerOK, Assigned
      <4>3. QED
        BY <3>3, <3>4, <3>6, <4>2 DEF IocInv
    <3>7. QED
      BY <3>1, <3>5, <3>6
  \* Only the outer call forces another, and it has passed every condition before.
  <2>force.   ASSUME NEW st, NEW out, NEW s \in Seq(Frame), s # << >>, NEW s2, IocInv(st, out, s),
                     NEW f, f = s[Len(s)], f.pc = "conditions", f.i \in DOMAIN Conditions[f.relay],
                     NEW c, c = Conditions[f.relay][f.i], c.onOff = f.op,
                     Len(s2) = Len(s) + 1,
                     s2[Len(s) + 1] = Activation(c.required, c.relay),
                     s2[Len(s)] = [f EXCEPT !.i = f.i + 1]
              PROVE  IocInv(st, out, s2)
    <3> USE <2>force
    <3> DEFINE g == [f EXCEPT !.i = f.i + 1]
               a == Activation(c.required, c.relay)
    <3>1. f \in Frame /\ (Len(s) = 1 \/ Len(s) = 2) /\ Agree(st, out, f)
      BY <1>frames
    <3>2. /\ g.op = f.op /\ g.relay = f.relay /\ g.pc = f.pc /\ g.i = f.i + 1
          /\ f.i \in Nat \ {0} /\ f.relay \in Relay
      BY <3>1 DEF Frame
    <3>3. a.op = c.required /\ a.relay = c.relay /\ a.pc = "conditions"
      BY DEF Activation
    <3> HIDE DEF g, a
    <3>4. /\ c.required = c.onOff /\ c.onOff = f.op
          /\ \/ f.relay = Pump /\ c.required = "OFF"
             \/ f.relay \in Dependents /\ c.required = "ON"
      BY <3>2, <2>wired
    <3>5. CASE Len(s) = 1
      <4>1. /\ g.pc = "conditions" /\ g.i - 2 = f.i - 1 /\ g.i - 1 = f.i
            /\ g.relay = f.relay /\ g.op = f.op
        BY <3>2
      <4>2. Passed(st, f, f.i - 1)
        BY <3>5 DEF IocInv, OuterOK
      <4>3. Passed(st, g, g.i - 2)
        BY <4>1, <4>2 DEF Passed
      <4>4. InnerOK(st, g, a)
        BY <3>3, <3>4, <4>1, <4>3 DEF InnerOK, Assigned
      <4>5. TestOK(a) /\ Agree(st, out, a)
        BY <3>1, <3>3 DEF TestOK, Agree
      <4>6. Len(s2) = 2 /\ s2[1] = g /\ s2[2] = a
        BY <3>5 DEF g, a
      <4>7. QED
        BY <4>4, <4>5, <4>6 DEF IocInv
    <3>6. CASE Len(s) = 2
      <4>1. InnerOK(st, s[1], f) /\ s[1] \in Frame
        BY <3>6, <1>frames DEF IocInv
      <4>2. \/ f.relay \in Dependents /\ f.op = "OFF"
            \/ f.relay = Pump /\ f.op = "ON"
        BY <4>1, <2>forced
      <4>3. Pump \notin Dependents
        BY WiringFacts
      <4>4. QED
        BY <3>4, <4>2, <4>3
    <3>7. QED
      BY <3>1, <3>5, <3>6
  \* The statements that change neither state_ nor the output.
  <2>goto. ASSUME NEW st, NEW out, NEW s \in Seq(Frame), s # << >>, NEW s2, IocInv(st, out, s),
                  NEW f, f = s[Len(s)], NEW pc \in Statement,
                  \/ /\ f.pc = "conditions" /\ f.i \notin DOMAIN Conditions[f.relay]
                     /\ pc = "drive" \/ (pc = "test" /\ f.op = "ON")
                  \/ f.pc = "test" /\ pc = "drive"
                  \/ f.pc = "pilot" /\ pc = "log"
                  \/ f.pc = "log" /\ pc = "unlock",
                  TopBecomes(s, [f EXCEPT !.pc = pc], s2)
           PROVE  IocInv(st, out, s2)
    <3> USE <2>goto
    <3> DEFINE g == [f EXCEPT !.pc = pc]
    <3>1. f \in Frame /\ (Len(s) = 1 \/ Len(s) = 2) /\ Agree(st, out, f) /\ TestOK(f)
      BY <1>frames
    <3>2. /\ g.op = f.op /\ g.relay = f.relay /\ g.pc = pc /\ g.i = f.i
          /\ f.i \in Nat \ {0} /\ f.relay \in Relay
      BY <3>1 DEF Frame
    <3>3. s2[Len(s)] = g /\ Len(s2) = Len(s) /\ \A k \in 1 .. Len(s) - 1 : s2[k] = s[k]
      BY DEF TopBecomes
    <3> HIDE DEF g
    <3>4. TestOK(g) /\ Agree(st, out, g) /\ g.pc # "conditions"
      BY <3>1, <3>2 DEF TestOK, Agree
    <3>5. CASE Len(s) = 1
      <4>1. AllMet(st, f)
        <5>1. CASE f.pc # "conditions"
          BY <3>5, <5>1 DEF IocInv, OuterOK
        <5>2. CASE f.pc = "conditions"
          <6>1. Passed(st, f, f.i - 1) /\ f.i \notin DOMAIN Conditions[f.relay]
            BY <3>5, <5>2 DEF IocInv, OuterOK
          <6>2. \A k \in DOMAIN Conditions[f.relay] : k <= f.i - 1
            BY <3>2, <6>1, WiringFacts
          <6>3. QED
            BY <6>1, <6>2 DEF AllMet, Passed
        <5>3. QED
          BY <5>1, <5>2
      <4>2. AllMet(st, g)
        BY <3>2, <4>1 DEF AllMet, Passed
      <4>3. QED
        BY <3>3, <3>4, <3>5, <4>2 DEF IocInv, OuterOK
    <3>6. CASE Len(s) = 2
      <4>1. InnerOK(st, s[1], f)
        BY <3>6 DEF IocInv
      <4>2. InnerOK(st, s[1], g)
        BY <3>2, <4>1 DEF InnerOK, Assigned
      <4>3. QED
        BY <3>3, <3>4, <3>6, <4>2 DEF IocInv
    <3>7. QED
      BY <3>1, <3>5, <3>6
  \* The write of the output, after the loop: the interlock allows it.
  <2>drive. ASSUME NEW st, NEW out \in [Relay -> RelayState],
                   NEW s \in Seq(Frame), s # << >>, NEW s2, IocInv(st, out, s),
                   NEW f, f = s[Len(s)], f.pc = "drive",
                   TopBecomes(s, [f EXCEPT !.pc = "assign"], s2),
                   NEW out2, out2 = [out EXCEPT ![f.relay] = f.op]
            PROVE  IocInv(st, out2, s2) /\ Allowed(out, f)
    <3> USE <2>drive
    <3> DEFINE g == [f EXCEPT !.pc = "assign"]
    <3>1. f \in Frame /\ (Len(s) = 1 \/ Len(s) = 2) /\ Agree(st, out, f)
      BY <1>frames
    <3>2. g.op = f.op /\ g.relay = f.relay /\ g.pc = "assign" /\ g.i = f.i /\ f.relay \in Relay
      BY <3>1 DEF Frame
    <3>3. s2[Len(s)] = g /\ Len(s2) = Len(s) /\ \A k \in 1 .. Len(s) - 1 : s2[k] = s[k]
      BY DEF TopBecomes
    <3> HIDE DEF g
    <3>4. \A x \in Group : out[x] = st[x]
      BY <3>1 DEF Agree
    <3>5. Group \subseteq Relay
      BY WiringFacts DEF Group
    <3>6. TestOK(g) /\ Agree(st, out2, g)
      BY <3>2, <3>4, <3>5 DEF TestOK, Agree
    <3>7. CASE Len(s) = 1
      <4>1. AllMet(st, f)
        BY <3>7 DEF IocInv, OuterOK
      <4>2. AllMet(st, g)
        BY <3>2, <4>1 DEF AllMet, Passed
      <4>3. IocInv(st, out2, s2)
        BY <3>2, <3>3, <3>6, <3>7, <4>2 DEF IocInv, OuterOK
      <4>4. QED
        BY <3>1, <3>4, <4>1, <4>3, <2>mayDrive
    <3>8. CASE Len(s) = 2
      <4>1. InnerOK(st, s[1], f) /\ s[1] \in Frame
        BY <3>8, <1>frames DEF IocInv
      <4>2. InnerOK(st, s[1], g)
        BY <3>2, <4>1 DEF InnerOK, Assigned
      <4>3. IocInv(st, out2, s2)
        BY <3>3, <3>6, <3>8, <4>2 DEF IocInv
      <4>4. \/ f.relay \in Dependents /\ f.op = "OFF"
            \/ f.relay = Pump /\ f.op = "ON"
        BY <4>1, <2>forced
      <4>5. QED
        BY <3>1, <3>4, <4>3, <4>4, <2>mayDrive
    <3>9. QED
      BY <3>1, <3>7, <3>8
  \* The write of state_: a call needs no condition on its own relay, and a forced
  \* call sets what its caller waits for.
  <2>assign.   ASSUME NEW out, NEW st \in [Relay -> RelayState],
                      NEW s \in Seq(Frame), s # << >>, NEW s2, IocInv(st, out, s),
                      NEW f, f = s[Len(s)], f.pc = "assign",
                      TopBecomes(s, [f EXCEPT !.pc = "pilot"], s2),
                      NEW st2, st2 = [st EXCEPT ![f.relay] = f.op]
               PROVE  IocInv(st2, out, s2)
    <3> USE <2>assign
    \* No relay has a condition on itself.
    <3>own. ASSUME f \in Frame, AllMet(st, f)
            PROVE  AllMet(st2, f)
      <4> USE <3>own
      <4>1. f.relay \in Relay /\ \A x \in Relay : x # f.relay => st2[x] = st[x]
        BY DEF Frame
      <4>2. ASSUME NEW n \in Nat PROVE Passed(st2, f, n)
        <5>1. Passed(st, f, n)
          BY DEF AllMet
        <5>2. \A k \in DOMAIN Conditions[f.relay] :
                 /\ Conditions[f.relay][k].relay \in Relay
                 /\ Conditions[f.relay][k].relay # f.relay
          BY <4>1, <2>wired
        <5>3. QED
          BY <5>1, <5>2 DEF Passed
      <4>3. QED
        BY <4>2 DEF AllMet
    <3> DEFINE g == [f EXCEPT !.pc = "pilot"]
    <3>1. f \in Frame /\ (Len(s) = 1 \/ Len(s) = 2) /\ Agree(st, out, f)
      BY <1>frames
    <3>2. g.op = f.op /\ g.relay = f.relay /\ g.pc = "pilot" /\ g.i = f.i /\ f.relay \in Relay
      BY <3>1 DEF Frame
    <3>3. s2[Len(s)] = g /\ Len(s2) = Len(s) /\ \A k \in 1 .. Len(s) - 1 : s2[k] = s[k]
      BY DEF TopBecomes
    <3> HIDE DEF g
    <3>4. Group \subseteq Relay
      BY WiringFacts DEF Group
    <3>5. st2[f.relay] = f.op /\ \A x \in Relay : x # f.relay => st2[x] = st[x]
      BY <3>2
    <3>6. TestOK(g) /\ Agree(st2, out, g)
      BY <3>1, <3>2, <3>4, <3>5 DEF TestOK, Agree
    <3>7. CASE Len(s) = 1
      <4>1. AllMet(st, f)
        BY <3>7 DEF IocInv, OuterOK
      <4>2. f \in Frame
        BY <3>1
      <4>3. AllMet(st2, f)
        BY <4>1, <4>2, <3>own, Zenon
      <4>4. AllMet(st2, g)
        <5>1. \A n \in Nat : Passed(st2, f, n)
          BY <4>3 DEF AllMet
        <5>2. \A n \in Nat : Passed(st2, g, n)
          BY <3>2, <5>1 DEF Passed
        <5>3. QED
          BY <5>2 DEF AllMet
      <4>5. QED
        BY <3>2, <3>3, <3>6, <3>7, <4>4 DEF IocInv, OuterOK
    <3>8. CASE Len(s) = 2
      <4>1. InnerOK(st, s[1], f) /\ s[1] \in Frame
        BY <3>8, <1>frames DEF IocInv
      <4>2. s[1].relay \in Relay
        BY <4>1 DEF Frame
      <4>3. \A k \in DOMAIN Conditions[s[1].relay] : Conditions[s[1].relay][k].relay \in Relay
        BY <4>2, WiringFacts
      <4>4. Passed(st2, s[1], s[1].i - 2)
        BY <3>5, <4>1, <4>3 DEF InnerOK, Passed
      <4>5. InnerOK(st2, s[1], g)
        BY <3>2, <3>5, <4>1, <4>4 DEF InnerOK, Assigned
      <4>6. QED
        BY <3>3, <3>6, <3>8, <4>5 DEF IocInv
    <3>9. QED
      BY <3>1, <3>7, <3>8
  \* A call that returns leaves its relay in the state it was asked for, which is
  \* what the caller's condition asks for.
  <2>return. ASSUME NEW st, NEW out, NEW s \in Seq(Frame), s # << >>, NEW s2 \in Seq(Frame),
                    IocInv(st, out, s), NEW f, f = s[Len(s)],
                    f.pc \in {"log", "unlock"} \/ (f.pc = "test" /\ st[f.relay] = "ON"),
                    Len(s2) = Len(s) - 1,
                    \A k \in 1 .. Len(s) - 1 : s2[k] = s[k]
             PROVE  IocInv(st, out, s2)
    <3> USE <2>return
    <3>1. f \in Frame /\ (Len(s) = 1 \/ Len(s) = 2) /\ Agree(st, out, f) /\ TestOK(f)
      BY <1>frames
    <3>2. \A x \in Group : out[x] = st[x]
      BY <3>1 DEF Agree
    <3>3. CASE Len(s) = 1
      BY <3>2, <3>3 DEF IocInv
    <3>4. CASE Len(s) = 2
      <4>1. InnerOK(st, s[1], f) /\ s[1] \in Frame
        BY <3>4, <1>frames DEF IocInv
      <4>2. s[1].relay \in Relay /\ s[1].i \in Nat \ {0}
        BY <4>1 DEF Frame
      <4>3. st[f.relay] = f.op
        BY <3>1, <4>1 DEF InnerOK, Assigned, TestOK
      <4> DEFINE e == s[1]
      <4>4. ASSUME NEW k \in DOMAIN Conditions[e.relay], k <= e.i - 1,
                   Conditions[e.relay][k].onOff = e.op
            PROVE  st[Conditions[e.relay][k].relay] = e.op
        <5>1. k \in Nat
          BY <4>2, WiringFacts
        <5>2. CASE k = e.i - 1
          BY <4>1, <4>3, <5>2 DEF InnerOK
        <5>3. CASE k # e.i - 1
          <6>1. k <= e.i - 2
            BY <4>2, <4>4, <5>1, <5>3
          <6>2. Passed(st, e, e.i - 2)
            BY <4>1 DEF InnerOK
          <6>3. QED
            BY <4>4, <6>1, <6>2 DEF Passed
        <5>4. QED
          BY <5>2, <5>3
      <4>5. OuterOK(st, e) /\ e.pc = "conditions"
        BY <4>1, <4>4 DEF OuterOK, InnerOK, Passed
      <4>6. TestOK(e) /\ Agree(st, out, e)
        BY <3>2, <4>5 DEF TestOK, Agree
      <4>7. s2[1] = e
        BY <3>4
      <4> HIDE DEF e
      <4>8. OuterOK(st, s2[1]) /\ TestOK(s2[1]) /\ Agree(st, out, s2[1])
        BY <4>5, <4>6, <4>7, Zenon
      <4>9. Len(s2) = 1
        BY <3>4
      <4>10. QED
        BY <4>8, <4>9 DEF IocInv
    <3>5. QED
      BY <3>1, <3>3, <3>4
  <2> DEFINE s == stack[Ioc]
             f == Top(Ioc)
  <2>1. Ioc \in Thread /\ ~Idle(Ioc)
    BY ThreadAssumption
    DEF ThreadAssumption, Step, ConditionHolds, ForceRequired, AbortRequest, ConditionsDone,
        AlreadyOn, NotYetOn, Drive, Assign, DrivePilot, Log, LogDisabled, LogLock, LogUnlock,
        InLoop, At, Idle
  <2>2. /\ s \in Seq(Frame) /\ s # << >> /\ f = s[Len(s)] /\ f \in Frame
        /\ IocInv(state, gpio, s)
    BY <2>1, TopShape DEF Idle, CallInv
  <2>3. /\ f.relay \in Relay /\ f.op \in RelayState
        /\ state \in [Relay -> RelayState] /\ gpio \in [Relay -> RelayState]
    BY <2>2 DEF Frame, TypeOK
  <2>4. ASSUME NEW pc \in Statement, Goto(Ioc, pc)
        PROVE  TopBecomes(s, [f EXCEPT !.pc = pc], stack'[Ioc])
    BY <2>1, <2>4, StackShapes DEF TopBecomes
  <2>5. ASSUME Return(Ioc)
        PROVE  /\ stack'[Ioc] \in Seq(Frame)
               /\ Len(stack'[Ioc]) = Len(s) - 1
               /\ \A k \in 1 .. Len(s) - 1 : stack'[Ioc][k] = s[k]
    BY <2>1, <2>5, StackShapes
  <2>6. CASE ConditionHolds(Ioc)
    <3>1. /\ f.pc = "conditions" /\ f.i \in DOMAIN Conditions[f.relay]
          /\ \/ Conditions[f.relay][f.i].onOff # f.op
             \/ state[Conditions[f.relay][f.i].relay] = Conditions[f.relay][f.i].required
      BY <2>6 DEF ConditionHolds, InLoop, At, Unmet, Condition, Top
    <3>2. TopBecomes(s, [f EXCEPT !.i = f.i + 1], stack'[Ioc])
      BY <2>1, <2>6, StackShapes DEF TypeOK, ConditionHolds, TopBecomes
    <3> HIDE DEF s, f
    <3>3. IocInv(state, gpio, stack'[Ioc])
      BY <2>2, <3>1, <3>2, <2>iterate
    <3>4. QED
      BY <2>6, <3>1, <3>3 DEF ConditionHolds, Drive, At, f, Top
  <2>7. CASE ForceRequired(Ioc)
    <3> DEFINE c == Condition(Ioc)
    <3>1. /\ f.pc = "conditions" /\ f.i \in DOMAIN Conditions[f.relay]
          /\ c = Conditions[f.relay][f.i] /\ c.onOff = f.op
      BY <2>7 DEF ForceRequired, InLoop, At, Unmet, Condition, Top
    <3>2. /\ Len(stack'[Ioc]) = Len(s) + 1
          /\ stack'[Ioc][Len(s) + 1] = Activation(c.required, c.relay)
          /\ stack'[Ioc][Len(s)] = [f EXCEPT !.i = f.i + 1]
      BY <2>1, <2>7, ForceShape
    <3> HIDE DEF s, f, c
    <3>3. IocInv(state, gpio, stack'[Ioc])
      BY <2>2, <3>1, <3>2, <2>force
    <3>4. QED
      BY <2>7, <3>1, <3>3 DEF ForceRequired, Drive, At, f, Top
  <2>8. CASE AbortRequest(Ioc)
    <3>1. /\ f.i \in DOMAIN Conditions[f.relay]
          /\ Conditions[f.relay][f.i].force = "ABORT_REQUEST"
      BY <2>8 DEF AbortRequest, InLoop, Condition
    <3> HIDE DEF f
    <3>2. QED
      BY <2>3, <3>1, WiringFacts
  <2>9. CASE ConditionsDone(Ioc) \/ NotYetOn(Ioc)
    <3> DEFINE pc == IF ConditionsDone(Ioc) THEN AfterConditions(f) ELSE "drive"
    <3>1. /\ pc \in Statement /\ Goto(Ioc, pc)
          /\ \/ /\ f.pc = "conditions" /\ f.i \notin DOMAIN Conditions[f.relay]
                /\ pc = "drive" \/ (pc = "test" /\ f.op = "ON")
             \/ f.pc = "test" /\ pc = "drive"
      BY <2>9 DEF ConditionsDone, NotYetOn, InLoop, At, AfterConditions, Statement, Top
    <3> HIDE DEF pc
    <3>2. TopBecomes(s, [f EXCEPT !.pc = pc], stack'[Ioc])
      BY <2>4, <3>1
    <3> HIDE DEF s, f
    <3>3. IocInv(state, gpio, stack'[Ioc])
      BY <2>2, <3>1, <3>2, <2>goto
    <3>4. QED
      BY <2>9, <3>1, <3>3 DEF ConditionsDone, NotYetOn, Drive, At, f, Top
  <2>10. CASE DrivePilot(Ioc) \/ LogLock(Ioc)
    <3> DEFINE pc == IF DrivePilot(Ioc) THEN "log" ELSE "unlock"
    <3>1. /\ pc \in Statement /\ Goto(Ioc, pc)
          /\ \/ f.pc = "pilot" /\ pc = "log"
             \/ f.pc = "log" /\ pc = "unlock"
      BY <2>10 DEF DrivePilot, LogLock, At, Statement, Top
    <3> HIDE DEF pc
    <3>2. TopBecomes(s, [f EXCEPT !.pc = pc], stack'[Ioc])
      BY <2>4, <3>1
    <3> HIDE DEF s, f
    <3>3. IocInv(state, gpio, stack'[Ioc])
      BY <2>2, <3>1, <3>2, <2>goto
    <3>4. QED
      BY <2>10, <3>1, <3>3 DEF DrivePilot, LogLock, Drive, At, f, Top
  <2>11. CASE Drive(Ioc)
    <3>1. f.pc = "drive" /\ gpio' = [gpio EXCEPT ![f.relay] = f.op] /\ state' = state
      BY <2>11 DEF Drive, At, Top
    <3>2. TopBecomes(s, [f EXCEPT !.pc = "assign"], stack'[Ioc])
      BY <2>4, <2>11 DEF Drive, Statement
    <3> HIDE DEF s, f
    <3>3. IocInv(state, gpio', stack'[Ioc]) /\ Allowed(gpio, f)
      BY <2>2, <2>3, <3>1, <3>2, <2>drive
    <3>4. IocInv(state', gpio', stack'[Ioc])
      BY <3>1, <3>3, Zenon
    <3>5. QED
      BY <3>3, <3>4 DEF f
  <2>12. CASE Assign(Ioc)
    <3>1. f.pc = "assign" /\ state' = [state EXCEPT ![f.relay] = f.op] /\ gpio' = gpio
      BY <2>12 DEF Assign, At, Top
    <3>2. TopBecomes(s, [f EXCEPT !.pc = "pilot"], stack'[Ioc])
      BY <2>4, <2>12 DEF Assign, Statement
    <3> HIDE DEF s, f
    <3>3. IocInv(state', gpio, stack'[Ioc])
      BY <2>2, <2>3, <3>1, <3>2, <2>assign
    <3>4. QED
      BY <3>1, <3>3 DEF Drive, At, f, Top
  <2>13. CASE AlreadyOn(Ioc) \/ LogDisabled(Ioc) \/ LogUnlock(Ioc)
    <3>1. /\ f.pc \in {"log", "unlock"} \/ (f.pc = "test" /\ state[f.relay] = "ON")
          /\ Return(Ioc)
      BY <2>13 DEF AlreadyOn, LogDisabled, LogUnlock, At, Top
    <3>2. /\ stack'[Ioc] \in Seq(Frame)
          /\ Len(stack'[Ioc]) = Len(s) - 1
          /\ \A k \in 1 .. Len(s) - 1 : stack'[Ioc][k] = s[k]
      BY <2>5, <3>1
    <3> HIDE DEF s, f
    <3>3. IocInv(state, gpio, stack'[Ioc])
      BY <2>2, <3>1, <3>2, <2>return
    <3>4. QED
      BY <2>13, <3>1, <3>3 DEF AlreadyOn, LogDisabled, LogUnlock, Drive, At, f, Top
  <2>14. QED
    BY <2>6, <2>7, <2>8, <2>9, <2>10, <2>11, <2>12, <2>13 DEF Step, Log
\* So does a call that begins.
<1>call. ASSUME OneOperator, TypeOK, CallInv, NEW op \in RelayState, NEW r \in Relay,
                NEW t \in Thread, Call(t, op, r), t = Ioc \/ (t \in Buttons /\ r = t)
         PROVE  CallInv' /\ gpio' = gpio
  <2> USE <1>call
  <2>1. /\ \A u \in Thread \ {t} : stack'[u] = stack[u]
        /\ Len(stack'[t]) = 1
        /\ stack'[t][1] = Activation(op, r)
    BY CallShape
  <2>2. /\ state' = state /\ gpio' = gpio /\ stack[t] = << >>
        /\ Ioc \in Thread /\ Ioc \notin Buttons /\ Buttons \subseteq Thread
    BY ThreadAssumption, ButtonsAssumption
    DEF Call, Idle, ThreadAssumption, ButtonsAssumption
  <2>3. CASE t = Ioc
    <3> DEFINE a == Activation(op, r)
    <3>1. a.pc = "conditions" /\ a.i - 1 = 0 /\ a.relay = r
      BY DEF Activation
    <3> HIDE DEF a
    <3>2. \A k \in DOMAIN Conditions[r] : ~(k <= 0)
      BY WiringFacts
    <3>3. Passed(state, a, 0)
      BY <3>1, <3>2 DEF Passed
    <3>4. OuterOK(state, a) /\ TestOK(a)
      BY <3>1, <3>3 DEF OuterOK, TestOK
    <3>5. Len(stack[t]) = 0
      BY <2>2
    <3>6. Agree(state, gpio, a)
      BY <2>3, <3>1, <3>5 DEF CallInv, IocInv, Agree
    <3>7. IocInv(state, gpio, stack'[Ioc])
      BY <2>1, <2>3, <3>4, <3>6 DEF IocInv, a
    <3>8. IocInv(state', gpio', stack'[Ioc])
      BY <2>2, <3>7, Zenon
    <3>9. Elsewhere'
      BY <2>1, <2>2, <2>3 DEF CallInv, Elsewhere
    <3>10. QED
      BY <2>2, <3>8, <3>9 DEF CallInv
  <2>4. CASE t \in Buttons /\ r = t
    <3>1. r \notin Group
      BY <2>4 DEF OneOperator
    <3>2. stack'[Ioc] = stack[Ioc]
      BY <2>1, <2>2, <2>4
    <3>3. IocInv(state', gpio', stack'[Ioc])
      BY <2>2, <3>2, Zenon DEF CallInv
    <3>4. stack'[t][1].relay = r
      BY <2>1 DEF Activation
    <3>5. Elsewhere'
      BY <2>1, <2>2, <2>4, <3>1, <3>4 DEF CallInv, Elsewhere
    <3>6. QED
      BY <2>2, <3>3, <3>5 DEF CallInv
  <2>5. QED
    BY <2>3, <2>4
\* A step of any thread keeps the invariant, and is a step of the interlock.
<1>step. ASSUME OneOperator, TypeOK, CallInv, NEW t \in Thread, Step(t)
         PROVE  CallInv' /\ (Promise!Next \/ gpio' = gpio)
  <2> USE <1>step
  \* The invariant looks at the states and outputs of the group only.
  <2>group. ASSUME NEW st, NEW st2, NEW out, NEW out2, NEW s \in Seq(Frame), IocInv(st, out, s),
                   \A x \in Group : st2[x] = st[x] /\ out2[x] = out[x]
            PROVE  IocInv(st2, out2, s)
    <3> USE <2>group
    <3>1. CASE s = << >>
      BY <3>1, EmptySeq DEF IocInv
    <3>2. CASE s # << >>
      <4>1. \A r \in Relay : \A k \in DOMAIN Conditions[r] : Conditions[r][k].relay \in Group
        BY WiringFacts DEF Group
      <4>2. ASSUME NEW f \in Frame, NEW n, Passed(st, f, n) PROVE Passed(st2, f, n)
        <5>1. f.relay \in Relay
          BY DEF Frame
        <5>2. QED
          BY <4>1, <4>2, <5>1 DEF Passed
      <4>3. ASSUME NEW f, Agree(st, out, f) PROVE Agree(st2, out2, f)
        BY <4>3 DEF Agree
      <4>4. CASE Len(s) = 1
        <5>1. s[1] \in Frame
          BY <3>2, <4>4, <1>frames
        <5>2. OuterOK(st2, s[1]) /\ TestOK(s[1]) /\ Agree(st2, out2, s[1])
          BY <4>2, <4>3, <4>4, <5>1 DEF IocInv, OuterOK, AllMet
        <5>3. QED
          BY <4>4, <5>2 DEF IocInv
      <4>5. CASE Len(s) = 2
        <5>1. s[1] \in Frame /\ s[2] \in Frame
          BY <3>2, <4>5, <1>frames
        <5>2. InnerOK(st, s[1], s[2]) /\ TestOK(s[2]) /\ Agree(st, out, s[2])
          BY <4>5 DEF IocInv
        <5>3. s[2].relay \in Group
          <6> DEFINE q == s[1].relay
                     j == s[1].i - 1
          <6>1. q \in Relay
            BY <5>1 DEF Frame
          <6>2. j \in DOMAIN Conditions[q] /\ s[2].relay = Conditions[q][j].relay
            BY <5>2 DEF InnerOK
          <6> HIDE DEF q, j
          <6>3. QED
            BY <4>1, <6>1, <6>2
        <5>4. Passed(st2, s[1], s[1].i - 2)
          BY <4>2, <5>1, <5>2 DEF InnerOK
        <5>5. InnerOK(st2, s[1], s[2])
          BY <5>2, <5>3, <5>4 DEF InnerOK
        <5>6. QED
          BY <4>3, <4>5, <5>2, <5>5 DEF IocInv
      <4>6. QED
        BY <3>2, <4>4, <4>5, <1>frames
    <3>3. QED
      BY <3>1, <3>2
  <2>1. t = Ioc \/ t \in Buttons
    BY ThreadAssumption DEF ThreadAssumption
  <2>2. Ioc \in Thread /\ Ioc \notin Buttons /\ Buttons \subseteq Thread /\ Group \subseteq Relay
    BY ThreadAssumption, ButtonsAssumption, WiringFacts
    DEF ThreadAssumption, ButtonsAssumption, Group
  <2>3. ASSUME Drive(t), Allowed(gpio, Top(t)) PROVE Promise!Next
    <3>1. Top(t).relay \in Relay /\ Top(t).op \in {"ON", "OFF"}
      BY <2>3, TopShape DEF Drive, At, Idle, Frame, RelayState
    <3>2. gpio' = [gpio EXCEPT ![Top(t).relay] = Top(t).op]
      BY <2>3 DEF Drive
    <3>3. CASE Top(t).op = "ON"
      BY <2>3, <3>1, <3>2, <3>3 DEF Allowed, Promise!Energise, Promise!Next
    <3>4. CASE Top(t).op = "OFF"
      BY <2>3, <3>1, <3>2, <3>4 DEF Allowed, Promise!Release, Promise!Next
    <3>5. QED
      BY <3>1, <3>3, <3>4
  <2>4. CASE t = Ioc
    <3>1. IocInv(state', gpio', stack'[Ioc]) /\ (Drive(Ioc) => Allowed(gpio, Top(Ioc)))
      BY <2>4, <1>ioc
    <3>2. \A u \in Buttons : stack'[u] = stack[u]
      BY <2>2, <2>4, OwnStack
    <3>3. CallInv'
      BY <3>1, <3>2 DEF CallInv, Elsewhere
    <3>4. gpio' = gpio \/ Drive(Ioc)
      BY <2>4, OwnStack
    <3>5. QED
      BY <2>3, <2>4, <3>1, <3>3, <3>4
  <2>5. CASE t \in Buttons
    <3>1. /\ Top(t).relay \in Relay \ Group
          /\ \A k \in 1 .. Len(stack'[t]) : stack'[t][k].relay \notin Group
      BY <2>5, ElsewhereStep
    <3>2. /\ \A u \in Thread \ {t} : stack'[u] = stack[u]
          /\ \A x \in Group : state'[x] = state[x] /\ gpio'[x] = gpio[x]
      BY <2>2, <3>1, OwnStack
    <3>3. stack'[Ioc] = stack[Ioc] /\ stack[Ioc] \in Seq(Frame)
      BY <2>2, <2>5, <3>2 DEF TypeOK
    <3>4. IocInv(state', gpio', stack'[Ioc])
      BY <3>2, <3>3, <2>group DEF CallInv
    <3>5. Elsewhere'
      BY <2>2, <2>5, <3>1, <3>2 DEF CallInv, Elsewhere
    <3>6. Allowed(gpio, Top(t))
      BY <3>1 DEF Allowed, Group
    <3>7. QED
      BY <2>3, <3>4, <3>5, <3>6, OwnStack DEF CallInv
  <2>6. QED
    BY <2>1, <2>4, <2>5
<1>0. TypeOK
  BY DEF PoolTypeOK
<1>1. ASSUME NEW op \in RelayState, NEW r \in Relay, Request(op, r)
      PROVE  CallInv' /\ [Promise!Next]_gpio
  <2>1. Ioc \in Thread /\ Call(Ioc, op, r)
    BY <1>1, ThreadAssumption DEF Request, ThreadAssumption
  <2>2. QED
    BY <1>0, <2>1, <1>call
<1>2. ASSUME NEW t \in Thread, RelayStep(t)
      PROVE  CallInv' /\ [Promise!Next]_gpio
  BY <1>0, <1>2, <1>step DEF RelayStep
<1>3. ASSUME NEW b \in Buttons, FoundOff(b) \/ FoundOn(b)
      PROVE  CallInv' /\ [Promise!Next]_gpio
  <2>1. PICK op \in RelayState : Call(b, op, b)
    BY <1>3 DEF FoundOff, FoundOn, RelayState
  <2>2. b \in Thread /\ b \in Relay
    BY ThreadAssumption, ButtonsAssumption DEF ThreadAssumption, ButtonsAssumption
  <2>3. QED
    BY <1>0, <2>1, <2>2, <1>call
<1>4. ASSUME UNCHANGED vars
      PROVE  CallInv' /\ [Promise!Next]_gpio
  BY <1>4, Zenon DEF vars, CallInv, Elsewhere
<1>5. ASSUME NEW b \in Buttons, Pushed(b) \/ Released(b) \/ NotOff(b) \/ NotOn(b)
      PROVE  UNCHANGED vars
  BY <1>5 DEF Pushed, Released, NotOff, NotOn
<1>6. CASE UNCHANGED poolVars
  BY <1>4, <1>6 DEF poolVars
<1>7. QED
  BY <1>1, <1>2, <1>3, <1>4, <1>5, <1>6 DEF PoolNext, CallbackStep

\* While only the io_context operates the pump and its dependents, its stack is
\* one of the few that CallInv describes, with what each frame has checked.
LEMMA CallInvariant ==
  ASSUME OneOperator
  PROVE  PoolSpec => []CallInv
<1>1. PoolInit => CallInv
  <2> SUFFICES ASSUME PoolInit PROVE CallInv
    OBVIOUS
  <2>1. Ioc \in Thread /\ Buttons \subseteq Thread /\ Group \subseteq Relay
    BY ThreadAssumption, WiringFacts DEF ThreadAssumption, Group
  <2>2. \A t \in Thread : Len(stack[t]) = 0
    BY DEF PoolInit, Init
  <2>3. \A x \in Group : gpio[x] = state[x]
    BY <2>1 DEF PoolInit, Init
  <2>4. QED
    BY <2>1, <2>2, <2>3 DEF CallInv, IocInv, Elsewhere
<1>2. PoolTypeOK /\ CallInv /\ [PoolNext]_poolVars => CallInv'
  BY PoolStep
<1>3. QED
  BY <1>1, <1>2, PoolTypeCorrect, PTL DEF PoolSpec

\* When the buttons of the pump and its dependents are left alone, every change
\* of a relay's output is one the interlock allows, for every set of relays,
\* dependents, pilots and other buttons.
THEOREM InterlockImplemented ==
  ASSUME OneOperator
  PROVE  PoolSpec => ImplementsInterlock
<1>1. PoolInit => Promise!Init
  BY DEF PoolInit, Init, Promise!Init
<1>2. PoolTypeOK /\ CallInv /\ [PoolNext]_poolVars => [Promise!Next]_gpio
  BY PoolStep
<1>3. QED
  BY <1>1, <1>2, CallInvariant, PoolTypeCorrect, PTL
  DEF PoolSpec, ImplementsInterlock, Promise!Spec

\* In that case no dependent is energised without the pump, at any instant.
THEOREM InterlockHolds ==
  ASSUME OneOperator
  PROVE  PoolSpec => []PumpInterlock
<1>1. Promise!Init => PumpInterlock
  BY WiringFacts DEF Promise!Init, PumpInterlock, Promise!PumpFlows
<1>2. PoolTypeOK /\ PumpInterlock /\ [Promise!Next]_gpio => PumpInterlock'
  <2> SUFFICES ASSUME PoolTypeOK, PumpInterlock, Promise!Next PROVE PumpInterlock'
    BY DEF PumpInterlock, Promise!PumpFlows
  <2>1. Pump \in Relay /\ Dependents \subseteq Relay \ {Pump} /\ gpio \in [Relay -> RelayState]
    BY WiringFacts DEF PoolTypeOK, TypeOK
  <2>2. PICK r \in Relay : Promise!Energise(r) \/ Promise!Release(r)
    BY DEF Promise!Next
  <2>3. CASE Promise!Energise(r)
    BY <2>1, <2>3 DEF PumpInterlock, Promise!PumpFlows, Promise!Energise
  <2>4. CASE Promise!Release(r)
    BY <2>1, <2>4 DEF PumpInterlock, Promise!PumpFlows, Promise!Release
  <2>5. QED
    BY <2>2, <2>3, <2>4
<1>3. QED
  BY <1>1, <1>2, InterlockImplemented, PoolTypeCorrect, PTL
  DEF ImplementsInterlock, Promise!Spec

-----------------------------------------------------------------------------
(***************************************************************************)
(* The pilot LEDs.  Between the assignment of state_ and the write of its  *)
(* LED a relay of the group has one frame, on top of the io_context's      *)
(* stack, and its state_ is what that frame asks for.                      *)
(***************************************************************************)
Lighting(r) == At(Ioc, "pilot") /\ Top(Ioc).relay = r

Lit ==
    \A r \in Group : IF Lighting(r) THEN state[r] = Top(Ioc).op
                     ELSE r \in Pilots => pilot[r] = state[r]

\* In that case, too, the reported state of the pump and of each dependent is the
\* driven one, and its pilot LED shows it, whenever no call is working on it.
THEOREM GroupStatusIsTrue ==
  ASSUME OneOperator
  PROVE  PoolSpec => []GroupStatusTruth
\* A step of any thread keeps the LEDs in order.
<1>lit. ASSUME TypeOK, CallInv, Lit, NEW t \in Thread, Step(t)
        PROVE  Lit'
  <2> USE <1>lit
  <2> DEFINE f == Top(Ioc)
             n == Len(stack[Ioc])
  <2>0. /\ Ioc \in Thread /\ Ioc \notin Buttons /\ Buttons \subseteq Thread /\ Group \subseteq Relay
        /\ t = Ioc \/ t \in Buttons
    BY ThreadAssumption, ButtonsAssumption, WiringFacts
    DEF ThreadAssumption, ButtonsAssumption, Group
  <2>1. CASE t \in Buttons
    <3>1. \A x \in Group : state'[x] = state[x] /\ pilot'[x] = pilot[x]
      BY <2>0, <2>1, ElsewhereStep, OwnStack
    <3>2. stack'[Ioc] = stack[Ioc]
      BY <2>0, <2>1, OwnStack
    <3>3. QED
      BY <3>1, <3>2 DEF Lit, Lighting, At, Top
  <2>2. CASE t = Ioc
    <3>1. ~Idle(Ioc) /\ Step(Ioc)
      BY <2>0, <2>2, OwnStack
    <3>2. n \in Nat \ {0} /\ f = stack[Ioc][n] /\ f \in Frame /\ stack[Ioc] \in Seq(Frame)
      BY <2>0, <3>1, TopShape
    <3>3. f.relay \in Relay /\ f.op \in RelayState
      BY <3>2 DEF Frame
    <3>4. ASSUME NEW pc \in Statement, Goto(Ioc, pc)
          PROVE  ~Idle(Ioc)' /\ Top(Ioc)' = [f EXCEPT !.pc = pc]
      <4>1. /\ Len(stack'[Ioc]) = n /\ stack'[Ioc][n] = [f EXCEPT !.pc = pc]
            /\ stack'[Ioc] \in Seq(Frame)
        BY <2>0, <3>1, <3>4, StackShapes
      <4>2. QED
        BY <3>2, <4>1, EmptySeq DEF Idle, Top, Last
    \* Neither the state nor a LED is written.
    <3>5. ASSUME ~At(Ioc, "pilot"), ~At(Ioc, "pilot")', UNCHANGED <<state, pilot>>
          PROVE  Lit'
      BY <3>5 DEF Lit, Lighting
    <3>6. CASE Assign(Ioc)
      <4>1. At(Ioc, "pilot")' /\ Top(Ioc)'.relay = f.relay /\ Top(Ioc)'.op = f.op
        BY <3>2, <3>4, <3>6 DEF Assign, Statement, Frame, At, Idle, Top
      <4>2. ~At(Ioc, "pilot")
        BY <3>6 DEF Assign, At
      <4>3. state' = [state EXCEPT ![f.relay] = f.op] /\ pilot' = pilot
        BY <3>6 DEF Assign
      <4>4. state'[f.relay] = f.op /\ \A r \in Relay : r # f.relay => state'[r] = state[r]
        BY <3>3, <4>3 DEF TypeOK
      <4>5. QED
        BY <2>0, <4>1, <4>2, <4>3, <4>4 DEF Lit, Lighting
    <3>7. CASE DrivePilot(Ioc)
      <4>1. ~At(Ioc, "pilot")'
        BY <3>2, <3>4, <3>7 DEF DrivePilot, Statement, Frame, At, Idle, Top
      <4>2. At(Ioc, "pilot") /\ state' = state
        BY <3>7 DEF DrivePilot
      <4>3. /\ f.relay \in Pilots => pilot'[f.relay] = f.op
            /\ \A r \in Relay : r # f.relay => pilot'[r] = pilot[r]
        BY <3>3, <3>7 DEF DrivePilot, TypeOK
      <4>4. QED
        BY <2>0, <4>1, <4>2, <4>3 DEF Lit, Lighting
    <3>8. CASE ConditionHolds(Ioc) \/ ForceRequired(Ioc)
      <4>1. ~At(Ioc, "pilot") /\ f.pc = "conditions" /\ UNCHANGED <<state, pilot>>
        BY <3>8 DEF ConditionHolds, ForceRequired, InLoop, At, Top
      <4>2. CASE ConditionHolds(Ioc)
        <5>1. /\ stack'[Ioc] \in Seq(Frame) /\ Len(stack'[Ioc]) = n
              /\ stack'[Ioc][n] = [f EXCEPT !.i = f.i + 1]
          BY <2>0, <3>1, <4>2, StackShapes DEF TypeOK, ConditionHolds
        <5>2. Last(stack'[Ioc]).pc = "conditions"
          BY <3>2, <4>1, <5>1 DEF Last, Frame
        <5>3. QED
          BY <3>5, <4>1, <5>2 DEF At
      <4>3. CASE ForceRequired(Ioc)
        <5>1. /\ Len(stack'[Ioc]) = n + 1
              /\ stack'[Ioc][n + 1] = Activation(Condition(Ioc).required, Condition(Ioc).relay)
          BY <2>0, <4>3, ForceShape
        <5>2. Last(stack'[Ioc]).pc = "conditions"
          BY <3>2, <5>1 DEF Last, Activation
        <5>3. QED
          BY <3>5, <4>1, <5>2 DEF At
      <4>4. QED
        BY <3>8, <4>2, <4>3
    <3>9. CASE AbortRequest(Ioc) \/ ConditionsDone(Ioc) \/ NotYetOn(Ioc) \/ Drive(Ioc) \/ LogLock(Ioc)
      <4>1. ~At(Ioc, "pilot") /\ UNCHANGED <<state, pilot>>
        BY <3>9 DEF AbortRequest, ConditionsDone, NotYetOn, Drive, LogLock, InLoop, At
      <4>2. PICK pc \in Statement \ {"pilot"} : Goto(Ioc, pc)
        BY <3>9 DEF AbortRequest, ConditionsDone, NotYetOn, Drive, LogLock, AfterConditions, Statement
      <4>3. ~At(Ioc, "pilot")'
        BY <3>2, <3>4, <4>2 DEF At, Top, Frame
      <4>4. QED
        BY <3>5, <4>1, <4>3
    \* The caller of a call that returns is in its loop.
    <3>10. CASE AlreadyOn(Ioc) \/ LogDisabled(Ioc) \/ LogUnlock(Ioc)
      <4>1. ~At(Ioc, "pilot") /\ UNCHANGED <<state, pilot>> /\ Return(Ioc)
        BY <3>10 DEF AlreadyOn, LogDisabled, LogUnlock, At
      <4>2. /\ stack'[Ioc] \in Seq(Frame) /\ Len(stack'[Ioc]) = n - 1
            /\ \A k \in 1 .. n - 1 : stack'[Ioc][k] = stack[Ioc][k]
        BY <2>0, <3>1, <4>1, StackShapes
      <4>3. n = 1 \/ (n = 2 /\ stack[Ioc][1].pc = "conditions")
        BY <3>2 DEF CallInv, IocInv, InnerOK
      <4>4. ~At(Ioc, "pilot")'
        <5>1. CASE n = 1
          BY <4>2, <5>1, EmptySeq DEF At
        <5>2. CASE n = 2 /\ stack[Ioc][1].pc = "conditions"
          <6>1. Last(stack'[Ioc]).pc = "conditions"
            BY <4>2, <5>2 DEF Last
          <6>2. QED
            BY <6>1 DEF At
        <5>3. QED
          BY <4>3, <5>1, <5>2
      <4>5. QED
        BY <3>5, <4>1, <4>4
    <3>11. QED
      BY <3>1, <3>6, <3>7, <3>8, <3>9, <3>10 DEF Step, Log
  <2>3. QED
    BY <2>0, <2>1, <2>2
<1>1. PoolInit => Lit
  <2>1. Ioc \in Thread /\ Group \subseteq Relay
    BY ThreadAssumption, WiringFacts DEF ThreadAssumption, Group
  <2>2. QED
    BY <2>1 DEF PoolInit, Init, Lit, Lighting, At
<1>2. PoolTypeOK /\ CallInv /\ Lit /\ [PoolNext]_poolVars => Lit'
  <2> SUFFICES ASSUME PoolTypeOK, CallInv, Lit, [PoolNext]_poolVars PROVE Lit'
    OBVIOUS
  <2>0. TypeOK /\ Ioc \in Thread
    BY ThreadAssumption DEF PoolTypeOK, ThreadAssumption
  <2>1. ASSUME NEW t \in Thread, NEW op \in RelayState, NEW r \in Relay, Call(t, op, r)
        PROVE  Lit'
    <3>1. UNCHANGED <<state, pilot>>
      BY <2>1 DEF Call
    <3>2. CASE t = Ioc
      <4>1. Len(stack'[Ioc]) = 1 /\ stack'[Ioc][1] = Activation(op, r)
        BY <2>0, <2>1, <3>2, CallShape
      <4>2. ~At(Ioc, "pilot") /\ ~At(Ioc, "pilot")'
        BY <2>1, <3>2, <4>1 DEF Call, Idle, At, Last, Activation
      <4>3. QED
        BY <3>1, <4>2 DEF Lit, Lighting
    <3>3. CASE t # Ioc
      <4>1. stack'[Ioc] = stack[Ioc]
        BY <2>0, <2>1, <3>3, CallShape
      <4>2. QED
        BY <3>1, <4>1 DEF Lit, Lighting, At, Top
    <3>4. QED
      BY <3>2, <3>3
  <2>2. ASSUME NEW op \in RelayState, NEW r \in Relay, Request(op, r) PROVE Lit'
    BY <2>0, <2>1, <2>2 DEF Request
  <2>3. ASSUME NEW t \in Thread, RelayStep(t) PROVE Lit'
    BY <2>0, <2>3, <1>lit DEF RelayStep
  <2>4. ASSUME NEW b \in Buttons, FoundOff(b) \/ FoundOn(b) PROVE Lit'
    <3>1. b \in Thread /\ b \in Relay
      BY ThreadAssumption, ButtonsAssumption DEF ThreadAssumption, ButtonsAssumption
    <3>2. PICK op \in RelayState : Call(b, op, b)
      BY <2>4 DEF FoundOff, FoundOn, RelayState
    <3>3. QED
      BY <2>1, <3>1, <3>2
  <2>5. ASSUME UNCHANGED vars PROVE Lit'
    BY <2>5 DEF vars, Lit, Lighting, At, Top
  <2>6. ASSUME NEW b \in Buttons, Pushed(b) \/ Released(b) \/ NotOff(b) \/ NotOn(b)
        PROVE  UNCHANGED vars
    BY <2>6 DEF Pushed, Released, NotOff, NotOn
  <2>7. CASE UNCHANGED poolVars
    BY <2>5, <2>7 DEF poolVars
  <2>8. QED
    BY <2>2, <2>3, <2>4, <2>5, <2>6, <2>7 DEF PoolNext, CallbackStep
<1>3. PoolTypeOK /\ CallInv /\ Lit => GroupStatusTruth
  <2> SUFFICES ASSUME PoolTypeOK, CallInv, Lit, NEW r \in Group, ~Busy(r)
               PROVE  gpio[r] = state[r] /\ (r \in Pilots => pilot[r] = state[r])
    BY DEF GroupStatusTruth
  <2>1. stack[Ioc] \in Seq(Frame) /\ Ioc \in Thread
    BY ThreadAssumption DEF PoolTypeOK, TypeOK, ThreadAssumption
  <2>2. Len(stack[Ioc]) \in {0, 1, 2} /\ DOMAIN stack[Ioc] = 1 .. Len(stack[Ioc])
    BY <2>1, LenProperties DEF CallInv, IocInv
  <2>3. \A k \in 1 .. Len(stack[Ioc]) : stack[Ioc][k].relay # r
    BY <2>1, <2>2 DEF Busy
  <2>4. gpio[r] = state[r]
    BY <2>2, <2>3 DEF CallInv, IocInv, Agree
  <2>5. ~Lighting(r)
    BY <2>1, <2>2, <2>3, EmptySeq DEF Lighting, At, Top, Last
  <2>6. QED
    BY <2>4, <2>5 DEF Lit
<1>4. QED
  BY <1>1, <1>2, <1>3, CallInvariant, PoolTypeCorrect, PTL DEF PoolSpec

-----------------------------------------------------------------------------
(***************************************************************************)
(* Part 2: PoolShutdown.                                                   *)
(*                                                                         *)
(* How the process ends and starts again, for any relays, signals, threads *)
(* and depth of interrupted handlers, when the relays of the pump's group  *)
(* are operated by the io_context thread alone.                            *)
(*                                                                         *)
(* The argument: once a handler runs anywhere, one runs on the io_context  *)
(* thread, so nothing that began before it goes on there; a button's       *)
(* thread goes on, but only with calls for its own relay; and what a       *)
(* handler's calls force is a switching off as they are.  From then on no  *)
(* relay without a button is switched on, and a round that is through has  *)
(* passed them all.  The flag tells two phases apart: before it is set no  *)
(* interrupted thread moves at all.                                        *)
(***************************************************************************)

-----------------------------------------------------------------------------
(***************************************************************************)
(* The handlers of a thread.                                               *)
(***************************************************************************)
\* A handler that is running is the last of its thread's, and a step of it leaves
\* those that it interrupted.
LEMMA InnermostShape ==
  ASSUME ShutdownTypeOK, NEW t \in Thread, Interrupted(t)
  PROVE  /\ handlers[t] \in Seq(Handler)
         /\ Len(handlers[t]) \in Nat \ {0}
         /\ Innermost(t) = handlers[t][Len(handlers[t])]
         /\ Innermost(t) \in Handler /\ handlers[t][1] \in Handler
         /\ \A h \in Handler :
               /\ h.base = Innermost(t).base
               /\ handlers' = [handlers EXCEPT ![t] = [handlers[t] EXCEPT ![Len(handlers[t])] = h]]
               => /\ handlers' \in [Thread -> Seq(Handler)]
                  /\ \A u \in Thread \ {t} : handlers'[u] = handlers[u]
                  /\ Interrupted(t)' /\ Innermost(t)' = h
                  /\ handlers'[t][1].base = handlers[t][1].base
                  /\ Range(handlers'[t]) \subseteq Range(handlers[t]) \union {h}
<1>1. handlers[t] \in Seq(Handler) /\ handlers[t] # << >>
  BY DEF ShutdownTypeOK, Interrupted
<1>2. Len(handlers[t]) \in Nat \ {0}
  BY <1>1, EmptySeq
<1>3. 1 \in 1 .. Len(handlers[t]) /\ Len(handlers[t]) \in 1 .. Len(handlers[t])
  BY <1>2
<1>4. /\ Innermost(t) = handlers[t][Len(handlers[t])]
      /\ Innermost(t) \in Handler /\ handlers[t][1] \in Handler
  BY <1>1, <1>2, <1>3, ElementOfSeq DEF Innermost, Last
<1>5. ASSUME NEW h \in Handler, h.base = Innermost(t).base,
             handlers' = [handlers EXCEPT ![t] = [handlers[t] EXCEPT ![Len(handlers[t])] = h]]
      PROVE  /\ handlers' \in [Thread -> Seq(Handler)]
             /\ \A u \in Thread \ {t} : handlers'[u] = handlers[u]
             /\ Interrupted(t)' /\ Innermost(t)' = h
             /\ handlers'[t][1].base = handlers[t][1].base
             /\ Range(handlers'[t]) \subseteq Range(handlers[t]) \union {h}
  <2> USE <1>5
  <2> DEFINE old == handlers[t]
             n == Len(old)
             new == [old EXCEPT ![n] = h]
  <2>1. old \in Seq(Handler) /\ n \in Nat \ {0} /\ Innermost(t) = old[n]
    BY <1>1, <1>2, <1>3, ElementOfSeq DEF Innermost, Last
  <2>2. handlers' = [handlers EXCEPT ![t] = new] /\ handlers \in [Thread -> Seq(Handler)]
    BY DEF ShutdownTypeOK
  <2> HIDE DEF old
  <2>3. new \in Seq(Handler) /\ Len(new) = n /\ new[n] = h
        /\ \A k \in 1 .. n : k # n => new[k] = old[k]
    BY <2>1, ExceptSeq
  <2>0. DOMAIN old = 1 .. n /\ DOMAIN new = 1 .. n
    BY <2>1, LenProperties
  <2> HIDE DEF new, n
  <2>4. /\ handlers' \in [Thread -> Seq(Handler)]
        /\ handlers'[t] = new
        /\ \A u \in Thread \ {t} : handlers'[u] = handlers[u]
    BY <2>2, <2>3
  <2>5. new # << >>
    <3>1. ASSUME new = << >> PROVE FALSE
      <4>1. Len(new) = 0
        BY <3>1
      <4>2. QED
        BY <2>1, <2>3, <4>1
    <3>2. QED
      BY <3>1
  <2>6. Last(new) = h
    BY <2>3 DEF Last
  <2>7. new[1].base = old[1].base
    <3>1. CASE n = 1
      BY <2>1, <2>3, <3>1
    <3>2. CASE n # 1
      BY <2>1, <2>3, <3>2
    <3>3. QED
      BY <3>1, <3>2
  <2>8. Range(new) \subseteq Range(old) \union {h}
    BY <2>0, <2>3 DEF Range
  <2>9. QED
    BY <2>4, <2>5, <2>6, <2>7, <2>8 DEF Interrupted, Innermost, old
<1>6. QED
  BY <1>1, <1>2, <1>4, <1>5

\* A signal puts a handler on top of the thread's others.
LEMMA DeliverShape ==
  ASSUME ShutdownTypeOK, NEW t \in Thread, NEW sig \in Signal, Deliver(t, sig)
  PROVE  /\ handlers' \in [Thread -> Seq(Handler)]
         /\ \A u \in Thread \ {t} : handlers'[u] = handlers[u]
         /\ Interrupted(t)'
         /\ Innermost(t)' = [sig |-> sig, pc |-> "seen?", base |-> Len(stack[t]), next |-> 1]
         /\ Interrupted(t) => handlers'[t][1] = handlers[t][1]
         /\ ~Interrupted(t) => handlers'[t][1] = Innermost(t)'
         /\ Range(handlers'[t]) \subseteq Range(handlers[t]) \union {Innermost(t)'}
<1> DEFINE old == handlers[t]
           n == Len(old)
           h == [sig |-> sig, pc |-> "seen?", base |-> Len(stack[t]), next |-> 1]
           new == Append(old, h)
<1>1. old \in Seq(Handler) /\ n \in Nat /\ handlers' = [handlers EXCEPT ![t] = new]
      /\ handlers \in [Thread -> Seq(Handler)]
  BY LenProperties DEF ShutdownTypeOK, Deliver
<1>2. h \in Handler
  <2>1. Len(stack[t]) \in Nat
    BY LenProperties DEF ShutdownTypeOK, PoolTypeOK, TypeOK
  <2>2. QED
    BY <2>1 DEF Handler, HandlerPc
<1> HIDE DEF old, h
<1>3. new \in Seq(Handler) /\ Len(new) = n + 1 /\ new[n + 1] = h
      /\ \A k \in 1 .. n : new[k] = old[k]
  BY <1>1, <1>2
<1>0. DOMAIN old = 1 .. n /\ DOMAIN new = 1 .. n + 1
  BY <1>1, <1>3, LenProperties
<1> HIDE DEF new, n
<1>4. /\ handlers' \in [Thread -> Seq(Handler)]
      /\ handlers'[t] = new
      /\ \A u \in Thread \ {t} : handlers'[u] = handlers[u]
  BY <1>1, <1>3
<1>5. new # << >>
  <2>1. Len(new) # 0
    BY <1>1, <1>3
  <2>2. ASSUME new = << >> PROVE Len(new) = 0
    BY <2>2
  <2>3. QED
    BY <2>1, <2>2
<1>6. Last(new) = h
  BY <1>3 DEF Last
<1>7. ASSUME old # << >> PROVE new[1] = old[1]
  <2>1. n \in Nat \ {0}
    BY <1>1, <1>7, EmptySeq DEF n
  <2>2. QED
    BY <1>3, <2>1
<1>8. ASSUME old = << >> PROVE new[1] = h
  <2>1. n = 0
    BY <1>8 DEF n
  <2>2. QED
    BY <1>3, <2>1
<1>9. Range(new) \subseteq Range(old) \union {h}
  BY <1>0, <1>1, <1>3 DEF Range
<1>10. QED
  BY <1>4, <1>5, <1>6, <1>7, <1>8, <1>9 DEF Interrupted, Innermost, old, h

\* The handler calls the next relay's SwitchOff.
LEMMA SwitchNextShape ==
  ASSUME ShutdownTypeOK, NEW t \in Thread, SwitchNextOff(t)
  PROVE  LET n == Len(stack[t])  h == Innermost(t) IN
         /\ n \in Nat /\ h \in Handler /\ n = h.base /\ h.pc = "off"
         /\ h.next \in DOMAIN EquipmentOrder /\ EquipmentOrder[h.next] \in Relay
         /\ stack' \in [Thread -> Seq(Frame)]
         /\ \A u \in Thread \ {t} : stack'[u] = stack[u]
         /\ Len(stack'[t]) = n + 1
         /\ stack'[t][n + 1] = Activation("OFF", EquipmentOrder[h.next])
         /\ \A k \in 1 .. n : stack'[t][k] = stack[t][k]
         /\ handlers' \in [Thread -> Seq(Handler)]
         /\ \A u \in Thread \ {t} : handlers'[u] = handlers[u]
         /\ Interrupted(t)' /\ Innermost(t)' = [h EXCEPT !.next = h.next + 1]
         /\ handlers'[t][1].base = handlers[t][1].base
         /\ Range(handlers'[t]) \subseteq Range(handlers[t]) \union {Innermost(t)'}
<1> DEFINE old == stack[t]
           n == Len(old)
           h == Innermost(t)
           a == Activation("OFF", EquipmentOrder[h.next])
           g == [h EXCEPT !.next = h.next + 1]
           new == Append(old, a)
<1>1. /\ n \in Nat /\ old \in Seq(Frame) /\ h \in Handler /\ Interrupted(t)
      /\ n = h.base /\ h.pc = "off" /\ h.next \in DOMAIN EquipmentOrder
  BY InnermostShape, LenProperties
  DEF SwitchNextOff, HandlerAt, ShutdownTypeOK, PoolTypeOK, TypeOK
<1>2. EquipmentOrder[h.next] \in Relay
  <2>1. DOMAIN EquipmentOrder = 1 .. Len(EquipmentOrder) /\ EquipmentOrder \in Seq(Relay)
    BY EquipmentAssumption, LenProperties DEF EquipmentAssumption
  <2> HIDE DEF h
  <2>2. QED
    BY <1>1, <2>1, ElementOfSeq
<1>3. a \in Frame
  <2> HIDE DEF h
  <2>1. QED
    BY <1>2 DEF Activation, Frame, Statement, RelayState
<1>4. g \in Handler /\ g.base = h.base
  <2> HIDE DEF h
  <2>1. QED
    BY <1>1 DEF Handler
<1>5. handlers' = [handlers EXCEPT ![t] = [handlers[t] EXCEPT ![Len(handlers[t])] = g]]
  BY <1>1, InnermostShape DEF SwitchNextOff
<1>6. stack' = [stack EXCEPT ![t] = new] /\ stack \in [Thread -> Seq(Frame)]
  BY DEF SwitchNextOff, ShutdownTypeOK, PoolTypeOK, TypeOK
<1>7. /\ handlers' \in [Thread -> Seq(Handler)]
      /\ \A u \in Thread \ {t} : handlers'[u] = handlers[u]
      /\ Interrupted(t)' /\ Innermost(t)' = g
      /\ handlers'[t][1].base = handlers[t][1].base
      /\ Range(handlers'[t]) \subseteq Range(handlers[t]) \union {g}
  <2> HIDE DEF g, h
  <2>1. g.base = Innermost(t).base
    BY <1>4 DEF h
  <2>2. QED
    BY <1>1, <1>4, <1>5, <2>1, InnermostShape
<1> HIDE DEF a, old, g
<1>8. new \in Seq(Frame) /\ Len(new) = n + 1 /\ new[n + 1] = a
      /\ \A k \in 1 .. n : new[k] = old[k]
  BY <1>1, <1>3
<1> HIDE DEF new, n, h
<1>9. /\ stack' \in [Thread -> Seq(Frame)] /\ stack'[t] = new
      /\ \A u \in Thread \ {t} : stack'[u] = stack[u]
  BY <1>6, <1>8
<1>10. QED
  BY <1>1, <1>2, <1>7, <1>8, <1>9 DEF n, h, g, a, old

\* PoolShutdown keeps to its types, for any relays, signals and threads.
THEOREM ShutdownTypeCorrect == ShutdownSpec => []ShutdownTypeOK
<1>1. ShutdownInit => ShutdownTypeOK
  <2>1. PoolInit => PoolTypeOK
    <3>1. << >> \in Seq(Frame)
      OBVIOUS
    <3>2. QED
      BY <3>1 DEF PoolInit, Init, PoolTypeOK, TypeOK, RelayState, ReleasePc
  <2>2. << >> \in Seq(Handler)
    OBVIOUS
  <2>3. ASSUME ShutdownInit PROVE handlers \in [Thread -> Seq(Handler)]
    <3> HIDE DEF Handler
    <3>1. QED
      BY <2>2, <2>3 DEF ShutdownInit
  <2>4. ASSUME ShutdownInit
        PROVE  /\ running \in BOOLEAN /\ signal_seen \in BOOLEAN /\ cutShort \in BOOLEAN
               /\ signals \in Nat /\ starts \in Nat
    BY <2>4 DEF ShutdownInit
  <2>5. QED
    BY <2>1, <2>3, <2>4, Zenon DEF ShutdownInit, ShutdownTypeOK
<1>2. ShutdownTypeOK /\ [ShutdownNext]_shutdownVars => ShutdownTypeOK'
  <2> SUFFICES ASSUME ShutdownTypeOK, [ShutdownNext]_shutdownVars PROVE ShutdownTypeOK'
    OBVIOUS
  <2>0. PoolTypeOK
    BY DEF ShutdownTypeOK
  <2>1. ASSUME PoolTypeOK', running' \in BOOLEAN, signal_seen' \in BOOLEAN,
               handlers' \in [Thread -> Seq(Handler)], signals' \in {signals, signals + 1},
               starts' \in {starts, starts + 1}, cutShort' \in BOOLEAN
        PROVE  ShutdownTypeOK'
    BY <2>1 DEF ShutdownTypeOK
  <2>2. ASSUME UNCHANGED poolVars PROVE PoolTypeOK'
    BY <2>0, <2>2, PoolTypeStep
  <2>3. CASE Serve \/ (\E t \in Thread : ThreadStep(t)) \/ (\E b \in Buttons : ButtonStep(b))
    <3>1. PoolNext /\ UNCHANGED processVars
      BY <2>3 DEF Serve, ThreadStep, ButtonStep, PoolNext
    <3>2. PoolTypeOK'
      BY <2>0, <3>1, PoolTypeStep
    <3>3. QED
      BY <2>1, <3>1, <3>2 DEF ShutdownTypeOK, processVars
  <2>4. ASSUME NEW t \in Thread, NEW sig \in Signal, Deliver(t, sig) PROVE ShutdownTypeOK'
    BY <2>1, <2>2, <2>4, DeliverShape DEF Deliver, ShutdownTypeOK
  <2>5. ASSUME NEW t \in Thread, NEW pc \in HandlerPc, Interrupted(t), HandlerGoto(t, pc)
        PROVE  handlers' \in [Thread -> Seq(Handler)]
    <3> DEFINE h == [Innermost(t) EXCEPT !.pc = pc]
    <3>1. Innermost(t) \in Handler
      BY <2>5, InnermostShape
    <3>2. h \in Handler /\ h.base = Innermost(t).base
      BY <2>5, <3>1 DEF Handler
    <3>3. handlers' = [handlers EXCEPT ![t] = [handlers[t] EXCEPT ![Len(handlers[t])] = h]]
      BY <2>5, InnermostShape DEF HandlerGoto
    <3> HIDE DEF h
    <3>4. QED
      BY <2>5, <3>2, <3>3, InnermostShape
  <2>6. ASSUME NEW t \in Thread, TestSeen(t) \/ SetSeen(t) \/ AllSwitchedOff(t)
        PROVE  ShutdownTypeOK'
    <3>1. /\ \E pc \in HandlerPc : HandlerGoto(t, pc)
          /\ Interrupted(t) /\ UNCHANGED poolVars
          /\ UNCHANGED <<running, signals, starts, cutShort>> /\ signal_seen' \in {signal_seen, TRUE}
      BY <2>6 DEF TestSeen, SetSeen, AllSwitchedOff, HandlerAt, HandlerPc
    <3>2. handlers' \in [Thread -> Seq(Handler)]
      BY <2>5, <3>1
    <3>3. PoolTypeOK'
      BY <2>2, <3>1
    <3>4. QED
      BY <2>1, <3>1, <3>2, <3>3 DEF ShutdownTypeOK
  <2>7. ASSUME NEW t \in Thread, SwitchNextOff(t) PROVE ShutdownTypeOK'
    <3>1. PoolTypeOK'
      BY <2>0, <2>7, SwitchNextShape DEF PoolTypeOK, TypeOK, SwitchNextOff
    <3>2. QED
      BY <2>1, <2>7, <3>1, SwitchNextShape DEF SwitchNextOff, ShutdownTypeOK
  <2>8. ASSUME ProcessEnds, cutShort' \in BOOLEAN, signals' \in {signals, signals + 1}
        PROVE  ShutdownTypeOK'
    <3>1. << >> \in Seq(Frame) /\ << >> \in Seq(Handler)
      OBVIOUS
    <3>2. PoolTypeOK' /\ handlers' \in [Thread -> Seq(Handler)]
      BY <2>0, <2>8, <3>1 DEF ProcessEnds, PoolTypeOK, TypeOK, RelayState, ReleasePc
    <3>3. QED
      BY <2>1, <2>8, <3>2 DEF ProcessEnds
  <2>9. CASE Start
    BY <2>1, <2>2, <2>9 DEF Start, ShutdownTypeOK
  <2>10. CASE UNCHANGED shutdownVars
    BY <2>1, <2>2, <2>10 DEF shutdownVars, processVars, ShutdownTypeOK
  <2>11. ASSUME NEW t \in Thread, HandlerExit(t) PROVE ShutdownTypeOK'
    <3> DEFINE cut == ~RoundDone
    <3>0. cutShort' = cut /\ cut \in BOOLEAN
      BY <2>11 DEF HandlerExit
    <3> HIDE DEF cut
    <3>1. cutShort' \in BOOLEAN
      BY <3>0, Zenon
    <3>2. QED
      BY <2>8, <2>11, <3>1 DEF HandlerExit
  <2>12. CASE ExceptionExit
    BY <2>8, <2>12 DEF ExceptionExit
  <2>13. QED
    BY <2>3, <2>4, <2>6, <2>7, <2>9, <2>10, <2>11, <2>12 DEF ShutdownNext, HandlerStep
<1>3. QED
  BY <1>1, <1>2, PTL DEF ShutdownSpec

-----------------------------------------------------------------------------
(***************************************************************************)
(* The inductive invariant.                                                *)
(***************************************************************************)
\* How deep the calls of t are that no handler made.
Below(t) == IF Interrupted(t) THEN handlers[t][1].base ELSE Len(stack[t])

\* f has written its relay's output, if it drives it at all.
Written(f) == f.pc \in {"assign", "pilot", "log", "unlock"}

\* f is, or was called by, a SwitchOff that a handler called.
Called(f, out) ==
    /\ f.op = "OFF"
    /\ f.relay \notin Buttons /\ Written(f) => out[f.relay] = "OFF"

\* Under the handlers of a button's thread are calls for relays with a button;
\* above the first handler of any thread everything is switched off.
FramesOK(t) ==
    \A k \in 1 .. Len(stack[t]) :
        LET f == stack[t][k] IN
        /\ TestOK(f)
        /\ k <= Below(t) /\ t \in Buttons => f.relay \in Buttons
        /\ k > Below(t) => Called(f, gpio)

\* The equipment that the innermost handler of t has passed is off, except the
\* relay its call is still working on.
RoundOK(t) ==
    LET h == Innermost(t) IN
    /\ h.next <= Len(EquipmentOrder) + 1
    /\ \A k \in 1 .. h.next - 1 :
          LET r == EquipmentOrder[k] IN
          \/ r \in Buttons
          \/ gpio[r] = "OFF"
          \/ Len(stack[t]) > h.base /\ stack[t][h.base + 1].relay = r

\* When a handler of t is through, everything that has no button is off.
AllOff    == \A r \in Relay \ Buttons : gpio[r] = "OFF"
DoneOK(t) == \A h \in Range(handlers[t]) : Through(h) => AllOff

\* No handler has begun its round while none has set the flag.
Unset(t) == Innermost(t).pc \in {"seen?", "set"} /\ Len(stack[t]) = Innermost(t).base

ThreadInv(t) ==
    /\ FramesOK(t)
    /\ Interrupted(t) =>
          /\ Below(t) <= Innermost(t).base /\ Innermost(t).base <= Len(stack[t])
          /\ RoundOK(t)
          /\ DoneOK(t)
          /\ ~signal_seen => Unset(t)
          /\ Interrupted(Ioc)

\* What the program believes of a relay without a button is true, except between
\* the two assignments of the io_context's topmost call.
Believed(r) ==
    IF At(Ioc, "assign") /\ Top(Ioc).relay = r THEN gpio[r] = Top(Ioc).op
                                               ELSE gpio[r] = state[r]

Truthful ==
    /\ \A k \in 1 .. Len(stack[Ioc]) - 1 : stack[Ioc][k].pc = "conditions"
    /\ \A r \in Relay \ Buttons : Believed(r)

Stopped ==
    /\ \A t \in Thread : stack[t] = << >> /\ handlers[t] = << >>
    /\ \A r \in Relay : state[r] = "OFF"
    /\ ~signal_seen

ShutdownInv ==
    /\ \A t \in Thread : ThreadInv(t)
    /\ running /\ ~cutShort /\ ~signal_seen => Truthful
    /\ ~running => Stopped
    /\ OffAtExit

\* No output of a relay without a button is switched on.
Quiet == \A r \in Relay \ Buttons : gpio[r] = "OFF" => gpio'[r] = "OFF"

-----------------------------------------------------------------------------
\* While only the io_context thread operates the relays without a button, what
\* the handlers have switched off stays off, and beliefs survive every start.
LEMMA ShutdownInvariant ==
  ASSUME OneOperator
  PROVE  ShutdownSpec => []ShutdownInv
\* A call that a thread is in, one step further.
<1>kept. ASSUME OneOperator, ShutdownTypeOK, ShutdownInv, NEW t \in Thread, ThreadStep(t)
         PROVE  ThreadInv(t)' /\ (Interrupted(Ioc) => Quiet)
  <2> USE <1>kept
  <2> DEFINE n == Len(stack[t])
             f == Top(t)
             m == Len(stack'[t])
             old == stack[t]
             new == stack'[t]
  <2>0. /\ TypeOK /\ Step(t) /\ UNCHANGED processVars /\ running
        /\ ThreadInv(t) /\ FramesOK(t)
        /\ Interrupted(t) => n > Innermost(t).base
    BY DEF ThreadStep, RelayStep, Runnable, ShutdownTypeOK, PoolTypeOK, ShutdownInv, ThreadInv
  <2>1. /\ n \in Nat \ {0} /\ f = old[n] /\ f \in Frame /\ old \in Seq(Frame)
        /\ new \in Seq(Frame) /\ m \in Nat
        /\ \A k \in 1 .. n - 1 : new[k] = old[k]
    BY <2>0, StepShape, LenProperties
  <2>2. f.relay \in Relay /\ f.op \in RelayState /\ f.i \in Nat \ {0} /\ f.pc \in Statement
    BY <2>1 DEF Frame
  <2>3. /\ (Interrupted(t)' <=> Interrupted(t)) /\ Innermost(t)' = Innermost(t)
        /\ (Interrupted(Ioc)' <=> Interrupted(Ioc)) /\ signal_seen' = signal_seen
        /\ Below(t)' = IF Interrupted(t) THEN Below(t) ELSE m
    BY <2>0 DEF processVars, Interrupted, Innermost, Below
  <2>4. ASSUME Interrupted(t)
        PROVE  /\ Below(t) \in Nat /\ Innermost(t).base \in Nat /\ Innermost(t).next \in Nat
               /\ Below(t) <= Innermost(t).base /\ Innermost(t).base < n
               /\ signal_seen /\ Interrupted(Ioc) /\ RoundOK(t) /\ Called(f, gpio)
    <3>1. Below(t) \in Nat /\ Innermost(t).base \in Nat /\ Innermost(t).next \in Nat
      BY <2>4, InnermostShape DEF Below, Handler
    <3>2. /\ Below(t) <= Innermost(t).base /\ Innermost(t).base < n
          /\ Interrupted(Ioc) /\ RoundOK(t)
      BY <2>0, <2>1, <2>4, <3>1 DEF ThreadInv
    <3>3. signal_seen
      BY <2>0, <2>1, <2>4, <3>1 DEF ThreadInv, Unset
    <3> HIDE DEF n, f
    <3>4. n \in 1 .. n /\ n > Below(t)
      BY <2>1, <3>1, <3>2
    <3>5. Called(f, gpio)
      BY <2>0, <2>1, <3>4 DEF FramesOK, n
    <3>6. QED
      BY <3>1, <3>2, <3>3, <3>5
  <2>5. ASSUME ~Interrupted(t), t \in Buttons
        PROVE  f.relay \in Buttons /\ DOMAIN Conditions[f.relay] = {}
    <3>1. n \in 1 .. n /\ n <= Below(t)
      BY <2>1, <2>5 DEF Below
    <3>2. f.relay \in Buttons
      BY <2>0, <2>1, <2>5, <3>1 DEF FramesOK
    <3>3. f.relay \in Relay \ Group
      BY <2>2, <3>2 DEF OneOperator
    <3>4. QED
      BY <3>2, <3>3, WiringFacts DEF Group
  <2>6. Interrupted(Ioc) => Quiet
    <3> SUFFICES ASSUME Interrupted(Ioc), NEW r \in Relay \ Buttons, gpio[r] = "OFF"
                 PROVE  gpio'[r] = "OFF"
      BY DEF Quiet
    <3>1. CASE Drive(t) /\ r = f.relay
      <4>1. Interrupted(t)
        BY <2>5, <3>1, ThreadAssumption DEF ThreadAssumption
      <4>2. f.op = "OFF"
        BY <2>4, <4>1 DEF Called
      <4>3. QED
        BY <2>0, <2>2, <3>1, <4>2 DEF Drive, TypeOK
    <3>2. CASE ~(Drive(t) /\ r = f.relay)
      BY <2>0, <3>2, OwnStack
    <3>3. QED
      BY <3>1, <3>2
  \* What there is to show of the stack that the step leaves.
  <2>7. ASSUME \A k \in 1 .. m : TestOK(new[k]),
               \A k \in 1 .. m : k <= n => new[k].relay = old[k].relay,
               t \in Buttons /\ ~Interrupted(t) => m <= n,
               Interrupted(t) => \A k \in 1 .. m : k > Below(t) => Called(new[k], gpio'),
               m >= n - 1,
               m = n - 1 /\ Interrupted(t) => f.relay \in Buttons \/ gpio[f.relay] = "OFF"
        PROVE  ThreadInv(t)'
    <3>1. ASSUME ~Interrupted(t) PROVE ThreadInv(t)'
      <4>1. \A k \in 1 .. m : ~(k > m)
        BY <2>1
      <4>2. ASSUME t \in Buttons, NEW k \in 1 .. m PROVE new[k].relay \in Buttons
        <5>1. k \in 1 .. n /\ k <= Below(t) /\ k <= n
          BY <2>1, <2>7, <3>1, <4>2 DEF Below
        <5>2. old[k].relay \in Buttons
          BY <2>0, <4>2, <5>1 DEF FramesOK
        <5>3. QED
          BY <2>7, <5>1, <5>2
      <4>3. FramesOK(t)'
        BY <2>3, <2>7, <3>1, <4>1, <4>2 DEF FramesOK
      <4>4. QED
        BY <2>3, <3>1, <4>3 DEF ThreadInv
    <3>2. ASSUME Interrupted(t) PROVE ThreadInv(t)'
      <4> DEFINE b == Innermost(t).base
                 nx == Innermost(t).next
      <4>1. /\ Below(t) \in Nat /\ b \in Nat /\ nx \in Nat /\ Below(t) <= b /\ b < n
            /\ signal_seen /\ Interrupted(Ioc) /\ RoundOK(t) /\ Quiet
        BY <2>4, <2>6, <3>2
      <4>2. ASSUME NEW k \in 1 .. m, k <= Below(t), t \in Buttons PROVE new[k].relay \in Buttons
        <5>1. k \in 1 .. n /\ k <= n
          BY <2>1, <4>1, <4>2
        <5>2. old[k].relay \in Buttons
          BY <2>0, <4>2, <5>1 DEF FramesOK
        <5>3. QED
          BY <2>7, <5>1, <5>2
      <4>3. FramesOK(t)'
        BY <2>3, <2>7, <3>2, <4>2 DEF FramesOK
      <4>4. b <= m
        BY <2>1, <2>7, <4>1
      <4>5. ASSUME NEW k \in 1 .. nx - 1, EquipmentOrder[k] \notin Buttons
            PROVE  \/ gpio'[EquipmentOrder[k]] = "OFF"
                   \/ m > b /\ new[b + 1].relay = EquipmentOrder[k]
        <5>1. EquipmentOrder[k] \in Relay
          <6>1. EquipmentOrder \in Seq(Relay) /\ Len(EquipmentOrder) \in Nat
            BY EquipmentAssumption, LenProperties DEF EquipmentAssumption
          <6>2. nx <= Len(EquipmentOrder) + 1
            BY <4>1 DEF RoundOK
          <6> HIDE DEF nx
          <6>3. k \in 1 .. Len(EquipmentOrder)
            BY <4>1, <4>5, <6>1, <6>2
          <6>4. QED
            BY <6>1, <6>3, ElementOfSeq
        <5>2. CASE gpio[EquipmentOrder[k]] = "OFF"
          BY <4>1, <4>5, <5>1, <5>2 DEF Quiet
        <5>3. CASE n > b /\ old[b + 1].relay = EquipmentOrder[k]
          <6> HIDE DEF b, n, m, old, new
          <6>1. CASE m > b
            <7>1. b + 1 \in 1 .. m /\ b + 1 <= n
              BY <2>1, <4>1, <5>3, <6>1
            <7>2. QED
              BY <2>7, <5>3, <6>1, <7>1
          <6>2. CASE m <= b
            <7>1. m = n - 1 /\ b + 1 = n
              BY <2>1, <2>7, <4>1, <6>2
            <7>2. gpio[EquipmentOrder[k]] = "OFF"
              BY <2>1, <2>7, <3>2, <4>5, <5>3, <7>1
            <7>3. QED
              BY <5>2, <7>2
          <6>3. QED
            BY <2>1, <4>1, <6>1, <6>2
        <5>4. QED
          BY <4>1, <4>5, <5>2, <5>3 DEF RoundOK
      <4>6. RoundOK(t)'
        BY <2>3, <4>1, <4>5 DEF RoundOK
      <4>7. DoneOK(t)'
        BY <2>0, <3>2, <4>1 DEF ThreadInv, DoneOK, AllOff, Quiet, Through, processVars
      <4>8. QED
        BY <2>3, <4>1, <4>3, <4>4, <4>6, <4>7 DEF ThreadInv
    <3>3. QED
      BY <3>1, <3>2
  <2>8. ASSUME NEW k \in 1 .. n, Interrupted(t), k > Below(t) PROVE Called(old[k], gpio')
    <3>1. Called(old[k], gpio) /\ Quiet
      BY <2>0, <2>4, <2>6, <2>8 DEF FramesOK
    <3>2. old[k].relay \in Relay
      <4>1. old[k] \in Frame
        <5> HIDE DEF old
        <5>1. QED
          BY <2>1, <2>8, ElementOfSeq DEF old
      <4>2. QED
        BY <4>1 DEF Frame
    <3>3. QED
      BY <3>1, <3>2 DEF Called, Quiet
  <2>9. \A k \in 1 .. n : TestOK(old[k])
    BY <2>0 DEF FramesOK
  \* The top frame changes, but neither its relay nor its request.
  <2>10. ASSUME NEW g, m = n, new[n] = g, g.relay = f.relay, g.op = f.op, TestOK(g),
                Interrupted(t) => Called(g, gpio')
         PROVE  ThreadInv(t)'
    <3> HIDE DEF n, m, f, old, new
    <3>1. ASSUME NEW k \in 1 .. m
          PROVE  /\ TestOK(new[k]) /\ new[k].relay = old[k].relay
                 /\ Interrupted(t) /\ k > Below(t) => Called(new[k], gpio')
      <4>1. CASE k = n
        BY <2>1, <2>10, <4>1
      <4>2. CASE k # n
        <5>1. k \in 1 .. n - 1 /\ k \in 1 .. n
          BY <2>1, <2>10, <3>1, <4>2
        <5>2. QED
          BY <2>1, <2>8, <2>9, <5>1
      <4>3. QED
        BY <4>1, <4>2
    <3>2. m >= n - 1 /\ m <= n /\ m # n - 1
      BY <2>1, <2>10
    <3>3. QED
      BY <2>7, <3>1, <3>2
  <2>11. CASE ConditionHolds(t) /\ m = n /\ new[n] = [f EXCEPT !.i = f.i + 1]
    <3> DEFINE g == [f EXCEPT !.i = f.i + 1]
    <3>1. g.relay = f.relay /\ g.op = f.op /\ g.pc = "conditions"
      BY <2>1, <2>11 DEF Frame, ConditionHolds, InLoop, At, Top
    <3>2. Interrupted(t) => g.op = "OFF"
      BY <2>4, <3>1 DEF Called
    <3> HIDE DEF g
    <3>3. TestOK(g) /\ (Interrupted(t) => Called(g, gpio'))
      BY <3>1, <3>2 DEF TestOK, Called, Written
    <3>4. m = n /\ new[n] = g
      BY <2>11 DEF g
    <3>5. QED
      BY <2>6, <2>10, <3>1, <3>3, <3>4
  <2>12. CASE /\ ForceRequired(t) /\ m = n + 1 /\ new[n] = [f EXCEPT !.i = f.i + 1]
              /\ new[n + 1] = Activation(Condition(t).required, Condition(t).relay)
    <3> DEFINE g == [f EXCEPT !.i = f.i + 1]
               c == Condition(t)
               a == Activation(c.required, c.relay)
    <3>1. g.relay = f.relay /\ g.op = f.op /\ g.pc = "conditions" /\ a.pc = "conditions" /\ a.op = c.required
      BY <2>1, <2>12 DEF Frame, ForceRequired, InLoop, At, Top, Activation
    <3>2. f.i \in DOMAIN Conditions[f.relay] /\ c = Conditions[f.relay][f.i] /\ c.onOff = f.op
      BY <2>12 DEF ForceRequired, InLoop, Unmet, Condition
    <3>3. c.required = f.op
      BY <2>2, <3>2, WiringFacts
    <3>4. t \in Buttons => Interrupted(t)
      BY <2>5, <3>2
    <3>5. Interrupted(t) => f.op = "OFF"
      BY <2>4 DEF Called
    <3> HIDE DEF g, c, a
    <3>6. TestOK(g) /\ TestOK(a) /\ (Interrupted(t) => Called(g, gpio') /\ Called(a, gpio'))
      BY <3>1, <3>3, <3>5 DEF TestOK, Called, Written
    <3>7. new[n] = g /\ new[n + 1] = a /\ m = n + 1
      BY <2>12 DEF g, a, c
    <3> HIDE DEF n, m, f, old, new
    <3>8. ASSUME NEW k \in 1 .. m
          PROVE  /\ TestOK(new[k]) /\ (k <= n => new[k].relay = old[k].relay)
                 /\ Interrupted(t) /\ k > Below(t) => Called(new[k], gpio')
      <4>1. CASE k = n \/ k = n + 1
        BY <2>1, <3>1, <3>6, <3>7, <4>1
      <4>2. CASE k # n /\ k # n + 1
        <5>1. k \in 1 .. n - 1 /\ k \in 1 .. n
          BY <2>1, <3>7, <3>8, <4>2
        <5>2. QED
          BY <2>1, <2>8, <2>9, <5>1
      <4>3. QED
        BY <4>1, <4>2
    <3>9. m >= n - 1 /\ m # n - 1
      BY <2>1, <3>7
    <3>10. /\ \A k \in 1 .. m : TestOK(new[k])
           /\ \A k \in 1 .. m : k <= n => new[k].relay = old[k].relay
           /\ Interrupted(t) => \A k \in 1 .. m : k > Below(t) => Called(new[k], gpio')
      BY <3>8
    <3>11. QED
      BY <2>6, <2>7, <3>4, <3>9, <3>10
  <2>13. CASE (AlreadyOn(t) \/ LogDisabled(t) \/ LogUnlock(t)) /\ m = n - 1
    <3>1. /\ f.pc \in {"test", "log", "unlock"}
          /\ AlreadyOn(t) => f.pc = "test"
          /\ ~AlreadyOn(t) => f.pc \in {"log", "unlock"}
      BY <2>13 DEF AlreadyOn, LogDisabled, LogUnlock, At, Top
    <3>2. Interrupted(t) => f.relay \in Buttons \/ gpio[f.relay] = "OFF"
      <4>1. TestOK(f)
        BY <2>1, <2>9
      <4>2. QED
        BY <2>4, <3>1, <4>1 DEF Called, TestOK, Written
    <3> HIDE DEF n, m, f, old, new
    <3>3. ASSUME NEW k \in 1 .. m
          PROVE  /\ TestOK(new[k]) /\ new[k].relay = old[k].relay
                 /\ Interrupted(t) /\ k > Below(t) => Called(new[k], gpio')
      <4>1. k \in 1 .. n - 1 /\ k \in 1 .. n
        BY <2>1, <2>13, <3>3
      <4>2. QED
        BY <2>1, <2>8, <2>9, <4>1
    <3>4. m >= n - 1 /\ m <= n
      BY <2>1, <2>13
    <3>5. /\ \A k \in 1 .. m : TestOK(new[k])
          /\ \A k \in 1 .. m : k <= n => new[k].relay = old[k].relay
          /\ Interrupted(t) => \A k \in 1 .. m : k > Below(t) => Called(new[k], gpio')
      BY <3>3
    <3>6. QED
      BY <2>6, <2>7, <3>2, <3>4, <3>5
  <2>14. ASSUME NEW pc \in Statement \ {"conditions"}, m = n, new[n] = [f EXCEPT !.pc = pc],
                \/ (AbortRequest(t) \/ ConditionsDone(t)) /\ pc = AfterConditions(f)
                \/ NotYetOn(t) /\ pc = "drive"
                \/ Drive(t) /\ pc = "assign"
                \/ Assign(t) /\ pc = "pilot"
                \/ DrivePilot(t) /\ pc = "log"
                \/ LogLock(t) /\ pc = "unlock"
         PROVE  ThreadInv(t)'
    <3> DEFINE g == [f EXCEPT !.pc = pc]
    <3>1. g.relay = f.relay /\ g.op = f.op /\ g.pc = pc
      BY <2>1 DEF Frame
    <3>2. pc = "test" => f.op = "ON"
      BY <2>14 DEF AfterConditions
    <3>3. ASSUME Interrupted(t), f.relay \notin Buttons, pc \in {"assign", "pilot", "log", "unlock"}
          PROVE  gpio'[f.relay] = "OFF"
      <4>1. Called(f, gpio) /\ f.op = "OFF" /\ Quiet
        BY <2>4, <2>6, <3>3 DEF Called
      <4>2. CASE Drive(t)
        BY <2>0, <2>2, <4>1, <4>2 DEF Drive, TypeOK
      <4>3. CASE ~Drive(t)
        <5>1. f.pc \in {"assign", "pilot", "log"}
          BY <2>14, <3>3, <4>3 DEF Assign, DrivePilot, LogLock, At, Top, AfterConditions
        <5>2. gpio[f.relay] = "OFF"
          BY <3>3, <4>1, <5>1 DEF Called, Written
        <5>3. QED
          BY <2>2, <3>3, <4>1, <5>2 DEF Quiet
      <4>4. QED
        BY <4>2, <4>3
    <3>4. Interrupted(t) => f.op = "OFF"
      BY <2>4 DEF Called
    <3> HIDE DEF g
    <3>5. TestOK(g) /\ (Interrupted(t) => Called(g, gpio'))
      BY <3>1, <3>2, <3>3, <3>4 DEF TestOK, Called, Written
    <3>6. QED
      BY <2>10, <2>14, <3>1, <3>5 DEF g
  <2>15. QED
    <3> HIDE DEF n, m, f, old, new
    <3>1. \/ ConditionHolds(t) /\ m = n /\ new[n] = [f EXCEPT !.i = f.i + 1]
          \/ /\ ForceRequired(t) /\ m = n + 1 /\ new[n] = [f EXCEPT !.i = f.i + 1]
             /\ new[n + 1] = Activation(Condition(t).required, Condition(t).relay)
          \/ (AlreadyOn(t) \/ LogDisabled(t) \/ LogUnlock(t)) /\ m = n - 1
          \/ \E pc \in Statement \ {"conditions"} :
              /\ \/ (AbortRequest(t) \/ ConditionsDone(t)) /\ pc = AfterConditions(f)
                 \/ NotYetOn(t) /\ pc = "drive"
                 \/ Drive(t) /\ pc = "assign"
                 \/ Assign(t) /\ pc = "pilot"
                 \/ DrivePilot(t) /\ pc = "log"
                 \/ LogLock(t) /\ pc = "unlock"
              /\ m = n /\ new[n] = [f EXCEPT !.pc = pc]
      BY <2>0, StepShape DEF n, m, f, old, new
    <3>2. QED
      BY <2>6, <2>11, <2>12, <2>13, <2>14, <3>1
\* A call further by one step, while no handler has set the flag: the threads
\* that a handler interrupted stand still, and the program's beliefs stay true.
<1>truth. ASSUME OneOperator, ShutdownTypeOK, ShutdownInv, NEW t \in Thread, ThreadStep(t),
                 Truthful, ~signal_seen
          PROVE  Truthful'
  <2> USE <1>truth
  <2> DEFINE n == Len(stack[t])
             f == Top(t)
             m == Len(stack'[t])
             g == stack'[t][m]
  <2>0. TypeOK /\ Step(t) /\ ThreadInv(t) /\ FramesOK(t)
    BY DEF ThreadStep, RelayStep, ShutdownTypeOK, PoolTypeOK, ShutdownInv, ThreadInv
  <2>1. /\ n \in Nat \ {0} /\ f = stack[t][n] /\ f \in Frame
        /\ stack'[t] \in Seq(Frame) /\ m \in Nat
        /\ \A k \in 1 .. n - 1 : stack'[t][k] = stack[t][k]
    BY <2>0, StepShape, LenProperties
  <2>2. f.relay \in Relay /\ f.op \in RelayState /\ f.i \in Nat \ {0}
    BY <2>1 DEF Frame
  <2>3. ~Interrupted(t)
    <3>1. Interrupted(t) => Innermost(t).base \in Nat
      BY InnermostShape DEF Handler
    <3>2. QED
      BY <2>0, <2>1, <3>1 DEF ThreadInv, Unset, ThreadStep, Runnable
  <2>4. CASE t # Ioc
    <3>1. t \in Buttons /\ Ioc \in Thread
      BY <2>4, ThreadAssumption DEF ThreadAssumption
    <3>2. f.relay \in Buttons
      <4>1. n \in 1 .. n /\ n <= Below(t)
        BY <2>1, <2>3 DEF Below
      <4>2. QED
        BY <2>0, <2>1, <3>1, <4>1 DEF FramesOK
    <3>3. \A r \in Relay \ Buttons : state'[r] = state[r] /\ gpio'[r] = gpio[r]
      BY <2>0, <3>2, OwnStack
    <3>4. stack'[Ioc] = stack[Ioc]
      BY <2>0, <2>4, <3>1, OwnStack
    <3>5. QED
      BY <3>3, <3>4 DEF Truthful, Believed, At, Top
  <2>5. CASE t = Ioc
    <3>1. /\ \A k \in 1 .. n - 1 : stack'[t][k].pc = "conditions"
          /\ \A r \in Relay \ Buttons : IF f.pc = "assign" /\ f.relay = r THEN gpio[r] = f.op
                                                                     ELSE gpio[r] = state[r]
      <4>1. stack[t] # << >>
        BY <2>0, OwnStack DEF Idle
      <4>2. QED
        BY <2>1, <2>5, <4>1 DEF Truthful, Believed, At, Top
    <3>2. /\ Top(Ioc)' = g /\ (stack'[Ioc] # << >> <=> m # 0)
      BY <2>1, <2>5, EmptySeq DEF Top, Last
    <3>3. ASSUME \A k \in 1 .. m - 1 : stack'[t][k].pc = "conditions",
                 m # 0 /\ g.pc = "assign" =>
                    /\ gpio'[g.relay] = g.op
                    /\ \A r \in Relay \ Buttons : r # g.relay => gpio'[r] = state'[r],
                 m = 0 \/ g.pc # "assign" => \A r \in Relay \ Buttons : gpio'[r] = state'[r]
          PROVE  Truthful'
      <4> HIDE DEF n, f, m, g
      <4>1. \A r \in Relay \ Buttons : Believed(r)'
        <5>1. At(Ioc, "assign")' <=> stack'[Ioc] # << >> /\ g.pc = "assign"
          BY <2>5, <3>2 DEF At, Top
        <5>2. QED
          BY <3>2, <3>3, <5>1 DEF Believed
      <4>2. \A k \in 1 .. Len(stack'[Ioc]) - 1 : stack'[Ioc][k].pc = "conditions"
        BY <2>5, <3>3 DEF m
      <4>3. QED
        BY <4>1, <4>2 DEF Truthful
    <3>4. CASE ~Drive(t) /\ ~Assign(t)
      <4>1. gpio' = gpio /\ state' = state /\ f.pc # "assign"
        BY <2>0, <3>4 DEF Step, ConditionHolds, ForceRequired, AbortRequest, ConditionsDone,
           AlreadyOn, NotYetOn, Drive, Assign, DrivePilot, Log, LogDisabled, LogLock, LogUnlock,
           InLoop, At, Top
      <4>2. \A r \in Relay \ Buttons : gpio'[r] = state'[r]
        BY <3>1, <4>1
      <4>3. CASE ConditionHolds(t) /\ m = n /\ g = [f EXCEPT !.i = f.i + 1]
        <5>1. g.pc = f.pc
          BY <2>1, <4>3 DEF Frame
        <5> HIDE DEF n, f, m, g
        <5>2. QED
          BY <3>1, <3>3, <4>1, <4>2, <4>3, <5>1
      <4>4. CASE ForceRequired(t) /\ m = n + 1 /\ stack'[t][n] = [f EXCEPT !.i = f.i + 1]
                 /\ g = Activation(Condition(t).required, Condition(t).relay)
        <5>1. g.pc = "conditions" /\ stack'[t][n].pc = "conditions"
          BY <2>1, <4>4 DEF Frame, Activation, ForceRequired, InLoop, At, Top
        <5> HIDE DEF n, f, m, g
        <5>2. \A k \in 1 .. m - 1 : stack'[t][k].pc = "conditions"
          <6>1. \A k \in 1 .. m - 1 : k \in 1 .. n - 1 \/ k = n
            BY <2>1, <4>4
          <6>2. QED
            BY <2>1, <3>1, <5>1, <6>1
        <5>3. QED
          BY <3>3, <4>2, <5>1, <5>2
      <4>5. CASE m = n - 1
        <5> HIDE DEF n, f, m
        <5>1. \A k \in 1 .. m : stack'[t][k].pc = "conditions"
          BY <2>1, <3>1, <4>5
        <5>2. m # 0 => g.pc = "conditions"
          BY <2>1, <5>1
        <5> HIDE DEF g
        <5>3. \A k \in 1 .. m - 1 : stack'[t][k].pc = "conditions"
          BY <2>1, <5>1
        <5>4. QED
          BY <3>3, <4>2, <5>2, <5>3
      <4>6. ASSUME NEW pc \in Statement \ {"conditions"}, pc # "assign", m = n, g = [f EXCEPT !.pc = pc]
            PROVE  Truthful'
        <5>1. g.pc = pc
          BY <2>1, <4>6 DEF Frame
        <5> HIDE DEF n, f, m, g
        <5>2. QED
          BY <3>1, <3>3, <4>2, <4>6, <5>1
      <4>7. QED
        <5>1. \/ ConditionHolds(t) /\ m = n /\ g = [f EXCEPT !.i = f.i + 1]
              \/ ForceRequired(t) /\ m = n + 1 /\ stack'[t][n] = [f EXCEPT !.i = f.i + 1]
                 /\ g = Activation(Condition(t).required, Condition(t).relay)
              \/ m = n - 1
              \/ \E pc \in Statement \ {"conditions"} :
                   m = n /\ g = [f EXCEPT !.pc = pc] /\ pc # "assign"
          <6> HIDE DEF f
          <6>1. QED
            BY <2>0, <3>4, StepShape DEF AfterConditions, f
        <5>2. QED
          BY <4>3, <4>4, <4>5, <4>6, <5>1
    <3>5. CASE Drive(t) /\ m = n /\ g = [f EXCEPT !.pc = "assign"]
      <4>1. gpio' = [gpio EXCEPT ![f.relay] = f.op] /\ state' = state /\ f.pc = "drive"
        BY <3>5 DEF Drive, At, Top
      <4>2. g.pc = "assign" /\ g.relay = f.relay /\ g.op = f.op
        BY <2>1, <3>5 DEF Frame
      <4>3. gpio'[g.relay] = g.op /\ \A r \in Relay \ Buttons : r # g.relay => gpio'[r] = state'[r]
        BY <2>0, <2>2, <3>1, <4>1, <4>2 DEF TypeOK
      <4> HIDE DEF n, f, m, g
      <4>4. QED
        BY <2>1, <3>1, <3>3, <3>5, <4>2, <4>3
    <3>6. CASE Assign(t) /\ m = n /\ g = [f EXCEPT !.pc = "pilot"]
      <4>1. state' = [state EXCEPT ![f.relay] = f.op] /\ gpio' = gpio /\ f.pc = "assign"
        BY <3>6 DEF Assign, At, Top
      <4>2. g.pc = "pilot"
        BY <2>1, <3>6 DEF Frame
      <4>3. \A r \in Relay \ Buttons : gpio'[r] = state'[r]
        BY <2>0, <2>2, <3>1, <4>1 DEF TypeOK
      <4> HIDE DEF n, f, m, g
      <4>4. QED
        BY <2>1, <3>1, <3>3, <3>6, <4>2, <4>3
    <3>7. QED
      BY <2>0, <3>4, <3>5, <3>6, StepShape DEF Drive, Assign, ForceRequired, ConditionHolds,
         AlreadyOn, LogDisabled, LogUnlock, AbortRequest, ConditionsDone, NotYetOn, DrivePilot,
         LogLock, InLoop, At
  <2>6. QED
    BY <2>4, <2>5
\* A thread that takes no step keeps its part of the invariant.
<1>untouched. ASSUME ShutdownTypeOK, NEW u \in Thread, ThreadInv(u),
                     stack'[u] = stack[u], handlers'[u] = handlers[u],
                     signal_seen => signal_seen',
                     Interrupted(Ioc) => Interrupted(Ioc)' /\ Quiet
              PROVE  ThreadInv(u)'
  <2> USE <1>untouched
  <2>1. Below(u)' = Below(u) /\ (Interrupted(u)' <=> Interrupted(u)) /\ Innermost(u)' = Innermost(u)
    BY DEF Below, Interrupted, Innermost
  <2>2. ASSUME NEW k \in 1 .. Len(stack[u]) PROVE stack[u][k].relay \in Relay
    <3>1. stack[u] \in Seq(Frame)
      BY DEF ShutdownTypeOK, PoolTypeOK, TypeOK
    <3>2. stack[u][k] \in Frame
      BY <3>1, ElementOfSeq
    <3>3. QED
      BY <3>2 DEF Frame
  <2>3. CASE ~Interrupted(u)
    <3>1. ASSUME NEW k \in 1 .. Len(stack[u]) PROVE ~(k > Below(u))
      <4>1. Len(stack[u]) \in Nat
        BY LenProperties DEF ShutdownTypeOK, PoolTypeOK, TypeOK
      <4>2. QED
        BY <2>3, <4>1 DEF Below
    <3>2. FramesOK(u)'
      BY <2>1, <3>1 DEF ThreadInv, FramesOK
    <3>3. QED
      BY <2>1, <2>3, <3>2 DEF ThreadInv
  <2>4. CASE Interrupted(u)
    <3>1. Interrupted(Ioc) /\ Interrupted(Ioc)' /\ Quiet
      BY <2>4 DEF ThreadInv
    <3>2. FramesOK(u)'
      BY <2>1, <2>2, <3>1 DEF ThreadInv, FramesOK, Called, Quiet
    <3>3. RoundOK(u)'
      <4>1. \A k \in 1 .. Innermost(u).next - 1 : EquipmentOrder[k] \in Relay
        <5>1. Innermost(u).next \in Nat
          BY <2>4, InnermostShape DEF Handler
        <5>2. EquipmentOrder \in Seq(Relay) /\ Len(EquipmentOrder) \in Nat
          BY EquipmentAssumption, LenProperties DEF EquipmentAssumption
        <5>3. Innermost(u).next <= Len(EquipmentOrder) + 1
          BY <2>4 DEF ThreadInv, RoundOK
        <5>4. \A k \in 1 .. Innermost(u).next - 1 : k \in 1 .. Len(EquipmentOrder)
          BY <5>1, <5>2, <5>3
        <5>5. QED
          BY <5>2, <5>4, ElementOfSeq
      <4>2. QED
        BY <2>1, <2>4, <3>1, <4>1 DEF ThreadInv, RoundOK, Quiet
    <3>4. DoneOK(u)'
      BY <2>4, <3>1 DEF ThreadInv, DoneOK, AllOff, Quiet, Through
    <3>5. QED
      BY <2>1, <2>4, <3>1, <3>2, <3>3, <3>4 DEF ThreadInv, Unset
  <2>5. QED
    BY <2>3, <2>4
\* A handler that has passed the last equipment, with no call of its own left, has
\* switched off everything that has no button.
<1>through. ASSUME NEW t \in Thread, NEW h \in Handler, h = Innermost(t), RoundOK(t),
                   Len(stack[t]) = h.base, h.next \notin DOMAIN EquipmentOrder
            PROVE  AllOff
  <2> USE <1>through
  <2> SUFFICES ASSUME NEW r \in Relay \ Buttons PROVE gpio[r] = "OFF"
    BY DEF AllOff
  <2>1. /\ DOMAIN EquipmentOrder = 1 .. Len(EquipmentOrder) /\ Len(EquipmentOrder) \in Nat
        /\ Range(EquipmentOrder) = Relay
    BY EquipmentAssumption, LenProperties DEF EquipmentAssumption
  <2>2. PICK k \in DOMAIN EquipmentOrder : EquipmentOrder[k] = r
    BY <2>1 DEF Range
  <2>3. h.next \in Nat \ {0} /\ h.base \in Nat
    BY DEF Handler
  <2>4. /\ h.next <= Len(EquipmentOrder) + 1
        /\ \A j \in 1 .. h.next - 1 :
              EquipmentOrder[j] \in Buttons \/ gpio[EquipmentOrder[j]] = "OFF"
    BY <2>3 DEF RoundOK
  <2>5. k \in 1 .. h.next - 1
    BY <2>1, <2>3, <2>4
  <2>6. QED
    BY <2>2, <2>4, <2>5
<1>0. Ioc \in Thread /\ Ioc \notin Buttons /\ Buttons \subseteq Thread
  BY ThreadAssumption, ButtonsAssumption DEF ThreadAssumption, ButtonsAssumption
<1>quiet. ASSUME NEW t \in Thread, ShutdownTypeOK, stack[t] = << >>, handlers[t] = << >>
          PROVE  ThreadInv(t)
  <2> USE <1>quiet
  <2>1. Len(stack[t]) = 0
    OBVIOUS
  <2>2. QED
    BY <2>1 DEF ThreadInv, FramesOK, Interrupted
<1>1. ShutdownInit => ShutdownInv
  <2> SUFFICES ASSUME ShutdownInit PROVE ShutdownInv
    OBVIOUS
  <2>1. /\ \A t \in Thread : stack[t] = << >> /\ handlers[t] = << >>
        /\ state = [r \in Relay |-> "OFF"] /\ gpio = [r \in Relay |-> "OFF"]
        /\ running /\ stack[Ioc] = << >>
    BY <1>0 DEF ShutdownInit, PoolInit, Init
  <2>2. \A t \in Thread : Len(stack[t]) = 0
    BY <2>1
  <2>3. \A t \in Thread : ThreadInv(t)
    BY <2>1, <2>2 DEF ThreadInv, FramesOK, Interrupted
  <2>4. Truthful
    BY <1>0, <2>1, <2>2 DEF Truthful, Believed, At
  <2>5. QED
    BY <2>1, <2>3, <2>4 DEF ShutdownInv, OffAtExit
<1>2. ShutdownTypeOK /\ ShutdownTypeOK' /\ ShutdownInv /\ [ShutdownNext]_shutdownVars => ShutdownInv'
  <2> SUFFICES ASSUME ShutdownTypeOK, ShutdownTypeOK', ShutdownInv, [ShutdownNext]_shutdownVars
               PROVE  ShutdownInv'
    OBVIOUS
  <2>0. /\ TypeOK /\ \A t \in Thread : ThreadInv(t) /\ FramesOK(t)
        /\ stack' \in [Thread -> Seq(Frame)] /\ handlers' \in [Thread -> Seq(Handler)]
    BY DEF ShutdownTypeOK, PoolTypeOK, TypeOK, ShutdownInv, ThreadInv
  <2>1. ASSUME running', \A t \in Thread : ThreadInv(t)',
               ~cutShort' /\ ~signal_seen' => Truthful'
        PROVE  ShutdownInv'
    BY <2>1 DEF ShutdownInv, OffAtExit
  \* A step of one thread.
  <2>2. ASSUME NEW t \in Thread, running, running', ThreadInv(t)',
               \A u \in Thread \ {t} : stack'[u] = stack[u] /\ handlers'[u] = handlers[u],
               signal_seen => signal_seen', cutShort' = cutShort,
               Interrupted(Ioc) => Interrupted(Ioc)' /\ Quiet,
               Truthful /\ ~signal_seen' => Truthful'
        PROVE  ShutdownInv'
    <3>1. \A u \in Thread : ThreadInv(u)'
      BY <2>0, <2>2, <1>untouched
    <3>2. QED
      BY <2>1, <2>2, <3>1 DEF ShutdownInv
  <2>3. ASSUME NEW t \in Thread, ThreadStep(t) PROVE ShutdownInv'
    <3>1. /\ Step(t) /\ running /\ running' /\ cutShort' = cutShort /\ signal_seen' = signal_seen
          /\ handlers' = handlers
      BY <2>3 DEF ThreadStep, RelayStep, Runnable, processVars
    <3>2. \A u \in Thread \ {t} : stack'[u] = stack[u]
      BY <2>0, <3>1, OwnStack
    <3>3. ThreadInv(t)' /\ (Interrupted(Ioc) => Quiet)
      BY <2>3, <1>kept
    <3>4. Truthful /\ ~signal_seen' => Truthful'
      BY <2>3, <3>1, <1>truth
    <3>5. Interrupted(Ioc) => Interrupted(Ioc)'
      BY <3>1 DEF Interrupted
    <3>6. QED
      BY <2>2, <3>1, <3>2, <3>3, <3>4, <3>5
  \* A call that begins.
  <2>4. ASSUME NEW t \in Thread, NEW op \in RelayState, NEW r \in Relay, Call(t, op, r),
               running, ~Interrupted(t), t \in Buttons => r \in Buttons, UNCHANGED processVars
        PROVE  ShutdownInv'
    <3>1. /\ \A u \in Thread \ {t} : stack'[u] = stack[u]
          /\ Len(stack'[t]) = 1 /\ stack'[t][1] = Activation(op, r)
          /\ state' = state /\ gpio' = gpio /\ stack[t] = << >>
      BY <2>0, <2>4, CallShape DEF Call, Idle
    <3>2. /\ handlers' = handlers /\ signal_seen' = signal_seen /\ cutShort' = cutShort /\ running'
          /\ (Interrupted(Ioc) => Interrupted(Ioc)' /\ Quiet) /\ ~Interrupted(t)'
      BY <2>4, <3>1 DEF processVars, Interrupted, Quiet
    <3>3. Activation(op, r).relay = r /\ Activation(op, r).pc = "conditions"
      BY DEF Activation
    <3>4. ThreadInv(t)'
      BY <2>4, <3>1, <3>2, <3>3 DEF ThreadInv, FramesOK, Below, TestOK
    <3>5. ASSUME Truthful PROVE Truthful'
      <4>1. CASE t = Ioc
        <5>1. Last(stack'[t]).pc = "conditions"
          BY <3>1, <3>3 DEF Last
        <5>2. ~At(Ioc, "assign") /\ ~At(Ioc, "assign")'
          BY <3>1, <4>1, <5>1 DEF At
        <5>3. \A q \in Relay \ Buttons : Believed(q)'
          BY <3>1, <3>5, <5>2 DEF Truthful, Believed
        <5>4. Len(stack'[Ioc]) = 1
          BY <3>1, <4>1
        <5>5. \A k \in 1 .. Len(stack'[Ioc]) - 1 : FALSE
          BY <5>4
        <5>6. QED
          BY <5>3, <5>5 DEF Truthful
      <4>2. CASE t # Ioc
        BY <1>0, <3>1, <3>5, <4>2 DEF Truthful, Believed, At, Top
      <4>3. QED
        BY <4>1, <4>2
    <3>6. QED
      BY <2>2, <2>4, <3>1, <3>2, <3>4, <3>5
  <2>5. ASSUME UNCHANGED <<vars, processVars>> PROVE ShutdownInv'
    BY <2>5, Zenon DEF vars, processVars, ShutdownInv, ThreadInv, FramesOK, RoundOK, DoneOK, AllOff, Through, Unset,
       Called, Below, Interrupted, Innermost, Truthful, Believed, At, Top, Stopped, OffAtExit
  <2>6. CASE Serve
    <3>1. PICK op \in RelayState, r \in Relay : Call(Ioc, op, r)
      BY <2>6 DEF Serve, Request
    <3>2. running /\ ~Interrupted(Ioc) /\ UNCHANGED processVars
      BY <2>6 DEF Serve
    <3>3. QED
      BY <1>0, <2>4, <3>1, <3>2
  <2>7. ASSUME NEW b \in Buttons, ButtonStep(b) PROVE ShutdownInv'
    <3>1. CASE Pushed(b) \/ Released(b) \/ NotOff(b) \/ NotOn(b)
      BY <2>5, <2>7, <3>1 DEF ButtonStep, Pushed, Released, NotOff, NotOn
    <3>2. CASE FoundOff(b) \/ FoundOn(b)
      <4>1. PICK op \in RelayState : Call(b, op, b)
        BY <3>2 DEF FoundOff, FoundOn, RelayState
      <4>2. b \in Thread /\ b \in Relay /\ running /\ ~Interrupted(b) /\ UNCHANGED processVars
        BY <1>0, <2>7, ButtonsAssumption DEF ButtonStep, ButtonsAssumption
      <4>3. QED
        BY <2>4, <4>1, <4>2
    <3>3. QED
      BY <2>7, <3>1, <3>2 DEF ButtonStep, CallbackStep
  <2>8. ASSUME NEW t \in Thread, NEW sig \in Signal, Deliver(t, sig) PROVE ShutdownInv'
    <3> DEFINE h == [sig |-> sig, pc |-> "seen?", base |-> Len(stack[t]), next |-> 1]
    <3>1. /\ \A u \in Thread \ {t} : handlers'[u] = handlers[u]
          /\ Interrupted(t)' /\ Innermost(t)' = h
          /\ Interrupted(t) => handlers'[t][1] = handlers[t][1]
          /\ ~Interrupted(t) => handlers'[t][1] = h
          /\ Range(handlers'[t]) \subseteq Range(handlers[t]) \union {h}
      BY <2>8, DeliverShape
    <3>2. /\ UNCHANGED <<poolVars, running, signal_seen, cutShort>> /\ running
          /\ t # Ioc => Blocked(Ioc) # {}
      BY <2>8 DEF Deliver
    <3>3. UNCHANGED <<state, gpio, stack>> /\ Quiet
      BY <3>2 DEF poolVars, vars, Quiet
    <3>4. /\ Interrupted(Ioc)'
          /\ h.base = Len(stack[t]) /\ h.next = 1 /\ h.pc = "seen?"
      <4>1. CASE t = Ioc
        BY <3>1, <4>1
      <4>2. CASE t # Ioc
        <5>1. handlers'[Ioc] = handlers[Ioc]
          BY <1>0, <3>1, <4>2
        <5>2. handlers[Ioc] # << >>
          BY <3>2, <4>2 DEF Blocked
        <5>3. QED
          BY <5>1, <5>2 DEF Interrupted
      <4>3. QED
        BY <4>1, <4>2
    <3> HIDE DEF h
    <3>5. Below(t)' = Below(t) /\ Below(t) <= Len(stack[t]) /\ Len(stack[t]) \in Nat
      <4>1. Len(stack[t]) \in Nat
        BY <2>0, LenProperties DEF TypeOK
      <4>2. CASE Interrupted(t)
        <5>1. Below(t) \in Nat /\ Innermost(t).base \in Nat
          BY <4>2, InnermostShape DEF Below, Handler
        <5>2. Below(t) <= Len(stack[t])
          BY <2>0, <4>1, <4>2, <5>1 DEF ThreadInv
        <5>3. QED
          BY <3>1, <4>1, <4>2, <5>2 DEF Below
      <4>3. CASE ~Interrupted(t)
        BY <3>1, <3>4, <4>1, <4>3 DEF Below
      <4>4. QED
        BY <4>2, <4>3
    <3>6. FramesOK(t)'
      BY <2>0, <3>3, <3>5 DEF FramesOK
    <3>7. RoundOK(t)'
      <4>1. Len(EquipmentOrder) \in Nat
        BY EquipmentAssumption, LenProperties DEF EquipmentAssumption
      <4>2. QED
        BY <3>1, <3>4, <4>1 DEF RoundOK
    <3>8. DoneOK(t)'
      <4>1. DoneOK(t)
        <5>1. Interrupted(t) => DoneOK(t)
          BY <2>0 DEF ThreadInv
        <5>2. handlers[t] = << >> => Range(handlers[t]) = {}
          BY DEF Range
        <5>3. QED
          BY <5>1, <5>2 DEF Interrupted, DoneOK
      <4>2. ~Through(h)
        BY <3>4 DEF Through
      <4>3. QED
        BY <3>1, <3>3, <4>1, <4>2 DEF DoneOK, AllOff, Through
    <3>9. ThreadInv(t)'
      BY <3>1, <3>3, <3>4, <3>5, <3>6, <3>7, <3>8 DEF ThreadInv, Unset
    <3>10. Truthful => Truthful'
      BY <3>3, Zenon DEF Truthful, Believed, At, Top
    <3>11. QED
      BY <2>2, <3>1, <3>2, <3>3, <3>4, <3>9, <3>10
  \* A handler goes on by one statement.
  <2>9. ASSUME NEW t \in Thread, TestSeen(t) \/ SetSeen(t) \/ AllSwitchedOff(t) PROVE ShutdownInv'
    <3>0. PICK pc \in HandlerPc :
            /\ HandlerGoto(t, pc)
            /\ \/ TestSeen(t) /\ pc = IF signal_seen THEN "exit" ELSE "set"
               \/ SetSeen(t) /\ pc = "off"
               \/ AllSwitchedOff(t) /\ pc = "exit"
      BY <2>9 DEF TestSeen, SetSeen, AllSwitchedOff, HandlerPc
    <3> DEFINE o == Innermost(t)
               h == [o EXCEPT !.pc = pc]
    <3>1. /\ Interrupted(t) /\ running /\ Len(stack[t]) = o.base
          /\ UNCHANGED <<poolVars, running, cutShort>> /\ (signal_seen => signal_seen')
          /\ SetSeen(t) \/ signal_seen' = signal_seen
      BY <2>9 DEF TestSeen, SetSeen, AllSwitchedOff, HandlerAt
    <3>2. o \in Handler /\ h \in Handler /\ h.base = o.base /\ h.next = o.next /\ h.pc = pc
      BY <3>1, InnermostShape DEF Handler
    <3>3. handlers' = [handlers EXCEPT ![t] = [handlers[t] EXCEPT ![Len(handlers[t])] = h]]
      BY <3>0, <3>1, InnermostShape DEF HandlerGoto
    <3>4. ~signal_seen' => pc \in {"seen?", "set"}
      <4>1. AllSwitchedOff(t) => signal_seen
        BY <2>0, <3>1 DEF ThreadInv, Unset, AllSwitchedOff, HandlerAt
      <4>2. SetSeen(t) => signal_seen'
        BY DEF SetSeen
      <4>3. QED
        BY <3>0, <3>1, <4>1, <4>2
    <3> HIDE DEF h
    <3>5. /\ \A u \in Thread \ {t} : handlers'[u] = handlers[u]
          /\ Interrupted(t)' /\ Innermost(t)' = h
          /\ handlers'[t][1].base = handlers[t][1].base
          /\ Range(handlers'[t]) \subseteq Range(handlers[t]) \union {h}
      BY <3>1, <3>2, <3>3, InnermostShape
    <3>6. UNCHANGED <<state, gpio, stack>> /\ Quiet
      BY <3>1 DEF poolVars, vars, Quiet
    <3>7. Below(t)' = Below(t)
      BY <3>1, <3>5 DEF Below
    <3>8. FramesOK(t)' /\ RoundOK(t)' /\ DoneOK(t)'
      <4>1. RoundOK(t) /\ DoneOK(t)
        BY <2>0, <3>1 DEF ThreadInv
      <4>2. RoundOK(t)'
        BY <3>2, <3>5, <3>6, <4>1 DEF RoundOK
      <4>3. FramesOK(t)'
        BY <2>0, <3>6, <3>7 DEF FramesOK
      <4>4. Through(h) => AllOff
        BY <1>through, <3>1, <3>2, <4>1 DEF Through
      <4>5. DoneOK(t)'
        BY <3>5, <3>6, <4>1, <4>4 DEF DoneOK, AllOff, Through
      <4>6. QED
        BY <4>2, <4>3, <4>5
    <3>9. Interrupted(Ioc)'
      BY <1>0, <2>0, <3>1, <3>5 DEF ThreadInv, Interrupted
    <3>10. ThreadInv(t)'
      BY <2>0, <3>1, <3>2, <3>4, <3>5, <3>6, <3>7, <3>8, <3>9 DEF ThreadInv, Unset
    <3>11. Truthful => Truthful'
      BY <3>6, Zenon DEF Truthful, Believed, At, Top
    <3>12. QED
      BY <2>2, <3>1, <3>5, <3>6, <3>9, <3>10, <3>11
  <2>10. ASSUME NEW t \in Thread, SwitchNextOff(t) PROVE ShutdownInv'
    <3> DEFINE o == Innermost(t)
               h == [o EXCEPT !.next = o.next + 1]
               n == Len(stack[t])
               r == EquipmentOrder[o.next]
               a == Activation("OFF", r)
    <3>1. /\ n \in Nat /\ o \in Handler /\ n = o.base /\ o.pc = "off"
          /\ o.next \in DOMAIN EquipmentOrder
          /\ \A u \in Thread \ {t} : stack'[u] = stack[u] /\ handlers'[u] = handlers[u]
          /\ Len(stack'[t]) = n + 1 /\ stack'[t][n + 1] = a
          /\ \A k \in 1 .. n : stack'[t][k] = stack[t][k]
          /\ Interrupted(t)' /\ Innermost(t)' = h
          /\ handlers'[t][1].base = handlers[t][1].base
          /\ Range(handlers'[t]) \subseteq Range(handlers[t]) \union {h}
      BY <2>10, SwitchNextShape
    <3>2. /\ Interrupted(t) /\ running /\ running' /\ cutShort' = cutShort
          /\ signal_seen' = signal_seen /\ gpio' = gpio
      BY <2>10 DEF SwitchNextOff, HandlerAt
    <3>3. /\ h.base = o.base /\ h.next = o.next + 1 /\ o.next \in Nat \ {0}
          /\ a.op = "OFF" /\ a.relay = r /\ a.pc = "conditions" /\ h.pc = "off"
      BY <3>1 DEF Handler, Activation
    <3>4. /\ signal_seen /\ RoundOK(t) /\ DoneOK(t) /\ Interrupted(Ioc)
          /\ Below(t) \in Nat /\ Below(t) <= n
      <4>1. Below(t) \in Nat
        BY <3>2, InnermostShape DEF Below, Handler
      <4>2. QED
        BY <2>0, <3>1, <3>2, <4>1 DEF ThreadInv, Unset
    <3>5. Below(t)' = Below(t) /\ Interrupted(Ioc)'
      BY <1>0, <3>1, <3>2, <3>4 DEF Below, Interrupted
    <3> HIDE DEF o, h, n, r, a
    <3>6. FramesOK(t)'
      <4>1. ASSUME NEW k \in 1 .. n + 1
            PROVE  LET f == stack'[t][k] IN
                   /\ TestOK(f)
                   /\ k <= Below(t) /\ t \in Buttons => f.relay \in Buttons
                   /\ k > Below(t) => Called(f, gpio)
        <5>1. CASE k = n + 1
          BY <3>1, <3>3, <3>4, <5>1 DEF TestOK, Called, Written
        <5>2. CASE k # n + 1
          <6>1. k \in 1 .. n
            BY <3>1, <4>1, <5>2
          <6>2. QED
            BY <2>0, <3>1, <6>1 DEF FramesOK, n
        <5>3. QED
          BY <5>1, <5>2
      <4>2. QED
        BY <3>1, <3>2, <3>5, <4>1 DEF FramesOK
    <3>7. RoundOK(t)'
      <4>1. DOMAIN EquipmentOrder = 1 .. Len(EquipmentOrder) /\ Len(EquipmentOrder) \in Nat
        BY EquipmentAssumption, LenProperties DEF EquipmentAssumption
      <4>2. h.next <= Len(EquipmentOrder) + 1
        BY <3>1, <3>3, <4>1
      <4>3. ASSUME NEW k \in 1 .. h.next - 1
            PROVE  \/ EquipmentOrder[k] \in Buttons
                   \/ gpio'[EquipmentOrder[k]] = "OFF"
                   \/ n + 1 > h.base /\ stack'[t][h.base + 1].relay = EquipmentOrder[k]
        <5>1. CASE k = o.next
          BY <3>1, <3>3, <5>1 DEF r
        <5>2. CASE k # o.next
          <6>1. k \in 1 .. o.next - 1
            BY <3>3, <4>3, <5>2
          <6>2. ~(n > o.base)
            BY <3>1
          <6>3. EquipmentOrder[k] \in Buttons \/ gpio[EquipmentOrder[k]] = "OFF"
            BY <3>4, <6>1, <6>2 DEF RoundOK, o, n
          <6>4. QED
            BY <3>2, <6>3
        <5>3. QED
          BY <5>1, <5>2
      <4>4. QED
        BY <3>1, <4>2, <4>3 DEF RoundOK
    <3>8. DoneOK(t)'
      BY <3>1, <3>2, <3>3, <3>4 DEF DoneOK, AllOff, Through
    <3>9. ThreadInv(t)'
      BY <3>1, <3>2, <3>3, <3>4, <3>5, <3>6, <3>7, <3>8 DEF ThreadInv
    <3>10. QED
      BY <2>2, <3>1, <3>2, <3>4, <3>5, <3>9 DEF Quiet
  <2>11. ASSUME ProcessEnds, ~cutShort' => \A r \in Relay \ Buttons : gpio[r] = "OFF"
         PROVE  ShutdownInv'
    <3>1. /\ ~running' /\ gpio' = gpio /\ state' = [r \in Relay |-> "OFF"] /\ ~signal_seen'
          /\ \A t \in Thread : stack'[t] = << >> /\ handlers'[t] = << >>
      BY <2>11 DEF ProcessEnds
    <3>2. \A t \in Thread : Len(stack'[t]) = 0
      BY <3>1
    <3>3. \A t \in Thread : ThreadInv(t)'
      BY <3>1, <3>2 DEF ThreadInv, FramesOK, Interrupted
    <3>4. Stopped'
      BY <3>1 DEF Stopped
    <3>5. OffAtExit'
      BY <2>11, <3>1 DEF OffAtExit
    <3>6. QED
      BY <3>1, <3>3, <3>4, <3>5 DEF ShutdownInv
  <2>12. ASSUME NEW t \in Thread, HandlerExit(t) PROVE ShutdownInv'
    <3>1. cutShort' = ~RoundDone /\ ProcessEnds
      BY <2>12 DEF HandlerExit
    <3>2. ASSUME NEW u \in Thread, NEW h \in Range(handlers[u]), Through(h)
          PROVE  AllOff
      <4>1. Interrupted(u)
        BY <3>2 DEF Interrupted, Range
      <4>2. QED
        BY <2>0, <3>2, <4>1 DEF ThreadInv, DoneOK
    <3>3. QED
      BY <2>11, <3>1, <3>2 DEF RoundDone, AllOff
  <2>13. CASE ExceptionExit
    BY <2>11, <2>13 DEF ExceptionExit
  <2>14. CASE Start
    <3>1. /\ ~running /\ running' /\ UNCHANGED <<state, gpio, stack, handlers, signal_seen, cutShort>>
      BY <2>14 DEF Start, poolVars, vars
    <3>2. /\ \A t \in Thread : stack[t] = << >> /\ handlers[t] = << >>
          /\ \A r \in Relay : state[r] = "OFF"
          /\ ~cutShort => \A r \in Relay \ Buttons : gpio[r] = "OFF"
      BY <3>1 DEF ShutdownInv, Stopped, OffAtExit
    <3>3. \A t \in Thread : Len(stack'[t]) = 0 /\ stack'[t] = << >> /\ handlers'[t] = << >>
      BY <3>1, <3>2
    <3>4. \A t \in Thread : ThreadInv(t)'
      BY <3>3 DEF ThreadInv, FramesOK, Interrupted
    <3>5. ~cutShort => Truthful'
      BY <1>0, <3>1, <3>2, <3>3 DEF Truthful, Believed, At
    <3>6. QED
      BY <2>1, <3>1, <3>4, <3>5
  <2>15. CASE UNCHANGED shutdownVars
    BY <2>5, <2>15 DEF shutdownVars, poolVars
  <2>16. QED
    BY <2>3, <2>6, <2>7, <2>8, <2>9, <2>10, <2>12, <2>13, <2>14, <2>15 DEF ShutdownNext, HandlerStep
<1>3. QED
  BY <1>1, <1>2, ShutdownTypeCorrect, PTL DEF ShutdownSpec

\* A process that ends after a handler's whole round leaves no relay on that only the
\* io_context thread operates: however many threads were in however many calls,
\* whatever other handlers the round was interrupted by, or interrupted.
THEOREM NothingLeftOn ==
  ASSUME OneOperator
  PROVE  ShutdownSpec => []OffAtExit
<1>1. ShutdownInv => OffAtExit
  BY DEF ShutdownInv
<1>2. QED
  BY <1>1, ShutdownInvariant, PTL

\* What a program started after such an end believes of those relays is true
\* while nobody switches them, until a handler sets its flag.
THEOREM BeliefsAcrossStarts ==
  ASSUME OneOperator
  PROVE  ShutdownSpec => []TruthAcrossStarts
<1>1. ShutdownTypeOK /\ ShutdownInv => TruthAcrossStarts
  <2> SUFFICES ASSUME ShutdownTypeOK, ShutdownInv, running, ~cutShort, ~signal_seen,
                      NEW r \in Relay \ Buttons, ~Busy(r)
               PROVE  gpio[r] = state[r]
    BY DEF TruthAcrossStarts
  <2>1. Believed(r) /\ Ioc \in Thread /\ TypeOK
    BY ThreadAssumption DEF ShutdownInv, Truthful, ThreadAssumption, ShutdownTypeOK, PoolTypeOK
  <2>2. ~(At(Ioc, "assign") /\ Top(Ioc).relay = r)
    <3> SUFFICES ASSUME At(Ioc, "assign"), Top(Ioc).relay = r PROVE FALSE
      OBVIOUS
    <3>1. /\ Len(stack[Ioc]) \in Nat \ {0} /\ stack[Ioc] \in Seq(Frame)
          /\ Top(Ioc) = stack[Ioc][Len(stack[Ioc])]
      BY <2>1, TopShape DEF At, Idle
    <3>2. Len(stack[Ioc]) \in DOMAIN stack[Ioc]
      BY <3>1
    <3>3. QED
      BY <2>1, <3>1, <3>2 DEF Busy
  <2>3. QED
    BY <2>1, <2>2 DEF Believed
<1>2. QED
  BY <1>1, ShutdownTypeCorrect, ShutdownInvariant, PTL
=============================================================================
