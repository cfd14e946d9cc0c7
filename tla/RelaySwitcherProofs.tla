------------------------ MODULE RelaySwitcherProofs ------------------------
(***************************************************************************)
(* What a relay and the conditions it checks promise while calls do not    *)
(* overlap, for any relays, any conditions (they may force each other to   *)
(* any depth), any pilot lights and any number of threads.                 *)
(*                                                                         *)
(* The argument: in a stack of calls that force each other only the        *)
(* topmost is past its loop, so at most one relay is between the writes of *)
(* its output, its state_ and its LED.  The topmost call can be arbitrarily *)
(* far above the one that aborted or was asked, so the invariant speaks of *)
(* every frame of the stack.                                               *)
(***************************************************************************)
EXTENDS RelaySwitcher, SequenceTheorems, TLAPS

-----------------------------------------------------------------------------
(***************************************************************************)
(* What the steps do to a stack.                                           *)
(***************************************************************************)
\* The frame a busy thread works on.
LEMMA TopShape ==
  ASSUME TypeOK, NEW t \in Thread, ~Idle(t)
  PROVE  /\ stack[t] \in Seq(Frame)
         /\ Len(stack[t]) \in Nat \ {0}
         /\ Top(t) = stack[t][Len(stack[t])]
         /\ Top(t) \in Frame
<1>1. stack[t] \in Seq(Frame) /\ stack[t] # << >>
  BY DEF TypeOK, Idle
<1>2. QED
  BY <1>1, EmptySeq, ElementOfSeq DEF Top, Last

\* What a call makes of its own stack: a jump changes the statement of the topmost
\* frame, a return takes it away, and a condition that holds moves its loop on; what
\* lies below stays.
LEMMA StackShapes ==
  ASSUME TypeOK, NEW t \in Thread, ~Idle(t)
  PROVE  /\ \A pc \in Statement : Goto(t, pc) =>
               /\ stack' \in [Thread -> Seq(Frame)]
               /\ \A u \in Thread \ {t} : stack'[u] = stack[u]
               /\ Len(stack'[t]) = Len(stack[t])
               /\ stack'[t][Len(stack[t])] = [Top(t) EXCEPT !.pc = pc]
               /\ \A k \in 1 .. Len(stack[t]) - 1 : stack'[t][k] = stack[t][k]
         /\ Return(t) =>
               /\ stack' \in [Thread -> Seq(Frame)]
               /\ \A u \in Thread \ {t} : stack'[u] = stack[u]
               /\ Len(stack'[t]) = Len(stack[t]) - 1
               /\ \A k \in 1 .. Len(stack[t]) - 1 : stack'[t][k] = stack[t][k]
         /\ /\ NextCondition(t) \in Seq(Frame)
            /\ Len(NextCondition(t)) = Len(stack[t])
            /\ NextCondition(t)[Len(stack[t])] = [Top(t) EXCEPT !.i = Top(t).i + 1]
            /\ \A k \in 1 .. Len(stack[t]) - 1 : NextCondition(t)[k] = stack[t][k]
<1>goto. ASSUME NEW pc \in Statement, Goto(t, pc)
         PROVE  /\ stack' \in [Thread -> Seq(Frame)]
                /\ \A u \in Thread \ {t} : stack'[u] = stack[u]
                /\ Len(stack'[t]) = Len(stack[t])
                /\ stack'[t][Len(stack[t])] = [Top(t) EXCEPT !.pc = pc]
                /\ \A k \in 1 .. Len(stack[t]) - 1 : stack'[t][k] = stack[t][k]
  <2> USE <1>goto
  <2> DEFINE f == [Top(t) EXCEPT !.pc = pc]
  <2>1. f \in Frame
    BY TopShape DEF Frame
  <2> DEFINE s == [stack[t] EXCEPT ![Len(stack[t])] = f]
  <2>2. stack' = [stack EXCEPT ![t] = s]
    BY TopShape DEF Goto
  <2> HIDE DEF f
  <2>3. /\ s \in Seq(Frame)
        /\ Len(s) = Len(stack[t])
        /\ s[Len(s)] = f
        /\ \A k \in 1 .. Len(s) - 1 : s[k] = stack[t][k]
    BY <2>1, TopShape, ExceptSeq DEF s
  <2> HIDE DEF s
  <2>4. /\ stack' \in [Thread -> Seq(Frame)]
        /\ stack'[t] = s
        /\ \A u \in Thread \ {t} : stack'[u] = stack[u]
    BY <2>2, <2>3 DEF TypeOK
  <2>5. QED
    BY <2>3, <2>4 DEF f
<1>return. ASSUME Return(t)
           PROVE  /\ stack' \in [Thread -> Seq(Frame)]
                  /\ \A u \in Thread \ {t} : stack'[u] = stack[u]
                  /\ Len(stack'[t]) = Len(stack[t]) - 1
                  /\ \A k \in 1 .. Len(stack[t]) - 1 : stack'[t][k] = stack[t][k]
  <2> USE <1>return
  \* A sequence that is not empty without its last element.
  <2>front. ASSUME NEW T, NEW s \in Seq(T), s # << >>
            PROVE  /\ Front(s) \in Seq(T)
                   /\ Len(Front(s)) = Len(s) - 1
                   /\ \A k \in 1 .. Len(s) - 1 : Front(s)[k] = s[k]
    <3> USE <2>front
    <3>1. Len(s) \in Nat \ {0} /\ \A k \in 1 .. Len(s) - 1 : s[k] \in T
      BY EmptySeq, ElementOfSeq
    <3> DEFINE n == Len(s) - 1
               q == SubSeq(s, 1, n)
    <3>2. /\ q \in Seq(T)
          /\ Len(q) = IF 1 <= n THEN n - 1 + 1 ELSE 0
          /\ \A k \in 1 .. n - 1 + 1 : q[k] = s[1 + k - 1]
      <4>1. 1 \in Int /\ n \in Int /\ \A k \in 1 .. n : s[k] \in T
        BY <3>1
      <4> HIDE DEF n
      <4>2. QED
        BY <4>1, SubSeqProperties
    <3>3. Front(s) = q
      BY DEF Front
    <3> HIDE DEF q
    <3>4. QED
      BY <3>1, <3>2, <3>3
  <2>1. stack[t] \in Seq(Frame) /\ stack[t] # << >>
    BY DEF TypeOK, Idle
  <2>2. QED
    BY <2>1, <2>front DEF Return, TypeOK
<1>next. /\ NextCondition(t) \in Seq(Frame)
         /\ Len(NextCondition(t)) = Len(stack[t])
         /\ NextCondition(t)[Len(stack[t])] = [Top(t) EXCEPT !.i = Top(t).i + 1]
         /\ \A k \in 1 .. Len(stack[t]) - 1 : NextCondition(t)[k] = stack[t][k]
  <2> DEFINE f == [Top(t) EXCEPT !.i = Top(t).i + 1]
  <2>1. f \in Frame
    BY TopShape DEF Frame
  <2> DEFINE s == NextCondition(t)
  <2>2. s = [stack[t] EXCEPT ![Len(stack[t])] = f]
    BY TopShape DEF NextCondition
  <2> HIDE DEF s, f
  <2>3. /\ s \in Seq(Frame)
        /\ Len(s) = Len(stack[t])
        /\ s[Len(s)] = f
        /\ \A k \in 1 .. Len(s) - 1 : s[k] = stack[t][k]
    BY <2>1, <2>2, TopShape, ExceptSeq
  <2>4. QED
    BY <2>3 DEF s, f
<1>4. QED
  BY <1>goto, <1>return, <1>next

\* A call from outside begins a stack of one frame.
LEMMA CallShape ==
  ASSUME TypeOK, NEW t \in Thread, NEW op \in RelayState, NEW r \in Relay, Call(t, op, r)
  PROVE  /\ stack' \in [Thread -> Seq(Frame)]
         /\ \A u \in Thread \ {t} : stack'[u] = stack[u]
         /\ Len(stack'[t]) = 1
         /\ stack'[t][1] = Activation(op, r)
<1>1. Activation(op, r) \in Frame
  BY DEF Activation, Frame, Statement
<1>2. <<Activation(op, r)>> \in Seq(Frame)
  BY <1>1
<1>3. QED
  BY <1>2 DEF Call, TypeOK

\* A thread that forces another relay goes a step deeper, and its own activation
\* goes on with the next condition.
LEMMA ForceShape ==
  ASSUME TypeOK, NEW t \in Thread, ForceRequired(t)
  PROVE  LET n == Len(stack[t]) IN
         /\ stack' \in [Thread -> Seq(Frame)]
         /\ \A u \in Thread \ {t} : stack'[u] = stack[u]
         /\ Len(stack'[t]) = n + 1
         /\ stack'[t][n + 1] = Activation(Condition(t).required, Condition(t).relay)
         /\ stack'[t][n] = [Top(t) EXCEPT !.i = Top(t).i + 1]
         /\ \A k \in 1 .. n - 1 : stack'[t][k] = stack[t][k]
<1> DEFINE s == NextCondition(t)
           g == Activation(Condition(t).required, Condition(t).relay)
           n == Len(stack[t])
<1>1. ~Idle(t) /\ Condition(t) \in RequiredState
  <2>1. InLoop(t) /\ ~Idle(t) /\ Top(t) \in Frame
    BY TopShape DEF ForceRequired, InLoop, At, Idle
  <2>2. Conditions[Top(t).relay] \in Seq(RequiredState)
    BY <2>1, ConditionsAssumption DEF ConditionsAssumption, Frame
  <2>3. QED
    BY <2>1, <2>2, ElementOfSeq, LenProperties DEF InLoop, Condition
<1>2. n \in Nat \ {0}
  BY <1>1, TopShape
<1>3. /\ s \in Seq(Frame) /\ Len(s) = n
      /\ s[n] = [Top(t) EXCEPT !.i = Top(t).i + 1]
      /\ \A k \in 1 .. n - 1 : s[k] = stack[t][k]
  BY <1>1, StackShapes
<1>4. g \in Frame
  BY <1>1 DEF Activation, Frame, Statement, RequiredState
<1>5. stack' = [stack EXCEPT ![t] = Append(s, g)]
  BY DEF ForceRequired
<1> HIDE DEF s, g, n
<1>6. /\ Append(s, g) \in Seq(Frame) /\ Len(Append(s, g)) = n + 1
      /\ Append(s, g)[n + 1] = g
      /\ \A k \in 1 .. n : Append(s, g)[k] = s[k]
  BY <1>2, <1>3, <1>4
<1>7. /\ stack' \in [Thread -> Seq(Frame)]
      /\ stack'[t] = Append(s, g)
      /\ \A u \in Thread \ {t} : stack'[u] = stack[u]
  BY <1>5, <1>6 DEF TypeOK
<1>8. QED
  BY <1>2, <1>3, <1>6, <1>7 DEF n, g

\* A step of a thread changes no other thread's stack.
LEMMA OwnStack ==
  ASSUME TypeOK, NEW t \in Thread, Step(t)
  PROVE  /\ \A u \in Thread \ {t} : stack'[u] = stack[u]
         /\ \A r \in Relay : r # Top(t).relay =>
               state'[r] = state[r] /\ gpio'[r] = gpio[r] /\ pilot'[r] = pilot[r]
         /\ ~Drive(t) => gpio' = gpio
         /\ ~Idle(t)
         /\ \E s : stack' = [stack EXCEPT ![t] = s]
  BY DEF TypeOK, Step, ConditionHolds, ForceRequired, AbortRequest, ConditionsDone,
     AlreadyOn, NotYetOn, Drive, Assign, DrivePilot, Log, LogDisabled, LogLock, LogUnlock,
     Goto, Return, InLoop, At, Idle

\* What any step of t makes of its stack.
LEMMA StepShape ==
  ASSUME TypeOK, NEW t \in Thread, Step(t)
  PROVE  LET n == Len(stack[t])  f == Top(t) IN
         /\ n \in Nat \ {0} /\ f = stack[t][n] /\ f \in Frame /\ stack[t] \in Seq(Frame)
         /\ stack'[t] \in Seq(Frame)
         /\ \A k \in 1 .. n - 1 : stack'[t][k] = stack[t][k]
         /\ \/ /\ ConditionHolds(t)
               /\ Len(stack'[t]) = n /\ stack'[t][n] = [f EXCEPT !.i = f.i + 1]
            \/ /\ ForceRequired(t)
               /\ Len(stack'[t]) = n + 1 /\ stack'[t][n] = [f EXCEPT !.i = f.i + 1]
               /\ stack'[t][n + 1] = Activation(Condition(t).required, Condition(t).relay)
            \/ /\ AlreadyOn(t) \/ LogDisabled(t) \/ LogUnlock(t)
               /\ Len(stack'[t]) = n - 1
            \/ \E pc \in Statement \ {"conditions"} :
               /\ \/ (AbortRequest(t) \/ ConditionsDone(t)) /\ pc = AfterConditions(f)
                  \/ NotYetOn(t) /\ pc = "drive"
                  \/ Drive(t) /\ pc = "assign"
                  \/ Assign(t) /\ pc = "pilot"
                  \/ DrivePilot(t) /\ pc = "log"
                  \/ LogLock(t) /\ pc = "unlock"
               /\ Len(stack'[t]) = n /\ stack'[t][n] = [f EXCEPT !.pc = pc]
<1> DEFINE n == Len(stack[t])
           f == Top(t)
<1>0. ~Idle(t)
  BY DEF Step, ConditionHolds, ForceRequired, AbortRequest, ConditionsDone,
     AlreadyOn, NotYetOn, Drive, Assign, DrivePilot, Log, LogDisabled, LogLock, LogUnlock,
     InLoop, At, Idle
<1>1. n \in Nat \ {0} /\ f = stack[t][n] /\ f \in Frame /\ stack[t] \in Seq(Frame)
  BY <1>0, TopShape
<1>2. CASE ConditionHolds(t)
  <2>1. /\ stack'[t] \in Seq(Frame) /\ Len(stack'[t]) = n
        /\ stack'[t][n] = [f EXCEPT !.i = f.i + 1]
        /\ \A k \in 1 .. n - 1 : stack'[t][k] = stack[t][k]
    BY <1>0, <1>2, StackShapes DEF ConditionHolds, TypeOK
  <2> HIDE DEF n, f
  <2>2. QED
    BY <1>1, <1>2, <2>1 DEF n, f
<1>3. CASE ForceRequired(t)
  <2>1. /\ stack'[t] \in Seq(Frame) /\ Len(stack'[t]) = n + 1
        /\ stack'[t][n] = [f EXCEPT !.i = f.i + 1]
        /\ stack'[t][n + 1] = Activation(Condition(t).required, Condition(t).relay)
        /\ \A k \in 1 .. n - 1 : stack'[t][k] = stack[t][k]
    BY <1>3, ForceShape
  <2> HIDE DEF n, f
  <2>2. QED
    BY <1>1, <1>3, <2>1 DEF n, f
<1>4. CASE AlreadyOn(t) \/ LogDisabled(t) \/ LogUnlock(t)
  <2>1. /\ stack'[t] \in Seq(Frame) /\ Len(stack'[t]) = n - 1
        /\ \A k \in 1 .. n - 1 : stack'[t][k] = stack[t][k]
    BY <1>0, <1>4, StackShapes DEF AlreadyOn, LogDisabled, LogUnlock
  <2> HIDE DEF n, f
  <2>2. QED
    BY <1>1, <1>4, <2>1 DEF n, f
<1>5. CASE AbortRequest(t) \/ ConditionsDone(t) \/ NotYetOn(t) \/ Drive(t) \/ Assign(t)
           \/ DrivePilot(t) \/ LogLock(t)
  <2>1. PICK pc \in Statement \ {"conditions"} :
          /\ \/ (AbortRequest(t) \/ ConditionsDone(t)) /\ pc = AfterConditions(f)
             \/ NotYetOn(t) /\ pc = "drive"
             \/ Drive(t) /\ pc = "assign"
             \/ Assign(t) /\ pc = "pilot"
             \/ DrivePilot(t) /\ pc = "log"
             \/ LogLock(t) /\ pc = "unlock"
          /\ Goto(t, pc)
    BY <1>5 DEF AbortRequest, ConditionsDone, NotYetOn, Drive, Assign, DrivePilot, LogLock,
       AfterConditions, Statement
  <2>2. /\ stack'[t] \in Seq(Frame) /\ Len(stack'[t]) = n
        /\ stack'[t][n] = [f EXCEPT !.pc = pc]
        /\ \A k \in 1 .. n - 1 : stack'[t][k] = stack[t][k]
    BY <1>0, <2>1, StackShapes
  <2> HIDE DEF n, f
  <2>3. QED
    BY <1>1, <2>1, <2>2 DEF n, f
<1>6. QED
  BY <1>2, <1>3, <1>4, <1>5 DEF Step, Log

-----------------------------------------------------------------------------
(***************************************************************************)
(* Type correctness.                                                       *)
(***************************************************************************)
\* No statement of a call leaves the types.
LEMMA StepType ==
  ASSUME TypeOK, NEW t \in Thread, Step(t)
  PROVE  TypeOK'
<1>1. stack' \in [Thread -> Seq(Frame)]
  <2>1. PICK s : stack' = [stack EXCEPT ![t] = s]
    BY OwnStack
  <2>2. stack'[t] \in Seq(Frame)
    BY StepShape
  <2>3. s \in Seq(Frame)
    BY <2>1, <2>2 DEF TypeOK
  <2>4. QED
    BY <2>1, <2>3 DEF TypeOK
<1>2. Top(t).op \in RelayState /\ Top(t).relay \in Relay
  BY OwnStack, TopShape DEF Frame
<1>3. QED
  BY <1>1, <1>2 DEF TypeOK, Step, ConditionHolds, ForceRequired, AbortRequest, ConditionsDone,
     AlreadyOn, NotYetOn, Drive, Assign, DrivePilot, Log, LogDisabled, LogLock, LogUnlock

\* RelaySwitcher keeps to its types, for any conditions and threads.
LEMMA TypeCorrect == Spec => []TypeOK
<1>1. Init => TypeOK
  <2>1. << >> \in Seq(Frame)
    OBVIOUS
  <2>2. QED
    BY <2>1 DEF Init, TypeOK, RelayState
<1>2. TypeOK /\ [Next]_vars => TypeOK'
  <2> SUFFICES ASSUME TypeOK, [Next]_vars PROVE TypeOK'
    OBVIOUS
  <2>1. ASSUME NEW t \in Thread, NEW op \in RelayState, NEW r \in Relay, Call(t, op, r)
        PROVE  TypeOK'
    BY <2>1, CallShape DEF Call, TypeOK
  <2>2. CASE UNCHANGED vars
    BY <2>2 DEF vars, TypeOK
  <2>3. QED
    BY <2>1, <2>2, StepType DEF Next
<1>3. QED
  BY <1>1, <1>2, PTL DEF Spec

-----------------------------------------------------------------------------
(***************************************************************************)
(* The outputs.                                                            *)
(***************************************************************************)
\* Calls do not overlap: whoever is in a call, nobody else is.
OneCaller == \A t, u \in Thread : t = u \/ Idle(t) \/ Idle(u)

\* What holds of a relay's two outputs while no step is between its writes.
Driven(r)  == gpio[r] = state[r]
Shown(r)   == r \in Pilots => pilot[r] = state[r]

\* The relays as the calls of t leave them: only the topmost call is past its
\* loop, and it has written what its statement says it has.
Orderly(t) ==
    LET f == Top(t) IN
    /\ \A r \in Relay : IF f.pc = "assign" /\ f.relay = r THEN gpio[r] = f.op ELSE Driven(r)
    /\ \A r \in Relay : (f.pc = "pilot" /\ f.relay = r) \/ Shown(r)
    /\ f.pc = "test" => f.op = "ON"
    /\ f.pc \in {"pilot", "log", "unlock"} => state[f.relay] = f.op
    /\ \A k \in 1 .. Len(stack[t]) - 1 : stack[t][k].pc = "conditions"

OrderlyInv ==
    /\ \A t \in Thread : ~Idle(t) => Orderly(t)
    /\ (\A t \in Thread : Idle(t)) => \A r \in Relay : Driven(r) /\ Shown(r)

\* While no two calls overlap the relays stay orderly, whatever their conditions.
LEMMA OrderlyInvariant == Spec /\ []OneCaller => []OrderlyInv
\* One caller's step keeps the relays orderly.
<1>step. ASSUME OneCaller, TypeOK, OrderlyInv, NEW t \in Thread, Step(t)
         PROVE  OrderlyInv'
  <2> USE <1>step
  <2> DEFINE n == Len(stack[t])
             f == Top(t)
             m == Len(stack'[t])
             g == stack'[t][m]
  <2>1. /\ n \in Nat \ {0} /\ f = stack[t][n] /\ f \in Frame /\ stack[t] \in Seq(Frame)
        /\ stack'[t] \in Seq(Frame)
        /\ \A k \in 1 .. n - 1 : stack'[t][k] = stack[t][k]
    BY StepShape
  <2>2. /\ f.relay \in Relay /\ f.op \in RelayState /\ f.i \in Nat \ {0}
        /\ ~Idle(t) /\ Orderly(t)
        /\ state \in [Relay -> RelayState] /\ gpio \in [Relay -> RelayState]
        /\ pilot \in [Relay -> RelayState]
    BY <2>1, OwnStack DEF OrderlyInv, Frame, TypeOK
  <2>3. \A u \in Thread \ {t} : Idle(u)'
    BY <2>2, OwnStack DEF OneCaller, Idle
  <2>4. /\ Top(t)' = g
        /\ Idle(t)' <=> m = 0
        /\ m \in Nat
    BY <2>1, EmptySeq, LenProperties DEF Top, Last, Idle
  <2>5. \A k \in 1 .. n - 1 : stack'[t][k].pc = "conditions"
    BY <2>1, <2>2 DEF Orderly
  \* What is left to show: the stack's top frame, and the outputs.
  <2> DEFINE Written == \A r \in Relay : IF g.pc = "assign" /\ g.relay = r
                                          THEN gpio'[r] = g.op ELSE gpio'[r] = state'[r]
             Lights  == \A r \in Relay : \/ (g.pc = "pilot" /\ g.relay = r)
                                         \/ (r \in Pilots => pilot'[r] = state'[r])
  <2>6. ASSUME m # 0, Written, Lights,
               g.pc = "test" => g.op = "ON",
               g.pc \in {"pilot", "log", "unlock"} => state'[g.relay] = g.op,
               \A k \in 1 .. m - 1 : stack'[t][k].pc = "conditions"
        PROVE  OrderlyInv'
    <3> HIDE DEF n, f, m, g
    <3>1. Orderly(t)'
      BY <2>4, <2>6 DEF Orderly, Driven, Shown, m
    <3>2. QED
      BY <2>3, <2>4, <2>6, <3>1 DEF OrderlyInv
  <2>7. CASE UNCHANGED <<state, gpio, pilot>> /\ f.pc \notin {"drive", "assign", "pilot"}
    <3>1. \A r \in Relay : gpio'[r] = state'[r] /\ (r \in Pilots => pilot'[r] = state'[r])
      BY <2>2, <2>7 DEF Orderly, Driven, Shown
    <3>2. ASSUME m # 0, g.pc \notin {"assign", "pilot"}, g.pc = "test" => g.op = "ON",
                 g.pc \in {"log", "unlock"} => state[g.relay] = g.op,
                 \A k \in 1 .. m - 1 : stack'[t][k].pc = "conditions"
          PROVE  OrderlyInv'
      <4> HIDE DEF n, f, m, g
      <4>1. QED
        BY <2>6, <2>7, <3>1, <3>2
    <3>3. CASE ConditionHolds(t) /\ m = n /\ g = [f EXCEPT !.i = f.i + 1]
      <4>1. g.pc = "conditions"
        BY <2>1, <3>3 DEF ConditionHolds, InLoop, At, Frame, Top
      <4>2. QED
        BY <2>1, <2>5, <3>2, <3>3, <4>1
    <3>4. CASE ForceRequired(t) /\ m = n + 1
      <4>1. g = Activation(Condition(t).required, Condition(t).relay)
             /\ stack'[t][n] = [f EXCEPT !.i = f.i + 1]
        BY <2>1, <3>4, StepShape
        DEF ForceRequired, ConditionHolds, AlreadyOn, LogDisabled, LogUnlock, AbortRequest,
            ConditionsDone, NotYetOn, Drive, Assign, DrivePilot, LogLock, InLoop, At, Unmet
      <4>2. stack'[t][n].pc = "conditions"
        BY <2>1, <3>4, <4>1 DEF ForceRequired, InLoop, At, Frame, Top
      <4>3. g.pc = "conditions"
        BY <4>1 DEF Activation
      <4>4. \A k \in 1 .. m - 1 : stack'[t][k].pc = "conditions"
        BY <2>1, <2>5, <3>4, <4>2
      <4>5. QED
        BY <2>1, <3>2, <3>4, <4>3, <4>4
    <3>5. CASE m = n - 1
      <4>1. CASE m = 0
        BY <2>3, <2>4, <3>1, <4>1 DEF OrderlyInv, Driven, Shown
      <4>2. CASE m # 0
        <5>0. m \in 1 .. n - 1
          <6>1. n \in Nat /\ m \in Nat /\ m = n - 1 /\ m # 0
            BY <2>1, <2>4, <3>5, <4>2
          <6> HIDE DEF n, m
          <6>2. QED
            BY <6>1
        <5>1. g.pc = "conditions"
          BY <2>5, <5>0
        <5>2. \A k \in 1 .. m - 1 : stack'[t][k].pc = "conditions"
          BY <2>1, <2>4, <2>5, <3>5
        <5>3. QED
          BY <3>2, <4>2, <5>1, <5>2
      <4>3. QED
        BY <4>1, <4>2
    <3>6. ASSUME NEW pc \in Statement \ {"conditions"}, m = n, g = [f EXCEPT !.pc = pc],
                 \/ (AbortRequest(t) \/ ConditionsDone(t)) /\ pc = AfterConditions(f)
                 \/ NotYetOn(t) /\ pc = "drive"
                 \/ LogLock(t) /\ pc = "unlock"
          PROVE OrderlyInv'
      <4>1. g.pc = pc /\ g.op = f.op /\ g.relay = f.relay
        BY <2>1, <3>6 DEF Frame
      <4>2. pc \notin {"assign", "pilot", "log"} /\ (pc = "test" => f.op = "ON")
        BY <3>6 DEF AfterConditions
      <4>3. pc = "unlock" => state[f.relay] = f.op
        BY <2>2, <3>6 DEF LogLock, At, Orderly, AfterConditions, Top
      <4>4. QED
        BY <2>1, <2>5, <3>2, <3>6, <4>1, <4>2, <4>3
    <3>7. ~Drive(t) /\ ~Assign(t) /\ ~DrivePilot(t)
      BY <2>7 DEF Drive, Assign, DrivePilot, At, Top
    <3>8. \/ ConditionHolds(t) /\ m = n /\ g = [f EXCEPT !.i = f.i + 1]
          \/ ForceRequired(t) /\ m = n + 1
          \/ m = n - 1
          \/ \E pc \in Statement \ {"conditions"} :
             /\ m = n /\ g = [f EXCEPT !.pc = pc]
             /\ \/ (AbortRequest(t) \/ ConditionsDone(t)) /\ pc = AfterConditions(f)
                \/ NotYetOn(t) /\ pc = "drive"
                \/ LogLock(t) /\ pc = "unlock"
      <4> HIDE DEF f
      <4>1. QED
        BY <3>7, StepShape DEF f
    <3>9. QED
      BY <3>3, <3>4, <3>5, <3>6, <3>8
  <2>8. ASSUME NEW pc \in Statement \ {"conditions"}, m = n, g = [f EXCEPT !.pc = pc],
               Written, Lights,
               pc # "test", pc \in {"pilot", "log", "unlock"} => state'[f.relay] = f.op
        PROVE  OrderlyInv'
    <3>1. g.pc = pc /\ g.op = f.op /\ g.relay = f.relay
      BY <2>1, <2>8 DEF Frame
    <3>2. QED
      BY <2>1, <2>5, <2>6, <2>8, <3>1
  <2>9. CASE Drive(t) /\ m = n /\ g = [f EXCEPT !.pc = "assign"]
    <3>1. /\ f.pc = "drive" /\ gpio' = [gpio EXCEPT ![f.relay] = f.op]
          /\ state' = state /\ pilot' = pilot
      BY <2>9 DEF Drive, At, Top
    <3>2. g.pc = "assign" /\ g.op = f.op /\ g.relay = f.relay
      BY <2>1, <2>9 DEF Frame
    <3>3. Written /\ Lights
      BY <2>2, <3>1, <3>2 DEF Orderly, Driven, Shown
    <3>4. QED
      BY <2>8, <2>9, <3>3 DEF Statement
  <2>10. CASE Assign(t) /\ m = n /\ g = [f EXCEPT !.pc = "pilot"]
    <3>1. /\ f.pc = "assign" /\ state' = [state EXCEPT ![f.relay] = f.op]
          /\ gpio' = gpio /\ pilot' = pilot
      BY <2>10 DEF Assign, At, Top
    <3>2. g.pc = "pilot" /\ g.op = f.op /\ g.relay = f.relay
      BY <2>1, <2>10 DEF Frame
    <3>3. Written /\ Lights /\ state'[f.relay] = f.op
      BY <2>2, <3>1, <3>2 DEF Orderly, Driven, Shown
    <3>4. QED
      BY <2>8, <2>10, <3>3 DEF Statement
  <2>11. CASE DrivePilot(t) /\ m = n /\ g = [f EXCEPT !.pc = "log"]
    <3>1. /\ f.pc = "pilot" /\ state' = state /\ gpio' = gpio
          /\ f.relay \in Pilots => pilot' = [pilot EXCEPT ![f.relay] = f.op]
          /\ f.relay \notin Pilots => pilot' = pilot
      BY <2>11 DEF DrivePilot, At, Top
    <3>2. g.pc = "log" /\ g.op = f.op /\ g.relay = f.relay
      BY <2>1, <2>11 DEF Frame
    <3>3. state[f.relay] = f.op
      BY <2>2, <3>1 DEF Orderly
    <3>4. Written
      BY <2>2, <3>1, <3>2 DEF Orderly, Driven
    <3>5. Lights
      BY <2>2, <3>1, <3>2, <3>3 DEF Orderly, Shown
    <3>6. QED
      BY <2>8, <2>11, <3>1, <3>3, <3>4, <3>5 DEF Statement
  <2>12. CASE ~Drive(t) /\ ~Assign(t) /\ ~DrivePilot(t)
    <3>1. UNCHANGED <<state, gpio, pilot>> /\ f.pc \notin {"drive", "assign", "pilot"}
      BY <2>12 DEF Step, ConditionHolds, ForceRequired, AbortRequest, ConditionsDone,
       AlreadyOn, NotYetOn, Log, LogDisabled, LogLock, LogUnlock, InLoop, At, Top
    <3>2. QED
      BY <2>7, <3>1
  <2>13. QED
    BY <2>9, <2>10, <2>11, <2>12, StepShape
    DEF Drive, Assign, DrivePilot, ForceRequired, ConditionHolds, AlreadyOn, LogDisabled,
        LogUnlock, AbortRequest, ConditionsDone, NotYetOn, LogLock, InLoop, At
<1>1. Init => OrderlyInv
  BY DEF Init, OrderlyInv, Idle, Driven, Shown
<1>2. OneCaller /\ OneCaller' /\ TypeOK /\ OrderlyInv /\ [Next]_vars => OrderlyInv'
  <2> SUFFICES ASSUME OneCaller, OneCaller', TypeOK, OrderlyInv, [Next]_vars PROVE OrderlyInv'
    OBVIOUS
  <2>1. ASSUME NEW t \in Thread, NEW op \in RelayState, NEW r \in Relay, Call(t, op, r)
        PROVE  OrderlyInv'
    <3>1. /\ \A u \in Thread \ {t} : stack'[u] = stack[u]
          /\ Len(stack'[t]) = 1 /\ stack'[t][1] = Activation(op, r)
          /\ UNCHANGED <<state, gpio, pilot>> /\ Idle(t)
      BY <2>1, CallShape DEF Call
    <3>2. ~Idle(t)' /\ Top(t)' = Activation(op, r)
      BY <3>1 DEF Idle, Top, Last
    <3>3. \A u \in Thread \ {t} : Idle(u)' /\ Idle(u)
      BY <3>1, <3>2 DEF OneCaller, Idle
    <3>4. \A q \in Relay : Driven(q)' /\ Shown(q)'
      BY <3>1, <3>3 DEF OrderlyInv, Driven, Shown
    <3>5. Orderly(t)'
      BY <3>1, <3>2, <3>4 DEF Orderly, Activation
    <3>6. QED
      BY <3>2, <3>3, <3>5 DEF OrderlyInv
  <2>2. CASE UNCHANGED vars
    BY <2>2, Zenon DEF vars, OrderlyInv, Orderly, Driven, Shown, Idle, Top
  <2>3. QED
    BY <2>1, <2>2, <1>step DEF Next
<1>3. QED
  BY <1>1, <1>2, TypeCorrect, PTL DEF Spec

\* While no two calls overlap, a relay no call is working on is driven as it
\* is reported, and its pilot light agrees, whatever conditions the relays have.
THEOREM StatusIsTrue == Spec /\ []OneCaller => []StatusTruth
<1>1. TypeOK /\ OneCaller /\ OrderlyInv => StatusTruth
  <2> SUFFICES ASSUME TypeOK, OneCaller, OrderlyInv, NEW r \in Relay, ~Busy(r)
               PROVE  Driven(r) /\ Shown(r)
    BY DEF StatusTruth, Driven, Shown
  <2>1. CASE \A t \in Thread : Idle(t)
    BY <2>1 DEF OrderlyInv
  <2>2. ASSUME NEW t \in Thread, ~Idle(t) PROVE Driven(r) /\ Shown(r)
    <3>1. stack[t] \in Seq(Frame) /\ Len(stack[t]) \in Nat \ {0} /\ Top(t) = stack[t][Len(stack[t])]
      BY <2>2, TopShape
    <3>2. Len(stack[t]) \in DOMAIN stack[t]
      BY <3>1
    <3>3. Top(t).relay # r
      BY <3>1, <3>2 DEF Busy
    <3>4. QED
      BY <2>2, <3>3 DEF OrderlyInv, Orderly
  <2>3. QED
    BY <2>1, <2>2
<1>2. QED
  BY <1>1, TypeCorrect, OrderlyInvariant, PTL

\* While no two calls overlap, a call that returns to its caller outside has
\* switched its relay if nothing aborted its check, whatever it forced and
\* whatever aborted the checks of the calls it forced.
THEOREM RequestIsServed == Spec /\ []OneCaller => Served
<1> DEFINE Serves ==
              \A t \in Thread : Len(stack[t]) = 1 /\ stack'[t] = << >> /\ ~Aborted(stack[t][1]) =>
                  gpio'[stack[t][1].relay] = stack[t][1].op
<1>1. OneCaller /\ TypeOK /\ OrderlyInv /\ [Next]_vars => [Serves]_vars
  <2> SUFFICES ASSUME OneCaller, TypeOK, OrderlyInv, Next,
                      NEW t \in Thread, Len(stack[t]) = 1, stack'[t] = << >>
               PROVE  gpio'[stack[t][1].relay] = stack[t][1].op
    OBVIOUS
  <2>1. stack[t] # << >> /\ stack'[t] # stack[t] /\ Len(stack'[t]) = 0
    <3>1. Len(<< >>) = 0
      OBVIOUS
    <3>2. Len(stack'[t]) = 0
      BY <3>1
    <3>3. stack[t] # << >>
      <4>1. ASSUME stack[t] = << >> PROVE FALSE
        <5>1. Len(stack[t]) = 0
          BY <4>1
        <5>2. QED
          BY <5>1
      <4>2. QED
        BY <4>1
    <3>4. QED
      BY <3>2, <3>3
  <2>2. Step(t)
    <3>1. PICK u \in Thread : Step(u) \/ \E r \in Relay, op \in RelayState : Call(u, op, r)
      BY DEF Next
    <3>2. ASSUME NEW r \in Relay, NEW op \in RelayState, Call(u, op, r) PROVE FALSE
      BY <2>1, <3>2, CallShape
    <3>3. u = t
      BY <2>1, <3>1, <3>2, OwnStack
    <3>4. QED
      BY <3>1, <3>2, <3>3
  <2>3. AlreadyOn(t) \/ LogDisabled(t) \/ LogUnlock(t)
    <3> DEFINE n == Len(stack[t])
               m == Len(stack'[t])
    <3>1. \/ AlreadyOn(t) \/ LogDisabled(t) \/ LogUnlock(t)
          \/ m = n
          \/ m = n + 1
      BY <2>2, StepShape
    <3>2. n = 1 /\ m = 0
      BY <2>1
    <3> HIDE DEF n, m
    <3>3. QED
      BY <3>1, <3>2
  <2>4. /\ Top(t) = stack[t][1] /\ Top(t).relay \in Relay /\ Orderly(t)
    BY <2>1, TopShape DEF Idle, Frame, OrderlyInv
  <2>5. /\ Top(t).pc \in {"test", "log", "unlock"} /\ gpio' = gpio
        /\ AlreadyOn(t) => state[Top(t).relay] = "ON" /\ Top(t).pc = "test"
    BY <2>3 DEF AlreadyOn, LogDisabled, LogUnlock, At, Top
  <2>6. state[Top(t).relay] = Top(t).op
    BY <2>3, <2>4, <2>5 DEF Orderly, LogDisabled, LogUnlock, At, Top
  <2>7. gpio[Top(t).relay] = state[Top(t).relay]
    BY <2>4, <2>5 DEF Orderly, Driven
  <2>8. QED
    BY <2>4, <2>5, <2>6, <2>7
<1>2. QED
  BY <1>1, TypeCorrect, OrderlyInvariant, PTL DEF Spec, Served

-----------------------------------------------------------------------------
(***************************************************************************)
(* The conditions that abort.  Reach gives for each request the relays     *)
(* that it may switch, itself or through the conditions it forces.         *)
(***************************************************************************)
Reaches(Reach) ==
    /\ Reach \in [Relay -> [RelayState -> SUBSET Relay]]
    /\ \A r \in Relay, op \in RelayState :
          /\ r \in Reach[r][op]
          /\ \A k \in DOMAIN Conditions[r] :
                LET c == Conditions[r][k] IN
                c.onOff = op /\ c.force = "FORCE_REQUIRED" =>
                    Reach[c.relay][c.required] \subseteq Reach[r][op]

\* No condition forces what may switch the relay that an earlier one aborts for.
StaysClear(Reach) ==
    \A r \in Relay : \A j, k \in DOMAIN Conditions[r] :
        LET a == Conditions[r][j]  c == Conditions[r][k] IN
        j < k /\ a.onOff = c.onOff /\ a.force = "ABORT_REQUEST" /\ c.force = "FORCE_REQUIRED" =>
            a.relay \notin Reach[c.relay][c.required]

\* A frame in its loop has found met the conditions it passed that may abort.
MetBy(st, f) ==
    \A j \in DOMAIN Conditions[f.relay] :
        LET c == Conditions[f.relay][j] IN
        j < f.i /\ c.onOff = f.op /\ c.force = "ABORT_REQUEST" => st[c.relay] = c.required

\* g is the call that f makes for the condition before f.i.
CalledBy(f, g) ==
    /\ f.i - 1 \in DOMAIN Conditions[f.relay]
    /\ LET c == Conditions[f.relay][f.i - 1] IN
       /\ c.onOff = f.op /\ c.force = "FORCE_REQUIRED"
       /\ g.relay = c.relay /\ g.op = c.required

Checked(t) ==
    /\ \A k \in 1 .. Len(stack[t]) :
          stack[t][k].pc = "conditions" =>
              /\ MetBy(state, stack[t][k])
              /\ stack[t][k].i <= Len(Conditions[stack[t][k].relay]) + 1
    /\ \A k \in 1 .. Len(stack[t]) - 1 : CalledBy(stack[t][k], stack[t][k + 1])

\* What a call may switch the calls below it may.
Nested(Reach, t) ==
    \A j, k \in 1 .. Len(stack[t]) : j <= k =>
        Reach[stack[t][k].relay][stack[t][k].op] \subseteq Reach[stack[t][j].relay][stack[t][j].op]

CheckedInv(Reach) == \A t \in Thread : Checked(t) /\ Nested(Reach, t)

\* While no two calls overlap, and as long as no condition forces what an earlier
\* one of the same relay aborts for, the conditions behind one that aborted are
\* not forced.
THEOREM AbortIsFinal ==
  ASSUME NEW Reach, Reaches(Reach), StaysClear(Reach)
  PROVE  Spec /\ []OneCaller => AbortForcesNoMore
\* A step of a call keeps the conditions checked.
<1>step. ASSUME OneCaller, TypeOK, CheckedInv(Reach), NEW t \in Thread, Step(t)
         PROVE  CheckedInv(Reach)'
  <2> USE <1>step
  <2> DEFINE n == Len(stack[t])
             f == stack[t][n]
             m == Len(stack'[t])
             old == stack[t]
             new == stack'[t]
             R(g) == Reach[g.relay][g.op]
  <2>1. /\ n \in Nat \ {0} /\ f = Top(t) /\ f \in Frame /\ old \in Seq(Frame)
        /\ new \in Seq(Frame) /\ m \in Nat
        /\ \A k \in 1 .. n - 1 : new[k] = old[k]
    BY StepShape, LenProperties
  <2>2. /\ \A k \in 1 .. n : old[k] \in Frame
        /\ \A k \in 1 .. n : old[k].relay \in Relay /\ old[k].op \in RelayState /\ old[k].i \in Nat \ {0}
    <3>1. ASSUME NEW k \in 1 .. n PROVE old[k] \in Frame
      <4>1. old \in Seq(Frame) /\ k \in 1 .. Len(old)
        BY <2>1, <3>1
      <4> HIDE DEF old
      <4>2. QED
        BY <4>1, ElementOfSeq
    <3> HIDE DEF old, n
    <3>2. QED
      BY <3>1 DEF Frame
  <2>3. /\ \A k \in 1 .. n : old[k].pc = "conditions" =>
              MetBy(state, old[k]) /\ old[k].i <= Len(Conditions[old[k].relay]) + 1
        /\ \A k \in 1 .. n - 1 : CalledBy(old[k], old[k + 1])
        /\ \A j, k \in 1 .. n : j <= k => R(old[k]) \subseteq R(old[j])
    BY DEF CheckedInv, Checked, Nested
  <2>4. ASSUME \A k \in 1 .. m : new[k].pc = "conditions" =>
                 MetBy(state', new[k]) /\ new[k].i <= Len(Conditions[new[k].relay]) + 1,
               \A k \in 1 .. m - 1 : CalledBy(new[k], new[k + 1]),
               \A j, k \in 1 .. m : j <= k => R(new[k]) \subseteq R(new[j])
        PROVE  CheckedInv(Reach)'
    <3>1. (Checked(t) /\ Nested(Reach, t))'
      BY <2>4 DEF Checked, Nested
    <3>2. ASSUME NEW u \in Thread \ {t} PROVE (Checked(u) /\ Nested(Reach, u))'
      <4>1. stack'[u] = << >>
        BY OwnStack DEF OneCaller, Idle
      <4>2. Len(stack'[u]) = 0
        BY <4>1
      <4>3. QED
        BY <4>2 DEF Checked, Nested
    <3>3. QED
      BY <3>1, <3>2 DEF CheckedInv
  \* The top frame changes, but neither its relay nor its request.
  <2>5. ASSUME NEW g \in Frame, m = n, new[n] = g, g.relay = f.relay, g.op = f.op,
               g.pc = "conditions" => /\ MetBy(state', g)
                                      /\ g.i <= Len(Conditions[g.relay]) + 1,
               \A k \in 1 .. n - 1 : old[k].pc = "conditions" => MetBy(state', old[k])
        PROVE  CheckedInv(Reach)'
    <3> HIDE DEF n, f, m, old, new
    <3>1. \A k \in 1 .. n : /\ k < n => new[k] = old[k]
                            /\ k = n => new[k] = g /\ old[k] = f
      BY <2>1, <2>5 DEF f, old
    <3>2. \A k \in 1 .. n : new[k].relay = old[k].relay /\ new[k].op = old[k].op
      BY <2>1, <2>5, <3>1
    <3>3. \A k \in 1 .. n : new[k].pc = "conditions" =>
                 MetBy(state', new[k]) /\ new[k].i <= Len(Conditions[new[k].relay]) + 1
      <4>1. ASSUME NEW k \in 1 .. n, new[k].pc = "conditions"
            PROVE  MetBy(state', new[k]) /\ new[k].i <= Len(Conditions[new[k].relay]) + 1
        <5>1. CASE k = n
          BY <2>5, <4>1, <5>1
        <5>2. CASE k # n
          <6>1. k \in 1 .. n - 1 /\ new[k] = old[k]
            BY <2>1, <3>1, <5>2
          <6>2. QED
            BY <2>3, <2>5, <4>1, <6>1
        <5>3. QED
          BY <5>1, <5>2
      <4>2. QED
        BY <4>1
    <3>4. \A k \in 1 .. n - 1 : CalledBy(new[k], new[k + 1])
      <4>1. ASSUME NEW k \in 1 .. n - 1 PROVE CalledBy(new[k], new[k + 1])
        <5>1. new[k] = old[k] /\ CalledBy(old[k], old[k + 1]) /\ k + 1 \in 1 .. n
          BY <2>1, <2>3, <3>1
        <5>2. QED
          BY <3>2, <5>1 DEF CalledBy
      <4>2. QED
        BY <4>1
    <3>5. \A j, k \in 1 .. n : j <= k => R(new[k]) \subseteq R(new[j])
      BY <2>3, <3>2
    <3>6. QED
      BY <2>4, <2>5, <3>3, <3>4, <3>5
  <2>6. CASE ConditionHolds(t) /\ m = n /\ new[n] = [f EXCEPT !.i = f.i + 1]
    <3> DEFINE g == [f EXCEPT !.i = f.i + 1]
    <3>1. /\ g \in Frame /\ g.relay = f.relay /\ g.op = f.op /\ g.pc = f.pc /\ g.i = f.i + 1
          /\ f.i \in Nat \ {0} /\ f.relay \in Relay
      BY <2>1 DEF Frame
    <3>2. /\ f.pc = "conditions" /\ f.i \in DOMAIN Conditions[f.relay] /\ state' = state
          /\ \/ Conditions[f.relay][f.i].onOff # f.op
             \/ state[Conditions[f.relay][f.i].relay] = Conditions[f.relay][f.i].required
      BY <2>1, <2>6 DEF ConditionHolds, InLoop, At, Unmet, Condition, Top
    <3>3. Conditions[f.relay] \in Seq(RequiredState)
      BY <3>1, ConditionsAssumption DEF ConditionsAssumption
    <3>4. MetBy(state, f)
      BY <2>1, <2>3, <3>2
    <3> HIDE DEF g, f, n, m, new, old
    <3>5. MetBy(state, g)
      BY <3>1, <3>2, <3>3, <3>4, LenProperties DEF MetBy
    <3>6. g.i <= Len(Conditions[g.relay]) + 1
      BY <3>1, <3>2, <3>3, LenProperties
    <3>7. \A k \in 1 .. n - 1 : old[k].pc = "conditions" => MetBy(state', old[k])
      BY <2>1, <2>3, <3>2
    <3>8. m = n /\ new[n] = g
      BY <2>6 DEF g
    <3>9. MetBy(state', g)
      BY <3>2, <3>5, Zenon
    <3>10. QED
      BY <2>5, <3>1, <3>6, <3>7, <3>8, <3>9
  <2>7. CASE /\ ForceRequired(t) /\ m = n + 1 /\ new[n] = [f EXCEPT !.i = f.i + 1]
             /\ new[n + 1] = Activation(Condition(t).required, Condition(t).relay)
    <3> DEFINE g == [f EXCEPT !.i = f.i + 1]
               c == Condition(t)
               a == Activation(c.required, c.relay)
    <3>1. /\ g \in Frame /\ g.relay = f.relay /\ g.op = f.op /\ g.pc = f.pc /\ g.i = f.i + 1
          /\ f.i \in Nat \ {0} /\ f.relay \in Relay /\ f.op \in RelayState
      BY <2>1 DEF Frame
    <3>2. /\ f.pc = "conditions" /\ f.i \in DOMAIN Conditions[f.relay] /\ state' = state
          /\ c = Conditions[f.relay][f.i] /\ c.onOff = f.op /\ c.force = "FORCE_REQUIRED"
      BY <2>1, <2>7 DEF ForceRequired, InLoop, At, Unmet, Condition, Top
    <3>3. Conditions[f.relay] \in Seq(RequiredState)
      BY <3>1, ConditionsAssumption DEF ConditionsAssumption
    <3>4. MetBy(state, f)
      BY <2>1, <2>3, <3>2
    <3>5. a.pc = "conditions" /\ a.i = 1 /\ a.relay = c.relay /\ a.op = c.required
      BY DEF Activation
    <3>6. c.relay \in Relay
      <4>1. DOMAIN Conditions[f.relay] = 1 .. Len(Conditions[f.relay])
        BY <3>3, LenProperties
      <4>2. c \in RequiredState
        BY <3>2, <3>3, <4>1, ElementOfSeq
      <4>3. QED
        BY <4>2 DEF RequiredState
    <3>7. m = n + 1 /\ new[n] = g /\ new[n + 1] = a
      BY <2>7
    <3> HIDE DEF g, f, n, m, new, old, c, a
    <3>8. MetBy(state', g)
      <4>1. MetBy(state, g)
        BY <3>1, <3>2, <3>3, <3>4, LenProperties DEF MetBy
      <4>2. QED
        BY <3>2, <4>1, Zenon
    <3>9. g.i <= Len(Conditions[g.relay]) + 1
      BY <3>1, <3>2, <3>3, LenProperties
    <3>10. /\ DOMAIN Conditions[a.relay] \subseteq Nat \ {0} /\ Len(Conditions[a.relay]) \in Nat
      BY <3>5, <3>6, ConditionsAssumption, LenProperties DEF ConditionsAssumption
    <3>11. MetBy(state', a) /\ a.i <= Len(Conditions[a.relay]) + 1
      BY <3>5, <3>10 DEF MetBy
    <3>12. CalledBy(g, a)
      BY <3>1, <3>2, <3>5 DEF CalledBy
    <3>13. R(a) \subseteq R(g)
      BY <3>1, <3>2, <3>5 DEF Reaches
    <3>14. \A k \in 1 .. m :
              \/ k \in 1 .. n - 1 /\ new[k] = old[k]
              \/ k = n /\ new[k] = g
              \/ k = n + 1 /\ new[k] = a
      <4>1. \A k \in 1 .. m : k \in 1 .. n - 1 \/ k = n \/ k = n + 1
        BY <2>1, <3>7
      <4>2. ASSUME NEW k \in 1 .. n - 1 PROVE new[k] = old[k]
        BY <2>1, <4>2
      <4>3. QED
        BY <3>7, <4>1, <4>2
    <3>15. \A k \in 1 .. n : new[k].relay = old[k].relay /\ new[k].op = old[k].op
      BY <2>1, <3>1, <3>14, <3>7 DEF f, old
    <3>16. \A k \in 1 .. m : new[k].pc = "conditions" =>
                 MetBy(state', new[k]) /\ new[k].i <= Len(Conditions[new[k].relay]) + 1
      <4>1. \A k \in 1 .. n - 1 : old[k].pc = "conditions" =>
                 MetBy(state', old[k]) /\ old[k].i <= Len(Conditions[old[k].relay]) + 1
        BY <2>1, <2>3, <3>2
      <4>2. QED
        BY <3>8, <3>9, <3>11, <3>14, <4>1
    <3>17. ASSUME NEW k \in 1 .. m - 1 PROVE CalledBy(new[k], new[k + 1])
      <4>1. CASE k = n
        BY <3>7, <3>12, <4>1
      <4>2. CASE k # n
        <5>1. k \in 1 .. n - 1 /\ k + 1 \in 1 .. n
          BY <2>1, <3>7, <3>17, <4>2
        <5>2. new[k] = old[k] /\ CalledBy(old[k], old[k + 1])
          BY <2>1, <2>3, <5>1
        <5>3. QED
          BY <3>15, <5>1, <5>2 DEF CalledBy
      <4>3. QED
        BY <4>1, <4>2
    <3>18. ASSUME NEW j \in 1 .. m, NEW k \in 1 .. m, j <= k PROVE R(new[k]) \subseteq R(new[j])
      <4>1. CASE k \in 1 .. n
        <5>1. j \in 1 .. n
          BY <2>1, <3>7, <3>18, <4>1
        <5>2. QED
          BY <2>3, <3>15, <3>18, <4>1, <5>1
      <4>2. CASE k = n + 1 /\ j \in 1 .. n
        <5>1. R(new[n]) \subseteq R(new[j])
          <6>1. n \in 1 .. n /\ j <= n
            BY <2>1, <4>2
          <6>2. R(old[n]) \subseteq R(old[j])
            BY <2>3, <4>2, <6>1
          <6>3. QED
            BY <3>15, <4>2, <6>1, <6>2
        <5>2. QED
          BY <3>7, <3>13, <4>2, <5>1
      <4>3. CASE k = n + 1 /\ j = n + 1
        BY <4>3
      <4>4. QED
        BY <2>1, <3>7, <3>18, <4>1, <4>2, <4>3
    <3>19. QED
      BY <2>4, <3>16, <3>17, <3>18 DEF new, m
  <2>8. CASE (AlreadyOn(t) \/ LogDisabled(t) \/ LogUnlock(t)) /\ m = n - 1
    <3>1. state' = state
      BY <2>8 DEF AlreadyOn, LogDisabled, LogUnlock
    <3> HIDE DEF f, n, m, new, old
    <3>2. \A k \in 1 .. m : k \in 1 .. n /\ new[k] = old[k]
      BY <2>1, <2>8
    <3>3. \A k \in 1 .. m - 1 : k \in 1 .. n - 1 /\ new[k] = old[k] /\ new[k + 1] = old[k + 1]
      BY <2>1, <2>8
    <3>4. \A k \in 1 .. m : new[k].pc = "conditions" =>
                 MetBy(state', new[k]) /\ new[k].i <= Len(Conditions[new[k].relay]) + 1
      BY <2>3, <3>1, <3>2
    <3>5. \A k \in 1 .. m - 1 : CalledBy(new[k], new[k + 1])
      BY <2>3, <3>3
    <3>6. \A j, k \in 1 .. m : j <= k => R(new[k]) \subseteq R(new[j])
      BY <2>3, <3>2
    <3>7. QED
      BY <2>4, <3>4, <3>5, <3>6 DEF new, m
  <2>9. ASSUME NEW pc \in Statement \ {"conditions"}, m = n, new[n] = [f EXCEPT !.pc = pc],
               Assign(t) \/ state' = state
        PROVE  CheckedInv(Reach)'
    <3> DEFINE g == [f EXCEPT !.pc = pc]
    <3>1. g \in Frame /\ g.relay = f.relay /\ g.op = f.op /\ g.pc # "conditions"
      BY <2>1 DEF Frame
    <3>2. state' = state \/ state' = [state EXCEPT ![f.relay] = f.op]
      BY <2>1, <2>9 DEF Assign
    <3>3. m = n /\ new[n] = g
      BY <2>9
    <3> HIDE DEF g, f, n, m, new, old
    \* A call switches no relay that a caller has found in order.
    <3>4. ASSUME NEW k \in 1 .. n - 1, old[k].pc = "conditions" PROVE MetBy(state', old[k])
      <4> DEFINE e == old[k]
                 b == e.i - 1
                 c == Conditions[e.relay][b]
      <4>1. MetBy(state, e) /\ CalledBy(e, old[k + 1]) /\ k + 1 \in 1 .. n /\ k \in 1 .. n
        BY <2>1, <2>3, <3>4
      <4>2. /\ e.relay \in Relay /\ e.op \in RelayState /\ e.i \in Nat \ {0}
            /\ f.relay \in Relay /\ f.op \in RelayState
        BY <2>1, <2>2, <4>1 DEF Frame
      <4>3. b \in DOMAIN Conditions[e.relay] /\ c.onOff = e.op /\ c.force = "FORCE_REQUIRED"
            /\ old[k + 1].relay = c.relay /\ old[k + 1].op = c.required
        BY <4>1 DEF CalledBy
      <4>4. f.relay \in Reach[c.relay][c.required]
        <5>1. R(f) \subseteq R(old[k + 1])
          <6>1. n \in 1 .. n /\ k + 1 <= n
            BY <2>1, <4>1
          <6>2. QED
            BY <2>3, <4>1, <6>1 DEF f, old
        <5>2. f.relay \in R(f)
          BY <4>2 DEF Reaches
        <5>3. QED
          BY <4>3, <5>1, <5>2
      <4>5. /\ DOMAIN Conditions[e.relay] \subseteq Nat
            /\ \A j \in DOMAIN Conditions[e.relay] : Conditions[e.relay][j].relay \in Relay
        <5>1. Conditions[e.relay] \in Seq(RequiredState)
          BY <4>2, ConditionsAssumption DEF ConditionsAssumption
        <5>2. DOMAIN Conditions[e.relay] = 1 .. Len(Conditions[e.relay]) /\ Len(Conditions[e.relay]) \in Nat
          BY <5>1, LenProperties
        <5>3. \A j \in DOMAIN Conditions[e.relay] : Conditions[e.relay][j] \in RequiredState
          BY <5>1, <5>2, ElementOfSeq
        <5>4. QED
          BY <5>2, <5>3 DEF RequiredState
      <4> HIDE DEF e, b, c
      <4>6. ASSUME NEW j \in DOMAIN Conditions[e.relay], j < e.i,
                   Conditions[e.relay][j].onOff = e.op,
                   Conditions[e.relay][j].force = "ABORT_REQUEST"
            PROVE  state'[Conditions[e.relay][j].relay] = Conditions[e.relay][j].required
        <5>1. state[Conditions[e.relay][j].relay] = Conditions[e.relay][j].required
          BY <4>1, <4>6 DEF MetBy
        <5>2. j # b
          BY <4>3, <4>6 DEF c
        <5>3. j < b
          BY <4>2, <4>5, <4>6, <5>2 DEF b
        <5>4. Conditions[e.relay][j].relay \notin Reach[c.relay][c.required]
          BY <4>2, <4>3, <4>6, <5>3 DEF StaysClear, c
        <5>5. Conditions[e.relay][j].relay # f.relay
          BY <4>4, <5>4
        <5>6. QED
          BY <3>2, <4>5, <5>1, <5>5 DEF TypeOK
      <4>7. QED
        BY <4>6 DEF MetBy, e
    <3>5. QED
      BY <2>5, <3>1, <3>3, <3>4
  <2>10. QED
    <3>1. \/ ConditionHolds(t) /\ m = n /\ new[n] = [f EXCEPT !.i = f.i + 1]
          \/ /\ ForceRequired(t) /\ m = n + 1 /\ new[n] = [f EXCEPT !.i = f.i + 1]
             /\ new[n + 1] = Activation(Condition(t).required, Condition(t).relay)
          \/ (AlreadyOn(t) \/ LogDisabled(t) \/ LogUnlock(t)) /\ m = n - 1
          \/ \E pc \in Statement \ {"conditions"} :
              /\ m = n /\ new[n] = [f EXCEPT !.pc = pc]
              /\ Assign(t) \/ state' = state
      BY <2>1, StepShape DEF AbortRequest, ConditionsDone, NotYetOn, Drive, DrivePilot, LogLock
    <3>2. QED
      BY <2>6, <2>7, <2>8, <2>9, <3>1
<1>1. Init => CheckedInv(Reach)
  <2>1. Len(<< >>) = 0
    OBVIOUS
  <2>2. QED
    BY <2>1 DEF Init, CheckedInv, Checked, Nested
<1>2. OneCaller /\ TypeOK /\ CheckedInv(Reach) /\ [Next]_vars => CheckedInv(Reach)'
  <2> SUFFICES ASSUME OneCaller, TypeOK, CheckedInv(Reach), [Next]_vars PROVE CheckedInv(Reach)'
    OBVIOUS
  <2>1. ASSUME NEW t \in Thread, NEW op \in RelayState, NEW r \in Relay, Call(t, op, r)
        PROVE  CheckedInv(Reach)'
    <3>1. /\ \A u \in Thread \ {t} : stack'[u] = stack[u]
          /\ Len(stack'[t]) = 1 /\ stack'[t][1] = Activation(op, r) /\ state' = state
      BY <2>1, CallShape DEF Call
    <3>2. Activation(op, r).i = 1 /\ Activation(op, r).relay = r
      BY DEF Activation
    <3>3. DOMAIN Conditions[r] \subseteq Nat \ {0} /\ Len(Conditions[r]) \in Nat
      BY ConditionsAssumption, LenProperties DEF ConditionsAssumption
    <3>4. MetBy(state', Activation(op, r))
      BY <3>2, <3>3 DEF MetBy
    <3>5. (Checked(t) /\ Nested(Reach, t))'
      BY <3>1, <3>2, <3>3, <3>4 DEF Checked, Nested
    <3>6. \A u \in Thread \ {t} : (Checked(u) /\ Nested(Reach, u))'
      BY <3>1 DEF CheckedInv, Checked, Nested
    <3>7. QED
      BY <3>5, <3>6 DEF CheckedInv
  <2>2. CASE UNCHANGED vars
    BY <2>2, Zenon DEF vars, CheckedInv, Checked, Nested
  <2>3. QED
    BY <2>1, <2>2, <1>step DEF Next
<1> DEFINE Final == \A r \in Relay : gpio'[r] # gpio[r] =>
              \A t \in Thread : Len(stack[t]) > 1 /\ Top(t).relay = r =>
                  LET caller == stack[t][Len(stack[t]) - 1] IN
                  \A k \in 1 .. caller.i - 1 :
                      LET c == Conditions[caller.relay][k] IN
                      c.onOff = caller.op /\ c.force = "ABORT_REQUEST" =>
                          state[c.relay] = c.required
<1>3. TypeOK /\ OrderlyInv /\ CheckedInv(Reach) => [Final]_vars
  <2> SUFFICES ASSUME TypeOK, OrderlyInv, CheckedInv(Reach), NEW t \in Thread, Len(stack[t]) > 1
               PROVE  LET caller == stack[t][Len(stack[t]) - 1] IN
                      \A k \in 1 .. caller.i - 1 :
                          LET c == Conditions[caller.relay][k] IN
                          c.onOff = caller.op /\ c.force = "ABORT_REQUEST" =>
                              state[c.relay] = c.required
    OBVIOUS
  <2> DEFINE n == Len(stack[t])
             e == stack[t][n - 1]
  <2>1. n \in Nat /\ n > 1 /\ n - 1 \in 1 .. n - 1 /\ n - 1 \in 1 .. n /\ e \in Frame /\ ~Idle(t)
    <3>1. stack[t] \in Seq(Frame)
      BY DEF TypeOK
    <3>2. QED
      BY <3>1, ElementOfSeq, EmptySeq DEF Idle
  <2>2. e.pc = "conditions"
    BY <2>1 DEF OrderlyInv, Orderly
  <2>3. MetBy(state, e) /\ e.i <= Len(Conditions[e.relay]) + 1
    BY <2>1, <2>2 DEF CheckedInv, Checked
  <2>4. e.i \in Nat \ {0} /\ e.relay \in Relay
    BY <2>1 DEF Frame
  <2>5. Len(Conditions[e.relay]) \in Nat /\ DOMAIN Conditions[e.relay] = 1 .. Len(Conditions[e.relay])
    BY <2>4, ConditionsAssumption, LenProperties DEF ConditionsAssumption
  <2> HIDE DEF e
  <2>6. \A k \in 1 .. e.i - 1 : k \in DOMAIN Conditions[e.relay] /\ k < e.i
    BY <2>3, <2>4, <2>5
  <2>7. QED
    BY <2>3, <2>6 DEF MetBy, e
<1>4. QED
  BY <1>1, <1>2, <1>3, TypeCorrect, OrderlyInvariant, PTL DEF Spec, AbortForcesNoMore
====
