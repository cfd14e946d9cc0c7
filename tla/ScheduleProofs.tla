--------------------------- MODULE ScheduleProofs ---------------------------
(***************************************************************************)
(* The schedule keeps its windows, for any file, day, delay and width of   *)
(* unsigned long within the assumptions.                                   *)
(*                                                                         *)
(* NearInv holds with jumps of time and for any file: a start comes when   *)
(* the plan says, but for what time jumped and a handler is late, so that  *)
(* only a start in the last seconds of a window finds its stop in the      *)
(* past.  WindowsInv holds without jumps and for files and starts of the   *)
(* program that are Ordinary: every entry is planned for the first window  *)
(* that has not ended, counted from a midnight.                            *)
(***************************************************************************)
EXTENDS Schedule, TLAPS

-----------------------------------------------------------------------------
\* What the steps need of the constants.
LEMMA FileTimes ==
    /\ Day \in Nat /\ Day > 0 /\ Wrap \in Nat /\ Wrap > 4 * Day
    /\ Soon \in Nat /\ Soon < Day /\ Late \in Nat /\ Late < Day
    /\ \A e \in Entry : /\ StartAt(e) \in 0 .. Day - 1 /\ StopAt(e) \in 0 .. Day - 1
                        /\ Until(e) \in Nat /\ StartAt(e) <= Until(e) /\ Until(e) < StartAt(e) + Day
                        /\ Until(e) = StopAt(e) \/ Until(e) = StopAt(e) + Day
<1>1. /\ Day \in Nat /\ Day > 0 /\ Wrap \in Nat /\ Wrap > 4 * Day
      /\ Soon \in Nat /\ Soon < Day /\ Late \in Nat /\ Late < Day
  BY DayAssumption, WrapAssumption DEF DayAssumption, WrapAssumption
<1>2. ASSUME NEW e \in Entry
      PROVE  StartAt(e) \in 0 .. Day - 1 /\ StopAt(e) \in 0 .. Day - 1
  BY FileAssumption DEF FileAssumption, Entry, schedules_, StartAt, StopAt
<1>3. QED
  BY <1>1, <1>2 DEF Until

\* Midnights are a day apart, and the last one is less than a day ago.
LEMMA Midnights ==
    /\ \A t \in Int : /\ t % Day \in 0 .. Day - 1 /\ t - (t % Day) \in Int
                      /\ (t - (t % Day)) % Day = 0
    /\ \A a \in Int : a % Day = 0 => (a + Day) % Day = 0 /\ (a - Day) % Day = 0
    /\ \A a, b \in Int : a % Day = 0 /\ b % Day = 0 /\ a < b => a + Day <= b
<1>1. Day \in Nat /\ Day > 0
  BY FileTimes
<1>2. ASSUME NEW t \in Int
      PROVE  t % Day \in 0 .. Day - 1 /\ t \div Day \in Int /\ t = Day * (t \div Day) + (t % Day)
  BY <1>1, <1>2
<1>3. ASSUME NEW q \in Int PROVE (Day * q) % Day = 0
  <2>1. Day * q \in Int
    BY <1>1
  <2>2. (Day * q) % Day \in 0 .. Day - 1 /\ (Day * q) \div Day \in Int
        /\ Day * q = Day * ((Day * q) \div Day) + ((Day * q) % Day)
    BY <2>1, <1>2
  <2> DEFINE r == (Day * q) % Day
             d == (Day * q) \div Day
  <2>3. r = Day * (q - d)
    BY <1>1, <2>2
  <2>4. QED
    BY <1>1, <2>2, <2>3
<1>4. ASSUME NEW a \in Int, a % Day = 0
      PROVE  \E q \in Int : a = Day * q
  <2>1. a \div Day \in Int /\ a = Day * (a \div Day) + (a % Day)
    BY <1>2
  <2> DEFINE d == a \div Day
  <2>2. d \in Int /\ a = Day * d + 0
    BY <1>4, <2>1, Zenon
  <2> HIDE DEF d
  <2>3. a = Day * d
    BY <1>1, <2>2
  <2>4. QED
    BY <2>2, <2>3
<1>5. ASSUME NEW t \in Int PROVE t - (t % Day) \in Int /\ (t - (t % Day)) % Day = 0
  <2>1. t - (t % Day) = Day * (t \div Day) /\ t - (t % Day) \in Int
    <3> DEFINE r == t % Day
               d == t \div Day
    <3>1. r \in Int /\ d \in Int /\ t = Day * d + r
      BY <1>1, <1>2
    <3> HIDE DEF r, d
    <3>2. QED
      BY <1>1, <3>1 DEF r, d
  <2>2. QED
    BY <1>2, <1>3, <2>1, Zenon
<1>6. ASSUME NEW a \in Int, a % Day = 0 PROVE (a + Day) % Day = 0 /\ (a - Day) % Day = 0
  <2>1. PICK q \in Int : a = Day * q
    BY <1>4, <1>6
  <2>2. /\ a + Day = Day * (q + 1) /\ q + 1 \in Int
        /\ a - Day = Day * (q - 1) /\ q - 1 \in Int
    BY <1>1, <2>1
  <2>3. QED
    BY <1>3, <2>2, Zenon
<1>7. ASSUME NEW a \in Int, NEW b \in Int, a % Day = 0, b % Day = 0, a < b
      PROVE  a + Day <= b
  <2>1. PICK p \in Int, q \in Int : a = Day * p /\ b = Day * q
    BY <1>4, <1>7
  <2>2. p < q
    <3>1. SUFFICES ASSUME p >= q PROVE FALSE
      BY <2>1
    <3>2. p - q \in Nat /\ Day * (p - q) >= 0
      BY <1>1, <2>1, <3>1
    <3>3. QED
      BY <1>1, <1>7, <2>1, <3>2
  <2>3. q - p - 1 \in Nat /\ Day * (q - p - 1) >= 0
    BY <1>1, <2>1, <2>2
  <2>4. QED
    BY <1>1, <2>1, <2>3
<1>8. QED
  BY <1>2, <1>5, <1>6, <1>7

\* The difference of two dates that are less than 2^32 seconds apart.
LEMMA Differences ==
  ASSUME Local \in Int, NEW date \in Int
  PROVE  /\ After(date) \in Nat
         /\ date - Local \in 0 .. Wrap - 1 => After(date) = date - Local
         /\ date - Local \in -Wrap .. -1 => After(date) = date - Local + Wrap
<1> DEFINE x == date - Local
           q == x \div Wrap
           r == x % Wrap
<1>1. x \in Int /\ After(date) = r /\ Wrap \in Nat /\ Wrap > 0
  BY FileTimes DEF After
<1> HIDE DEF x
<1>2. r \in 0 .. Wrap - 1 /\ q \in Int /\ x = Wrap * q + r
  BY <1>1
<1> HIDE DEF q, r
<1>3. ASSUME x \in 0 .. Wrap - 1 PROVE r = x
  <2>1. q < 1
    <3>1. SUFFICES ASSUME q >= 1 PROVE FALSE
      BY <1>2
    <3>2. Wrap * (q - 1) >= 0
      BY <1>1, <1>2, <3>1
    <3>3. QED
      BY <1>1, <1>2, <1>3, <3>2
  <2>2. q > -1
    <3>1. SUFFICES ASSUME q <= -1 PROVE FALSE
      BY <1>2
    <3>2. Wrap * (-1 - q) >= 0
      BY <1>1, <1>2, <3>1
    <3>3. QED
      BY <1>1, <1>2, <1>3, <3>2
  <2>3. q = 0
    BY <1>2, <2>1, <2>2
  <2>4. QED
    BY <1>1, <1>2, <2>3
<1>4. ASSUME x \in -Wrap .. -1 PROVE r = x + Wrap
  <2>1. q < 0
    <3>1. SUFFICES ASSUME q >= 0 PROVE FALSE
      BY <1>2
    <3>2. Wrap * q >= 0
      BY <1>1, <1>2, <3>1
    <3>3. QED
      BY <1>1, <1>2, <1>4, <3>2
  <2>2. q > -2
    <3>1. SUFFICES ASSUME q <= -2 PROVE FALSE
      BY <1>2
    <3>2. Wrap * (-2 - q) >= 0
      BY <1>1, <1>2, <3>1
    <3>3. QED
      BY <1>1, <1>2, <1>4, <3>2
  <2>3. q = -1
    BY <1>2, <2>1, <2>2
  <2>4. QED
    BY <1>1, <1>2, <2>3
<1>5. QED
  BY <1>1, <1>2, <1>3, <1>4 DEF x

\* What CalcStartStopTimes returns: a window that begins at a midnight, whose start
\* is ahead and at most a day away, or whose inside is now.
LEMMA CalcShape ==
  ASSUME Local \in Int, NEW e \in Entry,
         NEW stopOfDay \in {StopAt(e), Until(e)}
  PROVE  /\ Calc(e, stopOfDay) \in [stopOfDay : {Until(e)}, start : Int, stop : Int]
         /\ After(Calc(e, stopOfDay).start) = Calc(e, stopOfDay).start - Local
         /\ Calc(e, stopOfDay).stop - Calc(e, stopOfDay).start \in -Soon .. Day
         /\ LET c == Calc(e, stopOfDay)
                midnight == c.stop - Until(e)
            IN  /\ midnight \in Int /\ midnight % Day = 0
                /\ \/ /\ c.start = midnight + StartAt(e)
                      /\ Local < c.start /\ c.start <= Local + Day
                      /\ TimeOfDay # StartAt(e) /\ (StopAt(e) < StartAt(e) => TimeOfDay >= StopAt(e))
                           => c.stop - Day <= Local
                   \/ /\ c.start = Local + Soon
                      /\ midnight + StartAt(e) < Local /\ Local < c.stop
<1> DEFINE s == StartAt(e)
           u == Until(e)
           c == Calc(e, stopOfDay)
           t == TimeOfDay
<1>1. /\ s \in 0 .. Day - 1 /\ StopAt(e) \in 0 .. Day - 1 /\ u \in Nat /\ s <= u /\ u < s + Day
      /\ u = IF StopAt(e) < s THEN StopAt(e) + Day ELSE StopAt(e)
      /\ Day \in Nat /\ Soon \in Nat
  BY FileTimes DEF Until
<1>2. (IF stopOfDay < s THEN stopOfDay + Day ELSE stopOfDay) = u
  BY <1>1
<1>3. t \in 0 .. Day - 1 /\ Today = Local - t /\ Today \in Int /\ Today % Day = 0 /\ (Today + Day) % Day = 0
  BY Midnights DEF TimeOfDay, Today
<1>4. c = IF s < t /\ u > t
            THEN [stopOfDay |-> u, start |-> Local + Soon, stop |-> Today + u]
          ELSE IF s > t
            THEN [stopOfDay |-> u, start |-> Today + s, stop |-> Today + u]
          ELSE [stopOfDay |-> u, start |-> Today + s + Day, stop |-> Today + u + Day]
  BY <1>2, Zenon DEF Calc
<1>a. Local \in Int /\ u = Until(e) /\ s = StartAt(e) /\ c = Calc(e, stopOfDay) /\ t = TimeOfDay
  OBVIOUS
<1>b. t \in Int /\ t >= 0 /\ t < Day /\ Today = Local - t /\ Today \in Int /\ Local \in Int
  BY <1>1, <1>3
<1> HIDE DEF s, u, c, t
<1> DEFINE Shape ==
      /\ c \in [stopOfDay : {u}, start : Int, stop : Int]
      /\ c.stop - u \in Int /\ (c.stop - u) % Day = 0
      /\ \/ /\ c.start = (c.stop - u) + s
            /\ Local < c.start /\ c.start <= Local + Day
            /\ t # s /\ (StopAt(e) < s => t >= StopAt(e)) => c.stop - Day <= Local
         \/ c.start = Local + Soon /\ (c.stop - u) + s < Local /\ Local < c.stop
<1>8. Shape
  <2>5. CASE s < t /\ u > t
    <3>1. c = [stopOfDay |-> u, start |-> Local + Soon, stop |-> Today + u]
      BY <1>4, <2>5
    <3>2. c.stop - u = Today
      BY <1>1, <1>3, <3>1
    <3>3. QED
      BY <1>1, <1>3, <2>5, <3>1, <3>2
  <2>6. CASE s > t
    <3>1. c = [stopOfDay |-> u, start |-> Today + s, stop |-> Today + u]
      BY <1>1, <1>3, <1>4, <2>6
    <3>2. c.stop - u = Today
      BY <1>1, <1>3, <3>1
    <3>3. QED
      BY <1>1, <1>3, <2>6, <3>1, <3>2
  <2>7. CASE ~(s < t /\ u > t) /\ ~(s > t)
    <3>1. c = [stopOfDay |-> u, start |-> Today + s + Day, stop |-> Today + u + Day]
      BY <1>4, <2>7
    <3>2. c.stop - u = Today + Day
      BY <1>1, <1>3, <3>1
    <3>3. (c.stop - u) % Day = 0
      BY <1>3, <3>2, Zenon
    <3>a. c.start = Today + s + Day /\ c.stop = Today + u + Day
      BY <3>1
    <3>4. /\ c.start = (c.stop - u) + s /\ Local < c.start /\ c.start <= Local + Day
          /\ (t # s => c.stop - Day <= Local) /\ c.stop - u \in Int
          /\ c.start \in Int /\ c.stop \in Int
      BY <1>1, <1>b, <2>7, <3>a
    <3>b. c \in [stopOfDay : {u}, start : Int, stop : Int]
      BY <3>1, <3>a, <3>4
    <3>5. QED
      BY <3>3, <3>4, <3>b
  <2>8. QED
    BY <2>5, <2>6, <2>7
<1>9. After(c.start) = c.start - Local
  <2>1. c.start \in Int /\ c.start - Local \in 0 .. Wrap - 1
    BY <1>8, FileTimes
  <2>2. QED
    BY <2>1, Differences
<1>10. c.stop - c.start \in -Soon .. Day
  <2>1. c.stop \in Int /\ c.start \in Int
    BY <1>8
  <2>2. QED
    BY <1>1, <1>8, <2>1, FileTimes
<1>11. QED
  BY <1>a, <1>8, <1>9, <1>10


-----------------------------------------------------------------------------
ScheduleTypeOK ==
    /\ clock \in Nat /\ offset \in Int /\ up \in BOOLEAN
    /\ plan \in [Entry -> [stopOfDay : Int, start : Int, stop : Int]]
    /\ timer \in [Entry -> [waits : {"none", "start", "stop"}, expiry : Int]]
    /\ jumps \in 0 .. MaxJumps

\* How far the jumps so far may have moved a date.
Slip == jumps * MaxJump

\* A start comes when the plan says, but for the jumps and a late handler; unless
\* it then comes after its stop, the stop is near too.
Near(e) ==
    /\ plan[e].stopOfDay \in {StopAt(e), Until(e)}
    /\ timer[e].waits # "none" => plan[e].stop - plan[e].start \in -Soon .. Day
    /\ timer[e].waits = "start" =>
           /\ timer[e].expiry <= clock + 2 * Day
           /\ plan[e].start - Slip <= timer[e].expiry + offset
           /\ timer[e].expiry + offset <= plan[e].start + Slip
           /\ Local <= plan[e].start + Late + Slip
    /\ timer[e].waits = "stop" /\ ~Stranded(e) =>
           /\ timer[e].expiry <= clock + 2 * Day
           /\ plan[e].stop - Slip <= timer[e].expiry + offset
           /\ timer[e].expiry + offset <= plan[e].stop + Slip

NearInv == ScheduleTypeOK /\ \A e \in Entry : Near(e)

LEMMA NearInvariant == Spec => []NearInv
<1>1. Init => NearInv
  <2> SUFFICES ASSUME Init PROVE NearInv
    OBVIOUS
  <2>1. clock \in Nat /\ 0 \in 0 .. MaxJumps
    BY FileTimes, JumpAssumption DEF JumpAssumption, Init
  <2>2. plan \in [Entry -> [stopOfDay : Int, start : Int, stop : Int]]
    BY FileTimes DEF Init
  <2>3. timer \in [Entry -> [waits : {"none", "start", "stop"}, expiry : Int]]
    BY DEF Init
  <2>4. ScheduleTypeOK
    <3>1. jumps = 0 /\ offset = 0 /\ up = FALSE
      BY DEF Init
    <3>2. jumps \in 0 .. MaxJumps
      BY <2>1, <3>1, Zenon
    <3>3. offset \in Int
      BY <3>1
    <3>4. up \in BOOLEAN
      BY <3>1, Zenon
    <3>5. QED
      BY <2>1, <2>2, <2>3, <3>2, <3>3, <3>4, Zenon DEF ScheduleTypeOK
  <2>5. QED
    BY <2>4 DEF Init, NearInv, Near
<1>2. NearInv /\ [Next]_vars => NearInv'
  <2> SUFFICES ASSUME NearInv, [Next]_vars PROVE NearInv'
    OBVIOUS
  <2>slip. /\ Slip \in Nat /\ Slip <= MaxJumps * MaxJump /\ MaxJumps * MaxJump \in Nat
           /\ MaxJumps * MaxJump <= Day /\ MaxJump \in Nat
           /\ jumps' = jumps => Slip' = Slip
           /\ jumps' = jumps + 1 => Slip' = Slip + MaxJump
    <3>1. jumps \in Nat /\ MaxJumps \in Nat /\ MaxJump \in Nat /\ jumps <= MaxJumps
          /\ MaxJumps * MaxJump <= Day
      BY JumpAssumption DEF JumpAssumption, NearInv, ScheduleTypeOK
    <3>2. jumps * MaxJump \in Nat /\ (jumps + 1) * MaxJump = jumps * MaxJump + MaxJump
          /\ MaxJumps * MaxJump \in Nat
      BY <3>1
    <3>3. jumps * MaxJump <= MaxJumps * MaxJump
      <4>1. (MaxJumps - jumps) * MaxJump >= 0
        BY <3>1
      <4>2. QED
        BY <3>1, <4>1
    <3>4. jumps' = jumps + 1 => Slip' = (jumps + 1) * MaxJump
      BY Zenon DEF Slip
    <3>5. jumps' = jumps => Slip' = Slip
      BY Zenon DEF Slip
    <3>6. Slip = jumps * MaxJump
      BY DEF Slip
    <3> HIDE DEF Slip
    <3>7. QED
      BY <3>1, <3>2, <3>3, <3>4, <3>5, <3>6
  <2> DEFINE BothDays == 2 * Day
  <2>0. /\ clock \in Nat /\ offset \in Int /\ Local = clock + offset /\ Local \in Int
        /\ up \in BOOLEAN /\ jumps \in 0 .. MaxJumps
        /\ plan \in [Entry -> [stopOfDay : Int, start : Int, stop : Int]]
        /\ timer \in [Entry -> [waits : {"none", "start", "stop"}, expiry : Int]]
    BY DEF NearInv, ScheduleTypeOK, Local
  <2> HIDE DEF Slip
  \* A step that leaves the plan and the timers alone: time passes, or jumps.
  <2>2. ASSUME UNCHANGED <<plan, timer>>, up' \in BOOLEAN, clock' \in Nat, offset' \in Int,
               jumps' \in 0 .. MaxJumps, clock' >= clock, Slip' >= Slip, Slip' \in Nat,
               offset' - offset <= Slip' - Slip, offset - offset' <= Slip' - Slip,
               \A e \in Entry : timer[e].waits = "start" =>
                   clock' + offset' <= plan[e].start + Late + Slip'
        PROVE  NearInv'
    <3>1. ScheduleTypeOK'
      BY <2>0, <2>2 DEF ScheduleTypeOK
    <3>2. ASSUME NEW e \in Entry PROVE Near(e)'
      <4>1. Near(e) /\ plan[e].start \in Int /\ plan[e].stop \in Int /\ timer[e].expiry \in Int
        BY <2>0 DEF NearInv
      <4>2. plan'[e] = plan[e] /\ timer'[e] = timer[e] /\ (Stranded(e)' <=> Stranded(e))
        BY <2>2 DEF Stranded
      <4>3. Local' = clock' + offset'
        BY DEF Local
      <4> HIDE DEF Stranded
      <4>4. Late \in Nat /\ Day \in Nat
        BY FileTimes
      <4>moved. ASSUME NEW date \in Int,
                       date - Slip <= timer[e].expiry + offset, timer[e].expiry + offset <= date + Slip
                PROVE  /\ date - Slip' <= timer[e].expiry + offset'
                       /\ timer[e].expiry + offset' <= date + Slip'
        <5>1. offset \in Int /\ Slip \in Int /\ Slip' \in Int /\ timer[e].expiry \in Int
          BY <2>0, <2>2, <2>slip, <4>1
        <5>2. offset' \in Int /\ offset' - offset <= Slip' - Slip /\ offset - offset' <= Slip' - Slip
          BY <2>2, Zenon
        <5>3. \A at, o1, o2, s1, s2 \in Int :
                /\ o2 - o1 <= s2 - s1 /\ o1 - o2 <= s2 - s1
                /\ date - s1 <= at + o1 /\ at + o1 <= date + s1
                => date - s2 <= at + o2 /\ at + o2 <= date + s2
          OBVIOUS
        <5>4. QED
          BY <4>moved, <5>1, <5>2, <5>3, Zenon
      <4>later. timer[e].expiry <= clock + 2 * Day => timer[e].expiry <= clock' + 2 * Day
        BY <2>0, <2>2, <4>1, <4>4
      <4>5. CASE timer[e].waits = "start"
        <5>1. /\ plan[e].start - Slip' <= timer[e].expiry + offset'
              /\ timer[e].expiry + offset' <= plan[e].start + Slip'
              /\ timer[e].expiry <= clock' + 2 * Day
          BY <4>1, <4>5, <4>moved, <4>later DEF Near
        <5>2. Local' <= plan[e].start + Late + Slip'
          BY <2>2, <4>3, <4>5
        <5>3. QED
          BY <4>1, <4>2, <4>5, <5>1, <5>2 DEF Near
      <4>6. CASE timer[e].waits # "start"
        <5>1. ASSUME timer[e].waits = "stop", ~Stranded(e)
              PROVE  /\ timer[e].expiry <= clock' + 2 * Day
                     /\ plan[e].stop - Slip' <= timer[e].expiry + offset'
                     /\ timer[e].expiry + offset' <= plan[e].stop + Slip'
          BY <4>1, <4>moved, <4>later, <5>1 DEF Near
        <5>2. QED
          BY <4>1, <4>2, <4>6, <5>1 DEF Near
      <4>7. QED
        BY <4>5, <4>6
    <3>3. QED
      BY <3>1, <3>2 DEF NearInv
  \* A step that plans the next start of an entry.
  <2>3. ASSUME NEW e \in Entry, NEW stopOfDay \in {StopAt(e), Until(e)},
               UNCHANGED <<clock, offset, jumps>>,
               plan'[e] = Calc(e, stopOfDay),
               timer'[e] = Wait("start", Calc(e, stopOfDay).start)
        PROVE  /\ Near(e)'
               /\ plan'[e] \in [stopOfDay : Int, start : Int, stop : Int]
               /\ timer'[e] \in [waits : {"none", "start", "stop"}, expiry : Int]
    <3> DEFINE c == Calc(e, stopOfDay)
    <3>1. /\ c \in [stopOfDay : {Until(e)}, start : Int, stop : Int]
          /\ After(c.start) = c.start - Local
          /\ c.stop - c.start \in -Soon .. Day
          /\ Local < c.start \/ c.start = Local + Soon
          /\ c.start <= Local + Day \/ c.start = Local + Soon
      BY <2>0, CalcShape
    <3> HIDE DEF c
    <3>2. timer'[e] = [waits |-> "start", expiry |-> clock + (c.start - Local)] /\ plan'[e] = c
      BY <2>3, <3>1, Zenon DEF Wait, c
    <3>3. Local' = Local /\ Slip' = Slip /\ clock' = clock /\ offset' = offset
      BY <2>3, <2>slip DEF Local
    <3>4. QED
      BY <2>0, <2>slip, <3>1, <3>2, <3>3, FileTimes DEF Near
  <2>4. CASE RunSchedule
    <3>1. ASSUME NEW e \in Entry
          PROVE  /\ Near(e)'
                 /\ plan'[e] \in [stopOfDay : Int, start : Int, stop : Int]
                 /\ timer'[e] \in [waits : {"none", "start", "stop"}, expiry : Int]
      BY <2>3, <2>4 DEF RunSchedule
    <3>2. ScheduleTypeOK'
      BY <2>0, <2>4, <3>1 DEF RunSchedule, ScheduleTypeOK
    <3>3. QED
      BY <3>1, <3>2 DEF NearInv
  <2>5. ASSUME NEW e \in Entry, StartEquipment(e) PROVE NearInv'
    <3>1. Near(e) /\ timer[e].waits = "start" /\ timer[e].expiry <= clock
      BY <2>5 DEF NearInv, StartEquipment, Due
    <3>2. /\ UNCHANGED <<clock, offset, up, plan, jumps>>
          /\ timer' = [timer EXCEPT ![e] = [waits |-> "stop", expiry |-> clock + After(plan[e].stop)]]
      BY <2>5 DEF StartEquipment, Wait
    <3>3. plan[e].start \in Int /\ plan[e].stop \in Int /\ timer[e].expiry \in Int
          /\ After(plan[e].stop) \in Nat
      BY <2>0, Differences
    <3>4. ScheduleTypeOK'
      BY <2>0, <3>2, <3>3 DEF ScheduleTypeOK
    <3>5. ASSUME NEW f \in Entry \ {e} PROVE Near(f)'
      <4>1. Near(f) /\ timer'[f] = timer[f] /\ plan'[f] = plan[f] /\ Local' = Local /\ Slip' = Slip
            /\ clock' = clock /\ offset' = offset
        BY <2>0, <3>2, <2>slip DEF NearInv, Local
      <4>2. Stranded(f)' <=> Stranded(f)
        BY <4>1 DEF Stranded
      <4>3. QED
        BY <4>1, <4>2 DEF Near
    <3>6. Near(e)'
      <4>1. timer'[e] = [waits |-> "stop", expiry |-> clock + After(plan[e].stop)]
            /\ plan'[e] = plan[e] /\ clock' = clock
        BY <2>0, <3>2
      <4>2. ASSUME ~Stranded(e)'
            PROVE  /\ timer'[e].expiry <= clock' + 2 * Day
                   /\ timer'[e].expiry + offset' = plan[e].stop
        <5>1. ~(plan[e].stop - plan[e].start \in -Soon .. Late + MaxJumps * MaxJump - 1)
          BY <4>1, <4>2 DEF Stranded
        <5>2. plan[e].stop - Local \in 0 .. 2 * Day
          BY <2>0, <2>slip, <3>1, <3>3, <5>1, FileTimes DEF Near
        <5>3. After(plan[e].stop) = plan[e].stop - Local
          BY <2>0, <3>3, <5>2, Differences, FileTimes
        <5>4. timer'[e].expiry = clock + (plan[e].stop - Local) /\ offset' = offset
          BY <3>2, <4>1, <5>3
        <5>5. QED
          BY <2>0, <3>3, <4>1, <5>2, <5>4, FileTimes
      <4>3. ~Stranded(e)' => /\ plan[e].stop - Slip' <= timer'[e].expiry + offset'
                             /\ timer'[e].expiry + offset' <= plan[e].stop + Slip'
        <5>1. Slip' \in Nat
          BY <2>slip, <3>2
        <5>2. QED
          BY <3>3, <4>2, <5>1
      <4>4. QED
        BY <3>1, <4>1, <4>2, <4>3 DEF Near
    <3>7. QED
      BY <3>4, <3>5, <3>6 DEF NearInv
  <2>6. ASSUME NEW e \in Entry, StopEquipment(e) PROVE NearInv'
    <3>1. /\ UNCHANGED <<clock, offset, up, jumps>>
          /\ plan' = [plan EXCEPT ![e] = Calc(e, plan[e].stopOfDay)]
          /\ timer' = [timer EXCEPT ![e] = Wait("start", Calc(e, plan[e].stopOfDay).start)]
          /\ plan[e].stopOfDay \in {StopAt(e), Until(e)}
      BY <2>6 DEF StopEquipment, NearInv, Near
    <3>2. /\ Near(e)'
          /\ plan'[e] \in [stopOfDay : Int, start : Int, stop : Int]
          /\ timer'[e] \in [waits : {"none", "start", "stop"}, expiry : Int]
      <4>1. plan'[e] = Calc(e, plan[e].stopOfDay)
            /\ timer'[e] = Wait("start", Calc(e, plan[e].stopOfDay).start)
        BY <2>0, <3>1
      <4>2. QED
        BY <2>3, <3>1, <4>1
    <3>3. ScheduleTypeOK'
      <4>1. plan' \in [Entry -> [stopOfDay : Int, start : Int, stop : Int]]
        BY <2>0, <3>1, <3>2
      <4>2. timer' \in [Entry -> [waits : {"none", "start", "stop"}, expiry : Int]]
        BY <2>0, <3>1, <3>2
      <4>3. QED
        BY <2>0, <3>1, <4>1, <4>2 DEF ScheduleTypeOK
    <3>5. ASSUME NEW f \in Entry \ {e} PROVE Near(f)'
      <4>1. Near(f) /\ timer'[f] = timer[f] /\ plan'[f] = plan[f] /\ Local' = Local /\ Slip' = Slip
            /\ clock' = clock /\ offset' = offset
        BY <2>0, <3>1, <2>slip DEF NearInv, Local
      <4>2. Stranded(f)' <=> Stranded(f)
        BY <4>1 DEF Stranded
      <4>3. QED
        BY <4>1, <4>2 DEF Near
    <3>7. QED
      BY <3>2, <3>3, <3>5 DEF NearInv
  <2>7. CASE Terminate
    <3>1. /\ UNCHANGED <<clock, offset, plan, jumps>> /\ up' = FALSE
          /\ timer' = [e \in Entry |-> [waits |-> "none", expiry |-> 0]]
      BY <2>7 DEF Terminate
    <3>2. timer' \in [Entry -> [waits : {"none", "start", "stop"}, expiry : Int]]
      BY <3>1
    <3>3. ScheduleTypeOK'
      BY <2>0, <3>1, <3>2 DEF ScheduleTypeOK
    <3>4. QED
      BY <3>1, <3>3 DEF NearInv, Near
  \* A second passes and no handler waits for more than Late of them.
  <2>8. CASE Tick
    <3>1. clock' = clock + 1 /\ UNCHANGED <<offset, up, plan, timer, jumps>>
      BY <2>8 DEF Tick
    <3>2. ASSUME NEW e \in Entry, timer[e].waits = "start"
          PROVE  clock' + offset' <= plan[e].start + Late + Slip'
      <4>1. clock < timer[e].expiry + Late /\ Near(e)
        BY <2>8, <3>2 DEF Tick, NearInv
      <4>2. plan[e].start \in Int /\ timer[e].expiry \in Int /\ Slip' = Slip
        BY <2>0, <2>slip, <3>1
      <4>3. QED
        BY <2>0, <2>slip, <3>1, <3>2, <4>1, <4>2, FileTimes DEF Near
    <3>3. QED
      BY <2>0, <2>2, <2>slip, <3>1, <3>2
  \* A jump moves each date by no more than Slip grows.
  <2>9. ASSUME jumps < MaxJumps, jumps' = jumps + 1, UNCHANGED <<up, plan, timer>>,
               \/ clock' = clock /\ \E d \in -MaxJump .. MaxJump : offset' = offset + d
               \/ offset' = offset /\ \E d \in 0 .. MaxJump : clock' = clock + d
        PROVE  NearInv'
    <3>1. Slip' = Slip + MaxJump
      BY <2>9, <2>slip
    <3>2. /\ clock' \in Nat /\ offset' \in Int /\ clock' >= clock
          /\ offset' - offset <= MaxJump /\ offset - offset' <= MaxJump
          /\ clock' + offset' <= Local + MaxJump
      BY <2>0, <2>9, <2>slip
    <3>3. ASSUME NEW e \in Entry, timer[e].waits = "start"
          PROVE  clock' + offset' <= plan[e].start + Late + Slip'
      <4>1. plan[e].start \in Int /\ Late \in Nat
        BY <2>0, FileTimes
      <4>2. Local <= plan[e].start + Late + Slip
        BY <3>3 DEF NearInv, Near
      <4>3. MaxJump \in Int /\ Slip \in Int /\ Local \in Int /\ clock' + offset' \in Int
        BY <2>0, <2>slip, <3>2
      <4>4. clock' + offset' <= Local + MaxJump /\ Slip' = Slip + MaxJump
        BY <3>1, <3>2
      <4>5. QED
        BY <4>1, <4>2, <4>3, <4>4
    <3>4. QED
      BY <2>0, <2>2, <2>9, <2>slip, <3>1, <3>2, <3>3, JumpAssumption DEF JumpAssumption
  <2>10. CASE (\E d \in LocalShifts : ShiftLocal(d)) \/ \E d \in ClockSteps : StepClock(d)
    BY <2>9, <2>10, JumpAssumption DEF JumpAssumption, ShiftLocal, StepClock
  <2>11. CASE (\E r \in Relay : SwitchByHand(r)) \/ UNCHANGED vars
    <3>1. UNCHANGED <<clock, offset, up, plan, timer, jumps>>
      BY <2>11 DEF SwitchByHand, vars
    <3>2. ASSUME NEW e \in Entry, timer[e].waits = "start"
          PROVE  clock' + offset' <= plan[e].start + Late + Slip'
      <4>1. Near(e)
        BY DEF NearInv
      <4>2. QED
        BY <2>0, <2>slip, <3>1, <3>2, <4>1 DEF Near
    <3>3. QED
      BY <2>0, <2>2, <2>slip, <3>1, <3>2
  <2>12. QED
    BY <2>4, <2>5, <2>6, <2>7, <2>8, <2>10, <2>11 DEF Next
<1>3. QED
  BY <1>1, <1>2, PTL DEF Spec

\* No timer but a stranded one waits for more than two days, and each rings at the
\* date that was calculated for it, give or take what the time jumped since:
\* whatever windows the file asks for, while the jumps add up to a day at most.
THEOREM TimersStayNear == Spec => []TimersNear
<1>1. NearInv => TimersNear
  <2> SUFFICES ASSUME NearInv, NEW e \in Entry, timer[e].waits # "none", ~Stranded(e)
               PROVE  /\ timer[e].expiry <= clock + 2 * Day
                      /\ timer[e].expiry + offset - Date(e) \in -Slip .. Slip
    BY DEF TimersNear, Slip
  <2>1. /\ timer[e].waits = "start" \/ timer[e].waits = "stop"
        /\ timer[e].expiry \in Int /\ offset \in Int
        /\ plan[e].start \in Int /\ plan[e].stop \in Int
    BY DEF NearInv, ScheduleTypeOK
  <2>2. Slip \in Int
    BY JumpAssumption DEF JumpAssumption, NearInv, ScheduleTypeOK, Slip
  <2>3. QED
    BY <2>1, <2>2 DEF NearInv, Near, Date
<1>2. QED
  BY <1>1, NearInvariant, PTL
-----------------------------------------------------------------------------
\* Without jumps, and with a file and starts as Ordinary has them.  The midnight
\* that the planned window of an entry is counted from:
Midnight(e) == plan[e].stop - Until(e)

\* The start that an entry waits for is the window's, which is the first that has
\* not ended, or comes Soon after the program was started, at b, inside the window.
Ahead(e, b) ==
    /\ timer[e].expiry = plan[e].start
    /\ \/ /\ plan[e].start = Midnight(e) + StartAt(e) /\ b < plan[e].start
          /\ plan[e].stop - Day <= clock
       \/ /\ plan[e].start = b + Soon
          /\ Midnight(e) + StartAt(e) < b /\ b < plan[e].stop

\* The stop that it waits for is the window's, or came before the start and wrapped.
Running(e) ==
    /\ Midnight(e) + StartAt(e) <= clock
    /\ \/ timer[e].expiry = plan[e].stop
       \/ timer[e].expiry = plan[e].stop + Wrap /\ RelayOf(e) \in tooLate

InTime(e, b) ==
    /\ plan[e].stop \in Nat /\ Midnight(e) % Day = 0
    /\ plan[e].stopOfDay = Until(e)
    /\ clock <= timer[e].expiry + Late
    /\ \/ timer[e].waits = "start" /\ Ahead(e, b)
       \/ timer[e].waits = "stop" /\ Running(e)

TimersInTime ==
    IF up THEN \E b \in 0 .. clock : \A e \in Entry : InTime(e, b)
          ELSE on = {} /\ \A e \in Entry : timer[e].waits = "none"

Excused == byHand \cup tooLate

\* A relay is on until the stop; the stop of another entry does not take it.
StaysOn ==
    \A e \in Entry : timer[e].waits = "stop" /\ clock < plan[e].stop =>
        RelayOf(e) \in on \cup Excused

\* A relay that is on has its stop ahead; the pump may have to be started first,
\* if a dependent switched it on in the seconds after the program's start.
HasStop ==
    \A r \in on \ (Excused \cup {Pump}) :
        \E e \in Entry : RelayOf(e) = r /\ timer[e].waits = "stop"
PumpHasStop ==
    Pump \in on \ Excused =>
        \E p \in Entry :
            /\ RelayOf(p) = Pump
            /\ \/ timer[p].waits = "stop"
               \/ Due(p)
               \/ \E d \in Entry : /\ RelayOf(d) \in Dependents /\ timer[d].waits = "stop"
                                   /\ plan[p].start < plan[d].stop

WindowsInv ==
    jumps = 0 => /\ offset = 0 /\ clock < Wrap
                 /\ TimersInTime /\ StaysOn /\ HasStop /\ PumpHasStop

LEMMA WindowsInvariant == ASSUME Ordinary PROVE Spec => []WindowsInv
<1>1. Init => WindowsInv
  <2> SUFFICES ASSUME Init PROVE WindowsInv
    OBVIOUS
  <2>1. clock < Wrap
    BY FileTimes DEF Init
  <2>2. QED
    BY <2>1 DEF Init, WindowsInv, TimersInTime, StaysOn, HasStop, PumpHasStop
<1>times. /\ Day \in Nat /\ Day > 0 /\ Wrap \in Nat /\ Wrap > 4 * Day
          /\ Soon \in Nat /\ Soon < Day /\ Late \in Nat /\ Late < Day
          /\ \A e \in Entry : /\ StartAt(e) \in Nat /\ StartAt(e) < Day
                              /\ Until(e) \in Nat /\ StartAt(e) <= Until(e)
                              /\ Until(e) - StartAt(e) > Soon + Late
                              /\ Until(e) + Late < StartAt(e) + Day
  BY FileTimes DEF Ordinary, LongWindows
\* The pump's window that covers one of a dependent's.
<1>cover. ASSUME NEW d \in Entry, RelayOf(d) \in Dependents
          PROVE  \E p \in Entry :
                    /\ RelayOf(p) = Pump
                    /\ \A m \in Int : m % Day = 0 =>
                          \E n \in Int : /\ n % Day = 0
                                        /\ n + StartAt(p) <= m + StartAt(d)
                                        /\ m + Until(d) <= n + Until(p)
  <2>1. PICK p \in Entry, k \in {0, Day} :
            /\ RelayOf(p) = Pump
            /\ StartAt(p) <= StartAt(d) + k /\ Until(d) + k <= Until(p)
    BY <1>cover DEF Ordinary, PumpCovers
  <2>2. ASSUME NEW m \in Int, m % Day = 0
        PROVE  \E n \in Int : /\ n % Day = 0 /\ n + StartAt(p) <= m + StartAt(d)
                              /\ m + Until(d) <= n + Until(p)
    <3>1. (m - k) % Day = 0
      <4>1. CASE k = 0
        <5>1. m - k = m
          BY <4>1
        <5>2. QED
          BY <2>2, <5>1, Zenon
      <4>2. CASE k = Day
        <5>1. (m - Day) % Day = 0
          BY <2>2, Midnights, Zenon
        <5>2. QED
          BY <4>2, <5>1, Zenon
      <4>3. QED
        BY <4>1, <4>2
    <3>2. m - k \in Int /\ (m - k) + StartAt(p) <= m + StartAt(d)
          /\ m + Until(d) <= (m - k) + Until(p)
      BY <1>times, <2>1
    <3>3. QED
      BY <3>1, <3>2
  <2>3. QED
    BY <2>1, <2>2
<1>2. NearInv /\ WindowsInv /\ [Next]_vars => WindowsInv'
  <2> SUFFICES ASSUME NearInv, WindowsInv, [Next]_vars, jumps' = 0
               PROVE  /\ offset' = 0 /\ clock' < Wrap
                      /\ TimersInTime' /\ StaysOn' /\ HasStop' /\ PumpHasStop'
    BY DEF WindowsInv
  <2>types. /\ clock \in Nat /\ up \in BOOLEAN /\ jumps \in 0 .. MaxJumps
            /\ plan \in [Entry -> [stopOfDay : Int, start : Int, stop : Int]]
            /\ timer \in [Entry -> [waits : {"none", "start", "stop"}, expiry : Int]]
            /\ \A e \in Entry : timer[e].waits # "none" => plan[e].stop - plan[e].start <= Day
    BY <1>times DEF NearInv, ScheduleTypeOK, Near
  \* Only the jumps move local time away from the clock.
  <2>calm. /\ jumps = 0
           /\ \/ RunSchedule \/ (\E e \in Entry : StartEquipment(e) \/ StopEquipment(e))
              \/ (\E r \in Relay : SwitchByHand(r)) \/ Terminate \/ Tick \/ UNCHANGED vars
    BY <2>types DEF Next, RunSchedule, StartEquipment, StopEquipment, SwitchByHand, Terminate,
       Tick, ShiftLocal, StepClock, vars
  <2>old. /\ offset = 0 /\ clock < Wrap
          /\ TimersInTime /\ StaysOn /\ HasStop /\ PumpHasStop
    BY <2>calm DEF WindowsInv
  <2>local. Local = clock /\ Local \in Int /\ clock \in Int
    BY <2>old, <2>types DEF Local
  <2>1. offset' = 0 /\ clock' < Wrap
    <3>1. offset' = offset
      BY <2>calm DEF RunSchedule, StartEquipment, StopEquipment, SwitchByHand, Terminate, Tick, vars
    <3>2. clock' = clock \/ (clock' = clock + 1 /\ clock < MaxClock)
      BY <2>calm DEF RunSchedule, StartEquipment, StopEquipment, SwitchByHand, Terminate, Tick, vars
    <3>3. MaxClock \in Nat /\ MaxClock < Wrap /\ Wrap \in Nat /\ clock \in Nat /\ clock < Wrap
      BY <1>times, <2>old, <2>types DEF Ordinary
    <3>4. QED
      BY <2>old, <3>1, <3>2, <3>3
  <2>entry. ASSUME NEW e \in Entry
            PROVE  /\ plan[e].start \in Int /\ plan[e].stop \in Int /\ timer[e].expiry \in Int
                   /\ Midnight(e) \in Int /\ plan[e].stop = Midnight(e) + Until(e)
                   /\ timer[e].waits \in {"none", "start", "stop"}
    BY <2>types, <1>times DEF Midnight
  <2>relays. \A e, f \in Entry : RelayOf(e) = RelayOf(f) => e = f
    BY DEF Ordinary, OneWindow
  \* The step of one entry's timer leaves the others as they are.
  <2>2. ASSUME NEW e \in Entry, NEW b \in 0 .. clock, \A f \in Entry : InTime(f, b),
               clock' = clock, tooLate \ {RelayOf(e)} \subseteq tooLate',
               \A f \in Entry \ {e} : plan'[f] = plan[f] /\ timer'[f] = timer[f],
               NEW f \in Entry \ {e}
        PROVE  InTime(f, b)'
    <3>1. InTime(f, b) /\ plan'[f] = plan[f] /\ timer'[f] = timer[f] /\ RelayOf(f) # RelayOf(e)
      BY <2>2, <2>relays
    <3>2. Midnight(f)' = Midnight(f)
      BY <3>1 DEF Midnight
    <3>3. Ahead(f, b)' <=> Ahead(f, b)
      BY <2>2, <3>1, <3>2 DEF Ahead
    <3>4. Running(f) => Running(f)'
      BY <2>2, <3>1, <3>2 DEF Running
    <3>5. QED
      BY <2>2, <3>1, <3>2, <3>3, <3>4 DEF InTime
  <2>3. ASSUME NEW e \in Entry, on' \subseteq on \cup {RelayOf(e), Pump},
               byHand \ {RelayOf(e)} \subseteq byHand', tooLate \ {RelayOf(e)} \subseteq tooLate',
               \A f \in Entry \ {e} : timer'[f] = timer[f],
               RelayOf(e) \in on' => timer'[e].waits = "stop"
        PROVE  HasStop'
    <3>1. SUFFICES ASSUME NEW r \in on' \ (Excused' \cup {Pump})
                   PROVE  \E f \in Entry : RelayOf(f) = r /\ timer'[f].waits = "stop"
      BY DEF HasStop
    <3>2. CASE r = RelayOf(e)
      BY <2>3, <3>2
    <3>3. CASE r # RelayOf(e)
      <4>1. r \in on \ (Excused \cup {Pump})
        BY <2>3, <3>3 DEF Excused
      <4>2. PICK f \in Entry : RelayOf(f) = r /\ timer[f].waits = "stop"
        BY <2>old, <4>1 DEF HasStop
      <4>3. QED
        BY <2>3, <3>3, <4>2
    <3>4. QED
      BY <3>2, <3>3
  \* SwitchOn.
  <2>4. ASSUME NEW e \in Entry, StartEquipment(e)
        PROVE  TimersInTime' /\ StaysOn' /\ HasStop' /\ PumpHasStop'
    <3>1. /\ timer[e].waits = "start" /\ timer[e].expiry <= clock
          /\ on' = SwitchedOn(RelayOf(e)) /\ byHand' = byHand \ {RelayOf(e)}
          /\ clock' = clock /\ up' = up /\ plan' = plan
          /\ timer'[e] = [waits |-> "stop", expiry |-> clock + After(plan[e].stop)]
          /\ \A f \in Entry \ {e} : timer'[f] = timer[f]
      BY <2>4, <2>types DEF StartEquipment, Due, Wait
    <3>late. /\ clock - plan[e].stop \in 0 .. Soon + Late =>
                   tooLate' = tooLate \cup {RelayOf(e)} \cup (on' \ on)
             /\ tooLate \ {RelayOf(e)} \subseteq tooLate'
      BY <2>4, <2>local DEF StartEquipment
    <3>2. up /\ \E b \in 0 .. clock : \A f \in Entry : InTime(f, b)
      BY <2>old, <2>types, <3>1 DEF TimersInTime
    <3>3. PICK b \in 0 .. clock : \A f \in Entry : InTime(f, b)
      BY <3>2
    <3>4. /\ InTime(e, b) /\ Ahead(e, b) /\ plan[e].start <= clock /\ clock <= plan[e].start + Late
      BY <3>1, <3>3 DEF InTime, Ahead
    <3>on. /\ on \subseteq on' /\ RelayOf(e) \in on' /\ on' \subseteq on \cup {RelayOf(e), Pump}
           /\ Pump \in on' => Pump \in on \/ RelayOf(e) = Pump \/ RelayOf(e) \in Dependents
      BY <3>1 DEF SwitchedOn
    \* The start falls into the window, or comes just after its end.
    <3>5. /\ Midnight(e) + StartAt(e) <= clock /\ clock - plan[e].stop <= Soon + Late
          /\ plan[e].stop - clock <= Day
      BY <1>times, <2>types, <2>entry, <3>1, <3>3, <3>4 DEF Ahead
    <3>6. InTime(e, b)'
      <4>1. CASE clock <= plan[e].stop
        <5>1. After(plan[e].stop) = plan[e].stop - clock
          BY <1>times, <2>local, <2>entry, <3>5, <4>1, Differences
        <5>2. QED
          BY <1>times, <2>local, <2>entry, <3>1, <3>4, <3>5, <4>1, <5>1 DEF InTime, Running, Midnight
      <4>2. CASE clock > plan[e].stop
        <5>1. After(plan[e].stop) = plan[e].stop - clock + Wrap
          BY <1>times, <2>local, <2>entry, <3>5, <4>2, Differences
        <5>2. RelayOf(e) \in tooLate'
          BY <1>times, <2>local, <2>entry, <3>5, <3>late, <4>2
        <5>3. QED
          BY <1>times, <2>local, <2>entry, <3>1, <3>4, <3>5, <4>2, <5>1, <5>2 DEF InTime, Running, Midnight
      <4>3. QED
        BY <2>local, <2>entry, <4>1, <4>2
    <3>7. TimersInTime'
      <4>1. \A f \in Entry \ {e} : InTime(f, b)'
        BY <2>2, <3>1, <3>3, <3>late
      <4>2. QED
        BY <3>1, <3>2, <3>6, <4>1 DEF TimersInTime
    <3>8. StaysOn'
      <4>1. SUFFICES ASSUME NEW f \in Entry, timer'[f].waits = "stop", clock' < plan'[f].stop
                     PROVE  RelayOf(f) \in on' \cup byHand' \cup tooLate'
        BY DEF StaysOn, Excused
      <4>2. CASE f # e
        BY <2>old, <2>relays, <3>1, <3>on, <3>late, <4>1, <4>2 DEF StaysOn, Excused
      <4>3. QED
        BY <3>on, <4>2
    <3>9. HasStop'
      BY <2>3, <3>1, <3>on, <3>late
    <3>10. PumpHasStop'
      <4>1. SUFFICES ASSUME Pump \in on', Pump \notin byHand', Pump \notin tooLate'
                     PROVE  \E p \in Entry :
                              /\ RelayOf(p) = Pump
                              /\ \/ timer'[p].waits = "stop"
                                 \/ Due(p)'
                                 \/ \E d \in Entry : /\ RelayOf(d) \in Dependents /\ timer'[d].waits = "stop"
                                                     /\ plan'[p].start < plan'[d].stop
        BY DEF PumpHasStop, Excused
      <4>2. CASE RelayOf(e) = Pump
        BY <3>1, <4>2
      \* What was so stays so.
      <4>3. CASE RelayOf(e) # Pump /\ Pump \in on
        <5>1. PICK p \in Entry :
                /\ RelayOf(p) = Pump
                /\ \/ timer[p].waits = "stop" \/ Due(p)
                   \/ \E d \in Entry : /\ RelayOf(d) \in Dependents /\ timer[d].waits = "stop"
                                       /\ plan[p].start < plan[d].stop
          BY <2>old, <3>1, <3>late, <4>1, <4>3 DEF PumpHasStop, Excused
        <5>2. timer'[p] = timer[p] /\ (Due(p) => Due(p)')
          BY <3>1, <4>3, <5>1 DEF Due
        <5>3. \A d \in Entry : timer[d].waits = "stop" => d # e /\ timer'[d] = timer[d]
          BY <3>1
        <5>4. QED
          BY <3>1, <5>1, <5>2, <5>3
      \* A dependent's start switches the pump on.
      <4>4. CASE RelayOf(e) \in Dependents /\ Pump \notin on
        <5>1. clock < plan[e].stop
          BY <1>times, <2>local, <2>entry, <3>5, <3>late, <4>1, <4>4
        <5>2. PICK p \in Entry :
                    /\ RelayOf(p) = Pump
                    /\ \A m \in Int : m % Day = 0 =>
                          \E n \in Int : /\ n % Day = 0
                                        /\ n + StartAt(p) <= m + StartAt(e)
                                        /\ m + Until(e) <= n + Until(p)
          BY <1>cover, <4>4
        <5>3. PICK n \in Int : /\ n % Day = 0
                              /\ n + StartAt(p) <= Midnight(e) + StartAt(e)
                              /\ Midnight(e) + Until(e) <= n + Until(p)
          BY <2>entry, <3>4, <5>2 DEF InTime
        <5>4. p # e /\ timer'[p] = timer[p] /\ InTime(p, b)
          BY <3>1, <3>3, <4>4, <5>2, ScheduleRelayAssumption DEF ScheduleRelayAssumption
        <5>5. CASE timer[p].waits = "stop" \/ Due(p)
          BY <3>1, <5>2, <5>4, <5>5 DEF Due
        <5>6. CASE timer[p].waits = "start" /\ ~Due(p)
          <6>1. clock < plan[p].start /\ Ahead(p, b)
            BY <2>entry, <5>4, <5>6, <2>local DEF Due, InTime, Ahead
          \* The pump's next start is not another day's: its window has not ended.
          <6>2. plan[p].start = b + Soon
            <7>1. SUFFICES ASSUME plan[p].start = Midnight(p) + StartAt(p), plan[p].stop - Day <= clock
                           PROVE  FALSE
              BY <6>1 DEF Ahead
            <7>2. n < Midnight(p)
              BY <1>times, <2>entry, <2>local, <3>5, <5>3, <6>1, <7>1
            <7>3. n + Day <= Midnight(p)
              BY <2>entry, <5>3, <5>4, <7>2, Midnights DEF InTime
            <7>4. QED
              BY <1>times, <2>entry, <2>local, <5>1, <5>3, <7>1, <7>3
          <6>3. plan[p].start < plan[e].stop
            BY <1>times, <2>entry, <2>local, <3>3, <3>4, <6>1, <6>2 DEF Ahead
          <6>4. QED
            BY <3>1, <4>4, <5>2, <6>3
        <5>7. QED
          BY <5>4, <5>5, <5>6 DEF InTime
      <4>5. QED
        BY <3>on, <4>1, <4>2, <4>3, <4>4
    <3>11. QED
      BY <3>7, <3>8, <3>9, <3>10
  \* SwitchOff, and the next start is planned: a day later.
  <2>5. ASSUME NEW e \in Entry, StopEquipment(e)
        PROVE  TimersInTime' /\ StaysOn' /\ HasStop' /\ PumpHasStop'
    <3>1. /\ timer[e].waits = "stop" /\ timer[e].expiry <= clock
          /\ on' = SwitchedOff(RelayOf(e)) /\ byHand' = byHand \ {RelayOf(e)}
          /\ tooLate' = tooLate \ {RelayOf(e)}
          /\ clock' = clock /\ up' = up
          /\ plan'[e] = Calc(e, plan[e].stopOfDay)
          /\ timer'[e] = Wait("start", Calc(e, plan[e].stopOfDay).start)
          /\ \A f \in Entry \ {e} : plan'[f] = plan[f] /\ timer'[f] = timer[f]
      BY <2>5, <2>types DEF StopEquipment, Due
    <3>2. up /\ \E b \in 0 .. clock : \A f \in Entry : InTime(f, b)
      BY <2>old, <2>types, <3>1 DEF TimersInTime
    <3>3. PICK b \in 0 .. clock : \A f \in Entry : InTime(f, b)
      BY <3>2
    <3>4. InTime(e, b) /\ Running(e)
      BY <3>1, <3>3 DEF InTime
    \* The stop comes at most Late after the window, before the next one.
    <3>5. /\ timer[e].expiry = plan[e].stop
          /\ Midnight(e) + Until(e) <= clock /\ clock < Midnight(e) + StartAt(e) + Day
      <4>1. timer[e].expiry = plan[e].stop
        BY <1>times, <2>entry, <2>local, <2>old, <3>1, <3>4 DEF Running, InTime
      <4>2. QED
        BY <1>times, <2>entry, <2>local, <3>1, <3>4, <4>1 DEF InTime
    <3>off. on' \subseteq on \ {RelayOf(e)} /\ (RelayOf(e) # Pump => on' = on \ {RelayOf(e)})
            /\ on \ ({RelayOf(e)} \cup Dependents) \subseteq on'
      BY <3>1 DEF SwitchedOff
    <3>6. InTime(e, b)'
      <4> DEFINE c == Calc(e, plan[e].stopOfDay)
                 m == c.stop - Until(e)
                 o == Midnight(e)
      <4>1. plan[e].stopOfDay = Until(e)
        BY <3>4 DEF InTime
      <4>2. /\ c \in [stopOfDay : {Until(e)}, start : Int, stop : Int]
            /\ After(c.start) = c.start - clock
            /\ m \in Int /\ m % Day = 0
            /\ \/ c.start = m + StartAt(e) /\ clock < c.start /\ c.start <= clock + Day
               \/ m + StartAt(e) < clock /\ clock < c.stop
        BY <2>local, <4>1, CalcShape
      <4> HIDE DEF c
      <4>3. c.start \in Int /\ c.stop \in Int /\ c.stop = m + Until(e) /\ o \in Int /\ o % Day = 0
            /\ o + Until(e) <= clock /\ clock < o + StartAt(e) + Day
        BY <1>times, <2>entry, <3>4, <3>5, <4>2 DEF InTime
      <4> HIDE DEF m, o
      <4>4. ~(m + StartAt(e) < clock /\ clock < c.stop)
        <5>1. SUFFICES ASSUME m + StartAt(e) < clock, clock < c.stop PROVE FALSE
          OBVIOUS
        <5>2. o < m
          BY <1>times, <2>local, <4>2, <4>3, <5>1
        <5>3. o + Day <= m
          BY <4>2, <4>3, <5>2, Midnights
        <5>4. QED
          BY <1>times, <2>local, <4>2, <4>3, <5>1, <5>3
      <4>5. c.start = m + StartAt(e) /\ clock < c.start /\ c.start <= clock + Day
        BY <4>2, <4>4
      <4>6. m = o + Day
        <5>1. o < m
          BY <1>times, <2>local, <4>2, <4>3, <4>5
        <5>2. o + Day <= m
          BY <4>2, <4>3, <5>1, Midnights
        <5>3. CASE o + Day < m
          <6>1. (o + Day) % Day = 0 /\ o + Day \in Int
            BY <1>times, <4>3, Midnights
          <6>2. (o + Day) + Day <= m
            BY <4>2, <5>3, <6>1, Midnights
          <6>3. QED
            BY <1>times, <2>local, <4>2, <4>3, <4>5, <6>2
        <5>4. QED
          BY <1>times, <4>2, <4>3, <5>2, <5>3
      <4>7. c.stop - Day <= clock /\ c.stop \in Nat
        <5>1. c.stop - Day = o + Until(e)
          BY <1>times, <4>3, <4>6
        <5>2. clock < c.stop
          BY <1>times, <2>local, <4>2, <4>3, <4>5
        <5>3. QED
          BY <2>types, <4>3, <5>1, <5>2
      <4>8. plan'[e] = c /\ timer'[e] = [waits |-> "start", expiry |-> clock + After(c.start)]
        BY <3>1, Zenon DEF c, Wait
      <4>9. timer'[e] = [waits |-> "start", expiry |-> c.start]
        <5>1. clock + After(c.start) = c.start
          BY <2>local, <4>2, <4>3
        <5>2. QED
          BY <4>8, <5>1, Zenon
      <4>10. Midnight(e)' = m
        BY <4>8 DEF Midnight, m
      <4>11. Ahead(e, b)'
        BY <2>local, <3>1, <3>3, <4>3, <4>5, <4>7, <4>8, <4>9, <4>10 DEF Ahead
      <4>12. plan'[e].stop \in Nat /\ plan'[e].stopOfDay = Until(e) /\ timer'[e].waits = "start"
             /\ clock' <= timer'[e].expiry + Late
        BY <1>times, <2>local, <3>1, <4>2, <4>3, <4>5, <4>7, <4>8, <4>9
      <4>13. Midnight(e)' % Day = 0
        BY <4>2, <4>10, Zenon
      <4>14. QED
        BY <4>11, <4>12, <4>13 DEF InTime
    <3>7. TimersInTime'
      <4>1. \A f \in Entry \ {e} : InTime(f, b)'
        BY <2>2, <3>1, <3>3
      <4>2. QED
        BY <3>1, <3>2, <3>6, <4>1 DEF TimersInTime
    <3>8. StaysOn'
      <4>1. SUFFICES ASSUME NEW f \in Entry, timer'[f].waits = "stop", clock' < plan'[f].stop
                     PROVE  RelayOf(f) \in on' \cup byHand' \cup tooLate'
        BY DEF StaysOn, Excused
      <4>2. f # e
        BY <3>1, <4>1 DEF Wait
      <4>3. /\ timer[f].waits = "stop" /\ clock < plan[f].stop /\ RelayOf(f) # RelayOf(e)
            /\ RelayOf(f) \in on \cup byHand \cup tooLate
        BY <2>old, <2>relays, <3>1, <4>1, <4>2 DEF StaysOn, Excused
      \* The pump's stop does not come in a dependent's window.
      <4>4. ASSUME RelayOf(e) = Pump, RelayOf(f) \in Dependents PROVE FALSE
        <5>1. InTime(f, b) /\ Running(f) /\ Midnight(f) + StartAt(f) <= clock
              /\ clock < Midnight(f) + Until(f)
          BY <2>entry, <3>3, <4>3 DEF InTime, Running
        <5>2. PICK p \in Entry :
                    /\ RelayOf(p) = Pump
                    /\ \A m \in Int : m % Day = 0 =>
                          \E n \in Int : /\ n % Day = 0
                                        /\ n + StartAt(p) <= m + StartAt(f)
                                        /\ m + Until(f) <= n + Until(p)
          BY <1>cover, <4>4
        <5>3. p = e
          BY <2>relays, <4>4, <5>2
        <5>4. PICK n \in Int : /\ n % Day = 0
                              /\ n + StartAt(e) <= Midnight(f) + StartAt(f)
                              /\ Midnight(f) + Until(f) <= n + Until(e)
          BY <2>entry, <5>1, <5>2, <5>3 DEF InTime
        <5>5. Midnight(e) < n
          BY <1>times, <2>entry, <2>local, <3>5, <5>1, <5>4
        <5>6. Midnight(e) + Day <= n
          BY <2>entry, <3>4, <5>4, <5>5, Midnights DEF InTime
        <5>7. QED
          BY <1>times, <2>entry, <2>local, <3>5, <5>1, <5>4, <5>6
      <4>5. QED
        BY <3>1, <3>off, <4>3, <4>4
    <3>9. HasStop'
      BY <2>3, <3>1, <3>off
    <3>10. PumpHasStop'
      <4>1. SUFFICES ASSUME Pump \in on', Pump \notin byHand', Pump \notin tooLate'
                     PROVE  \E p \in Entry :
                              /\ RelayOf(p) = Pump
                              /\ \/ timer'[p].waits = "stop"
                                 \/ Due(p)'
                                 \/ \E d \in Entry : /\ RelayOf(d) \in Dependents /\ timer'[d].waits = "stop"
                                                     /\ plan'[p].start < plan'[d].stop
        BY DEF PumpHasStop, Excused
      <4>2. PICK p \in Entry :
              /\ RelayOf(p) = Pump
              /\ \/ timer[p].waits = "stop" \/ Due(p)
                 \/ \E d \in Entry : /\ RelayOf(d) \in Dependents /\ timer[d].waits = "stop"
                                     /\ plan[p].start < plan[d].stop
        BY <2>old, <3>1, <3>off, <4>1 DEF PumpHasStop, Excused
      <4>3. p # e /\ timer'[p] = timer[p] /\ plan'[p] = plan[p] /\ (Due(p) => Due(p)')
        BY <3>1, <3>off, <4>1, <4>2 DEF Due
      \* When the dependent's stop comes the pump's start is due.
      <4>4. ASSUME timer[p].waits # "stop", plan[p].start < plan[e].stop PROVE Due(p)
        <5>1. InTime(p, b) /\ timer[p].waits = "start" /\ timer[p].expiry = plan[p].start
          BY <3>3, <4>4 DEF InTime, Ahead
        <5>2. QED
          BY <2>entry, <2>local, <3>1, <3>5, <4>4, <5>1 DEF Due
      <4>5. QED
        BY <3>1, <4>2, <4>3, <4>4
    <3>11. QED
      BY <3>7, <3>8, <3>9, <3>10
  \* main() plans the first start of every entry.
  <2>6. CASE RunSchedule
    <3>1. /\ up' = TRUE /\ clock' = clock /\ on' = on /\ on = {} /\ TimeOfDay \in BootTimes
          /\ \A e \in Entry : /\ plan'[e] = Calc(e, StopAt(e))
                              /\ timer'[e] = Wait("start", Calc(e, StopAt(e)).start)
      BY <2>old, <2>6 DEF RunSchedule, TimersInTime
    <3>2. ASSUME NEW e \in Entry PROVE InTime(e, clock)' /\ timer'[e].waits = "start"
      <4> DEFINE c == Calc(e, StopAt(e))
                 m == c.stop - Until(e)
      <4>1. TimeOfDay # StartAt(e) /\ (StopAt(e) < StartAt(e) => TimeOfDay >= StopAt(e))
        BY <3>1 DEF Ordinary, ServedStarts
      <4>2. /\ c \in [stopOfDay : {Until(e)}, start : Int, stop : Int]
            /\ After(c.start) = c.start - clock
            /\ m \in Int /\ m % Day = 0
            /\ \/ c.start = m + StartAt(e) /\ clock < c.start /\ c.stop - Day <= clock
               \/ c.start = clock + Soon /\ m + StartAt(e) < clock /\ clock < c.stop
        BY <2>local, <4>1, CalcShape
      <4>3. plan'[e] = c /\ timer'[e] = [waits |-> "start", expiry |-> clock + After(c.start)]
        BY <3>1, Zenon DEF Wait
      <4> HIDE DEF c
      <4>4. c.start \in Int /\ c.stop \in Int /\ c.stop = m + Until(e)
        BY <1>times, <4>2
      <4>5. clock + After(c.start) = c.start
        BY <2>local, <4>2, <4>4
      <4>6. timer'[e] = [waits |-> "start", expiry |-> c.start]
        BY <4>3, <4>5, Zenon
      <4> HIDE DEF m
      <4>7. Midnight(e)' = m
        BY <4>3 DEF Midnight, m
      <4>8. Ahead(e, clock)'
        BY <2>local, <3>1, <4>2, <4>3, <4>6, <4>7 DEF Ahead
      <4>9. /\ c.stop \in Nat /\ clock <= c.start + Late
        BY <1>times, <2>types, <4>2, <4>4
      <4>10. Midnight(e)' % Day = 0
        BY <4>2, <4>7, Zenon
      <4>11. plan'[e].stop \in Nat /\ plan'[e].stopOfDay = Until(e) /\ timer'[e].waits = "start"
             /\ clock' <= timer'[e].expiry + Late
        BY <3>1, <4>2, <4>3, <4>6, <4>9
      <4>12. QED
        BY <4>8, <4>10, <4>11 DEF InTime
    <3>3. TimersInTime'
      BY <2>types, <3>1, <3>2 DEF TimersInTime
    <3>4. StaysOn'
      BY <3>2 DEF StaysOn
    <3>5. HasStop' /\ PumpHasStop'
      BY <3>1 DEF HasStop, PumpHasStop
    <3>6. QED
      BY <2>1, <3>3, <3>4, <3>5
  <2>7. CASE Terminate
    <3>1. up' = FALSE /\ on' = {} /\ \A e \in Entry : timer'[e].waits = "none"
      BY <2>7 DEF Terminate
    <3>2. StaysOn' /\ HasStop' /\ PumpHasStop'
      BY <3>1 DEF StaysOn, HasStop, PumpHasStop
    <3>3. TimersInTime'
      BY <3>1 DEF TimersInTime
    <3>4. QED
      BY <2>1, <3>2, <3>3
  \* Time passes, or somebody switches a relay by hand: the timers stay as they are.
  <2>8. ASSUME UNCHANGED <<up, plan, timer, tooLate>>, clock' \in Nat, clock' >= clock,
               ~up => on' = on,
               \A e \in Entry : timer[e].waits # "none" => clock' <= timer[e].expiry + Late,
               byHand \subseteq byHand', on \ on' \subseteq byHand', on' \ on \subseteq byHand'
        PROVE  TimersInTime' /\ StaysOn' /\ HasStop' /\ PumpHasStop'
    <3>1. ASSUME NEW e \in Entry, NEW b \in 0 .. clock, InTime(e, b) PROVE InTime(e, b)'
      <4>1. /\ Midnight(e)' = Midnight(e) /\ plan'[e] = plan[e] /\ timer'[e] = timer[e]
            /\ tooLate' = tooLate
        BY <2>8 DEF Midnight
      <4>2. Ahead(e, b) => Ahead(e, b)'
        BY <1>times, <2>8, <2>entry, <2>local, <4>1 DEF Ahead
      <4>3. Running(e) => Running(e)'
        BY <1>times, <2>8, <2>entry, <2>local, <4>1 DEF Running
      <4>4. timer[e].waits # "none"
        BY <3>1 DEF InTime
      <4>5. QED
        BY <2>8, <3>1, <4>1, <4>2, <4>3, <4>4 DEF InTime
    <3>2. TimersInTime'
      <4>1. CASE up
        <5>1. PICK b \in 0 .. clock : \A e \in Entry : InTime(e, b)
          BY <2>old, <4>1 DEF TimersInTime
        <5>2. b \in 0 .. clock'
          BY <2>8, <2>local
        <5>3. QED
          BY <2>8, <3>1, <4>1, <5>1, <5>2 DEF TimersInTime
      <4>2. CASE ~up
        BY <2>8, <2>old, <4>2 DEF TimersInTime
      <4>3. QED
        BY <4>1, <4>2
    <3>3. StaysOn'
      <4>1. ASSUME NEW e \in Entry, clock' < plan[e].stop PROVE clock < plan[e].stop
        BY <2>8, <2>entry, <2>local, <4>1
      <4>2. QED
        BY <2>8, <2>old, <4>1 DEF StaysOn, Excused
    <3>4. HasStop'
      BY <2>8, <2>old DEF HasStop, Excused
    <3>5. \A e \in Entry : Due(e) => Due(e)'
      BY <2>8, <2>entry, <2>local DEF Due
    <3>6. PumpHasStop'
      BY <2>8, <2>old, <3>5 DEF PumpHasStop, Excused
    <3>7. QED
      BY <3>2, <3>3, <3>4, <3>6
  <2>9. ASSUME NEW e \in Entry, timer[e].waits # "none"
        PROVE  up /\ clock <= timer[e].expiry + Late
    BY <2>9, <2>old DEF TimersInTime, InTime
  <2>10. CASE Tick
    <3>1. /\ clock' = clock + 1 /\ UNCHANGED <<up, plan, timer, on, byHand, tooLate>>
          /\ \A e \in Entry : timer[e].waits # "none" => clock < timer[e].expiry + Late
      BY <2>10 DEF Tick
    <3>2. \A e \in Entry : timer[e].waits # "none" => clock' <= timer[e].expiry + Late
      BY <1>times, <2>entry, <2>local, <3>1
    <3>3. /\ clock' \in Nat /\ clock' >= clock /\ (~up => on' = on)
          /\ byHand \subseteq byHand' /\ on \ on' \subseteq byHand' /\ on' \ on \subseteq byHand'
      <4>1. clock' \in Nat /\ clock' >= clock
        BY <2>types, <3>1
      <4>2. QED
        BY <3>1, <4>1, Zenon
    <3>4. QED
      BY <2>1, <2>8, <3>1, <3>2, <3>3, Zenon
  <2>11. CASE (\E r \in Relay : SwitchByHand(r)) \/ UNCHANGED vars
    <3>1. /\ UNCHANGED <<clock, up, plan, timer, tooLate>> /\ (~up => on' = on)
          /\ byHand \subseteq byHand' /\ on \ on' \subseteq byHand' /\ on' \ on \subseteq byHand'
      BY <2>11 DEF SwitchByHand, vars
    <3>2. clock' \in Nat /\ clock' >= clock
      BY <2>types, <3>1
    <3>3. \A e \in Entry : timer[e].waits # "none" => clock' <= timer[e].expiry + Late
      BY <2>9, <3>1
    <3>4. QED
      BY <2>1, <2>8, <3>1, <3>2, <3>3, Zenon
  <2>12. QED
    BY <2>1, <2>4, <2>5, <2>6, <2>7, <2>10, <2>11, <2>calm
<1>3. QED
  BY <1>1, <1>2, NearInvariant, PTL DEF Spec

\* In a window of the file its relay is on, whatever dependents the pump has and
\* whenever in the day the program was started, ended and started again.
THEOREM OnInsideTheWindow == ASSUME Ordinary PROVE Spec => []OnInsideWindow
<1>1. NearInv /\ WindowsInv => OnInsideWindow
  <2> SUFFICES ASSUME NearInv, WindowsInv, NEW line \in Windows,
                      Settled, jumps = 0, InWindow(line), ~StartsSoon(line.id),
                      line.id \notin byHand \cup tooLate
               PROVE  line.id \in on
    BY DEF OnInsideWindow
  <2>1. PICK e \in Entry : line = File[e]
    BY DEF Ordinary, OneWindow
  <2>2. /\ line.id = RelayOf(e) /\ line.start = StartAt(e) /\ line.stop = StopAt(e)
    BY <2>1 DEF RelayOf, StartAt, StopAt
  <2>3. /\ offset = 0 /\ clock < Wrap /\ clock \in Nat /\ up /\ ~Due(e)
        /\ \E b \in 0 .. clock : \A f \in Entry : InTime(f, b)
    BY DEF WindowsInv, TimersInTime, Settled, NearInv, ScheduleTypeOK
  <2>4. PICK b \in 0 .. clock : InTime(e, b)
    BY <2>3
  <2>5. /\ plan[e].start \in Int /\ plan[e].stop \in Nat /\ timer[e].expiry \in Int
        /\ Midnight(e) \in Int /\ plan[e].stop = Midnight(e) + Until(e) /\ Midnight(e) % Day = 0
        /\ clock < timer[e].expiry
    BY <2>3, <2>4, FileTimes DEF NearInv, ScheduleTypeOK, InTime, Midnight, Due
  \* The window in which it is now began at the midnight n.
  <2>6. PICK n \in Int : n % Day = 0 /\ n + StartAt(e) <= clock /\ clock < n + Until(e)
    <3> DEFINE t == TimeOfDay
    <3>1. /\ t \in 0 .. Day - 1 /\ clock - t \in Int /\ (clock - t) % Day = 0
          /\ (clock - t) - Day \in Int /\ ((clock - t) - Day) % Day = 0
      <4>1. Local = clock /\ clock \in Int
        BY <2>3 DEF Local
      <4>2. t = clock % Day
        BY <4>1, Zenon DEF TimeOfDay
      <4>3. t \in 0 .. Day - 1 /\ clock - t \in Int /\ (clock - t) % Day = 0
        BY <4>1, <4>2, Midnights, Zenon
      <4> HIDE DEF t
      <4>4. ((clock - t) - Day) % Day = 0
        BY <4>3, Midnights, Zenon
      <4>5. QED
        BY <4>3, <4>4, FileTimes
    <3>2. IF StopAt(e) < StartAt(e) THEN t >= StartAt(e) \/ t < StopAt(e)
                                    ELSE t >= StartAt(e) /\ t < StopAt(e)
      BY <2>2 DEF InWindow
    <3> HIDE DEF t
    <3>3. CASE t >= StartAt(e)
      <4>1. (clock - t) + StartAt(e) <= clock /\ clock < (clock - t) + Until(e)
        BY <2>3, <3>1, <3>2, <3>3, FileTimes DEF Until
      <4>2. QED
        BY <3>1, <4>1
    <3>4. CASE ~(t >= StartAt(e))
      <4>1. (clock - t) - Day + StartAt(e) <= clock /\ clock < (clock - t) - Day + Until(e)
        BY <2>3, <3>1, <3>2, <3>4, FileTimes DEF Until
      <4>2. QED
        BY <3>1, <4>1
    <3>5. QED
      BY <3>3, <3>4
  <2>7. timer[e].waits = "stop"
    <3>1. SUFFICES ASSUME timer[e].waits = "start" PROVE FALSE
      BY <2>4 DEF InTime
    <3>2. Ahead(e, b) /\ timer[e].expiry = plan[e].start
      BY <2>4, <3>1 DEF InTime, Ahead
    \* It cannot be the start of a later window: this one has not ended.
    <3>3. CASE plan[e].start = Midnight(e) + StartAt(e) /\ plan[e].stop - Day <= clock
      <4>1. n < Midnight(e)
        BY <2>3, <2>5, <2>6, <3>2, <3>3, FileTimes
      <4>2. n + Day <= Midnight(e)
        BY <2>5, <2>6, <4>1, Midnights
      <4>3. QED
        BY <2>3, <2>5, <2>6, <3>3, <4>2, FileTimes
    <3>4. CASE plan[e].start = b + Soon
      BY <2>2, <2>3, <3>1, <3>2, <3>4, FileTimes DEF StartsSoon
    <3>5. QED
      BY <3>2, <3>3, <3>4 DEF Ahead
  <2>8. Running(e) /\ timer[e].expiry = plan[e].stop
    BY <2>2, <2>4, <2>7 DEF InTime, Running
  <2>9. clock < plan[e].stop
    BY <2>5, <2>8
  <2>10. QED
    BY <2>2, <2>7, <2>9 DEF WindowsInv, StaysOn, Excused
<1>2. QED
  BY <1>1, NearInvariant, WindowsInvariant, PTL

\* Outside of the windows that want it a relay is off: its stop came, or the pump's.
THEOREM OffOutsideTheWindow == ASSUME Ordinary PROVE Spec => []OffOutsideWindow
<1>1. NearInv /\ WindowsInv => OffOutsideWindow
  <2> SUFFICES ASSUME NearInv, WindowsInv, Settled, jumps = 0,
                      NEW r \in on, r \notin byHand \cup tooLate
               PROVE  r \in Wanted
    BY DEF OffOutsideWindow
  <2>1. /\ offset = 0 /\ clock < Wrap /\ clock \in Nat /\ up /\ \A e \in Entry : ~Due(e)
        /\ \E b \in 0 .. clock : \A f \in Entry : InTime(f, b)
    BY DEF WindowsInv, TimersInTime, Settled, NearInv, ScheduleTypeOK
  <2>2. PICK b \in 0 .. clock : \A f \in Entry : InTime(f, b)
    BY <2>1
  <2>entry. ASSUME NEW e \in Entry
            PROVE  /\ plan[e].start \in Int /\ plan[e].stop \in Nat /\ timer[e].expiry \in Int
                   /\ Midnight(e) \in Int /\ plan[e].stop = Midnight(e) + Until(e)
                   /\ Midnight(e) % Day = 0 /\ clock < timer[e].expiry
    <3>1. InTime(e, b) /\ ~Due(e)
      BY <2>1, <2>2
    <3>2. QED
      BY <2>1, <3>1, FileTimes DEF NearInv, ScheduleTypeOK, InTime, Midnight, Due
  \* Between the start and the stop of an entry it is in its window.
  <2>3. ASSUME NEW e \in Entry, timer[e].waits = "stop", clock < plan[e].stop
        PROVE  /\ File[e] \in Windows /\ InWindow(File[e]) /\ File[e].id = RelayOf(e)
    <3> DEFINE t == TimeOfDay
               m == Midnight(e)
    <3>1. File[e] \in Windows /\ File[e].id = RelayOf(e)
          /\ File[e].start = StartAt(e) /\ File[e].stop = StopAt(e)
      BY DEF Windows, Range, Entry, schedules_, ParseFile, RelayOf, StartAt, StopAt
    <3>2. m + StartAt(e) <= clock /\ clock < m + Until(e)
      BY <2>2, <2>3, <2>entry DEF InTime, Running
    <3>3. /\ t \in 0 .. Day - 1 /\ clock - t \in Int /\ (clock - t) % Day = 0
      <4>1. Local = clock /\ clock \in Int
        BY <2>1 DEF Local
      <4>2. t = clock % Day
        BY <4>1, Zenon DEF TimeOfDay
      <4>3. QED
        BY <4>1, <4>2, Midnights, Zenon
    <3>4. m \in Int /\ m % Day = 0
      BY <2>entry
    <3> HIDE DEF t, m
    <3>5. t = clock - m \/ t = clock - m - Day
      <4>1. ~(clock - t < m)
        <5>1. SUFFICES ASSUME clock - t < m PROVE FALSE
          OBVIOUS
        <5>2. clock - t + Day <= m
          BY <3>3, <3>4, <5>1, Midnights
        <5>3. QED
          BY <2>1, <3>2, <3>3, <3>4, <5>2, FileTimes
      <4>2. CASE m < clock - t
        <5>1. m + Day <= clock - t
          BY <3>3, <3>4, <4>2, Midnights
        <5>2. ~(m + Day < clock - t)
          <6>1. SUFFICES ASSUME m + Day < clock - t PROVE FALSE
            OBVIOUS
          <6>2. (m + Day) % Day = 0 /\ m + Day \in Int
            BY <3>4, Midnights, FileTimes
          <6>3. (m + Day) + Day <= clock - t
            BY <3>3, <6>1, <6>2, Midnights
          <6>4. QED
            BY <2>1, <3>2, <3>3, <3>4, <6>3, FileTimes
        <5>3. QED
          BY <2>1, <3>3, <3>4, <5>1, <5>2, FileTimes
      <4>3. QED
        BY <2>1, <3>3, <3>4, <4>1, <4>2
    <3>6. IF StopAt(e) < StartAt(e) THEN t >= StartAt(e) \/ t < StopAt(e)
                                    ELSE t >= StartAt(e) /\ t < StopAt(e)
      BY <2>1, <3>2, <3>3, <3>4, <3>5, FileTimes DEF Until
    <3>7. QED
      BY <3>1, <3>6 DEF InWindow, t
  <2>4. ASSUME NEW e \in Entry, timer[e].waits = "stop", clock < plan[e].stop
        PROVE  RelayOf(e) \in Wanted /\ (RelayOf(e) \in Dependents => Pump \in Wanted)
    <3> DEFINE direct == {line.id : line \in {w \in Windows : InWindow(w)}}
    <3>1. RelayOf(e) \in direct
      BY <2>3, <2>4
    <3>2. Wanted = direct \cup (IF direct \cap Dependents # {} THEN {Pump} ELSE {})
      BY DEF Wanted
    <3> HIDE DEF direct
    <3>3. QED
      BY <3>1, <3>2
  \* A stop that wrapped is excused.
  <2>5. ASSUME NEW e \in Entry, timer[e].waits = "stop", RelayOf(e) = r
        PROVE  clock < plan[e].stop
    <3>1. Running(e) /\ RelayOf(e) \notin tooLate
      BY <2>2, <2>5 DEF InTime
    <3>2. timer[e].expiry = plan[e].stop
      BY <3>1 DEF Running
    <3>3. QED
      BY <2>entry, <3>2
  <2>6. CASE r # Pump
    <3>1. PICK e \in Entry : RelayOf(e) = r /\ timer[e].waits = "stop"
      BY <2>6 DEF WindowsInv, HasStop, Excused
    <3>2. QED
      BY <2>4, <2>5, <3>1
  <2>7. CASE r = Pump
    <3>1. PICK p \in Entry :
            /\ RelayOf(p) = Pump
            /\ \/ timer[p].waits = "stop" \/ Due(p)
               \/ \E d \in Entry : /\ RelayOf(d) \in Dependents /\ timer[d].waits = "stop"
                                   /\ plan[p].start < plan[d].stop
      BY <2>7 DEF WindowsInv, PumpHasStop, Excused
    <3>2. CASE timer[p].waits = "stop"
      BY <2>4, <2>5, <2>7, <3>1, <3>2
    <3>3. CASE timer[p].waits # "stop"
      <4>1. PICK d \in Entry : /\ RelayOf(d) \in Dependents /\ timer[d].waits = "stop"
                              /\ plan[p].start < plan[d].stop
        BY <2>1, <3>1, <3>3
      <4>2. timer[p].expiry = plan[p].start
        BY <2>2, <3>3 DEF InTime, Ahead
      <4>3. clock < plan[d].stop
        BY <2>1, <2>entry, <4>1, <4>2
      <4>4. QED
        BY <2>4, <2>7, <4>1, <4>3
    <3>4. QED
      BY <3>2, <3>3
  <2>8. QED
    BY <2>6, <2>7
<1>2. QED
  BY <1>1, NearInvariant, WindowsInvariant, PTL
=============================================================================
