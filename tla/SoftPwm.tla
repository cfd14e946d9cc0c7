------------------------------- MODULE SoftPwm -------------------------------
(***************************************************************************)
(* The outputs of CppGPIO without hardware support: DigitalOut, PWMOut and *)
(* ToneOut (output.cpp), GPIOBase::mode with the function-select register, *)
(* the map of soft threads with its mutex, and SoftThread (gpio.cpp).      *)
(*                                                                         *)
(* Each pin has one client, the thread that constructs an output there,    *)
(* operates it and destroys it; the client bears the name of the pin.  The *)
(* pins share a function-select register and the mutex.  Beside a client   *)
(* may run the soft thread that drives its pin.                            *)
(*                                                                         *)
(* A step is one access to what threads share.  The mutex is taken and     *)
(* given back in one step where nothing that another thread reads happens  *)
(* in between.  The on() and off() of DigitalOut are left out: they write a *)
(* set or clear register that nothing else reads.                          *)
(***************************************************************************)
EXTENDS Naturals

CONSTANTS
    Pin,           \* the pins, all in one function-select register
    Classes,       \* Classes[p]: the classes of output constructed on pin p
    Ranges,        \* the ranges a client asks for
    Ratios,        \* the ratios (or frequencies) it asks for
    DefaultRange,  \* DefaultRange[c]: what mode() starts a soft thread with (100, 5000)
    NoThread

Class == {"DIGITAL", "PWM", "TONE"}

ASSUME PinAssumption   == NoThread \notin Pin /\ Classes \in [Pin -> SUBSET Class]
ASSUME RangeAssumption == /\ Ranges \subseteq Nat \ {0} /\ Ratios \subseteq Nat
                          /\ DefaultRange \in [Class -> Nat \ {0}]

VARIABLES
    fsel,     \* fsel[p]: the bits of the register for pin p
    copy,     \* copy[p]: the register as p's client has read it in int_set_mode
    level,    \* level[p]: what the soft thread has last driven its pin to, or "found"
    owner,    \* who holds m_soft_thread_mutex
    class,    \* class[p]: what its client has constructed, or "none"
    pc,       \* pc[p]: the client's next statement
    arg,      \* arg[p]: what its call was given
    soft,     \* soft[p]: the SoftThread that soft_thread_map has for p; mark is m_value and
              \* m_mark, which change together
    run,      \* run[p]: where that object's thread is, or "none"
    ratio,    \* ratio[p]: the ratio that the soft thread last accepted; only properties
              \* read this and the next two
    full,     \* full[p]: it has accepted a ratio as large as its range
    overlap   \* overlap[p]: another int_set_mode ran during p's last one

client == <<class, pc, arg>>
switch == <<fsel, copy, overlap>>
object == <<soft, ratio, full>>
vars   == <<client, switch, object, level, owner, run>>

NoCall   == [class |-> "none", range |-> 0, ratio |-> 0]
NoObject == [class |-> "none", range |-> 0, mark |-> 0, space |-> 0]
Register == [Pin -> {"INPUT", "OUTPUT"}]
AllInput == [p \in Pin |-> "INPUT"]

Init ==
    /\ fsel = AllInput /\ copy = [p \in Pin |-> AllInput]
    /\ level = [p \in Pin |-> "found"]
    /\ owner = NoThread
    /\ class = [p \in Pin |-> "none"]
    /\ pc = [p \in Pin |-> "idle"] /\ arg = [p \in Pin |-> NoCall]
    /\ soft = [p \in Pin |-> NoObject] /\ run = [p \in Pin |-> "none"]
    /\ ratio = [p \in Pin |-> 0] /\ full = [p \in Pin |-> FALSE]
    /\ overlap = [p \in Pin |-> FALSE]

-----------------------------------------------------------------------------
(***************************************************************************)
(* The client's calls.                                                     *)
(***************************************************************************)
At(p, label)   == pc[p] = label
Goto(p, label) == pc' = [pc EXCEPT ![p] = label]
Return(p)      == Goto(p, "idle") /\ arg' = [arg EXCEPT ![p].range = 0, ![p].ratio = 0]
Unlocked       == owner = NoThread
IsSoft(c)      == c \in {"PWM", "TONE"}

Call(p, label, call) ==
    /\ At(p, "idle") /\ Goto(p, label)
    /\ arg' = [arg EXCEPT ![p] = call]
    /\ overlap' = [overlap EXCEPT ![p] = @ /\ label # "mode"]
    /\ UNCHANGED <<class, fsel, copy, object, level, owner, run>>

\* DigitalOut(pin), PWMOut(pin, range, ratio), ToneOut(pin, hz).
Construct(p, c, r, v) ==
    /\ class[p] = "none" /\ c \in Classes[p]
    /\ Call(p, "mode", [class |-> c, range |-> IF c = "PWM" THEN r ELSE 0,
                        ratio |-> IF IsSoft(c) THEN v ELSE 0])

SetRange(p, r) == class[p] = "PWM" /\ Call(p, "range", [arg[p] EXCEPT !.range = r])
SetRatio(p, v) == IsSoft(class[p]) /\ Call(p, "ratio", [arg[p] EXCEPT !.ratio = v])

\* The destructors: mode(pin, GPIO_INPUT).
Destroy(p) == class[p] # "none" /\ Call(p, "mode", NoCall)

-----------------------------------------------------------------------------
(***************************************************************************)
(* GPIOBase::mode.                                                         *)
(***************************************************************************)
\* No soft thread on this pin: nothing to erase.
NothingToErase(p) ==
    /\ At(p, "mode") /\ Unlocked /\ soft[p] = NoObject
    /\ Goto(p, "read")
    /\ UNCHANGED <<class, arg, switch, object, level, owner, run>>

\* Slip: terminate() sets the range alone.
TerminateRange(p) ==
    /\ At(p, "mode") /\ Unlocked /\ soft[p] # NoObject
    /\ owner' = p
    /\ soft' = [soft EXCEPT ![p].range = 0]
    /\ Goto(p, "join")
    /\ UNCHANGED <<class, arg, switch, level, run, ratio, full>>

\* erase() destroys the object: set_range(0), which sets the value to 0 only if
\* it is greater, then join().
TerminateSoft(p) ==
    /\ At(p, "mode") /\ Unlocked /\ soft[p] # NoObject
    /\ owner' = p
    /\ IF soft[p].mark > 0
       THEN /\ soft' = [soft EXCEPT ![p].range = 0, ![p].mark = 0]
            /\ Goto(p, "endSpace")
       ELSE /\ soft' = [soft EXCEPT ![p].range = 0]
            /\ Goto(p, "join")
    /\ UNCHANGED <<class, arg, switch, level, run, ratio, full>>

EndSpace(p) ==
    /\ At(p, "endSpace")
    /\ soft' = [soft EXCEPT ![p].space = 0]
    /\ Goto(p, "join")
    /\ UNCHANGED <<class, arg, switch, level, owner, run, ratio, full>>

Joined(p) ==
    /\ At(p, "join") /\ run[p] = "ended"
    /\ soft' = [soft EXCEPT ![p] = NoObject] /\ run' = [run EXCEPT ![p] = "none"]
    /\ ratio' = [ratio EXCEPT ![p] = 0] /\ full' = [full EXCEPT ![p] = FALSE]
    /\ owner' = NoThread
    /\ Goto(p, "read")
    /\ UNCHANGED <<class, arg, switch, level>>

\* int_set_mode: the register is read, its bits for p are cleared, it is
\* written; for an output once more, to set them.
Switching(q) == pc[q] \in {"clear", "reread", "set"}

ReadRegister(p) ==
    /\ At(p, "read")
    /\ copy' = [copy EXCEPT ![p] = fsel]
    /\ overlap' = [q \in Pin |->
                     IF q = p THEN \E o \in Pin \ {p} : Switching(o)
                     ELSE overlap[q] \/ Switching(q)]
    /\ Goto(p, "clear")
    /\ UNCHANGED <<class, arg, fsel, object, level, owner, run>>

\* Slip: "=" for "&=".
ClearRegister(p) ==
    /\ At(p, "clear")
    /\ fsel' = AllInput
    /\ copy' = [copy EXCEPT ![p] = AllInput]
    /\ IF arg[p].class = "none"
       THEN Goto(p, "idle") /\ class' = [class EXCEPT ![p] = "none"]
       ELSE Goto(p, "reread") /\ UNCHANGED class
    /\ UNCHANGED <<arg, overlap, object, level, owner, run>>

ClearBits(p) ==
    /\ At(p, "clear")
    /\ fsel' = [copy[p] EXCEPT ![p] = "INPUT"]
    /\ copy' = [copy EXCEPT ![p] = AllInput]
    /\ IF arg[p].class = "none"
       THEN Goto(p, "idle") /\ class' = [class EXCEPT ![p] = "none"]
       ELSE Goto(p, "reread") /\ UNCHANGED class
    /\ UNCHANGED <<arg, overlap, object, level, owner, run>>

Reread(p) ==
    /\ At(p, "reread")
    /\ copy' = [copy EXCEPT ![p] = fsel]
    /\ Goto(p, "set")
    /\ UNCHANGED <<class, arg, fsel, overlap, object, level, owner, run>>

SetBits(p) ==
    /\ At(p, "set")
    /\ fsel' = [copy[p] EXCEPT ![p] = "OUTPUT"]
    /\ copy' = [copy EXCEPT ![p] = AllInput]
    /\ IF IsSoft(arg[p].class)
       THEN Goto(p, "emplace") /\ UNCHANGED class
       ELSE Goto(p, "idle") /\ class' = [class EXCEPT ![p] = arg[p].class]
    /\ UNCHANGED <<arg, overlap, object, level, owner, run>>

\* Slip: mark and space are not computed before the thread starts.
EmplaceUnset(p) ==
    LET c == arg[p].class IN
    /\ At(p, "emplace") /\ Unlocked
    /\ soft' = [soft EXCEPT ![p] = [NoObject EXCEPT !.class = c, !.range = DefaultRange[c]]]
    /\ run' = [run EXCEPT ![p] = "mark"] /\ level' = [level EXCEPT ![p] = "found"]
    /\ Goto(p, IF c = "PWM" THEN "range" ELSE "ratio")
    /\ UNCHANGED <<class, arg, switch, owner, ratio, full>>

\* The soft thread starts with value 0; then the constructor of PWMOut sets the
\* range and the ratio, that of ToneOut the frequency.
Emplace(p) ==
    LET c == arg[p].class IN
    /\ At(p, "emplace") /\ Unlocked
    /\ soft' = [soft EXCEPT ![p] = [class |-> c, range |-> DefaultRange[c],
                                    mark |-> 0, space |-> DefaultRange[c]]]
    /\ run' = [run EXCEPT ![p] = "mark"] /\ level' = [level EXCEPT ![p] = "found"]
    /\ Goto(p, IF c = "PWM" THEN "range" ELSE "ratio")
    /\ UNCHANGED <<class, arg, switch, owner, ratio, full>>

-----------------------------------------------------------------------------
(***************************************************************************)
(* soft_pwm_range, soft_pwm_write and soft_tone_write.                     *)
(***************************************************************************)
\* set_value(v) up to the store of m_mark.
BeginValue(p, range, v) ==
    /\ soft' = [soft EXCEPT ![p].range = range, ![p].mark = v]
    /\ ratio' = [ratio EXCEPT ![p] = v]
    /\ full' = [full EXCEPT ![p] = @ \/ v = range]
    /\ owner' = p

Constructing(p) == class[p] = "none"

\* set_range: m_space follows only if the value has to.
RangeSet(p) ==
    LET r == arg[p].range IN
    /\ At(p, "range") /\ Unlocked
    /\ \/ /\ soft[p].mark > r
          /\ BeginValue(p, r, r)
          /\ Goto(p, "space") /\ UNCHANGED arg
       \/ /\ soft[p].mark <= r
          /\ soft' = [soft EXCEPT ![p].range = r]
          /\ IF Constructing(p) THEN Goto(p, "ratio") /\ UNCHANGED arg ELSE Return(p)
          /\ UNCHANGED <<ratio, full, owner>>
    /\ UNCHANGED <<class, switch, level, run>>

\* set_value throws: an output under construction never exists, but its soft
\* thread stays in the map.  (soft_tone_write refuses only what is beyond 10000,
\* twice the range of a tone.)
RatioRefused(p) ==
    /\ At(p, "ratio") /\ Unlocked
    /\ arg[p].ratio > soft[p].range
    /\ Return(p)
    /\ UNCHANGED <<class, switch, object, level, owner, run>>

RatioSet(p) ==
    /\ At(p, "ratio") /\ Unlocked
    /\ arg[p].ratio <= soft[p].range
    /\ BeginValue(p, soft[p].range, arg[p].ratio)
    /\ Goto(p, "space")
    /\ UNCHANGED <<class, arg, switch, level, run>>

\* The store of m_space ends the call.
SpaceSet(p) ==
    /\ At(p, "space")
    /\ soft' = [soft EXCEPT ![p].space = soft[p].range - soft[p].mark]
    /\ owner' = NoThread
    /\ class' = [class EXCEPT ![p] = soft[p].class]
    /\ Return(p)
    /\ UNCHANGED <<switch, level, run, ratio, full>>

-----------------------------------------------------------------------------
(***************************************************************************)
(* SoftThread::run_pwm and run_tone.                                       *)
(***************************************************************************)
\* Of local_mark and local_space the thread needs only whether they are 0:
\* "space 0" and "space" read m_space after a mark that is 0 or not, and a mark
\* is followed by a space ("high, low") or by the next mark ("high").
RunGoto(p, label) == run' = [run EXCEPT ![p] = label]

ReadMark(p) ==
    /\ run[p] = "mark"
    /\ RunGoto(p, IF soft[p].mark = 0 THEN "space 0"
                  ELSE IF soft[p].class = "TONE" THEN "high, low" ELSE "space")
    /\ UNCHANGED <<client, switch, object, level, owner>>

\* Slip: without a mark a PWM waits as a tone does.
WaitWithoutMark(p) ==
    /\ \/ run[p] = "space 0" /\ RunGoto(p, IF soft[p].space = 0 THEN "ended" ELSE "mark")
       \/ run[p] = "space" /\ RunGoto(p, IF soft[p].space = 0 THEN "high" ELSE "high, low")
    /\ UNCHANGED <<client, switch, object, level, owner>>

\* Both 0: the thread ends.  A tone of 0 Hz waits and looks again.
ReadSpace(p) ==
    /\ \/ /\ run[p] = "space 0"
          /\ RunGoto(p, IF soft[p].space = 0 THEN "ended"
                        ELSE IF soft[p].class = "TONE" THEN "mark" ELSE "low")
       \/ /\ run[p] = "space"
          /\ RunGoto(p, IF soft[p].space = 0 THEN "high" ELSE "high, low")
    /\ UNCHANGED <<client, switch, object, level, owner>>

High(p) ==
    /\ run[p] \in {"high", "high, low"}
    /\ level' = [level EXCEPT ![p] = "high"]
    /\ RunGoto(p, IF run[p] = "high" THEN "mark" ELSE "low")
    /\ UNCHANGED <<client, switch, object, owner>>

Low(p) ==
    /\ run[p] = "low"
    /\ level' = [level EXCEPT ![p] = "low"]
    /\ RunGoto(p, "mark")
    /\ UNCHANGED <<client, switch, object, owner>>

Locking(p) ==
    \/ NothingToErase(p) \/ TerminateSoft(p) \/ Emplace(p)
    \/ RangeSet(p) \/ RatioRefused(p) \/ RatioSet(p)

Going(p) ==
    \/ EndSpace(p) \/ Joined(p) \/ SpaceSet(p)
    \/ ReadRegister(p) \/ ClearBits(p) \/ Reread(p) \/ SetBits(p)

SoftThread(p) == ReadMark(p) \/ ReadSpace(p) \/ High(p) \/ Low(p)

Next ==
    \E p \in Pin :
        \/ \E c \in Class, r \in Ranges, v \in Ratios : Construct(p, c, r, v)
        \/ \E r \in Ranges : SetRange(p, r)
        \/ \E v \in Ratios : SetRatio(p, v)
        \/ Destroy(p)
        \/ Locking(p) \/ Going(p) \/ SoftThread(p)

\* The kernel runs every thread, and a thread that waits for the mutex gets it
\* at some time if it is given back again and again.
Fairness ==
    \A p \in Pin : SF_vars(Locking(p)) /\ WF_vars(Going(p)) /\ WF_vars(SoftThread(p))

Spec == Init /\ [][Next]_vars /\ Fairness

-----------------------------------------------------------------------------
Erasing(p) == pc[p] \in {"endSpace", "join"}

\* A soft thread ends only when its object is destroyed: as long as the output
\* exists its pin is driven, if no ratio is as large as the range.  (One that is
\* makes m_space 0: next to a ratio of 0, set before or after, the thread may read
\* the two halves as 0 and end.)
EndsOnlyWhenTold == \A p \in Pin : run[p] = "ended" => Erasing(p) \/ full[p]

\* A pin has the function its client last gave it, whatever the clients of the
\* register's other pins did, unless one of them called mode() at the same time.
FunctionKept ==
    \A p \in Pin : pc[p] \in {"idle", "emplace", "range", "ratio", "space"} /\ ~overlap[p] =>
        fsel[p] = IF arg[p].class = "none" THEN "INPUT" ELSE "OUTPUT"

\* "it will terminate in a wink" (gpio.cpp:531): every call returns, unless an
\* output is destroyed whose ratio is 0.
CallsReturn ==
    \A p \in Pin : pc[p] # "idle" ~> pc[p] = "idle" \/ \E q \in Pin : At(q, "join") /\ ratio[q] = 0

\* An output whose ratio is set to 0 and left there goes low, from whatever ratio
\* it comes, unless its thread has ended.
GoesDark ==
    \A p \in Pin :
        class[p] # "none" /\ pc[p] = "idle" /\ ratio[p] = 0 /\ level[p] = "high" ~>
            level[p] = "low" \/ pc[p] # "idle" \/ run[p] = "ended"
=============================================================================
