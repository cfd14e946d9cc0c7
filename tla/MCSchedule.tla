----------------------------- MODULE MCSchedule -----------------------------
(***************************************************************************)
(* Instances of Schedule for TLC.  A day has 12 seconds: long enough for a *)
(* window by day, one inside it that ends with it (as in schedule.txt) and *)
(* one that runs past midnight.                                            *)
(***************************************************************************)
EXTENDS Schedule

CONSTANTS pump, swg, light, unknown

DayLength   == 12
ThreeRelays == {pump, swg, light}
JustSwg     == {swg}

\* As schedule.txt: comments, windows, a manual entry, an id that main() does not
\* know.  The line without a stop is the last one.
Comment == [kind |-> "comment"]
Window(id, start, stop) == [kind |-> "window", id |-> id, start |-> start, stop |-> stop]
MCFile ==
    << Comment, Window(pump, 3, 10), Window(unknown, 0, 8), [kind |-> "one word"],
       Window(swg, 4, 10), [kind |-> "manual", id |-> light], Window(light, 9, 2),
       [kind |-> "no stop", id |-> pump] >>

AnyTime == 0 .. DayLength - 1

\* The times of day at which a start of the program serves every entry: not
\* the second a window opens, and not its part after midnight.
ServedTimes ==
    {t \in AnyTime : \A e \in Entry :
        /\ t # StartAt(e)
        /\ StopAt(e) < StartAt(e) => t >= StopAt(e)}
AtNight == {1}
OneHour   == {-1, 1}
OneSecond == {1}

\* The instance is one of those that the two windows' theorems speak of.
ASSUME Served == Ordinary
=============================================================================
