# A verification project for PoolController

PoolController runs the equipment of a swimming pool. A Raspberry Pi drives the
relays of the main pump, the salt water generator (SWG), the booster pump and the
light; it obeys HTTP requests, a daily schedule and four push buttons, and it
shows the readings of a few sensors. A MightyHat board (an Arduino) powers the Pi
and receives the radio node in the water. A separate program polls a weather
station.

This directory holds TLA+ models of that code, what TLC checks about them and
what TLAPS proves. `PROJECT.json` lists components, runs, mutants, the source
lines of every definition, hazards, findings and theorems.

Paths below are relative to `src/`; `PS` is `PoolSmartzC++/PoolSmartz/src` and
`CG` is `PoolSmartzC++/CppGPIO`.

## Inventory

| component | state | operations | hard | what makes it correct |
|---|---|---|---|---|
| Relay switching (`PS/RelaySwitcher`) | `state_`, the output, the pilot LED of each relay; the conditions | `SwitchOn`, `SwitchOff`, `CheckConditions` | no lock; conditions call other relays; output and `state_` are separate writes | the conditions hold at every change; what is reported is driven; calls return |
| Wiring and threads (`PS/PoolSmartz.cpp:515-546`, `PS/MomentarySwitch`) | who is in which call; `button_pushed_` | HTTP set, schedule timers, press and release | five threads in the same relays | the pump interlock; a button toggles |
| Process end (`PS/PoolSmartz.cpp:456-475, 564-581`, `poolsmartz.service`) | `signal_seen`, interrupted calls, GPIO latches | handler, exit after an exception, restart | handlers on top of calls and of each other; latches outlive the process | off at the exit; the process ends; the next one knows the truth |
| Schedule (`PS/Schedule`) | start and stop of each entry, its timer | `RunSchedule`, `StartEquipment`, `StopEquipment`, `CalcStartStopTimes` | late handlers, starts inside a window, midnight, daylight saving, clock set, unsigned differences | on inside its windows, off outside; no timer runs away |
| Push buttons (`CG/src/buttons.cpp`) | the pin, the pending edge, `m_state`, `m_last_triggered`, the event loop | `start`, `stop`, `event_loop`, `debounce`, callbacks | edges while the loop sleeps, reads or starts; stop against poll | no edge is lost; callbacks alternate; `stop()` returns |
| HTTP server, commands, status (`PS/PoolSmartz.cpp:137-452`, `PS/Equipment*.cpp`) | the session's read or write, the listener | accept, read, handle, write, close | clients that fall silent or vanish; a status that reads the relays one by one while buttons switch them; one `result` for all; a handler that ends the process | what an answer says of a relay was true since its request; nobody waits for ever |
| Wireless receiver (`PS/SearialPort.cpp`, `PS/Wireless*.cpp`, `PS/RTSensor.cpp`) | the line buffer, last samples | receive, parse, update, status | lines that the reads split and a restart cuts; lines of unknown nodes | values are whole and never go back; what was acknowledged is shown; a known node's line does no harm |
| SI7021 (`PS/SI7021.cpp`, `CG/src/i2c.cpp`) | the last humidity and temperature, the timer | read both, re-arm | failing transfers; a reading between request and answer | the status shows the last reading; the cycle goes on |
| Soft PWM, outputs (`CG/src/gpio.cpp`, `output.cpp`) | the function-select register, the map of soft threads and its mutex, mark and space of each | `mode`, `soft_pwm_range`, `soft_pwm_write`, construct, destroy | a register that pins share without a lock; torn pairs; the join of a thread that was not told | a pin keeps its function; a soft thread ends when it is told and only then; calls return |
| MightyHat power (`MightyHat/MightyHat.ino:350-648`) | `PowerState`, the latch, the last reading of the button, the battery, the LED | `handlePowerControl`, `readBattery` | waits of a minute; the button against the battery against the Pi's two wires; restarts of the board | power is cut only from a halted Pi or by a held button; a low battery ends in a cut; the LED tells the truth |
| MightyHat requests (`MightyHat/MightyHat.ino:691-1016`) | the list of requests and its counter | `processCommand`, `insert`, acknowledgements with requests | lost acknowledgements, repeated requests, memory that runs out | a promised request is kept until it is voided, and arrives |
| PoolTempRF node (`PoolTempRF/PoolTempRF.ino`) | readings, retries, sleep | `loop` | a sensor that does not answer; lost packets and acknowledgements | each reading is sent once per round or given up |
| Ambient poller (`AutomationUtils/AmbientStationPoll`) | the client's pending operation, the page, the values found | `PollStation`, the client's handlers, `FindValues`, `SendData` | answers late, missing or cut off; a client replaced under its handlers | the line that is sent says what the page says; the next poll comes |

The parts talk like this: HTTP sessions and schedule timers call the relays on
the io_context's thread; each push button calls its own relay on its own thread;
a relay calls the others its conditions name; a signal handler calls all of them
on whichever thread it interrupts. Serial bytes from the MightyHat are parsed on
the io_context's thread. The MightyHat cuts the Pi's power after a handshake over
two wires.

## Modules

| module | models | relation |
|---|---|---|
| `Interlock` | what the conditions promise at the outputs: a dependent comes on only with the pump, the pump goes off only without dependents | abstract specification |
| `RelaySwitcher` | `SwitchOn`, `SwitchOff`, `CheckConditions`, one shared-memory access per step, a stack of activations per thread | |
| `PoolRelays` | main()'s wiring, the io_context thread, the button threads with the callbacks of `MomentarySwitch` | extends `RelaySwitcher`; implements `Interlock` |
| `PoolShutdown` | signals, nested handlers, exceptions, restarts | extends `PoolRelays` |
| `Schedule` | the file, timers, `CalcStartStopTimes`, the wall clock and local time | takes a relay call as one step |
| `Button` | pin, kernel notification, event loop, debouncer, callbacks | |
| `PowerControl` | `handlePowerControl`, the battery, the latch, the button's LED; a person and the Pi on the other side | |
| `Gateway` | the requests kept for sleeping nodes: the host's lines, the queue, the acknowledgements | |
| `Telemetry` | from the node in the water over the MightyHat's line to the samples of the status | |
| `HttpServer` | listener, sessions, commands and status, the sensor of the enclosure, the buttons' threads | takes a relay call as the sequence of states that it sets; its outputs and aborts are in `RelaySwitcher` |
| `SoftPwm` | the library's outputs without hardware support: modes, soft threads, their clients | |
| `StationPoll` | the poller of the weather station, down to the search for values | |
| `MC*` | instances for TLC | |
| `RelaySwitcherProofs`, `ScheduleProofs`, `TelemetryProofs`, `HttpProofs`, `StationPollProofs` | theorems | each extends the module it is named for |
| `PoolProofs` | theorems about `PoolRelays` and `PoolShutdown` | extends `PoolShutdown` and the lemmas of `RelaySwitcherProofs` |
| `GpioProofs` | theorems about the library: `Button`, `SoftPwm` | extends both |
| `MightyHatProofs` | theorems about the board: `PowerControl`, `Gateway` | extends both |

How state and actions correspond to the code:

* `RelaySwitcher`: `state[r]` is `state_`, `gpio[r]` the register bit behind
  `switch_`, `pilot[r]` the one behind `pilot_`. `stack[t]` holds the frames of
  thread `t`: which call (`op`, `relay`), which statement (`pc`), which element
  of the vector (`i`). An action is a statement; the loop of `CheckConditions` is
  `ConditionHolds`, `ForceRequired`, `AbortRequest`, `ConditionsDone`. `logOwner`
  is the mutex of the plog appender, which the informational message of each
  switch takes when the severity lets it through.
* `PoolRelays`: a button thread bears the name of its relay. `Released` is the
  test of `button_pushed_`; `FoundOff`, `NotOff`, `FoundOn`, `NotOn` are the two
  reads of `state_` in `f_released`.
* `PoolShutdown`: `handlers[t]` is the stack of handler activations on thread `t`;
  `base` is the depth of the call that was interrupted, so the frames above it
  are the handler's own. `RoundDone` says that a handler of some thread has passed
  all of the equipment; a process that ends before is `cutShort`. `Halted` says that
  no thread and no handler has a step.
  `Start` gives the process new memory and leaves `gpio` and `pilot`: constructing an
  output writes its direction and no level.
* `Schedule`: `ParseFile` reads the lines of `File` into `schedules_`, and an entry is
  the index of one that is not manual. `plan[e]` holds `stop_time_of_day` and the two dates, `timer[e]`
  what `btimer` waits for. `After` is the unsigned difference (`Wrap` is 2^32,
  `unsigned long` on the 32-bit ARM that `.cproject` builds for). `tooLate` holds the
  relays that were switched by a start just after its own stop; only properties
  read it and `byHand`.
* `Button`: `pending` is the kernel's notification; ages stand for time stamps;
  `interval` is the pair of intervals the object was constructed with.
* `PowerControl`: each waiting loop of the handler is a value of `pc`, and an
  action is one round of a loop. `elapsed` is the time since the handler's `NOW`.
  `pi` is the Pi, `sig` the pin SIG_SHUTOFF, `BOOTOK` what the other pin reads.
  `held` is how long the press lasts; only properties read it. `stale` says that
  the board restarted and has not pulsed the latch since.
* `Gateway`: `queue` and `size_of_queue` are the code's. `pending` is the set of
  requests the gateway took and no node has received; only properties and the
  host's behaviour read it. `Walk` is the loop of a VOID over the list, and `Turn` one
  round of it: on to the next request, or one of the three branches that free one
  (`FreeOnly`, `FreeHead`, `FreeInside`) and count it in `removed`. `Payload` is the walk that
  fills the acknowledgement.
* `Telemetry`: `at[n]` is the label that node `n` sends, `tries[n]` what
  `sendWithRetry` counts. `wire` is what the board has printed and the program has
  not read, in the pieces of a line; `read_buf_str_` and `sample_` are the code's.
  `OtherPacket` prints the line of a node that main() does not configure. `Bad` names
  the lines after which the program is gone: an id that `rts_` does not hold
  (`Unconfigured`), whole or cut, and no number after "SS:". `received` is what the node
  knows of; only properties read it.
* `HttpServer`: `session[c]` is the operation that the session of client `c` waits
  for, `timer[c]` its `expires_after`, `res_` the response it keeps. `state_` holds the
  relays and, under the sensor's name, what it read last (`Sample`). An action is a
  completion handler, but two of them take several steps while the buttons' threads
  run: a command is the relay call in `calls`, which forces other relays first
  (`Forced`) and sets one state per step (`Switch`); a status reads the equipment one
  by one into `root` (`StatusReads`), comparing a relay's state with ON and then,
  read again, with OFF (`notOn`). `result`, the member of `JSON_handler` that all
  sessions share, is written and returned in one step of the io_context's thread
  (`StatusSaid`). `seen[c]` collects the states of each relay and sensor since the
  request; only `AnswersTrue` reads it.
* `SoftPwm`: each pin has one client, the thread that constructs an output there;
  `pc` and `arg` are its call. `fsel` is the register, `copy[p]` what
  `int_set_mode` has read of it, `soft[p]` the object in `soft_thread_map`, `run[p]`
  where its thread is, `owner` the holder of the mutex. An access to the register,
  to mark or to space is a step. `ratio`, `full` and `overlap` are read by
  properties only.
* `StationPoll`: `phase` is the operation that the client waits for and `result` how
  it ended; `page` is a sequence of the pieces that `FindValues` looks for, `p` its
  position, and an iteration of its loop is an action. `stale` says that the handler
  of a destroyed client is still to run.

## Runs

Runs marked *holds* end with every property holding; the last one shows a
disagreement between the code and what the repository says of it.

| run | question | bounds |
|---|---|---|
| RelayAbort | are requests whose check does not abort carried out, is the reported state the driven one, does an abort end the forcing, do calls return (*holds*) | four relays, one thread, calls without limit; conditions that force and abort |
| PoolLight | does the interlock hold at every instant (*holds*) | all four relays, the io_context thread and the light's button; calls without limit |
| ShutdownOff | is everything off after the handler's round; does the next process know the truth; does a process that got a signal end, unless a handler waits for the logger below it (*holds*) | pump, SWG, light with its button; calls that log; two signals or exceptions over three processes |
| ScheduleDays | on inside the windows, off outside, no timer that runs away or rings at another time than was calculated (*holds*) | a file with comments, windows, a manual entry, an unknown id and a last line without a stop; days of 12 s up to second 60; starts at any second of the day but a window's first and its part after midnight; windows by day, inside it with the same end, and over midnight; handlers up to a second late; one daylight-saving step or one correction, by a second (`MaxJump`) |
| ButtonIntervals | no lost edge, alternating callbacks, a level that was not reported gets its callback, stop returns (*holds*) | intervals of `MomentarySwitch`, of the library's defaults, without hold, without debouncing; four level changes, two starts |
| PowerButton | does power go only when it may, does a low battery end in a cut, does the handler come back (*holds*) | scaled times in the code's order; rounds of one or two units; presses, restarts and battery readings without limit |
| GatewayRequests | is the counter right, is a promise kept, does a request arrive that fits (*holds*) | two nodes; commands of 14, 16 and 30 characters; memory for three; a counter modulo 4 |
| TelemetryLines | are values whole, the right node's, never older than before; can a line of a configured node end the program (*holds*) | one node, two of its sensors and its transmission level; a node that is not configured; one retry, two rounds, five pieces on the way; restarts of board and program without limit |
| HttpSessions | are answers true, is every client served or gone, is every request taken (*holds*) | two clients, each with the requests of its kind; the pump, a dependent whose button is used, the sensor with two readings, an unknown name, a stop of the pump's schedule; connections and requests without limit |
| SoftPwm | does a soft thread end only when it is told, does a pin keep its function, do calls return, does an output go dark (*holds*) | two pins of a register, one with PWM and tone outputs, one with a plain output; ranges 1 and 2, ratios 0 to 2; calls without limit |
| StationPoll | does the line that is sent say what the page says, does the next poll come (*holds*) | two pages of four known and unknown inputs and a form in the form, cut off anywhere; polls without limit |
| PumpButtonRace | `SwitchOff` and `SwitchOn` of the pump, on the io_context's thread and on the button's, race between the writes of the output and of `state_`: the pump is reported ON with its output off, and a dependent is switched on without it | four relays, two threads |

"findings" in `PROJECT.json` quotes the line that the last run disagrees with.

Why these bounds are enough. The relay calls are finite-state, so nothing is
bounded there but the number of relays and threads, and two threads are what a
race takes; the theorems cover any number of relays. A schedule repeats every
day: the days up to second 60 hold a first start, full cycles and a restart, and
an entry that runs past midnight meets both of its sides. Two signals reach every
nesting of the handler; three processes reach every latch that one can inherit
from one that inherited. Four level changes reach press, release and a bounce of
either in every phase of the debouncer. In `PowerControl` only the order of the
times matters (`TimesAssumption`), and a round longer than a unit makes each
limit be passed both exactly and with a surplus. In `Gateway` the two short
commands fit into an acknowledgement alone and not together, the long one never;
three elements are what a list with a head, a middle and an end takes, and they
fill the memory. In `Telemetry` a line has four pieces, so five hold a line with the
end of the one before, or the beginning of one with the line end of a restart; what
the program has read of a line comes on top. Two rounds are an old and
a new value. Two clients are what it takes to share the listener and the io_context's
thread; a pump, a dependent and its button make a status see two moments of a call
that forces. In
`SoftPwm` two pins are what it takes to share the register and the mutex, and the
ratios hold 0, the range and a value between; the invariants are proved for all. In
`StationPoll` the pages have an unknown input before, between and after the known
ones, and inputs behind the end of the form.

What the runs assume:

* `ShutdownOff` has `LogInfo = TRUE`, as the service starts the program with the
  severity `debug`: each switch takes the logger's mutex. `StopsUnlessLogging` names
  the one way in which the process does not end. The handler's other calls that
  are unsafe in a signal handler are represented by that mutex. `PoolLight` has
  `LogInfo = FALSE`: there no mutex keeps the threads in step.
* `OffAtExit` speaks of relays without a used button, and of exits after some
  handler's round was through (`RoundDone`), whichever handler then ends the process: one
  that ends before, by a second signal or an exception (`cutShort`), leaves its equipment
  as it is.
* The `PLOG(debug)` of the buttons' callbacks, of the HTTP handlers and of the schedule
  take the logger's mutex too and are left out: it is one more place to be interrupted
  with the mutex held, and the wait is the one that `StopsUnlessLogging` names.
* `ServedTimes` of `MCSchedule` (`ServedStarts` in the theorems): the program is not started at the very second a
  window opens or after midnight in a window from the day before (see the
  disagreements below). A start in the last seconds of a window is included, and the
  properties name the relays for which it came too late (`tooLate`) and the one
  timer that may then be far away (`Stranded`).
* `QuietStart` of `Button`: the level does not change while the loop drops old
  events. It drops a new one as well, and its counter is uninitialised.
* `PowerControl`: a release while a press is measured lasts until a round of the
  loop has read it (rounds take milliseconds, fingers more). The Pi reboots only
  while the gateway waits for that, and halts only when it is asked to; a
  `prompt` Pi obeys within `HaltsWithin`, any other Pi late or never. The
  uninitialised `in` and `out` of the handler are the LED's wave only.
* `Gateway`: a node that asks for an acknowledgement may get it or not; a command
  may arrive although its acknowledgement is lost. The serial port loses no line.
* `Telemetry`: the pieces of a read are handled one by one, and input that no
  process reads is dropped between two pieces. A cut " SS:-50" that keeps a digit
  changes the signal only, which is left out.
* `HttpServer`: a client sends a request when it has the answer to the last one;
  its limit of 30 s may pass at any time; an accept that fails is repeated and
  leaves the client in the backlog. A status is no snapshot: what it says of two
  relays may be of two moments, and of one relay that a button switches between two
  reads of its state it may say "Error". `AnswersTrue` promises a moment since the request
  for each. After "Success" the relay may already have been switched back.
* `SoftPwm`: a pin has one client at a time. The signal handler, the hardware's own
  functions of a pin and its pull-ups are left out. A thread that waits for the
  mutex gets it at some time.
* `StationPoll`: the station closes the connection after its page and a connection
  that breaks off ends in the same way; a handler that runs after its client was
  destroyed does nothing or ends the program.
* Deadlock is not checked where the model's clock or its number of processes is
  bounded: those behaviours end because the bound is reached.

Fairness: a thread that can run is scheduled (weak fairness of a thread's steps;
Linux schedules all of them), time passes, the event loop and a joined `stop()`
go on, the sketch runs, the Pi boots, and a prompt Pi obeys. In `Gateway` a
sleeping node wakes up again and again and not all of its acknowledgements are
lost (weak fairness of `Acknowledged`), and the host voids a request some time
after it arrived (strong fairness of `HostVoids`, since the host may queue it
again). In `Telemetry`
the program reads what has come (weak fairness of `Read`; the io_context always
has a read pending). In `HttpServer` a handler that was begun goes on (weak fairness of
`Switch(Io)`), and one whose operation is complete runs at some time, though others run
before it: the io_context takes the ready handlers in the order in which they became
ready (strong fairness of `Serves`); time passes, clients need do nothing. In `SoftPwm` threads run (weak fairness of a client's and
of a soft thread's steps), and whoever waits for a mutex that is given back again
and again gets it (strong fairness of `Locking`). In `StationPoll` the timer
expires and handlers that are ready run; the station need not answer. Nothing else
is assumed of people, of requests, or of a pin.

## Disagreements without a run

* `PS/RelaySwitcher.cpp:43,54`: `SwitchOn` and `SwitchOff` ignore the result of
  `CheckConditions`, so `ABORT_REQUEST` ends the check and the relay is switched
  all the same, against `RelaySwitcher.h:32-36` ("states that must exist before a change
  of relay state is allowed"). `Served` leaves such requests out. main() wires only
  `FORCE_REQUIRED`.
* `poolsmartz.service:20` says "Use SIGINT to stop", and the service logs at `debug`:
  a signal that interrupts a thread inside the logger makes `SwitchOff` wait for a
  mutex below it (`PS/PoolSmartz.cpp:460`), and the process does not end.
  `StopsUnlessLogging` states that this is the only way.
* `PS/Schedule.h:90`: started in the last `Soon` seconds of a window, the program
  switches the relay on after its stop; the difference wraps, and the timer waits for
  2^32 seconds. The pump of a dependent that this happens to stays on with it.
* `PS/MomentarySwitch.cpp:30`: `f_released` reads `state_`, then calls; a request
  in between makes the button repeat what the request did, against lines 24-25.
* `CG/src/buttons.cpp:290`: with the library's default intervals an edge within
  `min_trigger_interval` is dropped and the pin not read again until the next;
  `is_on()` may stay wrong. `MomentarySwitch` passes intervals for which
  `CoveredSettles` holds.
* `CG/src/buttons.cpp:287`: with a trigger interval of 0, as `DirectIn` has it, the
  debouncer returns before it toggles `m_state`: a press calls `f_off`, the release after it
  is taken for no event, and `is_on()` never changes, against `buttons.hpp:127-129` ("called
  whenever the state changes"), 154, 156-158 and 173-176. `EdgeReported` speaks of intervals
  that are `Covered`, and so of a trigger interval above 0; nothing in the controller uses
  another.
* `MightyHat/MightyHat.ino:498`: the comment says "still pressed", but the branch
  needs a press that is new, for a force that goes on has cut the power before.
* `MightyHat/MightyHat.ino:454`: a Pi that halts after `RecycleTime` is not looked
  at again and stays powered until the button is held.
* `MightyHat/MightyHat.ino:118`: after a restart of the board `PowerState` is OFF
  while the latch keeps the Pi powered; until the button is pressed the LED is
  dark and a low battery is ignored.
* `MightyHat/MightyHat.ino:730`: a request of 30 characters or more is queued and
  never fits into an acknowledgement, against lines 777-778.
* `MightyHat/MightyHat.ino:357`: the comment at 355 says "artificial power ON after
  a low battery shutdown", but 357 sets the reading to HIGH, the released button,
  and 364 acts on LOW only: the Pi is not powered when the charger is back, and
  while it charges a press is overwritten too.
* `MightyHat/MightyHat.ino:984`: the loop blocks for up to minutes while 64
  characters of the host's lines are buffered, against line 4.
* `PS/Schedule.h:68`: a start after midnight, in a window of the evening before,
  waits for the next evening, though the comment at 69 says "past start time but
  not past stop time. Start now."
* `PS/Schedule.cpp:50`: a line with a start and no stop ends the reading of the file;
  the constructor ignores the result, and the entries below the line are lost. A
  last line without a newline is not read either (33).
* `schedule.txt:6-12` (of `PoolSmartz`) names the equipment MainPump, IC40, Booster
  and Light, and the file schedules `IC40`; `PS/PoolSmartz.cpp:543-546` knows SWG,
  BoosterPump and Lighting. `PS/Schedule.cpp:54` passes over the others silently, so
  the salt cell of the shipped file is never scheduled.
* `PS/Schedule.cpp:121`: a pump that a dependent forced on has no stop of its own
  when its entry is manual: it runs on. `schedule.txt` gives it a window.
* `PS/EquipmentCommands.cpp:32`: `throw;` with no exception in flight ends the
  process; the handler of `PostHandler` that answers "JSON format error!" never
  sees it.
* `PS/EquipmentStatus.cpp:17`: `req.find(req, '?')` looks for the request in itself
  and is never 7, so the status of one equipment is not shown alone.
* `PS/WirelessRT.cpp:44`: `states` is a member that every status makes longer.
* `PS/WirelessHandler.cpp:42`: a node that main() did not configure is looked up
  all the same, and the null pointer is called: any packet of such a node ends the
  program, as the MightyHat prints every sender's. `OwnLinesHarmless` is about the others.
* `CG/src/gpio.cpp:531`: "it will terminate in a wink". Where the ratio is 0, as the
  default of `PWMOut` is, `set_range(0)` finds no value greater than the range and
  leaves `m_space` as it is: the thread goes on, and the destructor waits for it
  with the mutex of all soft threads. `CallsReturn` states the exception.
* `CG/src/gpio.cpp:454-459`: a thread whose ratio changes between 0 and the whole range
  may read 0 for both, and ends although its output exists (`full` in
  `EndsOnlyWhenTold`). `gpio.cpp:277` changes the register without a lock (`overlap` in
  `FunctionKept`).
* `CG/include/cppgpio/gpio.hpp:217` gives the range 0..10000 Hz for a soft tone; its
  thread is started with the range 5000, and `set_value` throws beyond it.
* `CG/src/output.cpp`: a constructor of `PWMOut` or `ToneOut` that throws leaves the
  soft thread it started.
* `AutomationUtils/AmbientStationPoll/src/AmbientStation.cpp:184-207`: a page that breaks
  off may make `FindValues` search for ever, whichever piece it lacks. Between an input
  and its value, `p` does not move (198); after any other piece `find` for the next input
  returns `npos`, to which 187 adds the length of the tag, so that the search begins again
  at the start of the page, even if "/form" has arrived and only no input behind it. The
  search ends when the page breaks off inside a name or a value. `PollsGoOn` excepts the
  pages that broke off before an input that follows the form (`NoInputBehind`).
* `PoolTempRF/PoolTempRF.ino:324`: `raw` is unsigned, so a temperature below zero
  is sent as one above 4000 degrees.

## Proofs

`RelaySwitcherProofs` is about any relays with any vectors of conditions, which may
force each other to any depth. While no two calls overlap (`OneCaller`):

* `StatusIsTrue`: the reported state is the driven one and the LED shows it, of each
  relay that no call works on.
* `RequestIsServed`: when the outermost call returns and none of its own conditions
  aborted, its relay is as asked, whatever aborted in the calls that its conditions
  forced.
* `AbortIsFinal`: the conditions after one that aborts are not forced.

`OneCaller` is what the io_context thread gives to relays that no button operates,
and what an instance with one thread has (`RelayAbort`); `PumpButtonRace` shows what
overlapping calls do. `AbortIsFinal` speaks of conditions for which no later
one forces what may switch a relay that an earlier one aborts for: `Reach` names what a request may switch,
itself or through what it forces, and `StaysClear` says that this excludes the
relay of the earlier condition. The conditions of `RelayAbort` satisfy it.
main()'s wiring has no condition that aborts, so the theorem belongs to the class
and not to the wiring.

Of the calls in a stack only the topmost is past its loop (`Orderly`), so at most one
relay is between the writes of its output, its `state_` and its LED. The call that
aborted or was asked may lie any number of frames below the topmost one, so the
invariant of `AbortIsFinal` describes every frame: which conditions are behind it
and still met (`MetBy`), which condition the frame above serves (`CalledBy`), and that a
call may switch no more than the calls below it may (`Nested`).

`PoolProofs` proves of `PoolRelays`, for every set of relays, every set of dependents in
every order and any number of threads:

* `PoolTypeCorrect`: `PoolSpec => []PoolTypeOK`.
* `InterlockHolds` and `InterlockImplemented`: if only the io_context thread
  operates the pump and its dependents (`OneOperator`), then a dependent is
  energised only while the pump is, and every change of an output is a step of
  `Interlock`. The assumption is needed: `PumpButtonRace` is the counterexample
  without it, with one button.
* `GroupStatusIsTrue`: under the same assumption the reported state of the pump and of
  each dependent is the driven one, and its LED shows it, whenever no call works on it.

The interlock is not inductive: a step that drives an output has to know that
the check before it went through. The inductive invariant `CallInv` describes the
io_context's stack completely: it is empty, one call, or one call with the call
its check forced on top, and for each it says which conditions are behind (and
so met), and how `state` and `gpio` differ at the statement between the two
writes. `Elsewhere` says that the other threads are in relays outside the group.
The step `ioc` of the lemma `PoolStep` has one step per kind of statement, and what the
operators on stacks do is proved once, in `RelaySwitcherProofs`. For the LEDs `Lighting` adds that
only the relay on top of the io_context's stack can be between its assignment and
its LED.

Its second part adds `PoolShutdown`: signals that interrupt any thread at any
statement, handlers that interrupt handlers, exceptions and restarts, any number of
each, and any equipment. It proves `ShutdownTypeCorrect` and, under `OneOperator`:

* `NothingLeftOn`: a process whose end is a handler's whole round leaves nothing on
  that only the io_context thread operates.
* `BeliefsAcrossStarts`: what the next process believes of those relays is true
  whenever nobody works on them, until a handler sets its flag.

The round alone proves neither: the calls it interrupted must not go on while it
runs, not even those of other threads. A signal reaches the io_context thread first,
so `ThreadInv` says that a handler on any thread means a handler on that one; then
only threads with a button can still take a step of their own, and their calls
are for relays with a button (`FramesOK`). `RoundOK` says of each handler, the
interrupted ones as well, that what it has passed is off or is the relay its call is
still working on, `DoneOK` that once the round of a handler on any thread is through
every relay without a button is off, whichever handler then exits, and `Unset` that no round has begun before a flag is set.
`Truthful` is the agreement of `state` and `gpio`, which ends with the flag: a
handler's `SwitchOff` may find `state_` ahead of the output it interrupted. TLC checks
`ShutdownInv` on the instance of `ShutdownOff` too.

Of `Gateway`, `MightyHatProofs` proves, for any nodes and commands and any memory that a byte can count:

* `CounterIsLength`: `size_of_queue` is the length of the list, and never wraps: what the
  branches of the walk count is what they free.
* `PromisesAreKept`: a request that the gateway took and no node received is in the
  list, unless the host voided it.

One line can void any number of requests, so both rest on what the walk over the list
leaves (the step `others` of `GatewayInvariant`): no more than there was, and everything
that is not voided. It is an induction over the list. The library's induction theorems take an
operator, so the step `induct` is one over sets of numbers, from the well-foundedness of
`<`, and the walk is shown to exist before it is shown to be right.

`TelemetryProofs` proves, for any nodes and sensors, any order in which a node sends
them, any number of retries, of pieces on the way and of restarts:

* `ShownWasMeasured`: a sample of the status is a value that this node measured for
  this sensor, never one put together from two lines.
* `ShownNeverOlder`: it is never replaced by an older one.
* `OwnLinesAreHarmless`: a line of a configured node that ends the program was torn by a
  restart of the board; one whose beginning the program missed is harmless.

The invariant is about `Text`, what the program has of a line and all that is still
on the wire: `Chained` says which piece may follow which when lines can be cut
anywhere, `Ordered` that the values of a sensor come in the order they were
measured, `NoneOlder` that none is older than the sample it would replace. TLC checks
it (`TelemetryInv`) on the instance of `TelemetryLines` too. `SendsAssumption` says that
no label is one of the line's own tags (`Tags`), as "id", "SS" and the rest are
not names of readings in the sketch.

Of `Button`, `GpioProofs` proves the type invariant, and `NoEdgeIsLost`: when the hold
interval is at least the trigger interval (`Covered`) and the start is quiet, the
loop never goes to wait with a changed level and nothing pending. The invariant
adds that a trigger is older than its interval whenever the loop polls, since
`m_last_triggered` keeps the time from before the sleep. The assumption matters:
the library's defaults do not satisfy it. `CallbacksTakeTurns` needs neither: wherever
there is a trigger interval `f_on` and `f_off` alternate, because a debounced edge
toggles `m_state` before its callback, and the last callback told of the state from
before (`Told`).

Of `PowerControl`, `MightyHatProofs` proves, for all times that satisfy `TimesAssumption`, all lengths of a
round and any person and Pi: `LatchIsKnown`, `LedIsTrue`, `CutsSafely` and
`AsksOnPurpose`. Each speaks of the end of a waiting loop, so `PowerInv` adds what
holds inside: which of the latch and `PowerState` is ahead in which loop (`Latch`),
where the LED may differ (`Led`), that the press has lasted as long as the loop that
measures it (`Held`), and that a Pi which was asked while it was up does not boot
before it is cut off (`Asked`). The types come first, in three groups (`Flags`,
`Times`, `Names`).

`HttpProofs` proves, for any number of clients with any requests, any equipment, any
buttons and any schedule: `HttpTypeCorrect`, and `AnswersAreTrue`: what an answer says of
a relay or a sensor is one of its states since the request. In `HttpInv` `Told` says that
a client that waits has seen the present state, `ReadSoFar` that what a status has
read is true already and a relay found not to be ON was OFF, `SetSoFar` that a command
sets the state that was asked for last, and `Fresh` that no status inherits what an
earlier one read.

Of `SoftPwm`, `GpioProofs` proves, for any number of pins of a register, any ranges and ratios:
`SoftTypeCorrect` (with it, that no space is computed from a mark beyond the range,
where the unsigned difference would wrap), `SoftThreadsGoOn` and `FunctionIsKept`.
`Driven` adds that a thread finds a space of 0 only once its object is being
destroyed or a ratio was as large as the range; `Apart` that two clients switch at
the same time only where `overlap` says so, and that a copy which is about to be
written back agrees with the register on the other clients' pins.

`ScheduleProofs` proves, for any length of the day, any file and any starts of the program:

* `TimersStayNear`: no timer waits for more than two days, and each expires at the date
  calculated for it give or take what the clocks jumped, except one whose stop had
  passed when the start came (`Stranded`), however late the handlers are (less than a
  day) and however time jumps (a day in all). Here the unsigned difference is the whole
  point: `NearInv` says how far a start may come from the time that the plan gives it, by
  a jump (`Slip`) and by a late handler, and so that only a start in the last seconds of
  a window finds its stop behind it and wraps.
* `OnInsideTheWindow` and `OffOutsideTheWindow`, for a file and starts as `Ordinary`
  describes them: every relay has one window and every window is read (`OneWindow`); the
  pump's window covers its dependents' (`PumpCovers`); a window, and the pause after
  it, are longer than a handler may be late (`LongWindows`); the program does not start
  in the second that a window opens nor in its part after midnight (`ServedStarts`); the
  clock runs for less than 2^32 seconds. The windows that `schedule.txt` gives the pump
  and the salt cell are of this kind. Each hypothesis but the last is a case in which
  the code does not serve a window, or switches a relay too late; several are among the
  disagreements above.

The two windows are no invariant by themselves, for a timer alone does not say which
window it belongs to. `WindowsInv` counts the plan of an entry from a midnight
(`Midnight`): an entry waits for the first window that has not ended, or for the start
`Soon` after the program's own (`Ahead`), or for the stop of the window that it is in
(`Running`). `StaysOn` says that no other entry's stop takes a relay from its window,
`HasStop` and `PumpHasStop` that whatever is on has a stop to come, where the pump,
forced on by a dependent in the seconds after the program's start, may still wait for
its own start. `MCSchedule` assumes `Ordinary` of the file of `ScheduleDays`, so TLC checks
that the theorems speak of the instance too.

`StationPollProofs` proves `LineIsTrue`, for any names, any pages that are built as
`sample_live_data.html` (`LivePages`: each known name is followed by its value, which is
not empty, within the first form) and wherever a page is cut off: the line that is
sent holds for each name what the page says, and of a whole page none is missing.
`PollInv` says that the values behind the scan's position are found (`FoundBefore`) and
that each is the page's own. That `find` returns the first place is proved from its
definition, by the well-foundedness of `<`. `MCStationPoll` assumes `LivePages` of its
pages.

The theorems that state a property of a run are `StatusIsTrue`, `RequestIsServed`,
`AbortIsFinal`, `InterlockHolds`, `InterlockImplemented`, `GroupStatusIsTrue`,
`NothingLeftOn`, `BeliefsAcrossStarts`, `NoEdgeIsLost`, `CallbacksTakeTurns`,
`LatchIsKnown`, `LedIsTrue`, `CutsSafely`, `AsksOnPurpose`, `CounterIsLength`,
`PromisesAreKept`, `ShownWasMeasured`, `ShownNeverOlder`, `OwnLinesAreHarmless`,
`AnswersAreTrue`, `SoftThreadsGoOn`, `FunctionIsKept`, `TimersStayNear`,
`OnInsideTheWindow`, `OffOutsideTheWindow` and `LineIsTrue`: the run shows them on its
instance, the theorem for every value of the constants.

Only model-checked: liveness (`CallsReturn`, `CoveredSettles`, `EdgeReported`,
`StopReturns`, `LowBatteryOff`, `LoopGoesOn`, `FittingArrives`, `AckedShown`,
`SilentClientsGo`, `RequestsTaken`, `GoesDark`, `PollsGoOn`), because the prover does
not treat fairness; and `StopsUnlessLogging`, which says ENABLED.

## Plan

Done: the relays and their threads, the end of the process, the schedule, the
buttons, the gateway's power control and requests, the way of a reading from the
node to the status, the HTTP server with the sensor of the enclosure, the soft
outputs of the library, the poller; a theorem for every safety property of the runs that
the prover can state.

1. `Counter` and `RotaryDial` of the library (`CG/src/buttons.cpp:420-549`), its
   hardware PWM and `ShiftOut`, none of which the controller uses.
2. Composition: sessions and timers over `PoolRelays`, with the outputs and the logger,
   in place of the sequences of states in `HttpServer` and the single step in `Schedule`.

## Not modelled

Drawing on the LCD, register addresses and bit masks of the GPIO block, MIME types,
string and file helpers, build files: input, output and layout without decisions of
their own. The MightyHat's history of messages belongs to the display, which the
sketch compiles out. `on_time_` and `off_time_` of a relay are shown and never read.
The hardware PWM, pull-ups and shift registers of CppGPIO are used by no program of
this repository. The formulas that turn bytes into degrees and per cent, the words of
the status and of the lines to Telegraf are layout.
