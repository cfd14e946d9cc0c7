----------------------------- MODULE HttpServer -----------------------------
(***************************************************************************)
(* The HTTP server of PoolSmartz.cpp: the listener, the sessions, the      *)
(* handler of requests with EquipmentCommands and EquipmentStatus, and the *)
(* enclosure's sensor (SI7021) that the status shows.                      *)
(*                                                                         *)
(* The handlers run on the io_context's one thread, each up to the next    *)
(* asynchronous call: while one is in a relay call or reads the relays for *)
(* a status, none of the others runs.  The buttons have threads of their   *)
(* own and switch relays at any time.  A relay call is the sequence of the *)
(* states that it sets, those that conditions force first; its outputs and *)
(* the aborts of conditions are in RelaySwitcher.  A client sends its next *)
(* request when it has the answer; it may stop sending, reading, or both.  *)
(***************************************************************************)
EXTENDS Naturals, Sequences, SequencesExt

CONSTANTS
    Client,
    Relay, Sensor,       \* the equipment
    Order,               \* the keys of the equipment map in its order
    Pump, Dependents,    \* the relays that force each other
    Buttons,             \* the relays whose button is used
    Io,                  \* the thread of the io_context
    Planned,             \* what the schedule's timers do: relays and states
    Unknown,             \* a name that is not in the map
    Requests,            \* what each client asks for
    Reading, NoReading   \* temperature and humidity of a sample, and before one

Equipment == Relay \cup Sensor
Thread    == Buttons \cup {Io}

ASSUME NamesAssumption ==
    /\ Relay \cap Sensor = {} /\ Unknown \notin Equipment
    /\ Order \in Seq(Equipment) /\ Range(Order) = Equipment
ASSUME ReadingAssumption == NoReading \in Reading
ASSUME RelaysAssumption ==
    /\ Pump \in Relay /\ Dependents \in Seq(Relay \ {Pump})
    /\ Buttons \subseteq Relay /\ Io \notin Relay
    /\ Planned \subseteq Relay \X {"ON", "OFF"}

\* A "badBody" is no JSON; "noSet" is a POST to another path or a body without
\* "Set".
Request ==
    [op : {"status", "otherTarget", "badBody", "noSet", "badRequest"}, name : {Unknown}, keep : BOOLEAN]
    \cup [op : {"on", "off"}, name : Equipment \cup {Unknown}, keep : BOOLEAN]

ASSUME RequestsAssumption == Requests \in [Client -> SUBSET Request]

VARIABLES
    up,          \* the process runs
    listening,   \* the acceptor listens and do_accept's accept is pending
    state_,      \* of each relay, and the last reading of each sensor
    calls,       \* of each thread: the states that its relay call has yet to set
    root,        \* what the status in progress has read, in the map's order
    notOn,       \* its StateStr() has found the relay not to be ON
    link,        \* of each client: its connection
    session,     \* what the client's session waits for or does
    timer,       \* expires_after(30 s) is running
    request,     \* sent, and not answered yet
    shut,        \* the client will send nothing more
    res_,        \* the response in the session
    seen         \* ghost: the states of each since the request, until it is answered

status == <<root, notOn>>
conn   == <<link, session, timer, request, shut, res_>>
vars   == <<up, listening, state_, calls, status, conn, seen>>

OnOff == {"ON", "OFF"}
Value == OnOff \cup {"Error"} \cup Reading
Write == Relay \X OnOff

States ==
    {s \in [Equipment -> OnOff \cup Reading] :
        \A e \in Equipment : s[e] \in (IF e \in Relay THEN OnOff ELSE Reading)}
AllOff == [e \in Equipment |-> IF e \in Relay THEN "OFF" ELSE NoReading]

NoRequest  == [op |-> "none", name |-> Unknown, keep |-> FALSE]
NoResponse == [said |-> "nothing", shown |-> << >>, to |-> NoRequest]
NotSeen    == [e \in Equipment |-> {}]

Said == {"nothing", "bad_request", "status", "empty", "Success", "Failure", "format_error"}
Response == [said : Said, shown : Seq(Value), to : Request \cup {NoRequest}]

HttpTypeOK ==
    /\ up \in BOOLEAN /\ listening \in BOOLEAN
    /\ state_ \in States /\ calls \in [Thread -> Seq(Write)]
    /\ root \in Seq(Value) /\ Len(root) <= Len(Order) /\ notOn \in BOOLEAN
    /\ link \in [Client -> {"none", "backlog", "open"}]
    /\ session \in [Client -> {"none", "reading", "handling", "writing"}]
    /\ timer \in [Client -> BOOLEAN] /\ shut \in [Client -> BOOLEAN]
    /\ request \in [Client -> Request \cup {NoRequest}]
    /\ res_ \in [Client -> Response]
    /\ seen \in [Client -> [Equipment -> SUBSET (OnOff \cup Reading)]]
    /\ \A c \in Client :
        /\ session[c] # "none" <=> link[c] = "open"
        /\ session[c] = "writing" <=> res_[c] # NoResponse
        /\ \A d \in Client : session[c] = "handling" /\ session[d] = "handling" => c = d

NoConnections ==
    /\ link = [c \in Client |-> "none"] /\ session = [c \in Client |-> "none"]
    /\ timer = [c \in Client |-> FALSE] /\ shut = [c \in Client |-> FALSE]
    /\ request = [c \in Client |-> NoRequest] /\ res_ = [c \in Client |-> NoResponse]
    /\ seen = [c \in Client |-> NotSeen]

Init ==
    /\ up = FALSE /\ listening = FALSE
    /\ state_ = AllOff /\ calls = [t \in Thread |-> << >>]
    /\ root = << >> /\ notOn = FALSE
    /\ NoConnections

-----------------------------------------------------------------------------
(***************************************************************************)
(* The process, and what else changes the status.                          *)
(***************************************************************************)
\* open, set_option, bind or listen may fail; the process runs on without.
Start ==
    /\ ~up /\ up' = TRUE
    /\ listening' \in BOOLEAN
    /\ UNCHANGED <<state_, calls, status, conn, seen>>

\* The memory of the process and its connections are gone.
Ended ==
    /\ up' = FALSE /\ listening' = FALSE
    /\ state_' = AllOff /\ calls' = [t \in Thread |-> << >>]
    /\ root' = << >> /\ notOn' = FALSE
    /\ link' = [c \in Client |-> "none"] /\ session' = [c \in Client |-> "none"]
    /\ timer' = [c \in Client |-> FALSE] /\ shut' = [c \in Client |-> FALSE]
    /\ request' = [c \in Client |-> NoRequest] /\ res_' = [c \in Client |-> NoResponse]
    /\ seen' = [c \in Client |-> NotSeen]

Stop == up /\ Ended

\* The io_context is between two handlers.
Idle == calls[Io] = << >> /\ \A c \in Client : session[c] # "handling"

\* The answer says something of the equipment e.
Tells(q, e) == q.op = "status" \/ (q.name = e /\ e \in Relay)

\* What a client may be told of: all states since it sent its request.
Witnessed(states) ==
    [c \in Client |-> [e \in Equipment |->
        IF Tells(request[c], e) THEN seen[c][e] \cup {states[e]} ELSE seen[c][e]]]

\* CheckConditions(): the pump before its dependents, and those off before it.
Forced(r, s) ==
    CASE s = "ON" /\ r \in Range(Dependents) -> << <<Pump, "ON">> >>
      [] s = "OFF" /\ r = Pump -> [i \in DOMAIN Dependents |-> <<Dependents[i], "OFF">>]
      [] OTHER -> << >>

\* SwitchOn() and SwitchOff(), as the states that they set or find.
Switching(r, s) == Append(Forced(r, s), <<r, s>>)

\* f_released of a button.
Released(b) ==
    /\ up /\ calls[b] = << >>
    /\ calls' = [calls EXCEPT ![b] = Switching(b, IF state_[b] = "OFF" THEN "ON" ELSE "OFF")]
    /\ UNCHANGED <<up, listening, state_, status, conn, seen>>

\* A timer of the schedule.
Scheduled(plan) ==
    /\ up /\ Idle
    /\ calls' = [calls EXCEPT ![Io] = Switching(plan[1], plan[2])]
    /\ UNCHANGED <<up, listening, state_, status, conn, seen>>

\* A thread sets the next state of its call, or finds it set.
Switch(t) ==
    /\ calls[t] # << >>
    /\ LET next == Head(calls[t]) IN state_' = [state_ EXCEPT ![next[1]] = next[2]]
    /\ calls' = [calls EXCEPT ![t] = Tail(@)]
    /\ seen' = Witnessed(state_')
    /\ UNCHANGED <<up, listening, status, conn>>

\* SI7021::Sample reads both values in one handler.  A write or read that the
\* bus refuses goes unnoticed: what the buffer held becomes the reading.  None
\* of the values that two bytes stand for is the 0 of the constructor.
Sample(s) ==
    /\ up /\ Idle
    /\ \E v \in Reading \ {NoReading} : state_' = [state_ EXCEPT ![s] = v]
    /\ seen' = Witnessed(state_')
    /\ UNCHANGED <<up, listening, calls, status, conn>>

-----------------------------------------------------------------------------
(***************************************************************************)
(* Clients.                                                                *)
(***************************************************************************)
Connect(c) ==
    /\ up /\ listening /\ link[c] = "none"
    /\ link' = [link EXCEPT ![c] = "backlog"]
    /\ UNCHANGED <<up, listening, state_, calls, status, session, timer, request, shut, res_, seen>>

Send(c) ==
    /\ link[c] # "none" /\ ~shut[c]
    /\ request[c] = NoRequest /\ res_[c] = NoResponse
    /\ \E q \in Requests[c] :
           /\ request' = [request EXCEPT ![c] = q]
           /\ seen' = [seen EXCEPT ![c] =
                           [e \in Equipment |-> IF Tells(q, e) THEN {state_[e]} ELSE {}]]
    /\ UNCHANGED <<up, listening, state_, calls, status, link, session, timer, shut, res_>>

Shut(c) ==
    /\ link[c] # "none" /\ ~shut[c]
    /\ shut' = [shut EXCEPT ![c] = TRUE]
    /\ UNCHANGED <<up, listening, state_, calls, status, link, session, timer, request, res_, seen>>

-----------------------------------------------------------------------------
(***************************************************************************)
(* The sessions.                                                           *)
(***************************************************************************)
\* Slip: no time limit is set.
UnlimitedRead(c) ==
    /\ session' = [session EXCEPT ![c] = "reading"]
    /\ timer' = [timer EXCEPT ![c] = FALSE]

\* do_read: the limit holds for the request, the answer and its sending.
DoRead(c) ==
    /\ session' = [session EXCEPT ![c] = "reading"]
    /\ timer' = [timer EXCEPT ![c] = TRUE]

\* No operation refers to the session any more; its socket is closed.
Gone(c) ==
    /\ link' = [link EXCEPT ![c] = "none"] /\ session' = [session EXCEPT ![c] = "none"]
    /\ timer' = [timer EXCEPT ![c] = FALSE] /\ shut' = [shut EXCEPT ![c] = FALSE]
    /\ request' = [request EXCEPT ![c] = NoRequest]
    /\ res_' = [res_ EXCEPT ![c] = NoResponse]
    /\ seen' = [seen EXCEPT ![c] = NotSeen]

\* Slip: on_accept does not accept the next connection.
AcceptOnce(c) ==
    /\ Idle /\ listening /\ link[c] = "backlog"
    /\ listening' = FALSE
    /\ link' = [link EXCEPT ![c] = "open"]
    /\ DoRead(c)
    /\ UNCHANGED <<up, state_, calls, status, request, shut, res_, seen>>

\* listener::on_accept: a session for the client, and the next accept; after
\* an error only the next accept.
OnAccept(c) ==
    /\ Idle /\ listening /\ link[c] = "backlog"
    /\ link' = [link EXCEPT ![c] = "open"]
    /\ DoRead(c)
    /\ UNCHANGED <<up, listening, state_, calls, status, request, shut, res_, seen>>

Respond(c, said, shown) ==
    /\ res_' = [res_ EXCEPT ![c] = [said |-> said, shown |-> shown, to |-> request[c]]]
    /\ request' = [request EXCEPT ![c] = NoRequest]
    /\ session' = [session EXCEPT ![c] = "writing"]
    /\ seen' = [seen EXCEPT ![c] = NotSeen]
    /\ UNCHANGED <<up, listening, state_, link, timer, shut>>

\* handle_request: neither GET nor POST, or an illegal target.
BadRequest(c) ==
    /\ request[c].op = "badRequest"
    /\ Respond(c, "bad_request", << >>)
    /\ UNCHANGED <<calls, status>>

\* GET of another target than /status: an empty object.
GetOther(c) ==
    /\ request[c].op = "otherTarget"
    /\ Respond(c, "empty", << >>)
    /\ UNCHANGED <<calls, status>>

\* A request whose handler takes several steps: GET /status, or a command that
\* RunCommand gives to a relay.
Handle(c) ==
    /\ session' = [session EXCEPT ![c] = "handling"]
    /\ UNCHANGED <<up, listening, state_, status, link, timer, request, shut, res_, seen>>

GetStatus(c) == request[c].op = "status" /\ Handle(c) /\ UNCHANGED calls

PostCommand(c) ==
    /\ request[c].op \in {"on", "off"} /\ request[c].name \in Relay
    /\ calls' = [calls EXCEPT ![Io] =
                     Switching(request[c].name, IF request[c].op = "on" THEN "ON" ELSE "OFF")]
    /\ Handle(c)

\* A sensor takes a command and does nothing; a name may be unknown.
PostNoRelay(c) ==
    /\ request[c].op \in {"on", "off"} /\ request[c].name \notin Relay
    /\ Respond(c, IF request[c].name \in Sensor THEN "Success" ELSE "Failure", << >>)
    /\ UNCHANGED <<calls, status>>

\* read_json() throws and PostHandler catches.
PostBadBody(c) ==
    /\ request[c].op = "badBody"
    /\ Respond(c, "format_error", << >>)
    /\ UNCHANGED <<calls, status>>

\* The constructor's `throw;` outside a handler ends the process.
PostWithoutSet(c) ==
    /\ request[c].op = "noSet"
    /\ Ended

OnRead(c) ==
    /\ Idle /\ session[c] = "reading" /\ request[c] # NoRequest
    /\ \/ BadRequest(c) \/ GetOther(c) \/ GetStatus(c)
       \/ PostCommand(c) \/ PostNoRelay(c) \/ PostBadBody(c) \/ PostWithoutSet(c)

\* RunCommand has returned.
Commanded(c) ==
    /\ session[c] = "handling" /\ request[c].op # "status" /\ calls[Io] = << >>
    /\ Respond(c, "Success", << >>)
    /\ UNCHANGED <<calls, status>>

\* The loop of EquipmentStatus: the next one's values.  StateStr() compares a
\* relay's state with ON and then, reading it again, with OFF.
StatusReads(c) ==
    /\ session[c] = "handling" /\ request[c].op = "status" /\ Len(root) < Len(Order)
    /\ LET e == Order[Len(root) + 1]
       IN  \/ /\ e \in Sensor
              /\ root' = Append(root, state_[e]) /\ UNCHANGED notOn
           \/ /\ e \in Relay /\ ~notOn
              /\ IF state_[e] = "ON"
                 THEN root' = Append(root, "ON") /\ UNCHANGED notOn
                 ELSE notOn' = TRUE /\ UNCHANGED root
           \/ /\ e \in Relay /\ notOn
              /\ root' = Append(root, IF state_[e] = "OFF" THEN "OFF" ELSE "Error")
              /\ notOn' = FALSE
    /\ UNCHANGED <<up, listening, state_, calls, conn, seen>>

\* Slip: the EquipmentStatus of the last request answers the next.
KeptStatus(c) ==
    /\ session[c] = "handling" /\ request[c].op = "status" /\ Len(root) = Len(Order)
    /\ Respond(c, "status", root)
    /\ UNCHANGED <<calls, root, notOn>>

\* GetHandler: JSON_handler's `result`, which the sessions share, is written and
\* returned here.
StatusSaid(c) ==
    /\ session[c] = "handling" /\ request[c].op = "status" /\ Len(root) = Len(Order)
    /\ Respond(c, "status", root)
    /\ root' = << >>
    /\ UNCHANGED <<calls, notOn>>

Handles(c) == Commanded(c) \/ StatusReads(c) \/ StatusSaid(c)

\* end_of_stream: do_close.
OnEnd(c) ==
    /\ Idle /\ session[c] = "reading" /\ request[c] = NoRequest /\ shut[c]
    /\ Gone(c)
    /\ UNCHANGED <<up, listening, state_, calls, status>>

\* The client has its answer; the session reads again or closes.
OnWrite(c) ==
    /\ Idle /\ session[c] = "writing"
    /\ IF res_[c].to.keep
       THEN /\ DoRead(c)
            /\ res_' = [res_ EXCEPT ![c] = NoResponse]
            /\ UNCHANGED <<link, request, shut, seen>>
       ELSE Gone(c)
    /\ UNCHANGED <<up, listening, state_, calls, status>>

\* fail(ec, ...): the connection broke.
OnError(c) ==
    /\ Idle /\ session[c] # "none"
    /\ Gone(c)
    /\ UNCHANGED <<up, listening, state_, calls, status>>

\* The limit passed while an operation was pending.
OnTimeout(c) == timer[c] /\ OnError(c)

Next ==
    \/ Start \/ Stop
    \/ \E b \in Buttons : Released(b)
    \/ \E plan \in Planned : Scheduled(plan)
    \/ \E t \in Thread : Switch(t)
    \/ \E s \in Sensor : Sample(s)
    \/ \E c \in Client :
        \/ Connect(c) \/ Send(c) \/ Shut(c)
        \/ OnAccept(c) \/ OnRead(c) \/ Handles(c)
        \/ OnEnd(c) \/ OnWrite(c) \/ OnError(c)

\* What the io_context has to do for a client, once it is ready.
Serves(c) == OnAccept(c) \/ OnRead(c) \/ Handles(c) \/ OnEnd(c) \/ OnTimeout(c)

\* A handler runs to its end, and time passes.  The io_context takes the ready
\* handlers in the order in which they became ready, so that none is passed over
\* for ever while others run.
Fairness == WF_vars(Switch(Io)) /\ \A c \in Client : SF_vars(Serves(c))

Spec == Init /\ [][Next]_vars /\ Fairness

-----------------------------------------------------------------------------
\* What a status says of one of the equipment is true, if it is one of its
\* states since the request.  "Error" is said of a relay that was both ON and
\* OFF since then.
IsTrue(said, states) == said \in states \/ (said = "Error" /\ OnOff \subseteq states)

\* An answer is true of moments between the sending of its request and the end
\* of its handling, whatever other clients, buttons and the schedule did: a
\* status tells, of every relay and sensor, a state that it had at such a
\* moment, and after "Success" the relay was in the state that was asked for at
\* one.  The moments of a status may differ from relay to relay.
AnswersTrue ==
    [][\A c \in Client : session[c] # "writing" /\ session'[c] = "writing" =>
           LET said == res_'[c].said  shown == res_'[c].shown  q == res_'[c].to IN
           /\ said = "status" =>
                  /\ Len(shown) = Len(Order)
                  /\ \A i \in 1 .. Len(Order) : IsTrue(shown[i], seen[c][Order[i]])
           /\ said = "Success" /\ q.name \in Relay =>
                  (IF q.op = "on" THEN "ON" ELSE "OFF") \in seen[c][q.name]]_vars

\* A session whose client is silent, or does not take its answer, does not
\* stay for ever.
SilentClientsGo ==
    \A c \in Client : session[c] # "none" ~>
        session[c] = "none" \/ (session[c] = "reading" /\ request[c] # NoRequest)

\* Every connection is accepted and every request on it read and handled: none
\* waits for ever, whatever the other clients, the buttons and the schedule do.
RequestsTaken ==
    \A c \in Client : request[c] # NoRequest ~> request[c] = NoRequest
=============================================================================
