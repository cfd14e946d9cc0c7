----------------------------- MODULE HttpProofs -----------------------------
(***************************************************************************)
(* The answers of the HTTP server are true, for any number of clients with *)
(* any requests, any equipment with any buttons, any schedule and any      *)
(* readings.                                                               *)
(***************************************************************************)
EXTENDS HttpServer, SequenceTheorems, TLAPS

States_ == OnOff \cup Reading
Asked(q) == IF q.op = "on" THEN "ON" ELSE "OFF"

\* A client that waits for its answer may be told of the present state.
Told(c) == \A e \in Equipment : Tells(request[c], e) => state_[e] \in seen[c][e]

\* What a status has read is true, and the relay that it has found not to be ON
\* was OFF.
ReadSoFar(c) ==
    /\ \A i \in 1 .. Len(root) : IsTrue(root[i], seen[c][Order[i]])
    /\ notOn => /\ Len(root) < Len(Order) /\ Order[Len(root) + 1] \in Relay
                /\ "OFF" \in seen[c][Order[Len(root) + 1]]

\* The last state that a command sets is the one that was asked for.
SetSoFar(c) ==
    /\ request[c].op \in {"on", "off"} /\ request[c].name \in Relay
    /\ calls[Io] # << >> =>
           calls[Io][Len(calls[Io])] = <<request[c].name, Asked(request[c])>>
    /\ calls[Io] = << >> => Asked(request[c]) \in seen[c][request[c].name]

Handled(c) ==
    session[c] = "handling" =>
        IF request[c].op = "status" THEN ReadSoFar(c) ELSE SetSoFar(c)

\* Between two statuses nothing has been read.
InStatus(c) == session[c] = "handling" /\ request[c].op = "status"
Fresh == (\E c \in Client : InStatus(c)) \/ (root = << >> /\ ~notOn)

HttpInv == HttpTypeOK /\ Fresh /\ \A c \in Client : Told(c) /\ Handled(c)

\* The server keeps to its types; its sessions, connections and answers keep to
\* each other, and one request at a time is handled.
THEOREM HttpTypeCorrect == Spec => []HttpTypeOK
\* What steps make of the parts of the state has the right type.
<1>types. ASSUME HttpTypeOK
          PROVE  /\ AllOff \in States /\ NoResponse \in Response /\ NoResponse.said = "nothing"
                 /\ NotSeen \in [Equipment -> SUBSET States_]
                 /\ \A r \in Relay, s \in OnOff : [state_ EXCEPT ![r] = s] \in States
                 /\ \A s \in Sensor, v \in Reading : [state_ EXCEPT ![s] = v] \in States
                 /\ \A now \in States :
                        Witnessed(now) \in [Client -> [Equipment -> SUBSET States_]]
  <2> USE <1>types
  <2> USE NamesAssumption, ReadingAssumption DEF NamesAssumption, ReadingAssumption
  <2>1. AllOff \in States
    BY DEF AllOff, States, Equipment, OnOff
  <2>2. NoResponse \in Response /\ NoResponse.said = "nothing"
    BY DEF NoResponse, Response, Said
  <2>3. NotSeen \in [Equipment -> SUBSET States_]
    BY DEF NotSeen
  <2>4. ASSUME NEW r \in Relay, NEW s \in OnOff PROVE [state_ EXCEPT ![r] = s] \in States
    BY DEF HttpTypeOK, States, Equipment
  <2>5. ASSUME NEW s \in Sensor, NEW v \in Reading PROVE [state_ EXCEPT ![s] = v] \in States
    BY DEF HttpTypeOK, States, Equipment
  <2>6. ASSUME NEW now \in States PROVE Witnessed(now) \in [Client -> [Equipment -> SUBSET States_]]
    <3>1. ASSUME NEW c \in Client, NEW e \in Equipment
          PROVE  (IF Tells(request[c], e) THEN seen[c][e] \cup {now[e]} ELSE seen[c][e]) \in SUBSET States_
      <4>1. now[e] \in States_
        BY DEF States, States_
      <4>2. seen[c][e] \in SUBSET States_
        BY DEF HttpTypeOK, States_
      <4> QED
        BY <4>1, <4>2
    <3> QED
      BY <3>1 DEF Witnessed
  <2> QED
    BY <2>1, <2>2, <2>3, <2>4, <2>5, <2>6
\* A relay call sets states of relays, and that of its own relay last.
<1>sets. ASSUME NEW r \in Relay, NEW s \in OnOff
         PROVE  /\ Switching(r, s) \in Seq(Write) /\ Switching(r, s) # << >>
                /\ Switching(r, s)[Len(Switching(r, s))] = <<r, s>>
  <2>1. /\ Len(Dependents) \in Nat /\ DOMAIN Dependents = 1 .. Len(Dependents)
        /\ \A i \in DOMAIN Dependents : <<Dependents[i], "OFF">> \in Write
    BY LenProperties, ElementOfSeq, RelaysAssumption DEF RelaysAssumption, Write, OnOff
  <2>2. [i \in DOMAIN Dependents |-> <<Dependents[i], "OFF">>] \in Seq(Write)
    BY <2>1, IsASeq
  <2>3. << <<Pump, "ON">> >> \in Seq(Write) /\ << >> \in Seq(Write) /\ <<r, s>> \in Write
    BY RelaysAssumption DEF RelaysAssumption, Write, OnOff
  <2>4. Forced(r, s) \in Seq(Write)
    BY <2>2, <2>3 DEF Forced
  <2> QED
    BY <2>3, <2>4, AppendProperties DEF Switching
<1>step. HttpTypeOK /\ [Next]_vars => HttpTypeOK'
  <2> SUFFICES ASSUME HttpTypeOK, [Next]_vars PROVE HttpTypeOK'
    OBVIOUS
  <2> USE <1>types
  <2> USE DEF HttpTypeOK, status, conn, States_
  <2>1. CASE Start
    BY <2>1 DEF Start
  <2>2. CASE Ended
    <3>1. Len(Order) \in Nat
      BY LenProperties, NamesAssumption DEF NamesAssumption
    <3>2. root' \in Seq(Value) /\ Len(root') <= Len(Order)
      BY <2>2, <3>1 DEF Ended
    <3>3. calls' \in [Thread -> Seq(Write)]
      BY <2>2 DEF Ended
    <3> QED
      BY <2>2, <3>2, <3>3 DEF Ended
  <2>3. ASSUME UNCHANGED <<up, listening, state_, status, conn, seen>>,
               calls' \in [Thread -> Seq(Write)]
        PROVE  HttpTypeOK'
    BY <2>3
  <2>4. ASSUME NEW t \in Thread, NEW r \in Relay, NEW s \in OnOff,
               calls' = [calls EXCEPT ![t] = Switching(r, s)]
        PROVE  calls' \in [Thread -> Seq(Write)]
    BY <2>4, <1>sets
  <2>5. ASSUME NEW b \in Buttons, Released(b) PROVE HttpTypeOK'
    <3>1. b \in Relay /\ b \in Thread
      BY RelaysAssumption DEF RelaysAssumption, Thread
    <3>2. PICK s \in OnOff : calls' = [calls EXCEPT ![b] = Switching(b, s)]
      BY <2>5 DEF Released, OnOff
    <3>3. calls' \in [Thread -> Seq(Write)]
      BY <3>1, <3>2, <2>4
    <3> QED
      BY <2>5, <3>3, <2>3 DEF Released
  <2>6. ASSUME NEW plan \in Planned, Scheduled(plan) PROVE HttpTypeOK'
    <3>1. plan[1] \in Relay /\ plan[2] \in OnOff /\ Io \in Thread
      BY RelaysAssumption DEF RelaysAssumption, Thread, OnOff
    <3> QED
      BY <2>6, <3>1, <2>3, <2>4 DEF Scheduled
  <2>7. ASSUME NEW t \in Thread, Switch(t) PROVE HttpTypeOK'
    <3>1. calls[t] \in Seq(Write) /\ calls[t] # << >>
      BY <2>7 DEF Switch
    <3>2. Head(calls[t]) \in Write /\ Tail(calls[t]) \in Seq(Write)
      BY <3>1, HeadTailProperties
    <3>3. Head(calls[t])[1] \in Relay /\ Head(calls[t])[2] \in OnOff
      BY <3>2 DEF Write
    <3>4. state_' \in States
      BY <2>7, <3>3 DEF Switch
    <3>5. seen' \in [Client -> [Equipment -> SUBSET States_]]
      BY <2>7, <3>4 DEF Switch
    <3>6. calls' \in [Thread -> Seq(Write)]
      BY <2>7, <3>2 DEF Switch
    <3> QED
      BY <2>7, <3>4, <3>5, <3>6 DEF Switch
  <2>8. ASSUME NEW s \in Sensor, Sample(s) PROVE HttpTypeOK'
    <3>1. state_' \in States
      <4>1. PICK v \in Reading : state_' = [state_ EXCEPT ![s] = v]
        BY <2>8 DEF Sample
      <4> QED
        BY <4>1
    <3>2. seen' \in [Client -> [Equipment -> SUBSET States_]]
      BY <2>8, <3>1 DEF Sample
    <3> QED
      BY <2>8, <3>1, <3>2 DEF Sample
  <2>9. ASSUME NEW c \in Client, Gone(c), UNCHANGED <<up, listening, state_, calls, status>>
        PROVE  HttpTypeOK'
    <3>1. session'[c] = "none" /\ link'[c] = "none" /\ res_'[c] = NoResponse
      BY <2>9 DEF Gone
    <3>2. \A d \in Client \ {c} : session'[d] = session[d] /\ link'[d] = link[d] /\ res_'[d] = res_[d]
      BY <2>9 DEF Gone
    <3>3. \A d \in Client : /\ session'[d] # "none" <=> link'[d] = "open"
                            /\ session'[d] = "writing" <=> res_'[d] # NoResponse
                            /\ session'[d] = "handling" => session[d] = "handling"
      BY <3>1, <3>2
    <3>4. /\ seen' \in [Client -> [Equipment -> SUBSET States_]] /\ res_' \in [Client -> Response]
          /\ link' \in [Client -> {"none", "backlog", "open"}]
          /\ session' \in [Client -> {"none", "reading", "handling", "writing"}]
          /\ timer' \in [Client -> BOOLEAN] /\ shut' \in [Client -> BOOLEAN]
          /\ request' \in [Client -> Request \cup {NoRequest}]
      BY <2>9 DEF Gone
    <3> QED
      BY <2>9, <3>3, <3>4
  <2>10. ASSUME NEW c \in Client, Connect(c) PROVE HttpTypeOK'
    BY <2>10 DEF Connect
  <2>11. ASSUME NEW c \in Client, Send(c) PROVE HttpTypeOK'
    <3>1. PICK q \in Request :
            /\ request' = [request EXCEPT ![c] = q]
            /\ seen' = [seen EXCEPT ![c] =
                            [e \in Equipment |-> IF Tells(q, e) THEN {state_[e]} ELSE {}]]
      BY <2>11, RequestsAssumption DEF Send, RequestsAssumption
    <3>2. [e \in Equipment |-> IF Tells(q, e) THEN {state_[e]} ELSE {}] \in [Equipment -> SUBSET States_]
      BY DEF States
    <3>3. request' \in [Client -> Request \cup {NoRequest}]
          /\ seen' \in [Client -> [Equipment -> SUBSET States_]]
      BY <3>1, <3>2
    <3> QED
      BY <2>11, <3>3 DEF Send
  <2>12. ASSUME NEW c \in Client, Shut(c) PROVE HttpTypeOK'
    BY <2>12 DEF Shut
  <2>13. ASSUME NEW c \in Client, OnAccept(c) PROVE HttpTypeOK'
    BY <2>13 DEF OnAccept, DoRead
  <2>14. ASSUME NEW c \in Client, session[c] \in {"reading", "handling"},
                NEW said \in Said \ {"nothing"}, NEW shown \in Seq(Value), Respond(c, said, shown),
                calls' = calls, root' \in {root, << >>}, notOn' = notOn
         PROVE  HttpTypeOK'
    <3> DEFINE answer == [said |-> said, shown |-> shown, to |-> request[c]]
    <3>1. answer \in Response /\ answer # NoResponse
      BY <2>14 DEF Response, NoResponse
    <3>2. res_' = [res_ EXCEPT ![c] = answer]
      BY <2>14 DEF Respond
    <3> HIDE DEF answer
    <3>3. res_' \in [Client -> Response]
      BY <3>1, <3>2
    <3>4. \A d \in Client : /\ session'[d] # "none" <=> link'[d] = "open"
                            /\ session'[d] = "writing" <=> res_'[d] # NoResponse
                            /\ session'[d] = "handling" => session[d] = "handling"
      BY <2>14, <3>1, <3>2 DEF Respond
    <3>5. root' \in Seq(Value) /\ Len(root') <= Len(Order)
      <4>1. Len(Order) \in Nat /\ Len(<< >>) = 0 /\ << >> \in Seq(Value)
        BY LenProperties, EmptySeq, NamesAssumption DEF NamesAssumption
      <4>2. CASE root' = root
        BY <4>2
      <4>3. CASE root' = << >>
        BY <4>1, <4>3
      <4> QED
        BY <2>14, <4>2, <4>3
    <3>6. seen' \in [Client -> [Equipment -> SUBSET States_]]
      BY <2>14 DEF Respond
    <3> QED
      BY <2>14, <3>3, <3>4, <3>5, <3>6 DEF Respond
  <2>15. ASSUME NEW c \in Client, Idle, session[c] = "reading", Handle(c),
                calls' \in [Thread -> Seq(Write)]
         PROVE  HttpTypeOK'
    <3>1. \A d \in Client : /\ session'[d] # "none" <=> link'[d] = "open"
                            /\ session'[d] = "writing" <=> res_'[d] # NoResponse
                            /\ session'[d] = "handling" => d = c
      BY <2>15 DEF Handle, Idle
    <3> QED
      BY <2>15, <3>1 DEF Handle
  <2>16. ASSUME NEW c \in Client, OnRead(c) PROVE HttpTypeOK'
    <3>1. /\ Idle /\ session[c] = "reading" /\ << >> \in Seq(Value)
          /\ {"bad_request", "empty", "Success", "Failure", "format_error"} \subseteq Said \ {"nothing"}
      BY <2>16 DEF OnRead, Said
    <3>2. CASE BadRequest(c)
      BY <3>1, <3>2, <2>14 DEF BadRequest
    <3>3. CASE GetOther(c)
      BY <3>1, <3>3, <2>14 DEF GetOther
    <3>4. CASE GetStatus(c)
      BY <3>1, <3>4, <2>15 DEF GetStatus
    <3>5. CASE PostCommand(c)
      <4>1. PICK s \in OnOff : calls' = [calls EXCEPT ![Io] = Switching(request[c].name, s)]
        BY <3>5 DEF PostCommand, OnOff
      <4>2. Io \in Thread /\ request[c].name \in Relay
        BY <3>5 DEF PostCommand, Thread
      <4>3. calls' \in [Thread -> Seq(Write)]
        BY <4>1, <4>2, <2>4
      <4> QED
        BY <3>1, <3>5, <4>3, <2>15 DEF PostCommand
    <3>6. CASE PostNoRelay(c)
      <4>1. PICK said \in {"Success", "Failure"} : Respond(c, said, << >>) /\ UNCHANGED <<calls, status>>
        BY <3>6 DEF PostNoRelay
      <4>2. said \in Said \ {"nothing"}
        BY <3>1
      <4> QED
        BY <3>1, <4>1, <4>2, <2>14
    <3>7. CASE PostBadBody(c)
      BY <3>1, <3>7, <2>14 DEF PostBadBody
    <3>8. CASE PostWithoutSet(c)
      BY <3>8, <2>2 DEF PostWithoutSet
    <3> QED
      BY <2>16, <3>2, <3>3, <3>4, <3>5, <3>6, <3>7, <3>8 DEF OnRead
  <2>17. ASSUME NEW c \in Client, Handles(c) PROVE HttpTypeOK'
    <3>1. << >> \in Seq(Value) /\ "Success" \in Said \ {"nothing"} /\ "status" \in Said \ {"nothing"}
      BY DEF Said
    <3>2. CASE Commanded(c)
      BY <3>1, <3>2, <2>14 DEF Commanded
    <3>3. CASE StatusSaid(c)
      BY <3>1, <3>3, <2>14 DEF StatusSaid
    <3>4. CASE StatusReads(c)
      <4>1. /\ Len(root) \in Nat /\ Len(Order) \in Nat /\ Len(root) < Len(Order)
            /\ Len(root) + 1 \in 1 .. Len(Order)
        BY <3>4, LenProperties, NamesAssumption DEF StatusReads, NamesAssumption
      <4>2. Order[Len(root) + 1] \in Equipment
        BY <4>1, ElementOfSeq, NamesAssumption DEF NamesAssumption
      <4>3. state_[Order[Len(root) + 1]] \in Value
        BY <4>2 DEF States, Value
      <4>4. notOn' \in BOOLEAN /\ (root' = root \/ \E v \in Value : root' = Append(root, v))
        BY <3>4, <4>3 DEF StatusReads, Value, OnOff
      <4>5. root' \in Seq(Value) /\ Len(root') <= Len(Order)
        <5>1. CASE root' = root
          BY <5>1
        <5>2. ASSUME NEW v \in Value, root' = Append(root, v)
              PROVE  root' \in Seq(Value) /\ Len(root') <= Len(Order)
          <6>1. root' \in Seq(Value) /\ Len(root') = Len(root) + 1
            BY <5>2, AppendProperties
          <6> QED
            BY <4>1, <6>1
        <5> QED
          BY <4>4, <5>1, <5>2
      <4> QED
        BY <3>4, <4>4, <4>5 DEF StatusReads
    <3> QED
      BY <2>17, <3>2, <3>3, <3>4 DEF Handles
  <2>18. ASSUME NEW c \in Client, OnEnd(c) \/ OnError(c) PROVE HttpTypeOK'
    BY <2>18, <2>9 DEF OnEnd, OnError
  <2>19. ASSUME NEW c \in Client, OnWrite(c) PROVE HttpTypeOK'
    <3>1. CASE res_[c].to.keep
      <4>1. /\ session' = [session EXCEPT ![c] = "reading"] /\ res_' = [res_ EXCEPT ![c] = NoResponse]
            /\ session[c] = "writing" /\ link' = link
        BY <2>19, <3>1 DEF OnWrite, DoRead
      <4>2. \A d \in Client : /\ session'[d] # "none" <=> link'[d] = "open"
                              /\ session'[d] = "writing" <=> res_'[d] # NoResponse
                              /\ session'[d] = "handling" => session[d] = "handling"
        BY <4>1
      <4>3. /\ res_' \in [Client -> Response]
            /\ session' \in [Client -> {"none", "reading", "handling", "writing"}]
        BY <4>1
      <4> QED
        BY <2>19, <3>1, <4>2, <4>3 DEF OnWrite, DoRead
    <3>2. CASE ~res_[c].to.keep
      BY <2>19, <3>2, <2>9 DEF OnWrite
    <3> QED
      BY <3>1, <3>2
  <2>20. CASE UNCHANGED vars
    BY <2>20 DEF vars
  <2> HIDE DEF HttpTypeOK
  <2> QED
    BY <2>1, <2>2, <2>5, <2>6, <2>7, <2>8, <2>10, <2>11, <2>12, <2>13, <2>16, <2>17, <2>18, <2>19,
       <2>20 DEF Next, Stop
<1>1. Init => HttpTypeOK
  <2>1. AllOff \in States
    BY NamesAssumption, ReadingAssumption
       DEF NamesAssumption, ReadingAssumption, AllOff, States, Equipment, OnOff
  <2>2. NoResponse \in Response
    BY DEF NoResponse, Response, Said
  <2>3. NotSeen \in [Equipment -> SUBSET States_]
    BY DEF NotSeen
  <2>4. << >> \in Seq(Value) /\ Len(<< >>) <= Len(Order)
    BY LenProperties, NamesAssumption DEF NamesAssumption
  <2>5. << >> \in Seq(Write)
    OBVIOUS
  <2> HIDE DEF AllOff
  <2> SUFFICES ASSUME Init PROVE HttpTypeOK
    OBVIOUS
  <2>6. /\ state_ \in States /\ calls \in [Thread -> Seq(Write)]
        /\ root \in Seq(Value) /\ Len(root) <= Len(Order)
    BY <2>1, <2>4, <2>5 DEF Init
  <2>7. res_ \in [Client -> Response] /\ seen \in [Client -> [Equipment -> SUBSET States_]]
    BY <2>2, <2>3 DEF Init, NoConnections
  <2> QED
    BY <2>6, <2>7 DEF Init, NoConnections, HttpTypeOK, States_
<1> QED
  BY <1>1, <1>step, PTL DEF Spec

\* An answer is true of moments between the sending of its request and the end
\* of its handling, whatever other clients, buttons, the schedule and the sensor
\* did meanwhile.
THEOREM AnswersAreTrue == Spec => AnswersTrue
\* A relay call sets that of its own relay last.
<1>sets. ASSUME NEW r \in Relay, NEW s \in OnOff
         PROVE  /\ Switching(r, s) \in Seq(Write) /\ Switching(r, s) # << >>
                /\ Switching(r, s)[Len(Switching(r, s))] = <<r, s>>
  <2>1. /\ Len(Dependents) \in Nat /\ DOMAIN Dependents = 1 .. Len(Dependents)
        /\ \A i \in DOMAIN Dependents : <<Dependents[i], "OFF">> \in Write
    BY LenProperties, ElementOfSeq, RelaysAssumption DEF RelaysAssumption, Write, OnOff
  <2>2. [i \in DOMAIN Dependents |-> <<Dependents[i], "OFF">>] \in Seq(Write)
    BY <2>1, IsASeq
  <2>3. << <<Pump, "ON">> >> \in Seq(Write) /\ << >> \in Seq(Write) /\ <<r, s>> \in Write
    BY RelaysAssumption DEF RelaysAssumption, Write, OnOff
  <2>4. Forced(r, s) \in Seq(Write)
    BY <2>2, <2>3 DEF Forced
  <2> QED
    BY <2>3, <2>4, AppendProperties DEF Switching
<1> DEFINE Good(c) == Told(c) /\ Handled(c)
<1>order. /\ Len(Order) \in Nat /\ \A i \in 1 .. Len(Order) : Order[i] \in Equipment
  BY LenProperties, ElementOfSeq, NamesAssumption DEF NamesAssumption
<1>no. \A e \in Equipment : ~Tells(NoRequest, e)
  BY NamesAssumption DEF Tells, NoRequest, NamesAssumption, Equipment
<1>io. Io \in Thread /\ Io \notin Buttons
  BY RelaysAssumption DEF Thread, RelaysAssumption
\* A client keeps what it was told and what was done for it.
<1>same. ASSUME HttpInv, NEW c \in Client, UNCHANGED <<state_, request[c], seen[c]>>,
                session'[c] = "handling" => session[c] = "handling",
                InStatus(c) => UNCHANGED status,
                session[c] = "handling" => UNCHANGED calls[Io]
         PROVE  Good(c)'
  <2>1. Told(c)'
    BY <1>same DEF HttpInv, Told
  <2>2. Handled(c)'
    BY <1>same DEF HttpInv, Handled, InStatus, ReadSoFar, SetSoFar, status
  <2> QED
    BY <2>1, <2>2
<1>none. ASSUME NEW c \in Client, request'[c] = NoRequest, session'[c] # "handling"
         PROVE  Good(c)'
  BY <1>none, <1>no DEF Told, Handled
\* A state that is new is told to all.
<1>told. ASSUME HttpInv, NEW c \in Client, seen' = Witnessed(state_'),
                UNCHANGED <<request, session, status>>
         PROVE  /\ Told(c)' /\ \A e \in Equipment : seen[c][e] \subseteq seen'[c][e]
                /\ ReadSoFar(c) => ReadSoFar(c)'
  <2>1. \A e \in Equipment :
            seen'[c][e] = IF Tells(request[c], e) THEN seen[c][e] \cup {state_'[e]} ELSE seen[c][e]
    BY <1>told DEF Witnessed
  <2>2. Told(c)'
    BY <1>told, <2>1 DEF Told
  <2>3. \A e \in Equipment : seen[c][e] \subseteq seen'[c][e]
    BY <2>1
  <2>4. ASSUME ReadSoFar(c) PROVE ReadSoFar(c)'
    <3>1. root' = root /\ notOn' = notOn /\ Len(root) \in Nat /\ Len(root) <= Len(Order)
      BY <1>told, LenProperties DEF status, HttpInv, HttpTypeOK
    <3>2. \A i \in 1 .. Len(root) : IsTrue(root[i], seen'[c][Order[i]])
      <4> TAKE i \in 1 .. Len(root)
      <4>1. Order[i] \in Equipment
        BY <1>order, <3>1
      <4>2. IsTrue(root[i], seen[c][Order[i]]) /\ seen[c][Order[i]] \subseteq seen'[c][Order[i]]
        BY <2>3, <2>4, <4>1 DEF ReadSoFar
      <4> QED
        BY <4>2 DEF IsTrue
    <3>3. notOn => /\ Len(root) < Len(Order) /\ Order[Len(root) + 1] \in Relay
                   /\ "OFF" \in seen'[c][Order[Len(root) + 1]]
      BY <2>3, <2>4 DEF ReadSoFar, Equipment
    <3> QED
      BY <3>1, <3>2, <3>3 DEF ReadSoFar
  <2> QED
    BY <2>2, <2>3, <2>4
\* No other client is in its status when one is, and none between handlers.
<1>one. ASSUME HttpInv, NEW c \in Client, session[c] = "handling"
        PROVE  \A d \in Client \ {c} : session[d] # "handling"
  BY <1>one DEF HttpInv, HttpTypeOK
<1>idle. ASSUME HttpInv, Idle
         PROVE  /\ root = << >> /\ ~notOn /\ calls[Io] = << >>
                /\ \A c \in Client : session[c] # "handling" /\ ~InStatus(c)
  BY <1>idle DEF HttpInv, Fresh, InStatus, Idle
<1>step. HttpInv /\ [Next]_vars => Fresh' /\ \A c \in Client : Good(c)'
  <2> SUFFICES ASSUME HttpInv, [Next]_vars PROVE Fresh' /\ \A c \in Client : Good(c)'
    OBVIOUS
  <2>0. HttpTypeOK /\ Fresh /\ \A c \in Client : Told(c) /\ Handled(c)
    BY DEF HttpInv
  <2> DEFINE All == Fresh' /\ \A c \in Client : Good(c)'
  <2> HIDE DEF Good
  \* Statuses go on as long as requests and sessions stay as they are.
  <2>fresh. ASSUME UNCHANGED <<session, status>>,
                   \A c \in Client : session[c] = "handling" => UNCHANGED request[c]
            PROVE  Fresh'
    BY <2>fresh, <2>0 DEF Fresh, InStatus, status
  <2>rest. ASSUME Idle, UNCHANGED status PROVE Fresh'
    BY <2>rest, <1>idle DEF Fresh, status
  <2>1. CASE Start
    <3>1. UNCHANGED <<state_, calls, status, request, session, seen>>
      BY <2>1 DEF Start, conn
    <3>2. \A c \in Client : Good(c)'
      BY <3>1, <1>same
    <3> QED
      BY <3>1, <3>2, <2>fresh
  <2>2. CASE Ended
    <3>1. \A c \in Client : request'[c] = NoRequest /\ session'[c] # "handling"
      BY <2>2 DEF Ended
    <3>2. Fresh'
      BY <2>2 DEF Ended, Fresh
    <3> QED
      BY <3>1, <3>2, <1>none
  <2>3. ASSUME NEW b \in Buttons, Released(b) PROVE All
    <3>1. UNCHANGED <<state_, status, request, session, seen, calls[Io]>>
      BY <2>3, <1>io, <2>0 DEF Released, conn, HttpTypeOK
    <3>2. \A c \in Client : Good(c)'
      BY <3>1, <1>same
    <3> QED
      BY <3>1, <3>2, <2>fresh
  <2>4. ASSUME NEW plan \in Planned, Scheduled(plan) PROVE All
    <3>1. Idle /\ UNCHANGED <<state_, status, request, session, seen>>
      BY <2>4 DEF Scheduled, conn
    <3>2. \A c \in Client : Good(c)'
      BY <3>1, <1>same, <1>idle
    <3> QED
      BY <3>1, <3>2, <2>rest
  <2>5. ASSUME NEW t \in Thread, Switch(t) PROVE All
    <3>1. seen' = Witnessed(state_') /\ UNCHANGED <<request, session, status>>
      BY <2>5 DEF Switch, conn
    <3>2. ASSUME NEW c \in Client, session[c] = "handling", request[c].op # "status"
          PROVE  SetSoFar(c)'
      <4>1. SetSoFar(c) /\ request'[c] = request[c]
        BY <3>1, <3>2, <2>0 DEF Handled
      <4> DEFINE name == request[c].name
                 s == calls[Io]
      <4>2. name \in Relay /\ name \in Equipment /\ Tells(request[c], name)
        BY <4>1 DEF SetSoFar, Tells, Equipment
      <4>3. seen[c][name] \subseteq seen'[c][name] /\ state_'[name] \in seen'[c][name]
        <5>1. Told(c)' /\ seen[c][name] \subseteq seen'[c][name]
          BY <3>1, <4>2, <1>told
        <5> QED
          BY <4>1, <4>2, <5>1 DEF Told
      <4>4. CASE t # Io
        <5>1. calls'[Io] = calls[Io]
          BY <2>5, <4>4, <1>io, <2>0 DEF Switch, HttpTypeOK
        <5> QED
          BY <4>1, <4>3, <5>1 DEF SetSoFar
      <4>5. CASE t = Io
        <5>1. s \in Seq(Write) /\ s # << >> /\ calls'[Io] = Tail(s)
          BY <2>5, <4>5, <1>io, <2>0 DEF Switch, HttpTypeOK
        <5>2. state_' = [state_ EXCEPT ![Head(s)[1]] = Head(s)[2]] /\ state_ \in States
          BY <2>5, <4>5, <2>0 DEF Switch, HttpTypeOK
        <5>3. s[Len(s)] = <<name, Asked(request[c])>>
          BY <4>1, <5>1 DEF SetSoFar
        <5>4. /\ Len(s) \in Nat /\ Len(s) > 0 /\ Head(s) = s[1]
              /\ Tail(s) \in Seq(Write) /\ Len(Tail(s)) = Len(s) - 1
              /\ \A i \in 1 .. Len(s) - 1 : Tail(s)[i] = s[i + 1]
          BY <5>1, LenProperties, HeadTailProperties, EmptySeq
        <5> HIDE DEF s, name
        <5>5. CASE Len(s) = 1
          <6>0. Tail(s) \in Seq(Write) /\ Len(Tail(s)) = 0
            BY <5>4, <5>5
          <6>1. Tail(s) = << >>
            BY <6>0, EmptySeq, Zenon
          <6>2. Head(s) = <<name, Asked(request[c])>>
            BY <5>3, <5>4, <5>5
          <6>3. state_'[name] = Asked(request[c])
            BY <5>2, <6>2, <4>2 DEF States
          <6> QED
            BY <4>1, <4>3, <5>1, <6>1, <6>3 DEF SetSoFar, name
        <5>6. CASE Len(s) # 1
          <6>1. Len(s) - 1 \in 1 .. Len(s) - 1 /\ (Len(s) - 1) + 1 = Len(s)
            BY <5>4, <5>6
          <6>2. Tail(s)[Len(Tail(s))] = <<name, Asked(request[c])>>
            BY <5>3, <5>4, <6>1
          <6>3. Len(Tail(s)) # 0
            BY <5>4, <6>1
          <6>4. Tail(s) # << >>
            BY <5>4, <6>3, EmptySeq
          <6> QED
            BY <4>1, <5>1, <6>2, <6>4 DEF SetSoFar, name
        <5> QED
          BY <5>5, <5>6
      <4> QED
        BY <4>4, <4>5
    <3>3. ASSUME NEW c \in Client PROVE Good(c)'
      <4>1. Told(c)' /\ (ReadSoFar(c) => ReadSoFar(c)')
        BY <3>1, <1>told
      <4>2. Handled(c)'
        BY <2>0, <3>1, <3>2, <4>1 DEF Handled
      <4> QED
        BY <4>1, <4>2 DEF Good
    <3> QED
      BY <3>1, <3>3, <2>fresh
  <2>6. ASSUME NEW s \in Sensor, Sample(s) PROVE All
    <3>1. Idle /\ seen' = Witnessed(state_') /\ UNCHANGED <<request, session, status>>
      BY <2>6 DEF Sample, conn
    <3>2. \A c \in Client : Told(c)' /\ Handled(c)'
      BY <3>1, <1>told, <1>idle DEF Handled
    <3> QED
      BY <3>1, <3>2, <2>rest DEF Good
  <2>7. ASSUME NEW d \in Client, Idle, Gone(d), UNCHANGED <<state_, calls, status>> PROVE All
    <3>1. request'[d] = NoRequest /\ session'[d] # "handling"
      BY <2>7, <2>0 DEF Gone, HttpTypeOK
    <3>2. \A c \in Client \ {d} : UNCHANGED <<request[c], session[c], seen[c]>>
      BY <2>7, <2>0 DEF Gone, HttpTypeOK
    <3>3. \A c \in Client : Good(c)'
      BY <2>7, <3>1, <3>2, <1>same, <1>none
    <3> QED
      BY <2>7, <3>3, <2>rest
  <2>8. ASSUME NEW d \in Client, Connect(d) \/ Shut(d) PROVE All
    <3>1. UNCHANGED <<state_, calls, status, request, session, seen>>
      BY <2>8 DEF Connect, Shut
    <3>2. \A c \in Client : Good(c)'
      BY <3>1, <1>same
    <3> QED
      BY <3>1, <3>2, <2>fresh
  <2>9. ASSUME NEW d \in Client, Send(d) PROVE All
    <3>1. UNCHANGED <<state_, calls, status, session>>
      BY <2>9 DEF Send
    <3>2. session[d] # "handling"
      <4>1. request[d].op = "none"
        BY <2>9 DEF Send, NoRequest
      <4> QED
        BY <4>1, <2>0 DEF Handled, SetSoFar
    <3>3. \A c \in Client \ {d} : UNCHANGED <<request[c], seen[c]>>
      BY <2>9, <2>0 DEF Send, HttpTypeOK
    <3>4. Told(d)' /\ Handled(d)'
      <4>1. PICK q : request'[d] = q
                     /\ seen'[d] = [e \in Equipment |-> IF Tells(q, e) THEN {state_[e]} ELSE {}]
        BY <2>9, <2>0 DEF Send, HttpTypeOK
      <4>2. Told(d)'
        BY <3>1, <4>1 DEF Told
      <4> QED
        BY <3>1, <3>2, <4>2 DEF Handled
    <3>5. \A c \in Client \ {d} : Good(c)'
      BY <3>1, <3>3, <1>same
    <3>6. Fresh'
      BY <3>1, <3>2, <3>3, <2>fresh
    <3> QED
      BY <3>4, <3>5, <3>6 DEF Good
  <2>10. ASSUME NEW d \in Client, OnAccept(d) PROVE All
    <3>1. /\ Idle /\ UNCHANGED <<state_, calls, status, request, seen>>
          /\ \A c \in Client : session'[c] = "handling" => session[c] = "handling"
      BY <2>10, <2>0 DEF OnAccept, DoRead, HttpTypeOK
    <3>2. \A c \in Client : Good(c)'
      BY <3>1, <1>same
    <3> QED
      BY <3>1, <3>2, <2>rest
  \* An answer ends what was done for its client.
  <2>11. ASSUME NEW d \in Client, NEW said, NEW shown, Respond(d, said, shown),
                calls' = calls, \A c \in Client \ {d} : session[c] # "handling"
         PROVE  \A c \in Client : Good(c)'
    <3>1. request'[d] = NoRequest /\ session'[d] # "handling" /\ state_' = state_
      BY <2>11, <2>0 DEF Respond, HttpTypeOK
    <3>2. \A c \in Client \ {d} : UNCHANGED <<request[c], session[c], seen[c]>>
      BY <2>11, <2>0 DEF Respond, HttpTypeOK
    <3>3. \A c \in Client \ {d} : Good(c)'
      BY <2>11, <3>1, <3>2, <1>same DEF InStatus
    <3> QED
      BY <3>1, <3>3, <1>none
  <2>12. ASSUME NEW d \in Client, OnRead(d) PROVE All
    <3>1. /\ Idle /\ root = << >> /\ ~notOn
          /\ \A c \in Client : session[c] # "handling"
      BY <2>12, <1>idle DEF OnRead
    <3>2. ASSUME NEW said, NEW shown, Respond(d, said, shown), UNCHANGED <<calls, status>> PROVE All
      BY <3>1, <3>2, <2>11, <2>rest
    <3>3. CASE BadRequest(d)
      BY <3>3, <3>2 DEF BadRequest
    <3>4. CASE GetOther(d)
      BY <3>4, <3>2 DEF GetOther
    <3>5. CASE PostNoRelay(d)
      BY <3>5, <3>2 DEF PostNoRelay
    <3>6. CASE PostBadBody(d)
      BY <3>6, <3>2 DEF PostBadBody
    <3>7. CASE PostWithoutSet(d)
      BY <3>7, <2>2 DEF PostWithoutSet
    <3>8. ASSUME Handle(d) PROVE \A c \in Client \ {d} : Good(c)'
      <4>1. /\ UNCHANGED <<state_, request, seen>>
            /\ \A c \in Client \ {d} : session'[c] = session[c]
        BY <3>8, <2>0 DEF Handle, HttpTypeOK
      <4> QED
        BY <3>1, <4>1, <1>same DEF InStatus
    <3>9. ASSUME Handle(d) PROVE Told(d)'
      BY <3>9, <2>0 DEF Handle, Told
    <3>10. CASE GetStatus(d)
      <4>1. Handle(d) /\ request[d].op = "status" /\ calls' = calls
        BY <3>10 DEF GetStatus
      <4>2. InStatus(d)' /\ root' = << >> /\ ~notOn'
        BY <4>1, <3>1, <2>0 DEF Handle, InStatus, HttpTypeOK, status
      <4>3. ReadSoFar(d)'
        <5>1. Len(<< >>) = 0 /\ 1 .. 0 = {}
          OBVIOUS
        <5> QED
          BY <4>2, <5>1 DEF ReadSoFar
      <4>4. Good(d)'
        BY <3>9, <4>1, <4>2, <4>3 DEF Good, Handled, InStatus
      <4>5. Fresh'
        BY <4>2 DEF Fresh
      <4> QED
        BY <3>8, <4>1, <4>4, <4>5
    <3>11. CASE PostCommand(d)
      <4>1. /\ Handle(d) /\ request[d].op \in {"on", "off"} /\ request[d].name \in Relay
            /\ calls' = [calls EXCEPT ![Io] = Switching(request[d].name, Asked(request[d]))]
        BY <3>11 DEF PostCommand, Asked
      <4>2. Asked(request[d]) \in OnOff
        BY DEF Asked, OnOff
      <4>3. calls'[Io] = Switching(request[d].name, Asked(request[d])) /\ request' = request
        BY <4>1, <1>io, <2>0 DEF Handle, HttpTypeOK
      <4>4. SetSoFar(d)'
        BY <4>1, <4>2, <4>3, <1>sets DEF SetSoFar
      <4>5. Good(d)'
        BY <3>9, <4>1, <4>3, <4>4 DEF Good, Handled
      <4>6. Fresh'
        BY <3>1, <4>1 DEF Fresh, Handle, status
      <4> QED
        BY <3>8, <4>1, <4>5, <4>6
    <3> QED
      BY <2>12, <3>3, <3>4, <3>5, <3>6, <3>7, <3>10, <3>11 DEF OnRead
  <2>13. ASSUME NEW d \in Client, Handles(d) PROVE All
    <3>1. session[d] = "handling" /\ \A c \in Client \ {d} : session[c] # "handling"
      BY <2>13, <1>one DEF Handles, Commanded, StatusReads, StatusSaid
    <3>2. CASE Commanded(d)
      <4>1. Respond(d, "Success", << >>) /\ UNCHANGED <<calls, status>> /\ request[d].op # "status"
        BY <3>2 DEF Commanded
      <4>2. root = << >> /\ ~notOn
        BY <3>1, <4>1, <2>0 DEF Fresh, InStatus
      <4>3. Fresh'
        BY <4>1, <4>2 DEF Fresh, status
      <4> QED
        BY <3>1, <4>1, <4>3, <2>11
    <3>3. CASE StatusSaid(d)
      <4>1. /\ Respond(d, "status", root) /\ UNCHANGED <<calls, notOn>> /\ root' = << >>
            /\ request[d].op = "status" /\ Len(root) = Len(Order)
        BY <3>3 DEF StatusSaid
      <4>2. ~notOn
        BY <3>1, <4>1, <2>0, <1>order DEF Handled, ReadSoFar
      <4>3. Fresh'
        BY <4>1, <4>2 DEF Fresh
      <4> QED
        BY <3>1, <4>1, <4>3, <2>11
    <3>4. CASE StatusReads(d)
      <4> DEFINE e == Order[Len(root) + 1]
                 now == seen[d][e]
      <4>1. /\ UNCHANGED <<state_, calls, request, session, seen>>
            /\ request[d].op = "status" /\ Len(root) < Len(Order)
        BY <3>4 DEF StatusReads, conn
      <4>2. Len(root) \in Nat /\ Len(root) + 1 \in 1 .. Len(Order) /\ e \in Equipment
        BY <4>1, <1>order, <2>0, LenProperties DEF HttpTypeOK
      <4>3. ReadSoFar(d) /\ state_[e] \in now
        BY <3>1, <4>1, <4>2, <2>0 DEF Handled, Told, Tells
      <4>4. e \in Relay => state_[e] \in OnOff
        BY <4>2, <2>0 DEF HttpTypeOK, States
      <4>5. ASSUME NEW v, IsTrue(v, now), root' = Append(root, v), ~notOn' PROVE ReadSoFar(d)'
        <5>1. /\ Len(root') = Len(root) + 1 /\ root'[Len(root) + 1] = v
              /\ \A i \in 1 .. Len(root) : root'[i] = root[i]
          BY <4>5, <4>2, <2>0 DEF HttpTypeOK
        <5>2. \A i \in 1 .. Len(root') : i \in 1 .. Len(root) \/ i = Len(root) + 1
          BY <4>2, <5>1
        <5>3. \A i \in 1 .. Len(root) : IsTrue(root[i], seen[d][Order[i]])
          BY <4>3 DEF ReadSoFar
        <5>4. \A i \in 1 .. Len(root') : IsTrue(root'[i], seen'[d][Order[i]])
          BY <4>1, <4>5, <5>1, <5>2, <5>3
        <5> QED
          BY <4>5, <5>4 DEF ReadSoFar
      <4>6. ASSUME e \in Sensor, root' = Append(root, state_[e]), UNCHANGED notOn
            PROVE  ReadSoFar(d)'
        <5>1. e \notin Relay
          BY <4>6, NamesAssumption DEF NamesAssumption
        <5>2. ~notOn
          BY <4>3, <5>1 DEF ReadSoFar
        <5>3. IsTrue(state_[e], now)
          BY <4>3 DEF IsTrue
        <5> QED
          BY <4>5, <4>6, <5>2, <5>3
      <4>7. ASSUME e \in Relay, ~notOn, state_[e] = "ON", root' = Append(root, "ON"), UNCHANGED notOn
            PROVE  ReadSoFar(d)'
        <5>1. IsTrue("ON", now)
          BY <4>3, <4>7 DEF IsTrue
        <5> QED
          BY <4>5, <4>7, <5>1
      <4>8. ASSUME e \in Relay, ~notOn, state_[e] # "ON", notOn' = TRUE, UNCHANGED root
            PROVE  ReadSoFar(d)'
        <5>1. "OFF" \in now
          BY <4>3, <4>4, <4>8 DEF OnOff
        <5> QED
          BY <4>1, <4>3, <4>8, <5>1 DEF ReadSoFar
      <4>9. ASSUME e \in Relay, notOn, notOn' = FALSE,
                   root' = Append(root, IF state_[e] = "OFF" THEN "OFF" ELSE "Error")
            PROVE  ReadSoFar(d)'
        <5>1. "OFF" \in now
          BY <4>3, <4>9 DEF ReadSoFar
        <5>2. state_[e] = "OFF" \/ state_[e] = "ON"
          BY <4>4, <4>9 DEF OnOff
        <5>3. IsTrue(IF state_[e] = "OFF" THEN "OFF" ELSE "Error", now)
          BY <4>3, <5>1, <5>2 DEF IsTrue, OnOff
        <5> QED
          BY <4>5, <4>9, <5>3
      <4>10. ReadSoFar(d)'
        BY <3>4, <4>6, <4>7, <4>8, <4>9 DEF StatusReads
      <4>11. Good(d)' /\ InStatus(d)'
        <5>1. Told(d)'
          BY <4>1, <2>0 DEF Told
        <5> QED
          BY <3>1, <4>1, <4>10, <5>1 DEF Good, Handled, InStatus
      <4>12. \A c \in Client \ {d} : Good(c)'
        BY <3>1, <4>1, <1>same DEF InStatus
      <4> QED
        BY <4>11, <4>12 DEF Fresh
    <3> QED
      BY <2>13, <3>2, <3>3, <3>4 DEF Handles
  <2>14. ASSUME NEW d \in Client, OnEnd(d) \/ OnError(d) PROVE All
    BY <2>14, <2>7 DEF OnEnd, OnError
  <2>15. ASSUME NEW d \in Client, OnWrite(d) PROVE All
    <3>1. Idle /\ UNCHANGED <<state_, calls, status>>
      BY <2>15 DEF OnWrite
    <3>2. CASE ~res_[d].to.keep
      BY <2>15, <3>1, <3>2, <2>7 DEF OnWrite
    <3>3. CASE res_[d].to.keep
      <4>1. /\ UNCHANGED <<request, seen>>
            /\ \A c \in Client : session'[c] = "handling" => session[c] = "handling"
        BY <2>15, <3>3, <2>0 DEF OnWrite, DoRead, HttpTypeOK
      <4>2. \A c \in Client : Good(c)'
        BY <3>1, <4>1, <1>same
      <4> QED
        BY <3>1, <4>2, <2>rest
    <3> QED
      BY <3>2, <3>3
  <2>16. CASE UNCHANGED vars
    <3>1. UNCHANGED <<state_, calls, status, request, session, seen>>
      BY <2>16 DEF vars, conn
    <3>2. \A c \in Client : Good(c)'
      BY <3>1, <1>same
    <3> QED
      BY <3>1, <3>2, <2>fresh
  <2> QED
    BY <2>1, <2>2, <2>3, <2>4, <2>5, <2>6, <2>8, <2>9, <2>10, <2>12, <2>13, <2>14, <2>15, <2>16
       DEF Next, Stop
<1>1. Init => Fresh /\ \A c \in Client : Good(c)
  BY <1>no DEF Init, NoConnections, Fresh, Told, Handled
<1>2. HttpTypeOK /\ Fresh /\ (\A c \in Client : Good(c)) /\ [Next]_vars
          => Fresh' /\ (\A c \in Client : Good(c))'
  BY <1>step DEF HttpInv
<1>3. HttpInv <=> HttpTypeOK /\ Fresh /\ \A c \in Client : Good(c)
  BY DEF HttpInv
<1> HIDE DEF Good
<1>inv. Spec => []HttpInv
  BY <1>1, <1>2, <1>3, HttpTypeCorrect, PTL DEF Spec
<1> DEFINE Answer(c) ==
      session[c] # "writing" /\ session'[c] = "writing" =>
          LET said == res_'[c].said  shown == res_'[c].shown  q == res_'[c].to IN
          /\ said = "status" =>
                 /\ Len(shown) = Len(Order)
                 /\ \A i \in 1 .. Len(Order) : IsTrue(shown[i], seen[c][Order[i]])
          /\ said = "Success" /\ q.name \in Relay =>
                 (IF q.op = "on" THEN "ON" ELSE "OFF") \in seen[c][q.name]
\* What is told is what has been read, and what was asked for has been set.
<1>4. HttpInv /\ [Next]_vars => \A c \in Client : Answer(c)
  <2> SUFFICES ASSUME HttpInv, [Next]_vars, NEW c \in Client,
                      session[c] # "writing", session'[c] = "writing"
               PROVE  Answer(c)
    OBVIOUS
  <2>0. HttpTypeOK /\ Handled(c)
    BY DEF HttpInv
  <2>1. OnRead(c) \/ Handles(c)
    <3>1. ASSUME NEW d \in Client, d # c PROVE ~OnRead(d) /\ ~Handles(d)
      BY <2>0, <3>1 DEF HttpTypeOK, OnRead, Handles, BadRequest, GetOther, GetStatus, PostCommand,
         PostNoRelay, PostBadBody, PostWithoutSet, Commanded, StatusReads, StatusSaid, Respond,
         Handle, Ended, conn
    <3>2. ASSUME NEW d \in Client
          PROVE  /\ ~Connect(d) /\ ~Send(d) /\ ~Shut(d) /\ ~OnAccept(d) /\ ~OnEnd(d)
                 /\ ~OnWrite(d) /\ ~OnError(d)
      BY <2>0 DEF HttpTypeOK, Connect, Send, Shut, OnAccept, OnEnd, OnWrite, OnError, Gone, DoRead
    <3>3. session' # session
      OBVIOUS
    <3>4. ~Ended
      BY DEF Ended
    <3> QED
      BY <3>1, <3>2, <3>3, <3>4 DEF Next, Stop, Start, Released, Scheduled, Switch, Sample, conn, vars
  <2>2. ASSUME NEW said, NEW shown, Respond(c, said, shown)
        PROVE  res_'[c].said = said /\ res_'[c].shown = shown /\ res_'[c].to = request[c]
    BY <2>2, <2>0 DEF Respond, HttpTypeOK
  <2>3. CASE OnRead(c)
    <3>1. session'[c] # "writing" \/ \E said : Respond(c, said, << >>) /\ said # "status"
              /\ (said = "Success" => request[c].name \notin Relay)
      <4>1. CASE BadRequest(c) \/ GetOther(c) \/ PostBadBody(c)
        <5>1. Respond(c, "bad_request", << >>) \/ Respond(c, "empty", << >>) \/ Respond(c, "format_error", << >>)
          BY <4>1 DEF BadRequest, GetOther, PostBadBody
        <5> QED
          BY <5>1
      <4>2. CASE PostNoRelay(c)
        BY <4>2 DEF PostNoRelay
      <4>3. CASE GetStatus(c) \/ PostCommand(c) \/ PostWithoutSet(c)
        BY <2>0, <4>3 DEF GetStatus, PostCommand, PostWithoutSet, Handle, Ended, HttpTypeOK
      <4> QED
        BY <2>3, <4>1, <4>2, <4>3 DEF OnRead
    <3> QED
      BY <3>1, <2>2
  <2>4. CASE Commanded(c)
    <3>1. /\ res_'[c].said = "Success" /\ res_'[c].to = request[c]
          /\ session[c] = "handling" /\ request[c].op # "status" /\ calls[Io] = << >>
      BY <2>4, <2>2 DEF Commanded
    <3>2. Asked(request[c]) \in seen[c][request[c].name]
      BY <2>0, <3>1 DEF Handled, SetSoFar
    <3> QED
      BY <3>1, <3>2 DEF Asked
  <2>5. CASE StatusSaid(c)
    <3>1. /\ res_'[c].said = "status" /\ res_'[c].shown = root
          /\ session[c] = "handling" /\ request[c].op = "status" /\ Len(root) = Len(Order)
      BY <2>5, <2>2 DEF StatusSaid
    <3>2. \A i \in 1 .. Len(root) : IsTrue(root[i], seen[c][Order[i]])
      BY <2>0, <3>1 DEF Handled, ReadSoFar
    <3> QED
      BY <3>1, <3>2
  <2>6. CASE StatusReads(c)
    BY <2>6 DEF StatusReads, conn
  <2> QED
    BY <2>1, <2>3, <2>4, <2>5, <2>6 DEF Handles
<1>5. HttpInv /\ [Next]_vars => [\A c \in Client : Answer(c)]_vars
  BY <1>4
<1> QED
  BY <1>5, <1>inv, PTL DEF Spec, AnswersTrue
=============================================================================
