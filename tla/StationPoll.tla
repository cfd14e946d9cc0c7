----------------------------- MODULE StationPoll -----------------------------
(***************************************************************************)
(* The poller of the weather station (AmbientStation.cpp), a program of    *)
(* its own: each sample interval a new Client asks the station for its     *)
(* page, looks for the readings in it and sends them to Telegraf.          *)
(*                                                                         *)
(* A page is a sequence of the pieces that FindValues looks for: a form,   *)
(* <<"input", name>>, <<"value", v>>, the end of a form.  The station      *)
(* closes the connection after the page, and a page that breaks off ends   *)
(* in the same way, perhaps in the middle of a name or a value.  What lies *)
(* between the pieces is left out, with the headers, which no code reads.  *)
(*                                                                         *)
(* The io_context runs one handler at a time; only that of the last piece  *)
(* of the answer, with FindValues in it, takes several steps here.         *)
(***************************************************************************)
EXTENDS Naturals, Sequences, FiniteSetsExt

CONSTANTS
    Field,   \* the names in fields_
    Page     \* the pages that the station may have to show

ASSUME PageAssumption == Page \subseteq Seq({"form", "input", "value", "/form"} \X STRING)

VARIABLES
    up,      \* the program runs
    due,     \* the timer has expired
    phase,   \* the operation that the client waits for, or what its handler does
    result,  \* how that operation has ended: "pending", "ok" or "failed"
    stale,   \* the handler of a destroyed client is still to run
    page,    \* response_, once it is complete
    p,       \* FindValues' position in it
    fields_  \* the values found

client == <<phase, result, page, p, fields_>>
vars   == <<up, due, stale, client>>

Blank     == "blank"
Operation == {"resolve", "connect", "write", "status", "headers", "content"}

\* Slip: fields_ is static.
ClientStatic(operation) ==
    /\ phase' = operation /\ result' = "pending"
    /\ page' = << >> /\ p' = 0 /\ UNCHANGED fields_

Client(operation) ==
    /\ phase' = operation /\ result' = "pending"
    /\ page' = << >> /\ p' = 0 /\ fields_' = [f \in Field |-> Blank]

Init ==
    /\ up = TRUE /\ due = FALSE /\ stale = FALSE
    /\ phase = "none" /\ result = "pending"
    /\ page = << >> /\ p = 0 /\ fields_ = [f \in Field |-> Blank]

-----------------------------------------------------------------------------
(***************************************************************************)
(* The timer.                                                              *)
(***************************************************************************)
Free == up /\ phase \notin {"scan", "send"}

Expire ==
    /\ up /\ ~due
    /\ due' = TRUE
    /\ UNCHANGED <<up, stale, client>>

\* PollStation: a new client takes the place of the one before, whatever that
\* one waits for, and the timer is armed again.  Operations that are pending are
\* cancelled, and their handlers only print; the handler of one that has
\* succeeded is still to run, without its client.
Poll ==
    /\ Free /\ due
    /\ due' = FALSE
    /\ stale' = (stale \/ result = "ok")
    /\ Client("resolve")
    /\ UNCHANGED up

Ended == up' = FALSE /\ due' = FALSE /\ stale' = FALSE /\ Client("none")

\* Telegraf's name is not resolved: the constructor throws, and main() ends.
PollThrows == Free /\ due /\ Ended

\* A handler that uses freed memory: nothing comes of it, or the program ends.
StaleHandler ==
    /\ Free /\ stale
    /\ Ended \/ (stale' = FALSE /\ UNCHANGED <<up, due, client>>)

\* The operator starts the program again.
Start ==
    /\ ~up /\ up' = TRUE
    /\ UNCHANGED <<due, stale, client>>

-----------------------------------------------------------------------------
(***************************************************************************)
(* The client's operations and their handlers.                             *)
(***************************************************************************)
\* The name service, the station: neither has to answer.
Completes(how) ==
    /\ up /\ phase \in Operation /\ result = "pending"
    /\ result' = how
    /\ UNCHANGED <<up, due, stale, phase, page, p, fields_>>

Handled(next) ==
    /\ phase' = next /\ result' = "pending"
    /\ UNCHANGED <<up, due, stale, page, p, fields_>>

\* Printed or not, an error leaves the client to be replaced.
OnError == Free /\ result = "failed" /\ Handled("done")

After == [resolve |-> "connect", connect |-> "write", write |-> "status",
          status |-> "headers", headers |-> "content"]

\* DoConnect, DoRequest, DoReadStatusLine, DoReadContent.
OnSuccess == Free /\ result = "ok" /\ phase # "content" /\ Handled(After[phase])

\* Not HTTP, or not 200.
OnBadStatus == Free /\ result = "ok" /\ phase = "status" /\ Handled("done")

Npos(b) == Len(b) + 1
Find(kinds, b, k) == Min({i \in k .. Len(b) : i > 0 /\ b[i][1] \in kinds} \cup {Npos(b)})

\* What may arrive of a page: all of it, some pieces, or the last of these without
\* the quote that closes it.
CutOff(piece) == <<IF piece[1] = "input" THEN "input..." ELSE "value...", piece[2]>>
Arrives(whole) ==
    {SubSeq(whole, 1, k) : k \in 0 .. Len(whole)}
      \cup {Append(SubSeq(whole, 1, k - 1), CutOff(whole[k])) :
              k \in {i \in DOMAIN whole : whole[i][1] \in {"input", "value"}}}

\* eof: the form is found, or the page is of no use.
OnPage ==
    /\ Free /\ result = "ok" /\ phase = "content"
    /\ result' = "pending"
    /\ \E whole \in Page : page' \in Arrives(whole)
    /\ p' = Find({"form"}, page', 1)
    /\ phase' = IF p' = Npos(page') THEN "done" ELSE "scan"
    /\ UNCHANGED <<up, due, stale, fields_>>

-----------------------------------------------------------------------------
(***************************************************************************)
(* FindValues: an iteration of its loop is an action.                      *)
(***************************************************************************)
endform == Find({"/form"}, page, Find({"form"}, page, 1))
Input   == Find({"input", "input..."}, page, p)
Value   == Find({"value", "value..."}, page, Input)
Name    == page[Input][2]

Scanning == up /\ phase = "scan" /\ p < endform
Known    == Scanning /\ Input # Npos(page) /\ page[Input][1] = "input" /\ Name \in Field
Moves(k) == p' = k /\ UNCHANGED <<up, due, stale, phase, result, page, fields_>>

\* No input any more: find() returns npos, and npos plus the length of the tag
\* is a position at the start of the page.
NoInput == Scanning /\ Input = Npos(page) /\ Moves(0)

\* Slip: the position moves for known inputs only.
OtherInputAgain ==
    /\ Scanning /\ Input # Npos(page)
    /\ page[Input][1] = "input" /\ Name \notin Field
    /\ Moves(p)

OtherInput ==
    /\ Scanning /\ Input # Npos(page)
    /\ page[Input][1] = "input" /\ Name \notin Field
    /\ Moves(Input + 1)

\* break
InputCutOff ==
    /\ Scanning /\ Input # Npos(page) /\ page[Input][1] = "input..."
    /\ phase' = "send"
    /\ UNCHANGED <<up, due, stale, result, page, p, fields_>>

ValueFound ==
    /\ Known /\ Value # Npos(page) /\ page[Value][1] = "value"
    /\ fields_' = [fields_ EXCEPT ![Name] = page[Value][2]]
    /\ p' = Value + 1
    /\ UNCHANGED <<up, due, stale, phase, result, page>>

ValueCutOff == Known /\ Value # Npos(page) /\ page[Value][1] = "value..." /\ Moves(Npos(page))

\* Nothing changes: the loop finds the same input again.
NoValue == Known /\ Value = Npos(page) /\ Moves(p)

FormEnds ==
    /\ up /\ phase = "scan" /\ p >= endform
    /\ phase' = "send"
    /\ UNCHANGED <<up, due, stale, result, page, p, fields_>>

\* SendData: the datagram is sent, or an error printed.
SendData ==
    /\ up /\ phase = "send"
    /\ phase' = "done"
    /\ UNCHANGED <<up, due, stale, result, page, p, fields_>>

Scan    == NoInput \/ OtherInput \/ InputCutOff \/ ValueFound \/ ValueCutOff \/ NoValue \/ FormEnds
Handler == OnError \/ OnSuccess \/ OnBadStatus \/ OnPage \/ Scan \/ SendData

Next ==
    \/ Expire \/ Poll \/ PollThrows \/ StaleHandler \/ Start
    \/ \E how \in {"ok", "failed"} : Completes(how)
    \/ Handler

\* The timer expires, and the io_context runs the handlers that are ready.
Fairness == WF_vars(Expire) /\ WF_vars(Poll) /\ WF_vars(Handler)

Spec == Init /\ [][Next]_vars /\ Fairness

-----------------------------------------------------------------------------
Says(b, f, v) == \E i \in 1 .. Len(b) - 1 : b[i] = <<"input", f>> /\ b[i + 1] = <<"value", v>>

\* Of a page that breaks off anywhere, each value that is sent is the one the page
\* gives for that name; of a whole page all of them are sent.
LineTrue ==
    phase = "send" => \A f \in Field :
        IF fields_[f] # Blank THEN Says(page, f, fields_[f])
        ELSE page \in Page => \A i \in DOMAIN page : page[i] # <<"input", f>>

\* What LineTrue takes for granted of the pages, as sample_live_data.html has it: a
\* known name is followed by its value, which is not empty, and stands between the
\* first form and the first end of one.
LivePages ==
    \A b \in Page : \A i \in DOMAIN b :
        b[i][1] = "input" /\ b[i][2] \in Field =>
            /\ i < Len(b) /\ b[i + 1][1] = "value" /\ b[i + 1][2] # Blank
            /\ Find({"form"}, b, 1) < i
            /\ i < Find({"/form"}, b, Find({"form"}, b, 1))

\* The page broke off before an input that follows the form: find() then starts
\* again at the start of the page and comes to no end.
NoInputBehind == Find({"input", "input..."}, page, endform) = Npos(page)

\* "poll Ambient Wether Observer for current conditions" (AmbientStation.cpp:21):
\* the next poll always comes, unless the program ends or searches such a page.
PollsGoOn == due ~> ~due \/ ~up \/ (phase = "scan" /\ NoInputBehind)
=============================================================================
