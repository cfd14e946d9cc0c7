----------------------------- MODULE Telemetry -----------------------------
(***************************************************************************)
(* From the radio nodes in the water to the values of the status: the loop *)
(* of PoolTempRF.ino, the line that the MightyHat prints for each packet,  *)
(* and the program on the Pi that puts lines together (SerialPort), finds  *)
(* the node (WirelessHandler), the sensor (WirelessRT) and the value       *)
(* (RTSensor).                                                             *)
(*                                                                         *)
(* A line "[790] WC:25.31 SS:-50" travels as four pieces; a read may end   *)
(* between any two, a board that restarts cuts the line anywhere and       *)
(* begins a new one, and a program that starts may begin to read in        *)
(* the middle of a line.  The board prints the packets of every node of    *)
(* the network; of a node that main() did not configure only the line      *)
(* matters.  A value is the number of the round in which the node measured *)
(* it.  The time and the signal strength that the status also shows are    *)
(* left out.                                                               *)
(***************************************************************************)
EXTENDS Naturals, Sequences, SequencesExt

CONSTANTS
    Node,        \* the nodes that main() configures: 790 and 791
    Sends,       \* the labels that a node sends, in their order
    Sensors,     \* the labels that WaterTemperatureRT knows
    Retries,     \* how often sendWithRetry() repeats a packet
    MaxRound,    \* bound: rounds of a node's loop
    Room         \* bound: pieces on the way to the program

\* The tags of the pieces that are no values; no label is one of them.
Tags == {"id", "other", "SS", "end", "cut id", "cut SS", "space"}

ASSUME SendsAssumption ==
    /\ Sends \in Seq(STRING) \ {<< >>} /\ Range(Sends) \cap Tags = {}
    /\ Sensors \subseteq Range(Sends)
ASSUME TelemetryBounds == {Retries, MaxRound, Room} \subseteq Nat

VARIABLES
    round, at, tries,     \* of each node; at[n] = 0 while it sleeps
    wire,                 \* pieces sent by the board and not read yet
    up,                   \* the program runs
    read_buf_str_,        \* the line so far
    sample_,              \* sample_[n][s]: the text that the status shows
    received              \* received[n][s]: the last round acknowledged since the program started

sketch  == <<round, at, tries>>
program == <<up, read_buf_str_, sample_>>
vars    == <<sketch, wire, program, received>>

-----------------------------------------------------------------------------
(***************************************************************************)
(* Lines.                                                                  *)
(***************************************************************************)
Nothing == 0            \* no value
Cut     == MaxRound + 1 \* a value that lost its last digits

\* "[790] ", "WC:25.31", " SS:-50" and the end of the line.
Line(n, label, k) == << <<"id", n>>, <<label, k>>, <<"SS", 0>>, <<"end", 0>> >>

\* "[7] temp:20 SS:-50" of another node; its payload says nothing to the program.
OtherLine == << <<"other", 0>>, <<"SS", 0>>, <<"end", 0>> >>

\* What may be left of a piece that is cut: of "[790] " another number, of
\* " SS:-50" the space, or no number, of "WC:25.31" a part with its label.
Parts(piece) ==
    CASE piece[1] \in {"id", "other"} -> {<<"cut id", 0>>}
      [] piece[1] = "SS" -> {<<"space", 0>>, <<"cut SS", 0>>}
      [] piece[1] \in Range(Sends) -> {<<piece[1], Cut>>}
      [] OTHER -> {}

\* The end of line before "GATEWAYSTART", and 1 for the line that it may cut;
\* the lines of the greeting itself are no sensor's.
Greeting == << <<"end", 1>> >>

NoSamples    == [n \in Node |-> [s \in Sensors |-> Nothing]]
NoneReceived == [n \in Node |-> [s \in Sensors |-> 0]]

Init ==
    /\ round = [n \in Node |-> 0] /\ at = [n \in Node |-> 0] /\ tries = [n \in Node |-> 0]
    /\ wire = << >>
    /\ up = FALSE /\ read_buf_str_ = << >> /\ sample_ = NoSamples
    /\ received = NoneReceived

-----------------------------------------------------------------------------
(***************************************************************************)
(* PoolTempRF: loop().                                                     *)
(***************************************************************************)
\* A round begins with getTemp() and the other readings; their values, which
\* NotRead tells from 0, are the round's number.
Wake(n) ==
    /\ at[n] = 0 /\ round[n] < MaxRound
    /\ round' = [round EXCEPT ![n] = @ + 1]
    /\ at' = [at EXCEPT ![n] = 1]
    /\ UNCHANGED <<tries, wire, program, received>>

\* After the last label the node sleeps.
Proceed(n, steps) ==
    /\ at' = [at EXCEPT ![n] = IF @ + steps > Len(Sends) THEN 0 ELSE @ + steps]
    /\ tries' = [tries EXCEPT ![n] = 0]

\* A reading of 0 is not sent, nor is the transmission level after a water
\* temperature of 0.
NotRead(n) ==
    /\ at[n] > 0 /\ tries[n] = 0 /\ Sends[at[n]] # "XP"
    /\ Proceed(n, IF at[n] < Len(Sends) /\ Sends[at[n] + 1] = "XP" THEN 2 ELSE 1)
    /\ UNCHANGED <<round, wire, program, received>>

\* No acknowledgement: sendWithRetry() repeats the packet, then gives up.
NoAck(n) ==
    IF tries[n] < Retries
    THEN tries' = [tries EXCEPT ![n] = @ + 1] /\ UNCHANGED at
    ELSE Proceed(n, 1)

PacketLost(n) ==
    /\ at[n] > 0
    /\ NoAck(n)
    /\ UNCHANGED <<round, wire, program, received>>

\* The board prints the packet and acknowledges it; that may be lost as well.
PacketArrives(n) ==
    /\ at[n] > 0
    /\ LET label == Sends[at[n]] IN
       /\ wire' = wire \o Line(n, label, round[n])
       /\ Len(wire') <= Room
       /\ \/ NoAck(n) /\ UNCHANGED received
          \/ /\ Proceed(n, 1)
             /\ received' = IF up /\ label \in Sensors THEN [received EXCEPT ![n][label] = round[n]]
                            ELSE received
    /\ UNCHANGED <<round, program>>

\* A packet of a node that main() does not configure is printed as well.
OtherPacket ==
    /\ wire' = wire \o OtherLine
    /\ Len(wire') <= Room
    /\ UNCHANGED <<sketch, program, received>>

-----------------------------------------------------------------------------
(***************************************************************************)
(* The board restarts: what it has not sent yet is cut off, maybe inside a *)
(* piece.  What was lost cannot be expected to arrive.                     *)
(***************************************************************************)
BoardRestarts ==
    /\ \E i \in 0 .. Len(wire) :
           LET sent == SubSeq(wire, 1, i) IN
           /\ \/ wire' = sent \o Greeting
              \/ /\ i < Len(wire)
                 /\ \E part \in Parts(wire[i + 1]) : wire' = Append(sent, part) \o Greeting
           /\ Len(wire') <= Room
    /\ received' = NoneReceived
    /\ UNCHANGED <<sketch, program>>

-----------------------------------------------------------------------------
(***************************************************************************)
(* The program.                                                            *)
(***************************************************************************)
\* Slip: a value that no space follows is taken to the end of the line.
ValueToTheEnd(rest) == rest # << >>

\* RTSensor::Update takes the text up to the next space.
HasValue(rest) == Len(rest) >= 2 /\ rest[2][1] \in {"space", "SS", "cut SS"}

\* Slip: a value without an end clears the sample.
ClearedSample(n, rest, samples) ==
    IF rest # << >> /\ rest[1][1] \in Sensors
    THEN [samples EXCEPT ![n][rest[1][1]] = IF HasValue(rest) THEN rest[1][2] ELSE Nothing]
    ELSE samples

\* Slip: the search ends at the first sensor, whether it matches or not.
FirstSensorOnly(n, rest, samples) ==
    IF HasValue(rest) /\ rest[1][1] = Sends[1]
    THEN [samples EXCEPT ![n][rest[1][1]] = rest[1][2]]
    ELSE samples

\* The sensor whose label is before the colon takes the value.
NewSample(n, rest, samples) ==
    IF HasValue(rest) /\ rest[1][1] \in Sensors
    THEN [samples EXCEPT ![n][rest[1][1]] = rest[1][2]]
    ELSE samples

\* std::stoi throws when no number follows "SS:".
NoNumber(rest) == \E i \in DOMAIN rest : rest[i][1] = "cut SS"

\* The piece with the line's first '['.
FirstId(data) == SelectInSeq(data, LAMBDA piece : piece[1] \in {"id", "other", "cut id"})

\* A number that main() did not configure: rts_ holds a null pointer for it.
Unconfigured(piece) == piece[1] \in {"other", "cut id"}

\* Slip: a line without a '[' is read from its start.
UnbracketedBad(data) ==
    LET id == FirstId(data)
    IN  IF id = 0 THEN data # << >>
        ELSE Unconfigured(data[id]) \/ NoNumber(SubSeq(data, id + 1, Len(data)))

\* A line ends the program if it names a node that main() did not configure or
\* has no signal strength after "SS:".
Bad(data) ==
    LET id == FirstId(data)
    IN  /\ id > 0
        /\ Unconfigured(data[id]) \/ NoNumber(SubSeq(data, id + 1, Len(data)))

\* WirelessHandler::UpdateSensors of a line that does not end the program.
UpdateSensors(data, samples) ==
    LET id == SelectInSeq(data, LAMBDA piece : piece[1] = "id")
    IN  IF id = 0 THEN samples
        ELSE NewSample(data[id][2], SubSeq(data, id + 1, Len(data)), samples)

Ended ==
    /\ up' = FALSE /\ read_buf_str_' = << >> /\ sample_' = NoSamples
    /\ received' = NoneReceived

Collect ==
    /\ up /\ wire # << >> /\ wire[1][1] # "end"
    /\ read_buf_str_' = Append(read_buf_str_, wire[1])
    /\ wire' = Tail(wire)
    /\ UNCHANGED <<sketch, up, sample_, received>>

\* SerialPort::on_receive_ at the end of a line.
HandleLine ==
    /\ up /\ wire # << >> /\ wire[1][1] = "end"
    /\ IF Bad(read_buf_str_)
       THEN Ended
       ELSE /\ sample_' = UpdateSensors(read_buf_str_, sample_)
            /\ read_buf_str_' = << >>
            /\ UNCHANGED <<up, received>>
    /\ wire' = Tail(wire)
    /\ UNCHANGED sketch

\* A read may bring several pieces; an exception loses the later ones, as Drop
\* does.
Read == Collect \/ HandleLine

\* The service is stopped and started.  What comes while no program reads is
\* dropped, so the first line may lack its beginning.
Stop == up /\ Ended /\ UNCHANGED <<sketch, wire>>

Drop ==
    /\ ~up /\ wire # << >>
    /\ wire' = Tail(wire)
    /\ UNCHANGED <<sketch, program, received>>

Start ==
    /\ ~up /\ up' = TRUE
    /\ UNCHANGED <<sketch, wire, read_buf_str_, sample_, received>>

Next ==
    \/ \E n \in Node : Wake(n) \/ NotRead(n) \/ PacketLost(n) \/ PacketArrives(n)
    \/ OtherPacket \/ BoardRestarts \/ Read \/ Stop \/ Drop \/ Start

\* The program reads what has come; nodes, boards and people need do nothing.
Spec == Init /\ [][Next]_vars /\ WF_vars(Read)

-----------------------------------------------------------------------------
\* What the status shows for a sensor is a whole value that this node has
\* measured, whatever line was cut or begun in the middle.
SamplesSent ==
    \A n \in Node, s \in Sensors :
        sample_[n][s] = Nothing \/ sample_[n][s] \in 1 .. round[n]

\* While the program runs no value is replaced by an older one, though a packet
\* whose acknowledgement was lost is printed again.
NeverOlder ==
    [][up /\ up' => \A n \in Node, s \in Sensors : sample_'[n][s] >= sample_[n][s]]_vars

\* A line of a node that main() configured ends the program only if a restart of
\* the board cut it, whether the program missed its beginning or not: what ends
\* the program is a cut line, or one that names another node.
OwnLinesHarmless ==
    [][up /\ ~up' /\ wire' # wire =>
          \/ wire[1] = <<"end", 1>>
          \/ \E i \in DOMAIN read_buf_str_ : read_buf_str_[i][1] = "other"]_vars

\* A value that the board acknowledged to the node is shown at some time, or a
\* newer one is, unless the program ends or the board restarts.
AckedShown ==
    \A n \in Node, s \in Sensors : \A k \in 1 .. MaxRound :
        received[n][s] = k ~> received[n][s] = 0 \/ sample_[n][s] >= k
=============================================================================
