------------------------------ MODULE Gateway ------------------------------
(***************************************************************************)
(* The requests that the MightyHat keeps for sleeping radio nodes: the     *)
(* lines of the host (processCommand and handleSerialData of               *)
(* MightyHat.ino), the queue of requests, and the acknowledgement that     *)
(* carries them to a node that wakes up.                                   *)
(*                                                                         *)
(* The sketch has one thread, so a line, or a packet, is handled in one    *)
(* step; what is open is what the radio delivers: a command may arrive     *)
(* without its acknowledgement, and an acknowledgement with its payload    *)
(* may be lost.  A command is a name with a length.                        *)
(***************************************************************************)
EXTENDS Naturals, SequencesExt

CONSTANTS
    Node,                     \* the ids the gateway accepts (1 .. 1023, not its own)
    Command, Length,          \* a line that is too long is handled as two commands
    MAX_ACK_REQUEST_LENGTH,   \* the longest payload of an acknowledgement
    Capacity,                 \* how many requests malloc() has room for
    Byte                      \* the numbers a byte can hold: 256

ASSUME LengthAssumption == Length \in [Command -> Nat \ {0}]
ASSUME BoundsAssumption ==
    /\ MAX_ACK_REQUEST_LENGTH \in Nat
    /\ Capacity \in Nat /\ Byte \in Nat /\ Capacity < Byte

VARIABLES
    queue,          \* the linked list of requests
    size_of_queue,
    pending,        \* requests the host was promised and no node has received
    said            \* what the gateway answered to the last line

gatewayVars == <<queue, size_of_queue, pending, said>>

REQUEST == [nodeId : Node, data : Command]
Req(n, c) == [nodeId |-> n, data |-> c]

GatewayInit == queue = <<>> /\ size_of_queue = 0 /\ pending = {} /\ said = "nothing"

-----------------------------------------------------------------------------
(***************************************************************************)
(* Lines from the host.                                                    *)
(***************************************************************************)
\* "RQ".  printQueue() looks at the counter, then walks the list.
PrintQueue ==
    /\ said' = IF size_of_queue = 0 THEN "RQ:EMPTY" ELSE "RQ"
    /\ UNCHANGED <<queue, size_of_queue, pending>>

(***************************************************************************)
(* The walk that takes out what the host voids.  `aux` is the place in the *)
(* list of the request it looks at; a request is counted, in a byte, where *)
(* it is freed.  A turn passes one request or frees it.                    *)
(***************************************************************************)
Counted(walk) == (walk.removed + 1) % Byte

\* The only one: the queue becomes NULL.
FreeOnly(walk) == [list |-> <<>>, aux |-> 1, removed |-> Counted(walk)]

\* The first one: the queue starts at the next.
FreeHead(walk) == [list |-> Tail(walk.list), aux |-> 1, removed |-> Counted(walk)]

\* Slip: a request that is freed behind another is not counted.
FreeInsideUncounted(walk) == [walk EXCEPT !.list = RemoveAt(walk.list, walk.aux)]

\* One behind another: its predecessor is linked to the one after it.
FreeInside(walk) ==
    [list |-> RemoveAt(walk.list, walk.aux), aux |-> walk.aux, removed |-> Counted(walk)]

Turn(walk, voided) ==
    IF walk.list[walk.aux] \notin voided THEN [walk EXCEPT !.aux = walk.aux + 1]
    ELSE IF walk.aux > 1 THEN FreeInside(walk)
    ELSE IF Len(walk.list) = 1 THEN FreeOnly(walk)
    ELSE FreeHead(walk)

Walk(voided) ==
    LET walked[i \in 0 .. Len(queue)] ==
            IF i = 0 THEN [list |-> queue, aux |-> 1, removed |-> 0]
            ELSE Turn(walked[i - 1], voided)
    IN  walked[Len(queue)]

TakeOut(voided) ==
    /\ queue' = Walk(voided).list
    /\ size_of_queue' = (size_of_queue + Byte - Walk(voided).removed) % Byte
    /\ pending' = pending \ voided
    /\ said' = "nothing"

\* "RQ:VOID", "123:VOID" and "123:VOID:command".  Flush has a loop of its own,
\* with the turns that free the first request and the only one.
Flush == TakeOut(REQUEST)

VoidNode(n) == TakeOut({r \in REQUEST : r.nodeId = n})

VoidRequest(n, c) == TakeOut({Req(n, c)})

\* sendWithRetry() succeeds: the node received the command.
SentAtOnce(n, c) ==
    /\ pending' = pending \ {Req(n, c)}
    /\ said' = "nothing"
    /\ UNCHANGED <<queue, size_of_queue>>

\* "123:command" to a node that does not answer is forgotten.
SendFails == said' = "nothing" /\ UNCHANGED <<queue, size_of_queue, pending>>

\* Slip: a command that is queued for any node counts as a duplicate.
DuplicateAnywhere(n, c) == \E i \in DOMAIN queue : queue[i].data = c

Duplicate(n, c) == \E i \in DOMAIN queue : queue[i] = Req(n, c)

\* insert() fails when memory is full.
Insert(n, c) ==
    IF Len(queue) < Capacity
    THEN /\ queue' = Append(queue, Req(n, c))
         /\ size_of_queue' = (size_of_queue + 1) % Byte
         /\ pending' = pending \cup {Req(n, c)}
         /\ said' = "nothing"
    ELSE said' = ":MEMFULL" /\ UNCHANGED <<queue, size_of_queue, pending>>

\* "RQ:123:command" to a node that does not answer (or whose answer is lost).
\* A duplicate is skipped: the request in the queue stands for both.
QueueRequest(n, c) ==
    \/ /\ Duplicate(n, c)
       /\ pending' = pending \cup {Req(n, c)}
       /\ said' = "nothing"
       /\ UNCHANGED <<queue, size_of_queue>>
    \/ ~Duplicate(n, c) /\ Insert(n, c)

\* An id out of range; lines like "BEEP" end here as well, with the id 0.
Invalid == said' = ":INV" /\ UNCHANGED <<queue, size_of_queue, pending>>

-----------------------------------------------------------------------------
(***************************************************************************)
(* Packets from the nodes.                                                 *)
(***************************************************************************)
Fits(len, c) == len + 1 + Length[c] <= MAX_ACK_REQUEST_LENGTH

\* Slip: a request that does not fit ends the walk.
PayloadInOrder(n) ==
    LET Add(ack, r) ==
            IF r.nodeId /= n \/ ack.ended THEN ack
            ELSE IF Fits(ack.len, r.data)
            THEN [len   |-> ack.len + (IF ack.len > 0 THEN 1 ELSE 0) + Length[r.data],
                  cmds  |-> ack.cmds \cup {r.data},
                  ended |-> FALSE]
            ELSE [ack EXCEPT !.ended = TRUE]
        walked[i \in 0 .. Len(queue)] ==
            IF i = 0 THEN [len |-> 0, cmds |-> {}, ended |-> FALSE]
            ELSE Add(walked[i - 1], queue[i])
    IN  walked[Len(queue)]

\* What the acknowledgement of node n carries: as many of its requests as fit,
\* in the queue's order; one that does not fit is passed over.
Payload(n) ==
    LET Add(ack, r) ==
            IF r.nodeId = n /\ Fits(ack.len, r.data)
            THEN [len  |-> ack.len + (IF ack.len > 0 THEN 1 ELSE 0) + Length[r.data],
                  cmds |-> ack.cmds \cup {r.data}]
            ELSE ack
        walked[i \in 0 .. Len(queue)] ==
            IF i = 0 THEN [len |-> 0, cmds |-> {}] ELSE Add(walked[i - 1], queue[i])
    IN  walked[Len(queue)]

\* Node n wakes up, asks for an acknowledgement and gets it.  The requests stay
\* in the queue until the host voids them.
Acknowledged(n) ==
    /\ pending' = pending \ {Req(n, c) : c \in Payload(n).cmds}
    /\ said' = "nothing"
    /\ UNCHANGED <<queue, size_of_queue>>

Line ==
    \/ PrintQueue \/ Flush \/ SendFails \/ Invalid
    \/ \E n \in Node :
           \/ VoidNode(n)
           \/ \E c \in Command : VoidRequest(n, c) \/ SentAtOnce(n, c) \/ QueueRequest(n, c)

GatewayNext == Line \/ \E n \in Node : Acknowledged(n)

\* A node wakes up again and again, and not every acknowledgement is lost; a
\* host that has heard of a request's arrival voids it at some time.
HostVoids(r) ==
    /\ r \notin pending /\ r \in Range(queue)
    /\ VoidRequest(r.nodeId, r.data)

GatewayFairness ==
    /\ \A n \in Node : WF_gatewayVars(Acknowledged(n))
    /\ \A r \in REQUEST : SF_gatewayVars(HostVoids(r))

GatewaySpec == GatewayInit /\ [][GatewayNext]_gatewayVars /\ GatewayFairness

-----------------------------------------------------------------------------
\* The counter that printQueue() trusts is the length of the list, whichever
\* requests a VOID freed and wherever in the list they were.
SizeTruth == size_of_queue = Len(queue)

\* A request that the gateway took (no ":MEMFULL") and that no node received is
\* still in the queue, unless the host voided it.
PromiseKept == pending \subseteq Range(queue)

\* A queued request that fits into an acknowledgement arrives, or is voided,
\* whatever else is queued before it.
FittingArrives ==
    \A r \in REQUEST : Fits(0, r.data) => (r \in pending ~> r \notin pending)
=============================================================================
