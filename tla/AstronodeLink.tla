--------------------------- MODULE AstronodeLink ---------------------------
(***************************************************************************)
(* The serial link to the satellite modem (syshal/sat/astronode.cpp) and   *)
(* the driver above it (syshal/sat/syshal_sat.cpp), request by request.    *)
(*                                                                         *)
(* Every operation sends one request and reads up to one end of frame.     *)
(* Nothing but the register, the length and the checksum ties an answer to *)
(* its request, and an answer that comes after the time limit stays in the *)
(* line.  An answer is a register, a parameter and what it costs on the    *)
(* wire; the hexadecimal digits and the checksum are abstracted: a frame   *)
(* read with another length than its own fails the check.  A request may   *)
(* be lost or refused, and then has no effect.  The receive buffer of the  *)
(* port itself never overflows.                                            *)
(***************************************************************************)
EXTENDS Integers, Sequences, FiniteSets

CONSTANTS
  Ids,          \* payload ids, which are slot ids
  QueueMax,     \* ASN_MSG_QUEUE_SIZE
  MaxPasses,    \* bound on the payloads satellites take and the commands they bring
  MaxTimeouts,  \* bound on the answers that come after the time limit
  MaxNoise,     \* bound on the answers disturbed and the requests lost or refused
  MaxLine       \* bound on the frames in the line that leave a piece behind

ASSUME LinkAssumption ==
  /\ Ids \subseteq Nat \ {0}
  /\ QueueMax \in Nat /\ MaxPasses \in Nat
  /\ MaxTimeouts \in Nat /\ MaxNoise \in Nat /\ MaxLine \in Nat

VARIABLES
  request,    \* the request in progress, or where the driver stands without one
  id,         \* the payload id of enqueue_payload
  msg_id,     \* the id syshal_sat_tick hands to the callback, 0 out of use
  line,       \* the answers sent by the modem and not yet read, in order
  provisioned,\* has the modem been configured since boot
  queue,      \* the modem: ids of the payloads it holds
  given,      \* the ids satellites took, in order; acknowledgement n is of given[n]
  acks,       \* the acknowledgements waiting, by their number
  cmds, cmd,  \* commands brought so far; is one waiting
  reset_evt,  \* is a reset event waiting
  timeouts, noise,
  read, cleared           \* history: acknowledgements read; acknowledgements cleared

modem    == <<queue, given, acks, cmds, cmd, reset_evt>>
bounds   == <<timeouts, noise>>
history  == <<read, cleared>>
vars     == <<request, id, msg_id, line, provisioned, modem, bounds, history>>

-----------------------------------------------------------------------------
(* Frames. *)

(* The length of the answer each operation expects. *)
AnswerLength ==
  [ EVT_RR |-> 1,  SAK_RR |-> 2, SAK_CR |-> 0, CMD_RR |-> 44, CMD_CR |-> 0, RES_CR |-> 0,
    PLD_ER |-> 2,  PLD_FR |-> 0, CFG_WR |-> 0, SSC_WR |-> 0,  CFG_SR |-> 0, PER_SR |-> 0,
    PER_CR |-> 0,  PER_RR |-> 84, dummy |-> 0 ]

Requests == DOMAIN AnswerLength

(* reg names the request the register answers; of the acknowledgement a     *)
(* SAK_RA is about; ok whether the frame is whole and starts with STX.      *)
Frame(reg, size, value, of) == [reg |-> reg, size |-> size, value |-> value, of |-> of, ok |-> TRUE]
Error(code) == Frame("ERR", 2, code, 0)
Piece       == [reg |-> "piece", size |-> 0, value |-> 0, of |-> 0, ok |-> FALSE]
NoAnswer    == [reg |-> "none", size |-> 0, value |-> 0, of |-> 0, ok |-> FALSE]

(* STX, register, parameter and checksum in hexadecimal; ETX is not stored. *)
FrameLength(size) == 1 + 2 * (1 + size + 2)

(* Variant: the receive buffer holds the expected frame and no more. *)
ExactReadLimit(op) == FrameLength(AnswerLength[op]) + 1

(* max_rx_length: 64 bytes more than the expected frame takes, which leaves *)
(* room for an error frame.                                                 *)
ReadLimit(op) == FrameLength(AnswerLength[op]) + 1 + 64

Fits(op, a) == FrameLength(a.size) <= ReadLimit(op)

(* receive_decode_answer: an error frame is decoded by its own length, any  *)
(* other by the expected one, and the checksum tells.  The search for the   *)
(* start of the frame compares with STX_L, 1, where STX is 2, and so never  *)
(* finds it: a byte in front of it makes the frame fail.                    *)
IsError(op, a, code) == a.ok /\ Fits(op, a) /\ a.reg = "ERR" /\ a.value = code

Received(op, a) == a.ok /\ Fits(op, a) /\ a.reg # "ERR" /\ a.size = AnswerLength[op]

Success(op, a) == Received(op, a) /\ a.reg = op

(* Variant: an error other than that of a full queue counts as success. *)
EnqueuedUnlessFull(a) == a.ok /\ Fits("PLD_ER", a) /\ ~IsError("PLD_ER", a, "BUFFER_FULL")

Enqueued(a) == Success("PLD_ER", a) /\ a.value = id

-----------------------------------------------------------------------------
(* The modem.  It handles a request when that comes and answers in order. *)

InUse(i) == i \in queue \/ \E k \in DOMAIN acks : given[acks[k]] = i
Full     == Cardinality(queue) >= QueueMax
Accepts(op, i) == op = "PLD_ER" /\ ~InUse(i) /\ ~Full

(* The event register, as event_read picks from it. *)
Event ==
  CASE acks # <<>> -> "MSG_ACK"
    [] acks = <<>> /\ reset_evt -> "RESET"
    [] acks = <<>> /\ ~reset_evt /\ cmd -> "CMD_RECEIVED"
    [] acks = <<>> /\ ~reset_evt /\ ~cmd /\ queue # {} -> "MSG_PENDING"
    [] OTHER -> "NO_EVENT"

Answers(op, i) ==
  CASE op = "EVT_RR" -> {Frame("EVT_RR", 1, Event, 0)}
    [] op = "SAK_RR" /\ acks # <<>> -> {Frame("SAK_RR", 2, given[Head(acks)], Head(acks))}
    [] op = "SAK_RR" /\ acks = <<>> -> {Error("NO_ACK")}
    [] op = "SAK_CR" /\ acks = <<>> -> {Error("NO_ACK_CLEAR")}
    [] op = "CMD_RR" /\ ~cmd -> {Error("NO_COMMAND")}
    [] op = "CMD_CR" /\ ~cmd -> {Error("NO_COMMAND_CLEAR")}
    [] Accepts(op, i) -> {Frame("PLD_ER", 2, i, 0)}
    [] op = "PLD_ER" /\ ~Accepts(op, i) ->
         {Error(c) : c \in (IF InUse(i) THEN {"DUPLICATE_ID"} ELSE {})
                           \cup (IF Full THEN {"BUFFER_FULL"} ELSE {})}
    [] op = "dummy" -> {Error("OPCODE_NOT_VALID")}
    [] OTHER -> {Frame(op, AnswerLength[op], 0, 0)}

Handles(op, i) ==
  /\ queue' = CASE op = "PLD_FR" -> {} [] Accepts(op, i) -> queue \cup {i} [] OTHER -> queue
  /\ acks' = IF op = "SAK_CR" /\ acks # <<>> THEN Tail(acks) ELSE acks
  /\ cleared' = IF op = "SAK_CR" /\ acks # <<>> THEN cleared \cup {Head(acks)} ELSE cleared
  /\ cmd' = (cmd /\ op # "CMD_CR")
  /\ reset_evt' = (reset_evt /\ op # "RES_CR")
  /\ UNCHANGED <<given, cmds>>

(* A satellite takes a payload and acknowledges it. *)
SatellitePass ==
  /\ Len(given) + cmds < MaxPasses
  /\ \E i \in queue : queue' = queue \ {i} /\ given' = Append(given, i)
  /\ acks' = Append(acks, Len(given) + 1)
  /\ UNCHANGED <<request, id, msg_id, line, provisioned, cmds, cmd, reset_evt, bounds, history>>

SatelliteCommand ==
  /\ Len(given) + cmds < MaxPasses
  /\ cmds' = cmds + 1 /\ cmd' = TRUE
  /\ UNCHANGED <<request, id, msg_id, line, provisioned, queue, given, acks, reset_evt, bounds,
                 history>>

-----------------------------------------------------------------------------
(* Requests and answers. *)

Suffixes(s) == {SubSeq(s, k, Len(s)) : k \in 1 .. Len(s) + 1}

(* Bytes are dropped up to some point; when that lies within a frame, the   *)
(* end of the frame stays, which counts as noise.                           *)
Dropped(s) ==
  {[rest |-> t, cut |-> 0] : t \in Suffixes(s)}
  \cup {[rest |-> <<Piece>> \o Tail(t), cut |-> 1] : t \in Suffixes(s) \ {<<>>}}

(* What is left in the line after one frame was read: a frame longer than   *)
(* the buffer leaves its end; then all that has come in is consumed.        *)
Unread(op) ==
  LET over == ~Fits(op, Head(line)) /\ Len(line) <= MaxLine
  IN  Dropped(IF over THEN <<Piece>> \o Tail(line) ELSE Tail(line))

(* receive_decode_answer: the first frame of the line and what is left, or  *)
(* no answer in time: because there is none, or because it is late, when a  *)
(* part of a frame may have come in.                                        *)
Reads(op) ==
  IF line = <<>> THEN {[answer |-> NoAnswer, rest |-> <<>>, cut |-> 0, late |-> 0]}
  ELSE {[answer |-> Head(line), rest |-> u.rest, cut |-> u.cut, late |-> 0] :
          u \in {v \in Unread(op) : noise + v.cut <= MaxNoise}}
       \cup {[answer |-> NoAnswer, rest |-> t, cut |-> 0, late |-> 1] :
               t \in (IF timeouts < MaxTimeouts THEN {line, <<Piece>> \o Tail(line)} ELSE {})}

Counts(r) == timeouts' = timeouts + r.late

(* An answer may be disturbed: lose its front, or get a byte in front. *)
Answered(a, r) ==
  \E noisy \in {0, 1} :
    /\ noise' = noise + r.cut + noisy
    /\ line' = Append(r.rest, [a EXCEPT !.ok = (noisy = 0)])

(* The request has no effect: it is lost and not answered, or it arrives    *)
(* damaged, or the modem is busy or fails to write to its flash; of these   *)
(* three errors the driver tells none apart.                                *)
Refused(r) ==
  /\ noise' = noise + r.cut + 1
  /\ line' \in {r.rest, Append(r.rest, Error("REFUSED"))}
  /\ UNCHANGED <<modem, cleared>>

(* encode_send_request. *)
Ask(op, i, r) ==
  /\ request' = op /\ id' = i
  /\ \/ Handles(op, i) /\ \E a \in Answers(op, i) : Answered(a, r)
     \/ Refused(r)
  /\ noise' <= MaxNoise

Stop(at, r) ==
  /\ request' = at /\ id' = 0 /\ line' = r.rest
  /\ noise' = noise + r.cut
  /\ UNCHANGED <<modem, cleared>>

-----------------------------------------------------------------------------
(* syshal_sat_init resets the modem, clears the line, and sends four        *)
(* requests whose results it ignores.                                       *)
Init ==
  /\ request = "dummy" /\ id = 0 /\ msg_id = 0 /\ line = <<Error("OPCODE_NOT_VALID")>>
  /\ provisioned = FALSE /\ reset_evt = TRUE
  /\ queue = {} /\ acks = <<>> /\ cmd = FALSE
  /\ given = <<>> /\ cmds = 0
  /\ timeouts = 0 /\ noise = 0
  /\ read = {} /\ cleared = {}

(* syshal_sat_init, syshal_sat_read_status: one request after the other;    *)
(* PER_RR, the longest, stands for the four reads of the status.            *)
Ignored == [dummy |-> "PLD_FR", PLD_FR |-> "PER_CR", PER_CR |-> "PER_SR",
            PER_RR |-> "PER_SR"]

NextIgnored ==
  /\ request \in DOMAIN Ignored
  /\ \E r \in Reads(request) : Counts(r) /\ Ask(Ignored[request], 0, r)
  /\ UNCHANGED <<msg_id, provisioned, read>>

(* The end of syshal_sat_shutdown. *)
Saved ==
  /\ request = "PER_SR"
  /\ \E r \in Reads("PER_SR") : Counts(r) /\ Stop("idle", r)
  /\ UNCHANGED <<msg_id, provisioned, read>>

(* syshal_sat_update_config: any failure ends in the error state. *)
Configured == [CFG_WR |-> "SSC_WR", SSC_WR |-> "CFG_SR", CFG_SR |-> "PER_SR"]

NextConfigured ==
  /\ request \in DOMAIN Configured
  /\ \E r \in Reads(request) :
       /\ Counts(r)
       /\ \/ /\ Success(request, r.answer)
             /\ Ask(Configured[request], 0, r)
             /\ provisioned' = (request = "CFG_SR")
          \/ /\ ~Success(request, r.answer)
             /\ Stop("error", r)
             /\ provisioned' = FALSE
  /\ UNCHANGED <<msg_id, read>>

(* The error state ends with a reset by the watchdog. *)
Reboot ==
  /\ request = "error"
  /\ request' = "dummy" /\ id' = 0 /\ line' = <<Error("OPCODE_NOT_VALID")>>
  /\ provisioned' = FALSE /\ reset_evt' = TRUE
  /\ queue' = {} /\ acks' = <<>> /\ cmd' = FALSE
  /\ UNCHANGED <<msg_id, given, cmds, bounds, history>>

Undisturbed == [rest |-> line, cut |-> 0]

Start(op, i) ==
  /\ request = "idle" /\ provisioned
  /\ Ask(op, i, Undisturbed)
  /\ UNCHANGED <<msg_id, provisioned, timeouts, read>>

Configure ==
  /\ request = "idle"
  /\ Ask("CFG_WR", 0, Undisturbed)
  /\ provisioned' = FALSE
  /\ UNCHANGED <<msg_id, timeouts, read>>

StartTick   == Start("EVT_RR", 0)
StartStatus == Start("PER_RR", 0)
StartPush   == Start("PER_SR", 0) \/ \E i \in Ids : Start("PLD_ER", i)

(* The sleep closes the port: what comes meanwhile is lost. *)
Sleep ==
  /\ request = "idle"
  /\ \E d \in Dropped(line) : line' = d.rest /\ noise' = noise + d.cut
  /\ noise' <= MaxNoise
  /\ UNCHANGED <<request, id, msg_id, provisioned, modem, timeouts, history>>

-----------------------------------------------------------------------------
(* syshal_sat_tick. *)

Reaction == [MSG_ACK |-> "SAK_RR", RESET |-> "RES_CR", CMD_RECEIVED |-> "CMD_RR",
             NO_EVENT |-> "PER_SR", MSG_PENDING |-> "PER_SR"]

EventRead ==
  /\ request = "EVT_RR"
  /\ \E r \in Reads("EVT_RR") :
       /\ Counts(r)
       /\ Ask(IF Success("EVT_RR", r.answer) THEN Reaction[r.answer.value] ELSE "PER_SR", 0, r)
  /\ msg_id' = 0
  /\ UNCHANGED <<provisioned, read>>

(* msg_id when nobody has set it: any number. *)
Unset == -1

(* Variant: the acknowledgement is taken from whatever came. *)
AckReadFromAny ==
  /\ request = "SAK_RR"
  /\ \E r \in Reads("SAK_RR") :
       /\ Counts(r)
       /\ read' = read \cup {r.answer.of} /\ msg_id' = r.answer.of
       /\ Ask(IF Success("SAK_RR", r.answer) THEN "SAK_CR" ELSE "EVT_RR", 0, r)
  /\ UNCHANGED provisioned

(* Variant: the acknowledgement is cleared also when the read failed. *)
AckReadAlwaysCleared ==
  /\ request = "SAK_RR"
  /\ \E r \in Reads("SAK_RR") :
       LET good == Success("SAK_RR", r.answer)
       IN  /\ Counts(r)
           /\ read' = IF good THEN read \cup {r.answer.of} ELSE read
           /\ msg_id' = IF good THEN r.answer.value ELSE Unset
           /\ Ask("SAK_CR", 0, r)
  /\ UNCHANGED provisioned

(* syshal_sat_read_message_ack_priv: the acknowledgement is cleared once it *)
(* has been read.  Then, or when the read has failed, the callback gets     *)
(* msg_id, which only a read that succeeds has set.                         *)
AckRead ==
  /\ request = "SAK_RR"
  /\ \E r \in Reads("SAK_RR") :
       /\ Counts(r)
       /\ \/ /\ Success("SAK_RR", r.answer)
             /\ read' = read \cup {r.answer.of}
             /\ msg_id' = r.answer.value
             /\ Ask("SAK_CR", 0, r)
          \/ /\ ~Success("SAK_RR", r.answer)
             /\ msg_id' = Unset
             /\ Ask("EVT_RR", 0, r)
             /\ UNCHANGED read
  /\ UNCHANGED provisioned

(* syshal_sat_read_command_40_bytes_priv. *)
CommandRead ==
  /\ request = "CMD_RR"
  /\ \E r \in Reads("CMD_RR") :
       /\ Counts(r)
       /\ Ask(IF Success("CMD_RR", r.answer) THEN "CMD_CR" ELSE "EVT_RR", 0, r)
  /\ UNCHANGED <<msg_id, provisioned, read>>

(* Variant: a clear is sent again until it succeeds. *)
ClearDoneOnSuccess ==
  /\ request \in {"SAK_CR", "CMD_CR", "RES_CR"}
  /\ \E r \in Reads(request) :
       /\ Counts(r)
       /\ Ask(IF Success(request, r.answer) THEN "EVT_RR" ELSE request, 0, r)
  /\ msg_id' = 0
  /\ UNCHANGED <<provisioned, read>>

(* The result of a clear is looked at by nobody. *)
ClearDone ==
  /\ request \in {"SAK_CR", "CMD_CR", "RES_CR"}
  /\ \E r \in Reads(request) : Counts(r) /\ Ask("EVT_RR", 0, r)
  /\ msg_id' = 0
  /\ UNCHANGED <<provisioned, read>>

(* syshal_sat_send_message, and the push goes on, or ends; a full queue     *)
(* ends it.                                                                 *)
PayloadSent ==
  /\ request = "PLD_ER"
  /\ \E r \in Reads("PLD_ER") :
       /\ Counts(r)
       /\ \/ /\ ~IsError("PLD_ER", r.answer, "BUFFER_FULL")
             /\ \E i \in Ids : Ask("PLD_ER", i, r)
          \/ Ask("PER_SR", 0, r)
  /\ UNCHANGED <<msg_id, provisioned, read>>

Driver ==
  \/ NextIgnored \/ Saved \/ NextConfigured \/ Reboot
  \/ EventRead \/ AckRead \/ CommandRead \/ ClearDone \/ PayloadSent

Next ==
  \/ Driver
  \/ Configure \/ StartTick \/ StartStatus \/ StartPush \/ Sleep
  \/ SatellitePass \/ SatelliteCommand

Spec == Init /\ [][Next]_vars

(* Each request ends, with an answer or with the time limit of the port. *)
LiveSpec == Spec /\ WF_vars(Driver)

-----------------------------------------------------------------------------
(* Properties. *)

TypeOK ==
  /\ request \in Requests \cup {"idle", "error"}
  /\ id \in Ids \cup {0} /\ msg_id \in Ids \cup {0, Unset} /\ provisioned \in BOOLEAN
  /\ \A k \in DOMAIN line :
       /\ line[k].reg \in Requests \cup {"ERR", "piece"}
       /\ line[k].size \in 0 .. 84 /\ line[k].ok \in BOOLEAN
  /\ queue \subseteq Ids /\ given \in Seq(Ids) /\ acks \in Seq(1 .. MaxPasses)
  /\ cmds \in 0 .. MaxPasses /\ cmd \in BOOLEAN /\ reset_evt \in BOOLEAN
  /\ timeouts \in 0 .. MaxTimeouts /\ noise \in 0 .. MaxNoise
  /\ read \subseteq 1 .. MaxPasses /\ cleared \subseteq 1 .. MaxPasses

(* As long as no answer was late, a payload that enqueue_payload is about   *)
(* to confirm is with the modem, or a satellite has taken it and its        *)
(* acknowledgement waits: an id is not confirmed on the strength of a       *)
(* payload that had the slot before, whatever was refused.                  *)
EnqueueConfirmed ==
  timeouts = 0 /\ request = "PLD_ER" /\ line # <<>> /\ Enqueued(Head(line)) => InUse(id)

(* As long as no answer was late, the line is empty between requests and    *)
(* holds at most the answer to the request in progress during one: no       *)
(* operation leaves bytes behind, not even one that gets an error instead   *)
(* of the answer it expects.                                                *)
Paired ==
  timeouts = 0 =>
    /\ request \in {"idle", "error"} => line = <<>>
    /\ request \in Requests =>
         line = <<>> \/ (Len(line) = 1 /\ line[1].reg \in {request, "ERR"})

(* "Confirm to the terminal that Acknowledgment was properly decoded"       *)
(* (astronode.h:64): as long as no answer was late, an acknowledgement is   *)
(* cleared only when it was read, whatever is disturbed, cut or refused,    *)
(* and however many satellites acknowledge between the read and the clear.  *)
OnlyReadAcksCleared == timeouts = 0 => cleared \subseteq read

(* Exchange by exchange the link does what Uplink assumes of it: a payload  *)
(* is taken when its id is free and the queue has room, and leaves only     *)
(* with a satellite or a boot; the callback gets the id of the first        *)
(* acknowledgement, which is then cleared or, when the clear fails, left to *)
(* be handled again, or it gets an id nobody has set and nothing is         *)
(* cleared.  Only after a late answer is an acknowledgement cleared while   *)
(* the callback got another id (syshal_sat.cpp:303-318, 478-495).           *)
Above == INSTANCE Exchange WITH told <- msg_id, late <- timeouts > 0
ExchangeSpec == Above!Spec

(* A tick ends if only finitely many of its exchanges are late, disturbed,  *)
(* lost or refused: no such failure makes the driver read the same event    *)
(* for ever by itself.  A clear that always fails is not bounded by it.     *)
TickEnds == request = "EVT_RR" ~> request = "PER_SR"
=============================================================================
