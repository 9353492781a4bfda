------------------------------ MODULE Command ------------------------------
(***************************************************************************)
(* The commands of the app over BLE: the packets it writes, the callback   *)
(* of the BLE driver that drains them into a stream, the decoder of        *)
(* core/command with its receive buffer, and the acknowledgements and      *)
(* answers, which go back through the same stream.                         *)
(*                                                                         *)
(* Bytes come in cells of up to 20, what one BLE notification holds: the   *)
(* first cell of a packet has its header, whose checksum covers the rest.  *)
(***************************************************************************)
EXTENDS Naturals, Sequences, FiniteSets

CONSTANTS
  Packets,          \* what the app may send
  Kind,             \* what a packet is
  Data, Body,       \* contents of cells; those of a packet after its first
  Size,             \* cells of the stream, LoopbackStream::DEFAULT_SIZE, and of rx_buffer
  MaxAnswers,       \* answers to a request: at most LOGGER_NB_SLOTS
  MaxSends          \* bound on the packets sent

Supported == {"message", "config", "bulletin", "request"}

ASSUME PacketsAssumption ==
  /\ Packets # {}
  /\ Size \in Nat \ {0} /\ MaxAnswers \in Nat /\ MaxSends \in Nat
  /\ Kind \in [Packets -> Supported \cup {"other"}]
  /\ Body \in [Packets -> Seq(Data)]
  /\ \A p \in Packets : Len(Body[p]) < Size

VARIABLES
  sending,          \* cells of the packet the app is writing, not yet received
  fifo,             \* cells bleuart has received
  stream,           \* ble_stream
  rx,               \* rx_buffer
  pc,               \* where syshal_ble_callback is
  current, answers, \* the packet acted on, and the answers that remain
  begun, done,      \* history: times a packet was sent, and acted on
  batch, inbox      \* history: what the callback has drained, and what the app got

hist == <<begun, done, batch, inbox>>
vars == <<sending, fifo, stream, rx, pc, current, answers, hist>>

Head1(p)  == [is |-> "head", of |-> p]
Ack(p)    == [is |-> "ack", of |-> p]
Answer(p) == [is |-> "answer", of |-> p]
Nack      == [is |-> "nack"]
Blank     == [is |-> "blank"]

Cells(p) == <<Head1(p)>> \o [i \in DOMAIN Body[p] |-> [is |-> "data", of |-> Body[p][i]]]

Cell == [is : {"head", "ack", "answer"}, of : Packets] \cup [is : {"data"}, of : Data] \cup {Nack, Blank}

Init ==
  /\ sending = <<>> /\ fifo = <<>> /\ stream = <<>>
  /\ rx = [i \in 1 .. Size |-> Blank]
  /\ pc = "idle" /\ current = (CHOOSE p \in Packets : TRUE) /\ answers = 0
  /\ begun = [p \in Packets |-> 0] /\ done = [p \in Packets |-> 0]
  /\ batch = <<>> /\ inbox = <<>>

-----------------------------------------------------------------------------
(* The app and the BLE link: the cells of a packet come one by one, and the *)
(* rest of them not at all when the connection is lost.                     *)

Send(p) ==
  /\ sending = <<>> /\ begun[p] < MaxSends
  /\ sending' = Cells(p)
  /\ begun' = [begun EXCEPT ![p] = @ + 1]
  /\ UNCHANGED <<fifo, stream, rx, pc, current, answers, done, batch, inbox>>

Notify ==
  /\ sending # <<>>
  /\ fifo' = Append(fifo, Head(sending)) /\ sending' = Tail(sending)
  /\ UNCHANGED <<stream, rx, pc, current, answers, hist>>

Disconnect ==
  /\ sending # <<>>
  /\ sending' = <<>>
  /\ UNCHANGED <<fifo, stream, rx, pc, current, answers, hist>>

-----------------------------------------------------------------------------
(* The callback. *)

(* LoopbackStream::write: what does not fit is lost. *)
Written(s, cells) == SubSeq(s \o cells, 1, IF Len(s) + Len(cells) > Size THEN Size ELSE Len(s) + Len(cells))

(* What is read lands at the beginning of the buffer; behind it remains     *)
(* what was there before.                                                   *)
Filled(cells) == [i \in 1 .. Size |-> IF i <= Len(cells) THEN cells[i] ELSE rx[i]]

(* The decoder finds p if the buffer begins with all of it, whether or not  *)
(* all of it has just been received.                                        *)
Decodes(p) == \A i \in 1 .. Len(Cells(p)) : rx[i] = Cells(p)[i]

(* Variant: the callback does not ask whether anything has come. *)
ReceiveUnasked ==
  /\ pc = "idle"
  /\ LET read == Written(stream, fifo)
     IN  rx' = Filled(read)
  /\ stream' = <<>>
  /\ batch' = fifo /\ fifo' = <<>>
  /\ pc' \in {"decode"} \cup (IF rx'[1].is = "data" THEN {"idle"} ELSE {})
  /\ UNCHANGED <<sending, current, answers, begun, done, inbox>>

(* All that has come is written to the stream, and an_packet_receive_id     *)
(* reads it back.  If the buffer does not begin with a header, its length   *)
(* may read 0, which ends the callback.                                     *)
Receive ==
  /\ pc = "idle"
  /\ LET read == Written(stream, fifo)
     IN  read # <<>> /\ rx' = Filled(read)
  /\ stream' = <<>>
  /\ batch' = fifo /\ fifo' = <<>>
  /\ pc' \in {"decode"} \cup (IF rx'[1].is = "data" THEN {"idle"} ELSE {})
  /\ UNCHANGED <<sending, current, answers, begun, done, inbox>>

(* Variant: the first answer goes before the acknowledgement. *)
AcceptSwapped(p) ==
  /\ pc = "decode" /\ Kind[p] \in Supported /\ Decodes(p)
  /\ stream' = Written(stream, IF Kind[p] = "request" THEN <<Answer(p), Ack(p)>> ELSE <<Ack(p)>>)
  /\ done' = [done EXCEPT ![p] = @ + 1]
  /\ current' = p
  /\ answers' = 0
  /\ pc' = IF Kind[p] \in {"message", "request"} THEN "reply" ELSE "clear"
  /\ UNCHANGED <<sending, fifo, rx, begun, batch, inbox>>

(* receive_..._packet with an acknowledgement, and what the packet asks    *)
(* for.                                                                     *)
Accept(p) ==
  /\ pc = "decode" /\ Kind[p] \in Supported /\ Decodes(p)
  /\ stream' = Written(stream, <<Ack(p)>>)
  /\ done' = [done EXCEPT ![p] = @ + 1]
  /\ current' = p
  /\ answers' \in IF Kind[p] = "request" THEN 0 .. MaxAnswers ELSE {0}
  /\ pc' = IF Kind[p] \in {"message", "request"} THEN "reply" ELSE "clear"
  /\ UNCHANGED <<sending, fifo, rx, begun, batch, inbox>>

Found == \E p \in Packets : Kind[p] \in Supported /\ Decodes(p)

(* Variant: a packet is acknowledged by its header. *)
RejectAcks ==
  /\ pc = "decode" /\ ~Found
  /\ \E p \in Packets : rx[1] = Head1(p) /\ stream' = Written(stream, <<Ack(p)>>)
  /\ pc' = "reply"
  /\ UNCHANGED <<sending, fifo, rx, current, answers, hist>>

(* A packet that is not supported, or not whole: the latter is acknowledged *)
(* as failed, into the stream only.                                         *)
Reject ==
  /\ pc = "decode" /\ ~Found
  /\ stream' \in {stream, Written(stream, <<Nack>>)}
  /\ pc' = "clear"
  /\ UNCHANGED <<sending, fifo, rx, current, answers, hist>>

(* Variant: the last answer is sent twice. *)
ReplyOneMore ==
  /\ pc = "reply"
  /\ inbox' = inbox \o stream /\ stream' = <<>>
  /\ pc' = IF answers >= 0 THEN "answer" ELSE "clear"
  /\ UNCHANGED <<sending, fifo, rx, current, answers, begun, done, batch>>

(* ble_write_req: all of the stream goes to the app. *)
Reply ==
  /\ pc = "reply"
  /\ inbox' = inbox \o stream /\ stream' = <<>>
  /\ pc' = IF answers > 0 THEN "answer" ELSE "clear"
  /\ UNCHANGED <<sending, fifo, rx, current, answers, begun, done, batch>>

SendAnswer ==
  /\ pc = "answer"
  /\ stream' = Written(stream, <<Answer(current)>>)
  /\ answers' = answers - 1
  /\ pc' = "reply"
  /\ UNCHANGED <<sending, fifo, rx, current, hist>>

(* Variant: the stream is left as it is. *)
ClearNot ==
  /\ pc = "clear"
  /\ pc' = "idle"
  /\ UNCHANGED <<sending, fifo, stream, rx, current, answers, hist>>

Clear ==
  /\ pc = "clear"
  /\ stream' = <<>>
  /\ pc' = "idle"
  /\ UNCHANGED <<sending, fifo, rx, current, answers, hist>>

Callback == Receive \/ (\E p \in Packets : Accept(p)) \/ Reject \/ Reply \/ SendAnswer \/ Clear

Next == (\E p \in Packets : Send(p)) \/ Notify \/ Disconnect \/ Callback

Spec == Init /\ [][Next]_vars

-----------------------------------------------------------------------------
(* Properties. *)

(* The type invariant. *)
TypeOK ==
  /\ sending \in Seq(Cell) /\ fifo \in Seq(Cell) /\ stream \in Seq(Cell) /\ Len(stream) <= Size
  /\ rx \in [1 .. Size -> Cell]
  /\ pc \in {"idle", "decode", "reply", "answer", "clear"}
  /\ current \in Packets /\ answers \in 0 .. MaxAnswers
  /\ begun \in [Packets -> Nat] /\ done \in [Packets -> Nat]
  /\ batch \in Seq(Cell) /\ inbox \in Seq(Cell)

(* Although the receive buffer keeps the bytes of earlier packets, and a    *)
(* packet of which only a part has come may be completed by them, a packet  *)
(* is acted on at most once each time the app sends it.                     *)
OncePerSending == \A p \in Packets : done[p] <= begun[p]

Times(s, cell) == Cardinality({i \in DOMAIN s : s[i] = cell})

(* An acknowledgement tells the truth: the app gets one for a packet at     *)
(* most as often as it was acted on, and for a message and a request        *)
(* exactly as often.                                                        *)
AckMeansActed ==
  \A p \in Packets :
    /\ Times(inbox, Ack(p)) <= done[p]
    /\ pc = "idle" /\ Kind[p] \in {"message", "request"} => Times(inbox, Ack(p)) = done[p]

(* The app can tell what an answer belongs to: it comes after the           *)
(* acknowledgement of its request, with nothing else in between.            *)
AnswersFollowAck ==
  \A i \in DOMAIN inbox : inbox[i].is = "answer" =>
    \E j \in 1 .. i - 1 : /\ inbox[j] = Ack(inbox[i].of)
                          /\ \A k \in j + 1 .. i : inbox[k] = inbox[i]

StartsWith(cells, p) == Len(Cells(p)) <= Len(cells) /\ SubSeq(cells, 1, Len(Cells(p))) = Cells(p)

(* Whatever came before - half packets, packets cut off, refused ones,      *)
(* too many at once - a supported packet that comes whole and first is      *)
(* acted on.                                                                *)
Resynchronises ==
  \A p \in Packets : pc \in {"reply", "answer", "clear", "idle"} /\ Kind[p] \in Supported /\ StartsWith(batch, p)
    => current = p /\ done[p] > 0
=============================================================================
