------------------------ MODULE AstronodeLinkProofs ------------------------
(***************************************************************************)
(* Proofs about AstronodeLink, for any ids, any queue and any number of    *)
(* late and disturbed answers.                                             *)
(***************************************************************************)
EXTENDS AstronodeLink, SequenceTheorems, FiniteSetTheorems, TLAPS

Codes == {"NO_ACK", "NO_ACK_CLEAR", "NO_COMMAND", "NO_COMMAND_CLEAR", "DUPLICATE_ID", "BUFFER_FULL",
          "OPCODE_NOT_VALID", "REFUSED"}

Frames == [reg : Requests \cup {"ERR", "piece"}, size : 0 .. 84,
           value : Ids \cup {0} \cup Codes \cup DOMAIN Reaction, of : 0 .. MaxPasses, ok : BOOLEAN]

(* What the modem may have put in the line when satellites have taken the   *)
(* payloads of these ids.                                                   *)
Genuine(ids) ==
  {a \in Frames :
     /\ a.reg \in Requests => a.size = AnswerLength[a.reg]
     /\ a.reg = "ERR" => a.size = 2
     /\ a.reg = "EVT_RR" => a.value \in DOMAIN Reaction
     /\ a.reg = "SAK_RR" => a.of \in 1 .. Len(ids) /\ a.value = ids[a.of]}

LineInv == line \in Seq(Genuine(given))

DriverInv ==
  /\ request \in Requests \cup {"idle", "error"}
  /\ id \in Ids \cup {0} /\ msg_id \in Ids \cup {0, Unset} /\ provisioned \in BOOLEAN
  /\ read \subseteq 1 .. Len(given)

BoundInv == timeouts \in 0 .. MaxTimeouts /\ noise \in 0 .. MaxNoise

ModemInv ==
  /\ queue \subseteq Ids /\ IsFiniteSet(queue)
  /\ given \in Seq(Ids) /\ acks \in Seq(1 .. Len(given))
  /\ cmds \in Nat /\ Len(given) + cmds <= MaxPasses
  /\ cmd \in BOOLEAN /\ reset_evt \in BOOLEAN
  /\ cleared \subseteq 1 .. MaxPasses

(* What the answer to the request in progress, if it is first in the line,  *)
(* still says of the modem: satellites may acknowledge meanwhile, and no    *)
(* more.                                                                    *)
FrontInv ==
  line # <<>> /\ line[1].reg = request =>
    /\ request = "SAK_RR" => acks # <<>> /\ line[1].of = Head(acks)
    /\ request = "EVT_RR" /\ line[1].value = "MSG_ACK" => acks # <<>>
    /\ request = "PLD_ER" => InUse(id)

AckInv ==
  /\ OnlyReadAcksCleared
  /\ timeouts = 0 => FrontInv /\ (request = "SAK_RR" => acks # <<>>)

LinkInv == LineInv /\ DriverInv /\ BoundInv /\ ModemInv /\ Paired /\ AckInv

-----------------------------------------------------------------------------
(* Tables. *)

LEMMA Tables ==
  /\ Requests = {"EVT_RR", "SAK_RR", "SAK_CR", "CMD_RR", "CMD_CR", "RES_CR", "PLD_ER", "PLD_FR",
                 "CFG_WR", "SSC_WR", "CFG_SR", "PER_SR", "PER_CR", "PER_RR", "dummy"}
  /\ \A op \in Requests : AnswerLength[op] \in 0 .. 84
  /\ AnswerLength["EVT_RR"] = 1 /\ AnswerLength["SAK_RR"] = 2 /\ AnswerLength["PLD_ER"] = 2
BY DEF Requests, AnswerLength

LEMMA Reactions ==
  /\ DOMAIN Reaction = {"MSG_ACK", "RESET", "CMD_RECEIVED", "NO_EVENT", "MSG_PENDING"}
  /\ \A v \in DOMAIN Reaction : Reaction[v] \in Requests \ {"PLD_ER"}
BY Tables DEF Reaction

LEMMA Follows ==
  /\ DOMAIN Ignored \subseteq Requests
  /\ \A op \in DOMAIN Ignored : Ignored[op] \in Requests \ {"PLD_ER"}
  /\ DOMAIN Configured \subseteq Requests
  /\ \A op \in DOMAIN Configured : Configured[op] \in Requests \ {"PLD_ER"}
BY Tables DEF Ignored, Configured

LEMMA PieceGenuine == ASSUME NEW ids PROVE Piece \in Genuine(ids)
BY Tables, LinkAssumption DEF Genuine, Frames, Piece

LEMMA SeqGrows ==
  ASSUME NEW S, NEW T, S \subseteq T, NEW s \in Seq(S)
  PROVE  s \in Seq(T)
<1>1. \A k \in 1 .. Len(s) : s[k] \in T
  OBVIOUS
<1> QED
  BY <1>1

LEMMA GenuineGrows ==
  ASSUME NEW i \in Ids, given \in Seq(Ids)
  PROVE  /\ Genuine(given) \subseteq Genuine(Append(given, i))
         /\ Seq(Genuine(given)) \subseteq Seq(Genuine(Append(given, i)))
<1>1. Genuine(given) \subseteq Genuine(Append(given, i))
  <2>1. /\ Len(Append(given, i)) = Len(given) + 1 /\ Len(given) \in Nat
        /\ \A k \in 1 .. Len(given) : Append(given, i)[k] = given[k]
    BY AppendProperties
  <2>2. 1 .. Len(given) \subseteq 1 .. Len(Append(given, i))
    BY <2>1
  <2> QED
    BY <2>1, <2>2 DEF Genuine
<1> QED
  BY <1>1, SeqGrows

-----------------------------------------------------------------------------
LEMMA TailEmpty ==
  ASSUME NEW S, NEW s \in Seq(S), Len(s) = 1
  PROVE  Tail(s) = <<>>
<1>1. s # <<>> /\ Len(s) - 1 = 0
  OBVIOUS
<1>2. Tail(s) \in Seq(S) /\ Len(Tail(s)) = 0
  BY <1>1, HeadTailProperties
<1>3. \A t \in Seq(S) : t # <<>> => Len(t) \in Nat \ {0}
  BY EmptySeq
<1> QED
  BY <1>2, <1>3

(* What is dropped leaves an end of the line, with a piece in front or not, *)
(* and nothing of an empty one.                                             *)
LEMMA SuffixType ==
  ASSUME NEW S, NEW s \in Seq(S), NEW t \in Suffixes(s)
  PROVE  t \in Seq(S) /\ (s = <<>> => t = <<>>)
<1>1. PICK k \in 1 .. Len(s) + 1 : t = SubSeq(s, k, Len(s))
  BY DEF Suffixes
<1>2. t \in Seq(S)
  BY <1>1
<1>3. ASSUME s = <<>> PROVE t = <<>>
  BY <1>1, <1>2, <1>3
<1> QED
  BY <1>2, <1>3

LEMMA DroppedType ==
  ASSUME NEW S, Piece \in S, NEW s \in Seq(S), NEW u \in Dropped(s)
  PROVE  /\ u.rest \in Seq(S) /\ u.cut \in {0, 1}
         /\ s = <<>> => u.rest = <<>>
<1>1. CASE u \in {[rest |-> t, cut |-> 0] : t \in Suffixes(s)}
  <2>1. PICK t \in Suffixes(s) : u = [rest |-> t, cut |-> 0]
    BY <1>1
  <2> QED
    BY <2>1, SuffixType
<1>2. CASE u \in {[rest |-> <<Piece>> \o Tail(t), cut |-> 1] : t \in Suffixes(s) \ {<<>>}}
  <2>1. PICK t \in Suffixes(s) \ {<<>>} : u = [rest |-> <<Piece>> \o Tail(t), cut |-> 1]
    BY <1>2
  <2>2. t \in Seq(S) /\ s # <<>>
    BY <2>1, SuffixType
  <2>3. Tail(t) \in Seq(S)
    BY <2>1, <2>2
  <2>4. <<Piece>> \in Seq(S)
    OBVIOUS
  <2>5. <<Piece>> \o Tail(t) \in Seq(S)
    BY <2>3, <2>4
  <2> QED
    BY <2>1, <2>2, <2>5
<1> QED
  BY <1>1, <1>2 DEF Dropped

(* An answer to the request itself, and an error, fit the buffer. *)
LEMMA AnswerFits ==
  ASSUME NEW op \in Requests, NEW a, a.reg \in {op, "ERR"},
         a.reg = "ERR" => a.size = 2, a.reg = op => a.size = AnswerLength[op]
  PROVE  Fits(op, a)
<1>1. AnswerLength[op] \in Nat /\ (a.size = 2 \/ a.size = AnswerLength[op])
  BY Tables
<1> QED
  BY <1>1 DEF Fits, FrameLength, ReadLimit

(* What a read returns and leaves. *)
LEMMA ReadsType ==
  ASSUME LinkInv, request \in Requests, NEW r \in Reads(request)
  PROVE  /\ r.rest \in Seq(Genuine(given)) /\ r.cut \in {0, 1} /\ r.late \in {0, 1}
         /\ noise + r.cut <= MaxNoise /\ timeouts + r.late <= MaxTimeouts
         /\ r.answer # NoAnswer =>
              line # <<>> /\ r.answer = Head(line) /\ r.answer \in Genuine(given)
         /\ timeouts = 0 /\ r.late = 0 => r.rest = <<>>
<1> DEFINE S == Genuine(given)
<1>0. noise + 0 <= MaxNoise /\ timeouts + 0 <= MaxTimeouts
  BY LinkAssumption DEF LinkInv, BoundInv
<1>1. line \in Seq(S) /\ Piece \in S
  BY PieceGenuine DEF LinkInv, LineInv
<1>2. CASE line = <<>>
  <2>1. r = [answer |-> NoAnswer, rest |-> <<>>, cut |-> 0, late |-> 0]
    BY <1>2, Zenon DEF Reads
  <2>2. <<>> \in Seq(S)
    BY EmptySeq
  <2> QED
    BY <1>0, <2>1, <2>2
<1>3. ASSUME line # <<>>
      PROVE  Head(line) \in S /\ Tail(line) \in Seq(S) /\ <<Piece>> \o Tail(line) \in Seq(S)
  <2> HIDE DEF S
  <2>1. Head(line) \in S /\ Tail(line) \in Seq(S)
    BY <1>1, <1>3
  <2>2. <<Piece>> \in Seq(S)
    BY <1>1
  <2> QED
    BY <2>1, <2>2
<1>4. CASE /\ line # <<>>
           /\ r \in {[answer |-> Head(line), rest |-> u.rest, cut |-> u.cut, late |-> 0] :
                       u \in {v \in Unread(request) : noise + v.cut <= MaxNoise}}
  <2>1. PICK u \in Unread(request) :
          /\ noise + u.cut <= MaxNoise
          /\ r = [answer |-> Head(line), rest |-> u.rest, cut |-> u.cut, late |-> 0]
    BY <1>4
  <2>2. u \in Dropped(Tail(line)) \/ u \in Dropped(<<Piece>> \o Tail(line))
    BY <2>1 DEF Unread
  <2>3. u.rest \in Seq(S) /\ u.cut \in {0, 1}
    <3> HIDE DEF S
    <3> QED
      BY <1>1, <1>3, <1>4, <2>2, DroppedType
  <2>4. ASSUME timeouts = 0 PROVE u.rest = <<>>
    <3>1. Len(line) = 1 /\ line[1].reg \in {request, "ERR"}
      BY <1>4, <2>4 DEF LinkInv, Paired
    <3>2. Head(line) = line[1]
      BY <1>1, <3>1
    <3>3. Fits(request, Head(line))
      BY <1>3, <1>4, <3>1, <3>2, AnswerFits DEF Genuine
    <3>4. Tail(line) = <<>>
      <4> HIDE DEF S
      <4> QED
        BY <1>1, <3>1, TailEmpty
    <3>5. u \in Dropped(Tail(line))
      BY <2>1, <3>3 DEF Unread
    <3>6. \A s \in Seq(S) : s = <<>> => \A v \in Dropped(s) : v.rest = <<>>
      <4> HIDE DEF S
      <4> QED
        BY <1>1, DroppedType
    <3> QED
      <4> HIDE DEF S
      <4> QED
        BY <1>3, <1>4, <3>4, <3>5, <3>6
  <2> QED
    BY <1>0, <1>3, <1>4, <2>1, <2>3, <2>4
<1>5. CASE /\ line # <<>> /\ timeouts < MaxTimeouts
           /\ r \in {[answer |-> NoAnswer, rest |-> s, cut |-> 0, late |-> 1] :
                       s \in {line, <<Piece>> \o Tail(line)}}
  <2>1. PICK s \in {line, <<Piece>> \o Tail(line)} :
          r = [answer |-> NoAnswer, rest |-> s, cut |-> 0, late |-> 1]
    BY <1>5
  <2>2. s \in Seq(S)
    BY <1>1, <1>3, <1>5
  <2>3. timeouts + 1 <= MaxTimeouts
    BY <1>5, LinkAssumption DEF LinkInv, BoundInv
  <2> QED
    BY <1>0, <2>1, <2>2, <2>3
<1> QED
  BY <1>2, <1>4, <1>5 DEF Reads

-----------------------------------------------------------------------------
(* Requests. *)

(* The answers of the modem are to the request, or errors. *)
LEMMA AnswersType ==
  ASSUME ModemInv, NEW op \in Requests, NEW i \in Ids \cup {0}, op = "PLD_ER" => i \in Ids,
         NEW a \in Answers(op, i)
  PROVE  /\ a \in Genuine(given) /\ a.reg \in {op, "ERR"}
         /\ op = "SAK_RR" /\ a.reg = op => acks # <<>> /\ a.of = Head(acks)
         /\ op = "EVT_RR" /\ a.value = "MSG_ACK" => acks # <<>>
         /\ op = "PLD_ER" /\ a.reg = op => Accepts(op, i)
<1>1. Ids \subseteq Nat /\ MaxPasses \in Nat
  BY LinkAssumption
<1>2. ASSUME NEW c \in Codes PROVE Error(c) \in Genuine(given) /\ Error(c).reg = "ERR"
  BY <1>1, Tables DEF Error, Frame, Genuine, Frames
<1>3. CASE op = "EVT_RR"
  <2>1. a = Frame("EVT_RR", 1, Event, 0)
    BY <1>3 DEF Answers, Accepts
  <2>2. Event \in DOMAIN Reaction /\ (Event = "MSG_ACK" => acks # <<>>)
    BY Reactions DEF Event
  <2> QED
    BY <1>1, <1>3, <2>1, <2>2, Tables DEF Frame, Genuine, Frames
<1>4. CASE op = "SAK_RR"
  <2>1. CASE acks # <<>>
    <3>1. a = Frame("SAK_RR", 2, given[Head(acks)], Head(acks))
      BY <1>4, <2>1 DEF Answers, Accepts
    <3>2. Head(acks) \in 1 .. Len(given)
      BY <2>1 DEF ModemInv
    <3>3. given[Head(acks)] \in Ids /\ Head(acks) \in 0 .. MaxPasses
      BY <1>1, <3>2 DEF ModemInv
    <3>4. a \in Frames
      BY <1>1, <3>1, <3>3, Tables DEF Frame, Frames
    <3> QED
      BY <1>4, <2>1, <3>1, <3>2, <3>4, Tables DEF Frame, Genuine
  <2>2. CASE acks = <<>>
    <3>1. a = Error("NO_ACK")
      BY <1>4, <2>2 DEF Answers, Accepts
    <3> QED
      BY <1>2, <1>4, <3>1 DEF Codes
  <2> QED
    BY <2>1, <2>2
<1>5. CASE op = "PLD_ER"
  <2>1. CASE Accepts(op, i)
    <3>1. a = Frame("PLD_ER", 2, i, 0)
      BY <1>5, <2>1 DEF Answers
    <3> QED
      BY <1>1, <1>5, <2>1, <3>1, Tables DEF Frame, Genuine, Frames
  <2>2. CASE ~Accepts(op, i)
    <3>1. a \in {Error(c) : c \in (IF InUse(i) THEN {"DUPLICATE_ID"} ELSE {})
                                 \cup (IF Full THEN {"BUFFER_FULL"} ELSE {})}
      BY <1>5, <2>2 DEF Answers
    <3>2. \E c \in {"DUPLICATE_ID", "BUFFER_FULL"} : a = Error(c)
      BY <3>1
    <3> QED
      BY <1>2, <1>5, <3>2 DEF Codes
  <2> QED
    BY <2>1, <2>2
<1>6. CASE op \notin {"EVT_RR", "SAK_RR", "PLD_ER"}
  <2>1. \/ a \in {Error(c) : c \in Codes}
        \/ a = Frame(op, AnswerLength[op], 0, 0)
    BY <1>6 DEF Answers, Accepts, Codes
  <2>2. CASE a \in {Error(c) : c \in Codes}
    BY <1>2, <1>6, <2>2
  <2>3. CASE a = Frame(op, AnswerLength[op], 0, 0)
    <3>1. op \notin {"ERR", "EVT_RR", "SAK_RR", "PLD_ER"} /\ AnswerLength[op] \in 0 .. 84
      BY <1>6, Tables
    <3>2. /\ a = [reg |-> op, size |-> AnswerLength[op], value |-> 0, of |-> 0, ok |-> TRUE]
          /\ a.reg = op /\ a.size = AnswerLength[op]
      BY <2>3 DEF Frame
    <3>3. a \in Frames
      BY <1>1, <3>1, <3>2 DEF Frames
    <3> QED
      BY <1>6, <3>1, <3>2, <3>3 DEF Genuine
  <2> QED
    BY <2>1, <2>2, <2>3
<1> QED
  BY <1>3, <1>4, <1>5, <1>6

(* The modem's own state after a request it handles. *)
LEMMA HandlesType ==
  ASSUME ModemInv, NEW op \in Requests, NEW i \in Ids \cup {0}, op = "PLD_ER" => i \in Ids,
         Handles(op, i)
  PROVE  /\ ModemInv' /\ given' = given
         /\ Accepts(op, i) => i \in queue'
         /\ op # "SAK_CR" => acks' = acks /\ cleared' = cleared
         /\ op = "SAK_CR" => cleared' \subseteq cleared \cup (IF acks = <<>> THEN {} ELSE {Head(acks)})
<1>1. queue' \subseteq Ids /\ IsFiniteSet(queue')
  <2>1. queue' \in {{}, queue, queue \cup {i}}
    BY DEF Handles
  <2>2. IsFiniteSet(queue')
    <3>1. IsFiniteSet(queue \cup {i}) /\ IsFiniteSet({}) /\ IsFiniteSet(queue)
      BY FS_EmptySet, FS_AddElement DEF ModemInv
    <3> QED
      BY <2>1, <3>1
  <2> QED
    BY <2>2 DEF ModemInv, Handles, Accepts
<1>2. Accepts(op, i) => i \in queue'
  BY DEF Handles, Accepts
<1>3. given' = given /\ cmds' = cmds /\ cmd' \in BOOLEAN /\ reset_evt' \in BOOLEAN
  BY Zenon DEF Handles
<1>4. CASE op = "SAK_CR" /\ acks # <<>>
  <2>1. acks' = Tail(acks) /\ cleared' = cleared \cup {Head(acks)}
    BY <1>4 DEF Handles
  <2>2. acks' \in Seq(1 .. Len(given)) /\ Head(acks) \in 1 .. Len(given)
    BY <1>4, <2>1 DEF ModemInv
  <2>3. Head(acks) \in 1 .. MaxPasses
    BY <2>2, LinkAssumption DEF ModemInv
  <2> QED
    BY <1>1, <1>2, <1>3, <1>4, <2>1, <2>2, <2>3 DEF ModemInv
<1>5. CASE ~(op = "SAK_CR" /\ acks # <<>>)
  <2>1. acks' = acks /\ cleared' = cleared
    BY <1>5 DEF Handles
  <2> QED
    BY <1>1, <1>2, <1>3, <2>1 DEF ModemInv
<1> QED
  BY <1>4, <1>5

(* What a request leaves, after a read r or with the line as it is, whether *)
(* the modem handles it, refuses it or never gets it.                       *)
LEMMA AskType ==
  ASSUME LinkInv, NEW op \in Requests, NEW i \in Ids \cup {0}, op = "PLD_ER" => i \in Ids, NEW r,
         r.rest \in Seq(Genuine(given)), r.cut \in {0, 1},
         Ask(op, i, r)
  PROVE  /\ LineInv' /\ ModemInv' /\ request' = op /\ id' = i /\ given' = given
         /\ noise' \in 0 .. MaxNoise
         /\ r.rest = <<>> =>
              /\ line' = <<>> \/ (Len(line') = 1 /\ line'[1].reg \in {op, "ERR"})
              /\ FrontInv'
         /\ op # "SAK_CR" => acks' = acks /\ cleared' = cleared
         /\ op = "SAK_CR" => cleared' \subseteq cleared \cup (IF acks = <<>> THEN {} ELSE {Head(acks)})
<1>1. request' = op /\ id' = i /\ ModemInv
  BY DEF Ask, LinkInv
<1>2. ASSUME NEW a \in Genuine(given), given' = given, line' = Append(r.rest, a)
      PROVE  LineInv' /\ (r.rest = <<>> => line' # <<>> /\ Len(line') = 1 /\ line'[1] = a)
  <2> DEFINE S == Genuine(given)
  <2>1. a \in S /\ r.rest \in Seq(S)
    BY <1>2
  <2> HIDE DEF S
  <2>2. line' \in Seq(S) /\ Len(line') = Len(r.rest) + 1 /\ line'[Len(r.rest) + 1] = a
    BY <1>2, <2>1
  <2>3. LineInv'
    BY <1>2, <2>2 DEF LineInv, S
  <2> QED
    BY <2>2, <2>3
<1>3. CASE Handles(op, i) /\ \E a \in Answers(op, i) : Answered(a, r)
  <2>1. /\ ModemInv' /\ given' = given
        /\ Accepts(op, i) => i \in queue'
        /\ op # "SAK_CR" => acks' = acks /\ cleared' = cleared
        /\ op = "SAK_CR" => cleared' \subseteq cleared \cup (IF acks = <<>> THEN {} ELSE {Head(acks)})
    BY <1>1, <1>3, HandlesType
  <2>2. PICK a \in Answers(op, i), noisy \in {0, 1} :
          /\ noise' = noise + r.cut + noisy
          /\ line' = Append(r.rest, [a EXCEPT !.ok = (noisy = 0)])
    BY <1>3 DEF Answered
  <2>3. noise' \in 0 .. MaxNoise
    BY <2>2, LinkAssumption DEF Ask, LinkInv, BoundInv
  <2> DEFINE b == [a EXCEPT !.ok = (noisy = 0)]
  <2>4. /\ a \in Genuine(given) /\ a.reg \in {op, "ERR"}
        /\ op = "SAK_RR" /\ a.reg = op => acks # <<>> /\ a.of = Head(acks)
        /\ op = "EVT_RR" /\ a.value = "MSG_ACK" => acks # <<>>
        /\ op = "PLD_ER" /\ a.reg = op => Accepts(op, i)
    BY <1>1, AnswersType
  <2>5. b \in Genuine(given) /\ b.reg = a.reg /\ b.of = a.of /\ b.value = a.value
    <3>1. a \in Frames
      BY <2>4 DEF Genuine
    <3>2. /\ b \in Frames /\ b.reg = a.reg /\ b.of = a.of
          /\ b.size = a.size /\ b.value = a.value
      BY <3>1 DEF Frames
    <3> QED
      BY <2>4, <3>2 DEF Genuine
  <2> HIDE DEF b
  <2>6. LineInv' /\ (r.rest = <<>> => line' # <<>> /\ Len(line') = 1 /\ line'[1] = b)
    BY <1>2, <2>1, <2>2, <2>5 DEF b
  <2>7. ASSUME r.rest = <<>> PROVE FrontInv'
    <3>1. op = "PLD_ER" /\ b.reg = op => InUse(id)'
      BY <1>1, <2>1, <2>4, <2>5 DEF InUse
    <3>2. op \in {"SAK_RR", "EVT_RR"} => acks' = acks
      BY <2>1
    <3> QED
      BY <1>1, <2>4, <2>5, <2>6, <2>7, <3>1, <3>2 DEF FrontInv
  <2> QED
    BY <1>1, <2>1, <2>3, <2>4, <2>5, <2>6, <2>7
<1>4. CASE Refused(r)
  <2>1. /\ noise' = noise + r.cut + 1
        /\ line' \in {r.rest, Append(r.rest, Error("REFUSED"))}
        /\ UNCHANGED <<queue, given, acks, cmds, cmd, reset_evt, cleared>>
    BY <1>4 DEF Refused, modem
  <2>2. ModemInv'
    BY <1>1, <2>1 DEF ModemInv
  <2>3. noise' \in 0 .. MaxNoise
    BY <2>1, LinkAssumption DEF Ask, LinkInv, BoundInv
  <2>4. CASE line' = r.rest
    <3>1. LineInv'
      BY <2>1, <2>4 DEF LineInv
    <3> QED
      BY <1>1, <2>1, <2>2, <2>3, <2>4, <3>1 DEF FrontInv
  <2>5. CASE line' = Append(r.rest, Error("REFUSED"))
    <3>1. Error("REFUSED") \in Genuine(given) /\ Error("REFUSED").reg = "ERR"
      BY LinkAssumption, Tables DEF Error, Frame, Genuine, Frames, Codes
    <3>2. LineInv' /\ (r.rest = <<>> => Len(line') = 1 /\ line'[1].reg = "ERR")
      BY <1>2, <2>1, <2>5, <3>1
    <3>3. op # "ERR"
      BY Tables
    <3> QED
      BY <1>1, <2>1, <2>2, <2>3, <3>2, <3>3 DEF FrontInv
  <2> QED
    BY <2>1, <2>4, <2>5
<1> QED
  BY <1>3, <1>4 DEF Ask

-----------------------------------------------------------------------------
(* Steps. *)

LEMMA CountsType ==
  ASSUME LinkInv, request \in Requests, NEW r \in Reads(request), Counts(r)
  PROVE  /\ timeouts' \in 0 .. MaxTimeouts
         /\ timeouts' = 0 => timeouts = 0 /\ r.rest = <<>>
<1>1. r.late \in {0, 1} /\ timeouts + r.late <= MaxTimeouts
  BY ReadsType
<1>2. timeouts = 0 /\ r.late = 0 => r.rest = <<>>
  BY ReadsType
<1> QED
  BY <1>1, <1>2, LinkAssumption DEF Counts, LinkInv, BoundInv

(* One request ends and the next one is sent. *)
LEMMA ReadAsk ==
  ASSUME LinkInv, request \in Requests, NEW op \in Requests, NEW i \in Ids \cup {0}, op = "PLD_ER" => i \in Ids,
         NEW r \in Reads(request), Counts(r), Ask(op, i, r),
         provisioned' \in BOOLEAN, msg_id' \in Ids \cup {0, Unset},
         read \subseteq read', read' \subseteq 1 .. Len(given),
         op = "SAK_RR" /\ timeouts' = 0 => acks # <<>>,
         op = "SAK_CR" /\ timeouts' = 0 /\ acks # <<>> => Head(acks) \in read'
  PROVE  LinkInv'
<1>1. r.rest \in Seq(Genuine(given)) /\ r.cut \in {0, 1}
  BY ReadsType
<1>2. timeouts' \in 0 .. MaxTimeouts /\ (timeouts' = 0 => timeouts = 0 /\ r.rest = <<>>)
  BY CountsType
<1>3. /\ LineInv' /\ ModemInv' /\ request' = op /\ id' = i /\ given' = given
      /\ noise' \in 0 .. MaxNoise
      /\ r.rest = <<>> =>
           /\ line' = <<>> \/ (Len(line') = 1 /\ line'[1].reg \in {op, "ERR"})
           /\ FrontInv'
      /\ op # "SAK_CR" => acks' = acks /\ cleared' = cleared
      /\ op = "SAK_CR" => cleared' \subseteq cleared \cup (IF acks = <<>> THEN {} ELSE {Head(acks)})
  BY <1>1, AskType
<1>4. DriverInv'
  BY <1>3 DEF DriverInv
<1>5. BoundInv'
  BY <1>2, <1>3 DEF BoundInv
<1>6. Paired'
  BY <1>2, <1>3, Tables DEF Paired
<1>7. OnlyReadAcksCleared'
  BY <1>2, <1>3 DEF OnlyReadAcksCleared, LinkInv, AckInv
<1>8. AckInv'
  BY <1>2, <1>3, <1>7 DEF AckInv
<1> QED
  BY <1>3, <1>4, <1>5, <1>6, <1>8 DEF LinkInv

(* The last request of a sequence ends. *)
LEMMA ReadStop ==
  ASSUME LinkInv, request \in Requests, NEW at \in {"idle", "error"},
         NEW r \in Reads(request), Counts(r), Stop(at, r),
         provisioned' \in BOOLEAN, UNCHANGED <<msg_id, read>>
  PROVE  LinkInv'
<1>1. r.rest \in Seq(Genuine(given)) /\ r.cut \in {0, 1} /\ noise + r.cut <= MaxNoise
  BY ReadsType
<1>2. timeouts' \in 0 .. MaxTimeouts /\ (timeouts' = 0 => timeouts = 0 /\ r.rest = <<>>)
  BY CountsType
<1>3. /\ request' = at /\ id' = 0 /\ line' = r.rest /\ noise' = noise + r.cut
      /\ UNCHANGED <<queue, given, acks, cmds, cmd, reset_evt, cleared>>
  BY DEF Stop, modem
<1>4. at \notin Requests
  BY Tables
<1>5. LineInv' /\ ModemInv'
  BY <1>1, <1>3 DEF LinkInv, LineInv, ModemInv
<1>6. DriverInv'
  BY <1>3, <1>4 DEF LinkInv, DriverInv
<1>7. BoundInv'
  BY <1>1, <1>2, <1>3, LinkAssumption DEF LinkInv, BoundInv
<1>8. Paired'
  BY <1>2, <1>3, <1>4 DEF Paired
<1>9. AckInv'
  BY <1>2, <1>3 DEF LinkInv, AckInv, OnlyReadAcksCleared, FrontInv
<1> QED
  BY <1>5, <1>6, <1>7, <1>8, <1>9 DEF LinkInv

(* A request is sent by an idle driver. *)
LEMMA IdleAsk ==
  ASSUME LinkInv, request = "idle", NEW op \in Requests \ {"SAK_CR", "SAK_RR"}, NEW i \in Ids \cup {0},
         op = "PLD_ER" => i \in Ids, Ask(op, i, Undisturbed),
         provisioned' \in BOOLEAN, UNCHANGED <<msg_id, timeouts, read>>
  PROVE  LinkInv'
<1> DEFINE r == Undisturbed
<1>1. r.rest = line /\ r.cut = 0 /\ line \in Seq(Genuine(given))
  BY DEF Undisturbed, LinkInv, LineInv
<1>2. timeouts' \in 0 .. MaxTimeouts /\ (timeouts' = 0 => timeouts = 0 /\ r.rest = <<>>)
  BY <1>1 DEF LinkInv, BoundInv, Paired
<1>3. /\ LineInv' /\ ModemInv' /\ request' = op /\ id' = i /\ given' = given
      /\ noise' \in 0 .. MaxNoise
      /\ r.rest = <<>> =>
           /\ line' = <<>> \/ (Len(line') = 1 /\ line'[1].reg \in {op, "ERR"})
           /\ FrontInv'
      /\ cleared' = cleared
  <2> HIDE DEF r
  <2>1. r.rest \in Seq(Genuine(given)) /\ r.cut \in {0, 1} /\ Ask(op, i, r)
    BY <1>1 DEF r
  <2> QED
    BY <2>1, AskType
<1> HIDE DEF r
<1>4. DriverInv'
  BY <1>3 DEF LinkInv, DriverInv
<1>5. BoundInv'
  BY <1>2, <1>3 DEF BoundInv
<1>6. Paired'
  BY <1>2, <1>3, Tables DEF Paired
<1>7. AckInv'
  BY <1>2, <1>3 DEF LinkInv, AckInv, OnlyReadAcksCleared
<1> QED
  BY <1>3, <1>4, <1>5, <1>6, <1>7 DEF LinkInv

LEMMA InitInv == Init => LinkInv
<1> SUFFICES ASSUME Init PROVE LinkInv
  OBVIOUS
<1> USE LinkAssumption DEF Init
<1>1. Error("OPCODE_NOT_VALID") \in Genuine(given) /\ Error("OPCODE_NOT_VALID").reg = "ERR"
  BY Tables DEF Genuine, Frames, Error, Frame, Codes
<1>2. LineInv /\ Len(line) = 1 /\ line[1].reg = "ERR"
  BY <1>1 DEF LineInv
<1>3. DriverInv /\ BoundInv
  <2>1. request \in Requests /\ provisioned \in BOOLEAN
    BY Tables
  <2> QED
    BY <2>1 DEF DriverInv, BoundInv
<1>4. ModemInv
  <2>0. IsFiniteSet(queue)
    BY FS_EmptySet
  <2>1. given \in Seq(Ids) /\ Len(given) = 0 /\ acks \in Seq(1 .. Len(given))
    BY EmptySeq
  <2>2. cmds \in Nat /\ Len(given) + cmds <= MaxPasses
    BY <2>1
  <2>3. cmd \in BOOLEAN /\ reset_evt \in BOOLEAN
    OBVIOUS
  <2> QED
    BY <2>0, <2>1, <2>2, <2>3 DEF ModemInv
<1>5. Paired /\ AckInv
  BY <1>2, Tables DEF Paired, AckInv, OnlyReadAcksCleared, FrontInv
<1> QED
  BY <1>2, <1>3, <1>4, <1>5 DEF LinkInv

-----------------------------------------------------------------------------
(* One step per action. *)

(* What an answer that was taken tells. *)
LEMMA SuccessType ==
  ASSUME LinkInv, request \in Requests, NEW r \in Reads(request), NEW op, Success(op, r.answer)
  PROVE  /\ line # <<>> /\ r.answer = Head(line) /\ r.answer.reg = op
         /\ op = "EVT_RR" => r.answer.value \in DOMAIN Reaction
         /\ op = "SAK_RR" => r.answer.of \in 1 .. Len(given) /\ r.answer.value = given[r.answer.of]
<1>1. r.answer.ok /\ r.answer.reg = op
  BY DEF Success, Received
<1>2. r.answer # NoAnswer
  BY <1>1 DEF NoAnswer
<1>3. line # <<>> /\ r.answer = Head(line) /\ r.answer \in Genuine(given)
  BY <1>2, ReadsType
<1> QED
  BY <1>1, <1>3 DEF Genuine

(* As long as no answer was late, what was read is the answer in the line,  *)
(* and what it says of the modem still holds.                               *)
LEMMA InTime ==
  ASSUME LinkInv, request \in Requests, NEW r \in Reads(request), Counts(r), timeouts' = 0,
         Success(request, r.answer)
  PROVE  /\ request = "SAK_RR" => acks # <<>> /\ r.answer.of = Head(acks)
         /\ request = "EVT_RR" /\ r.answer.value = "MSG_ACK" => acks # <<>>
<1>1. line # <<>> /\ r.answer = Head(line) /\ r.answer.reg = request
  BY SuccessType
<1>2. timeouts = 0
  BY CountsType
<1>3. Len(line) = 1 /\ line \in Seq(Genuine(given))
  BY <1>1, <1>2 DEF LinkInv, LineInv, Paired
<1>4. Head(line) = line[1]
  BY <1>3
<1> QED
  BY <1>1, <1>2, <1>4 DEF LinkInv, AckInv, FrontInv

LEMMA InitialStep == ASSUME LinkInv, NextIgnored \/ Saved PROVE LinkInv'
<1>1. CASE NextIgnored
  <2>1. request \in DOMAIN Ignored /\ request \in Requests /\ Ignored[request] \in Requests \ {"PLD_ER"}
    BY <1>1, Follows DEF NextIgnored
  <2>2. Ignored[request] \notin {"SAK_CR", "SAK_RR"}
    BY <2>1 DEF Ignored
  <2>3. PICK r \in Reads(request) : Counts(r) /\ Ask(Ignored[request], 0, r)
    BY <1>1 DEF NextIgnored
  <2>4. /\ provisioned' \in BOOLEAN /\ read' = read /\ read \subseteq 1 .. Len(given)
        /\ msg_id' \in Ids \cup {0, Unset}
    BY <1>1 DEF NextIgnored, LinkInv, DriverInv
  <2> QED
    BY <2>1, <2>2, <2>3, <2>4, ReadAsk
<1>2. CASE Saved
  <2>1. request \in Requests /\ provisioned' \in BOOLEAN /\ UNCHANGED <<msg_id, read>>
    BY <1>2, Tables DEF Saved, LinkInv, DriverInv
  <2>2. PICK r \in Reads(request) : Counts(r) /\ Stop("idle", r)
    BY <1>2 DEF Saved
  <2> QED
    BY <2>1, <2>2, ReadStop
<1> QED
  BY <1>1, <1>2

LEMMA ConfiguredStep == ASSUME LinkInv, NextConfigured PROVE LinkInv'
<1>1. request \in DOMAIN Configured /\ request \in Requests /\ Configured[request] \in Requests \ {"PLD_ER"}
  BY Follows DEF NextConfigured
<1>2. Configured[request] \notin {"SAK_CR", "SAK_RR"}
  BY <1>1 DEF Configured
<1>3. /\ UNCHANGED <<msg_id, read>> /\ read \subseteq 1 .. Len(given)
      /\ msg_id' \in Ids \cup {0, Unset}
  BY DEF NextConfigured, LinkInv, DriverInv
<1>4. PICK r \in Reads(request) :
        /\ Counts(r)
        /\ \/ Ask(Configured[request], 0, r) /\ provisioned' = (request = "CFG_SR")
           \/ Stop("error", r) /\ provisioned' = FALSE
  BY DEF NextConfigured
<1>5. provisioned' \in BOOLEAN
  BY <1>4
<1>6. CASE Ask(Configured[request], 0, r)
  BY <1>1, <1>2, <1>3, <1>4, <1>5, <1>6, ReadAsk
<1>7. CASE Stop("error", r)
  BY <1>1, <1>3, <1>4, <1>5, <1>7, ReadStop
<1> QED
  BY <1>4, <1>6, <1>7

LEMMA RebootStep == ASSUME LinkInv, Reboot PROVE LinkInv'
<1>1. /\ request' = "dummy" /\ id' = 0 /\ line' = <<Error("OPCODE_NOT_VALID")>> /\ provisioned' = FALSE
      /\ reset_evt' = TRUE /\ queue' = {} /\ acks' = <<>> /\ cmd' = FALSE
      /\ UNCHANGED <<msg_id, given, cmds, timeouts, noise, read, cleared>>
  BY DEF Reboot, bounds, history
<1>2. Error("OPCODE_NOT_VALID") \in Genuine(given) /\ Error("OPCODE_NOT_VALID").reg = "ERR"
  BY Tables, LinkAssumption DEF Genuine, Frames, Error, Frame, Codes
<1>3. LineInv' /\ Len(line') = 1 /\ line'[1].reg = "ERR"
  BY <1>1, <1>2 DEF LineInv
<1>4. DriverInv' /\ BoundInv'
  <2>1. request' \in Requests
    BY <1>1, Tables
  <2> QED
    BY <1>1, <2>1 DEF LinkInv, DriverInv, BoundInv
<1>5. ModemInv'
  <2>1. acks' \in Seq(1 .. Len(given')) /\ IsFiniteSet(queue')
    BY <1>1, EmptySeq, FS_EmptySet
  <2> QED
    BY <1>1, <2>1 DEF LinkInv, ModemInv
<1>6. Paired' /\ AckInv'
  BY <1>1, <1>3, Tables DEF LinkInv, Paired, AckInv, OnlyReadAcksCleared, FrontInv
<1> QED
  BY <1>3, <1>4, <1>5, <1>6 DEF LinkInv

LEMMA StartStep == ASSUME LinkInv, Configure \/ StartTick \/ StartStatus \/ StartPush PROVE LinkInv'
<1>1. PICK op \in {"CFG_WR", "EVT_RR", "PER_RR", "PER_SR", "PLD_ER"}, i \in Ids \cup {0} :
        /\ request = "idle" /\ Ask(op, i, Undisturbed)
        /\ op = "PLD_ER" => i \in Ids
        /\ provisioned' \in {FALSE, provisioned} /\ UNCHANGED <<msg_id, timeouts, read>>
  BY DEF Configure, StartTick, StartStatus, StartPush, Start
<1>2. op \in Requests \ {"SAK_CR", "SAK_RR"} /\ provisioned' \in BOOLEAN
  BY <1>1, Tables DEF LinkInv, DriverInv
<1> QED
  BY <1>1, <1>2, IdleAsk

LEMMA SleepStep == ASSUME LinkInv, Sleep PROVE LinkInv'
<1>1. PICK d \in Dropped(line) : line' = d.rest /\ noise' = noise + d.cut
  BY DEF Sleep
<1>2. /\ request = "idle" /\ noise' <= MaxNoise
      /\ UNCHANGED <<request, id, msg_id, provisioned, queue, given, acks, cmds, cmd, reset_evt, timeouts,
                     read, cleared>>
  BY DEF Sleep, modem, history
<1>3. line' \in Seq(Genuine(given)) /\ d.cut \in {0, 1} /\ (line = <<>> => line' = <<>>)
  BY <1>1, PieceGenuine, DroppedType DEF LinkInv, LineInv
<1>4. request \notin Requests
  BY <1>2, Tables
<1>5. LineInv' /\ ModemInv' /\ DriverInv'
  BY <1>2, <1>3, <1>4 DEF LinkInv, LineInv, ModemInv, DriverInv
<1>6. BoundInv'
  BY <1>1, <1>2, <1>3, LinkAssumption DEF LinkInv, BoundInv
<1>7. Paired' /\ AckInv'
  BY <1>2, <1>3, <1>4 DEF LinkInv, Paired, AckInv, OnlyReadAcksCleared, FrontInv
<1> QED
  BY <1>5, <1>6, <1>7 DEF LinkInv

LEMMA SatelliteStep == ASSUME LinkInv, SatellitePass \/ SatelliteCommand PROVE LinkInv'
<1>1. CASE SatellitePass
  <2>1. PICK i \in queue : queue' = queue \ {i} /\ given' = Append(given, i)
    BY <1>1 DEF SatellitePass
  <2>2. /\ acks' = Append(acks, Len(given) + 1) /\ Len(given) + cmds < MaxPasses
        /\ UNCHANGED <<request, id, msg_id, line, provisioned, cmds, cmd, reset_evt, timeouts, noise,
                       read, cleared>>
    BY <1>1 DEF SatellitePass, bounds, history
  <2>3. given' \in Seq(Ids) /\ Len(given') = Len(given) + 1 /\ Len(given) \in Nat
    BY <2>1 DEF LinkInv, ModemInv
  <2>4. acks \in Seq(1 .. Len(given'))
    <3>1. acks \in Seq(1 .. Len(given)) /\ 1 .. Len(given) \subseteq 1 .. Len(given')
      BY <2>3 DEF LinkInv, ModemInv
    <3> QED
      BY <3>1, SeqGrows
  <2>5. acks' \in Seq(1 .. Len(given')) /\ (acks # <<>> => acks' # <<>> /\ Head(acks') = Head(acks))
    BY <2>2, <2>3, <2>4, HeadTailAppend
  <2>6. ModemInv'
    <3>1. IsFiniteSet(queue')
      BY <2>1, FS_RemoveElement DEF LinkInv, ModemInv
    <3> QED
      BY <2>1, <2>2, <2>3, <2>5, <3>1, LinkAssumption DEF LinkInv, ModemInv
  <2>7. LineInv' /\ DriverInv' /\ BoundInv' /\ Paired'
    <3>1. line' \in Seq(Genuine(given'))
      <4>1. i \in Ids /\ given \in Seq(Ids) /\ given' = Append(given, i)
        BY <2>1 DEF LinkInv, ModemInv
      <4>2. line \in Seq(Genuine(given'))
        BY <4>1, GenuineGrows DEF LinkInv, LineInv
      <4> QED
        BY <2>2, <4>2
    <3>2. 1 .. Len(given) \subseteq 1 .. Len(given')
      BY <2>3
    <3> QED
      BY <2>2, <3>1, <3>2 DEF LinkInv, LineInv, DriverInv, BoundInv, Paired
  <2>8. ASSUME InUse(id) PROVE InUse(id)'
    <3> DEFINE n == Len(given) + 1
    <3>1. /\ DOMAIN acks = 1 .. Len(acks) /\ DOMAIN acks' = 1 .. Len(acks) + 1 /\ Len(acks) \in Nat
          /\ acks'[Len(acks) + 1] = n
          /\ \A k \in 1 .. Len(acks) : acks'[k] = acks[k] /\ acks[k] \in 1 .. Len(given)
      BY <2>2, <2>3, <2>4 DEF LinkInv, ModemInv
    <3>2. given'[n] = i /\ \A k \in 1 .. Len(given) : given'[k] = given[k]
      BY <2>1, AppendProperties DEF LinkInv, ModemInv
    <3> HIDE DEF n
    <3>3. CASE \E k \in DOMAIN acks : given[acks[k]] = id
      BY <2>2, <3>1, <3>2, <3>3 DEF InUse
    <3>4. CASE id = i
      BY <2>2, <3>1, <3>2, <3>4 DEF InUse
    <3>5. CASE id \in queue /\ id # i
      BY <2>1, <2>2, <3>5 DEF InUse
    <3> QED
      BY <2>8, <3>3, <3>4, <3>5 DEF InUse
  <2>9. FrontInv => FrontInv'
    BY <2>2, <2>5, <2>8 DEF FrontInv
  <2>10. AckInv'
    BY <2>2, <2>5, <2>9 DEF LinkInv, AckInv, OnlyReadAcksCleared
  <2> QED
    BY <2>6, <2>7, <2>10 DEF LinkInv
<1>2. CASE SatelliteCommand
  <2>1. /\ cmds' = cmds + 1 /\ cmd' = TRUE /\ Len(given) + cmds < MaxPasses
        /\ UNCHANGED <<request, id, msg_id, line, provisioned, queue, given, acks, reset_evt, timeouts,
                       noise, read, cleared>>
    BY <1>2 DEF SatelliteCommand, bounds, history
  <2>2. ModemInv'
    BY <2>1, LinkAssumption DEF LinkInv, ModemInv
  <2>3. LineInv' /\ DriverInv' /\ BoundInv' /\ Paired' /\ AckInv'
    BY <2>1 DEF LinkInv, LineInv, DriverInv, BoundInv, Paired, AckInv, OnlyReadAcksCleared,
                  FrontInv, InUse
  <2> QED
    BY <2>2, <2>3 DEF LinkInv
<1> QED
  BY <1>1, <1>2

LEMMA EventStep == ASSUME LinkInv, EventRead PROVE LinkInv'
<1>1. /\ request = "EVT_RR" /\ request \in Requests /\ provisioned' \in BOOLEAN
      /\ read' = read /\ read \subseteq 1 .. Len(given) /\ msg_id' \in Ids \cup {0, Unset}
  BY Tables DEF EventRead, LinkInv, DriverInv
<1>2. PICK r \in Reads(request) :
        Counts(r) /\ Ask(IF Success("EVT_RR", r.answer) THEN Reaction[r.answer.value] ELSE "PER_SR", 0, r)
  BY DEF EventRead
<1>3. CASE Success("EVT_RR", r.answer)
  <2>1. r.answer.value \in DOMAIN Reaction
    BY <1>1, <1>3, SuccessType
  <2>2. /\ Reaction[r.answer.value] \in Requests \ {"PLD_ER"} /\ Reaction[r.answer.value] # "SAK_CR"
        /\ Reaction[r.answer.value] = "SAK_RR" => r.answer.value = "MSG_ACK"
    BY <2>1, Reactions DEF Reaction
  <2>3. timeouts' = 0 /\ r.answer.value = "MSG_ACK" => acks # <<>>
    BY <1>1, <1>2, <1>3, InTime
  <2> QED
    BY <1>1, <1>2, <1>3, <2>2, <2>3, ReadAsk
<1>4. CASE ~Success("EVT_RR", r.answer)
  <2>1. "PER_SR" \in Requests /\ Ask("PER_SR", 0, r)
    BY <1>2, <1>4, Tables
  <2> QED
    BY <1>1, <1>2, <2>1, ReadAsk
<1> QED
  BY <1>3, <1>4

LEMMA AckStep == ASSUME LinkInv, AckRead PROVE LinkInv'
<1>1. request = "SAK_RR" /\ request \in Requests /\ provisioned' \in BOOLEAN /\ read \subseteq 1 .. Len(given)
  BY Tables DEF AckRead, LinkInv, DriverInv
<1>2. PICK r \in Reads(request) :
        /\ Counts(r)
        /\ \/ /\ Success("SAK_RR", r.answer)
              /\ read' = read \cup {r.answer.of} /\ msg_id' = r.answer.value
              /\ Ask("SAK_CR", 0, r)
           \/ read' = read /\ msg_id' = Unset /\ Ask("EVT_RR", 0, r)
  BY DEF AckRead
<1>3. CASE /\ Success("SAK_RR", r.answer)
           /\ read' = read \cup {r.answer.of} /\ msg_id' = r.answer.value
           /\ Ask("SAK_CR", 0, r)
  <2>1. r.answer.of \in 1 .. Len(given) /\ r.answer.value = given[r.answer.of]
    BY <1>1, <1>3, SuccessType
  <2>2. ASSUME timeouts' = 0 PROVE Head(acks) \in read'
    BY <1>1, <1>2, <1>3, <2>2, InTime
  <2>3. msg_id' \in Ids \cup {0, Unset}
    BY <1>3, <2>1 DEF LinkInv, ModemInv
  <2>4. read \subseteq read' /\ read' \subseteq 1 .. Len(given) /\ "SAK_CR" \in Requests
    BY <1>1, <1>3, <2>1, Tables
  <2> QED
    BY <1>1, <1>2, <1>3, <2>2, <2>3, <2>4, ReadAsk
<1>4. CASE read' = read /\ msg_id' = Unset /\ Ask("EVT_RR", 0, r)
  <2>1. "EVT_RR" \in Requests
    BY Tables
  <2> QED
    BY <1>1, <1>2, <1>4, <2>1, ReadAsk
<1> QED
  BY <1>2, <1>3, <1>4

LEMMA CommandStep == ASSUME LinkInv, CommandRead \/ ClearDone PROVE LinkInv'
<1>1. /\ request \in Requests /\ provisioned' \in BOOLEAN /\ read' = read
      /\ read \subseteq 1 .. Len(given) /\ msg_id' \in Ids \cup {0, Unset}
  BY Tables DEF CommandRead, ClearDone, LinkInv, DriverInv
<1>2. PICK r \in Reads(request), op \in {"CMD_CR", "EVT_RR"} : Counts(r) /\ Ask(op, 0, r)
  BY DEF CommandRead, ClearDone
<1>3. op \in Requests
  BY Tables
<1> QED
  BY <1>1, <1>2, <1>3, ReadAsk

LEMMA PayloadStep == ASSUME LinkInv, PayloadSent PROVE LinkInv'
<1>1. /\ request \in Requests /\ provisioned' \in BOOLEAN /\ read' = read
      /\ read \subseteq 1 .. Len(given) /\ msg_id' \in Ids \cup {0, Unset}
  BY Tables DEF PayloadSent, LinkInv, DriverInv
<1>2. PICK r \in Reads(request) :
        /\ Counts(r)
        /\ (\E i \in Ids : Ask("PLD_ER", i, r)) \/ Ask("PER_SR", 0, r)
  BY DEF PayloadSent
<1>3. ASSUME NEW i \in Ids, Ask("PLD_ER", i, r) PROVE LinkInv'
  <2>1. "PLD_ER" \in Requests
    BY Tables
  <2> QED
    BY <1>1, <1>2, <1>3, <2>1, ReadAsk
<1>4. CASE Ask("PER_SR", 0, r)
  <2>1. "PER_SR" \in Requests
    BY Tables
  <2> QED
    BY <1>1, <1>2, <1>4, <2>1, ReadAsk
<1> QED
  BY <1>2, <1>3, <1>4

LEMMA StutterStep == ASSUME LinkInv, UNCHANGED vars PROVE LinkInv'
BY DEF LinkInv, LineInv, DriverInv, BoundInv, ModemInv, Paired, AckInv, OnlyReadAcksCleared,
       FrontInv, InUse, vars, modem, bounds, history

LEMMA LinkInductive == Spec => []LinkInv
<1>1. LinkInv /\ [Next]_vars => LinkInv'
  <2> SUFFICES ASSUME LinkInv, [Next]_vars PROVE LinkInv'
    OBVIOUS
  <2>1. CASE Driver
    BY <2>1, InitialStep, ConfiguredStep, RebootStep, EventStep, AckStep, CommandStep, PayloadStep DEF Driver
  <2>2. CASE Configure \/ StartTick \/ StartStatus \/ StartPush
    BY <2>2, StartStep
  <2>3. CASE Sleep
    BY <2>3, SleepStep
  <2>4. CASE SatellitePass \/ SatelliteCommand
    BY <2>4, SatelliteStep
  <2>5. CASE UNCHANGED vars
    BY <2>5, StutterStep
  <2> QED
    BY <2>1, <2>2, <2>3, <2>4, <2>5 DEF Next
<1> QED
  BY InitInv, <1>1, PTL DEF Spec

-----------------------------------------------------------------------------
(* Theorems. *)

(* The frames in the line, the counters and the tables of driver and modem  *)
(* have their types whatever is late, disturbed or cut.                     *)
THEOREM TypeCorrect == Spec => []TypeOK
<1>1. ASSUME LinkInv PROVE TypeOK
  <2>1. /\ \A k \in DOMAIN line :
             /\ line[k].reg \in Requests \cup {"ERR", "piece"}
             /\ line[k].size \in 0 .. 84 /\ line[k].ok \in BOOLEAN
    <3>1. \A k \in DOMAIN line : line[k] \in Frames
      BY <1>1 DEF LinkInv, LineInv, Genuine
    <3> QED
      BY <3>1 DEF Frames
  <2>2. acks \in Seq(1 .. MaxPasses)
    <3>1. acks \in Seq(1 .. Len(given)) /\ 1 .. Len(given) \subseteq 1 .. MaxPasses
      BY <1>1, LinkAssumption DEF LinkInv, ModemInv
    <3> QED
      BY <3>1, SeqGrows
  <2>3. cmds \in 0 .. MaxPasses
    BY <1>1, LinkAssumption DEF LinkInv, ModemInv
  <2>4. read \subseteq 1 .. MaxPasses
    BY <1>1, LinkAssumption DEF LinkInv, DriverInv, ModemInv
  <2> QED
    BY <1>1, <2>1, <2>2, <2>3, <2>4 DEF TypeOK, LinkInv, DriverInv, BoundInv, ModemInv
<1> QED
  BY LinkInductive, <1>1, PTL

(* What enqueue_payload confirms is with the modem or was taken from it by  *)
(* a satellite whose acknowledgement waits, unless an answer came late,     *)
(* whatever requests are lost or refused.                                   *)
THEOREM ConfirmationsAreTrue == Spec => []EnqueueConfirmed
<1>1. ASSUME LinkInv PROVE EnqueueConfirmed
  <2> SUFFICES ASSUME timeouts = 0, request = "PLD_ER", line # <<>>, Enqueued(Head(line))
               PROVE  InUse(id)
    BY DEF EnqueueConfirmed
  <2>1. line \in Seq(Genuine(given)) /\ Head(line) = line[1]
    BY <1>1 DEF LinkInv, LineInv
  <2>2. line[1].reg = request
    BY <2>1 DEF Enqueued, Success
  <2> QED
    BY <1>1, <2>2 DEF LinkInv, AckInv, FrontInv
<1> QED
  BY LinkInductive, <1>1, PTL

(* No operation leaves bytes behind for the next one, unless an answer came *)
(* after the time limit of receive_decode_answer.                           *)
THEOREM AnswersArePaired == Spec => []Paired
<1>1. LinkInv => Paired
  BY DEF LinkInv
<1> QED
  BY LinkInductive, <1>1, PTL

(* syshal_sat_read_message_ack_priv clears what it has read, unless an      *)
(* answer came after the time limit.                                        *)
THEOREM ClearedAcksWereRead == Spec => []OnlyReadAcksCleared
<1>1. LinkInv => OnlyReadAcksCleared
  BY DEF LinkInv, AckInv
<1> QED
  BY LinkInductive, <1>1, PTL

-----------------------------------------------------------------------------
(* The link implements Exchange. *)

(* What a request may do to the modem. *)
Effect(op, i) == Handles(op, i) \/ UNCHANGED <<queue, given, acks>>

LEMMA AskEffect == ASSUME NEW op, NEW i, NEW r, Ask(op, i, r) PROVE Effect(op, i)
BY DEF Ask, Refused, modem, Effect

(* A request other than the clear of an acknowledgement: the modem takes a  *)
(* payload, frees all, or nothing that Exchange follows changes.            *)
LEMMA AskRefines ==
  ASSUME LinkInv, NEW op \in Requests \ {"SAK_CR"}, NEW i \in Ids \cup {0}, op = "PLD_ER" => i \in Ids,
         Effect(op, i), msg_id' \in {msg_id, 0}
  PROVE  (\E j \in Ids : Above!Enqueue(j)) \/ Above!Lose \/ Above!NoEffect
<1>0. CASE UNCHANGED <<queue, given, acks>>
  BY <1>0 DEF Above!NoEffect, Above!Silent
<1> SUFFICES ASSUME Handles(op, i)
             PROVE  (\E j \in Ids : Above!Enqueue(j)) \/ Above!Lose \/ Above!NoEffect
  BY <1>0 DEF Effect
<1>1. given' = given /\ acks' = acks
  BY DEF Handles
<1>2. CASE op = "PLD_FR"
  <2>1. queue' = {}
    BY <1>2 DEF Handles, Accepts
  <2> QED
    BY <1>1, <2>1 DEF Above!Lose, Above!Silent
<1>3. CASE op # "PLD_FR" /\ Accepts(op, i)
  <2>1. queue' = queue \cup {i} /\ i \in Ids
    BY <1>3 DEF Handles, Accepts
  <2>2. ~InUse(i) /\ ~(Cardinality(queue) >= QueueMax)
    BY <1>3 DEF Accepts, Full
  <2>3. Cardinality(queue) < QueueMax
    <3>1. Cardinality(queue) \in Nat
      BY FS_CardinalityType DEF LinkInv, ModemInv
    <3> QED
      BY <2>2, <3>1, LinkAssumption
  <2>4. ~Above!InUse(i)
    BY <2>2 DEF InUse, Above!InUse
  <2>5. Above!Enqueue(i)
    BY <1>1, <2>1, <2>3, <2>4 DEF Above!Enqueue, Above!Silent, Above!Cardinality, Cardinality
  <2> QED
    BY <2>1, <2>5
<1>4. CASE op # "PLD_FR" /\ ~Accepts(op, i)
  <2>1. queue' = queue
    BY <1>4 DEF Handles
  <2> QED
    BY <1>1, <2>1 DEF Above!NoEffect, Above!Silent
<1> QED
  BY <1>2, <1>3, <1>4

(* Once an answer was late, one has been. *)
LEMMA LateStays ==
  ASSUME LinkInv, timeouts' \in {timeouts, timeouts + 1}
  PROVE  (timeouts' > 0) \in {timeouts > 0, TRUE}
<1>1. timeouts \in Nat
  BY LinkAssumption DEF LinkInv, BoundInv
<1>2. CASE timeouts' = timeouts
  BY <1>2
<1>3. CASE timeouts' = timeouts + 1
  <2>1. timeouts' > 0
    BY <1>1, <1>3
  <2> QED
    BY <2>1
<1> QED
  BY <1>2, <1>3

(* The parts of the driver that read no acknowledgement. *)
LEMMA PlainStep ==
  ASSUME LinkInv,
         \/ NextIgnored \/ Saved \/ NextConfigured \/ EventRead \/ CommandRead \/ ClearDone
         \/ PayloadSent \/ Configure \/ StartTick \/ StartStatus \/ StartPush
  PROVE  Above!Next
<1> DEFINE Known == (\E j \in Ids : Above!Enqueue(j)) \/ Above!Lose \/ Above!NoEffect
<1>0. ASSUME request \in Requests, NEW r \in Reads(request), Counts(r)
      PROVE  timeouts' \in {timeouts, timeouts + 1}
  <2>1. r.late \in {0, 1}
    BY <1>0, ReadsType
  <2> QED
    BY <1>0, <2>1, LinkAssumption DEF Counts, LinkInv, BoundInv
<1>1. /\ msg_id' \in {msg_id, 0}
      /\ timeouts' \in {timeouts, timeouts + 1}
      /\ \/ \E op \in Requests \ {"SAK_CR"}, i \in Ids \cup {0} :
              (op = "PLD_ER" => i \in Ids) /\ Effect(op, i)
         \/ UNCHANGED <<queue, given, acks>>
  <2>1. CASE NextIgnored
    <3>1. request \in Requests /\ Ignored[request] \in Requests \ {"PLD_ER", "SAK_CR"}
      BY <2>1, Follows DEF NextIgnored, Ignored
    <3>2. PICK r \in Reads(request) : Counts(r) /\ Effect(Ignored[request], 0)
      BY <2>1, AskEffect DEF NextIgnored
    <3>3. msg_id' = msg_id
      BY <2>1 DEF NextIgnored
    <3> QED
      BY <1>0, <3>1, <3>2, <3>3
  <2>2. CASE Saved
    <3>1. request \in Requests /\ msg_id' = msg_id
      BY <2>2, Tables DEF Saved
    <3>2. PICK r \in Reads(request) : Counts(r) /\ UNCHANGED <<queue, given, acks>>
      BY <2>2 DEF Saved, Stop, modem
    <3> QED
      BY <1>0, <3>1, <3>2
  <2>3. CASE NextConfigured
    <3>1. request \in Requests /\ Configured[request] \in Requests \ {"PLD_ER", "SAK_CR"}
      BY <2>3, Follows DEF NextConfigured, Configured
    <3>2. PICK r \in Reads(request) :
            Counts(r) /\ (Effect(Configured[request], 0) \/ UNCHANGED <<queue, given, acks>>)
      BY <2>3, AskEffect DEF NextConfigured, Stop, modem
    <3>3. msg_id' = msg_id
      BY <2>3 DEF NextConfigured
    <3> QED
      BY <1>0, <3>1, <3>2, <3>3
  <2>4. CASE EventRead
    <3>1. request \in Requests
      BY <2>4, Tables DEF EventRead
    <3>2. PICK r \in Reads(request) :
            /\ Counts(r)
            /\ Effect(IF Success("EVT_RR", r.answer) THEN Reaction[r.answer.value] ELSE "PER_SR", 0)
      BY <2>4, AskEffect DEF EventRead
    <3>3. (IF Success("EVT_RR", r.answer) THEN Reaction[r.answer.value] ELSE "PER_SR")
             \in Requests \ {"PLD_ER", "SAK_CR"}
      <4>1. CASE Success("EVT_RR", r.answer)
        <5>1. r.answer.value \in DOMAIN Reaction
          BY <3>1, <4>1, SuccessType
        <5>2. Reaction[r.answer.value] \in Requests \ {"PLD_ER"} /\ Reaction[r.answer.value] # "SAK_CR"
          BY <5>1, Reactions DEF Reaction
        <5> QED
          BY <4>1, <5>2
      <4>2. CASE ~Success("EVT_RR", r.answer)
        BY <4>2, Tables
      <4> QED
        BY <4>1, <4>2
    <3>4. msg_id' = 0
      BY <2>4 DEF EventRead
    <3> QED
      BY <1>0, <3>1, <3>2, <3>3, <3>4
  <2>5. CASE CommandRead \/ ClearDone
    <3>1. request \in Requests /\ msg_id' \in {msg_id, 0}
      BY <2>5, Tables DEF CommandRead, ClearDone
    <3>2. PICK r \in Reads(request), op \in {"CMD_CR", "EVT_RR"} : Counts(r) /\ Effect(op, 0)
      BY <2>5, AskEffect DEF CommandRead, ClearDone
    <3>3. op \in Requests \ {"PLD_ER", "SAK_CR"}
      BY Tables
    <3> QED
      BY <1>0, <3>1, <3>2, <3>3
  <2>6. CASE PayloadSent
    <3>1. request \in Requests /\ msg_id' = msg_id
      BY <2>6, Tables DEF PayloadSent
    <3>2. PICK r \in Reads(request) :
            Counts(r) /\ ((\E i \in Ids : Effect("PLD_ER", i)) \/ Effect("PER_SR", 0))
      BY <2>6, AskEffect DEF PayloadSent
    <3>3. {"PLD_ER", "PER_SR"} \subseteq Requests \ {"SAK_CR"}
      BY Tables
    <3> QED
      BY <1>0, <3>1, <3>2, <3>3
  <2>7. CASE Configure \/ StartTick \/ StartStatus \/ StartPush
    <3>1. PICK op \in {"CFG_WR", "EVT_RR", "PER_RR", "PER_SR", "PLD_ER"}, i \in Ids \cup {0} :
            /\ Effect(op, i) /\ (op = "PLD_ER" => i \in Ids)
            /\ UNCHANGED <<timeouts, msg_id>>
      BY <2>7, AskEffect DEF Configure, StartTick, StartStatus, StartPush, Start
    <3>2. op \in Requests \ {"SAK_CR"}
      BY Tables
    <3> QED
      BY <3>1, <3>2
  <2> QED
    BY <2>1, <2>2, <2>3, <2>4, <2>5, <2>6, <2>7
<1>2. Known
  <2>1. CASE UNCHANGED <<queue, given, acks>>
    BY <1>1, <2>1 DEF Above!NoEffect, Above!Silent
  <2>2. ASSUME NEW op \in Requests \ {"SAK_CR"}, NEW i \in Ids \cup {0},
               op = "PLD_ER" => i \in Ids, Effect(op, i)
        PROVE  Known
    BY <1>1, <2>2, AskRefines
  <2> QED
    BY <1>1, <2>1, <2>2
<1>3. (timeouts' > 0) \in {timeouts > 0, TRUE}
  BY <1>1, LateStays
<1> QED
  BY <1>2, <1>3 DEF Above!Next

(* The read of an acknowledgement: if it succeeds in time, it is of the     *)
(* first one, which the clear behind it removes or leaves.                  *)
LEMMA AckReadRefines == ASSUME LinkInv, AckRead PROVE Above!Next
<1>1. request = "SAK_RR" /\ request \in Requests
  BY Tables DEF AckRead
<1>2. PICK r \in Reads(request) :
        /\ Counts(r)
        /\ \/ Success("SAK_RR", r.answer) /\ msg_id' = r.answer.value /\ Effect("SAK_CR", 0)
           \/ msg_id' = Unset /\ Effect("EVT_RR", 0)
  BY AskEffect DEF AckRead
<1>3. timeouts \in 0 .. MaxTimeouts /\ timeouts' \in {timeouts, timeouts + 1}
  <2>1. r.late \in {0, 1}
    BY <1>1, ReadsType
  <2> QED
    BY <1>2, <2>1, LinkAssumption DEF Counts, LinkInv, BoundInv
<1>4. (timeouts' > 0) \in {timeouts > 0, TRUE}
  BY <1>3, LateStays
<1>5. ~(timeouts' > 0) => timeouts' = 0 /\ timeouts = 0
  BY <1>3, LinkAssumption
<1>6. CASE Success("SAK_RR", r.answer) /\ msg_id' = r.answer.value /\ Effect("SAK_CR", 0)
  <2> DEFINE n == r.answer.of
  <2>1. n \in DOMAIN given /\ msg_id' = given[n]
    <3>1. DOMAIN given = 1 .. Len(given)
      BY DEF LinkInv, ModemInv
    <3> QED
      BY <1>1, <1>6, <3>1, SuccessType
  <2>2. /\ queue' = queue /\ given' = given
        /\ acks' = acks \/ (acks # <<>> /\ acks' = Tail(acks))
    BY <1>6 DEF Effect, Handles, Accepts
  <2>3. CASE timeouts' > 0
    <3>1. Above!Confuse
      BY <2>1, <2>2, <2>3 DEF Above!Confuse
    <3> QED
      BY <1>4, <3>1 DEF Above!Next
  <2>4. CASE ~(timeouts' > 0)
    <3>1. acks # <<>> /\ n = Head(acks)
      BY <1>1, <1>2, <1>5, <1>6, <2>4, InTime
    <3>2. Above!Acknowledge
      BY <2>1, <2>2, <3>1 DEF Above!Acknowledge
    <3> QED
      BY <1>4, <3>2 DEF Above!Next
  <2> QED
    BY <2>3, <2>4
<1>7. CASE msg_id' = Unset /\ Effect("EVT_RR", 0)
  <2>1. UNCHANGED <<queue, given, acks>>
    BY <1>7 DEF Effect, Handles, Accepts
  <2>2. acks # <<>> \/ timeouts' > 0
    BY <1>1, <1>5 DEF LinkInv, AckInv
  <2>3. Above!Misread
    BY <1>7, <2>1, <2>2 DEF Above!Misread, Unset
  <2> QED
    BY <1>4, <2>3 DEF Above!Next
<1> QED
  BY <1>2, <1>6, <1>7

(* ExchangeSpec: step by step, the link does to payloads and                *)
(* acknowledgements what Uplink takes as one exchange, with any number of   *)
(* late, cut and disturbed answers and of lost and refused requests.        *)
THEOREM ImplementsExchange == Spec => ExchangeSpec
<1>1. Init => Above!Init
  <2> SUFFICES ASSUME Init PROVE Above!Init
    OBVIOUS
  <2>1. ~(timeouts > 0) /\ (timeouts > 0) = FALSE
    BY DEF Init
  <2> QED
    BY <2>1 DEF Init, Above!Init
<1>2. LinkInv /\ [Next]_vars => [Above!Next]_(Above!vars)
  <2> SUFFICES ASSUME LinkInv, [Next]_vars PROVE Above!Next \/ UNCHANGED Above!vars
    OBVIOUS
  <2>1. CASE Reboot
    <3>1. queue' = {} /\ acks' = <<>> /\ UNCHANGED <<given, msg_id, timeouts>>
      BY <2>1 DEF Reboot, bounds, history
    <3>2. Above!Lose
      BY <3>1 DEF Above!Lose, Above!Silent
    <3>3. (timeouts' > 0) \in {timeouts > 0, TRUE}
      BY <3>1, LateStays
    <3> QED
      BY <3>2, <3>3 DEF Above!Next
  <2>2. CASE SatellitePass
    <3>1. PICK i \in queue : queue' = queue \ {i} /\ given' = Append(given, i)
      BY <2>2 DEF SatellitePass
    <3>2. acks' = Append(acks, Len(given) + 1) /\ UNCHANGED <<msg_id, timeouts>>
      BY <2>2 DEF SatellitePass, bounds, history
    <3>3. i \in Ids /\ Above!Take(i)
      BY <3>1, <3>2 DEF Above!Take, Above!Silent, LinkInv, ModemInv
    <3>4. (timeouts' > 0) \in {timeouts > 0, TRUE}
      BY <3>2, LateStays
    <3> QED
      BY <3>3, <3>4 DEF Above!Next
  <2>3. CASE SatelliteCommand \/ Sleep \/ UNCHANGED vars
    <3>1. UNCHANGED <<queue, given, acks, msg_id, timeouts>>
      BY <2>3 DEF SatelliteCommand, Sleep, vars, modem, bounds, history
    <3> QED
      BY <3>1 DEF Above!vars
  <2>4. CASE AckRead
    BY <2>4, AckReadRefines
  <2> QED
    BY <2>1, <2>2, <2>3, <2>4, PlainStep DEF Next, Driver
<1> QED
  BY <1>1, <1>2, LinkInductive, PTL DEF Spec, ExchangeSpec, Above!Spec
=============================================================================
