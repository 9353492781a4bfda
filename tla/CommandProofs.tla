--------------------------- MODULE CommandProofs ---------------------------
(***************************************************************************)
(* Proofs about Command, for any packets, any sizes and any number of      *)
(* sendings.                                                               *)
(***************************************************************************)
EXTENDS Command, FiniteSetTheorems, TLAPS

(* What the stream holds at each point of the callback. *)
StreamInv ==
  /\ pc \in {"idle", "decode", "answer"} => stream = <<>>
  /\ pc = "reply" => stream = <<Ack(current)>> \/ stream = <<Answer(current)>>
  /\ pc = "answer" => answers > 0

(* A packet that came whole and first is found by the decoder, then acted   *)
(* on.                                                                      *)
BatchInv ==
  /\ pc = "decode" => \A p \in Packets : StartsWith(batch, p) => Decodes(p)
  /\ Resynchronises

(* The app is in the middle of one packet: only what comes next of it can   *)
(* be a header.                                                             *)
NextIs(p) == sending # <<>> /\ Head(sending) = Head1(p)

Pending(p) == IF NextIs(p) THEN 1 ELSE 0
Decoding(p) == IF pc = "decode" /\ rx[1] = Head1(p) THEN 1 ELSE 0

(* Each header still on its way stands for a sending not acted on yet. *)
SentInv ==
  /\ \A i \in DOMAIN sending : i > 1 => sending[i].is = "data"
  /\ \A p \in Packets : done[p] + Times(fifo, Head1(p)) + Pending(p) + Decoding(p) <= begun[p]

Acking(p) == IF pc = "reply" /\ stream = <<Ack(p)>> THEN 1 ELSE 0

AckInv ==
  \A p \in Packets :
    /\ Times(inbox, Ack(p)) + Acking(p) <= done[p]
    /\ Kind[p] \in {"message", "request"} => Times(inbox, Ack(p)) + Acking(p) = done[p]

(* The answers to p end the inbox. *)
Answering(p) ==
  \E j \in 1 .. Len(inbox) : /\ inbox[j] = Ack(p)
                             /\ \A k \in j + 1 .. Len(inbox) : inbox[k] = Answer(p)

AnswerInv ==
  /\ AnswersFollowAck
  /\ pc = "answer" \/ (pc = "reply" /\ stream = <<Answer(current)>>) => Answering(current)

-----------------------------------------------------------------------------
(* Lemmas about the operators. *)

(* Cells of different kinds, and of different packets, differ. *)
LEMMA CellsDiffer ==
  /\ \A p, q : Head1(p) = Head1(q) => p = q
  /\ \A p, q : Ack(p) = Ack(q) => p = q
  /\ \A p, q : Ack(p) # Answer(q)
BY DEF Head1, Ack, Answer

(* The cells of a packet: its header, then its data. *)
LEMMA CellsType ==
  ASSUME NEW p \in Packets
  PROVE  /\ Cells(p) \in Seq(Cell) /\ Len(Cells(p)) \in 1 .. Size
         /\ Cells(p)[1] = Head1(p)
         /\ \A i \in 2 .. Len(Cells(p)) : Cells(p)[i].is = "data"
<1> DEFINE body == [i \in DOMAIN Body[p] |-> [is |-> "data", of |-> Body[p][i]]]
<1>1. Body[p] \in Seq(Data) /\ Len(Body[p]) \in Nat /\ Len(Body[p]) < Size /\ Size \in Nat
  BY PacketsAssumption
<1>2. DOMAIN Body[p] = 1 .. Len(Body[p]) /\ \A i \in DOMAIN Body[p] : Body[p][i] \in Data
  BY <1>1
<1>3. body \in Seq([is : {"data"}, of : Data]) /\ Len(body) = Len(Body[p])
  BY <1>1, <1>2
<1>4. body \in Seq(Cell)
  BY <1>1, <1>2, <1>3 DEF Cell
<1>5. Head1(p) \in Cell
  BY DEF Head1, Cell
<1>6. <<Head1(p)>> \in Seq(Cell) /\ Len(<<Head1(p)>>) = 1
  BY <1>5
<1>7. Cells(p) = <<Head1(p)>> \o body
  BY DEF Cells
<1> HIDE DEF body
<1>8. /\ Cells(p) \in Seq(Cell) /\ Len(Cells(p)) = 1 + Len(Body[p])
      /\ Cells(p)[1] = Head1(p)
      /\ \A i \in 2 .. Len(Cells(p)) : Cells(p)[i] = body[i - 1]
  BY <1>1, <1>3, <1>4, <1>6, <1>7
<1>9. \A i \in 1 .. Len(Body[p]) : body[i].is = "data"
  BY <1>1, <1>2 DEF body
<1> QED
  BY <1>1, <1>8, <1>9

(* An empty stream takes what fits. *)
LEMMA WrittenType ==
  ASSUME NEW s \in Seq(Cell)
  PROVE  /\ Written(<<>>, s) \in Seq(Cell)
         /\ Len(Written(<<>>, s)) = IF Len(s) > Size THEN Size ELSE Len(s)
         /\ \A i \in 1 .. Len(Written(<<>>, s)) : Written(<<>>, s)[i] = s[i]
<1>1. Size \in Nat /\ Len(s) \in Nat /\ <<>> \o s = s /\ Len(<<>>) = 0
  BY PacketsAssumption
<1>2. Written(<<>>, s) = SubSeq(s, 1, IF Len(s) > Size THEN Size ELSE Len(s))
  BY <1>1 DEF Written
<1> QED
  BY <1>1, <1>2

LEMMA WrittenOne ==
  ASSUME NEW c \in Cell
  PROVE  Written(<<>>, <<c>>) = <<c>>
<1>1. <<c>> \in Seq(Cell) /\ Len(<<c>>) = 1 /\ <<c>>[1] = c /\ Size >= 1 /\ Size \in Nat
  BY PacketsAssumption
<1> DEFINE s == <<c>>
<1>2. /\ Written(<<>>, s) \in Seq(Cell)
      /\ Len(Written(<<>>, s)) = IF Len(s) > Size THEN Size ELSE Len(s)
      /\ \A i \in 1 .. Len(Written(<<>>, s)) : Written(<<>>, s)[i] = s[i]
  <2> HIDE DEF s
  <2> s \in Seq(Cell)
    BY <1>1 DEF s
  <2> QED
    BY WrittenType
<1> QED
  BY <1>1, <1>2

(* Counting in a sequence that grows by a cell. *)
LEMMA TimesType ==
  ASSUME NEW s \in Seq(Cell), NEW c
  PROVE  /\ IsFiniteSet({i \in DOMAIN s : s[i] = c})
         /\ Times(s, c) \in Nat
         /\ s # <<>> /\ s[1] = c => Times(s, c) >= 1
<1> DEFINE S == {i \in DOMAIN s : s[i] = c}
<1>1. DOMAIN s = 1 .. Len(s) /\ Len(s) \in Nat
  OBVIOUS
<1>2. IsFiniteSet(1 .. Len(s))
  BY <1>1, FS_Interval
<1>3. IsFiniteSet(S) /\ Cardinality(S) \in Nat
  BY <1>1, <1>2, FS_Subset, FS_CardinalityType
<1>4. ASSUME s # <<>>, s[1] = c PROVE Cardinality(S) >= 1
  <2>1. 1 \in S
    BY <1>1, <1>4
  <2>2. Cardinality(S) # 0
    BY <1>3, <2>1, FS_EmptySet
  <2> QED
    BY <1>3, <2>2
<1> QED
  BY <1>3, <1>4 DEF Times

LEMMA TimesAppend ==
  ASSUME NEW s \in Seq(Cell), NEW d \in Cell, NEW c
  PROVE  Times(Append(s, d), c) = Times(s, c) + (IF d = c THEN 1 ELSE 0)
<1> DEFINE S == {i \in DOMAIN s : s[i] = c}
           T == {i \in DOMAIN Append(s, d) : Append(s, d)[i] = c}
           n == Len(s) + 1
<1>1. /\ Len(s) \in Nat /\ DOMAIN s = 1 .. Len(s) /\ DOMAIN Append(s, d) = 1 .. n
      /\ \A i \in 1 .. Len(s) : Append(s, d)[i] = s[i]
      /\ Append(s, d)[n] = d
  OBVIOUS
<1>2. IsFiniteSet(S) /\ Cardinality(S) \in Nat
  BY TimesType, FS_CardinalityType
<1>3. n \notin S
  BY <1>1
<1>4. CASE d = c
  <2>1. T = S \cup {n}
    BY <1>1, <1>4
  <2>2. Cardinality(T) = Cardinality(S) + 1
    BY <1>2, <1>3, <2>1, FS_AddElement
  <2>3. Times(Append(s, d), c) = Cardinality(T) /\ Times(s, c) = Cardinality(S)
    BY DEF Times
  <2> HIDE DEF S, T
  <2> QED
    BY <1>4, <2>2, <2>3
<1>5. CASE d # c
  <2>1. T = S
    BY <1>1, <1>5
  <2>2. Times(Append(s, d), c) = Cardinality(T) /\ Times(s, c) = Cardinality(S)
    BY DEF Times
  <2> HIDE DEF S, T
  <2> QED
    BY <1>2, <1>5, <2>1, <2>2
<1> QED
  BY <1>4, <1>5

LEMMA TimesEmpty == ASSUME NEW c PROVE Times(<<>>, c) = 0
<1>1. {i \in DOMAIN <<>> : <<>>[i] = c} = {}
  OBVIOUS
<1> QED
  BY <1>1, FS_EmptySet DEF Times

-----------------------------------------------------------------------------
(* The invariant, by parts. *)

CommandInv == TypeOK /\ StreamInv /\ BatchInv /\ SentInv /\ AckInv /\ AnswerInv

LEMMA TypeStep ==
  ASSUME TypeOK, StreamInv, [Next]_vars
  PROVE  TypeOK'
<1> USE DEF TypeOK
<1>0. /\ \A p \in Packets : {Head1(p), Ack(p), Answer(p)} \subseteq Cell
      /\ Nack \in Cell
  BY DEF Cell, Head1, Ack, Answer
<1>1. ASSUME NEW p \in Packets, Send(p) PROVE TypeOK'
  <2>1. begun' \in [Packets -> Nat]
    BY <1>1 DEF Send
  <2> QED
    BY <1>1, <2>1, CellsType DEF Send
<1>2. CASE Notify
  <2>1. Head(sending) \in Cell /\ Tail(sending) \in Seq(Cell)
    BY <1>2 DEF Notify
  <2>2. fifo' \in Seq(Cell) /\ sending' \in Seq(Cell)
    BY <1>2, <2>1 DEF Notify
  <2> QED
    BY <1>2, <2>2 DEF Notify, hist
<1>3. CASE Disconnect
  BY <1>3 DEF Disconnect, hist
<1>4. CASE Receive
  <2> DEFINE read == Written(stream, fifo)
  <2>1. stream = <<>>
    BY <1>4 DEF Receive, StreamInv
  <2>2. read \in Seq(Cell) /\ Len(read) <= Size
    BY <2>1, WrittenType, PacketsAssumption
  <2>3. rx' = Filled(read)
    BY <1>4 DEF Receive
  <2> HIDE DEF read
  <2>4. rx' \in [1 .. Size -> Cell]
    BY <2>2, <2>3, PacketsAssumption DEF Filled
  <2>5. pc' \in {"idle", "decode"} /\ stream' = <<>> /\ fifo' = <<>> /\ batch' = fifo
    BY <1>4 DEF Receive
  <2>6. Len(<<>>) <= Size
    BY PacketsAssumption
  <2> QED
    BY <1>4, <2>4, <2>5, <2>6 DEF Receive
<1>5. ASSUME NEW p \in Packets, Accept(p) PROVE TypeOK'
  <2>1. stream' = <<Ack(p)>>
    BY <1>0, <1>5, WrittenOne DEF Accept, StreamInv
  <2>2. stream' \in Seq(Cell) /\ Len(stream') = 1 /\ 1 <= Size
    BY <1>0, <2>1, PacketsAssumption
  <2>3. answers' \in 0 .. MaxAnswers
    <3>1. answers' \in 0 .. MaxAnswers \/ answers' \in {0}
      BY <1>5 DEF Accept
    <3> QED
      BY <3>1, PacketsAssumption
  <2>4. done' \in [Packets -> Nat]
    BY <1>5 DEF Accept
  <2> QED
    BY <1>5, <2>2, <2>3, <2>4 DEF Accept
<1>6. CASE Reject
  <2>1. stream' \in {<<>>, <<Nack>>}
    BY <1>0, <1>6, WrittenOne DEF Reject, StreamInv
  <2>2. CASE stream' = <<>>
    BY <1>6, <2>2, PacketsAssumption DEF Reject, hist
  <2>3. CASE stream' = <<Nack>>
    <3>1. <<Nack>> \in Seq(Cell) /\ Len(<<Nack>>) = 1 /\ 1 <= Size
      BY <1>0, PacketsAssumption
    <3> QED
      BY <1>6, <2>3, <3>1 DEF Reject, hist
  <2> QED
    BY <2>1, <2>2, <2>3
<1>7. CASE Reply
  <2>1. inbox' \in Seq(Cell) /\ stream' \in Seq(Cell) /\ Len(stream') <= Size
    BY <1>7, PacketsAssumption DEF Reply
  <2> QED
    BY <1>7, <2>1 DEF Reply
<1>8. CASE SendAnswer
  <2>1. stream' = <<Answer(current)>>
    BY <1>0, <1>8, WrittenOne DEF SendAnswer, StreamInv
  <2>2. stream' \in Seq(Cell) /\ Len(stream') <= Size
    BY <1>0, <2>1, PacketsAssumption
  <2>3. answers' \in 0 .. MaxAnswers
    BY <1>8, PacketsAssumption DEF SendAnswer, StreamInv
  <2> QED
    BY <1>8, <2>2, <2>3 DEF SendAnswer, hist
<1>9. CASE Clear
  <2>1. stream' \in Seq(Cell) /\ Len(stream') <= Size
    BY <1>9, PacketsAssumption DEF Clear
  <2> QED
    BY <1>9, <2>1 DEF Clear, hist
<1>10. CASE UNCHANGED vars
  BY <1>10 DEF vars, hist
<1> QED
  BY <1>1, <1>2, <1>3, <1>4, <1>5, <1>6, <1>7, <1>8, <1>9, <1>10 DEF Next, Callback

LEMMA StreamStep ==
  ASSUME TypeOK, StreamInv, [Next]_vars
  PROVE  StreamInv'
<1> USE DEF StreamInv
<1>0. \A p \in Packets : {Ack(p), Answer(p)} \subseteq Cell
  BY DEF Cell, Ack, Answer
<1>1. ASSUME NEW p \in Packets, Accept(p) PROVE StreamInv'
  <2>1. stream' = <<Ack(p)>> /\ current' = p /\ pc' \in {"reply", "clear"}
    BY <1>0, <1>1, WrittenOne DEF Accept
  <2> QED
    BY <2>1
<1>2. CASE SendAnswer
  <2>1. stream' = <<Answer(current)>> /\ current' = current /\ pc' = "reply"
    BY <1>0, <1>2, WrittenOne DEF SendAnswer, TypeOK
  <2> QED
    BY <2>1
<1> QED
  BY <1>1, <1>2 DEF Next, Callback, Send, Notify, Disconnect, Receive, Reject, Reply, Clear, vars, hist

LEMMA BatchStep ==
  ASSUME TypeOK, StreamInv, BatchInv, [Next]_vars
  PROVE  BatchInv'
<1> USE DEF BatchInv
<1>1. CASE Receive
  <2> DEFINE read == Written(stream, fifo)
  <2>1. /\ read \in Seq(Cell) /\ Len(read) = (IF Len(fifo) > Size THEN Size ELSE Len(fifo))
        /\ \A i \in 1 .. Len(read) : read[i] = fifo[i]
    <3>1. stream = <<>> /\ fifo \in Seq(Cell)
      BY <1>1 DEF Receive, StreamInv, TypeOK
    <3>2. read = Written(<<>>, fifo)
      BY <3>1
    <3> HIDE DEF read
    <3> QED
      BY <3>1, <3>2, WrittenType
  <2>2. rx' = Filled(read) /\ batch' = fifo /\ fifo \in Seq(Cell)
    BY <1>1 DEF Receive, TypeOK
  <2> HIDE DEF read
  <2>3. ASSUME NEW p \in Packets, StartsWith(fifo, p)
        PROVE  \A i \in 1 .. Len(Cells(p)) : rx'[i] = Cells(p)[i]
    <3>1. SUFFICES ASSUME NEW i \in 1 .. Len(Cells(p)) PROVE rx'[i] = Cells(p)[i]
      OBVIOUS
    <3>2. Len(Cells(p)) \in 1 .. Size /\ Size \in Nat
      BY CellsType, PacketsAssumption
    <3>3. i \in 1 .. Len(read) /\ fifo[i] = Cells(p)[i]
      BY <2>1, <2>2, <2>3, <3>2 DEF StartsWith
    <3> QED
      BY <2>1, <2>2, <3>2, <3>3 DEF Filled
  <2>4. ASSUME NEW p \in Packets, StartsWith(fifo, p) PROVE pc' = "decode"
    <3>1. rx'[1] = Head1(p)
      BY <2>3, <2>4, CellsType
    <3> QED
      BY <1>1, <3>1 DEF Receive, Head1
  <2>5. \A p \in Packets : StartsWith(batch, p)' => Decodes(p)'
    BY <2>2, <2>3 DEF StartsWith, Decodes, Cells, Head1
  <2>6. Resynchronises'
    BY <2>2, <2>4 DEF Resynchronises, StartsWith, Cells, Head1
  <2> QED
    BY <2>5, <2>6
<1>2. ASSUME NEW q \in Packets, Accept(q) PROVE BatchInv'
  <2>1. current' = q /\ done'[q] > 0 /\ pc' # "decode" /\ batch' = batch
    BY <1>2 DEF Accept, TypeOK
  <2>2. ASSUME NEW p \in Packets, StartsWith(batch, p) PROVE p = q
    <3>1. rx[1] = Head1(p) /\ rx[1] = Head1(q)
      BY <1>2, <2>2, CellsType DEF Accept, Decodes
    <3> QED
      BY <3>1, CellsDiffer
  <2>3. Resynchronises'
    BY <2>1, <2>2 DEF Resynchronises, StartsWith, Cells, Head1
  <2> QED
    BY <2>1, <2>3
<1>3. CASE Reject
  <2>1. \A p \in Packets : Kind[p] \in Supported => ~StartsWith(batch, p)
    BY <1>3 DEF Reject, Found
  <2>2. pc' = "clear" /\ batch' = batch
    BY <1>3 DEF Reject, hist
  <2> QED
    BY <2>1, <2>2 DEF Resynchronises, StartsWith, Cells, Head1
<1>4. ASSUME pc' = pc, UNCHANGED <<rx, batch, current, done>> PROVE BatchInv'
  BY <1>4 DEF Resynchronises, StartsWith, Cells, Head1, Decodes
<1>5. ASSUME pc \in {"reply", "answer", "clear"}, pc' \in {"reply", "answer", "clear", "idle"},
             UNCHANGED <<batch, current, done>>
      PROVE  BatchInv'
  BY <1>5 DEF Resynchronises, StartsWith, Cells, Head1
<1> QED
  BY <1>1, <1>2, <1>3, <1>4, <1>5 DEF Next, Callback, Send, Notify, Disconnect, Reply, SendAnswer, Clear, vars, hist

LEMMA SentStep ==
  ASSUME TypeOK, StreamInv, SentInv, [Next]_vars
  PROVE  SentInv'
<1> USE DEF SentInv
<1>0. /\ \A q \in Packets : /\ Times(fifo, Head1(q)) \in Nat
                            /\ Pending(q) \in 0 .. 1 /\ Decoding(q) \in 0 .. 1
                            /\ begun[q] \in Nat /\ done[q] \in Nat
      /\ \A q \in Packets : Head1(q).is = "head"
  <2>1. \A q \in Packets : Times(fifo, Head1(q)) \in Nat
    <3>1. fifo \in Seq(Cell)
      BY DEF TypeOK
    <3> QED
      BY <3>1, TimesType
  <2>2. \A q \in Packets : begun[q] \in Nat /\ done[q] \in Nat
    BY DEF TypeOK
  <2>3. \A q \in Packets : Pending(q) \in 0 .. 1 /\ Decoding(q) \in 0 .. 1
    BY DEF Pending, Decoding
  <2>4. \A q \in Packets : Head1(q).is = "head"
    BY DEF Head1
  <2> QED
    BY <2>1, <2>2, <2>3, <2>4
<1>1. ASSUME NEW p \in Packets, Send(p) PROVE SentInv'
  <2>1. \A i \in DOMAIN sending' : i > 1 => sending'[i].is = "data"
    BY <1>1, CellsType DEF Send
  <2>2. /\ \A q \in Packets : Pending(q) = 0 /\ Pending(q)' = (IF q = p THEN 1 ELSE 0)
    BY <1>1, CellsType, CellsDiffer DEF Send, Pending, NextIs
  <2>3. \A q \in Packets : /\ Times(fifo, Head1(q))' = Times(fifo, Head1(q)) /\ Decoding(q)' = Decoding(q)
                           /\ done'[q] = done[q]
                           /\ begun'[q] = begun[q] + (IF q = p THEN 1 ELSE 0)
    BY <1>1 DEF Send, Times, Decoding, Head1, TypeOK
  <2> QED
    BY <1>0, <2>1, <2>2, <2>3
<1>2. CASE Notify
  <2>1. /\ sending \in Seq(Cell) /\ sending # <<>> /\ sending' = Tail(sending)
        /\ fifo' = Append(fifo, Head(sending)) /\ Head(sending) \in Cell /\ fifo \in Seq(Cell)
    BY <1>2 DEF Notify, TypeOK
  <2>2. \A i \in DOMAIN sending' : sending'[i] = sending[i + 1] /\ i + 1 \in DOMAIN sending /\ i + 1 > 1
    BY <2>1
  <2>3. \A i \in DOMAIN sending' : sending'[i].is = "data"
    BY <2>2
  <2>4. \A q \in Packets : Pending(q)' = 0
    <3>1. SUFFICES ASSUME NEW q \in Packets, sending' # <<>> PROVE Head(sending') # Head1(q)
      BY DEF Pending, NextIs, Head1
    <3>2. Head(sending') = sending'[1] /\ 1 \in DOMAIN sending'
      BY <2>1, <3>1
    <3> QED
      BY <1>0, <2>3, <3>2
  <2>5. \A q \in Packets : Times(fifo, Head1(q))' = Times(fifo, Head1(q)) + Pending(q)
    <3>1. SUFFICES ASSUME NEW q \in Packets
                   PROVE  Times(fifo, Head1(q))' = Times(fifo, Head1(q)) + Pending(q)
      OBVIOUS
    <3>2. Times(Append(fifo, Head(sending)), Head1(q))
            = Times(fifo, Head1(q)) + (IF Head(sending) = Head1(q) THEN 1 ELSE 0)
      BY <2>1, TimesAppend
    <3>3. Times(fifo, Head1(q))' = Times(Append(fifo, Head(sending)), Head1(q))
      BY <2>1 DEF Times, Head1
    <3> QED
      BY <2>1, <3>2, <3>3 DEF Pending, NextIs
  <2>6. \A q \in Packets : Decoding(q)' = Decoding(q) /\ done'[q] = done[q] /\ begun'[q] = begun[q]
    BY <1>2 DEF Notify, Decoding, Head1, hist
  <2> QED
    BY <1>0, <2>3, <2>4, <2>5, <2>6
<1>3. CASE Disconnect
  <2>1. sending' = <<>> /\ \A q \in Packets : Pending(q)' = 0
    BY <1>3 DEF Disconnect, Pending, NextIs
  <2>2. \A q \in Packets : /\ Times(fifo, Head1(q))' = Times(fifo, Head1(q)) /\ Decoding(q)' = Decoding(q)
                           /\ done'[q] = done[q] /\ begun'[q] = begun[q]
    BY <1>3 DEF Disconnect, Times, Decoding, Head1, hist
  <2> QED
    BY <1>0, <2>1, <2>2
<1>4. CASE Receive
  <2> DEFINE read == Written(stream, fifo)
  <2>1. stream = <<>> /\ fifo \in Seq(Cell) /\ read # <<>> /\ rx' = Filled(read) /\ fifo' = <<>> /\ pc = "idle"
    BY <1>4 DEF Receive, StreamInv, TypeOK
  <2>2. /\ read \in Seq(Cell) /\ Len(read) = (IF Len(fifo) > Size THEN Size ELSE Len(fifo))
        /\ \A i \in 1 .. Len(read) : read[i] = fifo[i]
    <3>1. read = Written(<<>>, fifo)
      BY <2>1
    <3> HIDE DEF read
    <3> QED
      BY <2>1, <3>1, WrittenType
  <2> HIDE DEF read
  <2>3. rx'[1] = fifo[1] /\ fifo # <<>>
    BY <2>1, <2>2, PacketsAssumption DEF Filled
  <2>4. \A q \in Packets : Decoding(q)' <= Times(fifo, Head1(q))
    <3>1. ASSUME NEW q \in Packets, rx'[1] = Head1(q) PROVE Times(fifo, Head1(q)) >= 1
      BY <2>1, <2>3, <3>1, TimesType
    <3>2. \A q \in Packets : Decoding(q)' = IF pc' = "decode" /\ rx'[1] = Head1(q) THEN 1 ELSE 0
      BY DEF Decoding, Head1
    <3> QED
      BY <1>0, <3>1, <3>2
  <2>5. \A q \in Packets : Times(fifo, Head1(q))' = 0
    BY <2>1, TimesEmpty DEF Times, Head1
  <2>6. \A q \in Packets : /\ Pending(q)' = Pending(q) /\ Decoding(q) = 0 /\ Decoding(q)' \in 0 .. 1
                           /\ done'[q] = done[q] /\ begun'[q] = begun[q]
    BY <1>4, <2>1 DEF Receive, Pending, NextIs, Decoding, Head1
  <2>7. sending' = sending
    BY <1>4 DEF Receive
  <2> QED
    BY <1>0, <2>4, <2>5, <2>6, <2>7
<1>5. ASSUME NEW p \in Packets, Accept(p) PROVE SentInv'
  <2>1. rx[1] = Head1(p) /\ pc = "decode"
    BY <1>5, CellsType DEF Accept, Decodes
  <2>2. \A q \in Packets : Decoding(q)' = 0 /\ Decoding(q) = (IF q = p THEN 1 ELSE 0)
    BY <1>5, <2>1, CellsDiffer DEF Accept, Decoding
  <2>3. \A q \in Packets : /\ Times(fifo, Head1(q))' = Times(fifo, Head1(q)) /\ Pending(q)' = Pending(q)
                           /\ begun'[q] = begun[q]
                           /\ done'[q] = done[q] + (IF q = p THEN 1 ELSE 0)
    BY <1>5 DEF Accept, Times, Pending, NextIs, Head1, TypeOK
  <2>4. sending' = sending
    BY <1>5 DEF Accept
  <2> QED
    BY <1>0, <2>2, <2>3, <2>4
<1>6. ASSUME UNCHANGED <<sending, fifo, begun, done>>, pc' # "decode" \/ UNCHANGED <<pc, rx>> PROVE SentInv'
  <2>1. \A q \in Packets : Times(fifo, Head1(q))' = Times(fifo, Head1(q)) /\ Pending(q)' = Pending(q)
    BY <1>6 DEF Times, Pending, NextIs, Head1
  <2>2. \A q \in Packets : Decoding(q)' = 0 \/ Decoding(q)' = Decoding(q)
    BY <1>6 DEF Decoding, Head1
  <2> QED
    BY <1>0, <1>6, <2>1, <2>2
<1>7. CASE Reject \/ Reply \/ SendAnswer \/ Clear \/ UNCHANGED vars
  BY <1>6, <1>7 DEF Reject, Reply, SendAnswer, Clear, vars, hist
<1> QED
  BY <1>1, <1>2, <1>3, <1>4, <1>5, <1>7 DEF Next, Callback

LEMMA AckStep ==
  ASSUME TypeOK, StreamInv, AckInv, [Next]_vars
  PROVE  AckInv'
<1> USE DEF AckInv
<1>0. \A q \in Packets : Times(inbox, Ack(q)) \in Nat /\ Acking(q) \in 0 .. 1 /\ done[q] \in Nat
  <2>1. \A q \in Packets : Times(inbox, Ack(q)) \in Nat
    <3>1. inbox \in Seq(Cell)
      BY DEF TypeOK
    <3> QED
      BY <3>1, TimesType
  <2>2. \A q \in Packets : done[q] \in Nat
    BY DEF TypeOK
  <2> QED
    BY <2>1, <2>2 DEF Acking
<1>1. ASSUME NEW p \in Packets, Accept(p) PROVE AckInv'
  <2>1. stream' = <<Ack(p)>> /\ pc = "decode"
    BY <1>1, WrittenOne DEF Accept, StreamInv, Cell, Ack
  <2>2. \A q \in Packets : Acking(q) = 0 /\ Times(inbox, Ack(q))' = Times(inbox, Ack(q))
    BY <1>1 DEF Accept, Acking, Times, Ack
  <2>3. pc' = IF Kind[p] \in {"message", "request"} THEN "reply" ELSE "clear"
    BY <1>1 DEF Accept
  <2>4. \A q \in Packets : Acking(q)' = IF q = p /\ Kind[p] \in {"message", "request"} THEN 1 ELSE 0
    <3>1. \A q \in Packets : <<Ack(p)>> = <<Ack(q)>> <=> p = q
      BY CellsDiffer
    <3> QED
      BY <2>1, <2>3, <3>1 DEF Acking, Ack
  <2>5. \A q \in Packets : done'[q] = done[q] + (IF q = p THEN 1 ELSE 0)
    BY <1>1 DEF Accept, TypeOK
  <2> QED
    BY <1>0, <2>2, <2>4, <2>5
<1>2. CASE Reply
  <2>1. PICK d \in Cell : stream = <<d>> /\ (d = Ack(current) \/ d = Answer(current))
    BY <1>2 DEF Reply, StreamInv, TypeOK, Cell, Ack, Answer
  <2>2. inbox' = Append(inbox, d)
    BY <1>2, <2>1 DEF Reply, TypeOK
  <2>3. \A q \in Packets : Times(inbox, Ack(q))' = Times(inbox, Ack(q)) + (IF d = Ack(q) THEN 1 ELSE 0)
    <3>1. SUFFICES ASSUME NEW q \in Packets
                   PROVE  Times(inbox, Ack(q))' = Times(inbox, Ack(q)) + (IF d = Ack(q) THEN 1 ELSE 0)
      OBVIOUS
    <3>2. Times(Append(inbox, d), Ack(q)) = Times(inbox, Ack(q)) + (IF d = Ack(q) THEN 1 ELSE 0)
      BY TimesAppend DEF TypeOK
    <3>3. Times(inbox, Ack(q))' = Times(Append(inbox, d), Ack(q))
      BY <2>2 DEF Times, Ack
    <3> QED
      BY <3>2, <3>3
  <2>4. \A q \in Packets : Acking(q)' = 0 /\ Acking(q) = (IF d = Ack(q) THEN 1 ELSE 0)
    <3>1. \A q \in Packets : stream = <<Ack(q)>> <=> d = Ack(q)
      BY <2>1
    <3>2. pc = "reply" /\ pc' # "reply"
      BY <1>2 DEF Reply
    <3> QED
      BY <3>1, <3>2 DEF Acking
  <2>5. done' = done
    BY <1>2 DEF Reply
  <2> QED
    BY <1>0, <2>3, <2>4, <2>5
<1>3. CASE SendAnswer
  <2>1. stream' = <<Answer(current)>> /\ pc = "answer" /\ UNCHANGED <<inbox, done>>
    BY <1>3, WrittenOne DEF SendAnswer, StreamInv, TypeOK, Cell, Answer, hist
  <2>2. \A q \in Packets : Acking(q) = 0 /\ Acking(q)' = 0
    <3>1. \A q \in Packets : <<Answer(current)>> # <<Ack(q)>>
      BY CellsDiffer
    <3> QED
      BY <2>1, <3>1 DEF Acking, Ack
  <2> QED
    BY <1>0, <2>1, <2>2 DEF Times, Ack
<1>4. ASSUME UNCHANGED <<inbox, done>>, pc # "reply", pc' # "reply" PROVE AckInv'
  BY <1>0, <1>4 DEF Times, Ack, Acking
<1>5. ASSUME UNCHANGED <<inbox, done, pc, stream>> PROVE AckInv'
  BY <1>0, <1>5 DEF Times, Ack, Acking
<1>6. CASE Receive \/ Reject \/ Clear
  BY <1>4, <1>6 DEF Receive, Reject, Clear, hist
<1>7. ASSUME Notify \/ Disconnect \/ UNCHANGED vars \/ \E p \in Packets : Send(p) PROVE AckInv'
  BY <1>5, <1>7 DEF Notify, Disconnect, Send, vars, hist
<1> QED
  BY <1>1, <1>2, <1>3, <1>6, <1>7 DEF Next, Callback

LEMMA AnswerStep ==
  ASSUME TypeOK, StreamInv, AnswerInv, [Next]_vars
  PROVE  AnswerInv'
<1> USE DEF AnswerInv
<1>1. ASSUME NEW p \in Packets, Accept(p) PROVE AnswerInv'
  <2>1. stream' = <<Ack(p)>> /\ inbox' = inbox /\ pc' # "answer"
    BY <1>1, WrittenOne DEF Accept, StreamInv, Cell, Ack
  <2>2. stream' # <<Answer(current')>>
    BY <2>1, CellsDiffer
  <2> QED
    BY <2>1, <2>2 DEF AnswersFollowAck, Answer, Ack
<1>2. CASE Reply
  <2>1. PICK d \in Cell : stream = <<d>> /\ (d = Ack(current) \/ d = Answer(current))
    BY <1>2 DEF Reply, StreamInv, TypeOK, Cell, Ack, Answer
  <2>2. inbox' = Append(inbox, d) /\ current' = current /\ stream' = <<>> /\ pc = "reply"
    BY <1>2, <2>1 DEF Reply, TypeOK
  <2> DEFINE n == Len(inbox)
  <2>3. /\ n \in Nat /\ Len(inbox') = n + 1 /\ inbox'[n + 1] = d
        /\ \A i \in 1 .. n : inbox'[i] = inbox[i]
        /\ DOMAIN inbox = 1 .. n /\ DOMAIN inbox' = 1 .. n + 1
    BY <2>2 DEF TypeOK
  <2> HIDE DEF n
  <2>4. Answering(current)'
    <3>1. CASE d = Ack(current)
      BY <2>2, <2>3, <3>1 DEF Answering, Ack, Answer
    <3>2. CASE d = Answer(current)
      <4>1. PICK j \in 1 .. n : inbox[j] = Ack(current) /\ \A k \in j + 1 .. n : inbox[k] = Answer(current)
        BY <2>1, <2>2, <3>2 DEF Answering, n
      <4>2. inbox'[j] = Ack(current) /\ \A k \in j + 1 .. n + 1 : inbox'[k] = Answer(current)
        BY <2>3, <3>2, <4>1
      <4> QED
        BY <2>2, <2>3, <4>1, <4>2 DEF Answering, Ack, Answer
    <3> QED
      BY <2>1, <3>1, <3>2
  <2>5. AnswersFollowAck'
    <3>1. SUFFICES ASSUME NEW i \in 1 .. n + 1, inbox'[i].is = "answer"
                   PROVE  \E j \in 1 .. i - 1 : /\ inbox'[j] = Ack(inbox'[i].of)
                                                /\ \A k \in j + 1 .. i : inbox'[k] = inbox'[i]
      BY <2>3 DEF AnswersFollowAck, Ack
    <3>2. CASE i \in 1 .. n
      <4>1. inbox'[i] = inbox[i] /\ i \in DOMAIN inbox
        BY <2>3, <3>2
      <4>2. PICK j \in 1 .. i - 1 : inbox[j] = Ack(inbox[i].of) /\ \A k \in j + 1 .. i : inbox[k] = inbox[i]
        BY <3>1, <4>1 DEF AnswersFollowAck
      <4>3. inbox'[j] = Ack(inbox'[i].of) /\ \A k \in j + 1 .. i : inbox'[k] = inbox'[i]
        BY <2>3, <3>2, <4>1, <4>2
      <4> QED
        BY <4>3
    <3>3. CASE i = n + 1
      <4>1. d = Answer(current) /\ inbox'[i].of = current
        BY <2>1, <2>3, <3>1, <3>3 DEF Ack, Answer
      <4>2. PICK j \in 1 .. n : inbox[j] = Ack(current) /\ \A k \in j + 1 .. n : inbox[k] = Answer(current)
        BY <2>1, <2>2, <4>1 DEF Answering, n
      <4>3. j \in 1 .. i - 1 /\ inbox'[j] = Ack(current) /\ \A k \in j + 1 .. i : inbox'[k] = inbox'[i]
        BY <2>3, <3>3, <4>1, <4>2
      <4> QED
        BY <4>1, <4>3
    <3> QED
      BY <2>3, <3>2, <3>3
  <2> QED
    BY <2>2, <2>4, <2>5 DEF Answering, Ack, Answer
<1>3. CASE SendAnswer
  <2>1. inbox' = inbox /\ current' = current /\ Answering(current)
    BY <1>3 DEF SendAnswer, hist
  <2>2. AnswersFollowAck'
    BY <2>1 DEF AnswersFollowAck, Ack
  <2>3. Answering(current)'
    BY <2>1 DEF Answering, Ack, Answer
  <2> QED
    BY <2>2, <2>3
<1>4. ASSUME inbox' = inbox, pc' \notin {"reply", "answer"} PROVE AnswerInv'
  BY <1>4 DEF AnswersFollowAck, Ack
<1>5. ASSUME UNCHANGED <<inbox, pc, stream, current>> PROVE AnswerInv'
  BY <1>5 DEF AnswersFollowAck, Ack, Answering, Answer
<1>6. CASE Receive \/ Reject \/ Clear
  BY <1>4, <1>6 DEF Receive, Reject, Clear, hist
<1>7. ASSUME Notify \/ Disconnect \/ UNCHANGED vars \/ \E p \in Packets : Send(p) PROVE AnswerInv'
  BY <1>5, <1>7 DEF Notify, Disconnect, Send, vars, hist
<1> QED
  BY <1>1, <1>2, <1>3, <1>6, <1>7 DEF Next, Callback

-----------------------------------------------------------------------------
LEMMA CommandInit == Init => CommandInv
<1> SUFFICES ASSUME Init PROVE CommandInv
  OBVIOUS
<1>1. TypeOK
  <2>1. (CHOOSE p \in Packets : TRUE) \in Packets
    BY PacketsAssumption
  <2>2. Size \in Nat /\ MaxAnswers \in Nat /\ Blank \in Cell
    BY PacketsAssumption DEF Cell
  <2>3. current \in Packets
    BY <2>1, Zenon DEF Init
  <2>4. rx \in [1 .. Size -> Cell]
    BY <2>2 DEF Init
  <2>5. begun \in [Packets -> Nat] /\ done \in [Packets -> Nat]
    BY DEF Init
  <2> QED
    BY <2>2, <2>3, <2>4, <2>5 DEF Init, TypeOK
<1>2. StreamInv
  BY DEF Init, StreamInv
<1>3. \A p \in Packets : ~StartsWith(<<>>, p)
  BY CellsType, PacketsAssumption DEF StartsWith
<1>4. BatchInv
  BY <1>3 DEF Init, BatchInv, Resynchronises
<1>5. SentInv
  BY TimesEmpty DEF Init, SentInv, Pending, NextIs, Decoding
<1>6. AckInv
  BY TimesEmpty DEF Init, AckInv, Acking
<1>7. AnswerInv
  BY DEF Init, AnswerInv, AnswersFollowAck
<1> QED
  BY <1>1, <1>2, <1>4, <1>5, <1>6, <1>7 DEF CommandInv

LEMMA CommandInductive == Spec => []CommandInv
<1>1. CommandInv /\ [Next]_vars => CommandInv'
  BY TypeStep, StreamStep, BatchStep, SentStep, AckStep, AnswerStep DEF CommandInv
<1> QED
  BY <1>1, CommandInit, PTL DEF Spec

(* Type correctness of the BLE callback and the streams (sm_main.cpp:455). *)
THEOREM TypeCorrect == Spec => []TypeOK
<1>1. CommandInv => TypeOK
  BY DEF CommandInv
<1> QED
  BY <1>1, CommandInductive, PTL

(* Bytes left in the receive buffer never make the tracker act again: a     *)
(* packet is acted on at most once for each time it is sent                 *)
(* (an_command.cpp:318).                                                    *)
THEOREM ActsOncePerSending == Spec => []OncePerSending
<1>1. CommandInv => OncePerSending
  <2>1. SUFFICES ASSUME CommandInv, NEW p \in Packets PROVE done[p] <= begun[p]
    BY DEF OncePerSending
  <2>2. fifo \in Seq(Cell) /\ done[p] \in Nat /\ begun[p] \in Nat
    BY <2>1 DEF CommandInv, TypeOK
  <2>3. Times(fifo, Head1(p)) \in Nat
    BY <2>2, TimesType
  <2>4. Pending(p) \in 0 .. 1 /\ Decoding(p) \in 0 .. 1
    BY DEF Pending, Decoding
  <2>5. done[p] + Times(fifo, Head1(p)) + Pending(p) + Decoding(p) <= begun[p]
    BY <2>1 DEF CommandInv, SentInv
  <2> QED
    BY <2>2, <2>3, <2>4, <2>5
<1> QED
  BY <1>1, CommandInductive, PTL

(* What the app is told was done was done, and a message or a request that  *)
(* was is acknowledged once (an_command.cpp:73, sm_main.cpp:1440).          *)
THEOREM AcknowledgementsAreTrue == Spec => []AckMeansActed
<1>1. CommandInv => AckMeansActed
  <2>1. SUFFICES ASSUME CommandInv, NEW p \in Packets
                 PROVE  /\ Times(inbox, Ack(p)) <= done[p]
                        /\ pc = "idle" /\ Kind[p] \in {"message", "request"} => Times(inbox, Ack(p)) = done[p]
    BY DEF AckMeansActed
  <2>2. inbox \in Seq(Cell) /\ done[p] \in Nat
    BY <2>1 DEF CommandInv, TypeOK
  <2>3. Times(inbox, Ack(p)) \in Nat
    BY <2>2, TimesType
  <2>4. Acking(p) \in 0 .. 1 /\ (pc = "idle" => Acking(p) = 0)
    BY DEF Acking
  <2>5. /\ Times(inbox, Ack(p)) + Acking(p) <= done[p]
        /\ Kind[p] \in {"message", "request"} => Times(inbox, Ack(p)) + Acking(p) = done[p]
    BY <2>1 DEF CommandInv, AckInv
  <2> QED
    BY <2>2, <2>3, <2>4, <2>5
<1> QED
  BY <1>1, CommandInductive, PTL

(* Answers reach the app in the order of their requests, each run of them   *)
(* behind its acknowledgement (sm_main.cpp:547).                            *)
THEOREM AnswersInOrder == Spec => []AnswersFollowAck
<1>1. CommandInv => AnswersFollowAck
  BY DEF CommandInv, AnswerInv
<1> QED
  BY <1>1, CommandInductive, PTL

(* Nothing that was received before keeps a whole packet from being acted   *)
(* on (sm_main.cpp:712, an_command.cpp:369).                                *)
THEOREM AlwaysResynchronises == Spec => []Resynchronises
<1>1. CommandInv => Resynchronises
  BY DEF CommandInv, BatchInv
<1> QED
  BY <1>1, CommandInductive, PTL

=============================================================================
