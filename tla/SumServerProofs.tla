--------------------------- MODULE SumServerProofs ---------------------------
(***************************************************************************)
(* Proofs about the servers that add two numbers, for any sizes of the     *)
(* buffers, any widths of the integers and any segmentation of the stream: *)
(* readline and prot_a stay inside their buffers, the replies are in       *)
(* order, and the clients print the sums of what they sent.                *)
(*                                                                         *)
(* The order rests on one idea.  What was sent is, at any time, the lines  *)
(* answered so far, and then the stored part of a line, what my_read has   *)
(* read ahead and what is on its way, one behind the other (Rest), or a    *)
(* line that does not fit, after which nothing is promised.                *)
(***************************************************************************)
EXTENDS SumServer, FiniteSetTheorems, TLAPS

IsReply(r) == r \in {Error, Overflow} \/ r = Sum(r.value)

\* A sequence of answers: the sums of prot_x are not typed.
Replied(s) == \E R : s \in Seq(R) /\ \A r \in R : IsReply(r)

\* A line that has reached maxlen - 1 bytes does not wait for more.
Inv == TypeOK /\ Replied(replies) /\ (Lined => Len(line) < MaxBuf - 1)

-----------------------------------------------------------------------------
(* Answers and symbols. *)

\* Every answer is one.
LEMMA AnswerIsReply == \A b : IsReply(Answer(b)) /\ IsReply(AnswerX(b))
BY DEF Answer, AnswerX, Narrow, Wide, IsReply, Sum

\* No answer yet.
LEMMA RepliedNone == Replied(<<>>) /\ Len(<<>>) = 0
<1>1. PICK R : R = {} OBVIOUS
<1>2. <<>> \in Seq(R) /\ \A r \in R : IsReply(r) BY <1>1
<1>3. Replied(<<>>) BY <1>2 DEF Replied
<1> QED BY <1>3

\* One answer more.
LEMMA RepliedAppend ==
  ASSUME NEW s, Replied(s), NEW r, IsReply(r)
  PROVE  Replied(Append(s, r)) /\ Len(s) \in Nat /\ Len(Append(s, r)) = Len(s) + 1
<1>1. PICK R : s \in Seq(R) /\ \A x \in R : IsReply(x)
  BY DEF Replied
<1>2. PICK T : T = R \cup {r} OBVIOUS
<1>3. s \in Seq(T) /\ r \in T
  <2>1. \A i \in DOMAIN s : s[i] \in T BY <1>1, <1>2
  <2>2. DOMAIN s = 1..Len(s) /\ Len(s) \in Nat /\ s = [i \in 1..Len(s) |-> s[i]]
    BY <1>1
  <2> QED BY <1>2, <2>1, <2>2
<1>4. Append(s, r) \in Seq(T) /\ Len(s) \in Nat /\ Len(Append(s, r)) = Len(s) + 1
  BY <1>3
<1>5. \A x \in T : IsReply(x) BY <1>1, <1>2
<1> QED BY <1>4, <1>5 DEF Replied

\* What TypeOK says of the answers.
LEMMA RepliedTyped ==
  ASSUME NEW s, Replied(s)
  PROVE  /\ Len(s) \in Nat
         /\ \A i \in DOMAIN s : s[i] \in {Error, Overflow} \/ s[i] = Sum(s[i].value)
         /\ s # <<>> => Len(s) > 0
<1>1. PICK R : s \in Seq(R) /\ \A x \in R : IsReply(x)
  BY DEF Replied
<1>2. \A i \in DOMAIN s : IsReply(s[i]) BY <1>1
<1> QED BY <1>1, <1>2 DEF IsReply

\* A read() cuts the stream in two.
LEMMA Cut ==
  ASSUME NEW s \in Seq(Symbols), NEW k \in 1..Len(s)
  PROVE  /\ SubSeq(s, 1, k) \in Seq(Symbols) /\ Len(SubSeq(s, 1, k)) = k
         /\ SubSeq(s, k + 1, Len(s)) \in Seq(Symbols)
OBVIOUS

\* What every action needs of the numbers.
LEMMA Numbers ==
  /\ MaxLine \in Nat /\ MaxLine > 0 /\ MaxBuf \in Nat /\ MaxBuf > 1
  /\ Typed \subseteq Symbols /\ NL \in Symbols /\ Junk \in Symbols
BY SumAssumption DEF Symbols

-----------------------------------------------------------------------------
(* The steps of the server. *)

\* The server is at one of its places, with buffers that fit.
ServerTyped ==
  /\ pc \in {"accept", "read", "close", "exited"}
  /\ readbuf \in Seq(Symbols) /\ Len(readbuf) <= MaxLine
  /\ line \in Seq(Symbols) /\ Len(line) < MaxBuf /\ (Lined => Len(line) < MaxBuf - 1)
  /\ nread \in 0..MaxBuf

NetTyped ==
  /\ net \in NetStates /\ wire \in Seq(Symbols) /\ sent \in Seq(Symbols)
  /\ Replied(replies) /\ got \in 0..Len(replies)

\* The invariant, in the parts that the server and the others change.
LEMMA Parted == Inv <=> /\ ServerTyped /\ NetTyped
                        /\ lab \in {"1.1", "1.3", "2.4"} /\ proto \in {"a", "x"}
                        /\ peer \in {"any", "client"}
BY RepliedTyped DEF Inv, TypeOK, ServerTyped, NetTyped

\* The same after a step.
LEMMA PartedNext ==
  ASSUME Inv, UNCHANGED whoVars, ServerTyped', NetTyped'
  PROVE  Inv'
<1>1. (Replied(replies))' BY DEF NetTyped
<1>2. \A i \in DOMAIN replies' :
        replies'[i] \in {Error, Overflow} \/ replies'[i] = Sum(replies'[i].value)
  BY <1>1, RepliedTyped
<1> QED BY <1>1, <1>2 DEF Inv, TypeOK, ServerTyped, NetTyped, whoVars

\* The end of the program.
LEMMA ExitsTyped ==
  ASSUME Exits, UNCHANGED whoVars, nread' \in 0..MaxBuf
  PROVE  ServerTyped'
BY Numbers DEF Exits, ServerTyped

\* An answer is written.
LEMMA WriteTyped ==
  ASSUME NetTyped, UNCHANGED <<whoVars, sent, got>>, wire' \in Seq(Symbols),
         NEW r, IsReply(r), NEW rest \in Seq(Symbols), Len(rest) <= MaxLine,
         nread' \in 0..MaxBuf, Write(r, rest)
  PROVE  ServerTyped' /\ NetTyped'
<1>1. net' \in NetStates
  BY DEF Write, AfterWrite, NetTyped, NetStates
<1>2. replies' = replies \/ replies' = Append(replies, r)
  BY DEF Write
<1>3. Replied(replies') /\ got \in 0..Len(replies')
  <2>1. Replied(replies) /\ got \in 0..Len(replies) BY DEF NetTyped
  <2>2. PICK a : a = Append(replies, r) OBVIOUS
  <2>3. Replied(a) /\ Len(replies) \in Nat /\ Len(a) = Len(replies) + 1
    BY <2>1, <2>2, RepliedAppend
  <2>4. CASE replies' = replies BY <2>1, <2>4
  <2>5. CASE replies' = a
    <3>1. Replied(replies') BY <2>3, <2>5
    <3>2. got \in 0..Len(replies') BY <2>1, <2>3, <2>5
    <3> QED BY <3>1, <3>2
  <2> QED BY <1>2, <2>2, <2>4, <2>5
<1>4. NetTyped' BY <1>1, <1>3 DEF NetTyped
<1>5. CASE Fatal
  BY <1>5, ExitsTyped, <1>4 DEF Write
<1>6. CASE ~Fatal
  <2>1. line' = <<>> /\ readbuf' = rest /\ pc' \in {"close", "read"}
    BY <1>6 DEF Write
  <2> QED BY <1>4, <2>1, Numbers DEF ServerTyped
<1> QED BY <1>5, <1>6

\* Accept, Fill and CloseConn keep it.
LEMMA ConnInv ==
  ASSUME Inv, Accept \/ AcceptOnce \/ Fill \/ CloseConn
  PROVE  Inv'
<1>1. ServerTyped /\ NetTyped BY Parted
<1>2. CASE Accept \/ AcceptOnce
  BY <1>1, <1>2, PartedNext DEF Accept, AcceptOnce, Accepts, ServerTyped, NetTyped,
     Lined, whoVars, clientVars, netVars
<1>3. CASE Fill
  <2>1. PICK k \in 1..Len(wire) :
          /\ k <= MaxLine
          /\ readbuf' = SubSeq(wire, 1, k) /\ wire' = SubSeq(wire, k + 1, Len(wire))
    BY <1>3 DEF Fill
  <2>2. /\ readbuf' \in Seq(Symbols) /\ Len(readbuf') <= MaxLine
        /\ wire' \in Seq(Symbols)
    BY <1>1, <2>1, Cut DEF NetTyped
  <2> QED BY <1>1, <1>3, <2>2, PartedNext DEF Fill, ServerTyped, NetTyped, Lined, whoVars,
                                        clientVars
<1>4. CASE CloseConn
  <2>1. wire' \in Seq(Symbols) /\ net' \in NetStates
    BY <1>4 DEF CloseConn, NetStates
  <2> QED BY <1>1, <1>4, <2>1, PartedNext DEF CloseConn, ServerTyped, NetTyped, Lined,
                                        whoVars, clientVars
<1> QED BY <1>2, <1>3, <1>4

\* Readline keeps it: the line that is stored is one short of the limit.
LEMMA ReadlineInv ==
  ASSUME Inv, Readline
  PROVE  Inv'
<1>1. ServerTyped /\ NetTyped BY Parted
<1>2. /\ UNCHANGED <<whoVars, clientVars, wire, sent>> /\ UNCHANGED got
      /\ readbuf # <<>> /\ Lined
  BY DEF Readline, clientVars
<1>3. PICK l, c, t : l = Append(line, c) /\ c = Head(readbuf) /\ t = Tail(readbuf)
  OBVIOUS
<1>4. c \in Symbols /\ t \in Seq(Symbols) /\ Len(t) <= MaxLine
  BY <1>1, <1>2, <1>3, Numbers DEF ServerTyped
<1>5. /\ l \in Seq(Symbols) /\ Len(l) = Len(line) + 1 /\ Len(line) \in Nat
      /\ Len(l) <= MaxBuf - 1
  BY <1>1, <1>2, <1>3, <1>4, Numbers DEF ServerTyped
<1>6. CASE c = NL \/ Full(l)
  <2>1. nread' = (IF c = NL THEN Len(l) ELSE Len(l) + 1) /\ Write(Answer(l), t)
    BY <1>3, <1>6 DEF Readline
  <2>2. nread' \in 0..MaxBuf
    BY <1>5, <2>1, Numbers
  <2>3. wire' \in Seq(Symbols) BY <1>1, <1>2 DEF NetTyped
  <2>4. ServerTyped' /\ NetTyped'
    BY <1>1, <1>2, <1>4, <2>1, <2>2, <2>3, WriteTyped, AnswerIsReply
  <2> QED BY <1>2, <2>4, PartedNext
<1>7. CASE ~(c = NL \/ Full(l))
  <2>1. /\ line' = l /\ readbuf' = t
        /\ UNCHANGED <<pc, nread, net, replies>>
    BY <1>3, <1>7 DEF Readline
  <2>2. Len(l) < MaxBuf - 1
    BY <1>5, <1>7, Numbers DEF Full
  <2>3. Len(l) < MaxBuf BY <1>5, <2>2, Numbers
  <2>4. ServerTyped'
    BY <1>1, <1>2, <1>4, <1>5, <2>1, <2>2, <2>3 DEF ServerTyped
  <2>5. NetTyped' BY <1>1, <1>2, <2>1 DEF NetTyped
  <2> QED BY <1>2, <2>4, <2>5, PartedNext
<1> QED BY <1>6, <1>7

\* ReadlineEnd keeps it: a line of one byte less than the limit at most.
LEMMA ReadlineEndInv ==
  ASSUME Inv, ReadlineEnd
  PROVE  Inv'
<1>1. ServerTyped /\ NetTyped BY Parted
<1>2. /\ UNCHANGED <<whoVars, clientVars, wire, sent>> /\ UNCHANGED got
      /\ Lined
  BY DEF ReadlineEnd, clientVars
<1>3. wire' \in Seq(Symbols) BY <1>1, <1>2 DEF NetTyped
<1>4. CASE Exits /\ net' = AfterRead(net) /\ UNCHANGED <<nread, replies>>
  <2>1. nread' \in 0..MaxBuf BY <1>1, <1>4 DEF ServerTyped
  <2>2. ServerTyped' BY <1>2, <1>4, <2>1, ExitsTyped
  <2>3. NetTyped' BY <1>1, <1>2, <1>4 DEF NetTyped, AfterRead, NetStates
  <2> QED BY <1>2, <2>2, <2>3, PartedNext
<1>5. CASE nread' = Len(line) + 1 /\ Write(Answer(line), <<>>)
  <2>1. Len(line) \in Nat /\ Len(line) < MaxBuf BY <1>1 DEF ServerTyped
  <2>2. nread' \in 0..MaxBuf BY <1>5, <2>1, Numbers
  <2>3. <<>> \in Seq(Symbols) /\ Len(<<>>) <= MaxLine BY Numbers
  <2>4. ServerTyped' /\ NetTyped'
    BY <1>1, <1>2, <1>3, <1>5, <2>2, <2>3, WriteTyped, AnswerIsReply
  <2> QED BY <1>2, <2>4, PartedNext
<1>6. CASE pc' = "close" /\ nread' = 0 /\ UNCHANGED <<readbuf, line, net, replies>>
  BY <1>1, <1>2, <1>6, Numbers, PartedNext DEF ServerTyped, NetTyped, whoVars
<1> QED BY <1>4, <1>5, <1>6 DEF ReadlineEnd

\* ReadRaw and ReadRawFails keep it: a read() fills the buffer at most.
LEMMA ReadRawInv ==
  ASSUME Inv, ReadRaw \/ ReadRawFails
  PROVE  Inv'
<1>1. ServerTyped /\ NetTyped BY Parted
<1>2. UNCHANGED <<whoVars, clientVars, sent>> /\ UNCHANGED got
  BY DEF ReadRaw, ReadRawFails, clientVars
<1>3. CASE ReadRaw
  <2>1. PICK k \in 1..Len(wire) :
          /\ k <= MaxBuf /\ nread' = k
          /\ Write(Answer(SubSeq(wire, 1, k)), <<>>)
          /\ wire' = SubSeq(wire, k + 1, Len(wire))
    BY <1>3 DEF ReadRaw
  <2>2. nread' \in 0..MaxBuf BY <2>1, Numbers
  <2>3. wire' \in Seq(Symbols) BY <1>1, <2>1, Cut DEF NetTyped
  <2>4. PICK r : r = Answer(SubSeq(wire, 1, k)) OBVIOUS
  <2>5. IsReply(r) /\ Write(r, <<>>) BY <2>1, <2>4, AnswerIsReply
  <2>6. <<>> \in Seq(Symbols) /\ Len(<<>>) <= MaxLine BY Numbers
  <2>7. ServerTyped' /\ NetTyped'
    BY <1>1, <1>2, <2>2, <2>3, <2>5, <2>6, WriteTyped
  <2> QED BY <1>2, <2>7, PartedNext
<1>4. CASE ReadRawFails
  <2>1. Exits /\ nread' \in 0..MaxBuf
    BY <1>1, <1>4 DEF ReadRawFails, ServerTyped
  <2>2. ServerTyped' BY <1>2, <2>1, ExitsTyped
  <2>3. net' \in NetStates
    BY <1>1, <1>4 DEF ReadRawFails, NetTyped, AfterWrite, AfterRead, NetStates
  <2>4. NetTyped' BY <1>1, <1>2, <1>4, <2>3 DEF NetTyped, ReadRawFails
  <2> QED BY <1>2, <2>2, <2>4, PartedNext
<1> QED BY <1>3, <1>4

\* prot_x keeps it: one operand waits at most.
LEMMA DecodeInv ==
  ASSUME Inv, DecodeFirst \/ DecodeSecond \/ DecodeEnd
  PROVE  Inv'
<1>1. ServerTyped /\ NetTyped BY Parted
<1>2. UNCHANGED <<whoVars, nread, clientVars, wire, sent>> /\ UNCHANGED got /\ proto = "x"
  BY DEF DecodeFirst, DecodeSecond, DecodeEnd, clientVars, netVars
<1>3. wire' \in Seq(Symbols) /\ nread' \in 0..MaxBuf
  BY <1>1, <1>2 DEF NetTyped, ServerTyped
<1>4. CASE \E r : IsReply(r) /\ Write(r, <<>>)
  <2>1. PICK r : IsReply(r) /\ Write(r, <<>>) BY <1>4
  <2>2. <<>> \in Seq(Symbols) /\ Len(<<>>) <= MaxLine BY Numbers
  <2>3. ServerTyped' /\ NetTyped'
    BY <1>1, <1>2, <1>3, <2>1, <2>2, WriteTyped
  <2> QED BY <1>2, <2>3, PartedNext
<1>5. CASE Exits /\ net' = "broken" /\ UNCHANGED replies
  <2>1. ServerTyped' BY <1>2, <1>3, <1>5, ExitsTyped
  <2>2. NetTyped' BY <1>1, <1>2, <1>5 DEF NetTyped, NetStates
  <2> QED BY <1>2, <2>1, <2>2, PartedNext
<1>6. CASE DecodeFirst
  <2>1. /\ readbuf # <<>> /\ line = <<>>
        /\ line' = Append(line, Head(readbuf)) /\ readbuf' = Tail(readbuf)
        /\ UNCHANGED <<pc, net, replies>>
    BY <1>6 DEF DecodeFirst, netVars
  <2>2. readbuf' \in Seq(Symbols) /\ Len(readbuf') <= MaxLine
    BY <1>1, <2>1, Numbers DEF ServerTyped
  <2>3. line' \in Seq(Symbols) /\ Len(line') = 1
    BY <1>1, <2>1 DEF ServerTyped
  <2>4. ~Lined' BY <1>2 DEF Lined, whoVars
  <2>5. ServerTyped'
    BY <1>1, <1>2, <2>1, <2>2, <2>3, <2>4, Numbers DEF ServerTyped
  <2>6. NetTyped' BY <1>1, <1>2, <2>1 DEF NetTyped
  <2> QED BY <1>2, <2>5, <2>6, PartedNext
<1> QED BY <1>4, <1>5, <1>6, AnswerIsReply DEF DecodeSecond, DecodeEnd

\* Killed keeps it.
LEMMA KilledInv ==
  ASSUME Inv, Killed
  PROVE  Inv'
<1>1. ServerTyped /\ NetTyped BY Parted
<1>2. ServerTyped' BY <1>1, ExitsTyped DEF Killed, ServerTyped
<1>3. NetTyped' BY <1>1 DEF NetTyped, Killed, netVars, clientVars
<1> QED BY <1>2, <1>3, PartedNext DEF Killed

-----------------------------------------------------------------------------
(* The steps of the clients, which leave the server alone. *)

\* The server's part is untouched.
LEMMA ServerAlone ==
  ASSUME ServerTyped, UNCHANGED <<whoVars, serverVars>>
  PROVE  ServerTyped'
BY DEF ServerTyped, Lined, whoVars, serverVars

\* A new connection is empty.
LEMMA ConnectInv ==
  ASSUME Inv, Connect
  PROVE  Inv'
<1>1. ServerTyped' BY Parted, ServerAlone DEF Connect
<1>2. NetTyped' BY RepliedNone DEF Connect, NetTyped, NetStates
<1> QED BY <1>1, <1>2, PartedNext DEF Connect

\* Symbols are sent.
LEMMA SendAllInv ==
  ASSUME Inv, NEW q \in Seq(Symbols), SendAll(q), UNCHANGED got
  PROVE  Inv'
<1>1. ServerTyped' BY Parted, ServerAlone DEF SendAll
<1>2. NetTyped' BY Parted DEF SendAll, NetTyped
<1> QED BY <1>1, <1>2, PartedNext DEF SendAll

\* The text client sends numbers of its unsigned short, the other any.
LEMMA AskSends ==
  ASSUME NEW a \in Typed, NEW b \in Typed, AskText(a, b) \/ AskXdr(a, b)
  PROVE  \E q \in Seq(Symbols) : SendAll(q) /\ UNCHANGED got
<1>1. a \in Symbols /\ b \in Symbols /\ NL \in Symbols BY Numbers
<1>2. Unsigned(a) \in Symbols /\ Unsigned(b) \in Symbols
  <2>1. a \in Nat /\ b \in Nat BY SumAssumption
  <2>2. PICK m : m = 2^HalfBits OBVIOUS
  <2>3. m \in Nat /\ m > 0 BY <2>2, SumAssumption
  <2>4. a % m \in Nat /\ b % m \in Nat BY <2>1, <2>3
  <2> QED BY <2>2, <2>4 DEF Unsigned, Symbols
<1>3. PICK q, x : q = <<Unsigned(a), Unsigned(b), NL>> /\ x = <<a, b>> OBVIOUS
<1>4. q \in Seq(Symbols) /\ x \in Seq(Symbols) BY <1>1, <1>2, <1>3
<1> QED BY <1>3, <1>4 DEF AskText, AskXdr

\* They keep it.
LEMMA AskInv ==
  ASSUME Inv, NEW a \in Typed, NEW b \in Typed, AskText(a, b) \/ AskXdr(a, b)
  PROVE  Inv'
<1>1. PICK q \in Seq(Symbols) : SendAll(q) /\ UNCHANGED got BY AskSends
<1> QED BY <1>1, SendAllInv

\* SendSymbol keeps it.
LEMMA SendSymbolInv ==
  ASSUME Inv, NEW s \in Typed \cup {NL, Junk}, SendSymbol(s)
  PROVE  Inv'
<1>1. PICK q : q = <<s>> OBVIOUS
<1>2. q \in Seq(Symbols) BY <1>1, Numbers
<1> QED BY <1>1, <1>2, SendAllInv DEF SendSymbol, clientVars

\* The steps that read or end the connection keep it.
LEMMA ReceiveInv ==
  ASSUME Inv, ReceiveText \/ ReceiveXdr \/ ReceiveEnd \/ ClientCloses \/ ResetArrives
  PROVE  Inv'
<1>1. /\ UNCHANGED <<whoVars, serverVars, wire, sent, replies>>
  BY DEF ReceiveText, ReceiveXdr, ReceiveEnd, ClientCloses, ResetArrives, netVars
<1>2. ServerTyped' BY <1>1, Parted, ServerAlone
<1>3. NetTyped BY Parted
<1>4. net' \in NetStates
  BY <1>3 DEF NetTyped, ReceiveText, ReceiveXdr, ReceiveEnd, ClientCloses, ResetArrives,
              netVars, NetStates
<1>5. got' \in 0..Len(replies)
  BY <1>3, RepliedTyped DEF NetTyped, ReceiveText, ReceiveXdr, ReceiveEnd, ClientCloses,
              ResetArrives, clientVars
<1>6. NetTyped' BY <1>1, <1>3, <1>4, <1>5 DEF NetTyped
<1> QED BY <1>1, <1>2, <1>6, PartedNext

-----------------------------------------------------------------------------
(* The specification. *)

\* Before the first connection.
LEMMA InitInv ==
  ASSUME Init
  PROVE  Inv
<1>1. ServerTyped BY Numbers DEF Init, ServerTyped
<1>2. NetTyped BY RepliedNone DEF Init, NetTyped, NetStates
<1> QED BY <1>1, <1>2, Parted DEF Init

\* No step.
LEMMA StutterInv ==
  ASSUME Inv, UNCHANGED vars
  PROVE  Inv'
<1>1. ServerTyped' BY Parted, ServerAlone DEF vars
<1>2. NetTyped' BY Parted DEF NetTyped, vars, netVars, clientVars
<1> QED BY <1>1, <1>2, PartedNext DEF vars

\* Every step keeps the invariant.
LEMMA Inductive == Inv /\ [Next]_vars => Inv'
<1> SUFFICES ASSUME Inv, [Next]_vars PROVE Inv'
  OBVIOUS
<1>1. CASE Accept \/ AcceptOnce \/ Fill \/ CloseConn BY <1>1, ConnInv
<1>2. CASE Readline BY <1>2, ReadlineInv
<1>3. CASE ReadlineEnd BY <1>3, ReadlineEndInv
<1>4. CASE ReadRaw \/ ReadRawFails BY <1>4, ReadRawInv
<1>5. CASE DecodeFirst \/ DecodeSecond \/ DecodeEnd BY <1>5, DecodeInv
<1>6. CASE Killed BY <1>6, KilledInv
<1>7. CASE Connect BY <1>7, ConnectInv
<1>8. CASE \E a, b \in Typed : AskText(a, b) \/ AskXdr(a, b) BY <1>8, AskInv
<1>9. CASE \E s \in Typed \cup {NL, Junk} : SendSymbol(s) BY <1>9, SendSymbolInv
<1>10. CASE ReceiveText \/ ReceiveXdr \/ ReceiveEnd \/ ClientCloses \/ ResetArrives
  BY <1>10, ReceiveInv
<1>11. CASE UNCHANGED vars BY <1>11, StutterInv
<1> QED BY <1>1, <1>2, <1>3, <1>4, <1>5, <1>6, <1>7, <1>8, <1>9, <1>10, <1>11
        DEF Next, Server, Client

\* The invariant holds in every state.
THEOREM Invariance == Spec => []Inv
<1>1. Init => Inv BY InitInv
<1>2. Inv /\ [Next]_vars => Inv' BY Inductive
<1> QED BY <1>1, <1>2, PTL DEF Spec

\* Whatever is sent and however it is cut, readline stores at most maxlen - 1
\* bytes and the terminator of prot_a is written inside its buffer
\* (server_test.c 51-62), for any MAXLINE and MAXBUFL.
THEOREM TypeCorrect == Spec => []TypeOK
<1>1. Inv => TypeOK BY DEF Inv
<1> QED BY <1>1, Invariance, PTL

-----------------------------------------------------------------------------
(* Streams: what the invariant says, of the values of the variables. *)

\* s is a beginning of t.
Begins(s, t) == Len(s) <= Len(t) /\ \A k \in 1..Len(s) : t[k] = s[k]

\* The symbols q stand in s, after place p.
Stands(s, p, q) == \A i \in 1..Len(q) : s[p + i] = q[i]

\* After place p of s come l, r and w.
Rest(s, p, l, r, w) ==
  /\ Len(s) = p + Len(l) + Len(r) + Len(w)
  /\ Stands(s, p, l) /\ Stands(s, p + Len(l), r) /\ Stands(s, p + Len(l) + Len(r), w)

\* read() takes k symbols.
Cuts(w, k, r, w2) == r = SubSeq(w, 1, k) /\ w2 = SubSeq(w, k + 1, Len(w))

\* They are read ahead, and no longer on their way.
LEMMA RestFill ==
  ASSUME NEW s \in Seq(Symbols), NEW l \in Seq(Symbols), NEW r, NEW w \in Seq(Symbols),
         NEW r2, NEW w2, NEW p \in Nat, NEW k \in 1..Len(w), Rest(s, p, l, r, w),
         r = <<>>, Cuts(w, k, r2, w2)
  PROVE  Rest(s, p, l, r2, w2)
<1>1. PICK m, n \in Nat : m = Len(l) /\ n = Len(w) OBVIOUS
<1>2. /\ Len(r2) = k /\ \A i \in 1..k : r2[i] = w[i]
      /\ Len(w2) = n - k /\ \A i \in 1..(n - k) : w2[i] = w[k + i]
  BY <1>1 DEF Cuts
<1>3. Len(r) = 0 OBVIOUS
<1>4. Len(s) = p + m + n /\ \A i \in 1..n : s[p + m + i] = w[i]
  BY <1>1, <1>3 DEF Rest, Stands
<1>5. k \in Nat /\ k <= n BY <1>1
<1>6. Len(s) = p + m + k + (n - k) BY <1>4, <1>5
<1>7. \A i \in 1..(n - k) : s[p + m + k + i] = w2[i]
  <2> TAKE i \in 1..(n - k)
  <2>1. k + i \in 1..n /\ p + m + k + i = p + m + (k + i) BY <1>5
  <2> QED BY <1>2, <1>4, <2>1
<1>8. Stands(s, p + m, r2)
  <2>1. ASSUME NEW i \in 1..k PROVE s[p + m + i] = r2[i]
    <3>1. i \in 1..n BY <1>5
    <3> QED BY <1>2, <1>4, <3>1
  <2> QED BY <1>2, <2>1 DEF Stands
<1>9. Stands(s, p + m + k, w2) BY <1>2, <1>7 DEF Stands
<1>10. Stands(s, p, l) BY DEF Rest
<1> QED BY <1>1, <1>2, <1>6, <1>8, <1>9, <1>10 DEF Rest

\* The next symbol is taken to the end of the line.
LEMMA RestTake ==
  ASSUME NEW s \in Seq(Symbols), NEW l \in Seq(Symbols), NEW r \in Seq(Symbols),
         NEW w \in Seq(Symbols), NEW l2, NEW r2, NEW p \in Nat, Rest(s, p, l, r, w),
         r # <<>>, l2 = Append(l, Head(r)), r2 = Tail(r)
  PROVE  /\ Rest(s, p, l2, r2, w)
         /\ s[p + Len(l) + 1] = Head(r) /\ p + Len(l) + 1 <= Len(s)
<1>1. PICK m, n, o \in Nat : m = Len(l) /\ n = Len(r) /\ o = Len(w) OBVIOUS
<1>2. n > 0 /\ Head(r) = r[1] BY <1>1
<1>3. Len(l2) = m + 1 /\ \A i \in 1..(m + 1) : l2[i] = IF i = m + 1 THEN r[1] ELSE l[i]
  BY <1>1, <1>2
<1>4. Len(r2) = n - 1 /\ \A i \in 1..(n - 1) : r2[i] = r[i + 1]
  BY <1>1, <1>2
<1>5. /\ Len(s) = p + m + n + o
      /\ \A i \in 1..m : s[p + i] = l[i]
      /\ \A i \in 1..n : s[p + m + i] = r[i]
      /\ \A i \in 1..o : s[p + m + n + i] = w[i]
  BY <1>1 DEF Rest, Stands
<1>6. s[p + m + 1] = r[1] BY <1>2, <1>5
<1>7. \A i \in 1..(m + 1) : s[p + i] = l2[i]
  <2> TAKE i \in 1..(m + 1)
  <2>1. CASE i = m + 1
    <3>1. p + i = p + m + 1 BY <2>1
    <3> QED BY <1>3, <1>6, <2>1, <3>1
  <2>2. CASE i # m + 1
    <3>1. i \in 1..m BY <2>2
    <3> QED BY <1>3, <1>5, <2>2, <3>1
  <2> QED BY <2>1, <2>2
<1>8. \A i \in 1..(n - 1) : s[p + (m + 1) + i] = r2[i]
  <2> TAKE i \in 1..(n - 1)
  <2>1. i + 1 \in 1..n /\ p + (m + 1) + i = p + m + (i + 1) BY <1>2
  <2> QED BY <1>4, <1>5, <2>1
<1>9. \A i \in 1..o : s[p + (m + 1) + (n - 1) + i] = w[i]
  <2> TAKE i \in 1..o
  <2>1. p + (m + 1) + (n - 1) + i = p + m + n + i BY <1>2
  <2> QED BY <1>5, <2>1
<1>10. Len(s) = p + (m + 1) + (n - 1) + o BY <1>5
<1>11. p + m + 1 <= Len(s) BY <1>2, <1>5
<1> QED BY <1>1, <1>2, <1>3, <1>4, <1>6, <1>7, <1>8, <1>9, <1>10, <1>11 DEF Rest, Stands

\* The line is done with.
LEMMA RestNext ==
  ASSUME NEW s \in Seq(Symbols), NEW l \in Seq(Symbols), NEW r \in Seq(Symbols),
         NEW w \in Seq(Symbols), NEW p \in Nat, Rest(s, p, l, r, w), NEW e, e = <<>>
  PROVE  Rest(s, p + Len(l), e, r, w) /\ p + Len(l) \in 0..Len(s)
<1>1. PICK m, n, o \in Nat : m = Len(l) /\ n = Len(r) /\ o = Len(w) OBVIOUS
<1>2. Len(e) = 0 OBVIOUS
<1>3. /\ Len(s) = p + m + n + o
      /\ \A i \in 1..n : s[p + m + i] = r[i]
      /\ \A i \in 1..o : s[p + m + n + i] = w[i]
  BY <1>1 DEF Rest, Stands
<1>4. p + m + 0 = p + m /\ p + m \in 0..Len(s) BY <1>3
<1> QED BY <1>1, <1>2, <1>3, <1>4 DEF Rest, Stands

\* Where the symbols of two joined sequences are.
LEMMA Joined ==
  ASSUME NEW s \in Seq(Symbols), NEW q \in Seq(Symbols), NEW m, m = Len(s),
         NEW v, v = Len(q)
  PROVE  /\ Len(s \o q) = m + v
         /\ \A i \in 1..m : (s \o q)[i] = s[i]
         /\ \A i \in 1..v : (s \o q)[m + i] = q[i]
<1>1. Len(s \o q) = m + v OBVIOUS
<1>2. \A i \in 1..m : (s \o q)[i] = s[i] OBVIOUS
<1>3. ASSUME NEW i \in 1..v PROVE (s \o q)[m + i] = q[i]
  <2>1. m \in Nat /\ v \in Nat OBVIOUS
  <2>2. m + i \in 1..(m + v) /\ ~(m + i <= m) /\ (m + i) - m = i BY <2>1
  <2> QED BY <2>2
<1> QED BY <1>1, <1>2, <1>3

\* More symbols are sent.
LEMMA RestMore ==
  ASSUME NEW s \in Seq(Symbols), NEW l \in Seq(Symbols), NEW r \in Seq(Symbols),
         NEW w \in Seq(Symbols), NEW q \in Seq(Symbols), NEW s2, NEW w2, NEW p \in Nat,
         Rest(s, p, l, r, w), s2 = s \o q, w2 = w \o q
  PROVE  Rest(s2, p, l, r, w2)
<1>1. PICK m, n, o, v, u \in Nat : m = Len(l) /\ n = Len(r) /\ o = Len(w) /\ v = Len(q) /\ u = Len(s)
  OBVIOUS
<1>2. /\ u = p + m + n + o
      /\ \A i \in 1..m : s[p + i] = l[i]
      /\ \A i \in 1..n : s[p + m + i] = r[i]
      /\ \A i \in 1..o : s[p + m + n + i] = w[i]
  BY <1>1 DEF Rest, Stands
<1>3. /\ Len(s2) = u + v /\ Len(w2) = o + v
      /\ \A i \in 1..u : s2[i] = s[i]
      /\ \A i \in 1..v : s2[u + i] = q[i]
      /\ \A i \in 1..o : w2[i] = w[i]
      /\ \A i \in 1..v : w2[o + i] = q[i]
  BY <1>1, Joined
<1>4. \A i \in 1..m : s2[p + i] = l[i]
  <2> TAKE i \in 1..m
  <2>1. p + i \in 1..u BY <1>2
  <2> QED BY <1>2, <1>3, <2>1
<1>5. \A i \in 1..n : s2[p + m + i] = r[i]
  <2> TAKE i \in 1..n
  <2>1. p + m + i \in 1..u BY <1>2
  <2> QED BY <1>2, <1>3, <2>1
<1>6. \A i \in 1..(o + v) : s2[p + m + n + i] = w2[i]
  <2> TAKE i \in 1..(o + v)
  <2>1. CASE i <= o
    <3>1. i \in 1..o /\ p + m + n + i \in 1..u BY <1>2, <2>1
    <3> QED BY <1>2, <1>3, <3>1
  <2>2. CASE ~(i <= o)
    <3>1. PICK j \in 1..v : i = o + j
      <4>1. i - o \in 1..v /\ i = o + (i - o) BY <2>2
      <4> QED BY <4>1
    <3>2. u = p + m + n + o BY <1>2
    <3>3. j \in Int BY <3>1
    <3>4. p + m + n + (o + j) = u + j BY <3>2, <3>3
    <3>5. s2[u + j] = q[j] /\ w2[o + j] = q[j] BY <1>3
    <3>6. s2[p + m + n + (o + j)] = w2[o + j] BY <3>4, <3>5
    <3> QED BY <3>1, <3>6
  <2> QED BY <2>1, <2>2
<1>7. Len(s2) = p + m + n + (o + v)
  <2>1. u = p + m + n + o BY <1>2
  <2>2. u + v = p + m + n + (o + v) BY <2>1
  <2> QED BY <1>3, <2>2
<1>8. Stands(s2, p, l) BY <1>1, <1>4 DEF Stands
<1>9. Stands(s2, p + m, r) BY <1>1, <1>5 DEF Stands
<1>10. Stands(s2, p + m + n, w2) BY <1>3, <1>6 DEF Stands
<1> QED BY <1>1, <1>3, <1>7, <1>8, <1>9, <1>10 DEF Rest

\* What was sent before is still there.
LEMMA BeginsMore ==
  ASSUME NEW s \in Seq(Symbols), NEW q \in Seq(Symbols), NEW s2, s2 = s \o q
  PROVE  Begins(s, s2) /\ s2 \in Seq(Symbols)
BY DEF Begins

\* The same symbols at the same places.
LEMMA SamePart ==
  ASSUME NEW s \in Seq(Symbols), NEW t \in Seq(Symbols), NEW a \in Int, NEW b \in Int,
         a >= 1, b <= Len(s), b <= Len(t), \A k \in a..b : t[k] = s[k]
  PROVE  SubSeq(t, a, b) = SubSeq(s, a, b)
<1>1. PICK u, v : u = SubSeq(s, a, b) /\ v = SubSeq(t, a, b) OBVIOUS
<1>2. u \in Seq(Symbols) /\ v \in Seq(Symbols) BY <1>1
<1>3. CASE a <= b
  <2>1. Len(u) = b - a + 1 /\ Len(v) = b - a + 1 BY <1>1, <1>3
  <2>2. \A i \in 1..(b - a + 1) : u[i] = s[a + i - 1] /\ v[i] = t[a + i - 1]
    BY <1>1, <1>3
  <2>3. \A i \in 1..(b - a + 1) : a + i - 1 \in a..b OBVIOUS
  <2>4. \A i \in 1..(b - a + 1) : u[i] = v[i] BY <2>2, <2>3
  <2> QED BY <1>1, <1>2, <2>1, <2>4
<1>4. CASE a > b
  <2>1. Len(u) = 0 /\ Len(v) = 0 BY <1>1, <1>4
  <2> QED BY <1>1, <1>2, <2>1
<1> QED BY <1>3, <1>4

-----------------------------------------------------------------------------
(* Lines, and how many there are. *)

\* A complete line of s, its number, and its answer.
LineOf(s, a, b) ==
  /\ a \in 1..b /\ b \in DOMAIN s
  /\ s[b] = NL /\ \A k \in a..(b - 1) : s[k] # NL
  /\ a = 1 \/ s[a - 1] = NL
Ends(s, b) == {k \in 1..b : s[k] = NL}
Count(s, b) == Cardinality(Ends(s, b))
AnswerOf(which, q) == IF ~Parses(q) THEN Error
                      ELSE IF which = "1.3" THEN Narrow(q) ELSE Wide(q)

\* Finitely many places end a line.
LEMMA EndsFinite ==
  ASSUME NEW s, NEW b \in Nat
  PROVE  IsFiniteSet(Ends(s, b)) /\ Count(s, b) \in Nat
<1>1. IsFiniteSet(1..b) BY FS_Interval
<1>2. Ends(s, b) \subseteq 1..b BY DEF Ends
<1>3. IsFiniteSet(Ends(s, b)) BY <1>1, <1>2, FS_Subset
<1> QED BY <1>3, FS_CardinalityType DEF Count

\* None in nothing.
LEMMA CountNone == \A s : Count(s, 0) = 0
BY FS_EmptySet DEF Count, Ends

\* The next line counts one more.
LEMMA CountStep ==
  ASSUME NEW s, NEW p \in Nat, NEW b \in Nat, p < b, s[b] = NL,
         \A k \in (p + 1)..(b - 1) : s[k] # NL
  PROVE  Count(s, b) = Count(s, p) + 1
<1>1. b \notin Ends(s, p) BY DEF Ends
<1>2. Ends(s, b) = Ends(s, p) \cup {b}
  <2>1. ASSUME NEW k \in Ends(s, b), k # b PROVE k \in Ends(s, p)
    <3>1. k \in 1..b /\ s[k] = NL BY <2>1 DEF Ends
    <3>2. k <= p
      <4>1. CASE k > p
        <5>1. k \in (p + 1)..(b - 1) BY <2>1, <3>1, <4>1
        <5> QED BY <3>1, <5>1
      <4> QED BY <3>1, <4>1
    <3> QED BY <3>1, <3>2 DEF Ends
  <2>2. ASSUME NEW k \in Ends(s, p) PROVE k \in Ends(s, b) BY DEF Ends
  <2>3. b \in Ends(s, b) BY DEF Ends
  <2> QED BY <2>1, <2>2, <2>3
<1>3. IsFiniteSet(Ends(s, p)) BY EndsFinite
<1> QED BY <1>1, <1>2, <1>3, FS_AddElement DEF Count

\* Any later line counts more.
LEMMA CountMore ==
  ASSUME NEW s, NEW p \in Nat, NEW b \in Nat, p < b, s[b] = NL
  PROVE  Count(s, p) < Count(s, b)
<1>1. PICK d : d = Ends(s, p) \cup {b} OBVIOUS
<1>2. b \notin Ends(s, p) BY DEF Ends
<1>3. IsFiniteSet(Ends(s, p)) /\ IsFiniteSet(Ends(s, b)) /\ Count(s, p) \in Nat
      /\ Count(s, b) \in Nat
  BY EndsFinite
<1>4. IsFiniteSet(d) /\ Cardinality(d) = Count(s, p) + 1
  BY <1>1, <1>2, <1>3, FS_AddElement DEF Count
<1>5. d \subseteq Ends(s, b)
  <2>1. Ends(s, p) \subseteq Ends(s, b) BY DEF Ends
  <2>2. b \in Ends(s, b) BY DEF Ends
  <2> QED BY <1>1, <2>1, <2>2
<1>6. Cardinality(d) <= Count(s, b) BY <1>3, <1>5, FS_Subset DEF Count
<1> QED BY <1>3, <1>4, <1>6

\* What is sent later changes no number.
LEMMA CountBegins ==
  ASSUME NEW s, NEW t, Begins(s, t), Len(s) \in Nat, NEW b \in 0..Len(s)
  PROVE  Count(t, b) = Count(s, b)
<1>1. \A k \in 1..b : k \in 1..Len(s) BY DEF Begins
<1>2. Ends(t, b) = Ends(s, b) BY <1>1 DEF Begins, Ends
<1> QED BY <1>2 DEF Count

-----------------------------------------------------------------------------
(* The lines that are answered. *)

\* Every line of s up to place p is answered in r.
Answered(which, s, r, p) ==
  /\ p \in 0..Len(s) /\ (p = 0 \/ s[p] = NL)
  /\ \A b \in 1..p : \A a \in 1..b :
       LineOf(s, a, b) => /\ Count(s, b) \in 1..Len(r)
                          /\ r[Count(s, b)] = AnswerOf(which, SubSeq(s, a, b))

\* A line that does not fit follows place p.
TooLong(s, p) ==
  /\ p + MaxBuf - 1 <= Len(s)
  /\ \A k \in (p + 1)..(p + MaxBuf - 1) : s[k] # NL

\* More symbols and more answers leave them answered.
LEMMA AnsweredMore ==
  ASSUME NEW s \in Seq(Symbols), NEW t \in Seq(Symbols), Begins(s, t), NEW which, NEW r,
         NEW r2, NEW p, Answered(which, s, r, p), Len(r) \in Nat, Len(r2) \in Nat,
         Begins(r, r2)
  PROVE  Answered(which, t, r2, p)
<1>1. PICK m, n \in Nat : m = Len(s) /\ n = Len(t) OBVIOUS
<1>2. m <= n /\ \A k \in 1..m : t[k] = s[k] BY <1>1 DEF Begins
<1>3. p \in 0..m /\ (p = 0 \/ s[p] = NL) BY <1>1 DEF Answered
<1>4. p \in 0..n /\ (p = 0 \/ t[p] = NL)
  <2>1. p \in 0..n BY <1>2, <1>3
  <2>2. p = 0 \/ p \in 1..m BY <1>3
  <2> QED BY <1>2, <1>3, <2>1, <2>2
<1>5. ASSUME NEW b \in 1..p, NEW a \in 1..b, LineOf(t, a, b)
      PROVE  /\ Count(t, b) \in 1..Len(r2)
             /\ r2[Count(t, b)] = AnswerOf(which, SubSeq(t, a, b))
  <2>1. b \in 1..m /\ a \in 1..m BY <1>3
  <2>2. LineOf(s, a, b)
    <3>1. b \in DOMAIN s BY <1>1, <2>1
    <3>2. s[b] = NL /\ (\A k \in a..(b - 1) : s[k] # NL)
      <4>1. \A k \in a..(b - 1) : k \in 1..m BY <2>1
      <4> QED BY <1>2, <1>5, <2>1, <4>1 DEF LineOf
    <3>3. a = 1 \/ s[a - 1] = NL
      <4>1. CASE a # 1
        <5>1. a - 1 \in 1..m BY <2>1, <4>1
        <5> QED BY <1>2, <1>5, <4>1, <5>1 DEF LineOf
      <4> QED BY <4>1
    <3> QED BY <3>1, <3>2, <3>3 DEF LineOf
  <2>3. Count(s, b) \in 1..Len(r) /\ r[Count(s, b)] = AnswerOf(which, SubSeq(s, a, b))
    BY <2>2 DEF Answered
  <2>4. Count(t, b) = Count(s, b) BY <1>1, <2>1, CountBegins
  <2>5. SubSeq(t, a, b) = SubSeq(s, a, b)
    <3>1. \A k \in a..b : t[k] = s[k]
      <4>1. \A k \in a..b : k \in 1..m BY <2>1
      <4> QED BY <1>2, <4>1
    <3> QED BY <1>1, <1>2, <2>1, <3>1, SamePart
  <2>6. PICK c \in 1..Len(r) : c = Count(s, b) BY <2>3
  <2>7. c \in 1..Len(r2) /\ r2[c] = r[c] BY DEF Begins
  <2> QED BY <2>3, <2>4, <2>5, <2>6, <2>7
<1> QED BY <1>1, <1>4, <1>5 DEF Answered

\* No line ends from place a to place b.
NoEnd(s, a, b) == \A k \in a..b : s[k] # NL

\* The next line is answered.
LEMMA AnsweredNext ==
  ASSUME NEW s \in Seq(Symbols), NEW which, NEW R, NEW r \in Seq(R), NEW p \in Nat,
         Answered(which, s, r, p), Count(s, p) = Len(r), NEW b \in (p + 1)..Len(s),
         s[b] = NL, NoEnd(s, p + 1, b - 1),
         NEW x \in R, x = AnswerOf(which, SubSeq(s, p + 1, b)), NEW r2, r2 = Append(r, x)
  PROVE  Answered(which, s, r2, b)
<1>1. PICK m, n \in Nat : m = Len(s) /\ n = Len(r) OBVIOUS
<1>2. b \in Nat /\ p < b /\ b <= m BY <1>1
<1>3. Count(s, b) = n + 1
  <2>1. \A k \in (p + 1)..(b - 1) : s[k] # NL BY DEF NoEnd
  <2> QED BY <1>1, <1>2, <2>1, CountStep
<1>4. Len(r2) = n + 1 /\ r2[n + 1] = x /\ \A i \in 1..n : r2[i] = r[i] BY <1>1
<1>5. b \in 0..m /\ (b = 0 \/ s[b] = NL) BY <1>2
<1>6. ASSUME NEW c \in 1..b, NEW a \in 1..c, LineOf(s, a, c)
      PROVE  /\ Count(s, c) \in 1..Len(r2)
             /\ r2[Count(s, c)] = AnswerOf(which, SubSeq(s, a, c))
  <2>1. CASE c <= p
    <3>1. c \in 1..p BY <2>1
    <3>2. Count(s, c) \in 1..Len(r) /\ r[Count(s, c)] = AnswerOf(which, SubSeq(s, a, c))
      BY <1>6, <3>1 DEF Answered
    <3>3. PICK i \in 1..n : i = Count(s, c) BY <1>1, <3>2
    <3>4. i \in 1..Len(r2) /\ r2[i] = r[i] BY <1>4
    <3> QED BY <3>2, <3>3, <3>4
  <2>2. CASE ~(c <= p)
    <3>1. s[c] = NL BY <1>6 DEF LineOf
    <3>2. c = b
      <4>1. CASE c < b
        <5>1. c \in (p + 1)..(b - 1) BY <2>2, <4>1
        <5> QED BY <3>1, <5>1 DEF NoEnd
      <4> QED BY <1>2, <4>1
    <3>3. a = p + 1
      <4>1. CASE a <= p
        <5>1. p \in a..(c - 1) BY <2>2, <4>1
        <5>2. p # 0 BY <4>1
        <5> QED BY <1>6, <5>1, <5>2 DEF Answered, LineOf
      <4>2. CASE a > p + 1
        <5>1. a - 1 \in (p + 1)..(b - 1) BY <3>2, <4>2
        <5>2. a # 1 BY <4>2
        <5> QED BY <1>6, <5>1, <5>2 DEF LineOf, NoEnd
      <4> QED BY <4>1, <4>2
    <3>4. n + 1 \in 1..(n + 1) OBVIOUS
    <3> QED BY <1>3, <1>4, <3>2, <3>3, <3>4
  <2> QED BY <2>1, <2>2
<1> QED BY <1>1, <1>5, <1>6 DEF Answered

\* A line that fits does not come after one that does not.
LEMMA TooLongFits ==
  ASSUME NEW s, NEW p \in Nat, NEW b \in Nat, TooLong(s, p), p < b, s[b] = NL,
         \A i \in 0..(b - (MaxBuf - 1)) :
           \E k \in (i + 1)..(i + MaxBuf - 1) : s[k] = NL
  PROVE  FALSE
<1>1. MaxBuf \in Nat BY SumAssumption
<1>2. \A k \in (p + 1)..(p + MaxBuf - 1) : s[k] # NL BY DEF TooLong
<1>3. ~(b <= p + MaxBuf - 1)
  <2>1. CASE b <= p + MaxBuf - 1
    <3>1. b \in (p + 1)..(p + MaxBuf - 1) BY <1>1, <2>1
    <3> QED BY <1>2, <3>1
  <2> QED BY <2>1
<1>4. p \in 0..(b - (MaxBuf - 1)) BY <1>1, <1>3
<1> QED BY <1>2, <1>4

\* More symbols leave it too long.
LEMMA TooLongMore ==
  ASSUME NEW s, NEW t, Begins(s, t), NEW p \in Nat, TooLong(s, p), Len(s) \in Nat,
         Len(t) \in Nat
  PROVE  TooLong(t, p)
<1>1. MaxBuf \in Nat BY SumAssumption
<1>2. PICK m, n \in Nat : m = Len(s) /\ n = Len(t) OBVIOUS
<1>3. \A k \in (p + 1)..(p + MaxBuf - 1) : k \in 1..m BY <1>1, <1>2 DEF TooLong
<1> QED BY <1>1, <1>2, <1>3 DEF TooLong, Begins

\* A line that has come to the limit without an end.
LEMMA RestTooLong ==
  ASSUME NEW s \in Seq(Symbols), NEW l \in Seq(Symbols), NEW r \in Seq(Symbols),
         NEW w \in Seq(Symbols), NEW p \in Nat, Rest(s, p, l, r, w), Len(l) = MaxBuf - 1,
         \A i \in DOMAIN l : l[i] # NL
  PROVE  TooLong(s, p)
<1>1. MaxBuf \in Nat BY SumAssumption
<1>2. PICK m, n, o, u \in Nat : m = Len(l) /\ n = Len(r) /\ o = Len(w) /\ u = Len(s) OBVIOUS
<1>3. u = p + m + n + o /\ (\A i \in 1..m : s[p + i] = l[i]) /\ \A i \in 1..m : l[i] # NL
  <2>1. u = p + m + n + o BY <1>2 DEF Rest
  <2>2. \A i \in 1..m : s[p + i] = l[i] BY <1>2 DEF Rest, Stands
  <2>3. DOMAIN l = 1..m BY <1>2
  <2> QED BY <2>1, <2>2, <2>3
<1>4. m = MaxBuf - 1 BY <1>2
<1>5. p + MaxBuf - 1 <= u
  <2>1. u = p + m + n + o BY <1>3
  <2> QED BY <1>1, <1>4, <2>1
<1>6. ASSUME NEW k \in (p + 1)..(p + MaxBuf - 1) PROVE s[k] # NL
  <2>1. k - p \in 1..m /\ p + (k - p) = k BY <1>1, <1>4
  <2> QED BY <1>3, <2>1
<1> QED BY <1>2, <1>5, <1>6 DEF TooLong

\* A line that has come to its end is the next one.
LEMMA RestLine ==
  ASSUME NEW s \in Seq(Symbols), NEW l \in Seq(Symbols), NEW r \in Seq(Symbols),
         NEW w \in Seq(Symbols), NEW p \in Nat, Rest(s, p, l, r, w), l # <<>>
  PROVE  /\ p + Len(l) \in (p + 1)..Len(s)
         /\ s[p + Len(l)] = l[Len(l)]
         /\ NoEnd(l, 1, Len(l) - 1) => NoEnd(s, p + 1, p + Len(l) - 1)
         /\ SubSeq(s, p + 1, p + Len(l)) = l
<1>1. PICK m, n, o, u \in Nat : m = Len(l) /\ n = Len(r) /\ o = Len(w) /\ u = Len(s) OBVIOUS
<1>2. (\A i \in 1..m : s[p + i] = l[i]) /\ m > 0
  BY <1>1 DEF Rest, Stands
<1>3. u = p + m + n + o BY <1>1 DEF Rest
<1>4. p + m \in (p + 1)..u BY <1>2, <1>3
<1>5. s[p + m] = l[m] BY <1>2
<1>6. ASSUME NoEnd(l, 1, m - 1), NEW k \in (p + 1)..(p + m - 1)
      PROVE  s[k] # NL
  <2>1. k - p \in 1..(m - 1) /\ k - p \in 1..m /\ p + (k - p) = k OBVIOUS
  <2> QED BY <1>2, <1>6, <2>1 DEF NoEnd
<1>7. SubSeq(s, p + 1, p + m) = l
  <2>1. PICK v : v = SubSeq(s, p + 1, p + m) OBVIOUS
  <2>2. v \in Seq(Symbols) /\ Len(v) = m BY <1>1, <1>4, <2>1
  <2>3. \A i \in 1..m : v[i] = s[p + i]
    <3> TAKE i \in 1..m
    <3>1. v[i] = s[p + 1 + i - 1] BY <1>1, <1>4, <2>1
    <3>2. p + 1 + i - 1 = p + i OBVIOUS
    <3> QED BY <3>1, <3>2
  <2> QED BY <1>1, <1>2, <2>1, <2>2, <2>3
<1>8. NoEnd(l, 1, m - 1) => NoEnd(s, p + 1, p + m - 1) BY <1>6 DEF NoEnd
<1> QED BY <1>1, <1>4, <1>5, <1>7, <1>8

\* The line that has come to its end is answered, and done with.
LEMMA LineEnded ==
  ASSUME NEW s \in Seq(Symbols), NEW l \in Seq(Symbols), NEW r \in Seq(Symbols),
         NEW w \in Seq(Symbols), NEW p \in Nat, Rest(s, p, l, r, w), l # <<>>,
         l[Len(l)] = NL, NoEnd(l, 1, Len(l) - 1),
         NEW which, NEW R, NEW a \in Seq(R), NEW x \in R, x = AnswerOf(which, l),
         Answered(which, s, a, p), Count(s, p) = Len(a), NEW a2, a2 = Append(a, x),
         NEW e, e = <<>>
  PROVE  \E b \in 0..Len(s) : /\ Answered(which, s, a2, b) /\ Count(s, b) = Len(a2)
                              /\ Rest(s, b, e, r, w)
<1>1. PICK b : b = p + Len(l) OBVIOUS
<1>2. b \in (p + 1)..Len(s) /\ s[b] = l[Len(l)] /\ SubSeq(s, p + 1, b) = l
  BY <1>1, RestLine
<1>3. NoEnd(s, p + 1, b - 1) BY <1>1, RestLine
<1>4. x = AnswerOf(which, SubSeq(s, p + 1, b)) /\ s[b] = NL BY <1>2
<1>5. Answered(which, s, a2, b) /\ Count(s, b) = Len(a2)
  <2>1. b \in (p + 1)..Len(s) BY <1>2
  <2>2. Answered(which, s, a2, b) BY <1>3, <1>4, <2>1, AnsweredNext
  <2>3. Count(s, b) = Len(a) + 1
    <3>1. b \in Nat /\ p < b /\ s[b] = NL BY <1>4, <2>1
    <3>2. \A k \in (p + 1)..(b - 1) : s[k] # NL BY <1>3 DEF NoEnd
    <3>3. Count(s, b) = Count(s, p) + 1 BY <3>1, <3>2, CountStep
    <3> QED BY <3>3
  <2>4. Len(a2) = Len(a) + 1 OBVIOUS
  <2> QED BY <2>2, <2>3, <2>4
<1>6. Rest(s, b, e, r, w) BY <1>1, RestNext
<1> QED BY <1>2, <1>5, <1>6

\* The line that has come to the limit without an end does not fit.
LEMMA LineFull ==
  ASSUME NEW s \in Seq(Symbols), NEW l \in Seq(Symbols), NEW r \in Seq(Symbols),
         NEW w \in Seq(Symbols), NEW p \in Nat, Rest(s, p, l, r, w), l # <<>>,
         l[Len(l)] # NL, NoEnd(l, 1, Len(l) - 1), Len(l) = MaxBuf - 1
  PROVE  TooLong(s, p)
<1>1. PICK m \in Nat : m = Len(l) OBVIOUS
<1>2. DOMAIN l = 1..m /\ \A i \in 1..m : i = m \/ i \in 1..(m - 1) BY <1>1
<1>3. \A i \in DOMAIN l : l[i] # NL BY <1>1, <1>2 DEF NoEnd
<1> QED BY <1>3, RestTooLong

-----------------------------------------------------------------------------
(* Replies in order. *)

\* The server has the connection, and works on what arrives.
Serving == net = "open" /\ pc \in {"accept", "read"}

\* The line after place p is the next to be answered.
UpTo(p) ==
  /\ Count(sent, p) = Len(replies)
  /\ Serving => /\ Rest(sent, p, line, readbuf, wire)
                /\ \A i \in DOMAIN line : line[i] # NL

\* Up to some place every line is answered.  There the line after it does not
\* fit, or the server works on it.
Ordered ==
  Lined => \E p \in 0..Len(sent) :
             Answered(lab, sent, replies, p) /\ (TooLong(sent, p) \/ UpTo(p))

\* Between two connections nothing is read ahead.
Fresh == pc \in {"accept", "close"} => readbuf = <<>> /\ line = <<>>

\* What the types say.
Typing ==
  /\ readbuf \in Seq(Symbols) /\ line \in Seq(Symbols) /\ wire \in Seq(Symbols)
  /\ sent \in Seq(Symbols) /\ Replied(replies) /\ got \in 0..Len(replies)

\* They hold before a step, ...
LEMMA TypingHolds == Inv => Typing
BY DEF Inv, TypeOK, Typing

\* ... and after it.
LEMMA TypingHoldsNext == Inv' => Typing'
BY DEF Inv, TypeOK, Typing

\* A sequence is a beginning of itself, and of what is appended to it.
LEMMA BeginsAppend ==
  ASSUME NEW s, Replied(s), NEW x
  PROVE  /\ Begins(s, s) /\ Len(s) \in Nat
         /\ \E R : s \in Seq(R) /\ x \in R
         /\ Begins(s, Append(s, x)) /\ Len(Append(s, x)) \in Nat
<1>1. PICK R : s \in Seq(R) BY DEF Replied
<1>2. PICK T : T = R \cup {x} OBVIOUS
<1>3. s \in Seq(T) /\ x \in T
  <2>1. \A i \in DOMAIN s : s[i] \in T BY <1>1, <1>2
  <2>2. DOMAIN s = 1..Len(s) /\ Len(s) \in Nat /\ s = [i \in 1..Len(s) |-> s[i]]
    BY <1>1
  <2> QED BY <1>2, <2>1, <2>2
<1>4. PICK t : t = Append(s, x) OBVIOUS
<1>5. Len(s) \in Nat /\ Len(t) = Len(s) + 1 /\ \A i \in 1..Len(s) : t[i] = s[i]
  BY <1>3, <1>4
<1> QED BY <1>3, <1>4, <1>5 DEF Begins

\* A step after which the server works on the same line.
LEMMA OrderedSame ==
  ASSUME Ordered, Typing, Typing', UNCHANGED whoVars, Begins(sent, sent'),
         UNCHANGED replies, Serving' => Serving,
         \A p \in Nat : Serving' /\ Rest(sent, p, line, readbuf, wire) =>
                          Rest(sent', p, line', readbuf', wire'),
         Serving' /\ (\A i \in DOMAIN line : line[i] # NL) =>
           \A i \in DOMAIN line' : line'[i] # NL
  PROVE  Ordered'
<1> SUFFICES ASSUME Lined'
             PROVE  \E p \in 0..Len(sent') :
                      /\ Answered(lab', sent', replies', p)
                      /\ \/ TooLong(sent', p)
                         \/ /\ Count(sent', p) = Len(replies')
                            /\ Serving' => /\ Rest(sent', p, line', readbuf', wire')
                                           /\ \A i \in DOMAIN line' : line'[i] # NL
  BY DEF Ordered, UpTo
<1>1. Lined /\ lab' = lab BY DEF Lined, whoVars
<1>2. PICK p \in 0..Len(sent) :
        Answered(lab, sent, replies, p) /\ (TooLong(sent, p) \/ UpTo(p))
  BY <1>1 DEF Ordered
<1>3. sent \in Seq(Symbols) /\ sent' \in Seq(Symbols) BY DEF Typing
<1>4. Len(replies) \in Nat /\ Begins(replies, replies)
  BY BeginsAppend DEF Typing
<1>5. Answered(lab', sent', replies', p)
  BY <1>1, <1>2, <1>3, <1>4, AnsweredMore
<1>6. p \in 0..Len(sent') BY <1>3, <1>5 DEF Answered
<1>7. CASE TooLong(sent, p)
  <2>1. TooLong(sent', p) BY <1>2, <1>3, <1>7, TooLongMore
  <2> QED BY <1>5, <1>6, <2>1
<1>8. CASE UpTo(p)
  <2>1. Count(sent', p) = Len(replies')
    BY <1>2, <1>3, <1>8, CountBegins DEF UpTo
  <2>2. Serving' => /\ Rest(sent', p, line', readbuf', wire')
                    /\ \A i \in DOMAIN line' : line'[i] # NL
    BY <1>2, <1>8 DEF UpTo
  <2> QED BY <1>5, <1>6, <2>1, <2>2
<1> QED BY <1>2, <1>7, <1>8

\* A step after which the server works no more, and answers nothing.
LEMMA OrderedEnds ==
  ASSUME Ordered, Typing, Typing', UNCHANGED <<whoVars, sent, replies>>, ~Serving'
  PROVE  Ordered'
<1>1. Begins(sent, sent') BY DEF Typing, Begins
<1> QED BY <1>1, OrderedSame

\* An answer that is written after the end of the connection.
LEMMA WriteClosed ==
  ASSUME NEW r, NEW rest, Write(r, rest), net # "open"
  PROVE  UNCHANGED replies /\ ~Serving'
BY DEF Write, Serving, AfterWrite, Exits

\* An answer that is written before it.
LEMMA WriteOpen ==
  ASSUME NEW r, NEW rest, Write(r, rest), net = "open"
  PROVE  /\ net' = "open" /\ replies' = Append(replies, r)
         /\ line' = <<>> /\ readbuf' = rest
BY DEF Write, AfterWrite, Fatal, Signals, WriteFails

\* Readline keeps the order: the next line is answered, or does not fit.
LEMMA ReadlineOrdered ==
  ASSUME Ordered, Typing, Typing', Readline
  PROVE  Ordered'
<1>1. /\ UNCHANGED <<whoVars, clientVars, wire, sent>> /\ UNCHANGED sent /\ UNCHANGED wire
      /\ readbuf # <<>> /\ Lined /\ pc = "read"
  BY DEF Readline
<1>2. PICK l, c, t : l = Append(line, c) /\ c = Head(readbuf) /\ t = Tail(readbuf)
  OBVIOUS
<1>3. /\ line \in Seq(Symbols) /\ readbuf \in Seq(Symbols) /\ wire \in Seq(Symbols)
      /\ sent \in Seq(Symbols)
  BY DEF Typing
<1>4. c \in Symbols /\ t \in Seq(Symbols) /\ l \in Seq(Symbols) /\ l # <<>>
      /\ Len(l) = Len(line) + 1
  BY <1>1, <1>2, <1>3
<1>5. \A p \in Nat : Rest(sent, p, line, readbuf, wire) => Rest(sent, p, l, t, wire)
  BY <1>1, <1>2, <1>3, RestTake
<1>6. (\A i \in DOMAIN line : line[i] # NL) => NoEnd(l, 1, Len(l) - 1)
  BY <1>2, <1>3, <1>4 DEF NoEnd
<1>7. l[Len(l)] = c BY <1>2, <1>3
<1>8. CASE ~(c = NL \/ Full(l))
  <2>1. line' = l /\ readbuf' = t /\ UNCHANGED <<pc, nread, net, replies>>
    BY <1>2, <1>8 DEF Readline
  <2>2. (\A i \in DOMAIN line : line[i] # NL) => \A i \in DOMAIN l : l[i] # NL
    BY <1>4, <1>6, <1>7, <1>8 DEF NoEnd
  <2>3. Begins(sent, sent') BY <1>1, <1>3 DEF Begins
  <2>4. Serving' => Serving BY <2>1 DEF Serving
  <2> QED BY <1>1, <1>5, <2>1, <2>2, <2>3, <2>4, OrderedSame
<1>9. CASE c = NL \/ Full(l)
  <2>1. Write(Answer(l), t) BY <1>2, <1>9 DEF Readline
  <2>2. CASE net # "open" BY <1>1, <2>1, <2>2, WriteClosed, OrderedEnds
  <2>3. CASE net = "open"
    <3>1. PICK x : x = Answer(l) OBVIOUS
    <3>2. net' = "open" /\ replies' = Append(replies, x) /\ line' = <<>> /\ readbuf' = t
      BY <2>1, <2>3, <3>1, WriteOpen
    <3>3. x = AnswerOf(lab', l) /\ lab' = lab
      BY <1>1, <3>1 DEF AnswerOf, Answer, whoVars
    <3>4. PICK p \in 0..Len(sent) :
            Answered(lab, sent, replies, p) /\ (TooLong(sent, p) \/ UpTo(p))
      BY <1>1 DEF Ordered
    <3>5. /\ Len(replies) \in Nat /\ Len(replies') \in Nat /\ Begins(replies, replies')
          /\ \E R : replies \in Seq(R) /\ x \in R
      BY <3>2, BeginsAppend DEF Typing
    <3>6. Begins(sent, sent) BY <1>3 DEF Begins
    <3>7. Answered(lab, sent, replies', p)
      BY <1>3, <3>4, <3>5, <3>6, AnsweredMore
    <3>8. SUFFICES \E q \in 0..Len(sent) :
                     /\ Answered(lab, sent, replies', q)
                     /\ \/ TooLong(sent, q)
                        \/ /\ Count(sent, q) = Len(replies')
                           /\ Rest(sent, q, line', readbuf', wire)
                           /\ \A i \in DOMAIN line' : line'[i] # NL
      BY <1>1, <3>3 DEF Ordered, UpTo
    <3>9. CASE TooLong(sent, p) BY <3>4, <3>7, <3>9
    <3>10. CASE UpTo(p)
      <4>1. Rest(sent, p, l, t, wire) /\ NoEnd(l, 1, Len(l) - 1)
        BY <1>1, <1>5, <1>6, <2>3, <3>4, <3>10 DEF UpTo, Serving
      <4>2. p \in Nat BY <1>3
      <4>3. CASE c = NL
        <5>1. PICK R : replies \in Seq(R) /\ x \in R BY <3>5
        <5>2. PICK e, a2 : e = <<>> /\ a2 = Append(replies, x) OBVIOUS
        <5>3. x = AnswerOf(lab, l) /\ Count(sent, p) = Len(replies)
          BY <3>3, <3>10 DEF UpTo
        <5>4. l[Len(l)] = NL BY <1>7, <4>3
        <5>5. PICK b \in 0..Len(sent) :
                /\ Answered(lab, sent, a2, b) /\ Count(sent, b) = Len(a2)
                /\ Rest(sent, b, e, t, wire)
          BY <1>3, <1>4, <3>4, <4>1, <4>2, <5>1, <5>2, <5>3, <5>4, LineEnded
        <5>6. \A i \in DOMAIN e : e[i] # NL BY <5>2
        <5> QED BY <3>2, <5>2, <5>5, <5>6
      <4>4. CASE c # NL
        <5>1. Len(l) = MaxBuf - 1 BY <1>9, <4>4 DEF Full
        <5>2. l[Len(l)] # NL BY <1>7, <4>4
        <5>3. TooLong(sent, p) BY <1>3, <1>4, <4>1, <4>2, <5>1, <5>2, LineFull
        <5> QED BY <3>4, <3>7, <5>3
      <4> QED BY <4>3, <4>4
    <3> QED BY <3>4, <3>9, <3>10
  <2> QED BY <2>2, <2>3
<1> QED BY <1>8, <1>9

\* After the end of the connection nothing more is answered.
LEMMA ReadlineEndOrdered ==
  ASSUME Ordered, Typing, Typing', ReadlineEnd
  PROVE  Ordered'
<1>1. UNCHANGED <<whoVars, sent>> /\ net # "open"
  BY DEF ReadlineEnd, AtEOF, PeerGone
<1>2. CASE Exits /\ net' = AfterRead(net) /\ UNCHANGED <<nread, replies>>
  <2>1. ~Serving' BY <1>2 DEF Exits, Serving
  <2> QED BY <1>1, <1>2, <2>1, OrderedEnds
<1>3. CASE Write(Answer(line), <<>>)
  <2>1. UNCHANGED replies /\ ~Serving' BY <1>1, <1>3, WriteClosed
  <2> QED BY <1>1, <2>1, OrderedEnds
<1>4. CASE pc' = "close" /\ nread' = 0 /\ UNCHANGED <<readbuf, line, net, replies>>
  <2>1. ~Serving' BY <1>4 DEF Serving
  <2> QED BY <1>1, <1>4, <2>1, OrderedEnds
<1> QED BY <1>2, <1>3, <1>4 DEF ReadlineEnd

\* A new connection: nothing is sent, nothing is read ahead.
LEMMA ConnectOrdered ==
  ASSUME Ordered, Fresh, Typing, Typing', Connect
  PROVE  Ordered'
<1>1. /\ sent' = <<>> /\ wire' = <<>> /\ replies' = <<>> /\ line = <<>> /\ readbuf = <<>>
      /\ line' = <<>> /\ readbuf' = <<>>
  BY DEF Connect, serverVars, Fresh
<1>2. PICK e : e = <<>> OBVIOUS
<1>3. Len(e) = 0 BY <1>2
<1>4. Answered(lab', e, e, 0) BY <1>3 DEF Answered
<1>5. Count(e, 0) = Len(e) BY <1>3, CountNone
<1>6. Rest(e, 0, e, e, e) BY <1>3 DEF Rest, Stands
<1>7. \A i \in DOMAIN e : e[i] # NL BY <1>2
<1>8. 0 \in 0..Len(e) BY <1>3
<1> QED BY <1>1, <1>2, <1>4, <1>5, <1>6, <1>7, <1>8 DEF Ordered, UpTo

\* More is sent.
LEMMA SendAllOrdered ==
  ASSUME Ordered, Typing, Typing', NEW q \in Seq(Symbols), SendAll(q)
  PROVE  Ordered'
<1>1. /\ sent' = sent \o q /\ wire' = wire \o q /\ UNCHANGED <<whoVars, net, replies>>
      /\ UNCHANGED <<pc, readbuf, line>>
  BY DEF SendAll, serverVars
<1>2. Begins(sent, sent') BY <1>1, BeginsMore DEF Typing
<1>3. \A p \in Nat : Rest(sent, p, line, readbuf, wire) =>
                       Rest(sent', p, line', readbuf', wire')
  <2>1. PICK s2, w2 : s2 = sent \o q /\ w2 = wire \o q OBVIOUS
  <2>2. \A p \in Nat : Rest(sent, p, line, readbuf, wire) => Rest(s2, p, line, readbuf, w2)
    BY <2>1, RestMore DEF Typing
  <2> QED BY <1>1, <2>1, <2>2
<1>4. Serving' => Serving BY <1>1 DEF Serving
<1> QED BY <1>1, <1>2, <1>3, <1>4, OrderedSame

\* A read() of my_read.
LEMMA FillOrdered ==
  ASSUME Ordered, Typing, Typing', Fill
  PROVE  Ordered'
<1>1. UNCHANGED <<whoVars, pc, line, net, sent, replies>> /\ readbuf = <<>>
  BY DEF Fill
<1>2. PICK k \in 1..Len(wire) :
        readbuf' = SubSeq(wire, 1, k) /\ wire' = SubSeq(wire, k + 1, Len(wire))
  BY DEF Fill
<1>3. Begins(sent, sent') BY <1>1 DEF Typing, Begins
<1>4. \A p \in Nat : Rest(sent, p, line, readbuf, wire) =>
                       Rest(sent', p, line', readbuf', wire')
  <2>1. PICK r2, w2 : r2 = readbuf' /\ w2 = wire' OBVIOUS
  <2>2. ASSUME NEW p \in Nat, Rest(sent, p, line, readbuf, wire)
        PROVE  Rest(sent, p, line, r2, w2)
    <3>1. sent \in Seq(Symbols) /\ line \in Seq(Symbols) /\ wire \in Seq(Symbols)
      BY DEF Typing
    <3>2. readbuf = <<>> BY <1>1
    <3>3. Cuts(wire, k, r2, w2) BY <1>2, <2>1 DEF Cuts
    <3> QED BY <2>2, <3>1, <3>2, <3>3, RestFill
  <2> QED BY <1>1, <2>1, <2>2
<1>5. Serving' => Serving BY <1>1 DEF Serving
<1> QED BY <1>1, <1>3, <1>4, <1>5, OrderedSame

\* The steps that leave the stream and the answers alone.
LEMMA AloneOrdered ==
  ASSUME Ordered, Typing, Typing',
         UNCHANGED <<whoVars, readbuf, line, wire, sent, replies>>, Serving' => Serving
  PROVE  Ordered'
<1>1. Begins(sent, sent') BY DEF Typing, Begins
<1> QED BY <1>1, OrderedSame

\* Every step keeps the order.
LEMMA OrderedNext ==
  ASSUME Ordered, Fresh, Typing, Typing', [Next]_vars
  PROVE  Ordered'
<1>1. CASE Accept \/ AcceptOnce
  BY <1>1, AloneOrdered DEF Accept, AcceptOnce, Accepts, Serving, netVars
<1>2. CASE Fill BY <1>2, FillOrdered
<1>3. CASE Readline BY <1>3, ReadlineOrdered
<1>4. CASE ReadlineEnd BY <1>4, ReadlineEndOrdered
<1>5. CASE ReadRaw \/ ReadRawFails \/ DecodeFirst \/ DecodeSecond \/ DecodeEnd
  BY <1>5 DEF ReadRaw, ReadRawFails, DecodeFirst, DecodeSecond, DecodeEnd, whoVars, Lined,
     Ordered
<1>6. CASE CloseConn
  BY <1>6, OrderedEnds DEF CloseConn, Serving
<1>7. CASE Killed
  BY <1>7, OrderedEnds DEF Killed, Exits, Serving, netVars
<1>8. CASE Connect BY <1>8, ConnectOrdered
<1>9. CASE \E a, b \in Typed : AskText(a, b) \/ AskXdr(a, b)
  <2>1. PICK a, b \in Typed : AskText(a, b) \/ AskXdr(a, b) BY <1>9
  <2>2. PICK q : q \in Seq(Symbols) /\ SendAll(q) BY <2>1, AskSends
  <2> QED BY <2>2, SendAllOrdered
<1>10. CASE \E s \in Typed \cup {NL, Junk} : SendSymbol(s)
  <2>1. PICK s \in Typed \cup {NL, Junk} : SendSymbol(s) BY <1>10
  <2>2. PICK q : q = <<s>> OBVIOUS
  <2>3. q \in Seq(Symbols) BY <2>2, Numbers
  <2> QED BY <2>1, <2>2, <2>3, SendAllOrdered DEF SendSymbol
<1>11. CASE ReceiveText \/ ReceiveXdr \/ ReceiveEnd \/ ClientCloses \/ ResetArrives
  BY <1>11, AloneOrdered DEF ReceiveText, ReceiveXdr, ReceiveEnd, ClientCloses,
     ResetArrives, serverVars, netVars, Serving
<1>12. CASE UNCHANGED vars
  BY <1>12, AloneOrdered DEF vars, serverVars, netVars, Serving
<1> QED BY <1>1, <1>2, <1>3, <1>4, <1>5, <1>6, <1>7, <1>8, <1>9, <1>10, <1>11, <1>12
        DEF Next, Server, Client

\* Every answer leaves nothing on the line, and nothing is read ahead when the
\* connection is closed.
LEMMA FreshNext ==
  ASSUME Fresh, Inv, [Next]_vars
  PROVE  Fresh'
<1>1. CASE \E r, rest : Write(r, rest) /\ (rest = <<>> \/ Lined)
  BY <1>1 DEF Write, Fresh, Exits, Lined
<1>2. CASE Readline
  <2>1. CASE Head(readbuf) = NL \/ Full(Append(line, Head(readbuf)))
    BY <1>1, <1>2, <2>1 DEF Readline
  <2>2. CASE ~(Head(readbuf) = NL \/ Full(Append(line, Head(readbuf))))
    BY <1>2, <2>2 DEF Readline, Fresh
  <2> QED BY <2>1, <2>2
<1>3. CASE ReadlineEnd
  BY <1>1, <1>3 DEF ReadlineEnd, Fresh, Exits
<1>4. CASE ReadRaw BY <1>1, <1>4 DEF ReadRaw
<1>5. CASE ReadRawFails \/ Killed
  BY <1>5 DEF ReadRawFails, Killed, Exits, Fresh
<1>6. CASE DecodeSecond BY <1>1, <1>6 DEF DecodeSecond
<1>7. CASE DecodeEnd BY <1>1, <1>7 DEF DecodeEnd, Fresh, Exits
<1>8. CASE Accept \/ AcceptOnce \/ Fill \/ DecodeFirst \/ CloseConn
  BY <1>8 DEF Accept, AcceptOnce, Accepts, Fill, DecodeFirst, CloseConn, Fresh
<1>9. CASE UNCHANGED serverVars
  BY <1>9 DEF serverVars, Fresh
<1>10. CASE \/ Connect \/ ReceiveText \/ ReceiveXdr \/ ReceiveEnd \/ ClientCloses
            \/ ResetArrives \/ UNCHANGED vars
            \/ \E a, b \in Typed : AskText(a, b) \/ AskXdr(a, b)
            \/ \E s \in Typed \cup {NL, Junk} : SendSymbol(s)
  BY <1>9, <1>10 DEF Connect, ReceiveText, ReceiveXdr, ReceiveEnd, ClientCloses,
     ResetArrives, vars, AskText, AskXdr, SendSymbol, SendAll
<1> QED BY <1>2, <1>3, <1>4, <1>5, <1>6, <1>7, <1>8, <1>10 DEF Next, Server, Client

\* Before the first connection.
LEMMA InitOrdered ==
  ASSUME Init
  PROVE  Ordered /\ Fresh
<1>1. PICK e : e = <<>> OBVIOUS
<1>2. Len(e) = 0 /\ Count(e, 0) = 0 BY <1>1, CountNone
<1>3. Answered(lab, e, e, 0) BY <1>2 DEF Answered
<1>4. 0 \in 0..Len(e) BY <1>2
<1>5. sent = e /\ replies = e /\ ~Serving BY <1>1 DEF Init, Serving
<1>6. Ordered BY <1>2, <1>3, <1>4, <1>5 DEF Ordered, UpTo
<1> QED BY <1>6 DEF Init, Fresh

\* The order gives the replies.
LEMMA OrderedReplies ==
  ASSUME Ordered, Typing
  PROVE  RepliesInOrder
<1> SUFFICES ASSUME Lined, NEW b \in DOMAIN sent, NEW a \in 1..b, IsLine(a, b), Fit(b)
             PROVE  /\ Index(b) \in DOMAIN replies =>
                         replies[Index(b)] = Answer(SubSeq(sent, a, b))
                    /\ net = "open" /\ pc = "read" /\ readbuf = <<>> /\ wire = <<>> =>
                         Index(b) \in DOMAIN replies
  BY DEF RepliesInOrder
<1>1. PICK p \in 0..Len(sent) :
        Answered(lab, sent, replies, p) /\ (TooLong(sent, p) \/ UpTo(p))
  BY DEF Ordered
<1>2. sent \in Seq(Symbols) BY DEF Typing
<1>3. PICK m \in Nat : m = Len(sent) BY <1>2
<1>4. b \in 1..m /\ p \in Nat /\ b \in Nat BY <1>1, <1>2, <1>3
<1>5. LineOf(sent, a, b) /\ sent[b] = NL BY DEF IsLine, LineOf
<1>6. Index(b) = Count(sent, b) BY DEF Index, Count, Ends
<1>7. DOMAIN replies = 1..Len(replies) /\ Len(replies) \in Nat
  <2>1. PICK R : replies \in Seq(R) BY DEF Typing, Replied
  <2> QED BY <2>1
<1>8. PICK q : q = SubSeq(sent, a, b) OBVIOUS
<1>9. Answer(q) = AnswerOf(lab, q) BY DEF Answer, AnswerOf
<1>10. CASE b <= p
  <2>1. b \in 1..p BY <1>4, <1>10
  <2>2. /\ Count(sent, b) \in 1..Len(replies)
        /\ replies[Count(sent, b)] = AnswerOf(lab, SubSeq(sent, a, b))
    BY <1>1, <1>5, <2>1 DEF Answered
  <2> QED BY <1>6, <1>7, <1>8, <1>9, <2>2
<1>11. CASE ~(b <= p)
  <2>1. p < b BY <1>4, <1>11
  <2>2. ~TooLong(sent, p)
    BY <1>4, <1>5, <2>1, TooLongFits DEF Fit
  <2>3. UpTo(p) BY <1>1, <2>2
  <2>4. Len(replies) < Count(sent, b) /\ Count(sent, b) \in Nat
    BY <1>4, <1>5, <2>1, <2>3, CountMore, EndsFinite DEF UpTo
  <2>5. Index(b) \notin DOMAIN replies BY <1>6, <1>7, <2>4
  <2>6. ASSUME net = "open", pc = "read", readbuf = <<>>, wire = <<>>
        PROVE  FALSE
    <3>1. /\ Rest(sent, p, line, readbuf, wire)
          /\ \A i \in DOMAIN line : line[i] # NL
      BY <2>3, <2>6 DEF UpTo, Serving
    <3>2. PICK n \in Nat : n = Len(line) BY DEF Typing
    <3>3. Len(readbuf) = 0 /\ Len(wire) = 0 BY <2>6
    <3>4. m = p + n + 0 + 0 BY <1>3, <3>1, <3>2, <3>3 DEF Rest
    <3>5. \A i \in 1..n : sent[p + i] = line[i] BY <3>1, <3>2 DEF Rest, Stands
    <3>6. DOMAIN line = 1..n BY <3>2 DEF Typing
    <3>7. b - p \in 1..n /\ p + (b - p) = b BY <1>4, <2>1, <3>4
    <3>8. sent[b] # NL BY <3>1, <3>5, <3>6, <3>7
    <3> QED BY <1>5, <3>8
  <2> QED BY <2>5, <2>6
<1> QED BY <1>10, <1>11

-----------------------------------------------------------------------------
(* What the clients print. *)

\* The text client has one request.
TextClient ==
  peer = "client" /\ Lined =>
    /\ net = "open" /\ asked = <<>> => sent = <<>> /\ got = 0
    /\ asked # <<>> =>
         \E u, v \in 0..(2^HalfBits - 1) :
           /\ asked = <<u, v>> /\ sent = <<u, v, NL>>
           /\ Waiting => got = 0
           /\ printed # <<>> /\ got = 1 => replies # <<>> /\ printed = <<replies[1]>>

\* The steps of the server leave the client's request alone, and add answers.
LEMMA TextSame ==
  ASSUME TextClient, Typing, UNCHANGED <<whoVars, sent, clientVars>>,
         net' = "open" => net = "open", Begins(replies, replies')
  PROVE  TextClient'
<1>1. replies # <<>> => replies' # <<>> /\ replies'[1] = replies[1]
  <2>1. PICK R : replies \in Seq(R) BY DEF Typing, Replied
  <2>2. PICK n \in Nat : n = Len(replies) BY <2>1
  <2> SUFFICES ASSUME replies # <<>> PROVE replies' # <<>> /\ replies'[1] = replies[1]
    OBVIOUS
  <2>3. n > 0 BY <2>1, <2>2
  <2>4. replies'[1] = replies[1] /\ n <= Len(replies') BY <2>2, <2>3 DEF Begins
  <2>5. PICK e : e = <<>> OBVIOUS
  <2>6. Len(e) = 0 BY <2>5
  <2>7. replies' # e BY <2>2, <2>3, <2>4, <2>6
  <2> QED BY <2>4, <2>5, <2>7
<1> QED BY <1>1 DEF TextClient, Lined, Waiting, whoVars, clientVars

\* What the server's steps do to the answers.
LEMMA ServerAnswers ==
  ASSUME Typing, Server \/ Killed
  PROVE  /\ UNCHANGED <<whoVars, sent, clientVars>>
         /\ net' = "open" => net = "open"
         /\ Begins(replies, replies')
<1>1. Begins(replies, replies) BY BeginsAppend DEF Typing
<1>2. ASSUME NEW r, NEW rest, Write(r, rest)
      PROVE  Begins(replies, replies') /\ (net' = "open" => net = "open")
  <2>1. Begins(replies, Append(replies, r)) BY BeginsAppend DEF Typing
  <2>2. replies' = replies \/ replies' = Append(replies, r) BY <1>2 DEF Write
  <2> QED BY <1>1, <1>2, <2>1, <2>2 DEF Write, AfterWrite
<1>3. CASE Readline BY <1>1, <1>2, <1>3 DEF Readline
<1>4. CASE ReadlineEnd BY <1>1, <1>2, <1>4 DEF ReadlineEnd, AfterRead
<1>5. CASE ReadRaw BY <1>2, <1>5 DEF ReadRaw
<1>6. CASE ReadRawFails BY <1>1, <1>6 DEF ReadRawFails, AfterRead, AfterWrite
<1>7. CASE DecodeSecond BY <1>2, <1>7 DEF DecodeSecond
<1>8. CASE DecodeEnd BY <1>1, <1>2, <1>8 DEF DecodeEnd
<1>9. CASE Accept \/ AcceptOnce \/ Fill \/ DecodeFirst \/ CloseConn \/ Killed
  BY <1>1, <1>9 DEF Accept, AcceptOnce, Accepts, Fill, DecodeFirst, CloseConn, Killed, netVars
<1> QED BY <1>3, <1>4, <1>5, <1>6, <1>7, <1>8, <1>9 DEF Server

\* The low bits of a number.
LEMMA UnsignedLess ==
  ASSUME NEW a \in Nat
  PROVE  Unsigned(a) \in 0..(2^HalfBits - 1)
<1>1. PICK m : m = 2^HalfBits OBVIOUS
<1>2. m \in Nat /\ m > 0 BY <1>1, SumAssumption
<1>3. a % m \in 0..(m - 1) BY <1>2
<1> QED BY <1>1, <1>3 DEF Unsigned

\* The text client asks.
LEMMA AskTextClient ==
  ASSUME TextClient, NEW a \in Typed, NEW b \in Typed, AskText(a, b)
  PROVE  TextClient'
<1> SUFFICES ASSUME peer' = "client", Lined'
             PROVE  /\ ~(asked' = <<>>)
                    /\ \E u, v \in 0..(2^HalfBits - 1) :
                         /\ asked' = <<u, v>> /\ sent' = <<u, v, NL>> /\ got' = 0
  BY DEF TextClient, Waiting
<1>1. UNCHANGED <<whoVars, got>> /\ net = "open" /\ asked = <<>>
  BY DEF AskText, SendAll
<1>2. sent = <<>> /\ got = 0 BY <1>1 DEF TextClient, whoVars, Lined
<1>3. PICK u, v : u = Unsigned(a) /\ v = Unsigned(b) OBVIOUS
<1>4. u \in 0..(2^HalfBits - 1) /\ v \in 0..(2^HalfBits - 1)
  BY <1>3, SumAssumption, UnsignedLess
<1>5. sent' = sent \o <<u, v, NL>> /\ asked' = <<u, v>>
  BY <1>3 DEF AskText, SendAll
<1>6. sent' = <<u, v, NL>> BY <1>2, <1>5
<1> QED BY <1>1, <1>2, <1>4, <1>5, <1>6

\* Every step keeps it.
LEMMA TextNext ==
  ASSUME TextClient, Typing, [Next]_vars
  PROVE  TextClient'
<1>1. CASE Server \/ Killed BY <1>1, ServerAnswers, TextSame
<1>2. CASE UNCHANGED vars \/ ResetArrives
  <2>1. Begins(replies, replies') BY <1>2, BeginsAppend DEF Typing, vars, netVars, ResetArrives
  <2> QED BY <1>2, <2>1, TextSame DEF vars, netVars, ResetArrives
<1>3. CASE Connect \/ ClientCloses
  BY <1>3 DEF Connect, ClientCloses, TextClient, Waiting
<1>4. CASE \E a, b \in Typed : AskText(a, b) \/ AskXdr(a, b)
  <2>1. PICK a, b \in Typed : AskText(a, b) \/ AskXdr(a, b) BY <1>4
  <2>2. CASE AskXdr(a, b) BY <2>2 DEF AskXdr, SendAll, whoVars, TextClient, Lined
  <2> QED BY <2>1, <2>2, AskTextClient
<1>5. CASE \E s \in Typed \cup {NL, Junk} : SendSymbol(s)
  BY <1>5 DEF SendSymbol, SendAll, whoVars, TextClient, Lined
<1>6. CASE ReceiveText
  <2>1. Head(replies) = replies[1] OBVIOUS
  <2>2. UNCHANGED <<whoVars, asked, sent, replies>> /\ replies # <<>> /\ Waiting
        /\ printed' = <<replies[1]>>
    BY <1>6, <2>1 DEF ReceiveText
  <2> QED BY <2>2 DEF TextClient, Waiting, Lined, whoVars
<1>7. CASE ReceiveXdr
  BY <1>7 DEF ReceiveXdr, whoVars, TextClient, Lined
<1>8. CASE ReceiveEnd
  BY <1>8 DEF ReceiveEnd, whoVars, netVars, TextClient, Lined, Waiting
<1> QED BY <1>1, <1>2, <1>3, <1>4, <1>5, <1>6, <1>7, <1>8 DEF Next, Client

\* The operands of the client's request are the numbers it sent.
LEMMA OperandsOfRequest ==
  ASSUME NEW u \in Nat, NEW v \in Nat, NEW q, q = <<u, v, NL>>
  PROVE  /\ Operands(q) = {<<1, 2>>}
         /\ q[1] = u /\ q[2] = v /\ q[3] = NL /\ u # NL /\ v # NL
<1>1. /\ DOMAIN q = 1..3 /\ q[1] = u /\ q[2] = v /\ q[3] = NL
      /\ u # NL /\ v # NL
  BY SumAssumption
<1>2. ASSUME NEW o \in Operands(q) PROVE o = <<1, 2>>
  <2>1. /\ o \in (1..3) \X (1..3) /\ o[1] < o[2]
        /\ \A k \in 1..o[2] : q[k] # NL <=> k \in {o[1], o[2]}
    BY <1>1, <1>2 DEF Operands
  <2>2. PICK i \in 1..3, j \in 1..3 : o = <<i, j>> BY <2>1
  <2>3. i < j /\ \A k \in 1..j : q[k] # NL <=> k \in {i, j} BY <2>1, <2>2
  <2>4. i = 1
    <3>1. q[1] # NL <=> 1 \in {i, j} BY <2>3
    <3> QED BY <1>1, <2>3, <3>1
  <2>5. j = 2
    <3>1. 2 \in 1..j BY <2>3, <2>4
    <3>2. q[2] # NL <=> 2 \in {i, j} BY <2>3, <3>1
    <3> QED BY <1>1, <2>4, <3>2
  <2> QED BY <2>2, <2>4, <2>5
<1>3. <<1, 2>> \in Operands(q)
  <2>1. \A k \in 1..2 : q[k] # NL <=> k \in {1, 2} BY <1>1
  <2>2. PICK o : o = <<1, 2>> OBVIOUS
  <2>3. o \in (1..3) \X (1..3) /\ o[1] = 1 /\ o[2] = 2 BY <2>2
  <2>4. o \in Operands(q) BY <1>1, <2>1, <2>3 DEF Operands
  <2> QED BY <2>2, <2>4
<1> QED BY <1>1, <1>2, <1>3

\* Numbers that fit have their low bits only; one more bit is cut.
LEMMA ModSmall ==
  ASSUME NEW M \in Nat, M > 0, NEW x \in Nat
  PROVE  (x < M => x % M = x) /\ (x >= M /\ x < 2 * M => x % M = x - M)
OBVIOUS

\* The sum over the integers, or what each server makes of one that is too large.
LEMMA AnswerOfRequest ==
  ASSUME NEW u \in 0..(2^HalfBits - 1), NEW v \in 0..(2^HalfBits - 1),
         NEW q, q = <<u, v, NL>>
  PROVE  Answer(q) = IF u + v < 2^HalfBits THEN Sum(u + v)
                     ELSE IF lab = "1.3" THEN Sum(u + v - 2^HalfBits) ELSE Overflow
<1>1. PICK M : M = 2^HalfBits OBVIOUS
<1>2. M \in Nat /\ M > 0 BY <1>1, SumAssumption
<1>3. u \in 0..(M - 1) /\ v \in 0..(M - 1) BY <1>1
<1>4. u \in Nat /\ v \in Nat /\ u < M /\ v < M BY <1>2, <1>3
<1>5. Operands(q) = {<<1, 2>>} /\ q[1] = u /\ q[2] = v BY <1>4, OperandsOfRequest
<1>6. PICK o : o = <<1, 2>> OBVIOUS
<1>7. o[1] = 1 /\ o[2] = 2 /\ Operands(q) = {o} BY <1>5, <1>6
<1>8. Parses(q)
  <2>1. Junk \notin {u, v} BY <1>4, SumAssumption
  <2> QED BY <1>5, <1>7, <2>1 DEF Parses
<1>9. Total(q) = u + v
  <2>1. (CHOOSE d \in Operands(q) : TRUE) = o BY <1>7
  <2>2. Total(q) = Unsigned(q[o[1]]) + Unsigned(q[o[2]]) BY <2>1 DEF Total
  <2>3. u % M = u /\ v % M = v BY <1>2, <1>4, ModSmall
  <2> QED BY <1>1, <1>5, <1>7, <2>2, <2>3 DEF Unsigned
<1>10. CASE lab = "1.3"
  <2>1. Answer(q) = Sum((u + v) % M) BY <1>1, <1>8, <1>9, <1>10 DEF Answer, Narrow, Unsigned
  <2>2. u + v \in Nat /\ u + v < 2 * M BY <1>2, <1>4
  <2>3. (u + v) % M = IF u + v < M THEN u + v ELSE u + v - M BY <1>2, <2>2, ModSmall
  <2> QED BY <1>1, <1>10, <2>1, <2>3
<1>11. CASE lab # "1.3"
  <2>1. Answer(q) = IF u + v >= M THEN Overflow ELSE Sum(u + v)
    BY <1>1, <1>8, <1>9, <1>11 DEF Answer, Wide
  <2>2. u + v >= M <=> ~(u + v < M) BY <1>2, <1>4
  <2> QED BY <1>1, <1>11, <2>1, <2>2
<1> QED BY <1>10, <1>11

\* The text client prints the answer to its request.
LEMMA TextPrints ==
  ASSUME TextClient, RepliesInOrder, Typing, peer = "client", Lined, asked # <<>>,
         printed # <<>>, got = 1
  PROVE  printed[1] = IF asked[1] + asked[2] < 2^HalfBits THEN Sum(asked[1] + asked[2])
                      ELSE IF lab = "1.3" THEN Sum(asked[1] + asked[2] - 2^HalfBits)
                      ELSE Overflow
<1>1. PICK u, v \in 0..(2^HalfBits - 1) :
        /\ asked = <<u, v>> /\ sent = <<u, v, NL>>
        /\ replies # <<>> /\ printed = <<replies[1]>>
  BY DEF TextClient
<1>2. PICK q : q = <<u, v, NL>> OBVIOUS
<1>3. u \in Nat /\ v \in Nat
  <2>1. PICK M : M = 2^HalfBits OBVIOUS
  <2>2. M \in Nat /\ u \in 0..(M - 1) /\ v \in 0..(M - 1) BY <2>1, SumAssumption
  <2> QED BY <2>2
<1>4. q[1] = u /\ q[2] = v /\ q[3] = NL /\ u # NL /\ v # NL
  BY <1>2, <1>3, OperandsOfRequest
<1>5. sent = q /\ DOMAIN q = 1..3 /\ Len(q) = 3 BY <1>1, <1>2
<1>6. IsLine(1, 3)
  <2>1. \A k \in 1..(3 - 1) : k = 1 \/ k = 2 OBVIOUS
  <2>2. \A k \in 1..(3 - 1) : sent[k] # NL BY <1>4, <1>5, <2>1
  <2> QED BY <1>4, <1>5, <2>2 DEF IsLine
<1>7. Fit(3)
  <2>1. MaxBuf \in Nat /\ MaxBuf > 3 BY SumAssumption
  <2> SUFFICES ASSUME NEW i \in 0..(3 - (MaxBuf - 1))
               PROVE  \E k \in (i + 1)..(i + MaxBuf - 1) : sent[k] = NL
    BY DEF Fit
  <2>2. 3 \in (i + 1)..(i + MaxBuf - 1) BY <2>1
  <2> QED BY <1>4, <1>5, <2>2
<1>8. Index(3) = 1
  <2>1. {k \in 1..3 : sent[k] = NL} = {3}
    <3>1. \A k \in 1..3 : k = 1 \/ k = 2 \/ k = 3 OBVIOUS
    <3> QED BY <1>4, <1>5, <3>1
  <2> QED BY <2>1, FS_Singleton DEF Index
<1>9. 1 \in DOMAIN replies
  <2>1. PICK R : replies \in Seq(R) BY DEF Typing, Replied
  <2> QED BY <1>1, <2>1
<1>10. SubSeq(sent, 1, 3) = q
  <2>1. u \in Symbols /\ v \in Symbols /\ NL \in Symbols BY <1>3 DEF Symbols
  <2>2. q \in Seq(Symbols) BY <1>2, <2>1
  <2> QED BY <1>5, <2>2
<1>11. replies[1] = Answer(q)
  <2>1. 3 \in DOMAIN sent /\ 1 \in 1..3 BY <1>5
  <2>2. Index(3) \in DOMAIN replies BY <1>8, <1>9
  <2>3. replies[Index(3)] = Answer(SubSeq(sent, 1, 3))
    BY <1>6, <1>7, <2>1, <2>2 DEF RepliesInOrder
  <2>4. PICK z : z = SubSeq(sent, 1, 3) OBVIOUS
  <2>5. z = q BY <1>10, <2>4
  <2>6. replies[1] = Answer(z) BY <1>8, <2>3, <2>4
  <2> QED BY <2>5, <2>6
<1>12. asked[1] = u /\ asked[2] = v /\ printed[1] = replies[1] BY <1>1
<1> QED BY <1>2, <1>11, <1>12, AnswerOfRequest

\* The sum that prot_x answers.
SumOf(a, b) == Sum((a + b) % 2^IntBits)

\* Of the n requests in s, those answered in r got the sum of their operands.
Sums(s, r, n) ==
  /\ Len(s) = 2 * n /\ Len(r) <= n
  /\ \A i \in 1..Len(r) : r[i] = SumOf(s[2 * i - 1], s[2 * i])

\* The XDR client has sent n requests and waits for the answer to the last: the
\* server owes one answer at most.
XdrClient ==
  peer = "client" /\ proto = "x" =>
    \E n \in Nat :
      /\ Sums(sent, replies, n) /\ Len(replies) <= got + 1
      /\ asked # <<>> => n > 0 /\ asked = <<sent[2 * n - 1], sent[2 * n]>>
      /\ Waiting => got < n
      /\ asked # <<>> /\ printed # <<>> /\ got = n => printed[1] = SumOf(asked[1], asked[2])
      /\ Serving => /\ Rest(sent, 2 * Len(replies), line, readbuf, wire)
                    /\ n = IF Waiting THEN got + 1 ELSE got

\* A step of the server that answers nothing.
LEMMA XdrAlone ==
  ASSUME XdrClient, UNCHANGED <<whoVars, sent, replies, clientVars>>, Serving' => Serving,
         \A p : Serving' /\ Rest(sent, p, line, readbuf, wire) =>
                  Rest(sent, p, line', readbuf', wire')
  PROVE  XdrClient'
<1>1. Waiting' <=> Waiting BY DEF Waiting, clientVars
<1>2. UNCHANGED <<asked, printed, got>> BY DEF clientVars
<1> QED BY <1>1, <1>2 DEF XdrClient, whoVars

\* A step after which the server works no more, and answers nothing.
LEMMA XdrEnds ==
  ASSUME XdrClient, UNCHANGED <<whoVars, sent, replies, clientVars>>, ~Serving'
  PROVE  XdrClient'
BY XdrAlone

\* The second operand: the sum is that of the pair of the request.
LEMMA DecodeSecondXdr ==
  ASSUME XdrClient, Typing, Typing', DecodeSecond
  PROVE  XdrClient'
<1>1. /\ UNCHANGED <<whoVars, sent, wire, clientVars>> /\ pc = "read" /\ proto = "x"
      /\ readbuf # <<>> /\ Len(line) = 1
  BY DEF DecodeSecond
<1>2. PICK l, t : l = Append(line, Head(readbuf)) /\ t = Tail(readbuf) OBVIOUS
<1>3. PICK x : x = AnswerX(l) OBVIOUS
<1>4. Write(x, <<>>) BY <1>2, <1>3 DEF DecodeSecond
<1>5. CASE net # "open" BY <1>1, <1>4, <1>5, WriteClosed, XdrEnds
<1>6. CASE net = "open"
  <2>1. /\ net' = "open" /\ replies' = Append(replies, x) /\ line' = <<>> /\ readbuf' = <<>>
    BY <1>4, <1>6, WriteOpen
  <2> SUFFICES ASSUME peer = "client" PROVE XdrClient'
    BY <1>1 DEF XdrClient, whoVars
  <2>2. Serving BY <1>1, <1>6 DEF Serving
  <2>3. PICK n \in Nat :
          /\ Sums(sent, replies, n) /\ Len(replies) <= got + 1
          /\ asked # <<>> => n > 0 /\ asked = <<sent[2 * n - 1], sent[2 * n]>>
          /\ Waiting => got < n
          /\ asked # <<>> /\ printed # <<>> /\ got = n => printed[1] = SumOf(asked[1], asked[2])
          /\ Rest(sent, 2 * Len(replies), line, readbuf, wire)
          /\ n = IF Waiting THEN got + 1 ELSE got
    BY <1>1, <2>2 DEF XdrClient
  <2>4. /\ sent \in Seq(Symbols) /\ line \in Seq(Symbols) /\ readbuf \in Seq(Symbols)
        /\ wire \in Seq(Symbols) /\ got \in 0..Len(replies)
    BY DEF Typing
  <2>5. PICK R : replies \in Seq(R) /\ x \in R BY BeginsAppend DEF Typing
  <2>6. PICK k \in Nat : k = Len(replies) BY <2>5
  <2>7. l \in Seq(Symbols) /\ t \in Seq(Symbols) /\ Len(l) = 2
    <3>1. PICK c : c = Head(readbuf) OBVIOUS
    <3>2. c \in Symbols /\ t \in Seq(Symbols) BY <1>1, <1>2, <2>4, <3>1
    <3>3. l = Append(line, c) BY <1>2, <3>1
    <3>4. line \in Seq(Symbols) BY <2>4
    <3>5. l \in Seq(Symbols) /\ Len(l) = Len(line) + 1 BY <3>2, <3>3, <3>4
    <3> QED BY <1>1, <3>2, <3>5
  <2>8. 2 * k \in Nat /\ Rest(sent, 2 * k, l, t, wire)
    <3>1. PICK p \in Nat : p = 2 * k OBVIOUS
    <3>2. Rest(sent, p, line, readbuf, wire) BY <2>3, <2>6, <3>1
    <3>3. Rest(sent, p, l, t, wire) BY <1>1, <1>2, <2>4, <3>2, RestTake
    <3> QED BY <3>1, <3>3
  <2>9. PICK a, b \in Nat : a = Len(t) /\ b = Len(wire) BY <2>4, <2>7
  <2>10. 2 * n = 2 * k + 2 + a + b
    BY <2>3, <2>7, <2>8, <2>9 DEF Sums, Rest
  <2>11. Waiting /\ n = got + 1 /\ n = k + 1 /\ b = 0
    <3>1. n >= k + 1 BY <2>10
    <3>2. got \in Nat /\ got <= k BY <2>4, <2>6
    <3> QED BY <2>3, <2>10, <3>1, <3>2
  <2>12. x = SumOf(sent[2 * (k + 1) - 1], sent[2 * (k + 1)])
    <3>1. sent[2 * k + 1] = l[1] /\ sent[2 * k + 2] = l[2]
      BY <2>7, <2>8 DEF Rest, Stands
    <3>2. 2 * (k + 1) - 1 = 2 * k + 1 /\ 2 * (k + 1) = 2 * k + 2 OBVIOUS
    <3>3. DOMAIN l = 1..2 /\ 1 \in 1..2 /\ 2 \in 1..2 BY <2>7
    <3>4. x = Sum((l[1] + l[2]) % 2^IntBits) BY <1>3, <3>3 DEF AnswerX, Decoded
    <3> QED BY <3>1, <3>2, <3>4 DEF SumOf
  <2>13. PICK r2 : r2 = Append(replies, x) OBVIOUS
  <2>14. Len(r2) = k + 1 /\ r2[k + 1] = x /\ \A i \in 1..k : r2[i] = replies[i]
    BY <2>5, <2>6, <2>13
  <2>15. Sums(sent, r2, n)
    <3>1. Len(r2) <= n /\ Len(sent) = 2 * n BY <2>3, <2>11, <2>14 DEF Sums
    <3>2. ASSUME NEW i \in 1..(k + 1) PROVE r2[i] = SumOf(sent[2 * i - 1], sent[2 * i])
      <4>1. CASE i = k + 1 BY <2>12, <2>14, <4>1
      <4>2. CASE i # k + 1
        <5>1. i \in 1..k BY <4>2
        <5> QED BY <2>3, <2>6, <2>14, <5>1 DEF Sums
      <4> QED BY <4>1, <4>2
    <3> QED BY <2>14, <3>1, <3>2 DEF Sums
  <2>16. PICK e : e = <<>> OBVIOUS
  <2>17. Rest(sent, 2 * Len(r2), e, e, wire)
    <3>1. Len(e) = 0 BY <2>16
    <3>2. Len(r2) = n /\ Len(wire) = 0 BY <2>9, <2>11, <2>14
    <3>3. Len(sent) = 2 * n BY <2>3 DEF Sums
    <3>4. Len(sent) = 2 * n + 0 + 0 + 0 BY <3>3
    <3> QED BY <3>1, <3>2, <3>4 DEF Rest, Stands
  <2>18. Len(r2) <= got + 1 BY <2>11, <2>14
  <2>19. Waiting' /\ UNCHANGED <<asked, printed, got>>
    BY <1>1, <2>11 DEF Waiting, clientVars
  <2> QED
    BY <1>1, <2>1, <2>3, <2>11, <2>13, <2>15, <2>16, <2>17, <2>18, <2>19 DEF XdrClient
<1> QED BY <1>5, <1>6

\* The client asks: one request more, and nothing else was owed.
LEMMA AskXdrClient ==
  ASSUME XdrClient, Typing, Typing', NEW a \in Typed, NEW b \in Typed, AskXdr(a, b)
  PROVE  XdrClient'
<1>1. /\ UNCHANGED <<whoVars, got, pc, readbuf, line, net, replies>> /\ ~Waiting
      /\ asked' = <<a, b>> /\ printed' = <<>> /\ peer = "client" /\ proto = "x"
  BY DEF AskXdr, SendAll, serverVars
<1>2. PICK q : q = <<a, b>> OBVIOUS
<1>3. sent' = sent \o q /\ wire' = wire \o q BY <1>2 DEF AskXdr, SendAll
<1>4. PICK n \in Nat :
        /\ Sums(sent, replies, n) /\ Len(replies) <= got + 1
        /\ Serving => /\ Rest(sent, 2 * Len(replies), line, readbuf, wire)
                      /\ n = got
  BY <1>1 DEF XdrClient
<1>5. q \in Seq(Symbols) /\ Len(q) = 2 /\ q[1] = a /\ q[2] = b
  BY <1>2, Numbers
<1>6. /\ sent \in Seq(Symbols) /\ line \in Seq(Symbols) /\ readbuf \in Seq(Symbols)
      /\ wire \in Seq(Symbols) /\ got \in 0..Len(replies) /\ Len(replies) \in Nat
  BY BeginsAppend DEF Typing
<1>7. PICK k \in Nat : k = Len(replies) BY <1>6
<1>8. PICK s2, w2 : s2 = sent \o q /\ w2 = wire \o q OBVIOUS
<1>9. Len(sent) = 2 * n /\ k <= n BY <1>4, <1>7 DEF Sums
<1>10. /\ Len(s2) = 2 * n + 2 /\ s2[2 * n + 1] = a /\ s2[2 * n + 2] = b
       /\ \A i \in 1..(2 * n) : s2[i] = sent[i]
  <2>1. PICK m, v : m = Len(sent) /\ v = Len(q) OBVIOUS
  <2>2. /\ Len(s2) = m + v
        /\ \A i \in 1..m : s2[i] = sent[i]
        /\ \A i \in 1..v : s2[m + i] = q[i]
    <3>1. sent \in Seq(Symbols) BY <1>6
    <3>2. q \in Seq(Symbols) BY <1>5
    <3> QED BY <1>8, <2>1, <3>1, <3>2, Joined
  <2>3. m = 2 * n /\ v = 2 BY <1>5, <1>9, <2>1
  <2>4. s2[m + 1] = q[1] /\ s2[m + 2] = q[2] BY <2>2, <2>3
  <2> QED BY <1>5, <2>2, <2>3, <2>4
<1>11. 2 * (n + 1) = 2 * n + 2 /\ 2 * (n + 1) - 1 = 2 * n + 1 OBVIOUS
<1>12. Sums(s2, replies, n + 1)
  <2>1. ASSUME NEW i \in 1..k PROVE replies[i] = SumOf(s2[2 * i - 1], s2[2 * i])
    <3>1. 2 * i - 1 \in 1..(2 * n) /\ 2 * i \in 1..(2 * n) BY <1>9
    <3>2. replies[i] = SumOf(sent[2 * i - 1], sent[2 * i]) BY <1>4, <1>7 DEF Sums
    <3> QED BY <1>10, <3>1, <3>2
  <2>2. k <= n + 1 BY <1>9
  <2> QED BY <1>7, <1>10, <1>11, <2>1, <2>2 DEF Sums
<1>13. asked' = <<s2[2 * (n + 1) - 1], s2[2 * (n + 1)]>> BY <1>1, <1>10, <1>11
<1>14. got < n + 1 BY <1>6, <1>7, <1>9
<1>15. Waiting' BY <1>1, <1>2 DEF Waiting
<1>16. Serving' => Serving BY <1>1 DEF Serving
<1>17. Serving => Rest(s2, 2 * Len(replies), line, readbuf, w2) /\ n + 1 = got + 1
  <2> SUFFICES ASSUME Serving
               PROVE  Rest(s2, 2 * Len(replies), line, readbuf, w2) /\ n + 1 = got + 1
    OBVIOUS
  <2>1. PICK p \in Nat : p = 2 * Len(replies) BY <1>6
  <2>2. Rest(sent, p, line, readbuf, wire) BY <1>4, <2>1
  <2>3. Rest(s2, p, line, readbuf, w2) BY <1>5, <1>6, <1>8, <2>2, RestMore
  <2> QED BY <1>4, <2>1, <2>3
<1>18. n + 1 \in Nat /\ n + 1 > 0 OBVIOUS
<1>19. PICK n2 : n2 = n + 1 OBVIOUS
<1> QED
  <2>1. sent' = s2 /\ wire' = w2 BY <1>3, <1>8
  <2>2. /\ Sums(sent', replies', n2) /\ Len(replies') <= got' + 1
        /\ n2 > 0 /\ asked' = <<sent'[2 * n2 - 1], sent'[2 * n2]>>
        /\ got' < n2
    BY <1>1, <1>4, <1>12, <1>13, <1>14, <1>18, <1>19, <2>1
  <2>3. Serving' => /\ Rest(sent', 2 * Len(replies'), line', readbuf', wire')
                    /\ n2 = got' + 1
    BY <1>1, <1>16, <1>17, <1>19, <2>1
  <2>4. printed' = <<>> /\ n2 \in Nat BY <1>1, <1>18, <1>19
  <2> QED BY <1>15, <2>2, <2>3, <2>4 DEF XdrClient

\* The client receives the answer to its request.
LEMMA ReceiveXdrClient ==
  ASSUME XdrClient, Typing, ReceiveXdr
  PROVE  XdrClient'
<1>1. /\ UNCHANGED <<whoVars, asked, pc, readbuf, line, net, wire, sent, replies>>
      /\ Waiting /\ printed' = <<replies[got + 1]>> /\ got' = Len(replies)
      /\ Len(replies) > got /\ peer = "client" /\ proto = "x"
  BY DEF ReceiveXdr, serverVars, netVars
<1>2. PICK n \in Nat :
        /\ Sums(sent, replies, n) /\ Len(replies) <= got + 1
        /\ n > 0 /\ asked = <<sent[2 * n - 1], sent[2 * n]>> /\ got < n
        /\ Serving => /\ Rest(sent, 2 * Len(replies), line, readbuf, wire)
                      /\ n = got + 1
  BY <1>1 DEF XdrClient, Waiting
<1>3. got \in Nat /\ Len(replies) \in Nat
  <2>1. Len(replies) \in Nat BY BeginsAppend DEF Typing
  <2> QED BY <2>1 DEF Typing
<1>4. got' = got + 1 /\ Len(replies) = got + 1 BY <1>1, <1>2, <1>3
<1>5. replies[got + 1] = SumOf(sent[2 * (got + 1) - 1], sent[2 * (got + 1)])
  <2>1. got + 1 \in 1..Len(replies) BY <1>3, <1>4
  <2> QED BY <1>2, <2>1 DEF Sums
<1>6. got' = n => printed'[1] = SumOf(asked[1], asked[2])
  <2> SUFFICES ASSUME got' = n PROVE printed'[1] = SumOf(asked[1], asked[2])
    OBVIOUS
  <2>1. replies[n] = SumOf(sent[2 * n - 1], sent[2 * n]) BY <1>4, <1>5
  <2>2. asked[1] = sent[2 * n - 1] /\ asked[2] = sent[2 * n] BY <1>2
  <2> QED BY <1>1, <1>4, <2>1, <2>2
<1>7. ~Waiting' /\ asked' # <<>> BY <1>1 DEF Waiting
<1>8. Serving' <=> Serving BY <1>1 DEF Serving
<1>9. Len(replies) <= got' + 1 BY <1>3, <1>4
<1> QED BY <1>1, <1>2, <1>4, <1>6, <1>7, <1>8, <1>9 DEF XdrClient

\* A new connection.
LEMMA ConnectXdr ==
  ASSUME Fresh, Connect
  PROVE  XdrClient'
<1>1. /\ sent' = <<>> /\ wire' = <<>> /\ replies' = <<>> /\ got' = 0 /\ asked' = <<>>
      /\ line' = <<>> /\ readbuf' = <<>>
  BY DEF Connect, serverVars, Fresh
<1>2. PICK e : e = <<>> OBVIOUS
<1>3. Len(e) = 0 BY <1>2
<1>4. Sums(e, e, 0) BY <1>3 DEF Sums
<1>5. Rest(e, 2 * Len(e), e, e, e) BY <1>3 DEF Rest, Stands
<1>6. ~Waiting' BY <1>1 DEF Waiting
<1>7. Len(e) <= 0 + 1 BY <1>3
<1> QED BY <1>1, <1>2, <1>4, <1>5, <1>6, <1>7 DEF XdrClient

\* Every step keeps it.
LEMMA XdrNext ==
  ASSUME XdrClient, Fresh, Typing, Typing', [Next]_vars
  PROVE  XdrClient'
<1>1. CASE Accept \/ AcceptOnce
  BY <1>1, XdrAlone DEF Accept, AcceptOnce, Accepts, Serving, netVars
<1>2. CASE Fill
  <2>1. UNCHANGED <<whoVars, pc, line, net, sent, replies, clientVars>> /\ readbuf = <<>>
    BY <1>2 DEF Fill
  <2>2. Serving' => Serving BY <2>1 DEF Serving
  <2> SUFFICES ASSUME peer = "client", proto = "x" PROVE XdrClient'
    BY <2>1 DEF XdrClient, whoVars
  <2>3. PICK k \in 1..Len(wire) : Cuts(wire, k, readbuf', wire')
    BY <1>2 DEF Fill, Cuts
  <2>4. PICK p : p = 2 * Len(replies) OBVIOUS
  <2>5. p \in Nat
    <3>1. Len(replies) \in Nat BY BeginsAppend DEF Typing
    <3> QED BY <2>4, <3>1
  <2>6. Rest(sent, p, line, readbuf, wire) => Rest(sent, p, line', readbuf', wire')
    <3>1. sent \in Seq(Symbols) /\ line \in Seq(Symbols) /\ wire \in Seq(Symbols)
      BY DEF Typing
    <3>2. PICK r2, w2 : r2 = readbuf' /\ w2 = wire' OBVIOUS
    <3>3. Cuts(wire, k, r2, w2) BY <2>3, <3>2
    <3>4. Rest(sent, p, line, readbuf, wire) => Rest(sent, p, line, r2, w2)
      BY <2>1, <2>5, <3>1, <3>3, RestFill
    <3> QED BY <2>1, <3>2, <3>4
  <2>7. UNCHANGED <<asked, printed, got>> /\ (Waiting' <=> Waiting)
    BY <2>1 DEF clientVars, Waiting
  <2> QED BY <2>1, <2>2, <2>4, <2>6, <2>7 DEF XdrClient, whoVars
<1>3. CASE Readline \/ ReadlineEnd \/ ReadRaw \/ ReadRawFails
  BY <1>3 DEF Readline, ReadlineEnd, ReadRaw, ReadRawFails, Lined, XdrClient, whoVars
<1>4. CASE DecodeFirst
  <2>1. /\ UNCHANGED <<whoVars, pc, wire, net, sent, replies, clientVars>> /\ readbuf # <<>>
        /\ line' = Append(line, Head(readbuf)) /\ readbuf' = Tail(readbuf)
    BY <1>4 DEF DecodeFirst, netVars
  <2>2. Serving' => Serving BY <2>1 DEF Serving
  <2> SUFFICES ASSUME peer = "client", proto = "x" PROVE XdrClient'
    BY <2>1 DEF XdrClient, whoVars
  <2>3. PICK p : p = 2 * Len(replies) OBVIOUS
  <2>4. p \in Nat
    <3>1. Len(replies) \in Nat BY BeginsAppend DEF Typing
    <3> QED BY <2>3, <3>1
  <2>5. Rest(sent, p, line, readbuf, wire) => Rest(sent, p, line', readbuf', wire')
    <3>1. /\ sent \in Seq(Symbols) /\ line \in Seq(Symbols) /\ wire \in Seq(Symbols)
          /\ readbuf \in Seq(Symbols)
      BY DEF Typing
    <3>2. PICK l2, r2 : l2 = Append(line, Head(readbuf)) /\ r2 = Tail(readbuf) OBVIOUS
    <3>3. Rest(sent, p, line, readbuf, wire) => Rest(sent, p, l2, r2, wire)
      BY <2>1, <2>4, <3>1, <3>2, RestTake
    <3> QED BY <2>1, <3>2, <3>3
  <2>6. UNCHANGED <<asked, printed, got>> /\ (Waiting' <=> Waiting)
    BY <2>1 DEF clientVars, Waiting
  <2> QED BY <2>1, <2>2, <2>3, <2>5, <2>6 DEF XdrClient, whoVars
<1>5. CASE DecodeSecond BY <1>5, DecodeSecondXdr
<1>6. CASE DecodeEnd
  <2>1. net # "open" /\ UNCHANGED <<whoVars, clientVars, sent>>
    BY <1>6 DEF DecodeEnd, AtEOF, PeerGone
  <2>2. UNCHANGED replies /\ ~Serving'
    <3>1. CASE Exits /\ net' = "broken" /\ UNCHANGED replies BY <3>1 DEF Serving
    <3>2. CASE Write(AnswerX(line), <<>>) BY <2>1, <3>2, WriteClosed
    <3> QED BY <1>6, <3>1, <3>2 DEF DecodeEnd
  <2> QED BY <2>1, <2>2, XdrEnds
<1>7. CASE CloseConn BY <1>7, XdrEnds DEF CloseConn, Serving
<1>8. CASE Killed BY <1>8, XdrEnds DEF Killed, Exits, Serving, netVars
<1>9. CASE Connect BY <1>9, ConnectXdr
<1>10. CASE \E a, b \in Typed : AskText(a, b) \/ AskXdr(a, b)
  <2>1. PICK a, b \in Typed : AskText(a, b) \/ AskXdr(a, b) BY <1>10
  <2>2. CASE AskText(a, b) BY <2>2 DEF AskText, SendAll, XdrClient, whoVars
  <2> QED BY <2>1, <2>2, AskXdrClient
<1>11. CASE \E s \in Typed \cup {NL, Junk} : SendSymbol(s)
  BY <1>11 DEF SendSymbol, SendAll, XdrClient, whoVars
<1>12. CASE ReceiveText BY <1>12 DEF ReceiveText, XdrClient, whoVars
<1>13. CASE ReceiveXdr BY <1>13, ReceiveXdrClient
<1>14. CASE ReceiveEnd
  <2>1. /\ UNCHANGED <<whoVars, asked, got, sent, replies, net, pc>> /\ Waiting /\ ~Serving
        /\ printed' = <<Sum(IF proto = "a" THEN asked[1] ELSE 0)>>
    BY <1>14 DEF ReceiveEnd, netVars, serverVars, Serving
  <2>2. ~Waiting' /\ ~Serving' BY <2>1 DEF Waiting, Serving
  <2>3. ASSUME NEW n \in Nat, got < n PROVE got # n
    BY <2>3 DEF Typing
  <2> QED BY <2>1, <2>2, <2>3 DEF XdrClient, Waiting, whoVars
<1>15. CASE ClientCloses
  <2>1. /\ UNCHANGED <<whoVars, got, sent, replies>> /\ asked' = <<>>
        /\ ~Serving' /\ ~Waiting'
    BY <1>15 DEF ClientCloses, Serving, Waiting
  <2> QED BY <2>1 DEF XdrClient, whoVars
<1>16. CASE ResetArrives
  BY <1>16, XdrEnds DEF ResetArrives, Serving
<1>17. CASE UNCHANGED vars
  BY <1>17, XdrAlone DEF vars, serverVars, netVars, Serving
<1> QED BY <1>1, <1>2, <1>3, <1>4, <1>5, <1>6, <1>7, <1>8, <1>9, <1>10, <1>11, <1>12,
           <1>13, <1>14, <1>15, <1>16, <1>17 DEF Next, Server, Client

\* Before the first connection.
LEMMA InitClients ==
  ASSUME Init
  PROVE  TextClient /\ XdrClient
<1>1. PICK e : e = <<>> OBVIOUS
<1>2. Len(e) = 0 BY <1>1
<1>3. Sums(e, e, 0) BY <1>2 DEF Sums
<1>4. sent = e /\ replies = e /\ asked = e /\ got = 0 /\ ~Serving /\ net # "open"
  BY <1>1 DEF Init, Serving
<1>5. TextClient BY <1>1, <1>4 DEF TextClient
<1>6. XdrClient BY <1>1, <1>2, <1>3, <1>4 DEF XdrClient, Waiting
<1> QED BY <1>5, <1>6

\* What the invariants say of a client's print.
LEMMA Prints ==
  ASSUME TextClient, XdrClient, RepliesInOrder, Typing, Inv
  PROVE  ClientPrints
<1> SUFFICES ASSUME peer = "client", asked # <<>>, printed # <<>>,
                    got = (IF proto = "a" THEN 1 ELSE Len(sent) \div 2),
                    Lined \/ proto = "x"
             PROVE  printed[1] =
                      IF proto = "x" THEN Sum((asked[1] + asked[2]) % 2^IntBits)
                      ELSE IF asked[1] + asked[2] < 2^HalfBits THEN Sum(asked[1] + asked[2])
                      ELSE IF lab = "1.3" THEN Sum(asked[1] + asked[2] - 2^HalfBits)
                      ELSE Overflow
  BY DEF ClientPrints
<1>1. CASE proto = "x"
  <2>1. PICK n \in Nat :
          /\ Len(sent) = 2 * n
          /\ got = n => printed[1] = SumOf(asked[1], asked[2])
    BY <1>1 DEF XdrClient, Sums
  <2>2. got = Len(sent) \div 2 BY <1>1
  <2>3. (2 * n) \div 2 = n OBVIOUS
  <2> QED BY <1>1, <2>1, <2>2, <2>3 DEF SumOf
<1>2. CASE proto # "x"
  <2>1. Lined /\ proto = "a" BY <1>2 DEF Lined
  <2>2. got = 1 BY <2>1
  <2> QED BY <1>2, <2>1, <2>2, TextPrints
<1> QED BY <1>1, <1>2

\* The invariant of the replies, and of what the clients make of them.
InvOrder == Inv /\ Ordered /\ Fresh /\ TextClient /\ XdrClient

\* It holds in every state.
THEOREM InvarianceOrder == Spec => []InvOrder
<1>1. Init => InvOrder BY InitInv, InitOrdered, InitClients DEF InvOrder
<1>2. InvOrder /\ [Next]_vars => InvOrder'
  <2> SUFFICES ASSUME InvOrder, [Next]_vars PROVE InvOrder'
    OBVIOUS
  <2>1. Inv' BY Inductive DEF InvOrder
  <2>2. Typing /\ Typing'
    <3>1. Typing BY TypingHolds DEF InvOrder
    <3>2. Typing' BY <2>1, TypingHoldsNext
    <3> QED BY <3>1, <3>2
  <2>3. Ordered' BY <2>2, OrderedNext DEF InvOrder
  <2>4. Fresh' BY FreshNext DEF InvOrder
  <2>5. TextClient' BY <2>2, TextNext DEF InvOrder
  <2>6. XdrClient' BY <2>2, XdrNext DEF InvOrder
  <2> QED BY <2>1, <2>3, <2>4, <2>5, <2>6 DEF InvOrder
<1> QED BY <1>1, <1>2, PTL DEF Spec

\* However the stream is cut and the lines are pipelined, each line that fits
\* is answered once, in order, with the numbers of that line, and no answer is
\* owed when nothing is left to read (readline, prot_a 51-86): for any MAXLINE
\* and MAXBUFL, and on every connection, not the first alone.
THEOREM AnsweredInOrder == Spec => []RepliesInOrder
<1>1. InvOrder => RepliesInOrder BY TypingHolds, OrderedReplies DEF InvOrder
<1> QED BY <1>1, InvarianceOrder, PTL

\* A client that got its answer prints the sum of the numbers it sent, as its
\* lab computes it (1.3/client.c 79-92, 2.4/client.c 68-105), for any widths of
\* the integers and any segmentation of the request.
THEOREM PrintsTheSum == Spec => []ClientPrints
<1>1. InvOrder => ClientPrints
  BY TypingHolds, OrderedReplies, Prints DEF InvOrder
<1> QED BY <1>1, InvarianceOrder, PTL
=============================================================================
