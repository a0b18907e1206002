--------------------------- MODULE FileExchangeProofs ---------------------------
(***************************************************************************)
(* Type correctness of the sessions of a file client with its server; that *)
(* a client only falls behind; and which file one that waits for every     *)
(* answer stores: for any files and number of requests.                    *)
(***************************************************************************)
EXTENDS FileExchange, Integers, TLAPS

Gets == {i \in DOMAIN inq : inq[i].line = "get"}
Oks == {i \in DOMAIN out : out[i].part = "ok"}

\* The client is to read a size or a content and knows whose.
Expects == client \in {"sizing", "reading"} \/ (client = "guessing" /\ ~torn)

\* It has made a request and not finished with its answer.
Busy == client \in {"waiting", "sizing", "reading", "guessing"}

\* Only QUIT, which two of the clients write, is not about a request; a
\* content is read for one.
Numbered ==
  /\ \A i \in DOMAIN inq : IF inq[i].line = "quit" THEN lab \in {"2.3", "3.4"}
                            ELSE inq[i].req > 0
  /\ Expects => taking > 0
  /\ client \in {"sizing", "reading"} => ~torn

\* The files announced and asked for are those of later and later requests.
Increasing ==
  /\ \A i, j \in Gets : i < j => inq[i].req < inq[j].req
  /\ \A i, j \in Oks : i < j => out[i].req < out[j].req
  /\ \A i \in Oks, j \in Gets : out[i].req < inq[j].req

\* What is stored, and the file that is read, comes before them.
Behind ==
  /\ \A s \in DOMAIN stored : /\ \A i \in Oks : stored[s].of < out[i].req
                              /\ \A j \in Gets : stored[s].of < inq[j].req
  /\ Expects => /\ \A i \in Oks : taking < out[i].req
                /\ \A j \in Gets : taking < inq[j].req
                /\ \A s \in DOMAIN stored : stored[s].of < taking

\* For the last request nothing has been stored yet.
Unstored ==
  Busy =>
    /\ names # <<>>
    /\ \A s \in DOMAIN stored : stored[s].asked < Len(names)

\* What is stored is in order, and after the requests it is taken for.
Order ==
  \A i, j \in DOMAIN stored :
    /\ stored[i].of <= stored[i].asked
    /\ i < j => stored[i].of < stored[j].of /\ stored[i].asked < stored[j].asked

Inv == TypeOK /\ Numbered /\ Increasing /\ Behind /\ Unstored /\ Order

\* t is what is left of s without its first k elements and some of the last.
Part(s, t, k) ==
  /\ Len(t) + k <= Len(s)
  /\ \A i \in 1..Len(t) : t[i] = s[i + k]

-----------------------------------------------------------------------------
(* Sequences: the parts of one that the programs make. *)

\* All but the first element.
LEMMA PartTail ==
  ASSUME NEW S, NEW s \in Seq(S), s # <<>>
  PROVE  Tail(s) \in Seq(S) /\ Part(s, Tail(s), 1)
BY DEF Part

\* The whole of it.
LEMMA PartSelf ==
  ASSUME NEW S, NEW s \in Seq(S)
  PROVE  Part(s, s, 0)
BY DEF Part

\* Nothing of it.
LEMMA PartEmpty ==
  ASSUME NEW S, NEW s \in Seq(S)
  PROVE  <<>> \in Seq(S) /\ Part(s, <<>>, 0)
BY DEF Part

\* A beginning.
LEMMA PartFirst ==
  ASSUME NEW S, NEW s \in Seq(S), NEW n \in 0..Len(s)
  PROVE  SubSeq(s, 1, n) \in Seq(S) /\ Part(s, SubSeq(s, 1, n), 0)
BY DEF Part

\* An end.
LEMMA PartLast ==
  ASSUME NEW S, NEW s \in Seq(S), NEW n \in 0..Len(s)
  PROVE  SubSeq(s, n + 1, Len(s)) \in Seq(S) /\ Part(s, SubSeq(s, n + 1, Len(s)), n)
<1>1. SubSeq(s, n + 1, Len(s)) \in Seq(S) OBVIOUS
<1>2. Len(SubSeq(s, n + 1, Len(s))) = Len(s) - n OBVIOUS
<1>3. \A i \in 1..(Len(s) - n) : SubSeq(s, n + 1, Len(s))[i] = s[i + n]
  OBVIOUS
<1> QED BY <1>1, <1>2, <1>3 DEF Part

\* A sequence over a larger set, and its elements.
LEMMA SeqWiden ==
  ASSUME NEW S, NEW T, S \subseteq T, NEW s \in Seq(S)
  PROVE  s \in Seq(T) /\ \A i \in DOMAIN s : s[i] \in S
<1>1. \A i \in DOMAIN s : s[i] \in S OBVIOUS
<1>2. \A i \in DOMAIN s : s[i] \in T BY <1>1
<1>3. DOMAIN s = 1..Len(s) /\ Len(s) \in Nat OBVIOUS
<1>4. s = [i \in 1..Len(s) |-> s[i]] OBVIOUS
<1> QED BY <1>1, <1>2, <1>3, <1>4

\* An element of a part.
LEMMA PartElement ==
  ASSUME NEW S, NEW s \in Seq(S), NEW t \in Seq(S), NEW k \in Nat, Part(s, t, k)
  PROVE  \A i \in DOMAIN t : i \in Nat /\ i + k \in DOMAIN s /\ t[i] = s[i + k]
BY DEF Part

-----------------------------------------------------------------------------
(* The steps of the server. *)

Line == [req : 0..Len(names), line : Lines]
Answer == [req : 1..Len(names), part : Parts]

\* An answer m may follow what is in out; +OK only to the first of the k lines
\* that are taken.
Follows(m, k) ==
  m.part = "ok" => /\ k > 0 /\ inq # <<>> /\ inq[1].line = "get"
                   /\ m.req = inq[1].req

\* The server takes k lines and sends one answer at most; what it says is cut
\* by a reset.
Serves(k) ==
  /\ inq' \in Seq(Line) /\ Part(inq, inq', k)
  /\ out' \in Seq(Answer)
  /\ \/ Part(out, out', 0)
     \/ \E m \in Answer : Follows(m, k) /\ Part(Append(out, m), out', 0)

\* The server's own variables have their types.
ServerTyped ==
  /\ server \in {"backlog", "reading", "sizing", "sending", "done"} \cup Gone
  /\ job \in IF server \in {"sizing", "sending"} THEN 1..Len(names) ELSE {0}
  /\ failed \in BOOLEAN /\ net \in NetStates

\* The lines left are of those that were there.
LEMMA LinesLeft ==
  ASSUME Inv, NEW k \in Nat, inq' \in Seq(Line), Part(inq, inq', k)
  PROVE  /\ \A j \in DOMAIN inq' : j \in Nat /\ j + k \in DOMAIN inq
                                   /\ inq'[j] = inq[j + k]
         /\ \A j \in Gets' : j \in Nat /\ j + k \in Gets /\ inq'[j] = inq[j + k]
<1>1. inq \in Seq(Line) BY DEF Inv, TypeOK, Line
<1>2. \A j \in DOMAIN inq' : j \in Nat /\ j + k \in DOMAIN inq
                             /\ inq'[j] = inq[j + k]
  BY <1>1, PartElement
<1> QED BY <1>2 DEF Gets

\* The answers on their way are of those that were there, or the new one.
LEMMA AnswersLeft ==
  ASSUME Inv, NEW k \in Nat, Serves(k)
  PROVE  \A i \in Oks' :
           /\ i \in Nat
           /\ \/ i \in Oks /\ out'[i] = out[i]
              \/ /\ i = Len(out) + 1 /\ k > 0 /\ 1 \in Gets
                 /\ out'[i].req = inq[1].req
<1>0. out \in Seq(Answer) /\ out' \in Seq(Answer) /\ inq \in Seq(Line)
  BY DEF Inv, TypeOK, Line, Answer, Serves
<1>1. CASE Part(out, out', 0)
  <2>1. \A i \in DOMAIN out' : i \in Nat /\ i + 0 \in DOMAIN out /\ out'[i] = out[i + 0]
    BY <1>0, <1>1, PartElement
  <2>2. \A i \in DOMAIN out' : i \in Nat /\ i \in DOMAIN out /\ out'[i] = out[i]
    BY <2>1
  <2> QED BY <2>2 DEF Oks
<1>2. CASE \E m \in Answer : Follows(m, k) /\ Part(Append(out, m), out', 0)
  <2>1. PICK m \in Answer : Follows(m, k) /\ Part(Append(out, m), out', 0)
    BY <1>2
  <2>2. PICK a : a = Append(out, m) OBVIOUS
  <2>3. a \in Seq(Answer) /\ Part(a, out', 0) BY <1>0, <2>1, <2>2
  <2>4. \A i \in DOMAIN out' : i \in Nat /\ i + 0 \in DOMAIN a /\ out'[i] = a[i + 0]
    BY <1>0, <2>3, PartElement
  <2>5. \A i \in DOMAIN a : \/ i \in DOMAIN out /\ a[i] = out[i]
                            \/ i = Len(out) + 1 /\ a[i] = m
    BY <1>0, <2>1, <2>2
  <2>6. \A i \in DOMAIN out' : /\ i \in Nat
                               /\ \/ i \in DOMAIN out /\ out'[i] = out[i]
                                  \/ i = Len(out) + 1 /\ out'[i] = m
    BY <2>4, <2>5
  <2>7. m.part = "ok" => k > 0 /\ 1 \in Gets /\ m.req = inq[1].req
    BY <1>0, <2>1 DEF Follows, Gets
  <2> QED BY <2>6, <2>7 DEF Oks
<1> QED BY <1>1, <1>2 DEF Serves

\* A step of the server that serves keeps the invariant.
LEMMA ServerStep ==
  ASSUME Inv, UNCHANGED <<lab, clientVars>>, NEW k \in Nat, Serves(k), ServerTyped'
  PROVE  Inv'
<1> USE DEF clientVars
<1>1. TypeOK'
  BY DEF Inv, TypeOK, Serves, ServerTyped, Line, Answer
<1>2. /\ \A j \in DOMAIN inq' : /\ j \in Nat /\ j + k \in DOMAIN inq
                                /\ inq'[j] = inq[j + k]
      /\ \A j \in Gets' : j \in Nat /\ j + k \in Gets /\ inq'[j] = inq[j + k]
  BY LinesLeft DEF Serves
<1>3. \A i \in Oks' :
        /\ i \in Nat
        /\ \/ i \in Oks /\ out'[i] = out[i]
           \/ /\ i = Len(out) + 1 /\ k > 0 /\ 1 \in Gets
              /\ out'[i].req = inq[1].req
  BY AnswersLeft
<1>4. /\ \A j \in Gets : j \in Nat /\ j > 0
      /\ \A i \in Oks : i \in Nat /\ i <= Len(out)
      /\ Len(out) \in Nat
  BY DEF Inv, TypeOK, Gets, Oks
<1>5. Numbered'
  BY <1>2 DEF Inv, Numbered, Expects
<1>6. Increasing'
  <2>1. \A i, j \in Gets' : i < j => inq'[i].req < inq'[j].req
    BY <1>2 DEF Inv, Increasing
  <2>2. \A i, j \in Oks' : i < j => out'[i].req < out'[j].req
    BY <1>3, <1>4 DEF Inv, Increasing
  <2>3. \A i \in Oks', j \in Gets' : out'[i].req < inq'[j].req
    <3> SUFFICES ASSUME NEW i \in Oks', NEW j \in Gets'
                 PROVE  out'[i].req < inq'[j].req
      OBVIOUS
    <3>1. CASE i \in Oks /\ out'[i] = out[i]
      BY <1>2, <3>1 DEF Inv, Increasing
    <3>2. CASE k > 0 /\ 1 \in Gets /\ out'[i].req = inq[1].req
      <4>1. j \in Nat /\ j > 0
        BY <1>1 DEF TypeOK, Gets
      <4>2. 1 < j + k BY <4>1, <3>2
      <4> QED BY <1>2, <3>2, <4>2 DEF Inv, Increasing
    <3> QED BY <1>3, <3>1, <3>2
  <2> QED BY <2>1, <2>2, <2>3 DEF Increasing
<1>7. Behind'
  <2>1. \A s \in DOMAIN stored : /\ \A i \in Oks' : stored[s].of < out'[i].req
                                 /\ \A j \in Gets' : stored[s].of < inq'[j].req
    BY <1>2, <1>3 DEF Inv, Behind
  <2>2. Expects => /\ \A i \in Oks' : taking < out'[i].req
                   /\ \A j \in Gets' : taking < inq'[j].req
                   /\ \A s \in DOMAIN stored : stored[s].of < taking
    BY <1>2, <1>3 DEF Inv, Behind
  <2>3. Expects' <=> Expects BY DEF Expects
  <2> QED BY <2>1, <2>2, <2>3 DEF Behind
<1>8. Unstored' /\ Order'
  BY DEF Inv, Unstored, Order, Busy
<1> QED BY <1>1, <1>5, <1>6, <1>7, <1>8 DEF Inv

\* A beginning, as a reset leaves one.
LEMMA PartCut ==
  ASSUME NEW S, NEW s \in Seq(S), NEW t \in {SubSeq(s, 1, n) : n \in 0..Len(s)}
  PROVE  t \in Seq(S) /\ Part(s, t, 0)
BY PartFirst

\* A line is taken: the first.
LEMMA Taken ==
  ASSUME Inv, NEW l, NextLine(l)
  PROVE  /\ inq # <<>> /\ l = inq[1] /\ inq' \in Seq(Line) /\ Part(inq, inq', 1)
         /\ IF l.line = "quit" THEN lab \in {"2.3", "3.4"}
            ELSE l.req \in 1..Len(names)
<1>1. inq \in Seq(Line) /\ inq # <<>> /\ l = inq[1] /\ inq' = Tail(inq)
  BY DEF Inv, TypeOK, Line, NextLine
<1>2. inq' \in Seq(Line) /\ Part(inq, inq', 1)
  BY <1>1, PartTail
<1>3. l \in Line /\ 1 \in DOMAIN inq
  BY <1>1
<1>4. IF l.line = "quit" THEN lab \in {"2.3", "3.4"} ELSE l.req \in 1..Len(names)
  BY <1>1, <1>3 DEF Inv, TypeOK, Numbered, Line
<1> QED BY <1>1, <1>2, <1>4

\* +OK answers the line that is taken.
LEMMA BeginServes ==
  ASSUME Inv, UNCHANGED names, NEW k \in Nat, k > 0, inq # <<>>,
         inq' \in Seq(Line), Part(inq, inq', k),
         NEW r, r = inq[1].req, inq[1].line = "get",
         server' \in {"sizing", "sending"}, job' = r, UNCHANGED <<failed, net>>,
         out' = Append(out, [req |-> r, part |-> "ok"])
  PROVE  Serves(k) /\ ServerTyped'
<1>10. inq \in Seq(Line)
  BY DEF Inv, TypeOK, Line
<1>0. 1 \in DOMAIN inq /\ inq[1] \in Line
  BY <1>10
<1>1. r \in 1..Len(names)
  <2>1. r > 0 BY <1>0 DEF Inv, Numbered
  <2>2. r \in 0..Len(names) BY <1>0 DEF Line
  <2> QED BY <2>1, <2>2
<1>2. PICK m : m = [req |-> r, part |-> "ok"] OBVIOUS
<1>3. m \in Answer /\ m.part = "ok" /\ m.req = r
  BY <1>1, <1>2 DEF Answer, Parts
<1>4. out \in Seq(Answer) BY DEF Inv, TypeOK, Answer
<1>5. out' = Append(out, m) /\ out' \in Seq(Answer)
  BY <1>2, <1>3, <1>4
<1>6. Part(Append(out, m), out', 0)
  BY <1>5, PartSelf
<1>7. Follows(m, k) BY <1>3 DEF Follows
<1>8. ServerTyped' BY <1>1 DEF Inv, TypeOK, ServerTyped
<1> QED BY <1>3, <1>5, <1>6, <1>7, <1>8 DEF Serves

\* An error, a size or a content answers a request.
LEMMA SaysServes ==
  ASSUME Inv, NEW k \in Nat, inq' \in Seq(Line), Part(inq, inq', k),
         NEW r \in 1..Len(names), NEW p \in {"err", "size", "content"},
         out' = Append(out, [req |-> r, part |-> p])
  PROVE  Serves(k)
<1>1. PICK m : m = [req |-> r, part |-> p] OBVIOUS
<1>2. m \in Answer /\ m.part # "ok"
  BY <1>1 DEF Answer, Parts
<1>3. out \in Seq(Answer) BY DEF Inv, TypeOK, Answer
<1>4. out' = Append(out, m) /\ out' \in Seq(Answer)
  BY <1>1, <1>2, <1>3
<1>5. Part(Append(out, m), out', 0)
  BY <1>4, PartSelf
<1>6. Follows(m, k) BY <1>2 DEF Follows
<1> QED BY <1>2, <1>4, <1>5, <1>6 DEF Serves

\* Nothing is said.
LEMMA SilentServes ==
  ASSUME Inv, NEW k \in Nat, inq' \in Seq(Line), Part(inq, inq', k), UNCHANGED out
  PROVE  Serves(k)
<1>1. out \in Seq(Answer) BY DEF Inv, TypeOK, Answer
<1> QED BY <1>1, PartSelf DEF Serves

\* The connection is closed.
LEMMA ClosesServes ==
  ASSUME Inv, NEW k \in Nat, inq' \in Seq(Line), Part(inq, inq', k),
         NEW next \in Gone, Closes(out, next), failed' \in BOOLEAN, UNCHANGED names
  PROVE  Serves(k) /\ ServerTyped'
<1>1. out \in Seq(Answer) BY DEF Inv, TypeOK, Answer
<1>2. out' = out \/ out' \in {SubSeq(out, 1, n) : n \in 0..Len(out)}
  BY DEF Closes
<1>3. out' \in Seq(Answer) /\ Part(out, out', 0)
  BY <1>1, <1>2, PartSelf, PartCut
<1>4. ServerTyped'
  BY DEF Inv, TypeOK, Closes, ServerTyped, NetStates, Gone
<1> QED BY <1>3, <1>4 DEF Serves

\* The connection is closed after an error.
LEMMA ErrorCloses ==
  ASSUME Inv, NEW k \in Nat, inq' \in Seq(Line), Part(inq, inq', k),
         NEW r \in 1..Len(names),
         NEW next \in Gone, Closes(Append(out, [req |-> r, part |-> "err"]), next),
         UNCHANGED <<failed, names>>
  PROVE  Serves(k) /\ ServerTyped'
<1>1. PICK m : m = [req |-> r, part |-> "err"] OBVIOUS
<1>2. m \in Answer /\ m.part # "ok"
  BY <1>1 DEF Answer, Parts
<1>3. out \in Seq(Answer) BY DEF Inv, TypeOK, Answer
<1>4. PICK a : a = Append(out, m) OBVIOUS
<1>5. a \in Seq(Answer) BY <1>2, <1>3, <1>4
<1>6. out' = a \/ out' \in {SubSeq(a, 1, n) : n \in 0..Len(a)}
  BY <1>1, <1>4 DEF Closes
<1>7. out' \in Seq(Answer) /\ Part(a, out', 0)
  BY <1>5, <1>6, PartSelf, PartCut
<1>8. Follows(m, k) BY <1>2 DEF Follows
<1>9. ServerTyped'
  BY DEF Inv, TypeOK, Closes, ServerTyped, NetStates, Gone
<1> QED BY <1>2, <1>4, <1>7, <1>8, <1>9 DEF Serves

\* A command of a line-based server: +OK, an error, an error and the end of the
\* connection, its end alone, or nothing.
LEMMA LineStep ==
  ASSUME Inv, UNCHANGED <<lab, clientVars>>, server = "reading", NEW l, NextLine(l),
         NEW gone \in Gone,
         \/ l.line = "get" /\ Begin(l.req)
         \/ /\ l.line # "quit"
            /\ \E next \in {"reading", "done"} : Refuse(l.req, next)
         \/ l.line # "quit" /\ Closes(Says(l.req, "err"), gone) /\ UNCHANGED failed
         \/ GiveUp(gone)
         \/ Closes(out, gone) /\ UNCHANGED failed
         \/ server' \in {"reading", "done"} /\ UNCHANGED <<job, failed, net, out>>
  PROVE  Inv'
<1>1. /\ inq # <<>> /\ l = inq[1] /\ inq' \in Seq(Line) /\ Part(inq, inq', 1)
      /\ l.line # "quit" => l.req \in 1..Len(names)
  BY Taken
<1>2. UNCHANGED names BY DEF clientVars
<1>3. CASE l.line = "get" /\ Begin(l.req)
  <2>1. Serves(1) /\ ServerTyped'
    BY <1>1, <1>2, <1>3, BeginServes DEF Begin, Says
  <2> QED BY <2>1, ServerStep
<1>4. CASE l.line # "quit" /\ \E next \in {"reading", "done"} : Refuse(l.req, next)
  <2>1. Serves(1)
    BY <1>1, <1>4, SaysServes DEF Refuse, Says
  <2>2. ServerTyped'
    BY <1>2, <1>4 DEF Inv, TypeOK, Refuse, ServerTyped
  <2> QED BY <2>1, <2>2, ServerStep
<1>5. CASE l.line # "quit" /\ Closes(Says(l.req, "err"), gone) /\ UNCHANGED failed
  <2>1. Serves(1) /\ ServerTyped'
    BY <1>1, <1>2, <1>5, ErrorCloses DEF Says
  <2> QED BY <2>1, ServerStep
<1>6. CASE GiveUp(gone) \/ (Closes(out, gone) /\ UNCHANGED failed)
  <2>1. Closes(out, gone) /\ failed' \in BOOLEAN
    BY <1>6 DEF GiveUp, Inv, TypeOK
  <2>2. Serves(1) /\ ServerTyped'
    BY <1>1, <1>2, <2>1, ClosesServes
  <2> QED BY <2>2, ServerStep
<1>7. CASE server' \in {"reading", "done"} /\ UNCHANGED <<job, failed, net, out>>
  <2>1. Serves(1) BY <1>1, <1>7, SilentServes
  <2>2. ServerTyped'
    BY <1>2, <1>7 DEF Inv, TypeOK, ServerTyped
  <2> QED BY <2>1, <2>2, ServerStep
<1> QED BY <1>3, <1>4, <1>5, <1>6, <1>7

\* Command23 keeps it.
LEMMA Command23Inv ==
  ASSUME Inv, NEW l, Command23(l)
  PROVE  Inv'
BY LineStep DEF Command23, Gone

\* Command31 keeps it.
LEMMA Command31Inv ==
  ASSUME Inv, NEW l, Command31(l)
  PROVE  Inv'
<1>1. \/ l.line = "get" /\ Begin(l.req)
      \/ GiveUp("dead")
      \/ l.line = "blank" /\ Closes(Says(l.req, "err"), "spinning") /\ UNCHANGED failed
  BY DEF Command31
<1>2. /\ UNCHANGED <<lab, clientVars>> /\ server = "reading" /\ NextLine(l)
      /\ "dead" \in Gone /\ "spinning" \in Gone
  BY DEF Command31, Gone
<1>3. CASE l.line = "get" /\ Begin(l.req) BY <1>2, <1>3, LineStep
<1>4. CASE GiveUp("dead") BY <1>2, <1>4, LineStep
<1>5. CASE l.line = "blank" /\ Closes(Says(l.req, "err"), "spinning") /\ UNCHANGED failed
  BY <1>2, <1>5, LineStep
<1> QED BY <1>1, <1>3, <1>4, <1>5

\* Command33 keeps it.
LEMMA Command33Inv ==
  ASSUME Inv, NEW l, Command33(l)
  PROVE  Inv'
BY LineStep DEF Command33, Gone

\* Command33t keeps it.
LEMMA Command33tInv ==
  ASSUME Inv, NEW l, Command33t(l)
  PROVE  Inv'
BY LineStep DEF Command33t, serverVars, Gone

\* CommandOld keeps it: no client of "old" says QUIT.
LEMMA CommandOldInv ==
  ASSUME Inv, NEW l, CommandOld(l)
  PROVE  Inv'
<1>1. l.line # "quit"
  BY Taken DEF CommandOld
<1> QED BY <1>1, LineStep DEF CommandOld, Gone

\* Any rest of the stream of messages, without the first of them.
LEMMA RestsServe ==
  ASSUME Inv, inq # <<>>, inq' \in Rests(inq, 1)
  PROVE  \E k \in Nat : k > 0 /\ inq' \in Seq(Line) /\ Part(inq, inq', k)
<1>1. inq \in Seq(Line) BY DEF Inv, TypeOK, Line
<1>2. PICK n \in 1..Len(inq) : inq' = SubSeq(inq, n + 1, Len(inq))
  BY DEF Rests
<1>3. n \in 0..Len(inq) /\ n \in Nat /\ n > 0 BY <1>1, <1>2
<1>4. inq' \in Seq(Line) /\ Part(inq, inq', n)
  BY <1>1, <1>2, <1>3, PartLast
<1> QED BY <1>3, <1>4

\* Command34 keeps it.
LEMMA Command34Inv ==
  ASSUME Inv, Command34
  PROVE  Inv'
<1>1. PICK k \in Nat : k > 0 /\ inq' \in Seq(Line) /\ Part(inq, inq', k)
  BY RestsServe DEF Command34
<1>2. inq \in Seq(Line) /\ inq # <<>>
  BY DEF Inv, TypeOK, Line, Command34
<1>3. PICK l : l = inq[1] OBVIOUS
<1>4. /\ 1 \in DOMAIN inq /\ l = Head(inq) /\ l \in Line
  BY <1>2, <1>3
<1>5. UNCHANGED <<lab, clientVars>> /\ UNCHANGED names
  BY DEF Command34, clientVars
<1>6. \/ l.line = "get" /\ Begin(l.req)
      \/ l.line = "get" /\ Refuse(l.req, "reading")
      \/ GiveUp("closed")
      \/ Closes(out, "closed") /\ UNCHANGED failed
  BY <1>4 DEF Command34
<1>7. CASE l.line = "get" /\ Begin(l.req)
  <2>1. Serves(k) /\ ServerTyped'
    BY <1>1, <1>2, <1>3, <1>5, <1>7, BeginServes DEF Begin, Says
  <2> QED BY <2>1, <1>5, ServerStep
<1>8. CASE l.line = "get" /\ Refuse(l.req, "reading")
  <2>1. l.req > 0 BY <1>3, <1>4, <1>8 DEF Inv, Numbered
  <2>2. l.req \in 1..Len(names) BY <1>4, <2>1 DEF Line
  <2>3. Serves(k)
    BY <1>1, <1>8, <2>2, SaysServes DEF Refuse, Says
  <2>4. ServerTyped'
    BY <1>5, <1>8 DEF Inv, TypeOK, Refuse, ServerTyped, Command34
  <2> QED BY <2>3, <2>4, <1>5, ServerStep
<1>9. CASE GiveUp("closed") \/ (Closes(out, "closed") /\ UNCHANGED failed)
  <2>1. Closes(out, "closed") /\ failed' \in BOOLEAN
    BY <1>9 DEF GiveUp, Inv, TypeOK
  <2>2. Serves(k) /\ ServerTyped'
    BY <1>1, <1>5, <2>1, ClosesServes DEF Gone
  <2> QED BY <2>2, <1>5, ServerStep
<1> QED BY <1>6, <1>7, <1>8, <1>9

\* The steps that take no line keep it: SendSize and Send, ...
LEMMA SendInv ==
  ASSUME Inv, SendSize \/ Send
  PROVE  Inv'
<1>1. inq \in Seq(Line) BY DEF Inv, TypeOK, Line
<1>2. inq' \in Seq(Line) /\ Part(inq, inq', 0)
  BY <1>1, PartSelf DEF SendSize, Send
<1>3. job \in 1..Len(names)
  BY DEF Inv, TypeOK, SendSize, Send
<1>4. Serves(0)
  BY <1>2, <1>3, SaysServes, SilentServes DEF SendSize, Send, Says
<1>5. UNCHANGED <<lab, clientVars>> BY DEF SendSize, Send
<1>6. ServerTyped'
  BY <1>5 DEF Inv, TypeOK, SendSize, Send, ServerTyped, clientVars
<1> QED BY <1>4, <1>5, <1>6, ServerStep

\* ... those that say nothing, ...
LEMMA SilentInv ==
  ASSUME Inv, Accept \/ Accept34 \/ ServerEnd \/ ResetArrives
  PROVE  Inv'
<1>1. inq \in Seq(Line) BY DEF Inv, TypeOK, Line
<1>2. UNCHANGED <<lab, clientVars, inq, out>>
  BY DEF Accept, Accept34, Accepts, ServerEnd, ResetArrives, netVars
<1>3. inq' \in Seq(Line) /\ Part(inq, inq', 0)
  BY <1>1, <1>2, PartSelf
<1>4. Serves(0)
  BY <1>2, <1>3, SilentServes
<1>5. ServerTyped'
  BY <1>2 DEF Inv, TypeOK, Accept, Accept34, Accepts, ServerEnd, ResetArrives,
              ServerTyped, netVars, serverVars, clientVars, NetStates, Gone
<1> QED BY <1>2, <1>4, <1>5, ServerStep

\* ... and those that close the connection.
LEMMA FailInv ==
  ASSUME Inv, Idle33t \/ ServerDies
  PROVE  Inv'
<1>1. inq \in Seq(Line) BY DEF Inv, TypeOK, Line
<1>2. PICK next \in Gone : UNCHANGED <<lab, clientVars, inq>> /\ Closes(out, next)
                           /\ failed' \in BOOLEAN
  BY DEF Idle33t, ServerDies, GiveUp, Gone
<1>3. inq' \in Seq(Line) /\ Part(inq, inq', 0)
  BY <1>1, <1>2, PartSelf
<1>4. Serves(0) /\ ServerTyped'
  BY <1>2, <1>3, ClosesServes DEF clientVars
<1> QED BY <1>2, <1>4, ServerStep

-----------------------------------------------------------------------------
(* The steps of the client that write nothing. *)

Clients == {"typing", "waiting", "sizing", "reading", "guessing", "ended"}

\* It takes k parts of answers.
Reads(k) ==
  /\ UNCHANGED <<lab, names, inq, serverVars>>
  /\ late' \in BOOLEAN /\ torn' \in BOOLEAN /\ net' \in NetStates
  /\ out' \in Seq(Answer) /\ Part(out, out', k)

\* The answers left.
LEMMA AnswersRead ==
  ASSUME Inv, NEW k \in Nat, Reads(k)
  PROVE  \A i \in Oks' : i \in Nat /\ i > 0 /\ i + k \in Oks /\ out'[i] = out[i + k]
<1>1. out \in Seq(Answer) /\ out' \in Seq(Answer)
  BY DEF Inv, TypeOK, Answer, Reads
<1>2. \A i \in DOMAIN out' : i \in Nat /\ i + k \in DOMAIN out /\ out'[i] = out[i + k]
  BY <1>1, PartElement DEF Reads
<1>3. \A i \in DOMAIN out' : i > 0 BY <1>1
<1> QED BY <1>2, <1>3 DEF Oks

\* The lines stay.
LEMMA LinesStay ==
  ASSUME NEW k, Reads(k)
  PROVE  Gets' = Gets /\ inq' = inq
BY DEF Reads, Gets

\* Their order is kept.
LEMMA ReadsIncreasing ==
  ASSUME Inv, NEW k \in Nat, Reads(k)
  PROVE  Increasing'
<1>1. \A i \in Oks' : i \in Nat /\ i > 0 /\ i + k \in Oks /\ out'[i] = out[i + k]
  BY AnswersRead
<1>2. Gets' = Gets /\ inq' = inq
  BY LinesStay
<1>3. \A i, j \in Oks' : i < j => out'[i].req < out'[j].req
  BY <1>1 DEF Inv, Increasing
<1>4. \A i \in Oks', j \in Gets : out'[i].req < inq[j].req
  BY <1>1 DEF Inv, Increasing
<1> QED BY <1>2, <1>3, <1>4 DEF Inv, Increasing

\* The client stores nothing.
LEMMA QuietStep ==
  ASSUME Inv, NEW k \in Nat, Reads(k), UNCHANGED <<taking, stored>>,
         client' \in Clients, Busy' => Busy, Expects' => Expects,
         client' \in {"sizing", "reading"} => ~torn'
  PROVE  Inv'
<1>1. \A i \in Oks' : i \in Nat /\ i > 0 /\ i + k \in Oks /\ out'[i] = out[i + k]
  BY AnswersRead
<1>2. Gets' = Gets /\ inq' = inq
  BY LinesStay
<1>3. TypeOK'
  BY DEF Inv, TypeOK, Reads, Answer, serverVars, Clients
<1>4. Numbered'
  BY DEF Inv, Numbered, Reads
<1>5. Increasing' BY ReadsIncreasing
<1>6. Behind'
  BY <1>1, <1>2 DEF Inv, Behind
<1>7. Unstored' /\ Order'
  BY DEF Inv, Unstored, Order, Reads
<1> QED BY <1>3, <1>4, <1>5, <1>6, <1>7 DEF Inv

\* +OK is read, and the content follows.
LEMMA OkStep ==
  ASSUME Inv, NEW k \in Nat, k > 0, Reads(k), UNCHANGED stored, client = "waiting",
         out # <<>>, out[1].part = "ok", client' = "sizing", taking' = out[1].req,
         ~torn'
  PROVE  Inv'
<1>1. \A i \in Oks' : i \in Nat /\ i > 0 /\ i + k \in Oks /\ out'[i] = out[i + k]
  BY AnswersRead
<1>2. Gets' = Gets /\ inq' = inq
  BY LinesStay
<1>3. out \in Seq(Answer) BY DEF Inv, TypeOK, Answer
<1>4. 1 \in Oks /\ out[1] \in Answer BY <1>3 DEF Oks
<1>5. taking' \in 1..Len(names) BY <1>4 DEF Answer
<1>6. TypeOK'
  BY <1>5 DEF Inv, TypeOK, Reads, Answer, serverVars
<1>7. Numbered'
  BY <1>5 DEF Inv, Numbered, Reads
<1>8. Increasing' BY ReadsIncreasing
<1>9. \A i \in Oks' : i + k > 1 BY <1>1
<1>10. Behind'
  BY <1>1, <1>2, <1>4, <1>9 DEF Inv, Behind, Increasing
<1>11. Unstored' /\ Order'
  BY DEF Inv, Unstored, Order, Reads, Busy
<1> QED BY <1>6, <1>7, <1>8, <1>10, <1>11 DEF Inv

\* A file is stored: its request is after those of the files stored before,
\* and before those of the answers and lines on their way.
LEMMA StoreStep ==
  ASSUME Inv, NEW k \in Nat, Reads(k), UNCHANGED taking, client' = "typing",
         Busy,
         NEW r \in 1..Len(names), NEW w \in BOOLEAN,
         stored' = Append(stored, [asked |-> Len(names), of |-> r, whole |-> w]),
         \A s \in DOMAIN stored : stored[s].of < r,
         \A i \in Oks' : r < out'[i].req, \A j \in Gets : r < inq[j].req
  PROVE  Inv'
<1>1. \A i \in Oks' : i \in Nat /\ i > 0 /\ i + k \in Oks /\ out'[i] = out[i + k]
  BY AnswersRead
<1>2. Gets' = Gets /\ inq' = inq
  BY LinesStay
<1>3. PICK S, f : /\ S = [asked : 1..Len(names), of : 1..Len(names), whole : BOOLEAN]
                  /\ f = [asked |-> Len(names), of |-> r, whole |-> w]
  OBVIOUS
<1>4. stored \in Seq(S) /\ names \in Seq(Names)
  BY <1>3 DEF Inv, TypeOK
<1>5. Len(names) \in 1..Len(names) BY <1>4
<1>6. f \in S /\ f.asked = Len(names) /\ f.of = r
  BY <1>3, <1>5
<1>7. stored' \in Seq(S) /\ \A s \in DOMAIN stored' :
                              \/ s \in DOMAIN stored /\ stored'[s] = stored[s]
                              \/ s = Len(stored) + 1 /\ stored'[s] = f
  BY <1>3, <1>4, <1>6
<1>8. TypeOK'
  BY <1>3, <1>7 DEF Inv, TypeOK, Reads, Answer, serverVars
<1>9. Numbered'
  BY DEF Inv, Numbered, Reads, Expects
<1>10. Increasing' BY ReadsIncreasing
<1>11. Behind'
  <2>1. \A s \in DOMAIN stored' : /\ \A i \in Oks' : stored'[s].of < out'[i].req
                                  /\ \A j \in Gets : stored'[s].of < inq[j].req
    <3> SUFFICES ASSUME NEW s \in DOMAIN stored'
                 PROVE  /\ \A i \in Oks' : stored'[s].of < out'[i].req
                        /\ \A j \in Gets : stored'[s].of < inq[j].req
      OBVIOUS
    <3>1. CASE s \in DOMAIN stored /\ stored'[s] = stored[s]
      BY <1>1, <3>1 DEF Inv, Behind
    <3>2. CASE stored'[s] = f
      BY <1>6, <3>2
    <3> QED BY <1>7, <3>1, <3>2
  <2> QED BY <2>1, <1>2 DEF Behind, Expects
<1>12. Unstored' BY DEF Unstored, Busy
<1>13. Order'
  <2> SUFFICES ASSUME NEW i \in DOMAIN stored', NEW j \in DOMAIN stored'
               PROVE  /\ stored'[i].of <= stored'[i].asked
                      /\ i < j => /\ stored'[i].of < stored'[j].of
                                  /\ stored'[i].asked < stored'[j].asked
    BY DEF Order
  <2>1. \A s \in DOMAIN stored : s \in Nat /\ s <= Len(stored) /\ Len(stored) \in Nat
    BY <1>4
  <2>2. \A s \in DOMAIN stored : stored[s].asked < Len(names)
    BY DEF Inv, Unstored
  <2>3. r <= Len(names) BY <1>4
  <2>4. CASE i \in DOMAIN stored /\ stored'[i] = stored[i]
    <3>1. CASE j \in DOMAIN stored /\ stored'[j] = stored[j]
      BY <2>4, <3>1 DEF Inv, Order
    <3>2. CASE stored'[j] = f
      BY <1>6, <2>2, <2>4, <3>2 DEF Inv, Order
    <3> QED BY <1>7, <3>1, <3>2
  <2>5. CASE i = Len(stored) + 1 /\ stored'[i] = f
    <3>1. ~(i < j)
      <4>1. j \in DOMAIN stored \/ j = Len(stored) + 1 BY <1>7
      <4>2. Len(stored) \in Nat BY <1>4
      <4> QED BY <2>1, <2>5, <4>1, <4>2
    <3> QED BY <1>6, <2>3, <2>5, <3>1
  <2> QED BY <1>7, <2>4, <2>5
<1> QED BY <1>8, <1>9, <1>10, <1>11, <1>12, <1>13 DEF Inv

\* What is left of a stream of messages.
LEMMA RestsRead ==
  ASSUME NEW S, NEW s \in Seq(S), NEW k \in Nat, NEW t \in Rests(s, k)
  PROVE  \E n \in Nat : n >= k /\ t \in Seq(S) /\ Part(s, t, n)
<1>1. PICK n \in k..Len(s) : t = SubSeq(s, n + 1, Len(s))
  BY DEF Rests
<1>2. n \in 0..Len(s) /\ n \in Nat /\ n >= k BY <1>1
<1> QED BY <1>1, <1>2, PartLast

\* The steps that take nothing and store nothing keep it.
LEMMA GoesOnInv ==
  ASSUME Inv, TimeOut \/ ClientDies \/ ReadNoAnswer \/ ReadPartOfSize \/ ReadNoSize
  PROVE  Inv'
<1>1. out \in Seq(Answer) BY DEF Inv, TypeOK, Answer
<1>2. out' = out /\ UNCHANGED <<lab, names, inq, serverVars, taking, stored>>
  BY DEF TimeOut, ClientDies, ReadNoAnswer, ReadPartOfSize, ReadNoSize, netVars
<1>3. late' \in BOOLEAN /\ torn' \in BOOLEAN /\ net' \in NetStates
  BY DEF TimeOut, ClientDies, ReadNoAnswer, ReadPartOfSize, ReadNoSize, netVars, Inv,
         TypeOK, AfterRead, NetStates
<1>4. Reads(0)
  BY <1>1, <1>2, <1>3, PartSelf DEF Reads
<1>5. /\ client' \in {"typing", "ended", "guessing"}
      /\ client' = "guessing" => client = "sizing"
  BY DEF TimeOut, ClientDies, ReadNoAnswer, ReadPartOfSize, ReadNoSize
<1>6. client' \in Clients /\ (Busy' => Busy) /\ (Expects' => Expects)
  BY <1>5 DEF Clients, Busy, Expects
<1> QED BY <1>2, <1>4, <1>5, <1>6, QuietStep

\* ReadAnswer keeps it.
LEMMA ReadAnswerInv ==
  ASSUME Inv, ReadAnswer
  PROVE  Inv'
<1>1. out \in Seq(Answer) /\ out # <<>>
  BY DEF Inv, TypeOK, Answer, ReadAnswer
<1>2. /\ UNCHANGED <<lab, names, inq, serverVars, stored>>
      /\ late' \in BOOLEAN /\ torn' \in BOOLEAN /\ net' \in NetStates
      /\ out' = Tail(out) /\ ~torn'
  BY DEF ReadAnswer, Inv, TypeOK
<1>3. Reads(1)
  BY <1>1, <1>2, PartTail DEF Reads
<1>4. CASE Head(out).part = "ok"
  <2>1. out[1].part = "ok" /\ client = "waiting" /\ client' = "sizing"
        /\ taking' = out[1].req
    BY <1>1, <1>4 DEF ReadAnswer
  <2> QED BY <1>1, <1>2, <1>3, <2>1, OkStep
<1>5. CASE Head(out).part # "ok"
  <2>1. client' = "typing" /\ UNCHANGED taking
    BY <1>5 DEF ReadAnswer
  <2> QED BY <1>2, <1>3, <2>1, QuietStep DEF Clients, Busy, Expects
<1> QED BY <1>4, <1>5

\* The file of the request whose content the client expects is stored.
LEMMA TakenStored ==
  ASSUME Inv, NEW k \in Nat, Reads(k), UNCHANGED taking, client' = "typing", Expects,
         NEW w \in BOOLEAN, Stored(taking, w)
  PROVE  Inv'
<1>1. taking \in 1..Len(names)
  BY DEF Inv, TypeOK, Numbered
<1>2. stored' = Append(stored, [asked |-> Len(names), of |-> taking, whole |-> w])
  BY DEF Stored
<1>3. \A i \in Oks' : i \in Nat /\ i > 0 /\ i + k \in Oks /\ out'[i] = out[i + k]
  BY AnswersRead
<1>4. /\ \A s \in DOMAIN stored : stored[s].of < taking
      /\ \A i \in Oks' : taking < out'[i].req
      /\ \A j \in Gets : taking < inq[j].req
  BY <1>3 DEF Inv, Behind
<1>5. Busy BY DEF Expects, Busy
<1> QED BY <1>1, <1>2, <1>4, <1>5, StoreStep

\* ReadSize keeps it.
LEMMA ReadSizeInv ==
  ASSUME Inv, ReadSize
  PROVE  Inv'
<1>1. out \in Seq(Answer) /\ out # <<>>
  BY DEF Inv, TypeOK, Answer, ReadSize
<1>2. Reads(1)
  BY <1>1, PartTail DEF Reads, ReadSize, Inv, TypeOK
<1>3. UNCHANGED taking /\ client = "sizing" /\ Expects
  BY DEF ReadSize, Expects
<1>4. CASE client' = "typing" /\ Stored(taking, TRUE)
  BY <1>2, <1>3, <1>4, TakenStored
<1>5. CASE client' \in {"typing", "reading"} /\ UNCHANGED stored
           /\ (client' = "reading" => UNCHANGED torn)
  <2>1. client' \in {"sizing", "reading"} => ~torn'
    BY <1>3, <1>5 DEF Inv, Numbered
  <2>2. client' \in Clients /\ (Busy' => Busy) /\ (Expects' => Expects)
    BY <1>3, <1>5 DEF Clients, Busy
  <2> QED BY <1>2, <1>3, <1>5, <2>1, <2>2, QuietStep
<1> QED BY <1>4, <1>5 DEF ReadSize

\* ReadContent keeps it.
LEMMA ReadContentInv ==
  ASSUME Inv, ReadContent
  PROVE  Inv'
<1>1. out \in Seq(Answer) /\ out # <<>>
  BY DEF Inv, TypeOK, Answer, ReadContent
<1>2. Reads(1)
  BY <1>1, PartTail DEF Reads, ReadContent, Inv, TypeOK
<1>3. UNCHANGED <<taking, torn>> /\ client = "reading" /\ Expects
  BY DEF ReadContent, Expects
<1>4. CASE Head(out).part = "content"
  <2>1. PICK w \in BOOLEAN :
          w = (Head(out).req = taking /\ names[taking] # "directory")
    OBVIOUS
  <2>2. client' = "typing" /\ Stored(taking, w)
    BY <1>4, <2>1 DEF ReadContent
  <2> QED BY <1>2, <1>3, <2>2, TakenStored
<1>5. CASE Head(out).part # "content"
  <2>1. UNCHANGED <<client, stored>>
    BY <1>5 DEF ReadContent
  <2>2. client' \in {"sizing", "reading"} => ~torn'
    BY <1>3, <2>1 DEF Inv, Numbered
  <2>3. client' \in Clients /\ (Busy' => Busy) /\ (Expects' => Expects)
    BY <1>3, <2>1 DEF Clients, Busy
  <2> QED BY <1>2, <1>3, <2>1, <2>2, <2>3, QuietStep
<1> QED BY <1>4, <1>5

\* ReadNoContent keeps it.
LEMMA ReadNoContentInv ==
  ASSUME Inv, ReadNoContent
  PROVE  Inv'
<1>1. out \in Seq(Answer) BY DEF Inv, TypeOK, Answer
<1>2. net' \in NetStates
  BY DEF ReadNoContent, AfterRead, Inv, TypeOK, NetStates
<1>3. Reads(0)
  BY <1>1, <1>2, PartSelf DEF Reads, ReadNoContent, Inv, TypeOK
<1>4. UNCHANGED taking /\ client \in {"reading", "guessing"}
  BY DEF ReadNoContent
<1>5. CASE client' \in {"ended", "typing"} /\ UNCHANGED stored
  BY <1>3, <1>4, <1>5, QuietStep DEF Clients, Busy, Expects
<1>6. CASE client' = "typing" /\ ~torn /\ Stored(taking, FALSE)
  <2>1. Expects BY <1>4, <1>6 DEF Expects
  <2> QED BY <1>3, <1>4, <1>6, <2>1, TakenStored
<1> QED BY <1>5, <1>6 DEF ReadNoContent

\* Misread keeps it.
LEMMA MisreadInv ==
  ASSUME Inv, Misread
  PROVE  Inv'
<1>1. out \in Seq(Answer) /\ out # <<>>
  BY DEF Inv, TypeOK, Answer, Misread
<1>2. /\ UNCHANGED <<lab, names, inq, serverVars, taking, stored, torn, late, net>>
      /\ out' = out \/ out' = Tail(out)
      /\ torn /\ client' \in {"guessing", "typing"} /\ client \in {"waiting", "guessing"}
  BY DEF Misread
<1>3. Part(out, out, 0) /\ Part(out, Tail(out), 1) /\ Tail(out) \in Seq(Answer)
  BY <1>1, PartSelf, PartTail
<1>4. Reads(0) \/ Reads(1)
  BY <1>1, <1>2, <1>3 DEF Reads, Inv, TypeOK
<1>5. client' \in Clients /\ (Busy' => Busy) /\ (Expects' => Expects)
      /\ client' \notin {"sizing", "reading"}
  BY <1>2 DEF Clients, Busy, Expects
<1> QED BY <1>2, <1>4, <1>5, QuietStep

\* Message34 keeps it.
LEMMA Message34Inv ==
  ASSUME Inv, Message34
  PROVE  Inv'
<1>1. out \in Seq(Answer) BY DEF Inv, TypeOK, Answer
<1>2. /\ UNCHANGED <<lab, names, taking, inq, serverVars>> /\ client = "waiting"
      /\ late' \in BOOLEAN /\ torn' \in BOOLEAN /\ net' \in NetStates
  BY DEF Message34, AfterRead, Inv, TypeOK, NetStates
<1>3. CASE /\ out # <<>> /\ client' = "typing" /\ out' \in Rests(out, 1)
           /\ UNCHANGED stored
  <2>1. PICK k \in Nat : out' \in Seq(Answer) /\ Part(out, out', k)
    BY <1>1, <1>3, RestsRead
  <2>2. Reads(k) BY <1>2, <2>1 DEF Reads
  <2> QED BY <1>2, <1>3, <2>2, QuietStep DEF Clients, Busy, Expects
<1>4. CASE client' = "ended" /\ UNCHANGED <<stored, out>>
  <2>1. Reads(0) BY <1>1, <1>2, <1>4, PartSelf DEF Reads
  <2> QED BY <1>2, <1>4, <2>1, QuietStep DEF Clients, Busy, Expects
<1>5. CASE /\ Len(out) > 1 /\ Head(out).part = "ok" /\ out' \in Rests(out, 2)
           /\ \/ client' = "ended" /\ UNCHANGED stored
              \/ client' = "typing" /\ (Stored(Head(out).req, TRUE) \/ UNCHANGED stored)
  <2>1. PICK k \in Nat : k >= 2 /\ out' \in Seq(Answer) /\ Part(out, out', k)
    BY <1>1, <1>5, RestsRead
  <2>2. Reads(k) BY <1>2, <2>1 DEF Reads
  <2>3. CASE client' \in {"ended", "typing"} /\ UNCHANGED stored
    BY <1>2, <2>2, <2>3, QuietStep DEF Clients, Busy, Expects
  <2>4. CASE client' = "typing" /\ Stored(Head(out).req, TRUE)
    <3>1. PICK r : r = out[1].req OBVIOUS
    <3>2. Head(out) = out[1] /\ 1 \in DOMAIN out /\ out[1] \in Answer
      BY <1>1, <1>5
    <3>3. r \in 1..Len(names) /\ 1 \in Oks
      BY <1>5, <3>1, <3>2 DEF Answer, Oks
    <3>4. stored' = Append(stored, [asked |-> Len(names), of |-> r, whole |-> TRUE])
      BY <2>4, <3>1, <3>2 DEF Stored
    <3>5. \A i \in Oks' : i \in Nat /\ i > 0 /\ i + k \in Oks /\ out'[i] = out[i + k]
      BY <2>2, AnswersRead
    <3>6. \A i \in Oks' : i + k > 1 BY <2>1, <3>5
    <3>7. /\ \A s \in DOMAIN stored : stored[s].of < r
          /\ \A i \in Oks' : r < out'[i].req
          /\ \A j \in Gets : r < inq[j].req
      BY <3>1, <3>3, <3>5, <3>6 DEF Inv, Behind, Increasing
    <3>8. Busy BY <1>2 DEF Busy
    <3> QED BY <1>2, <2>2, <2>4, <3>3, <3>4, <3>7, <3>8, StoreStep
  <2> QED BY <1>5, <2>3, <2>4
<1> QED BY <1>3, <1>4, <1>5 DEF Message34

-----------------------------------------------------------------------------
(* The steps of the client that write. *)

\* The lines of a new request, one GET at most.
NewLines(r) == {q \in Seq([req : {r}, line : {"get", "blank"}]) :
                  \A i, j \in DOMAIN q : q[i].line = "get" /\ q[j].line = "get" => i = j}

\* A request is written: its number is the greatest.
LEMMA RequestStep ==
  ASSUME Inv, UNCHANGED <<lab, taking, stored, late, torn, serverVars, out>>,
         client' = "waiting", NEW n \in Names, names' = Append(names, n),
         net' \in NetStates,
         NEW r, r = Len(names) + 1, NEW q \in NewLines(r), inq' = inq \o q
  PROVE  Inv'
<1>1. names \in Seq(Names) /\ inq \in Seq(Line) /\ out \in Seq(Answer)
  BY DEF Inv, TypeOK, Line, Answer
<1>2. names' \in Seq(Names) /\ Len(names') = r /\ Len(names) \in Nat /\ r \in Nat
  BY <1>1
<1>3. Line \subseteq [req : 0..r, line : Lines] /\ Answer \subseteq [req : 1..r, part : Parts]
  BY <1>2 DEF Line, Answer
<1>4. PICK L, A, T : L = [req : 0..r, line : Lines] /\ A = [req : 1..r, part : Parts]
                     /\ T = [asked : 1..r, of : 1..r, whole : BOOLEAN]
  OBVIOUS
<1>5. PICK Q : Q = [req : {r}, line : {"get", "blank"}]
  OBVIOUS
<1>6. q \in Seq(Q) /\ Q \subseteq L
  BY <1>2, <1>4, <1>5 DEF Lines, NewLines
<1>7. q \in Seq(L) /\ inq \in Seq(L) /\ out \in Seq(A)
  <2>1. q \in Seq(L) BY <1>6, SeqWiden
  <2>2. Line \subseteq L /\ Answer \subseteq A BY <1>3, <1>4
  <2> QED BY <1>1, <2>1, <2>2, SeqWiden
<1>8. inq' \in Seq(L) BY <1>7
<1>9. stored \in Seq(T)
  <2>1. PICK S : S = [asked : 1..Len(names), of : 1..Len(names), whole : BOOLEAN]
    OBVIOUS
  <2>2. stored \in Seq(S) BY <2>1 DEF Inv, TypeOK
  <2>3. S \subseteq T BY <1>2, <1>4, <2>1
  <2> QED BY <2>2, <2>3
<1>10. taking \in 0..r /\ job \in IF server \in {"sizing", "sending"} THEN 1..r ELSE {0}
  BY <1>2 DEF Inv, TypeOK
<1>11. TypeOK'
  BY <1>2, <1>4, <1>7, <1>8, <1>9, <1>10 DEF Inv, TypeOK, serverVars
<1>12. \A i \in DOMAIN inq' :
         /\ i \in Nat
         /\ \/ i \in DOMAIN inq /\ inq'[i] = inq[i]
            \/ /\ i > Len(inq) /\ i - Len(inq) \in DOMAIN q
               /\ inq'[i] = q[i - Len(inq)]
  BY <1>7
<1>13. \A i \in DOMAIN q : q[i].req = r /\ q[i].line \in {"get", "blank"}
  <2>1. \A i \in DOMAIN q : q[i] \in Q BY <1>6, SeqWiden
  <2> QED BY <1>5, <2>1
<1>14. Numbered'
  <2>1. \A i \in DOMAIN inq' : IF inq'[i].line = "quit" THEN lab \in {"2.3", "3.4"}
                               ELSE inq'[i].req > 0
    <3> SUFFICES ASSUME NEW i \in DOMAIN inq'
                 PROVE  IF inq'[i].line = "quit" THEN lab \in {"2.3", "3.4"}
                        ELSE inq'[i].req > 0
      OBVIOUS
    <3>1. CASE i \in DOMAIN inq /\ inq'[i] = inq[i]
      BY <3>1 DEF Inv, Numbered
    <3>2. CASE i - Len(inq) \in DOMAIN q /\ inq'[i] = q[i - Len(inq)]
      <4>1. inq'[i].req = r /\ inq'[i].line # "quit" BY <1>13, <3>2
      <4>2. r > 0 BY <1>2
      <4> QED BY <4>1, <4>2
    <3> QED BY <1>12, <3>1, <3>2
  <2> QED BY <2>1 DEF Numbered, Expects
<1>15. \A j \in Gets' :
         /\ j \in Nat
         /\ \/ j \in Gets /\ j <= Len(inq) /\ inq'[j] = inq[j]
            \/ /\ j > Len(inq) /\ j - Len(inq) \in DOMAIN q
               /\ q[j - Len(inq)].line = "get" /\ inq'[j].req = r
  BY <1>7, <1>12, <1>13 DEF Gets
<1>16. \A j \in Gets : inq[j].req < r
  <2>1. \A j \in DOMAIN inq : inq[j] \in Line BY <1>1, SeqWiden
  <2>2. \A j \in Gets : inq[j].req \in 0..Len(names) BY <2>1 DEF Line, Gets
  <2> QED BY <1>2, <2>2
<1>17. \A i \in Oks : out[i].req < r
  <2>1. \A i \in DOMAIN out : out[i] \in Answer BY <1>1, SeqWiden
  <2>2. \A i \in Oks : out[i].req \in 1..Len(names) BY <2>1 DEF Answer, Oks
  <2> QED BY <1>2, <2>2
<1>18. \A s \in DOMAIN stored : stored[s].of < r /\ stored[s].asked < r
  <2>1. PICK S : S = [asked : 1..Len(names), of : 1..Len(names), whole : BOOLEAN]
    OBVIOUS
  <2>2. stored \in Seq(S) BY <2>1 DEF Inv, TypeOK
  <2>3. \A s \in DOMAIN stored : stored[s] \in S BY <2>2
  <2> QED BY <1>2, <2>1, <2>3
<1>19. Oks' = Oks BY DEF Oks
<1>20. Increasing'
  <2>1. \A i, j \in Gets' : i < j => inq'[i].req < inq'[j].req
    <3> SUFFICES ASSUME NEW i \in Gets', NEW j \in Gets', i < j
                 PROVE  inq'[i].req < inq'[j].req
      OBVIOUS
    <3>0. Len(inq) \in Nat BY <1>1
    <3>1. CASE j \in Gets /\ j <= Len(inq) /\ inq'[j] = inq[j]
      <4>0. i \in Nat /\ j \in Nat BY <1>15
      <4>1. ~(i > Len(inq)) BY <3>0, <3>1, <4>0
      <4>2. i \in Gets /\ inq'[i] = inq[i]
        BY <1>15, <4>1
      <4> QED BY <3>1, <4>2 DEF Inv, Increasing
    <3>2. CASE /\ j > Len(inq) /\ j - Len(inq) \in DOMAIN q
               /\ q[j - Len(inq)].line = "get" /\ inq'[j].req = r
      <4>1. CASE i \in Gets /\ inq'[i] = inq[i]
        BY <1>16, <3>2, <4>1
      <4>2. CASE /\ i > Len(inq) /\ i - Len(inq) \in DOMAIN q
                 /\ q[i - Len(inq)].line = "get"
        <5>1. i - Len(inq) = j - Len(inq)
          BY <3>2, <4>2 DEF NewLines
        <5>2. i \in Nat /\ j \in Nat BY <1>15
        <5> QED BY <3>0, <5>1, <5>2
      <4> QED BY <1>15, <4>1, <4>2
    <3> QED BY <1>15, <3>1, <3>2
  <2>2. \A i \in Oks, j \in Gets' : out[i].req < inq'[j].req
    BY <1>15, <1>17 DEF Inv, Increasing
  <2> QED BY <1>19, <2>1, <2>2 DEF Inv, Increasing
<1>21. Behind'
  <2>1. \A s \in DOMAIN stored, j \in Gets' : stored[s].of < inq'[j].req
    BY <1>15, <1>18 DEF Inv, Behind
  <2> QED BY <1>19, <2>1 DEF Inv, Behind, Expects
<1>22. Unstored'
  <2>1. names' # <<>> BY <1>2
  <2>2. \A s \in DOMAIN stored' : stored'[s].asked < Len(names') BY <1>2, <1>18
  <2> QED BY <2>1, <2>2 DEF Unstored
<1>23. Order' BY DEF Inv, Order
<1> QED BY <1>11, <1>14, <1>20, <1>21, <1>22, <1>23 DEF Inv

\* The two shapes of a request, numbered.
LEMMA RequestLines ==
  ASSUME NEW r, NEW lines \in {<<"get">>, <<"get", "blank">>}
  PROVE  [i \in DOMAIN lines |-> [req |-> r, line |-> lines[i]]] \in NewLines(r)
<1>1. PICK q : q = [i \in DOMAIN lines |-> [req |-> r, line |-> lines[i]]]
  OBVIOUS
<1>2. CASE lines = <<"get">>
  <2>1. q = <<[req |-> r, line |-> "get"]>> BY <1>1, <1>2
  <2>2. q \in Seq([req : {r}, line : {"get", "blank"}]) /\ DOMAIN q = {1}
    BY <2>1
  <2> QED BY <1>1, <2>2 DEF NewLines
<1>3. CASE lines = <<"get", "blank">>
  <2>1. q = <<[req |-> r, line |-> "get"], [req |-> r, line |-> "blank"]>>
    BY <1>1, <1>3
  <2>2. q \in Seq([req : {r}, line : {"get", "blank"}]) BY <2>1
  <2>3. DOMAIN q = {1, 2} /\ q[2].line = "blank" BY <2>1
  <2> QED BY <1>1, <2>2, <2>3 DEF NewLines
<1> QED BY <1>2, <1>3

\* Request, as any of the clients makes it, keeps it.
LEMMA RequestInv ==
  ASSUME Inv, NEW n \in Names, NEW lines \in {<<"get">>, <<"get", "blank">>},
         NEW fatal, Request(n, lines, fatal)
  PROVE  Inv'
<1>1. /\ UNCHANGED <<lab, taking, stored, late, torn, serverVars, out>>
      /\ client = "typing" /\ net' \in NetStates
  BY DEF Request, AfterWrite, Inv, TypeOK, NetStates
<1>2. CASE client' = "ended" /\ UNCHANGED <<names, inq>>
  <2>1. out \in Seq(Answer) /\ late' \in BOOLEAN /\ torn' \in BOOLEAN
    BY <1>1 DEF Inv, TypeOK, Answer
  <2>2. Reads(0) BY <1>1, <1>2, <2>1, PartSelf DEF Reads
  <2> QED BY <1>1, <1>2, <2>2, QuietStep DEF Clients, Busy, Expects
<1>3. CASE /\ client' = "waiting" /\ names' = Append(names, n)
           /\ inq' = IF net # "open" THEN inq
                     ELSE inq \o [i \in DOMAIN lines |->
                                    [req |-> Len(names) + 1, line |-> lines[i]]]
  <2>1. PICK r : r = Len(names) + 1 OBVIOUS
  <2>2. CASE net # "open"
    <3>1. inq \in Seq(Line) BY DEF Inv, TypeOK, Line
    <3>2. inq' = inq \o <<>> BY <1>3, <2>2, <3>1
    <3>3. <<>> \in NewLines(r) BY DEF NewLines
    <3> QED BY <1>1, <1>3, <2>1, <3>2, <3>3, RequestStep
  <2>3. CASE net = "open"
    <3>1. PICK q : q = [i \in DOMAIN lines |-> [req |-> r, line |-> lines[i]]]
      OBVIOUS
    <3>2. q \in NewLines(r) BY <3>1, RequestLines
    <3>3. inq' = inq \o q BY <1>3, <2>1, <2>3, <3>1
    <3> QED BY <1>1, <1>3, <2>1, <3>2, <3>3, RequestStep
  <2> QED BY <2>2, <2>3
<1> QED BY <1>2, <1>3 DEF Request

\* Quit keeps it: its line asks for nothing.
LEMMA QuitInv ==
  ASSUME Inv, Quit
  PROVE  Inv'
<1>1. inq \in Seq(Line) BY DEF Inv, TypeOK, Line
<1>2. PICK l : l = [req |-> 0, line |-> "quit"] OBVIOUS
<1>3. Len(names) \in Nat BY DEF Inv, TypeOK
<1>4. l \in Line /\ l.line = "quit" BY <1>2, <1>3 DEF Line, Lines
<1>5. inq' = inq \/ inq' = Append(inq, l)
  BY <1>2 DEF Quit
<1>6. inq' \in Seq(Line)
  BY <1>1, <1>4, <1>5
<1>7. \A i \in DOMAIN inq' : \/ i \in DOMAIN inq /\ inq'[i] = inq[i]
                             \/ inq'[i] = l
  BY <1>1, <1>5
<1>8. \A i \in Gets' : i \in Gets /\ inq'[i] = inq[i]
  BY <1>4, <1>7 DEF Gets
<1>9. Oks' = Oks BY DEF Oks, Quit
<1>10. /\ UNCHANGED <<lab, names, taking, stored, late, torn, serverVars, net, out>>
       /\ client' = "ended" /\ lab \in {"2.3", "3.4"}
  BY DEF Quit
<1>11. TypeOK'
  BY <1>6, <1>10 DEF Inv, TypeOK, Line, serverVars
<1>12. Numbered'
  BY <1>4, <1>7, <1>10 DEF Inv, Numbered, Expects
<1>13. Increasing' /\ Behind'
  BY <1>8, <1>9, <1>10 DEF Inv, Increasing, Behind, Expects
<1>14. Unstored' /\ Order'
  BY <1>10 DEF Inv, Unstored, Order, Busy
<1> QED BY <1>11, <1>12, <1>13, <1>14 DEF Inv

-----------------------------------------------------------------------------
(***************************************************************************)
(* The file of each request.  The parts on their way are numbered by the   *)
(* lines they answer, one after the other from what the client has read;   *)
(* the lines left follow the last of them.                                 *)
(***************************************************************************)
\* The k-th line that a client writes asks for a file.
Asks(k) == lab \notin PairLabs \/ k % 2 = 1

LineAt(k) == [req |-> Owner(k), line |-> IF Asks(k) THEN "get" ELSE "blank"]

\* The lines of n requests.
LinesOf(n) == IF lab \in PairLabs THEN 2 * n ELSE n

\* A content is announced and not sent.
Bare(k) == lab = "3.1" /\ names[Owner(k)] = "directory"

\* What is due after a part a: a size, a content, or the line of an answer.
DueAfter(a) == IF a.part = "ok" THEN "size"
               ELSE IF a.part = "size" /\ names[a.req] # "empty" THEN "content"
               ELSE "line"

\* In the stream of answers, where d is due of answer j, part r of answer k
\* follows.
Linked(d, j, r, k) ==
  \/ d \in {"size", "content"} /\ r = d /\ k = j
  \/ d = "content" /\ Bare(j) /\ r = "err" /\ k = j + 1
  \/ d = "line" /\ r \in {"ok", "err"} /\ k = j + 1

\* The last answer of which the client has read a part; and what is due next,
\* and after the i-th of the parts on their way.
Past == IF client = "waiting" THEN Len(names) - 1 ELSE Len(names)
Due(i) == IF i > 0 THEN DueAfter(out[i])
          ELSE IF client = "sizing" THEN "size"
          ELSE IF client = "reading" THEN "content" ELSE "line"

\* u[i] is the answer that the i-th part is of.
Chain(u) ==
  /\ u \in [0..Len(out) -> Nat] /\ u[0] = Past
  /\ \A i \in 1..Len(out) : /\ out[i].req = Owner(u[i])
                            /\ Linked(Due(i - 1), u[i - 1], out[i].part, u[i])
  /\ \A i, j \in 0..Len(out) : i <= j => u[i] <= u[j]

\* The file that was announced is being sent; or it will not come.
Sending(u) ==
  LET n == Len(out) IN
  /\ server = "sizing" => Due(n) = "size" /\ job = Owner(u[n])
  /\ server = "sending" => /\ job = Owner(u[n])
                           /\ Due(n) = IF names[job] = "empty" THEN "line" ELSE "content"
  /\ server \notin {"sizing", "sending"} /\ Due(n) # "line" =>
       /\ failed \/ (Due(n) = "content" /\ names[Owner(u[n])] = "directory")
       /\ server \notin Gone => Due(n) = "content" /\ Bare(u[n])

\* The lines that are left are those after the last one answered.
Ahead(u) ==
  server \notin Gone =>
    /\ u[Len(out)] + Len(inq) = LinesOf(Len(names))
    /\ \A i \in 1..Len(inq) : inq[i] = LineAt(u[Len(out)] + i)

\* In Lab 3.1 the second line, an empty one, is the last to be carried out.
Once(u) ==
  lab = "3.1" =>
    /\ server \notin Gone => u[Len(out)] <= 1
    /\ \A i \in 1..Len(out) : out[i].part = "err" => i = Len(out) /\ server \in Gone

Answering == \E u : Chain(u) /\ Sending(u) /\ Ahead(u) /\ Once(u)

\* Nothing more will come.
Over == net # "open" /\ out = <<>> /\ client \notin {"sizing", "reading"}

\* What FileOfRequest assumes.
Regular == ~late /\ ~torn /\ (lab = "3.3t" => \A i \in DOMAIN names : names[i] # "unreadable")

InStep ==
  lab \in TextLabs /\ client # "ended" /\ Regular =>
    /\ client \in {"sizing", "reading", "guessing"} => taking = Owner(Len(names))
    /\ client = "guessing" => failed
    /\ Over \/ (client # "guessing" /\ Answering)

\* In Lab 3.4 one request or answer is under way at most.
Alone ==
  lab = "3.4" /\ client # "ended" =>
    /\ client \notin {"sizing", "reading", "guessing"} /\ server # "sizing" /\ ~torn
    /\ \A i \in 1..Len(inq) : inq[i] = [req |-> Len(names), line |-> "get"]
    /\ \A i \in 1..Len(out) : out[i].req = Len(names)
    /\ Len(inq) <= 1
    /\ inq # <<>> \/ out # <<>> \/ server = "sending" => client = "waiting"
    /\ inq # <<>> => out = <<>> /\ server # "sending"
    /\ out # <<>> => IF out[1].part = "err" THEN Len(out) = 1 /\ server # "sending"
                     ELSE Len(out) <= 2
    /\ server = "sending" => Len(out) = 1 /\ job = Len(names)

Closed == net # "open" => server \in Gone

\* Line 0 is nobody's; every other is of a request.
LEMMA OwnerNat ==
  ASSUME NEW k \in Nat
  PROVE  Owner(k) \in Nat /\ (k > 0 <=> Owner(k) > 0)
BY DEF Owner

\* The part before a reset cuts the stream is numbered as it was.
LEMMA ChainCut ==
  ASSUME Inv, UNCHANGED <<lab, names, client>>, NEW u, Chain(u),
         NEW n \in 0..Len(out), out' = SubSeq(out, 1, n)
  PROVE  \E v : Chain(v)' /\ \A i \in 0..n : v[i] = u[i]
<1>1. out \in Seq(Answer) BY DEF Inv, TypeOK, Answer
<1>2. Len(out') = n /\ \A i \in 1..n : out'[i] = out[i]
  BY <1>1
<1>3. PICK v : v = [i \in 0..n |-> u[i]] OBVIOUS
<1>4. v \in [0..n -> Nat] /\ \A i \in 0..n : v[i] = u[i]
  <2>1. 0..n \subseteq 0..Len(out) BY <1>1
  <2>2. \A i \in 0..Len(out) : u[i] \in Nat BY DEF Chain
  <2> QED BY <1>3, <2>1, <2>2
<1>5. v[0] = Past' BY <1>1, <1>4 DEF Chain, Past
<1>6. \A i \in 0..n : Due(i)' = Due(i)
  BY <1>2 DEF Due, DueAfter
<1>7. ASSUME NEW i \in 1..n
      PROVE  /\ out'[i].req = Owner(v[i])'
             /\ Linked(Due(i - 1), v[i - 1], out[i].part, v[i])'
  <2>1. i \in 1..Len(out) /\ i \in 0..n /\ i - 1 \in 0..n BY <1>1
  <2>2. /\ out[i].req = Owner(u[i])
        /\ Linked(Due(i - 1), u[i - 1], out[i].part, u[i])
    BY <2>1 DEF Chain
  <2>3. out'[i].req = Owner(v[i])' BY <1>2, <1>4, <2>1, <2>2 DEF Owner
  <2>4. Linked(Due(i - 1), v[i - 1], out[i].part, v[i])'
    BY <1>2, <1>4, <1>6, <2>1, <2>2 DEF Linked, Bare, Owner
  <2> QED BY <2>3, <2>4
<1>8. \A i, j \in 0..n : i <= j => v[i] <= v[j]
  BY <1>1, <1>4 DEF Chain
<1>9. Chain(v)' BY <1>2, <1>4, <1>5, <1>7, <1>8 DEF Chain
<1> QED BY <1>4, <1>9

\* A new part is numbered after the last one.
LEMMA ChainGrows ==
  ASSUME Inv, UNCHANGED <<lab, names, client>>, NEW u, Chain(u),
         NEW m \in Answer, out' = Append(out, m), NEW k \in Nat,
         m.req = Owner(k), Linked(Due(Len(out)), u[Len(out)], m.part, k)
  PROVE  \E v : Chain(v)' /\ v[Len(out) + 1] = k /\ \A i \in 0..Len(out) : v[i] = u[i]
<1>1. PICK n \in Nat : n = Len(out) BY DEF Inv, TypeOK
<1>0. out \in Seq(Answer) BY DEF Inv, TypeOK, Answer
<1>2. Len(out') = n + 1 /\ out'[n + 1] = m /\ \A i \in 1..n : out'[i] = out[i]
  BY <1>0, <1>1
<1>3. PICK v : v = [i \in 0..(n + 1) |-> IF i = n + 1 THEN k ELSE u[i]] OBVIOUS
<1>4. v \in [0..(n + 1) -> Nat] /\ v[n + 1] = k /\ \A i \in 0..n : v[i] = u[i]
  BY <1>1, <1>3 DEF Chain
<1>5. v[0] = Past' BY <1>1, <1>4 DEF Chain, Past
<1>6. \A i \in 0..n : Due(i)' = Due(i)
  BY <1>2 DEF Due, DueAfter
<1>7. ASSUME NEW i \in 1..(n + 1)
      PROVE  /\ out'[i].req = Owner(v[i])'
             /\ Linked(Due(i - 1), v[i - 1], out[i].part, v[i])'
  <2>1. CASE i = n + 1
    <3>1. i - 1 = n /\ n \in 0..n BY <2>1
    <3>2. v[i - 1] = u[n] /\ v[i] = k /\ out'[i] = m /\ Due(i - 1)' = Due(n)
      BY <1>2, <1>4, <1>6, <2>1, <3>1
    <3> QED BY <1>1, <3>2 DEF Linked, Bare, Owner
  <2>2. CASE i # n + 1
    <3>1. i \in 1..Len(out) /\ i \in 1..n /\ i \in 0..n /\ i - 1 \in 0..n
      BY <1>1, <2>2
    <3>2. /\ out[i].req = Owner(u[i])
          /\ Linked(Due(i - 1), u[i - 1], out[i].part, u[i])
      BY <3>1 DEF Chain
    <3>3. out'[i].req = Owner(v[i])' BY <1>2, <1>4, <3>1, <3>2 DEF Owner
    <3>4. Linked(Due(i - 1), v[i - 1], out[i].part, v[i])'
      BY <1>2, <1>4, <1>6, <3>1, <3>2 DEF Linked, Bare, Owner
    <3> QED BY <3>3, <3>4
  <2> QED BY <2>1, <2>2
<1>8. u[n] <= k /\ u[n] \in Nat
  BY <1>1 DEF Linked, Chain
<1>9. \A i, j \in 0..(n + 1) : i <= j => v[i] <= v[j]
  <2>1. \A i, j \in 0..n : i <= j => u[i] <= u[j] BY <1>1 DEF Chain
  <2>2. \A i \in 0..n : u[i] \in Nat /\ u[i] <= u[n] BY <1>1, <2>1 DEF Chain
  <2>3. SUFFICES ASSUME NEW i \in 0..(n + 1), NEW j \in 0..(n + 1), i <= j
                 PROVE  v[i] <= v[j]
    OBVIOUS
  <2>4. CASE j \in 0..n
    <3>1. i \in 0..n BY <2>3, <2>4
    <3>2. v[i] = u[i] /\ v[j] = u[j] BY <1>4, <2>4, <3>1
    <3> QED BY <2>1, <2>3, <2>4, <3>1, <3>2
  <2>5. CASE j = n + 1 /\ i \in 0..n
    <3>1. v[i] = u[i] /\ v[j] = k BY <1>4, <2>5
    <3>2. u[i] \in Nat /\ u[i] <= u[n] BY <2>2, <2>5
    <3> QED BY <1>8, <3>1, <3>2
  <2>6. CASE j = n + 1 /\ i = n + 1
    <3>1. v[i] = k /\ v[j] = k BY <1>4, <2>6
    <3> QED BY <3>1
  <2>7. j \in 0..n \/ j = n + 1 BY <2>3
  <2>8. i \in 0..n \/ (i = n + 1 /\ j = n + 1) BY <2>3
  <2> QED BY <2>4, <2>5, <2>6, <2>7, <2>8
<1>10. Chain(v)' BY <1>2, <1>4, <1>5, <1>7, <1>9 DEF Chain
<1> QED BY <1>1, <1>4, <1>10

\* The client reads the first part, and waits for the same answer or a later one.
LEMMA ChainShift ==
  ASSUME Inv, UNCHANGED <<lab, names>>, NEW u, Chain(u), out # <<>>,
         out' = Tail(out), u[1] = Past', Due(0)' = DueAfter(out[1])
  PROVE  \E v : Chain(v)' /\ \A i \in 0..Len(out') : v[i] = u[i + 1]
<1>1. PICK n \in Nat : n + 1 = Len(out)
  <2>1. out \in Seq(Answer) BY DEF Inv, TypeOK, Answer
  <2>2. Len(out) \in Nat /\ Len(out) > 0 BY <2>1
  <2> QED BY <2>2
<1>0. out \in Seq(Answer) BY DEF Inv, TypeOK, Answer
<1>2. Len(out') = n /\ \A i \in 1..n : out'[i] = out[i + 1]
  BY <1>0, <1>1
<1>3. PICK v : v = [i \in 0..n |-> u[i + 1]] OBVIOUS
<1>4. v \in [0..n -> Nat] /\ \A i \in 0..n : v[i] = u[i + 1]
  <2>1. \A i \in 0..n : i + 1 \in 0..Len(out) BY <1>1
  <2>2. \A i \in 0..Len(out) : u[i] \in Nat BY DEF Chain
  <2> QED BY <1>3, <2>1, <2>2
<1>5. v[0] = Past' BY <1>4
<1>6. \A i \in 1..n : Due(i)' = DueAfter(out[i + 1])
  BY <1>2 DEF Due, DueAfter
<1>7. ASSUME NEW i \in 1..n
      PROVE  /\ out'[i].req = Owner(v[i])'
             /\ Linked(Due(i - 1), v[i - 1], out[i].part, v[i])'
  <2>1. i + 1 \in 1..Len(out) /\ i \in 0..n /\ i - 1 \in 0..n /\ (i - 1) + 1 = i
    BY <1>1
  <2>2. /\ out[i + 1].req = Owner(u[i + 1])
        /\ Linked(Due((i + 1) - 1), u[(i + 1) - 1], out[i + 1].part, u[i + 1])
    BY <2>1 DEF Chain
  <2>3. (i + 1) - 1 = i OBVIOUS
  <2>4. Linked(Due(i), u[i], out[i + 1].part, u[i + 1]) BY <2>2, <2>3
  <2>5. out'[i] = out[i + 1] /\ v[i] = u[i + 1] /\ v[i - 1] = u[i]
    BY <1>2, <1>4, <2>1
  <2>6. Due(i) = DueAfter(out[i]) BY DEF Due
  <2>7. Due(i - 1)' = Due(i)
    <3>1. CASE i = 1 BY <2>6, <3>1
    <3>2. CASE i # 1
      <4>1. i - 1 \in 1..n BY <3>2
      <4> QED BY <1>6, <2>1, <2>6, <4>1
    <3> QED BY <3>1, <3>2
  <2>8. Linked(Due(i - 1), v[i - 1], out[i].part, v[i])'
    BY <2>4, <2>5, <2>7 DEF Linked, Bare, Owner
  <2> QED BY <2>2, <2>5, <2>8 DEF Owner
<1>8. \A i, j \in 0..n : i <= j => v[i] <= v[j]
  <2>1. \A i, j \in 0..n : i <= j => i + 1 \in 0..Len(out) /\ j + 1 \in 0..Len(out)
                                     /\ i + 1 <= j + 1
    BY <1>1
  <2> QED BY <1>4, <2>1 DEF Chain
<1>9. Chain(v)' BY <1>2, <1>4, <1>5, <1>7, <1>8 DEF Chain
<1> QED BY <1>2, <1>4, <1>9

\* What the numbers say: nothing is numbered 0 but what no one has asked for,
\* and a part announced is of a request that was made.
LEMMA ChainFacts ==
  ASSUME Inv, NEW u, Chain(u), client # "ended"
  PROVE  /\ Len(out) \in Nat
         /\ \A i \in 0..Len(out) : u[i] \in Nat /\ Past <= u[i] /\ u[i] <= u[Len(out)]
         /\ Due(Len(out)) # "line" => u[Len(out)] > 0
         /\ \A i \in 1..Len(out) : /\ out[i].req = Owner(u[i]) /\ out[i] \in Answer
                                   /\ Due(i) = DueAfter(out[i]) /\ u[i] > 0
<1>1. out \in Seq(Answer) /\ Len(out) \in Nat BY DEF Inv, TypeOK, Answer
<1>2. \A i \in 0..Len(out) : u[i] \in Nat /\ u[0] <= u[i] /\ u[i] <= u[Len(out)]
  <2>1. \A i \in 0..Len(out) : u[i] \in Nat BY DEF Chain
  <2>2. \A i, j \in 0..Len(out) : i <= j => u[i] <= u[j] BY DEF Chain
  <2>3. 0 \in 0..Len(out) /\ Len(out) \in 0..Len(out) BY <1>1
  <2>4. \A i \in 0..Len(out) : 0 <= i /\ i <= Len(out) BY <1>1
  <2> QED BY <2>1, <2>2, <2>3, <2>4
<1>3. \A i \in 1..Len(out) : out[i].req = Owner(u[i]) /\ out[i] \in Answer
                             /\ Due(i) = DueAfter(out[i])
  BY <1>1 DEF Chain, Due
<1>4. \A i \in 1..Len(out) : u[i] > 0
  <2> SUFFICES ASSUME NEW i \in 1..Len(out) PROVE u[i] > 0
    OBVIOUS
  <2>1. out[i].req \in 1..Len(names) BY <1>3 DEF Answer
  <2>2. Owner(u[i]) > 0 BY <1>3, <2>1
  <2>3. u[i] \in Nat BY <1>1, <1>2
  <2> QED BY <2>2, <2>3, OwnerNat
<1>5. Due(Len(out)) # "line" => u[Len(out)] > 0
  <2>1. CASE Len(out) > 0
    <3>1. Len(out) \in 1..Len(out) BY <1>1, <2>1
    <3> QED BY <1>4, <3>1
  <2>2. CASE Len(out) = 0
    <3>1. Due(Len(out)) # "line" => client \in {"sizing", "reading"} BY <2>2 DEF Due
    <3>2. client \in {"sizing", "reading"} => names # <<>> /\ names \in Seq(Names)
      BY DEF Inv, TypeOK, Unstored, Busy
    <3>3. client \in {"sizing", "reading"} => u[0] = Len(names) /\ Len(names) > 0
      BY <3>2 DEF Chain, Past
    <3> QED BY <2>2, <3>1, <3>3
  <2> QED BY <1>1, <2>1, <2>2
<1> QED BY <1>1, <1>2, <1>3, <1>4, <1>5 DEF Chain

-----------------------------------------------------------------------------
(* The steps of the server keep the numbers. *)

\* What a step of the server leaves alone.
ServerSide == UNCHANGED <<lab, clientVars>>

\* Nothing is said.
LEMMA ChainStays ==
  ASSUME Inv, UNCHANGED <<lab, names, client, out>>, NEW u, Chain(u)
  PROVE  Chain(u)' /\ \A i : Due(i)' = Due(i)
BY DEF Chain, Due, DueAfter, Past, Linked, Bare, Owner

\* The connection is closed; what was said may be cut.
LEMMA CloseAnswering ==
  ASSUME Inv, UNCHANGED <<lab, clientVars>>, NEW u, Chain(u), client # "ended",
         Once(u), server \notin Gone, NEW next \in Gone, Closes(out, next), failed' = TRUE
  PROVE  Answering'
<1>1. PICK n \in 0..Len(out) : out' = SubSeq(out, 1, n)
  <2>1. out \in Seq(Answer) BY DEF Inv, TypeOK, Answer
  <2>2. Len(out) \in 0..Len(out) /\ out = SubSeq(out, 1, Len(out)) BY <2>1
  <2> QED BY <2>2 DEF Closes
<1>2. PICK v : Chain(v)' BY <1>1, ChainCut DEF clientVars
<1>3. server' \in Gone BY DEF Closes
<1>4. Sending(v)' BY <1>3 DEF Sending, Gone
<1>5. Ahead(v)' BY <1>3 DEF Ahead
<1>6. Once(v)'
  <2>1. out \in Seq(Answer) BY DEF Inv, TypeOK, Answer
  <2>2. lab = "3.1" => \A i \in 1..Len(out) : out[i].part # "err"
    BY DEF Once
  <2>3. Len(out') = n /\ \A i \in 1..n : i \in 1..Len(out) /\ out'[i] = out[i]
    BY <1>1, <2>1
  <2> QED BY <1>3, <2>2, <2>3 DEF Once
<1> QED BY <1>2, <1>4, <1>5, <1>6 DEF Answering

\* A part m of the answer that is being sent: it is the one that is due.
LEMMA PartAnswering ==
  ASSUME Inv, Answering, client # "ended", UNCHANGED <<lab, names, client, inq, failed>>,
         server \notin Gone, server' \notin Gone \cup {"sizing"},
         NEW m \in Answer, out' = Append(out, m), m.part \in {"size", "content"},
         \A u : Sending(u) => m.req = Owner(u[Len(out)]) /\ m.part = Due(Len(out)),
         IF m.part = "size" THEN server' = "sending" /\ job' = m.req
         ELSE server' # "sending"
  PROVE  Answering'
<1>1. PICK u : Chain(u) /\ Sending(u) /\ Ahead(u) /\ Once(u)
  BY DEF Answering
<1>2. m.req = Owner(u[Len(out)]) /\ m.part = Due(Len(out))
  BY <1>1
<1>4. /\ Len(out) \in Nat /\ u[Len(out)] \in Nat
      /\ u[Len(out)] + Len(inq) = LinesOf(Len(names))
      /\ \A i \in 1..Len(inq) : inq[i] = LineAt(u[Len(out)] + i)
      /\ lab = "3.1" => u[Len(out)] <= 1
      /\ lab = "3.1" => \A i \in 1..Len(out) : out[i].part # "err"
  BY <1>1, ChainFacts DEF Ahead, Once
<1>5. Linked(Due(Len(out)), u[Len(out)], m.part, u[Len(out)])
  BY <1>2 DEF Linked
<1>6. PICK v : /\ Chain(v)' /\ v[Len(out) + 1] = u[Len(out)]
  BY <1>1, <1>2, <1>4, <1>5, ChainGrows
<1>7. out \in Seq(Answer) BY DEF Inv, TypeOK, Answer
<1>8. /\ Len(out') = Len(out) + 1 /\ out'[Len(out')] = m
      /\ \A i \in 1..Len(out) : out'[i] = out[i]
  BY <1>7
<1>9. Due(Len(out))' = DueAfter(m) BY <1>4, <1>8 DEF Due, DueAfter
<1>10. Sending(v)'
  <2>1. Owner(v[Len(out)])' = m.req
    BY <1>2, <1>6, <1>8 DEF Owner
  <2> QED BY <1>9, <2>1 DEF Sending, DueAfter
<1>11. Ahead(v)'
  BY <1>4, <1>6, <1>8 DEF Ahead, LinesOf, LineAt, Asks, Owner
<1>12. Once(v)'
  <2>1. lab = "3.1" => \A i \in 1..Len(out') : out'[i].part # "err"
    <3>1. \A i \in 1..Len(out') : i \in 1..Len(out) \/ i = Len(out')
      BY <1>4, <1>8
    <3> QED BY <1>4, <1>8, <3>1
  <2> QED BY <1>4, <1>6, <1>8, <2>1 DEF Once
<1> QED BY <1>6, <1>10, <1>11, <1>12 DEF Answering

\* The size follows the announcement, ...
LEMMA SizeAnswering ==
  ASSUME Inv, Answering, client # "ended", SendSize
  PROVE  Answering'
<1>1. /\ UNCHANGED <<lab, names, client, inq, failed, job>>
      /\ server = "sizing" /\ server' = "sending" /\ server' \notin Gone \cup {"sizing"}
      /\ server \notin Gone
  BY DEF SendSize, clientVars, Gone
<1>2. PICK m : m = [req |-> job, part |-> "size"] OBVIOUS
<1>3. job \in 1..Len(names) BY <1>1 DEF Inv, TypeOK
<1>4. m \in Answer /\ m.req = job /\ m.part = "size"
  BY <1>2, <1>3 DEF Answer, Parts
<1>5. out' = Append(out, m) BY <1>2 DEF SendSize, Says
<1>6. \A u : Sending(u) => m.req = Owner(u[Len(out)]) /\ m.part = Due(Len(out))
  BY <1>1, <1>4 DEF Sending
<1> QED BY <1>1, <1>4, <1>5, <1>6, PartAnswering

\* ... and the content the size; an empty file has none, nor has a directory in
\* Lab 3.1.
LEMMA SendAnswering ==
  ASSUME Inv, lab # "3.4", Answering, client # "ended", Send
  PROVE  Answering'
<1>1. /\ UNCHANGED <<lab, names, client, inq, failed>>
      /\ server = "sending" /\ server' \in {"done", "reading"}
      /\ server \notin Gone /\ server' \notin Gone \cup {"sizing", "sending"}
  BY DEF Send, clientVars, Gone
<1>2. job \in 1..Len(names) BY <1>1 DEF Inv, TypeOK
<1>3. CASE NoBytes(names[job])
  <2>1. PICK u : Chain(u) /\ Sending(u) /\ Ahead(u) /\ Once(u)
    BY DEF Answering
  <2>2. out' = out BY <1>3 DEF Send
  <2>3. Chain(u)' /\ \A i : Due(i)' = Due(i)
    BY <1>1, <2>1, <2>2, ChainStays
  <2>4. /\ job = Owner(u[Len(out)])
        /\ Due(Len(out)) = IF names[job] = "empty" THEN "line" ELSE "content"
    BY <1>1, <2>1 DEF Sending
  <2>5. names[job] # "empty" => lab = "3.1" /\ names[job] = "directory"
    BY <1>3 DEF NoBytes
  <2>6. Sending(u)'
    <3>1. Owner(u[Len(out)])' = job BY <1>1, <2>2, <2>4 DEF Owner
    <3>2. Due(Len(out))' = IF names[job] = "empty" THEN "line" ELSE "content"
      BY <2>2, <2>3, <2>4
    <3>3. names[job] # "empty" => Bare(u[Len(out)])'
      BY <1>1, <2>5, <3>1 DEF Bare
    <3> QED BY <1>1, <2>5, <3>1, <3>2, <3>3 DEF Sending
  <2>7. Ahead(u)'
    BY <1>1, <2>1, <2>2 DEF Ahead, LinesOf, LineAt, Asks, Owner
  <2>8. Once(u)' BY <1>1, <2>1, <2>2 DEF Once
  <2> QED BY <2>3, <2>6, <2>7, <2>8 DEF Answering
<1>4. CASE ~NoBytes(names[job])
  <2>1. PICK m : m = [req |-> job, part |-> "content"] OBVIOUS
  <2>2. m \in Answer /\ m.req = job /\ m.part = "content"
    BY <1>2, <2>1 DEF Answer, Parts
  <2>3. out' = Append(out, m) BY <1>4, <2>1 DEF Send, Says
  <2>4. names[job] # "empty" BY <1>4 DEF NoBytes
  <2>5. \A u : Sending(u) => m.req = Owner(u[Len(out)]) /\ m.part = Due(Len(out))
    BY <1>1, <2>2, <2>4 DEF Sending
  <2> QED BY <1>1, <2>2, <2>3, <2>5, PartAnswering
<1> QED BY <1>3, <1>4

\* A line is taken: it is the next one, and those left follow it.
LEMMA NextOf ==
  ASSUME Inv, NEW u, Chain(u), Ahead(u), client # "ended", server = "reading",
         NEW l, NextLine(l)
  PROVE  LET p == u[Len(out)] + 1 IN
         /\ p \in Nat /\ l = LineAt(p) /\ inq' \in Seq(Line)
         /\ p + Len(inq') = LinesOf(Len(names))
         /\ \A i \in 1..Len(inq') : inq'[i] = LineAt(p + i)
<1>1. u[Len(out)] \in Nat BY ChainFacts
<1>2. inq \in Seq(Line) /\ inq # <<>> /\ l = inq[1] /\ inq' = Tail(inq)
  BY DEF Inv, TypeOK, Line, NextLine
<1>3. /\ Len(inq) \in Nat /\ Len(inq') \in Nat /\ Len(inq) = Len(inq') + 1
      /\ inq' \in Seq(Line)
      /\ \A i \in 1..Len(inq') : inq'[i] = inq[i + 1]
  BY <1>2
<1>4. /\ u[Len(out)] + Len(inq) = LinesOf(Len(names))
      /\ \A i \in 1..Len(inq) : inq[i] = LineAt(u[Len(out)] + i)
  BY DEF Ahead, Gone
<1>5. l = LineAt(u[Len(out)] + 1)
  BY <1>2, <1>3, <1>4
<1>6. (u[Len(out)] + 1) + Len(inq') = LinesOf(Len(names))
  <2>1. PICK a \in Nat, b \in Nat : a = u[Len(out)] /\ b = Len(inq')
    BY <1>1, <1>3
  <2>2. (a + 1) + b = a + (b + 1) OBVIOUS
  <2> QED BY <1>3, <1>4, <2>1, <2>2
<1>7. \A i \in 1..Len(inq') : inq'[i] = LineAt((u[Len(out)] + 1) + i)
  <2> SUFFICES ASSUME NEW i \in 1..Len(inq')
               PROVE  inq'[i] = LineAt((u[Len(out)] + 1) + i)
    OBVIOUS
  <2>1. i + 1 \in 1..Len(inq) BY <1>3
  <2>2. inq'[i] = LineAt(u[Len(out)] + (i + 1)) BY <1>3, <1>4, <2>1
  <2>3. u[Len(out)] + (i + 1) = (u[Len(out)] + 1) + i BY <1>1
  <2> QED BY <2>2, <2>3
<1> QED BY <1>1, <1>3, <1>5, <1>6, <1>7

\* A line is answered with +OK, and the file is sent next, or with an error.
LEMMA SayAnswering ==
  ASSUME Inv, UNCHANGED <<lab, clientVars>>, Closed, Answering, client # "ended",
         server = "reading", NEW l, NextLine(l), l.line = "get" \/ lab # "3.1",
         NEW w \in {"ok", "err"}, out' = Append(out, [req |-> l.req, part |-> w]),
         l.req \in 1..Len(names),
         w = "ok" => server' = "sizing" /\ job' = l.req,
         w = "err" => server' \notin {"sizing", "sending"} /\ lab # "3.1"
  PROVE  Answering'
<1>1. PICK u : Chain(u) /\ Sending(u) /\ Ahead(u) /\ Once(u)
  BY DEF Answering
<1>2. PICK p : p = u[Len(out)] + 1 OBVIOUS
<1>3. /\ p \in Nat /\ l = LineAt(p) /\ inq' \in Seq(Line)
      /\ p + Len(inq') = LinesOf(Len(names))
      /\ \A i \in 1..Len(inq') : inq'[i] = LineAt(p + i)
  BY <1>1, <1>2, NextOf
<1>4. Len(out) \in Nat /\ u[Len(out)] \in Nat BY <1>1, ChainFacts
<1>5. lab = "3.1" => p = 1
  <2>1. lab = "3.1" => Asks(p) /\ u[Len(out)] <= 1
    BY <1>1, <1>3 DEF LineAt, Once, Gone
  <2> QED BY <1>2, <1>4, <2>1 DEF Asks, PairLabs, TextLabs
<1>6. Due(Len(out)) = "line"
  <2> SUFFICES ASSUME Due(Len(out)) # "line" PROVE FALSE
    OBVIOUS
  <2>1. lab = "3.1" BY <1>1 DEF Sending, Bare, Gone
  <2>2. u[Len(out)] > 0 BY <1>1, ChainFacts
  <2> QED BY <1>2, <1>4, <1>5, <2>1, <2>2
<1>7. PICK m : m = [req |-> l.req, part |-> w] OBVIOUS
<1>8. m \in Answer /\ m.req = l.req /\ m.part = w
  BY <1>7 DEF Answer, Parts
<1>9. m.req = Owner(p) BY <1>3, <1>8 DEF LineAt
<1>10. Linked(Due(Len(out)), u[Len(out)], m.part, p)
  BY <1>2, <1>6, <1>8 DEF Linked
<1>11. UNCHANGED <<lab, names, client>> BY DEF clientVars
<1>12. PICK v : Chain(v)' /\ v[Len(out) + 1] = p
  BY <1>1, <1>3, <1>7, <1>8, <1>9, <1>10, <1>11, ChainGrows
<1>13. out \in Seq(Answer) BY DEF Inv, TypeOK, Answer
<1>14. /\ Len(out') = Len(out) + 1 /\ out'[Len(out')] = m
       /\ \A i \in 1..Len(out) : out'[i] = out[i]
  BY <1>7, <1>8, <1>13
<1>15. Due(Len(out))' = IF w = "ok" THEN "size" ELSE "line"
  BY <1>4, <1>8, <1>14 DEF Due, DueAfter
<1>16. Sending(v)'
  <2>1. Owner(p)' = Owner(p) BY <1>11 DEF Owner
  <2> QED BY <1>8, <1>9, <1>12, <1>14, <1>15, <2>1 DEF Sending
<1>17. Ahead(v)'
  <2>1. v[Len(out')] = p BY <1>12, <1>14
  <2> QED BY <1>3, <1>11, <2>1 DEF Ahead, LinesOf, LineAt, Asks, Owner
<1>18. Once(v)'
  <2>1. lab = "3.1" => \A i \in 1..Len(out') : out'[i].part # "err"
    <3>1. \A i \in 1..Len(out') : i \in 1..Len(out) \/ i = Len(out')
      BY <1>4, <1>14
    <3>2. lab = "3.1" => \A i \in 1..Len(out) : out[i].part # "err"
      BY <1>1 DEF Once, Gone
    <3> QED BY <1>8, <1>14, <3>1, <3>2
  <2> QED BY <1>5, <1>11, <1>12, <1>14, <2>1 DEF Once
<1> QED BY <1>12, <1>16, <1>17, <1>18 DEF Answering

\* The empty line of Lab 3.1 is its second line: an error, the last answer.
LEMMA BlankAnswering ==
  ASSUME Inv, UNCHANGED <<lab, clientVars>>, Answering, client # "ended",
         lab = "3.1", server = "reading", NEW l, NextLine(l), l.line = "blank",
         l.req \in 1..Len(names),
         Closes(Append(out, [req |-> l.req, part |-> "err"]), "spinning"),
         UNCHANGED failed
  PROVE  Answering'
<1>1. PICK u : Chain(u) /\ Sending(u) /\ Ahead(u) /\ Once(u)
  BY DEF Answering
<1>2. PICK p : p = u[Len(out)] + 1 OBVIOUS
<1>3. /\ p \in Nat /\ l = LineAt(p) /\ inq' \in Seq(Line)
      /\ p + Len(inq') = LinesOf(Len(names))
  BY <1>1, <1>2, NextOf
<1>4. /\ Len(out) \in Nat /\ u[Len(out)] \in Nat
      /\ \A i \in 0..Len(out) : u[i] \in Nat /\ Past <= u[i] /\ u[i] <= u[Len(out)]
  BY <1>1, ChainFacts
<1>5. p = 2 /\ u[Len(out)] = 1
  <2>1. ~Asks(p) /\ u[Len(out)] <= 1
    BY <1>1, <1>3 DEF LineAt, Once, Gone
  <2> QED BY <1>2, <1>4, <2>1 DEF Asks
<1>6. PICK m : m = [req |-> l.req, part |-> "err"] OBVIOUS
<1>7. m \in Answer /\ m.req = l.req /\ m.part = "err"
  BY <1>6 DEF Answer, Parts
<1>8. m.req = Owner(p) BY <1>3, <1>7 DEF LineAt
<1>9. Linked(Due(Len(out)), u[Len(out)], m.part, p)
  <2>1. Due(Len(out)) # "line" => Due(Len(out)) = "content" /\ Bare(u[Len(out)])
    BY <1>1 DEF Sending, Gone
  <2> QED BY <1>2, <1>7, <2>1 DEF Linked
<1>10. out \in Seq(Answer) /\ \A i \in 1..Len(out) : out[i].part # "err"
  BY <1>1 DEF Inv, TypeOK, Answer, Once, Gone
<1>11. server' \in Gone /\ server' = "spinning" BY DEF Closes, Gone
<1>12. CASE out' = Append(out, m)
  <2>1. PICK v : Chain(v)' /\ v[Len(out) + 1] = p
    BY <1>3, <1>1, <1>7, <1>8, <1>9, <1>12, ChainGrows DEF clientVars
  <2>2. /\ Len(out') = Len(out) + 1 /\ out'[Len(out')] = m
        /\ \A i \in 1..Len(out) : out'[i] = out[i]
    BY <1>7, <1>10, <1>12
  <2>3. Due(Len(out))' = "line" BY <1>4, <1>7, <2>2 DEF Due, DueAfter
  <2>4. Sending(v)' BY <1>11, <2>3 DEF Sending
  <2>5. Ahead(v)' BY <1>11 DEF Ahead
  <2>6. \A i \in 1..Len(out') : i \in 1..Len(out) \/ i = Len(out')
    BY <1>4, <2>2
  <2>7. Once(v)' BY <1>10, <1>11, <2>2, <2>6 DEF Once
  <2> QED BY <2>1, <2>4, <2>5, <2>7 DEF Answering
<1>13. CASE inq' # <<>> /\ out' # Append(out, m)
  <2>1. Len(inq') \in Nat /\ Len(inq') > 0 BY <1>3, <1>13
  <2>2. Len(names) > 1 /\ Len(names) \in Nat
    <3>1. Len(names) \in Nat BY DEF Inv, TypeOK
    <3>2. LinesOf(Len(names)) = 2 * Len(names) BY DEF LinesOf, PairLabs, TextLabs
    <3> QED BY <1>3, <1>5, <2>1, <3>1, <3>2
  <2>3. Past <= 1 BY <1>4, <1>5
  <2>4. client = "waiting" /\ Past = 1
    <3>1. client # "waiting" => Past = Len(names) BY DEF Past
    <3>2. client = "waiting" => Past = Len(names) - 1 BY DEF Past
    <3> QED BY <2>2, <2>3, <3>1, <3>2
  <2>5. out = <<>>
    <3> SUFFICES ASSUME out # <<>> PROVE FALSE
      OBVIOUS
    <3>1. 1 \in 1..Len(out) /\ 1 \in 0..Len(out) BY <1>10
    <3>2. Linked(Due(1 - 1), u[1 - 1], out[1].part, u[1]) BY <1>1, <3>1 DEF Chain
    <3>3. 1 - 1 = 0 /\ Due(0) = "line" /\ u[0] = 1
      BY <1>1, <2>4 DEF Due, Chain
    <3>4. Linked("line", 1, out[1].part, u[1]) BY <3>2, <3>3
    <3>5. u[1] = 2 BY <3>4 DEF Linked
    <3> QED BY <1>4, <1>5, <3>1, <3>5
  <2>6. PICK n \in 0..1 : out' = SubSeq(<<m>>, 1, n)
    <3>1. Append(out, m) = <<m>> /\ Len(<<m>>) = 1 BY <2>5
    <3>2. out' \in {SubSeq(<<m>>, 1, n) : n \in 0..Len(<<m>>)} \/ out' = <<m>>
      BY <1>6, <3>1 DEF Closes
    <3> QED BY <1>13, <3>1, <3>2
  <2>7. out' = <<>>
    <3>0. Append(out, m) \in Seq(Answer) BY <1>7, <1>10
    <3>1. PICK s \in Seq(Answer) : s = Append(out, m) BY <3>0
    <3>3. SubSeq(s, 1, Len(s)) = s /\ SubSeq(s, 1, 0) = <<>> OBVIOUS
    <3>4. Len(s) = 1 BY <2>5, <3>1
    <3>2. Append(out, m) = <<m>> BY <2>5
    <3> QED BY <1>13, <2>6, <3>1, <3>2, <3>3, <3>4
  <2>8. out' = out BY <2>5, <2>7
  <2>9. Chain(u)' /\ \A i : Due(i)' = Due(i)
    BY <1>1, <2>8, ChainStays DEF clientVars
  <2>10. Due(Len(out))' = "line" BY <2>4, <2>7, <2>9 DEF Due, clientVars
  <2>11. Sending(u)' BY <1>11, <2>10 DEF Sending
  <2>12. Ahead(u)' BY <1>11 DEF Ahead
  <2>13. Once(u)' BY <1>11, <2>7 DEF Once
  <2> QED BY <2>9, <2>11, <2>12, <2>13 DEF Answering
<1>14. inq' = <<>> => out' = Append(out, m)
  BY <1>6 DEF Closes
<1> QED BY <1>12, <1>13, <1>14

\* Steps of the server or of the network that neither take a line nor say
\* anything.
LEMMA IdleAnswering ==
  ASSUME Inv, UNCHANGED <<lab, clientVars, inq, out, failed>>, Answering,
         server \notin {"sizing", "sending"},
         server' = server \/ (server = "backlog" /\ server' = "reading")
  PROVE  Answering'
<1>1. PICK u : Chain(u) /\ Sending(u) /\ Ahead(u) /\ Once(u)
  BY DEF Answering
<1>2. Chain(u)' /\ \A i : Due(i)' = Due(i)
  BY <1>1, ChainStays DEF clientVars
<1>3. Sending(u)' BY <1>1, <1>2 DEF Sending, Bare, Owner, clientVars, Gone
<1>4. Ahead(u)' BY <1>1 DEF Ahead, LinesOf, LineAt, Asks, Owner, clientVars, Gone
<1>5. Once(u)' BY <1>1 DEF Once, clientVars, Gone
<1> QED BY <1>2, <1>3, <1>4, <1>5 DEF Answering

-----------------------------------------------------------------------------
(* The steps of the client keep the numbers. *)

\* The server goes on with what is left, from the same last part.
LEMMA RestAnswering ==
  ASSUME UNCHANGED <<lab, names, serverVars, inq>>, NEW u, NEW v,
         v[Len(out)]' = u[Len(out)],
         Due(Len(out))' = Due(Len(out)),
         Sending(u), Ahead(u)
  PROVE  Sending(v)' /\ Ahead(v)'
BY DEF Sending, Ahead, Bare, Owner, LinesOf, LineAt, Asks, serverVars

\* The next part is read.
LEMMA ReadAnswering ==
  ASSUME Inv, UNCHANGED <<lab, names, serverVars, inq>>, client # "ended",
         NEW u, Chain(u), Sending(u), Ahead(u), Once(u), out # <<>>,
         out' = Tail(out), u[1] = Past', Due(0)' = DueAfter(out[1])
  PROVE  Answering'
<1>1. PICK v : Chain(v)' /\ \A i \in 0..Len(out') : v[i] = u[i + 1]
  BY ChainShift
<1>2. out \in Seq(Answer) BY DEF Inv, TypeOK, Answer
<1>3. /\ Len(out) \in Nat /\ Len(out') \in Nat /\ Len(out') + 1 = Len(out)
      /\ \A i \in 1..Len(out') : out'[i] = out[i + 1]
  BY <1>2
<1>4. v[Len(out')] = u[Len(out)] BY <1>1, <1>3
<1>5. Due(Len(out))' = Due(Len(out))
  <2>1. Due(Len(out)) = DueAfter(out[Len(out)]) BY <1>3 DEF Due
  <2>2. CASE Len(out') = 0
    <3>1. Due(Len(out))' = Due(0)' BY <2>2 DEF Due
    <3>2. PICK n \in Nat : n = Len(out') /\ Len(out) = n + 1 BY <1>3
    <3>3. n = 0 BY <2>2, <3>2
    <3>4. Len(out) = 1 BY <3>2, <3>3
    <3> QED BY <2>1, <3>1, <3>4
  <2>3. CASE Len(out') > 0
    <3>1. Due(Len(out))' = DueAfter(out'[Len(out')]) BY <2>3 DEF Due, DueAfter
    <3>2. out'[Len(out')] = out[Len(out)] BY <1>3, <2>3
    <3> QED BY <2>1, <3>1, <3>2
  <2> QED BY <1>3, <2>2, <2>3
<1>6. Sending(v)' /\ Ahead(v)'
  BY <1>4, <1>5, RestAnswering
<1>7. Once(v)'
  <2>1. lab = "3.1" => \A i \in 1..Len(out') : out'[i].part = "err" =>
                          i = Len(out') /\ server \in Gone
    <3> SUFFICES ASSUME lab = "3.1", NEW i \in 1..Len(out'), out'[i].part = "err"
                 PROVE  i = Len(out') /\ server \in Gone
      OBVIOUS
    <3>1. i + 1 \in 1..Len(out) /\ out[i + 1].part = "err" BY <1>3
    <3>2. i + 1 = Len(out) /\ server \in Gone BY <3>1 DEF Once
    <3>3. PICK n \in Nat : n = Len(out') /\ n + 1 = Len(out) BY <1>3
    <3>4. i = n BY <3>2, <3>3
    <3> QED BY <3>2, <3>3, <3>4
  <2> QED BY <1>4, <2>1 DEF Once, serverVars
<1> QED BY <1>1, <1>6, <1>7 DEF Answering

\* What InStep says of a client that waits or reads.
LEMMA InStepNow ==
  ASSUME InStep, lab \in TextLabs, Regular, client \in {"waiting", "sizing", "reading"},
         out # <<>> \/ client # "waiting"
  PROVE  /\ Answering
         /\ client \in {"sizing", "reading"} => taking = Owner(Len(names))
BY DEF InStep, Over

\* An answer is read: the one to the last request.
LEMMA ReadAnswerInStep ==
  ASSUME Inv, InStep, ReadAnswer
  PROVE  InStep'
<1> SUFFICES ASSUME Regular' PROVE InStep'
  BY DEF InStep
<1>1. /\ lab \in TextLabs /\ client = "waiting" /\ out # <<>> /\ out' = Tail(out)
      /\ UNCHANGED <<lab, names, stored, late, torn, serverVars, net, inq>>
      /\ client' = IF Head(out).part = "ok" THEN "sizing" ELSE "typing"
      /\ Head(out).part = "ok" => taking' = Head(out).req
  BY DEF ReadAnswer
<1>2. Regular BY <1>1 DEF Regular
<1>3. PICK u : Chain(u) /\ Sending(u) /\ Ahead(u) /\ Once(u)
  BY <1>1, <1>2, InStepNow DEF Answering
<1>4. out \in Seq(Answer) /\ Len(names) \in Nat BY DEF Inv, TypeOK, Answer
<1>5. 1 \in 1..Len(out) /\ Head(out) = out[1] BY <1>1, <1>4
<1>6. out[1].req = Owner(u[1]) /\ Linked(Due(1 - 1), u[1 - 1], out[1].part, u[1])
  BY <1>3, <1>5 DEF Chain
<1>7. 1 - 1 = 0 /\ Due(0) = "line" /\ u[0] = Len(names) - 1
  BY <1>1, <1>3 DEF Due, Chain, Past
<1>8. Linked("line", Len(names) - 1, out[1].part, u[1]) BY <1>6, <1>7
<1>9. out[1].part \in {"ok", "err"} /\ u[1] = (Len(names) - 1) + 1
  BY <1>8 DEF Linked
<1>10. u[1] = Len(names) BY <1>4, <1>9
<1>11. u[1] = Past' BY <1>1, <1>10 DEF Past
<1>12. Due(0)' = DueAfter(out[1])
  BY <1>1, <1>5, <1>9 DEF Due, DueAfter
<1>13. Answering' BY <1>1, <1>3, <1>11, <1>12, ReadAnswering
<1>14. client' = "sizing" => taking' = Owner(Len(names))'
  BY <1>1, <1>5, <1>6, <1>10 DEF Owner
<1> QED BY <1>1, <1>13, <1>14 DEF InStep

\* A size is read: that of the file announced.
LEMMA ReadSizeInStep ==
  ASSUME Inv, InStep, ReadSize, lab \in TextLabs, Regular'
  PROVE  InStep' /\ Regular /\ taking = Owner(Len(names))
<1>1. /\ client = "sizing" /\ out # <<>> /\ out' = Tail(out) /\ Head(out).part = "size"
      /\ UNCHANGED <<lab, names, taking, late, serverVars, net, inq>> /\ ~torn'
      /\ client' = IF names[taking] = "empty" THEN "typing" ELSE "reading"
      /\ UNCHANGED torn
  BY DEF ReadSize, Regular
<1>2. Regular BY <1>1 DEF Regular
<1>3. PICK u : Chain(u) /\ Sending(u) /\ Ahead(u) /\ Once(u)
  BY <1>1, <1>2, InStepNow DEF Answering
<1>4. out \in Seq(Answer) /\ Len(names) \in Nat BY DEF Inv, TypeOK, Answer
<1>5. 1 \in 1..Len(out) /\ Head(out) = out[1] BY <1>1, <1>4
<1>6. out[1].req = Owner(u[1]) /\ Linked(Due(1 - 1), u[1 - 1], out[1].part, u[1])
  BY <1>3, <1>5 DEF Chain
<1>7. 1 - 1 = 0 /\ Due(0) = "size" /\ u[0] = Len(names)
  BY <1>1, <1>3 DEF Due, Chain, Past
<1>8. Linked("size", Len(names), out[1].part, u[1]) BY <1>6, <1>7
<1>9. u[1] = Len(names) BY <1>8 DEF Linked
<1>10. taking = Owner(Len(names)) BY <1>1, <1>2, InStepNow
<1>11. u[1] = Past' BY <1>1, <1>9 DEF Past
<1>12. Due(0)' = DueAfter(out[1])
  BY <1>1, <1>5, <1>6, <1>9, <1>10 DEF Due, DueAfter
<1>13. Answering' BY <1>1, <1>3, <1>11, <1>12, ReadAnswering
<1>14. taking' = Owner(Len(names))' BY <1>1, <1>10 DEF Owner
<1> QED BY <1>1, <1>2, <1>10, <1>13, <1>14 DEF InStep

\* The stream ends before a size: the server failed.
LEMMA ReadNoSizeInStep ==
  ASSUME Inv, InStep, Closed, ReadNoSize, lab \in TextLabs, client' # "ended"
  PROVE  InStep'
<1> SUFFICES ASSUME Regular' PROVE InStep'
  BY DEF InStep
<1>1. /\ client = "sizing" /\ out = <<>> /\ out' = <<>> /\ AtEOF(net)
      /\ UNCHANGED <<lab, names, taking, late, torn, serverVars>>
      /\ client' \in {"guessing", "typing"} /\ net' = AfterRead(net)
  BY DEF ReadNoSize
<1>2. Regular BY <1>1 DEF Regular
<1>3. PICK u : Chain(u) /\ Sending(u)
  BY <1>1, <1>2, InStepNow DEF Answering
<1>4. server \in Gone BY <1>1 DEF Closed, AtEOF, PeerGone
<1>5. Due(Len(out)) = "size" BY <1>1 DEF Due
<1>6. failed BY <1>3, <1>4, <1>5 DEF Sending, Gone
<1>7. taking' = Owner(Len(names))' BY <1>1, <1>2, InStepNow DEF Owner
<1>8. Over' BY <1>1 DEF Over, AtEOF, PeerGone, AfterRead
<1>9. failed' BY <1>1, <1>6 DEF serverVars
<1> QED BY <1>7, <1>8, <1>9 DEF InStep

\* A content is read, that of the file announced; in Lab 3.1 the error that
\* follows the announcement of a directory.
LEMMA ReadContentInStep ==
  ASSUME Inv, InStep, ReadContent, lab \in TextLabs, Regular'
  PROVE  /\ InStep'
         /\ Regular /\ taking = Owner(Len(names))
         /\ out[1].part = "content" => out[1].req = taking
<1>1. /\ client = "reading" /\ out # <<>> /\ out' = Tail(out)
      /\ UNCHANGED <<lab, names, taking, late, torn, serverVars, net, inq>>
      /\ client' = IF Head(out).part = "content" THEN "typing" ELSE "reading"
  BY DEF ReadContent
<1>2. Regular BY <1>1 DEF Regular
<1>3. PICK u : Chain(u) /\ Sending(u) /\ Ahead(u) /\ Once(u)
  BY <1>1, <1>2, InStepNow DEF Answering
<1>4. out \in Seq(Answer) /\ Len(names) \in Nat BY DEF Inv, TypeOK, Answer
<1>5. 1 \in 1..Len(out) /\ Head(out) = out[1] BY <1>1, <1>4
<1>6. out[1].req = Owner(u[1]) /\ Linked(Due(1 - 1), u[1 - 1], out[1].part, u[1])
  BY <1>3, <1>5 DEF Chain
<1>7. 1 - 1 = 0 /\ Due(0) = "content" /\ u[0] = Len(names)
  BY <1>1, <1>3 DEF Due, Chain, Past
<1>8. Linked("content", Len(names), out[1].part, u[1]) BY <1>6, <1>7
<1>9. taking = Owner(Len(names)) BY <1>1, <1>2, InStepNow
<1>10. CASE out[1].part = "content"
  <2>1. u[1] = Len(names) BY <1>8, <1>10 DEF Linked
  <2>2. client' = "typing" BY <1>1, <1>5, <1>10
  <2>3. u[1] = Past' /\ Due(0)' = DueAfter(out[1])
    BY <1>1, <1>10, <2>1, <2>2 DEF Past, Due, DueAfter
  <2>4. Answering' BY <1>1, <1>3, <2>3, ReadAnswering
  <2> QED BY <1>2, <1>6, <1>9, <2>1, <2>2, <2>4 DEF InStep
<1>11. CASE out[1].part # "content"
  <2>1. Bare(Len(names)) /\ out[1].part = "err" BY <1>8, <1>11 DEF Linked
  <2>2. lab = "3.1" /\ 1 = Len(out) /\ server \in Gone
    BY <1>3, <1>5, <2>1 DEF Once, Bare
  <2>3. out' = <<>> /\ Len(out') = 0 /\ client' = "reading"
    BY <1>1, <1>4, <1>5, <1>11, <2>2
  <2>4. PICK v : v = [i \in 0..0 |-> Len(names)] OBVIOUS
  <2>5. v \in [0..0 -> Nat] /\ v[0] = Len(names) /\ 0..0 = {0}
    BY <1>4, <2>4
  <2>6. Due(0)' = "content" /\ Past' = Len(names) BY <1>1, <2>3 DEF Due, Past
  <2>7. Chain(v)'
    <3>1. v \in [0..Len(out') -> Nat] /\ v[0] = Past' BY <2>3, <2>5, <2>6
    <3>2. 1..Len(out') = {} /\ \A i, j \in 0..Len(out') : i = j
      BY <2>3
    <3>3. \A i \in 0..Len(out') : v[i] \in Nat BY <3>1
    <3>4. \A i, j \in 0..Len(out') : v[i] <= v[j] BY <3>2, <3>3
    <3> QED BY <3>1, <3>2, <3>4 DEF Chain
  <2>8. server' \in Gone BY <1>1, <2>2 DEF serverVars
  <2>9. Sending(v)'
    <3>1. names'[Owner(v[Len(out)])'] = "directory"
      BY <1>1, <2>1, <2>3, <2>5 DEF Bare, Owner
    <3>2. Due(Len(out))' = "content" BY <2>3, <2>6
    <3> QED BY <2>8, <3>1, <3>2 DEF Sending, Gone
  <2>10. Ahead(v)' /\ Once(v)' BY <2>3, <2>8 DEF Ahead, Once
  <2>11. Answering' BY <2>7, <2>9, <2>10 DEF Answering
  <2>12. taking' = Owner(Len(names))' BY <1>1, <1>9 DEF Owner
  <2> QED BY <1>2, <1>9, <1>11, <2>3, <2>11, <2>12 DEF InStep
<1> QED BY <1>10, <1>11

\* Two lines make a request, or one.
LEMMA LinesMore ==
  ASSUME lab \in TextLabs, NEW n \in Nat
  PROVE  LET k == LinesOf(n) IN
         /\ k \in Nat
         /\ LineAt(k + 1) = [req |-> n + 1, line |-> "get"]
         /\ lab \in PairLabs => /\ LineAt(k + 2) = [req |-> n + 1, line |-> "blank"]
                                /\ LinesOf(n + 1) = k + 2
         /\ lab \notin PairLabs => LinesOf(n + 1) = k + 1
<1>1. CASE lab \in PairLabs
  <2>1. LinesOf(n) = 2 * n /\ LinesOf(n + 1) = 2 * n + 2 /\ 2 * n \in Nat
    BY <1>1 DEF LinesOf
  <2>2. /\ (2 * n + 1) % 2 = 1 /\ (2 * n + 2) % 2 # 1
        /\ ((2 * n + 1) + 1) \div 2 = n + 1 /\ ((2 * n + 2) + 1) \div 2 = n + 1
    OBVIOUS
  <2> QED BY <1>1, <2>1, <2>2 DEF LineAt, Asks, Owner
<1>2. CASE lab \notin PairLabs
  <2>1. LinesOf(n) = n /\ LinesOf(n + 1) = n + 1 BY <1>2 DEF LinesOf
  <2> QED BY <1>2, <2>1 DEF LineAt, Asks, Owner
<1> QED BY <1>1, <1>2

\* One or two elements are added to a sequence.
LEMMA Added ==
  ASSUME NEW S, NEW s \in Seq(S), NEW x, NEW y
  PROVE  /\ Len(s \o <<x>>) = Len(s) + 1 /\ Len(s \o <<x, y>>) = Len(s) + 2
         /\ (s \o <<x>>)[Len(s) + 1] = x
         /\ (s \o <<x, y>>)[Len(s) + 1] = x /\ (s \o <<x, y>>)[Len(s) + 2] = y
         /\ \A i \in 1..Len(s) : (s \o <<x>>)[i] = s[i] /\ (s \o <<x, y>>)[i] = s[i]
<1>1. PICK T : T = S \cup {x, y} OBVIOUS
<1>2. x \in T /\ y \in T /\ S \subseteq T BY <1>1
<1>3. s \in Seq(T) BY <1>2, SeqWiden
<1>4. <<x>> \in Seq(T) /\ <<x, y>> \in Seq(T) BY <1>2
<1>5. PICK n \in Nat : n = Len(s) BY <1>3
<1>6. Len(<<x>>) = 1 /\ Len(<<x, y>>) = 2 OBVIOUS
<1>7. Len(s \o <<x>>) = n + 1 /\ Len(s \o <<x, y>>) = n + 2
  BY <1>3, <1>4, <1>5, <1>6
<1>8. \A i \in 1..n : (s \o <<x>>)[i] = s[i] /\ (s \o <<x, y>>)[i] = s[i]
  BY <1>3, <1>4, <1>5, <1>6
<1>9. (s \o <<x>>)[n + 1] = <<x>>[1]
  BY <1>3, <1>4, <1>5, <1>6
<1>10. (s \o <<x, y>>)[n + 1] = <<x, y>>[1] /\ (s \o <<x, y>>)[n + 2] = <<x, y>>[2]
  BY <1>3, <1>4, <1>5, <1>6
<1> QED BY <1>5, <1>7, <1>8, <1>9, <1>10

\* q is inq with the lines of request r after it.
Longer(q, r) ==
  LET n == Len(inq) IN
  /\ \A i \in 1..n : q[i] = inq[i]
  /\ q[n + 1] = [req |-> r, line |-> "get"]
  /\ lab \in PairLabs => Len(q) = n + 2 /\ q[n + 2] = [req |-> r, line |-> "blank"]
  /\ lab \notin PairLabs => Len(q) = n + 1

\* The lines q are those of m requests from line p on.
Remaining(q, p, m) == p + Len(q) = LinesOf(m) /\ \A i \in 1..Len(q) : q[i] = LineAt(p + i)

\* The lines of one more request follow those that were written.
LEMMA LinesFollow ==
  ASSUME Inv, lab \in TextLabs, NEW p \in Nat, NEW m \in Nat, m = Len(names),
         Remaining(inq, p, m), NEW r, r = m + 1, NEW q, Longer(q, r)
  PROVE  Remaining(q, p, r)
<1>1. PICK n \in Nat : n = Len(inq) BY DEF Inv, TypeOK
<1>2. PICK x, y : x = [req |-> r, line |-> "get"] /\ y = [req |-> r, line |-> "blank"]
  OBVIOUS
<1>3. /\ \A i \in 1..n : q[i] = inq[i]
      /\ q[n + 1] = x
      /\ lab \in PairLabs => Len(q) = n + 2 /\ q[n + 2] = y
      /\ lab \notin PairLabs => Len(q) = n + 1
  BY <1>1, <1>2 DEF Longer
<1>4. p + n = LinesOf(m) /\ \A i \in 1..n : inq[i] = LineAt(p + i)
  BY <1>1 DEF Remaining
<1>5. p + n \in Nat OBVIOUS
<1>6. LineAt((p + n) + 1) = x /\ (lab \notin PairLabs => LinesOf(r) = (p + n) + 1)
      /\ (lab \in PairLabs => LineAt((p + n) + 2) = y /\ LinesOf(r) = (p + n) + 2)
  BY <1>2, <1>4, LinesMore
<1>7. p + (n + 1) = (p + n) + 1 /\ p + (n + 2) = (p + n) + 2 OBVIOUS
<1>8. \A i \in 1..n : q[i] = LineAt(p + i) BY <1>3, <1>4
<1>9. CASE lab \in PairLabs
  <2>1. \A i \in 1..(n + 2) : i \in 1..n \/ i = n + 1 \/ i = n + 2 OBVIOUS
  <2> QED BY <1>3, <1>6, <1>7, <1>8, <1>9, <2>1 DEF Remaining
<1>10. CASE lab \notin PairLabs
  <2>1. \A i \in 1..(n + 1) : i \in 1..n \/ i = n + 1 OBVIOUS
  <2> QED BY <1>3, <1>6, <1>7, <1>8, <1>10, <2>1 DEF Remaining
<1> QED BY <1>9, <1>10

\* A request is made: nothing is numbered anew.
LEMMA RequestInStep ==
  ASSUME Inv, Inv', InStep, Closed, lab \in TextLabs, NEW n \in Names, NEW lines, NEW fatal,
         lines = IF lab \in PairLabs THEN <<"get", "blank">> ELSE <<"get">>,
         Request(n, lines, fatal)
  PROVE  InStep'
<1> SUFFICES ASSUME Regular', client' # "ended" PROVE InStep'
  BY DEF InStep
<1>1. /\ UNCHANGED <<lab, taking, stored, late, torn, serverVars, out>>
      /\ client = "typing" /\ client' = "waiting" /\ names' = Append(names, n)
      /\ net' = AfterWrite(net)
      /\ inq' = IF net # "open" THEN inq
                ELSE inq \o [i \in DOMAIN lines |->
                               [req |-> Len(names) + 1, line |-> lines[i]]]
  BY DEF Request
<1>2. names \in Seq(Names) /\ Len(names) \in Nat /\ Len(names') = Len(names) + 1
      /\ \A i \in DOMAIN names : i \in DOMAIN names' /\ names'[i] = names[i]
  BY <1>1 DEF Inv, TypeOK
<1>3. Regular BY <1>1, <1>2 DEF Regular
<1>4. CASE Over
  BY <1>1, <1>4 DEF Over, AfterWrite, InStep
<1>5. CASE Answering
  <2>1. PICK u : Chain(u) /\ Sending(u) /\ Ahead(u) /\ Once(u)
    BY <1>5 DEF Answering
  <2>2. /\ Len(out) \in Nat
        /\ \A i \in 0..Len(out) : u[i] \in Nat
        /\ \A i \in 1..Len(out) : out[i].req = Owner(u[i]) /\ out[i] \in Answer
    BY <1>1, <2>1, ChainFacts
  <2>3. \A i \in 1..Len(out) : Owner(u[i]) \in DOMAIN names
    <3>1. \A i \in 1..Len(out) : Owner(u[i]) \in 1..Len(names) BY <2>2 DEF Answer
    <3> QED BY <1>2, <3>1
  <2>4. \A i \in 0..Len(out) : Due(i)' = Due(i)
    <3>1. \A i \in 1..Len(out) : names'[out[i].req] = names[out[i].req]
      BY <1>2, <2>2, <2>3
    <3>2. \A i \in 0..Len(out) : i = 0 \/ i \in 1..Len(out) BY <2>2
    <3>3. \A i \in 1..Len(out) : DueAfter(out[i])' = DueAfter(out[i])
      BY <1>1, <3>1 DEF DueAfter
    <3> QED BY <1>1, <3>2, <3>3 DEF Due
  <2>5. Past' = Past
    BY <1>1, <1>2 DEF Past
  <2>6. ASSUME NEW i \in 1..Len(out)
        PROVE  Linked(Due(i - 1), u[i - 1], out[i].part, u[i])'
    <3>1. Linked(Due(i - 1), u[i - 1], out[i].part, u[i]) BY <2>1 DEF Chain
    <3>2. i - 1 \in 0..Len(out) BY <2>2
    <3>3. CASE Due(i - 1) = "content"
      <4>1. i # 1 BY <1>1, <3>3 DEF Due
      <4>2. i - 1 \in 1..Len(out) BY <2>2, <4>1
      <4>3. Bare(u[i - 1])' <=> Bare(u[i - 1])
        BY <1>1, <1>2, <2>3, <4>2 DEF Bare, Owner
      <4> QED BY <1>1, <2>4, <3>1, <3>2, <3>3, <4>3 DEF Linked
    <3>4. CASE Due(i - 1) # "content"
      BY <1>1, <2>4, <3>1, <3>2, <3>4 DEF Linked
    <3> QED BY <3>3, <3>4
  <2>7. Chain(u)'
    BY <1>1, <2>1, <2>5, <2>6 DEF Chain, Owner
  <2>8. Sending(u)'
    <3>0. Due(Len(out))' = Due(Len(out))
      <4>1. Len(out) \in 0..Len(out) BY <2>2
      <4> QED BY <1>1, <2>4, <4>1
    <3>1. server \in {"sizing", "sending"} => names'[job] = names[job]
      BY <1>2 DEF Inv, TypeOK
    <3>2. CASE Due(Len(out)) # "line"
      <4>1. Len(out) # 0 BY <1>1, <3>2 DEF Due
      <4>2. Len(out) \in 1..Len(out) BY <2>2, <4>1
      <4>3. names'[Owner(u[Len(out)])] = names[Owner(u[Len(out)])]
        BY <1>2, <2>3, <4>2
      <4> QED BY <1>1, <2>1, <3>0, <3>1, <4>3 DEF Sending, Bare, Owner, serverVars
    <3>3. CASE Due(Len(out)) = "line"
      BY <1>1, <2>1, <3>0, <3>1, <3>3 DEF Sending, Owner, serverVars
    <3> QED BY <3>2, <3>3
  <2>9. Ahead(u)'
    <3> SUFFICES ASSUME server \notin Gone
                 PROVE  (/\ u[Len(out)] + Len(inq) = LinesOf(Len(names))
                         /\ \A i \in 1..Len(inq) : inq[i] = LineAt(u[Len(out)] + i))'
      BY <1>1 DEF Ahead, serverVars
    <3>1. net = "open" BY DEF Closed
    <3>2. PICK p \in Nat : p = u[Len(out)] BY <2>2
    <3>3. PICK r, q : r = Len(names) + 1 /\ q = inq' OBVIOUS
    <3>4. Remaining(inq, p, Len(names))
      BY <2>1, <3>2 DEF Ahead, Remaining
    <3>5. PICK x, y : x = [req |-> r, line |-> "get"] /\ y = [req |-> r, line |-> "blank"]
      OBVIOUS
    <3>6. q = inq \o (IF lab \in PairLabs THEN <<x, y>> ELSE <<x>>)
      <4>1. PICK t : t = [i \in DOMAIN lines |-> [req |-> r, line |-> lines[i]]]
        OBVIOUS
      <4>2. q = inq \o t BY <1>1, <3>1, <3>3, <4>1
      <4>3. lab \in PairLabs => t = <<x, y>> BY <3>5, <4>1
      <4>4. lab \notin PairLabs => t = <<x>> BY <3>5, <4>1
      <4> QED BY <4>2, <4>3, <4>4
    <3>9. inq \in Seq(Line) BY DEF Inv, TypeOK, Line
    <3>10. Longer(q, r)
      BY <3>5, <3>6, <3>9, Added DEF Longer
    <3>11. Remaining(q, p, r)
      BY <1>2, <3>3, <3>4, <3>10, LinesFollow
    <3>12. p + Len(q) = LinesOf(r) /\ \A i \in 1..Len(q) : q[i] = LineAt(p + i)
      BY <3>11 DEF Remaining
    <3>7. LinesOf(Len(names))' = LinesOf(r)
      BY <1>1, <1>2, <3>3 DEF LinesOf
    <3>8. \A i \in 1..Len(q) : LineAt(p + i)' = LineAt(p + i)
      BY <1>1 DEF LineAt, Asks, Owner
    <3> QED BY <1>1, <3>2, <3>3, <3>12, <3>7, <3>8
  <2>10. Once(u)' BY <1>1, <2>1 DEF Once, serverVars
  <2> QED BY <1>1, <2>7, <2>8, <2>9, <2>10 DEF Answering, InStep
<1> QED BY <1>1, <1>3, <1>4, <1>5 DEF InStep

-----------------------------------------------------------------------------
(* Every step keeps the parts of the invariant. *)

\* The five servers of text, and a line that is carried out by one.
Command(l) ==
  \/ Command23(l) \/ Command31(l) \/ CommandOld(l) \/ Command33(l) \/ Command33t(l)

\* A line that is carried out.
LEMMA CommandAnswering ==
  ASSUME Inv, Closed, Answering, Regular, client # "ended", NEW l, Command(l)
  PROVE  Answering'
<1>1. /\ UNCHANGED <<lab, clientVars>> /\ server = "reading" /\ NextLine(l)
      /\ lab \in TextLabs
  BY DEF Command, Command23, Command31, CommandOld, Command33, Command33t, TextLabs
<1>2. PICK u : Chain(u) /\ Sending(u) /\ Ahead(u) /\ Once(u)
  BY DEF Answering
<1>3. l = LineAt(u[Len(out)] + 1) BY <1>1, <1>2, NextOf
<1>4. l.line \in {"get", "blank"} BY <1>3 DEF LineAt
<1>5. l.req \in 1..Len(names) BY <1>1, <1>4, Taken
<1>6. \/ l.line = "get" /\ Begin(l.req)
      \/ lab # "3.1" /\ (\E next \in {"done", "reading"} : Refuse(l.req, next))
      \/ lab = "3.1" /\ GiveUp("dead")
      \/ /\ lab = "3.1" /\ l.line = "blank"
         /\ Closes(Says(l.req, "err"), "spinning") /\ UNCHANGED failed
      \/ lab = "3.3t" /\ names[l.req] = "unreadable"
  BY <1>4 DEF Command, Command23, Command31, CommandOld, Command33, Command33t
<1>7. CASE l.line = "get" /\ Begin(l.req)
  <2>1. lab # "3.4" BY <1>1 DEF TextLabs
  <2> QED BY <1>1, <1>5, <1>7, <2>1, SayAnswering DEF Begin, Says
<1>8. CASE lab # "3.1" /\ (\E next \in {"done", "reading"} : Refuse(l.req, next))
  BY <1>1, <1>5, <1>8, SayAnswering DEF Refuse, Says
<1>9. CASE lab = "3.1" /\ GiveUp("dead")
  BY <1>1, <1>2, <1>9, CloseAnswering DEF GiveUp, Gone
<1>10. CASE /\ lab = "3.1" /\ l.line = "blank"
            /\ Closes(Says(l.req, "err"), "spinning") /\ UNCHANGED failed
  BY <1>1, <1>5, <1>10, BlankAnswering DEF Says
<1>11. CASE lab = "3.3t" /\ names[l.req] = "unreadable"
  <2>1. l.req \in DOMAIN names BY <1>5 DEF Inv, TypeOK
  <2> QED BY <1>11, <2>1 DEF Regular
<1> QED BY <1>6, <1>7, <1>8, <1>9, <1>10, <1>11

\* The steps of the server and of the network.
LEMMA ServerInStep ==
  ASSUME Inv, Inv', InStep, Closed,
         \/ Accept \/ Accept34 \/ SendSize \/ Send \/ ServerEnd \/ Command34
         \/ (\E l : Command(l)) \/ Idle33t \/ ServerDies \/ ResetArrives
  PROVE  InStep'
<1>1. UNCHANGED <<lab, clientVars>>
  BY DEF Accept, Accept34, Accepts, SendSize, Send, ServerEnd, Command34, Command,
         Command23, Command31, CommandOld, Command33, Command33t, Idle33t, ServerDies, ResetArrives
<1> SUFFICES ASSUME lab \in TextLabs, client # "ended", Regular'
             PROVE  /\ Over' \/ (client # "guessing" /\ Answering')
                    /\ failed => failed'
  BY <1>1 DEF InStep, Regular, clientVars, Owner
<1>2. Regular BY <1>1 DEF Regular, clientVars
<1>3. Over \/ (client # "guessing" /\ Answering) BY <1>2 DEF InStep
<1>4. lab # "3.4" BY DEF TextLabs
<1>7. failed => failed'
  BY DEF Accept, Accept34, Accepts, SendSize, Send, ServerEnd, Command34, Command,
         Command23, Command31, CommandOld, Command33, Command33t, Idle33t, ServerDies,
         ResetArrives, Begin, Refuse, GiveUp, serverVars
<1>5. CASE ResetArrives
  <2>1. Over => Over' BY <1>5 DEF Over, ResetArrives, clientVars
  <2>2. server \in Gone BY <1>5 DEF ResetArrives, Closed
  <2>3. Answering => Answering'
    BY <1>1, <1>5, <2>2, IdleAnswering DEF ResetArrives, serverVars, Gone
  <2> QED BY <1>3, <1>7, <2>1, <2>3
<1>6. CASE ~ResetArrives
  <2>1. server \notin Gone
    BY <1>6 DEF Accept, Accept34, Accepts, SendSize, Send, ServerEnd, Command34, Command,
                Command23, Command31, CommandOld, Command33, Command33t, Idle33t, ServerDies, Gone
  <2>2. client # "guessing" /\ Answering BY <1>3, <2>1 DEF Over, Closed
  <2>3. CASE Accept \/ Accept34
    BY <1>1, <1>7, <2>2, <2>3, IdleAnswering DEF Accept, Accept34, Accepts, netVars
  <2>4. CASE SendSize \/ Send
    BY <1>4, <1>7, <2>2, <2>4, SizeAnswering, SendAnswering
  <2>5. CASE ServerEnd BY <2>5 DEF ServerEnd
  <2>6. CASE Command34 BY <1>4, <2>6 DEF Command34
  <2>7. CASE \E l : Command(l)
    BY <1>2, <1>7, <2>2, <2>7, CommandAnswering
  <2>8. CASE Idle33t \/ ServerDies
    <3>1. PICK u : Chain(u) /\ Once(u) BY <2>2 DEF Answering
    <3>2. PICK next \in Gone : Closes(out, next) /\ failed' = TRUE
      BY <2>8 DEF Idle33t, ServerDies, GiveUp, Gone
    <3>3. Answering' BY <1>1, <2>1, <3>1, <3>2, CloseAnswering
    <3> QED BY <1>7, <2>2, <3>3
  <2> QED BY <1>6, <2>3, <2>4, <2>5, <2>6, <2>7, <2>8
<1> QED BY <1>5, <1>6

\* The steps of the client.
LEMMA ClientInStep ==
  ASSUME Inv, Inv', InStep, Closed, Receive \/ User \/ TimeOut
  PROVE  InStep'
<1> SUFFICES ASSUME lab' \in TextLabs, client' # "ended", Regular' PROVE InStep'
  BY DEF InStep
<1>1. CASE ReadAnswer BY <1>1, ReadAnswerInStep
<1>2. CASE ReadContent
  <2>1. lab \in TextLabs BY <1>2 DEF ReadContent
  <2> QED BY <1>2, <2>1, ReadContentInStep
<1>3. CASE ReadNoAnswer \/ ReadNoContent
  <2>1. out = <<>> /\ out' = <<>> /\ AtEOF(net) /\ net' = AfterRead(net)
        /\ client' = "typing"
    BY <1>3 DEF ReadNoAnswer, ReadNoContent
  <2>2. Over' BY <2>1 DEF Over, AtEOF, PeerGone, AfterRead
  <2> QED BY <2>1, <2>2 DEF InStep
<1>8. CASE ReadSize
  <2>1. lab \in TextLabs BY <1>8 DEF ReadSize
  <2> QED BY <1>8, <2>1, ReadSizeInStep
<1>9. CASE ReadNoSize
  <2>1. lab \in TextLabs BY <1>9 DEF ReadNoSize
  <2> QED BY <1>9, <2>1, ReadNoSizeInStep
<1>10. CASE ReadPartOfSize \/ Misread
  BY <1>10 DEF ReadPartOfSize, Misread, Regular
<1>4. CASE Message34 BY <1>4 DEF Message34, TextLabs
<1>5. CASE \E n \in Names : Request23(n) \/ Request31(n) \/ Request33(n) \/ Request34(n)
  <2>1. PICK n \in Names : Request23(n) \/ Request31(n) \/ Request33(n) \/ Request34(n)
    BY <1>5
  <2>2. PICK lines, fatal : Request(n, lines, fatal)
          /\ (lab = "3.4" \/ lines = IF lab \in PairLabs THEN <<"get", "blank">> ELSE <<"get">>)
    BY <2>1 DEF Request23, Request31, Request33, Request34, PairLabs, TextLabs
  <2>3. lab \in TextLabs /\ lab # "3.4" BY <2>2 DEF Request, TextLabs
  <2> QED BY <2>2, <2>3, RequestInStep
<1>6. CASE Quit \/ ClientDies BY <1>6 DEF Quit, ClientDies
<1>7. CASE TimeOut BY <1>7 DEF TimeOut, Regular
<1> QED BY <1>1, <1>2, <1>3, <1>4, <1>5, <1>6, <1>7, <1>8, <1>9, <1>10
        DEF Receive, User

\* A connection is only closed or cut by a server that is done with it.
LEMMA ClosedKept ==
  ASSUME Inv, Closed, [Next]_vars
  PROVE  Closed'
<1>1. CASE Accept \/ Accept34 \/ SendSize \/ Send \/ ServerEnd \/ UNCHANGED vars
  BY <1>1 DEF Accept, Accept34, Accepts, SendSize, Send, ServerEnd, Closed, netVars, vars,
              serverVars, Gone
<1>2. CASE Command34
  BY <1>2 DEF Command34, Begin, Refuse, GiveUp, Closes, Closed, Gone
<1>3. CASE \E l : Command(l)
  BY <1>3 DEF Command, Command23, Command31, CommandOld, Command33, Command33t, Begin,
              Refuse, GiveUp, Closes, Closed, serverVars, Gone
<1>4. CASE Idle33t \/ ServerDies
  BY <1>4 DEF Idle33t, ServerDies, GiveUp, Closes, Closed, Gone
<1>5. CASE ResetArrives
  BY <1>5 DEF ResetArrives, Closed, serverVars
<1>6. CASE User \/ TimeOut
  BY <1>6 DEF User, Request23, Request31, Request33, Request34, Request, Quit, ClientDies,
              TimeOut, AfterWrite, Closed, serverVars, netVars
<1>7. CASE Receive
  BY <1>7 DEF Receive, ReadAnswer, ReadNoAnswer, ReadSize, ReadPartOfSize, ReadNoSize,
              ReadContent, ReadNoContent, Misread, Message34, AfterRead, Closed,
              serverVars, netVars
<1>8. CASE \E r \in 0..MaxReq, line \in {"get", "blank", "quit"} :
             LET l == [req |-> r, line |-> line]
             IN  \/ Command23(l) \/ Command31(l) \/ CommandOld(l)
                 \/ Command33(l) \/ Command33t(l)
  BY <1>3, <1>8 DEF Command
<1> QED BY <1>1, <1>2, <1>4, <1>5, <1>6, <1>7, <1>8 DEF Next, Server

\* Nothing is left of a stream of one, or two, messages.
LEMMA RestsNone ==
  ASSUME NEW S, NEW s \in Seq(S), NEW k \in Nat, Len(s) <= k, NEW t \in Rests(s, k)
  PROVE  t = <<>>
<1>1. PICK n \in k..Len(s) : t = SubSeq(s, n + 1, Len(s)) BY DEF Rests
<1>2. n = Len(s) /\ n \in Nat BY <1>1
<1>3. t \in Seq(S) /\ Len(t) = 0 BY <1>1, <1>2
<1> QED BY <1>3

\* The length of a short sequence.
LEMMA Short ==
  ASSUME NEW S, NEW s \in Seq(S)
  PROVE  /\ Len(s) \in Nat /\ (s # <<>> <=> Len(s) > 0)
         /\ s # <<>> => 1 \in 1..Len(s) /\ Head(s) = s[1]
         /\ s # <<>> /\ Len(s) <= 1 => Len(s) = 1
         /\ Len(s) = 1 => s # <<>> /\ Len(s) <= 1 /\ Len(s) <= 2 /\ 1 \in 1..Len(s)
<1>1. PICK n \in Nat : n = Len(s) OBVIOUS
<1>2. s # <<>> <=> n > 0 BY <1>1
<1>3. s # <<>> => Head(s) = s[1] OBVIOUS
<1>4. (n > 0 => 1 \in 1..n) /\ (n > 0 /\ n <= 1 => n = 1)
      /\ (n = 1 => n > 0 /\ n <= 1 /\ n <= 2 /\ 1 \in 1..n)
  OBVIOUS
<1> QED BY <1>1, <1>2, <1>3, <1>4

\* A session of Lab 3.4 keeps to one message at a time.
LEMMA AloneKept ==
  ASSUME Inv, Inv', Alone, [Next]_vars
  PROVE  Alone'
<1> SUFFICES ASSUME lab' = "3.4", client' # "ended" PROVE Alone'
  BY DEF Alone
<1>0. /\ inq \in Seq(Line) /\ out \in Seq(Answer) /\ names \in Seq(Names)
      /\ Len(inq) \in Nat /\ Len(out) \in Nat /\ Len(names) \in Nat
      /\ Len(<<>>) = 0
  BY DEF Inv, TypeOK, Line, Answer
<1>1. CASE Accept \/ Accept34 \/ ResetArrives
  BY <1>1 DEF Alone, Accept, Accept34, Accepts, ResetArrives, clientVars, netVars, serverVars
<1>2. CASE UNCHANGED vars
  BY <1>2 DEF Alone, vars, clientVars, netVars, serverVars
<1>3. CASE Send
  <2>1. /\ UNCHANGED <<lab, client, names, torn, inq>> /\ server = "sending"
        /\ server' = "reading" /\ lab = "3.4"
    BY <1>3 DEF Send, clientVars
  <2>2. PICK m : m = [req |-> job, part |-> "content"] OBVIOUS
  <2>3. out' = Append(out, m) BY <1>3, <2>1, <2>2 DEF Send, Says, NoBytes
  <2>4. /\ client = "waiting" /\ Len(out) = 1 /\ job = Len(names) /\ inq = <<>>
        /\ out[1].part # "err" /\ out[1].req = Len(names)
    <3>1. client = "waiting" /\ Len(out) = 1 /\ job = Len(names)
      BY <2>1 DEF Alone
    <3>2. out # <<>> /\ 1 \in 1..Len(out) BY <1>0, <3>1, Short
    <3> QED BY <2>1, <3>1, <3>2 DEF Alone
  <2>5. /\ Len(out') = 2 /\ out'[1] = out[1] /\ out'[2] = m
        /\ \A i \in 1..Len(out') : i = 1 \/ i = 2
    <3>1. m \in Answer
      BY <2>1, <2>2 DEF Answer, Parts, Inv, TypeOK
    <3>2. PICK k \in Nat : k = Len(out) BY <1>0
    <3>3. Len(out') = k + 1 /\ out'[k + 1] = m /\ \A i \in 1..k : out'[i] = out[i]
      BY <1>0, <2>3, <3>1, <3>2
    <3>4. k = 1 BY <2>4, <3>2
    <3>5. \A i \in 1..(k + 1) : i = 1 \/ i = 2 BY <3>4
    <3> QED BY <3>3, <3>4, <3>5
  <2>6. \A i \in 1..Len(out') : out'[i].req = Len(names)
    BY <2>2, <2>4, <2>5
  <2> QED BY <1>0, <2>1, <2>4, <2>5, <2>6 DEF Alone
<1>4. CASE Command34
  <2>1. /\ UNCHANGED <<lab, client, names, torn>> /\ lab = "3.4" /\ inq # <<>>
        /\ inq' \in Rests(inq, 1) /\ server = "reading"
    BY <1>4 DEF Command34, clientVars
  <2>2. Len(inq) <= 1 BY <2>1 DEF Alone
  <2>3. Len(inq) = 1 /\ 1 \in 1..Len(inq)
    BY <1>0, <2>1, <2>2, Short
  <2>4. /\ client = "waiting" /\ out = <<>>
        /\ inq[1] = [req |-> Len(names), line |-> "get"]
    BY <2>1, <2>3 DEF Alone
  <2>5. inq' = <<>>
    <3>1. 1 \in Nat OBVIOUS
    <3> QED BY <1>0, <2>1, <2>2, <3>1, RestsNone
  <2>6. PICK l : l = [req |-> Len(names), line |-> "get"] OBVIOUS
  <2>7. Head(inq) = l /\ l.req = Len(names) /\ l.line = "get"
    BY <1>0, <2>1, <2>4, <2>6
  <2>8. \/ Begin(Len(names)) \/ Refuse(Len(names), "reading") \/ GiveUp("closed")
    BY <1>4, <2>7 DEF Command34
  <2>9. CASE Begin(Len(names))
    <3>1. PICK m : m = [req |-> Len(names), part |-> "ok"] OBVIOUS
    <3>2. out' = <<m>> /\ server' = "sending" /\ job' = Len(names)
      BY <2>1, <2>4, <2>9, <3>1 DEF Begin, Says
    <3>3. Len(out') = 1 /\ out'[1].part = "ok" /\ out'[1].req = Len(names)
          /\ \A i \in 1..Len(out') : i = 1
      BY <3>1, <3>2
    <3> QED BY <1>0, <2>1, <2>4, <2>5, <3>2, <3>3 DEF Alone
  <2>10. CASE Refuse(Len(names), "reading")
    <3>1. PICK m : m = [req |-> Len(names), part |-> "err"] OBVIOUS
    <3>2. out' = <<m>> /\ server' = "reading"
      BY <2>4, <2>10, <3>1 DEF Refuse, Says
    <3>3. Len(out') = 1 /\ out'[1].part = "err" /\ out'[1].req = Len(names)
          /\ \A i \in 1..Len(out') : i = 1
      BY <3>1, <3>2
    <3> QED BY <1>0, <2>1, <2>4, <2>5, <3>2, <3>3 DEF Alone
  <2>11. CASE GiveUp("closed")
    <3>1. server' \in Gone /\ out' \in {out} \cup {SubSeq(out, 1, n) : n \in 0..Len(out)}
      BY <2>11 DEF GiveUp, Closes, Gone
    <3>2. out' = <<>> BY <1>0, <2>4, <3>1
    <3> QED BY <1>0, <2>1, <2>4, <2>5, <3>1, <3>2 DEF Alone, Gone
  <2> QED BY <2>8, <2>9, <2>10, <2>11
<1>5. CASE ServerDies
  <2>1. /\ UNCHANGED <<lab, client, names, torn, inq>> /\ server' \in Gone /\ lab = "3.4"
        /\ out' \in {out} \cup {SubSeq(out, 1, n) : n \in 0..Len(out)}
    BY <1>5 DEF ServerDies, GiveUp, Closes, clientVars, Gone
  <2>2. PICK n \in 0..Len(out) : Len(out') = n /\ \A i \in 1..n : out'[i] = out[i]
    <3>1. CASE out' = out BY <1>0, <3>1
    <3>2. CASE out' \in {SubSeq(out, 1, n) : n \in 0..Len(out)} BY <1>0, <3>2
    <3> QED BY <2>1, <3>1, <3>2
  <2>3. out' \in Seq(Answer) BY <2>1 DEF Inv, TypeOK, Answer
  <2>4. out' # <<>> => out # <<>> /\ n > 0 /\ 1 \in 1..n /\ out'[1] = out[1]
    BY <1>0, <2>2, <2>3
  <2>5. n <= Len(out) /\ \A i \in 1..n : i \in 1..Len(out) BY <1>0
  <2>6. \A i \in 1..Len(out') : out'[i].req = Len(names)
    BY <2>1, <2>2, <2>5 DEF Alone
  <2>7. inq # <<>> \/ out' # <<>> => client = "waiting" BY <2>1, <2>4 DEF Alone
  <2>8. inq # <<>> => out' = <<>> BY <2>1, <2>4 DEF Alone
  <2>9. out' # <<>> => IF out'[1].part = "err" THEN Len(out') = 1 ELSE Len(out') <= 2
    <3>1. out' # <<>> => IF out[1].part = "err" THEN Len(out) = 1 ELSE Len(out) <= 2
      BY <2>1, <2>4 DEF Alone
    <3> QED BY <1>0, <2>2, <2>4, <2>5, <3>1
  <2>10. client \notin {"sizing", "reading", "guessing"} /\ ~torn /\ Len(inq) <= 1
         /\ \A i \in 1..Len(inq) : inq[i] = [req |-> Len(names), line |-> "get"]
    BY <2>1 DEF Alone
  <2> QED BY <2>1, <2>6, <2>7, <2>8, <2>9, <2>10 DEF Alone, Gone
<1>6. CASE \E n \in Names : Request34(n)
  <2>1. PICK n \in Names : Request(n, <<"get">>, FALSE) BY <1>6 DEF Request34
  <2>2. /\ UNCHANGED <<lab, torn, serverVars, out>> /\ client = "typing" /\ client' = "waiting"
        /\ names' = Append(names, n) /\ lab = "3.4"
        /\ inq' = IF net # "open" THEN inq
                  ELSE inq \o [i \in DOMAIN <<"get">> |->
                                 [req |-> Len(names) + 1, line |-> <<"get">>[i]]]
    BY <2>1 DEF Request
  <2>3. inq = <<>> /\ out = <<>> /\ server # "sending"
    BY <2>2 DEF Alone
  <2>4. PICK m : m = [req |-> Len(names) + 1, line |-> "get"] OBVIOUS
  <2>5. inq' = <<>> \/ inq' = <<m>>
    <3>1. PICK t : t = [i \in DOMAIN <<"get">> |->
                           [req |-> Len(names) + 1, line |-> <<"get">>[i]]]
      OBVIOUS
    <3>2. t = <<m>> BY <2>4, <3>1
    <3>3. inq' = <<>> \/ inq' = <<>> \o <<m>> BY <2>2, <2>3, <3>1, <3>2
    <3> QED BY <3>3
  <2>6. Len(names') = Len(names) + 1 BY <1>0, <2>2
  <2>7. Len(inq') <= 1 /\ \A i \in 1..Len(inq') : inq'[i] = m
    BY <2>5
  <2>8. out' = <<>> /\ server' \notin {"sizing", "sending"} /\ ~torn'
    BY <2>2, <2>3 DEF serverVars, Alone
  <2> QED BY <1>0, <2>2, <2>4, <2>6, <2>7, <2>8 DEF Alone
<1>7. CASE Message34
  <2>1. /\ UNCHANGED <<lab, names, torn, inq, serverVars>> /\ client = "waiting" /\ lab = "3.4"
    BY <1>7 DEF Message34
  <2>2. PICK k \in {1, 2} : /\ out' \in Rests(out, k) /\ client' = "typing"
                            /\ Len(out) >= k /\ out # <<>>
                            /\ k = IF out[1].part = "err" THEN 1 ELSE 2
    <3>1. \/ out # <<>> /\ Head(out).part = "err" /\ out' \in Rests(out, 1)
              /\ client' = "typing"
          \/ Len(out) > 1 /\ Head(out).part = "ok" /\ out' \in Rests(out, 2)
              /\ client' = "typing"
      BY <1>7 DEF Message34
    <3>2. CASE out # <<>> /\ Head(out).part = "err" /\ out' \in Rests(out, 1)
               /\ client' = "typing"
      <4>1. Head(out) = out[1] /\ Len(out) > 0 BY <1>0, <3>2, Short
      <4>2. Len(out) >= 1 BY <1>0, <4>1
      <4> QED BY <3>2, <4>1, <4>2
    <3>3. CASE Len(out) > 1 /\ Head(out).part = "ok" /\ out' \in Rests(out, 2)
               /\ client' = "typing"
      <4>1. Len(out) >= 2 /\ Len(out) > 0 BY <1>0, <3>3
      <4>2. out # <<>> /\ Head(out) = out[1] BY <1>0, <4>1, Short
      <4> QED BY <3>3, <4>1, <4>2
    <3> QED BY <3>1, <3>2, <3>3
  <2>3. /\ Len(out) <= k /\ server # "sending" /\ inq = <<>>
    <3>1. inq = <<>> BY <2>1, <2>2 DEF Alone
    <3>2. IF out[1].part = "err" THEN Len(out) = 1 /\ server # "sending" ELSE Len(out) <= 2
      BY <2>1, <2>2 DEF Alone
    <3>3. server = "sending" => Len(out) = 1 BY <2>1, <2>2 DEF Alone
    <3>4. CASE out[1].part = "err"
      <4>1. k = 1 /\ Len(out) = 1 /\ server # "sending" BY <2>2, <3>2, <3>4
      <4> QED BY <1>0, <3>1, <4>1, Short
    <3>5. CASE out[1].part # "err"
      <4>1. k = 2 /\ Len(out) >= 2 /\ Len(out) <= 2 BY <2>2, <3>2, <3>5
      <4>3. PICK n \in Nat : n = Len(out) BY <1>0
      <4>4. n # 1 BY <4>1, <4>3
      <4>2. Len(out) # 1 BY <4>3, <4>4
      <4> QED BY <3>1, <3>3, <4>1, <4>2
    <3> QED BY <3>4, <3>5
  <2>4. out' = <<>> BY <1>0, <2>2, <2>3, RestsNone
  <2> QED BY <1>0, <2>1, <2>2, <2>3, <2>4 DEF Alone, serverVars
<1>8. CASE SendSize \/ ServerEnd \/ Idle33t \/ TimeOut \/ Quit \/ ClientDies
  BY <1>8 DEF SendSize, ServerEnd, Idle33t, TimeOut, Quit, ClientDies, TextLabs, Alone,
              clientVars
<1>11. CASE \/ ReadAnswer \/ ReadNoAnswer \/ ReadSize \/ ReadPartOfSize \/ ReadNoSize
            \/ ReadContent \/ ReadNoContent
  BY <1>11 DEF ReadAnswer, ReadNoAnswer, ReadSize, ReadPartOfSize, ReadNoSize,
               ReadContent, ReadNoContent, TextLabs, Alone
<1>12. CASE Misread
  BY <1>12 DEF Misread, Alone
<1>9. CASE \E r \in 0..MaxReq, line \in {"get", "blank", "quit"} :
             LET l == [req |-> r, line |-> line]
             IN  \/ Command23(l) \/ Command31(l) \/ CommandOld(l)
                 \/ Command33(l) \/ Command33t(l)
  BY <1>9 DEF Command23, Command31, CommandOld, Command33, Command33t
<1>10. CASE \E n \in Names : Request23(n) \/ Request31(n) \/ Request33(n)
  BY <1>10 DEF Request23, Request31, Request33, Request
<1> QED BY <1>1, <1>2, <1>3, <1>4, <1>5, <1>6, <1>7, <1>8, <1>9, <1>10, <1>11, <1>12
        DEF Next, Server, User, Receive

\* What was stored stays as it was.
LEMMA StoredKept ==
  ASSUME Inv, FileOfRequest, Regular, UNCHANGED <<lab, stored>>,
         names' = names \/ (\E n \in Names : names' = Append(names, n)),
         failed => failed'
  PROVE  FileOfRequest'
<1>1. \A i \in DOMAIN stored : stored[i].of \in DOMAIN names
  <2>1. PICK S : S = [asked : 1..Len(names), of : 1..Len(names), whole : BOOLEAN]
    OBVIOUS
  <2>2. stored \in Seq(S) /\ names \in Seq(Names) BY <2>1 DEF Inv, TypeOK
  <2>3. \A i \in DOMAIN stored : stored[i] \in S BY <2>2
  <2> QED BY <2>1, <2>2, <2>3
<1>2. \A r \in DOMAIN names : names'[r] = names[r]
  <2>1. names \in Seq(Names) BY DEF Inv, TypeOK
  <2> QED BY <2>1
<1> QED BY <1>1, <1>2 DEF FileOfRequest, Regular, Owner

\* One more is stored: that of the last request, whole if it can be.
LEMMA StoredMore ==
  ASSUME Inv, FileOfRequest, Regular, UNCHANGED <<lab, names, failed>>, NEW w,
         NEW r, r = Owner(Len(names)), w \/ failed \/ names[r] = "directory",
         stored' = Append(stored, [asked |-> Len(names), of |-> r, whole |-> w]),
         r \in 1..Len(names), w \in BOOLEAN, names # <<>>
  PROVE  FileOfRequest'
<1>1. PICK S, f : /\ S = [asked : 1..Len(names), of : 1..Len(names), whole : BOOLEAN]
                  /\ f = [asked |-> Len(names), of |-> r, whole |-> w]
  OBVIOUS
<1>2. stored \in Seq(S) /\ names \in Seq(Names) BY <1>1 DEF Inv, TypeOK
<1>3. Len(names) \in 1..Len(names) BY <1>2
<1>4. f \in S /\ f.asked = Len(names) /\ f.of = r /\ f.whole = w
  BY <1>1, <1>3
<1>5. \A i \in DOMAIN stored' : \/ i \in DOMAIN stored /\ stored'[i] = stored[i]
                                \/ stored'[i] = f
  <2>1. stored' = Append(stored, f) BY <1>1
  <2> QED BY <1>2, <1>4, <2>1
<1>6. \A i \in DOMAIN stored :
        /\ stored[i].of = Owner(stored[i].asked)
        /\ stored[i].whole \/ failed \/ names[stored[i].of] = "directory"
  BY DEF FileOfRequest, Regular
<1> SUFFICES ASSUME NEW i \in DOMAIN stored'
             PROVE  (/\ stored[i].of = Owner(stored[i].asked)
                     /\ stored[i].whole \/ failed \/ names[stored[i].of] = "directory")'
  BY DEF FileOfRequest
<1>7. CASE i \in DOMAIN stored /\ stored'[i] = stored[i]
  BY <1>6, <1>7 DEF Owner
<1>8. CASE stored'[i] = f
  BY <1>4, <1>8 DEF Owner
<1> QED BY <1>5, <1>7, <1>8

\* What every step leaves, and the four that store.
Leaves ==
  /\ UNCHANGED lab /\ (late => late') /\ (torn => torn') /\ (failed => failed')
  /\ names' = names \/ (\E n \in Names : names' = Append(names, n))
Frame ==
  /\ Leaves
  /\ \/ UNCHANGED stored
     \/ ReadContent /\ Head(out).part = "content"
        /\ Stored(taking, Head(out).req = taking /\ names[taking] # "directory")
     \/ ReadSize /\ names[taking] = "empty" /\ Stored(taking, TRUE)
     \/ ReadNoContent /\ ~torn /\ Stored(taking, FALSE)
     \/ Message34 /\ Len(out) > 1 /\ Stored(Head(out).req, TRUE)

\* So does every step.
LEMMA Framed ==
  ASSUME [Next]_vars
  PROVE  Frame
<1>1. CASE Accept \/ Accept34 \/ SendSize \/ Send \/ ServerEnd \/ ResetArrives
           \/ UNCHANGED vars
  <2>1. Leaves /\ UNCHANGED stored
    BY <1>1 DEF Accept, Accept34, Accepts, SendSize, Send, ServerEnd, ResetArrives, vars,
                clientVars, serverVars, Leaves
  <2> QED BY <2>1 DEF Frame
<1>2. CASE Command34
  <2>1. Leaves /\ UNCHANGED stored
    BY <1>2 DEF Command34, Begin, Refuse, GiveUp, clientVars, Leaves
  <2> QED BY <2>1 DEF Frame
<1>3. CASE \E l : Command(l)
  <2>1. PICK l : Command(l) BY <1>3
  <2>2. UNCHANGED <<lab, clientVars>>
    BY <2>1 DEF Command, Command23, Command31, CommandOld, Command33, Command33t
  <2>3. failed => failed'
    BY <2>1 DEF Command, Command23, Command31, CommandOld, Command33, Command33t, Begin,
                Refuse, GiveUp, serverVars
  <2> QED BY <2>2, <2>3 DEF clientVars, Leaves, Frame
<1>4. CASE Idle33t \/ ServerDies
  <2>1. Leaves /\ UNCHANGED stored
    BY <1>4 DEF Idle33t, ServerDies, GiveUp, clientVars, Leaves
  <2> QED BY <2>1 DEF Frame
<1>5. CASE Quit \/ ClientDies \/ TimeOut \/ ReadPartOfSize \/ ReadNoSize \/ Misread
  <2>1. Leaves /\ UNCHANGED stored
    BY <1>5 DEF Quit, ClientDies, TimeOut, ReadPartOfSize, ReadNoSize, Misread,
                serverVars, Leaves
  <2> QED BY <2>1 DEF Frame
<1>6. CASE \E n \in Names : Request23(n) \/ Request31(n) \/ Request33(n) \/ Request34(n)
  <2>1. Leaves /\ UNCHANGED stored
    BY <1>6 DEF Request23, Request31, Request33, Request34, Request, serverVars, Leaves
  <2> QED BY <2>1 DEF Frame
<1>7. CASE ReadAnswer \/ ReadNoAnswer
  <2>1. Leaves /\ UNCHANGED stored
    BY <1>7 DEF ReadAnswer, ReadNoAnswer, serverVars, Leaves
  <2> QED BY <2>1 DEF Frame
<1>8. CASE ReadContent
  <2>1. UNCHANGED <<lab, names, late, torn, failed>> BY <1>8 DEF ReadContent, serverVars
  <2>2. \/ UNCHANGED stored
        \/ Head(out).part = "content"
           /\ Stored(taking, Head(out).req = taking /\ names[taking] # "directory")
    BY <1>8 DEF ReadContent
  <2> QED BY <1>8, <2>1, <2>2 DEF Leaves, Frame
<1>9. CASE ReadNoContent
  <2>1. UNCHANGED <<lab, names, late, torn, failed>> BY <1>9 DEF ReadNoContent, serverVars
  <2>2. UNCHANGED stored \/ (~torn /\ Stored(taking, FALSE))
    BY <1>9 DEF ReadNoContent
  <2> QED BY <1>9, <2>1, <2>2 DEF Leaves, Frame
<1>10. CASE Message34
  <2>1. UNCHANGED <<lab, names, late, torn, failed>> BY <1>10 DEF Message34, serverVars
  <2>2. UNCHANGED stored \/ (Len(out) > 1 /\ Stored(Head(out).req, TRUE))
    BY <1>10 DEF Message34
  <2> QED BY <1>10, <2>1, <2>2 DEF Leaves, Frame
<1>12. CASE ReadSize
  <2>1. /\ UNCHANGED <<lab, names, late, failed>> /\ (torn => torn')
        /\ UNCHANGED stored \/ (names[taking] = "empty" /\ Stored(taking, TRUE))
    BY <1>12 DEF ReadSize, serverVars
  <2> QED BY <1>12, <2>1 DEF Leaves, Frame
<1>11. CASE \E r \in 0..MaxReq, line \in {"get", "blank", "quit"} :
              LET l == [req |-> r, line |-> line]
              IN  \/ Command23(l) \/ Command31(l) \/ CommandOld(l)
                  \/ Command33(l) \/ Command33t(l)
  <2>1. \E l : Command(l) BY <1>11 DEF Command
  <2> QED BY <1>3, <2>1
<1> QED BY <1>1, <1>2, <1>4, <1>5, <1>6, <1>7, <1>8, <1>9, <1>10, <1>11, <1>12
        DEF Next, Server, User, Receive

\* No step stores the file of another request.
LEMMA FileKept ==
  ASSUME Inv, Inv', InStep, Alone, Closed, FileOfRequest, [Next]_vars
  PROVE  FileOfRequest'
<1> SUFFICES ASSUME Regular' PROVE FileOfRequest'
  BY DEF FileOfRequest, Regular
<1>1. CASE UNCHANGED stored
  <2>1. /\ UNCHANGED lab /\ (late => late') /\ (torn => torn') /\ (failed => failed')
        /\ names' = names \/ (\E n \in Names : names' = Append(names, n))
    BY Framed DEF Frame, Leaves
  <2>3. Regular
    <3>1. \A r \in DOMAIN names : r \in DOMAIN names' /\ names'[r] = names[r]
      <4>1. names \in Seq(Names) BY DEF Inv, TypeOK
      <4> QED BY <2>1, <4>1
    <3> QED BY <2>1, <3>1 DEF Regular
  <2> QED BY <1>1, <2>1, <2>3, StoredKept
<1>2. CASE stored' # stored
  <2>1. \/ ReadContent /\ Head(out).part = "content"
           /\ Stored(taking, Head(out).req = taking /\ names[taking] # "directory")
        \/ ReadSize /\ names[taking] = "empty" /\ Stored(taking, TRUE)
        \/ ReadNoContent /\ ~torn /\ Stored(taking, FALSE)
        \/ Message34 /\ Len(out) > 1 /\ Stored(Head(out).req, TRUE)
    BY <1>2, Framed DEF Frame
  <2>2. /\ UNCHANGED <<lab, names, failed, late>> /\ (torn => torn')
        /\ client \in {"waiting", "sizing", "reading", "guessing"}
    <3>1. CASE ReadContent BY <3>1 DEF ReadContent, serverVars
    <3>2. CASE ReadSize BY <3>2 DEF ReadSize, serverVars
    <3>3. CASE ReadNoContent BY <3>3 DEF ReadNoContent, serverVars
    <3>4. CASE Message34 BY <3>4 DEF Message34, serverVars
    <3> QED BY <2>1, <3>1, <3>2, <3>3, <3>4
  <2>3. Regular BY <2>2 DEF Regular
  <2>4. /\ names # <<>> /\ Len(names) \in Nat /\ out \in Seq(Answer)
        /\ client # "waiting" => taking \in 1..Len(names)
    BY <2>2, <2>3 DEF Inv, Unstored, Busy, Numbered, Expects, TypeOK, Answer, Regular
  <2>5. CASE ReadContent /\ Head(out).part = "content"
             /\ Stored(taking, Head(out).req = taking /\ names[taking] # "directory")
    <3>1. client = "reading" /\ out # <<>> BY <2>5 DEF ReadContent
    <3>2. lab \in TextLabs BY <2>2, <3>1 DEF Alone, Inv, TypeOK
    <3>3. Head(out) = out[1] BY <2>4, <3>1, Short
    <3>4. taking = Owner(Len(names)) /\ out[1].req = taking
      BY <2>5, <3>2, <3>3, ReadContentInStep
    <3>5. PICK w \in BOOLEAN : w = (Head(out).req = taking /\ names[taking] # "directory")
      OBVIOUS
    <3>6. w \/ names[taking] = "directory" BY <3>3, <3>4, <3>5
    <3>7. stored' = Append(stored, [asked |-> Len(names), of |-> taking, whole |-> w])
      BY <2>5, <3>5 DEF Stored
    <3> QED BY <2>2, <2>3, <2>4, <3>1, <3>4, <3>6, <3>7, StoredMore
  <2>8. CASE ReadSize /\ names[taking] = "empty" /\ Stored(taking, TRUE)
    <3>1. client = "sizing" BY <2>8 DEF ReadSize
    <3>2. lab \in TextLabs BY <3>1 DEF Alone, Inv, TypeOK
    <3>3. taking = Owner(Len(names)) BY <2>8, <3>2, ReadSizeInStep
    <3>4. PICK w \in BOOLEAN : w = TRUE OBVIOUS
    <3>5. stored' = Append(stored, [asked |-> Len(names), of |-> taking, whole |-> w])
      BY <2>8, <3>4 DEF Stored
    <3> QED BY <2>2, <2>3, <2>4, <3>1, <3>3, <3>4, <3>5, StoredMore
  <2>6. CASE ReadNoContent /\ ~torn /\ Stored(taking, FALSE)
    <3>1. client \in {"reading", "guessing"} /\ out = <<>> /\ AtEOF(net)
      BY <2>6 DEF ReadNoContent
    <3>2. lab \in TextLabs BY <3>1 DEF Alone, Inv, TypeOK
    <3>3. taking = Owner(Len(names)) BY <2>3, <3>1, <3>2 DEF InStep
    <3>4. server \in Gone BY <3>1 DEF Closed, AtEOF, PeerGone
    <3>5. failed \/ names[taking] = "directory"
      <4>1. CASE client = "guessing" BY <2>3, <3>2, <4>1 DEF InStep
      <4>2. CASE client = "reading"
        <5>1. PICK u : Chain(u) /\ Sending(u)
          BY <2>3, <3>2, <4>2, InStepNow DEF Answering
        <5>2. Len(out) = 0 /\ u[Len(out)] = Len(names) /\ Due(Len(out)) = "content"
          BY <3>1, <4>2, <5>1 DEF Chain, Past, Due
        <5> QED BY <3>3, <3>4, <5>1, <5>2 DEF Sending, Gone
      <4> QED BY <3>1, <4>1, <4>2
    <3>6. PICK w \in BOOLEAN : w = FALSE OBVIOUS
    <3>7. stored' = Append(stored, [asked |-> Len(names), of |-> taking, whole |-> w])
      BY <2>6, <3>6 DEF Stored
    <3> QED BY <2>2, <2>3, <2>4, <3>1, <3>3, <3>5, <3>7, StoredMore
  <2>7. CASE Message34 /\ Len(out) > 1 /\ Stored(Head(out).req, TRUE)
    <3>1. lab = "3.4" BY <2>7 DEF Message34
    <3>2. Head(out) = out[1] /\ 1 \in 1..Len(out)
      <4>1. PICK n \in Nat : n = Len(out) BY <2>4
      <4>2. n > 0 BY <2>7, <4>1
      <4> QED BY <2>4, <4>1, <4>2, Short
    <3>3. out[1].req = Len(names) BY <2>2, <3>1, <3>2 DEF Alone
    <3>4. Owner(Len(names)) = Len(names) BY <3>1 DEF Owner, PairLabs, TextLabs
    <3>5. PICK r : r = Len(names) OBVIOUS
    <3>6. stored' = Append(stored, [asked |-> Len(names), of |-> r, whole |-> TRUE])
      BY <2>7, <3>2, <3>3, <3>5 DEF Stored
    <3>7. r \in 1..Len(names)
      <4>1. names \in Seq(Names) BY DEF Inv, TypeOK
      <4> QED BY <2>4, <3>5, <4>1, Short
    <3> QED BY <2>2, <2>3, <2>4, <3>4, <3>5, <3>6, <3>7, StoredMore
  <2> QED BY <2>1, <2>5, <2>6, <2>7, <2>8
<1> QED BY <1>1, <1>2

\* The invariant of the file of each request.
InvFile == InStep /\ Alone /\ Closed /\ FileOfRequest

\* Nothing has been asked for and nothing said: part 0 is nobody's.
LEMMA InitFile ==
  ASSUME Init
  PROVE  InvFile
<1>1. /\ names = <<>> /\ out = <<>> /\ inq = <<>> /\ stored = <<>> /\ client = "typing"
      /\ server = "backlog" /\ net = "open" /\ failed = FALSE /\ torn = FALSE
      /\ Len(names) = 0 /\ Len(out) = 0 /\ Len(inq) = 0
  BY DEF Init
<1>2. PICK u : u = [i \in 0..0 |-> 0] OBVIOUS
<1>3. u \in [0..0 -> Nat] /\ u[0] = 0 /\ \A i \in 0..0 : i = 0
  BY <1>2
<1>4. Due(0) = "line" /\ Past = 0 BY <1>1 DEF Due, Past
<1>5. Chain(u)
  <2>1. 1..0 = {} OBVIOUS
  <2>2. \A i, j \in 0..0 : u[i] <= u[j] BY <1>3
  <2> QED BY <1>1, <1>3, <1>4, <2>1, <2>2 DEF Chain
<1>6. Sending(u) BY <1>1, <1>4 DEF Sending
<1>7. Ahead(u)
  <2>1. LinesOf(0) = 0 BY DEF LinesOf
  <2> QED BY <1>1, <1>3, <2>1 DEF Ahead
<1>8. Once(u) BY <1>1, <1>3 DEF Once
<1>9. InStep BY <1>1, <1>5, <1>6, <1>7, <1>8 DEF InStep, Answering
<1>10. Alone BY <1>1 DEF Alone
<1>11. Closed /\ FileOfRequest BY <1>1 DEF Closed, FileOfRequest
<1> QED BY <1>9, <1>10, <1>11 DEF InvFile

\* Every step keeps it.
LEMMA InductiveFile == Inv /\ Inv' /\ InvFile /\ [Next]_vars => InvFile'
<1> SUFFICES ASSUME Inv, Inv', InvFile, [Next]_vars PROVE InvFile'
  OBVIOUS
<1>1. InStep /\ Alone /\ Closed /\ FileOfRequest BY DEF InvFile
<1>2. InStep'
  <2>1. CASE UNCHANGED vars
    <3>1. ASSUME Answering PROVE Answering'
      <4>1. PICK u : Chain(u) /\ Sending(u) /\ Ahead(u) /\ Once(u)
        BY <3>1 DEF Answering
      <4>2. UNCHANGED <<lab, clientVars, serverVars, inq, out>>
        BY <2>1 DEF vars, netVars
      <4>3. Chain(u)' /\ \A i : Due(i)' = Due(i)
        BY <4>1, <4>2, ChainStays DEF clientVars
      <4>4. Sending(u)' BY <4>1, <4>2, <4>3 DEF Sending, Bare, Owner, clientVars, serverVars
      <4>5. Ahead(u)'
        BY <4>1, <4>2 DEF Ahead, LinesOf, LineAt, Asks, Owner, clientVars, serverVars
      <4>6. Once(u)' BY <4>1, <4>2 DEF Once, serverVars
      <4> QED BY <4>3, <4>4, <4>5, <4>6 DEF Answering
    <3> QED BY <1>1, <2>1, <3>1 DEF InStep, Over, Regular, Owner, vars, clientVars,
                                    serverVars, netVars
  <2>2. CASE \E r \in 0..MaxReq, line \in {"get", "blank", "quit"} :
               LET l == [req |-> r, line |-> line]
               IN  \/ Command23(l) \/ Command31(l) \/ CommandOld(l)
                   \/ Command33(l) \/ Command33t(l)
    <3>1. \E l : Command(l) BY <2>2 DEF Command
    <3> QED BY <1>1, <3>1, ServerInStep
  <2>3. CASE \/ Accept \/ Accept34 \/ SendSize \/ Send \/ ServerEnd \/ Command34
             \/ Idle33t \/ ServerDies \/ ResetArrives
    BY <1>1, <2>3, ServerInStep
  <2>4. CASE Receive \/ User \/ TimeOut
    BY <1>1, <2>4, ClientInStep
  <2> QED BY <2>1, <2>2, <2>3, <2>4 DEF Next, Server
<1>3. Alone' BY <1>1, AloneKept
<1>4. Closed' BY <1>1, ClosedKept
<1>5. FileOfRequest' BY <1>1, FileKept
<1> QED BY <1>2, <1>3, <1>4, <1>5 DEF InvFile
-----------------------------------------------------------------------------
(* The specification. *)

\* Nothing has been asked for.
LEMMA InitInv ==
  ASSUME Init
  PROVE  Inv
<1>1. TypeOK
  <2>1. /\ names \in Seq(Names) /\ Len(names) = 0
        /\ stored \in Seq([asked : 1..Len(names), of : 1..Len(names), whole : BOOLEAN])
        /\ inq \in Seq([req : 0..Len(names), line : Lines])
        /\ out \in Seq([req : 1..Len(names), part : Parts])
    BY DEF Init
  <2>2. /\ lab \in TextLabs \cup {"3.4"}
        /\ client \in {"typing", "waiting", "sizing", "reading", "guessing", "ended"}
        /\ late \in BOOLEAN /\ torn \in BOOLEAN /\ failed \in BOOLEAN
        /\ server \in {"backlog", "reading", "sizing", "sending", "done"} \cup Gone
        /\ net \in NetStates
    BY DEF Init, NetStates
  <2>3. taking \in 0..Len(names) /\ server \notin {"sizing", "sending"} /\ job = 0
    BY <2>1 DEF Init
  <2> QED BY <2>1, <2>2, <2>3 DEF TypeOK
<1>2. Gets = {} /\ Oks = {} BY DEF Init, Gets, Oks
<1>3. Numbered /\ Unstored /\ Order
  BY DEF Init, Numbered, Unstored, Order, Expects, Busy
<1>4. Increasing /\ Behind
  BY <1>2 DEF Init, Increasing, Behind, Expects
<1> QED BY <1>1, <1>3, <1>4 DEF Inv

\* No step.
LEMMA StutterInv ==
  ASSUME Inv, UNCHANGED vars
  PROVE  Inv'
BY DEF Inv, TypeOK, Numbered, Increasing, Behind, Unstored, Order, Gets, Oks, Expects,
       Busy, vars, clientVars, serverVars, netVars

\* Every step keeps the invariant.
LEMMA Inductive == Inv /\ [Next]_vars => Inv'
<1> SUFFICES ASSUME Inv, [Next]_vars PROVE Inv'
  OBVIOUS
<1>1. CASE Accept \/ Accept34 \/ ServerEnd \/ ResetArrives BY <1>1, SilentInv
<1>2. CASE Command34 BY <1>2, Command34Inv
<1>3. CASE SendSize \/ Send BY <1>3, SendInv
<1>4. CASE \E r \in 0..MaxReq, line \in {"get", "blank", "quit"} :
             LET l == [req |-> r, line |-> line]
             IN  \/ Command23(l) \/ Command31(l) \/ CommandOld(l)
                 \/ Command33(l) \/ Command33t(l)
  <2>1. PICK l : \/ Command23(l) \/ Command31(l) \/ CommandOld(l)
                 \/ Command33(l) \/ Command33t(l)
    BY <1>4
  <2> QED BY <2>1, Command23Inv, Command31Inv, CommandOldInv, Command33Inv,
             Command33tInv
<1>5. CASE Idle33t \/ ServerDies BY <1>5, FailInv
<1>6. CASE Quit BY <1>6, QuitInv
<1>7. CASE TimeOut \/ ClientDies \/ ReadNoAnswer \/ ReadPartOfSize \/ ReadNoSize
  BY <1>7, GoesOnInv
<1>8. CASE \E n \in Names : Request23(n) \/ Request31(n) \/ Request33(n) \/ Request34(n)
  BY <1>8, RequestInv DEF Request23, Request31, Request33, Request34
<1>9. CASE ReadAnswer BY <1>9, ReadAnswerInv
<1>10. CASE ReadContent BY <1>10, ReadContentInv
<1>11. CASE ReadNoContent BY <1>11, ReadNoContentInv
<1>12. CASE Message34 BY <1>12, Message34Inv
<1>13. CASE UNCHANGED vars BY <1>13, StutterInv
<1>14. CASE ReadSize BY <1>14, ReadSizeInv
<1>15. CASE Misread BY <1>15, MisreadInv
<1> QED BY <1>1, <1>2, <1>3, <1>4, <1>5, <1>6, <1>7, <1>8, <1>9, <1>10, <1>11,
           <1>12, <1>13, <1>14, <1>15 DEF Next, Server, User, Receive

\* The invariant holds in every state.
THEOREM Invariance == Spec => []Inv
<1>1. Init => Inv BY InitInv
<1>2. Inv /\ [Next]_vars => Inv' BY Inductive
<1> QED BY <1>1, <1>2, PTL DEF Spec

\* Every variable keeps its type: what is on its way is about requests that
\* were made, and a file is sent for one of them.
THEOREM TypeCorrect == Spec => []TypeOK
<1>1. Inv => TypeOK BY DEF Inv
<1> QED BY <1>1, Invariance, PTL

\* With any of the six servers, whatever times out, is cut or dies: until a
\* client leaves a content or a part of a size in the stream, a file that comes
\* late is taken for the answer to a later request than its own, never to an
\* earlier one, and no file is stored twice or out of order (2.3/client.c
\* 85-144, 3.1/client.c 95-138).
THEOREM OnlyBehind == Spec => []FallsBehind
<1>1. Inv => FallsBehind BY DEF Inv, Order, FallsBehind
<1> QED BY <1>1, Invariance, PTL

\* With all six servers and any number of requests: as long as a client has
\* waited for every answer and read each to its end, the file it stores after
\* its j-th request is that of the line its j-th answer is about, and the whole
\* of it unless the server failed or could not read it; but for a file that the
\* time-out server cannot open, to which it answers nothing (2.3/client.c
\* 85-141, 3.3/client.c 95-138, 3.4 server.c 60-87).
THEOREM EachItsFile == Spec => []FileOfRequest
<1>1. Init => InvFile BY InitFile
<1>2. InvFile => FileOfRequest BY DEF InvFile
<1> QED BY <1>1, <1>2, InductiveFile, Invariance, PTL DEF Spec
=============================================================================
