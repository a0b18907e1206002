-------------------------- MODULE PreforkServerProofs --------------------------
(***************************************************************************)
(* Proofs about both servers of Lab 3.3 for any number of children and     *)
(* clients, any backlog and any length of the files: type correctness, who *)
(* may end a child, and that every line is answered once and in order.     *)
(***************************************************************************)
EXTENDS PreforkServer, WellFoundedInduction, TLAPS

\* A child has a connection exactly while it is in receiver, and a file it is
\* sending is not finished.
BusyHolds == \A p \in Pids : conn[p] # NoConn <=> Busy(p)
FileUnfinished == \A p \in Pids : child[p] = "send" => out[p] > 0

\* A connection is in one place: with one child, once in the backlog, or not
\* known to the server.
OneHolder == \A p, q \in Pids : conn[p] = conn[q] /\ conn[p] # NoConn => p = q
WaitingOnce == \A i, j \in DOMAIN backlog : backlog[i] = backlog[j] => i = j
WaitingUnheld == \A i \in DOMAIN backlog : \A p \in Pids : conn[p] # backlog[i]
IdleUnknown ==
  \A c \in Clients : net[c] = "idle" => ~Held(c) /\ ~InBacklog(c) /\ inq[c] = <<>>

\* What a client that is gone was owed is forgotten; a line that is being cut
\* is the last one.
GoneForgotten ==
  \A c \in Clients : net[c] # "open" => lines[c] = <<>> /\ replies[c] = <<>> /\ ~cut[c]
CutIsLast ==
  \A c \in Clients : cut[c] => lines[c] # <<>> /\ lines[c][Len(lines[c])].split

Places == /\ BusyHolds /\ FileUnfinished /\ OneHolder /\ WaitingOnce
          /\ WaitingUnheld /\ IdleUnknown /\ GoneForgotten /\ CutIsLast

-----------------------------------------------------------------------------
\* The replies begun are those of the first lines, none of them a QUIT.
ReplyTo(l) == IF l.cmd = "get" THEN "ok" ELSE "err"
Answered(c) ==
  /\ Len(replies[c]) <= Len(lines[c])
  /\ \A i \in 1..Len(replies[c]) :
       lines[c][i].cmd # "quit" /\ replies[c][i] = ReplyTo(lines[c][i])

\* The segments of line i of c are in inq[c] from place b up to place e.
Segments(c, i, b, e) ==
  LET l == lines[c][i] IN
  \/ ~l.split /\ e = b + 1 /\ inq[c][b] = l.cmd
  \/ l.split /\ i = Len(lines[c]) /\ cut[c] /\ e = b + 1 /\ inq[c][b] = "part"
  \/ /\ l.split /\ ~(i = Len(lines[c]) /\ cut[c])
     /\ e = b + 2 /\ inq[c][b] = "part" /\ inq[c][b + 1] = l.cmd

\* What a client has sent and no child has read is the lines not answered, in
\* order: line i starts at place at[i].
Unread(c, at) ==
  LET r == Len(replies[c]) IN
  /\ at[r + 1] = 1 /\ at[Len(lines[c]) + 1] = Len(inq[c]) + 1
  /\ \A i, j \in (r + 1)..(Len(lines[c]) + 1) : i < j => at[i] < at[j]
  /\ \A i \in (r + 1)..Len(lines[c]) : Segments(c, i, at[i], at[i + 1])

Pipelined(c) ==
  /\ cut[c] => Len(replies[c]) < Len(lines[c])
  /\ \E at \in [(Len(replies[c]) + 1)..(Len(lines[c]) + 1) -> 1..(Len(inq[c]) + 1)] :
       Unread(c, at)

StreamOf(c) ==
  net[c] = "open" /\ Straight(c) =>
    Answered(c) /\ (Held(c) \/ InBacklog(c) => Pipelined(c))

Stream == \A c \in Clients : StreamOf(c)

Inv == TypeOK /\ Places /\ Stream

-----------------------------------------------------------------------------
(* What a child does to its connection, in one form. *)

\* Child p goes on with its connection, lets it go, or dies.
Continues(p) ==
  \E x \in {"receive", "send", "accept", "zombie"}, o \in 0..Writes :
    /\ child' = [child EXCEPT ![p] = x]
    /\ out' = [out EXCEPT ![p] = o]
    /\ x = "send" => o > 0
    /\ conn' = [conn EXCEPT ![p] = IF x \in {"receive", "send"} THEN conn[p] ELSE NoConn]

\* The connection stays open, or not, as it was.
NetGoesOn(c) ==
  \E t \in NetStates : /\ net' = [net EXCEPT ![c] = t]
                       /\ t = "idle" <=> net[c] = "idle"
                       /\ t = "open" <=> net[c] = "open"

\* A client that is there may get one more reply.
RepliesGoOn(c) ==
  \/ UNCHANGED replies
  \/ /\ net[c] = "open"
     /\ \E r \in {"ok", "err"} : replies' = [replies EXCEPT ![c] = Append(replies[c], r)]

Serves(p) ==
  /\ Busy(p) /\ Continues(p) /\ NetGoesOn(conn[p]) /\ RepliesGoOn(conn[p])
  /\ \E q \in Seq(Commands \cup {"part"}) : inq' = [inq EXCEPT ![conn[p]] = q]
  /\ UNCHANGED <<program, main, signalled, backlog, cut, lines>>

\* It lets go or dies.
LEMMA StopsContinues ==
  ASSUME NEW p \in Pids, Release(p) \/ Dies(p)
  PROVE  Continues(p)
<1>1. 0 \in 0..Writes BY PreforkAssumption
<1>2. CASE Release(p)
  <2>1. "accept" \in {"receive", "send", "accept", "zombie"} OBVIOUS
  <2> QED BY <1>1, <1>2, <2>1 DEF Release, Continues
<1>3. CASE Dies(p)
  <2>1. "zombie" \in {"receive", "send", "accept", "zombie"} OBVIOUS
  <2> QED BY <1>1, <1>3, <2>1 DEF Dies, Continues
<1> QED BY <1>2, <1>3

\* Nothing done to the child: it goes on receiving.
LEMMA SameContinues ==
  ASSUME TypeOK, NEW p \in Pids, child[p] = "receive", UNCHANGED childVars
  PROVE  Continues(p)
<1>1. /\ child' = [child EXCEPT ![p] = "receive"]
      /\ out' = [out EXCEPT ![p] = out[p]]
      /\ conn' = [conn EXCEPT ![p] = conn[p]]
  BY DEF childVars, TypeOK
<1>2. out[p] \in 0..Writes /\ "receive" \in {"receive", "send", "accept", "zombie"}
  BY DEF TypeOK
<1> QED BY <1>1, <1>2 DEF Continues

\* What the kernel's calls may do to the state of a connection.
LEMMA NetFacts ==
  \A s \in NetStates :
    /\ AfterWrite(s) \in NetStates /\ AfterRead(s) \in NetStates
    /\ (AfterWrite(s) = "idle" <=> s = "idle") /\ (AfterRead(s) = "idle" <=> s = "idle")
    /\ (AfterWrite(s) = "open" <=> s = "open") /\ (AfterRead(s) = "open" <=> s = "open")
    /\ (AtEOF(s) => s # "open") /\ (WriteFails(s) => s # "open")
    /\ (ReadFails(s) => s # "open")
BY DEF NetStates, AfterWrite, AfterRead, AtEOF, PeerGone, WriteFails, ReadFails

\* What Reply does, whatever the command.
LEMMA ReplyServes ==
  ASSUME TypeOK, NEW p \in Pids, child[p] = "receive", conn[p] \in Clients,
         NEW m, NEW s \in NetStates, Reply(p, m, s),
         s = "idle" <=> net[conn[p]] = "idle", s = "open" <=> net[conn[p]] = "open"
  PROVE  Continues(p) /\ NetGoesOn(conn[p]) /\ RepliesGoOn(conn[p])
<1> USE DEF NetGoesOn, RepliesGoOn
<1> DEFINE c == conn[p]
           silent == m = "unreadable" /\ program = "timeout"
<1>1. \A r \in {"ok", "err"} : Answer(c, r) =>
        \/ UNCHANGED replies
        \/ net[c] = "open" /\ replies' = [replies EXCEPT ![c] = Append(replies[c], r)]
  BY DEF Answer
<1>2. AfterWrite(s) \in NetStates /\ (AfterWrite(s) = "idle" <=> s = "idle")
      /\ (AfterWrite(s) = "open" <=> s = "open")
  BY NetFacts
<1>3. CASE m = "get" /\ child' = [child EXCEPT ![p] = "send"]
           /\ out' = [out EXCEPT ![p] = Writes] /\ Answer(c, "ok")
           /\ net' = [net EXCEPT ![c] = s] /\ UNCHANGED conn
  <2>1. Writes \in 0..Writes /\ Writes > 0 BY PreforkAssumption
  <2>2. conn' = [conn EXCEPT ![p] = conn[p]] BY <1>3 DEF TypeOK
  <2>3. "send" \in {"receive", "send", "accept", "zombie"} OBVIOUS
  <2>4. Continues(p) BY <1>3, <2>1, <2>2, <2>3 DEF Continues
  <2> QED BY <1>1, <1>3, <2>4
<1>4. CASE net' = [net EXCEPT ![c] = AfterWrite(s)] /\ WriteFails(s)
           /\ WriteFailed(p, s) /\ UNCHANGED replies
  <2>1. Continues(p) BY <1>4, StopsContinues DEF WriteFailed
  <2> QED BY <1>2, <1>4, <2>1
<1>5. CASE net' = [net EXCEPT ![c] = AfterWrite(s)] /\ Answer(c, "err")
           /\ UNCHANGED childVars
  BY <1>1, <1>2, <1>5, SameContinues
<1>6. CASE net' = [net EXCEPT ![c] = s] /\ UNCHANGED <<childVars, replies>>
  BY <1>6, SameContinues
<1>7. CASE Release(p) /\ net' = [net EXCEPT ![c] = s] /\ UNCHANGED replies
  BY <1>7, StopsContinues
<1> QED BY <1>3, <1>4, <1>5, <1>6, <1>7 DEF Reply

\* Every step of a child but accept() has this form.
LEMMA ChildServes ==
  ASSUME TypeOK, Places, NEW p \in Pids,
         ReadLine(p) \/ ReadPart(p) \/ ReadEnd(p) \/ Timeout(p) \/ Send(p)
  PROVE  Serves(p)
<1> DEFINE c == conn[p]
           Segs == Commands \cup {"part"}
<1>0. Busy(p)
  BY DEF ReadLine, ReadPart, ReadEnd, Timeout, Send, Busy
<1>1. c \in Clients /\ net[c] \in NetStates /\ inq[c] \in Seq(Segs)
      /\ inq = [inq EXCEPT ![c] = inq[c]] /\ net = [net EXCEPT ![c] = net[c]]
  BY <1>0 DEF TypeOK, Places, BusyHolds
<1>2. /\ AfterRead(net[c]) \in NetStates
      /\ AfterRead(net[c]) = "idle" <=> net[c] = "idle"
      /\ AfterRead(net[c]) = "open" <=> net[c] = "open"
      /\ AfterWrite(net[c]) \in NetStates
      /\ AfterWrite(net[c]) = "idle" <=> net[c] = "idle"
      /\ AfterWrite(net[c]) = "open" <=> net[c] = "open"
  BY <1>1, NetFacts
<1>3. CASE ReadLine(p)
  <2>1. child[p] = "receive" /\ UNCHANGED <<mainVars, backlog, cut, lines>>
    BY <1>3 DEF ReadLine
  <2>2. CASE inq[c] # <<>> /\ inq' = [inq EXCEPT ![c] = Tail(inq[c])]
             /\ Reply(p, Head(inq[c]), net[c])
    <3>1. Tail(inq[c]) \in Seq(Segs) BY <1>1, <2>2
    <3>2. Continues(p) /\ NetGoesOn(c) /\ RepliesGoOn(c)
      BY <1>1, <2>1, <2>2, ReplyServes
    <3> QED BY <1>0, <2>1, <2>2, <3>1, <3>2 DEF Serves, mainVars
  <2>3. CASE Len(inq[c]) > 1 /\ inq' = [inq EXCEPT ![c] = Tail(Tail(inq[c]))]
             /\ Reply(p, inq[c][2], net[c])
    <3>0. inq[c] # <<>> BY <1>1, <2>3
    <3>3. Tail(inq[c]) \in Seq(Segs) /\ Len(Tail(inq[c])) = Len(inq[c]) - 1
      BY <1>1, <3>0
    <3>4. Len(inq[c]) \in Nat /\ Len(<<>>) = 0 BY <1>1
    <3>6. Len(Tail(inq[c])) # 0 BY <2>3, <3>3, <3>4
    <3>5. Tail(inq[c]) # <<>> BY <3>4, <3>6, Zenon
    <3>1. Tail(Tail(inq[c])) \in Seq(Segs) BY <3>3, <3>5
    <3>2. Continues(p) /\ NetGoesOn(c) /\ RepliesGoOn(c)
      BY <1>1, <2>1, <2>3, ReplyServes
    <3> QED BY <1>0, <2>1, <2>3, <3>1, <3>2 DEF Serves, mainVars
  <2> QED BY <1>3, <2>2, <2>3 DEF ReadLine
<1>4. CASE ReadPart(p)
  <2>1. /\ child[p] = "receive" /\ UNCHANGED <<mainVars, backlog, cut, lines>>
        /\ inq' = [inq EXCEPT ![c] = <<>>] /\ <<>> \in Seq(Segs)
    BY <1>4 DEF ReadPart
  <2>2. CASE Dies(p) /\ net' = [net EXCEPT ![c] = AfterRead(net[c])] /\ UNCHANGED replies
    BY <1>0, <1>2, <2>1, <2>2, StopsContinues
       DEF Serves, mainVars, NetGoesOn, RepliesGoOn
  <2>3. ASSUME NEW m \in Commands, Reply(p, m, AfterRead(net[c])) PROVE Serves(p)
    <3>1. Continues(p) /\ NetGoesOn(c) /\ RepliesGoOn(c)
      BY <1>1, <1>2, <2>1, <2>3, ReplyServes
    <3> QED BY <1>0, <2>1, <3>1 DEF Serves, mainVars
  <2> QED BY <1>4, <2>2, <2>3 DEF ReadPart
<1>5. CASE ReadEnd(p)
  <2>1. Continues(p) BY <1>5, StopsContinues DEF ReadEnd
  <2>2. NetGoesOn(c) BY <1>2, <1>5 DEF ReadEnd, NetGoesOn
  <2> QED BY <1>0, <1>1, <1>5, <2>1, <2>2 DEF ReadEnd, Serves, RepliesGoOn, mainVars
<1>6. CASE Timeout(p)
  <2>1. Continues(p) BY <1>6, StopsContinues DEF Timeout
  <2>2. NetGoesOn(c) BY <1>1, <1>6 DEF Timeout, netVars, NetGoesOn
  <2> QED BY <1>0, <1>1, <1>6, <2>1, <2>2
          DEF Timeout, Serves, RepliesGoOn, mainVars, netVars
<1>7. CASE Send(p)
  <2>1. NetGoesOn(c) BY <1>2, <1>7 DEF Send, NetGoesOn
  <2>2. CASE WriteFailed(p, net[c])
    <3>1. Continues(p) BY <2>2, StopsContinues DEF WriteFailed
    <3> QED BY <1>0, <1>1, <1>7, <2>1, <3>1 DEF Send, Serves, RepliesGoOn, mainVars
  <2>3. CASE out' = [out EXCEPT ![p] = out[p] - 1] /\ UNCHANGED conn
             /\ child' = [child EXCEPT ![p] = IF out[p] = 1 THEN "receive" ELSE child[p]]
    <3>1. child[p] = "send" BY <1>7 DEF Send
    <3>2. out[p] > 0 /\ out[p] \in 0..Writes /\ Writes \in Nat
      BY <3>1, PreforkAssumption DEF Places, FileUnfinished, TypeOK
    <3>3. out[p] - 1 \in 0..Writes /\ (out[p] # 1 => out[p] - 1 > 0) BY <3>2
    <3>4. conn = [conn EXCEPT ![p] = conn[p]] BY DEF TypeOK
    <3>5. CASE out[p] = 1
      <4>1. child' = [child EXCEPT ![p] = "receive"] BY <2>3, <3>5
      <4> QED BY <1>0, <1>1, <1>7, <2>1, <2>3, <3>3, <3>4, <4>1
              DEF Send, Serves, Continues, RepliesGoOn, mainVars
    <3>6. CASE out[p] # 1
      <4>1. child' = [child EXCEPT ![p] = "send"] BY <2>3, <3>1, <3>6
      <4> QED BY <1>0, <1>1, <1>7, <2>1, <2>3, <3>3, <3>4, <3>6, <4>1
              DEF Send, Serves, Continues, RepliesGoOn, mainVars
    <3> QED BY <3>5, <3>6
  <2> QED BY <1>7, <2>2, <2>3 DEF Send
<1> QED BY <1>3, <1>4, <1>5, <1>6, <1>7

-----------------------------------------------------------------------------
(* Types and places. *)

\* A step of that form keeps the types and the places.
LEMMA ServesTypes ==
  ASSUME TypeOK, Places, NEW p \in Pids, Serves(p)
  PROVE  TypeOK' /\ Places'
<1> DEFINE c == conn[p]
           Segs == Commands \cup {"part"}
<1>0. c \in Clients /\ c # NoConn
  BY PreforkAssumption DEF Serves, TypeOK, Places, BusyHolds
<1>1. PICK x \in {"receive", "send", "accept", "zombie"}, o \in 0..Writes :
        /\ child' = [child EXCEPT ![p] = x]
        /\ out' = [out EXCEPT ![p] = o]
        /\ x = "send" => o > 0
        /\ conn' = [conn EXCEPT ![p] = IF x \in {"receive", "send"} THEN c ELSE NoConn]
  BY DEF Serves, Continues
<1>2. PICK t \in NetStates : /\ net' = [net EXCEPT ![c] = t]
                             /\ t = "idle" <=> net[c] = "idle"
                             /\ t = "open" <=> net[c] = "open"
  BY DEF Serves, NetGoesOn
<1>3. PICK q \in Seq(Segs) : inq' = [inq EXCEPT ![c] = q]
  BY DEF Serves
<1>4. UNCHANGED <<program, main, signalled, backlog, cut, lines>>
  BY DEF Serves
<1>5. /\ child' \in [Pids -> {"none", "accept", "receive", "send", "zombie", "gone"}]
      /\ child'[p] = x /\ \A r \in Pids \ {p} : child'[r] = child[r]
  BY <1>1 DEF TypeOK
<1>6. /\ conn' \in [Pids -> Clients \cup {NoConn}]
      /\ conn'[p] = (IF x \in {"receive", "send"} THEN c ELSE NoConn)
      /\ \A r \in Pids \ {p} : conn'[r] = conn[r]
  BY <1>0, <1>1 DEF TypeOK
<1>7. /\ out' \in [Pids -> 0..Writes] /\ out'[p] = o
      /\ \A r \in Pids \ {p} : out'[r] = out[r]
  BY <1>1 DEF TypeOK
<1>8. /\ net' \in [Clients -> NetStates]
      /\ \A d \in Clients : (net'[d] = "idle" <=> net[d] = "idle")
                            /\ (net'[d] = "open" <=> net[d] = "open")
  BY <1>2 DEF TypeOK
<1>9. inq' \in [Clients -> Seq(Segs)] /\ \A d \in Clients \ {c} : inq'[d] = inq[d]
  BY <1>3 DEF TypeOK
<1>10. /\ replies' \in [Clients -> Seq({"ok", "err"})]
       /\ \A d \in Clients : net[d] # "open" => replies'[d] = replies[d]
  <2>1. CASE UNCHANGED replies BY <2>1 DEF TypeOK
  <2>2. ASSUME NEW r \in {"ok", "err"}, net[c] = "open",
               replies' = [replies EXCEPT ![c] = Append(replies[c], r)]
        PROVE  <1>10!1 /\ <1>10!2
    <3>1. replies \in [Clients -> Seq({"ok", "err"})] BY DEF TypeOK
    <3>2. Append(replies[c], r) \in Seq({"ok", "err"}) BY <1>0, <3>1
    <3> QED BY <2>2, <3>1, <3>2
  <2> QED BY <2>1, <2>2 DEF Serves, RepliesGoOn
<1>11. TypeOK'
  BY <1>4, <1>5, <1>6, <1>7, <1>8, <1>9, <1>10 DEF TypeOK
<1>12. BusyHolds' /\ FileUnfinished'
  BY <1>0, <1>1, <1>5, <1>6, <1>7 DEF Places, BusyHolds, FileUnfinished, Busy
<1>13. OneHolder'
  BY <1>0, <1>6 DEF Places, OneHolder
<1>14. WaitingOnce' /\ WaitingUnheld'
  BY <1>0, <1>4, <1>6, PreforkAssumption
     DEF Places, WaitingOnce, WaitingUnheld, TypeOK
<1>15. IdleUnknown'
  <2> SUFFICES ASSUME NEW d \in Clients, net'[d] = "idle"
               PROVE  ~Held(d)' /\ ~InBacklog(d)' /\ inq'[d] = <<>>
    BY DEF IdleUnknown
  <2>1. ~Held(d) /\ ~InBacklog(d) /\ inq[d] = <<>>
    BY <1>8 DEF Places, IdleUnknown
  <2>2. d # c BY <2>1 DEF Held
  <2>3. d # NoConn BY PreforkAssumption
  <2> QED BY <1>4, <1>6, <1>9, <2>1, <2>2, <2>3 DEF Held, InBacklog
<1>16. GoneForgotten' /\ CutIsLast'
  BY <1>4, <1>8, <1>10 DEF Places, GoneForgotten, CutIsLast
<1> QED BY <1>11, <1>12, <1>13, <1>14, <1>15, <1>16 DEF Places

\* accept() takes the first connection of the backlog.
LEMMA AcceptTypes ==
  ASSUME TypeOK, Places, NEW p \in Pids, Accept(p)
  PROVE  TypeOK' /\ Places'
<1> DEFINE c == Head(backlog)
<1>1. /\ backlog \in Seq(Clients) /\ backlog # <<>> /\ c \in Clients /\ c = backlog[1]
      /\ backlog' = Tail(backlog) /\ backlog' \in Seq(Clients)
      /\ Len(backlog') = Len(backlog) - 1 /\ Len(backlog) \in Nat
      /\ 1 \in DOMAIN backlog
      /\ \A i \in DOMAIN backlog' : i + 1 \in DOMAIN backlog /\ backlog'[i] = backlog[i + 1]
  BY DEF Accept, TypeOK
<1>2. c # NoConn BY <1>1, PreforkAssumption
<1>3. UNCHANGED <<program, main, signalled, out, net, inq, cut, lines, replies>>
  BY DEF Accept, mainVars
<1>4. /\ child' \in [Pids -> {"none", "accept", "receive", "send", "zombie", "gone"}]
      /\ child'[p] = "receive" /\ child[p] = "accept"
      /\ \A r \in Pids \ {p} : child'[r] = child[r]
  BY DEF Accept, TypeOK
<1>5. /\ conn' \in [Pids -> Clients \cup {NoConn}]
      /\ conn'[p] = c /\ conn[p] = NoConn
      /\ \A r \in Pids \ {p} : conn'[r] = conn[r]
  BY <1>1, <1>4 DEF Accept, TypeOK, Places, BusyHolds, Busy
<1>6. TypeOK' BY <1>1, <1>3, <1>4, <1>5 DEF TypeOK
<1>7. BusyHolds' /\ FileUnfinished'
  BY <1>2, <1>3, <1>4, <1>5 DEF Places, BusyHolds, FileUnfinished, Busy
<1>8. \A r \in Pids : conn[r] # c BY <1>1 DEF Places, WaitingUnheld
<1>9. OneHolder' BY <1>5, <1>8 DEF Places, OneHolder
<1>10. \A i \in DOMAIN backlog' : i \in Nat /\ i + 1 # 1
  BY <1>1
<1>11. WaitingOnce'
  BY <1>1, <1>10 DEF Places, WaitingOnce
<1>12. WaitingUnheld'
  BY <1>1, <1>5, <1>10 DEF Places, WaitingUnheld, WaitingOnce
<1>13. InBacklog(c) BY <1>1 DEF InBacklog
<1>14. IdleUnknown'
  BY <1>1, <1>3, <1>5, <1>13 DEF Places, IdleUnknown, Held, InBacklog
<1>15. GoneForgotten' /\ CutIsLast'
  BY <1>3 DEF Places, GoneForgotten, CutIsLast
<1> QED BY <1>6, <1>7, <1>9, <1>11, <1>12, <1>14, <1>15 DEF Places

\* The father, SIGINT, and what they do to the children.
LEMMA FatherTypes ==
  ASSUME TypeOK, Places, Father \/ Interrupt(Pids) \/ Interrupt({})
  PROVE  TypeOK' /\ Places'
<1> DEFINE Doing == {"none", "accept", "receive", "send", "zombie", "gone"}
<1>1. ASSUME UNCHANGED <<program, netVars>>,
             main' \in {"forking", "pausing", "killing", "waiting", "exited"},
             signalled' \in SUBSET Pids, child' \in [Pids -> Doing],
             conn' \in [Pids -> Clients \cup {NoConn}], out' \in [Pids -> 0..Writes],
             \A p \in Pids : \/ child'[p] = child[p] /\ conn'[p] = conn[p] /\ out'[p] = out[p]
                             \/ child'[p] \notin {"receive", "send"} /\ conn'[p] = NoConn
      PROVE  TypeOK' /\ Places'
  <2>1. TypeOK' BY <1>1 DEF TypeOK, netVars
  <2>2. BusyHolds' /\ FileUnfinished' /\ OneHolder'
    BY <1>1 DEF Places, BusyHolds, FileUnfinished, OneHolder, Busy
  <2>3. WaitingOnce' /\ WaitingUnheld'
    BY <1>1, PreforkAssumption DEF Places, WaitingOnce, WaitingUnheld, TypeOK, netVars
  <2>4. IdleUnknown'
    BY <1>1, PreforkAssumption DEF Places, IdleUnknown, Held, InBacklog, netVars
  <2>5. GoneForgotten' /\ CutIsLast'
    BY <1>1 DEF Places, GoneForgotten, CutIsLast, netVars
  <2> QED BY <2>1, <2>2, <2>3, <2>4, <2>5 DEF Places
<1>2. CASE ForkFails \/ HandleSigint \/ Exit
  BY <1>1, <1>2 DEF ForkFails, HandleSigint, Exit, childVars, TypeOK
<1>3. 0 \in 0..Writes BY PreforkAssumption
<1>4. ASSUME NEW p \in Pids, ForkChild(p) PROVE TypeOK' /\ Places'
  <2>1. conn[p] = NoConn BY <1>4 DEF ForkChild, Places, BusyHolds, Busy
  <2>2. /\ child' \in [Pids -> Doing] /\ child'[p] = "accept"
        /\ \A q \in Pids \ {p} : child'[q] = child[q]
    BY <1>4 DEF ForkChild, TypeOK
  <2>3. UNCHANGED <<program, main, signalled, conn, out, netVars>>
    BY <1>4 DEF ForkChild, mainVars
  <2> QED BY <1>1, <2>1, <2>2, <2>3 DEF TypeOK
<1>5. ASSUME NEW p \in Pids, Kill(p) PROVE TypeOK' /\ Places'
  <2>1. /\ UNCHANGED <<program, netVars>> /\ signalled' \in SUBSET Pids
        /\ main' \in {"forking", "pausing", "killing", "waiting", "exited"}
    BY <1>5 DEF Kill, TypeOK
  <2>2. CASE Dies(p)
    <3>1. /\ child' \in [Pids -> Doing] /\ child'[p] = "zombie"
          /\ \A q \in Pids \ {p} : child'[q] = child[q]
      BY <2>2 DEF Dies, TypeOK
    <3>2. /\ conn' \in [Pids -> Clients \cup {NoConn}] /\ conn'[p] = NoConn
          /\ \A q \in Pids \ {p} : conn'[q] = conn[q]
      BY <2>2 DEF Dies, TypeOK
    <3>3. /\ out' \in [Pids -> 0..Writes]
          /\ \A q \in Pids \ {p} : out'[q] = out[q]
      BY <1>3, <2>2 DEF Dies, TypeOK
    <3> QED BY <1>1, <2>1, <3>1, <3>2, <3>3
  <2>3. CASE UNCHANGED childVars
    BY <1>1, <2>1, <2>3 DEF childVars, TypeOK
  <2> QED BY <1>5, <2>2, <2>3 DEF Kill
<1>6. ASSUME NEW p \in Pids, Reap(p) PROVE TypeOK' /\ Places'
  <2>1. conn[p] = NoConn BY <1>6 DEF Reap, Places, BusyHolds, Busy
  <2>2. /\ child' \in [Pids -> Doing] /\ child'[p] = "gone"
        /\ \A q \in Pids \ {p} : child'[q] = child[q]
    BY <1>6 DEF Reap, TypeOK
  <2>3. UNCHANGED <<program, main, signalled, conn, out, netVars>>
    BY <1>6 DEF Reap, mainVars
  <2> QED BY <1>1, <2>1, <2>2, <2>3 DEF TypeOK
<1>7. ASSUME NEW hit, hit = Pids \/ hit = {}, Interrupt(hit) PROVE TypeOK' /\ Places'
  <2>1. /\ child' = [p \in Pids |-> IF p \in hit /\ Alive(p) THEN "zombie" ELSE child[p]]
        /\ conn' = [p \in Pids |-> IF p \in hit THEN NoConn ELSE conn[p]]
        /\ out' = [p \in Pids |-> IF p \in hit THEN 0 ELSE out[p]]
    BY <1>7 DEF Interrupt
  <2>2. /\ child' \in [Pids -> Doing] /\ conn' \in [Pids -> Clients \cup {NoConn}]
        /\ out' \in [Pids -> 0..Writes]
    BY <1>3, <2>1 DEF TypeOK
  <2>3. \A p \in Pids : ~Alive(p) => child[p] \notin {"receive", "send"}
    BY DEF Alive
  <2>4. UNCHANGED <<program, signalled, netVars>>
        /\ main' \in {"forking", "pausing", "killing", "waiting", "exited"}
    BY <1>7 DEF Interrupt
  <2>5. \A p \in Pids : \/ child'[p] = child[p] /\ conn'[p] = conn[p] /\ out'[p] = out[p]
                        \/ child'[p] \notin {"receive", "send"} /\ conn'[p] = NoConn
    BY <2>1, <2>3
  <2> QED BY <1>1, <2>2, <2>4, <2>5 DEF TypeOK
<1> QED BY <1>2, <1>4, <1>5, <1>6, <1>7 DEF Father

\* The clients and the network.
LEMMA ClientTypes ==
  ASSUME TypeOK, Places, NEW c \in Clients, Client(c)
  PROVE  TypeOK' /\ Places'
<1> DEFINE Segs == Commands \cup {"part"}
<1> USE DEF Places
<1>0. c # NoConn BY PreforkAssumption
<1>1. CASE Connect(c)
  <2>1. /\ net[c] = "idle" /\ net' = [net EXCEPT ![c] = "open"]
        /\ backlog' = Append(backlog, c)
        /\ UNCHANGED <<mainVars, childVars, inq, cut, lines, replies>>
    BY <1>1 DEF Connect
  <2>2. net' \in [Clients -> NetStates] /\ net'[c] = "open"
        /\ \A d \in Clients \ {c} : net'[d] = net[d]
    BY <2>1 DEF TypeOK, NetStates
  <2>3. /\ backlog \in Seq(Clients) /\ backlog' \in Seq(Clients)
        /\ Len(backlog') = Len(backlog) + 1 /\ Len(backlog) \in Nat
        /\ backlog'[Len(backlog) + 1] = c
        /\ \A i \in DOMAIN backlog : backlog'[i] = backlog[i] /\ i \in DOMAIN backlog'
        /\ \A i \in DOMAIN backlog' : i \in DOMAIN backlog \/ i = Len(backlog) + 1
    BY <2>1 DEF TypeOK
  <2>4. TypeOK' BY <2>1, <2>2, <2>3 DEF TypeOK, mainVars, childVars
  <2>5. BusyHolds' /\ FileUnfinished' /\ OneHolder'
    BY <2>1 DEF BusyHolds, FileUnfinished, OneHolder, Busy, childVars
  <2>6. ~Held(c) /\ ~InBacklog(c) BY <2>1 DEF IdleUnknown
  <2>7. WaitingOnce' /\ WaitingUnheld'
    BY <2>1, <2>3, <2>6 DEF WaitingOnce, WaitingUnheld, Held, InBacklog, childVars
  <2>8. IdleUnknown'
    BY <2>1, <2>2, <2>3 DEF IdleUnknown, Held, InBacklog, childVars
  <2>9. GoneForgotten' /\ CutIsLast'
    BY <2>1, <2>2 DEF GoneForgotten, CutIsLast
  <2> QED BY <2>4, <2>5, <2>7, <2>8, <2>9
<1>2. ASSUME UNCHANGED <<mainVars, childVars, backlog>>, TypeOK',
             \A d \in Clients \ {c} :
               UNCHANGED <<net[d], inq[d], cut[d], lines[d], replies[d]>>,
             net'[c] = "idle" => inq'[c] = <<>> /\ ~Held(c) /\ ~InBacklog(c),
             net'[c] # "open" => lines'[c] = <<>> /\ replies'[c] = <<>> /\ ~cut'[c],
             cut'[c] => lines'[c] # <<>> /\ lines'[c][Len(lines'[c])].split
      PROVE  TypeOK' /\ Places'
  <2>1. BusyHolds' /\ FileUnfinished' /\ OneHolder' /\ WaitingOnce' /\ WaitingUnheld'
    BY <1>2
       DEF BusyHolds, FileUnfinished, OneHolder, WaitingOnce, WaitingUnheld, Busy, childVars
  <2>2. IdleUnknown'
    BY <1>2 DEF IdleUnknown, Held, InBacklog, childVars
  <2>3. GoneForgotten' /\ CutIsLast'
    BY <1>2 DEF GoneForgotten, CutIsLast
  <2> QED BY <1>2, <2>1, <2>2, <2>3
<1>3. CASE ClientCloses(c) \/ ClientLeaves(c) \/ ResetArrives(c)
  <2>1. PICK s \in {"fin", "reset", "idle", "broken"} : net' = [net EXCEPT ![c] = s]
    BY <1>3 DEF ClientCloses, ClientLeaves, ResetArrives
  <2>2. /\ net' \in [Clients -> NetStates] /\ net'[c] = s
        /\ \A d \in Clients \ {c} : net'[d] = net[d]
    BY <2>1 DEF TypeOK, NetStates
  <2>3. /\ inq' \in [Clients -> Seq(Segs)] /\ (s = "idle" => inq'[c] = <<>>)
        /\ \A d \in Clients \ {c} : inq'[d] = inq[d]
    <3>1. inq \in [Clients -> Seq(Segs)] /\ <<>> \in Seq(Segs) BY DEF TypeOK
    <3>2. CASE ClientLeaves(c) BY <3>1, <3>2 DEF ClientLeaves
    <3>3. CASE ClientCloses(c) \/ ResetArrives(c)
      <4>1. UNCHANGED inq BY <3>3 DEF ClientCloses, ResetArrives
      <4>2. s # "idle" BY <2>2, <3>3 DEF ClientCloses, ResetArrives, TypeOK
      <4> QED BY <3>1, <4>1, <4>2
    <3> QED BY <1>3, <3>2, <3>3
  <2>4. /\ cut' \in [Clients -> BOOLEAN]
        /\ lines' \in [Clients -> Seq([cmd : Commands, split : BOOLEAN])]
        /\ replies' \in [Clients -> Seq({"ok", "err"})]
    <3>1. /\ cut \in [Clients -> BOOLEAN]
          /\ lines \in [Clients -> Seq([cmd : Commands, split : BOOLEAN])]
          /\ replies \in [Clients -> Seq({"ok", "err"})]
      BY DEF TypeOK
    <3>2. <<>> \in Seq([cmd : Commands, split : BOOLEAN]) /\ <<>> \in Seq({"ok", "err"})
      OBVIOUS
    <3>3. cut' = cut \/ cut' = [cut EXCEPT ![c] = FALSE]
      BY <1>3 DEF ClientCloses, ClientLeaves, ResetArrives
    <3>4. cut' \in [Clients -> BOOLEAN] BY <3>1, <3>3, Zenon
    <3>5. /\ lines' = lines \/ lines' = [lines EXCEPT ![c] = <<>>]
          /\ replies' = replies \/ replies' = [replies EXCEPT ![c] = <<>>]
      BY <1>3 DEF ClientCloses, ClientLeaves, ResetArrives
    <3> QED BY <3>1, <3>2, <3>4, <3>5
  <2>5. lines'[c] = <<>> /\ replies'[c] = <<>> /\ ~cut'[c]
    BY <1>3 DEF ClientCloses, ClientLeaves, ResetArrives, GoneForgotten, TypeOK
  <2>6. \A d \in Clients \ {c} : UNCHANGED <<cut[d], lines[d], replies[d]>>
    BY <1>3 DEF ClientCloses, ClientLeaves, ResetArrives, TypeOK
  <2>7. UNCHANGED <<mainVars, childVars, backlog>>
    BY <1>3 DEF ClientCloses, ClientLeaves, ResetArrives
  <2>8. TypeOK' BY <2>2, <2>3, <2>4, <2>7 DEF TypeOK, mainVars, childVars
  <2>9. s = "idle" => ~Held(c) /\ ~InBacklog(c)
    BY <1>3, <2>2 DEF ClientCloses, ClientLeaves, ResetArrives
  <2> QED BY <1>2, <2>2, <2>3, <2>5, <2>6, <2>7, <2>8, <2>9
<1>4. ASSUME NEW m \in Commands, SendLine(c, m) \/ SendFirst(c, m) \/ SendRest(c, m)
      PROVE  TypeOK' /\ Places'
  <2>1. PICK seg \in Segs : inq' = [inq EXCEPT ![c] = Append(inq[c], seg)]
    BY <1>4 DEF SendLine, SendFirst, SendRest
  <2>2. /\ inq' \in [Clients -> Seq(Segs)]
        /\ \A d \in Clients \ {c} : inq'[d] = inq[d]
    <3>1. Append(inq[c], seg) \in Seq(Segs) BY DEF TypeOK
    <3> QED BY <2>1, <3>1 DEF TypeOK
  <2>3. net[c] = "open" /\ UNCHANGED <<mainVars, childVars, backlog, net, replies>>
    BY <1>4 DEF SendLine, SendFirst, SendRest, CanSend
  <2>4. CASE SendRest(c, m)
    <3>1. /\ cut' = [cut EXCEPT ![c] = FALSE] /\ UNCHANGED lines
      BY <2>4 DEF SendRest
    <3>2. cut' \in [Clients -> BOOLEAN] /\ ~cut'[c] /\ \A d \in Clients \ {c} : cut'[d] = cut[d]
      BY <3>1, Zenon DEF TypeOK
    <3>3. TypeOK' BY <2>2, <2>3, <3>1, <3>2 DEF TypeOK, mainVars, childVars
    <3> QED BY <1>2, <2>2, <2>3, <3>1, <3>2, <3>3
  <2>5. ASSUME NEW l \in [cmd : Commands, split : BOOLEAN],
               lines' = [lines EXCEPT ![c] = Append(lines[c], l)],
               cut' \in [Clients -> BOOLEAN], cut'[c] => l.split,
               \A d \in Clients \ {c} : cut'[d] = cut[d]
        PROVE  TypeOK' /\ Places'
    <3>1. lines[c] \in Seq([cmd : Commands, split : BOOLEAN]) BY DEF TypeOK
    <3>2. /\ Append(lines[c], l) \in Seq([cmd : Commands, split : BOOLEAN])
          /\ Len(Append(lines[c], l)) = Len(lines[c]) + 1
          /\ Append(lines[c], l)[Len(lines[c]) + 1] = l
          /\ Append(lines[c], l) # <<>>
      BY <3>1
    <3>3. /\ lines' \in [Clients -> Seq([cmd : Commands, split : BOOLEAN])]
          /\ lines'[c] = Append(lines[c], l)
          /\ \A d \in Clients \ {c} : lines'[d] = lines[d]
      BY <2>5, <3>2 DEF TypeOK
    <3>4. TypeOK' BY <2>2, <2>3, <2>5, <3>3 DEF TypeOK, mainVars, childVars
    <3> QED BY <1>2, <2>2, <2>3, <2>5, <3>2, <3>3, <3>4
  <2>6. CASE SendLine(c, m)
    <3>1. [cmd |-> m, split |-> FALSE] \in [cmd : Commands, split : BOOLEAN] OBVIOUS
    <3>2. /\ ~cut[c] /\ UNCHANGED cut
          /\ lines' = [lines EXCEPT ![c] = Append(lines[c], [cmd |-> m, split |-> FALSE])]
      BY <2>6 DEF SendLine
    <3>3. cut' \in [Clients -> BOOLEAN] BY <3>2 DEF TypeOK
    <3> QED BY <2>5, <3>1, <3>2, <3>3
  <2>7. CASE SendFirst(c, m)
    <3>1. [cmd |-> m, split |-> TRUE] \in [cmd : Commands, split : BOOLEAN] OBVIOUS
    <3>2. /\ cut' = [cut EXCEPT ![c] = TRUE]
          /\ lines' = [lines EXCEPT ![c] = Append(lines[c], [cmd |-> m, split |-> TRUE])]
      BY <2>7 DEF SendFirst
    <3>3. cut' \in [Clients -> BOOLEAN] /\ \A d \in Clients \ {c} : cut'[d] = cut[d]
      BY <3>2, Zenon DEF TypeOK
    <3>4. [cmd |-> m, split |-> TRUE].split OBVIOUS
    <3> QED BY <2>5, <3>1, <3>2, <3>3, <3>4
  <2> QED BY <1>4, <2>4, <2>6, <2>7
<1> QED BY <1>1, <1>3, <1>4 DEF Client

-----------------------------------------------------------------------------
(* The stream of one client. *)

\* Steps that leave a client's stream alone.
LEMMA StreamKept ==
  ASSUME NEW c \in Clients, StreamOf(c), program' = program,
         net'[c] = "open" => /\ net[c] = "open"
                             /\ UNCHANGED <<inq[c], cut[c], lines[c], replies[c]>>,
         (Held(c) \/ InBacklog(c))' => Held(c) \/ InBacklog(c)
  PROVE  StreamOf(c)'
<1> SUFFICES ASSUME net'[c] = "open", Straight(c)'
             PROVE  Answered(c)' /\ ((Held(c) \/ InBacklog(c))' => Pipelined(c)')
  BY DEF StreamOf
<1>1. Straight(c) BY DEF Straight
<1>2. Answered(c) /\ (Held(c) \/ InBacklog(c) => Pipelined(c))
  BY <1>1 DEF StreamOf
<1>3. Answered(c)' BY <1>2 DEF Answered
<1>4. Pipelined(c) => Pipelined(c)'
  <2> SUFFICES ASSUME Pipelined(c) PROVE Pipelined(c)'
    OBVIOUS
  <2>1. inq'[c] = inq[c] /\ cut'[c] = cut[c] /\ lines'[c] = lines[c] /\ replies'[c] = replies[c]
    OBVIOUS
  <2>2. PICK at \in [(Len(replies[c]) + 1)..(Len(lines[c]) + 1) -> 1..(Len(inq[c]) + 1)] :
          Unread(c, at)
    BY DEF Pipelined
  <2>3. Unread(c, at)' BY <2>1, <2>2 DEF Unread, Segments
  <2> QED BY <2>1, <2>2, <2>3 DEF Pipelined
<1> QED BY <1>2, <1>3, <1>4

\* An element of a sequence is of its set.
LEMMA Element ==
  ASSUME NEW S, NEW s \in Seq(S), NEW i \in 1..Len(s)
  PROVE  s[i] \in S
OBVIOUS

\* A place k further on in the first q, or one more.
LEMMA Moved ==
  ASSUME NEW q \in Nat, NEW k \in {1, 2}, NEW a \in Int, k + 1 <= a
  PROVE  /\ a - k + k = a /\ a - k + 1 + k = a + 1
         /\ a < q + 1 => a - k \in 1..(q - k)
         /\ a + 2 <= q + 1 => a - k + 1 \in 1..(q - k)
OBVIOUS

\* A place behind the first k segments, counted without them.
LEMMA Within ==
  ASSUME NEW q \in Nat, NEW k \in {1, 2}, NEW a \in Int, k + 1 <= a, a <= q + 1
  PROVE  a - k \in 1..(q - k + 1)
OBVIOUS

\* Two places moved by the same distance.
LEMMA Shifted ==
  ASSUME NEW a \in Int, NEW b \in Int, NEW k \in Int
  PROVE  /\ b = a + 1 => b - k = a - k + 1
         /\ b = a + 2 => b - k = a - k + 2
OBVIOUS

\* The first and the last of these places.
LEMMA Ends ==
  ASSUME NEW q \in Nat, NEW k \in {1, 2}
  PROVE  \A x \in Int : (x = k + 1 => x - k = 1) /\ (x = q + 1 => x - k = q - k + 1)
OBVIOUS

\* A sequence without its first two elements.
LEMMA TailTail ==
  ASSUME NEW S, NEW s \in Seq(S), 2 <= Len(s)
  PROVE  /\ Len(Tail(Tail(s))) = Len(s) - 2
         /\ \A i \in 1..(Len(s) - 2) : Tail(Tail(s))[i] = s[i + 2]
<1>1. s # <<>> OBVIOUS
<1>2. Tail(s) \in Seq(S) /\ Len(Tail(s)) = Len(s) - 1 BY <1>1
<1>7. \A i \in 1..(Len(s) - 1) : Tail(s)[i] = s[i + 1] BY <1>1
<1>8. Len(Tail(s)) # 0 /\ Len(<<>>) = 0 BY <1>2
<1>3. Tail(s) # <<>> BY <1>8, Zenon
<1>4. /\ Len(Tail(Tail(s))) = Len(s) - 1 - 1
      /\ \A i \in 1..(Len(s) - 1 - 1) : Tail(Tail(s))[i] = Tail(s)[i + 1]
  BY <1>2, <1>3
<1>5. Len(s) - 1 - 1 = Len(s) - 2 OBVIOUS
<1>6. \A i \in 1..(Len(s) - 2) : i + 1 \in 1..(Len(s) - 1) /\ i + 1 + 1 = i + 2
  OBVIOUS
<1> QED BY <1>2, <1>4, <1>5, <1>6, <1>7

\* The first k segments are the first line not answered, whole.
LEMMA FirstLine ==
  ASSUME TypeOK, Places, NEW c \in Clients, Answered(c), Pipelined(c),
         NEW k \in {1, 2}, k <= Len(inq[c]), k = 1 <=> inq[c][1] # "part"
  PROVE  LET r == Len(replies[c])
             n == Len(lines[c]) IN
         /\ r < n
         /\ lines[c][r + 1].cmd = inq[c][k]
         /\ lines[c][r + 1].split <=> k = 2
         /\ ~(r + 1 = n /\ cut[c])
         /\ \E at \in [(r + 1)..(n + 1) -> 1..(Len(inq[c]) + 1)] :
              Unread(c, at) /\ at[r + 2] = k + 1
<1> DEFINE r == Len(replies[c])
           n == Len(lines[c])
           q == Len(inq[c])
<1>1. r \in Nat /\ n \in Nat /\ q \in Nat /\ r <= n /\ q >= 1
  BY DEF TypeOK, Answered
<1>2. PICK at \in [(r + 1)..(n + 1) -> 1..(q + 1)] : Unread(c, at)
  BY DEF Pipelined
<1> HIDE DEF r, n, q
<1>3. /\ at[r + 1] = 1 /\ at[n + 1] = q + 1
      /\ \A i, j \in (r + 1)..(n + 1) : i < j => at[i] < at[j]
      /\ \A i \in (r + 1)..n : Segments(c, i, at[i], at[i + 1])
  BY <1>2 DEF Unread, r, n, q
<1>4. r < n BY <1>1, <1>3
<1>5. r + 1 \in (r + 1)..n /\ r + 2 \in (r + 1)..(n + 1) /\ r + 1 + 1 = r + 2
  BY <1>1, <1>4
<1>6. Segments(c, r + 1, 1, at[r + 2]) BY <1>3, <1>5
<1>7. lines[c][r + 1] \in [cmd : Commands, split : BOOLEAN]
  <2>1. lines[c] \in Seq([cmd : Commands, split : BOOLEAN]) BY DEF TypeOK
  <2>2. r + 1 \in 1..Len(lines[c]) BY <1>1, <1>4 DEF n
  <2> QED BY <2>1, <2>2, Element
<1>8. lines[c][r + 1].cmd \in Commands /\ "part" \notin Commands
  BY <1>7 DEF Commands
<1>9. r + 1 = n => (at[r + 2] = q + 1) BY <1>1, <1>3
<1>10. /\ at[r + 2] = k + 1
       /\ lines[c][r + 1].cmd = inq[c][k]
       /\ lines[c][r + 1].split <=> k = 2
       /\ ~(r + 1 = n /\ cut[c])
  <2>1. cut[c] /\ r + 1 = n => lines[c][r + 1].split
    BY DEF Places, CutIsLast, n
  <2>2. CASE k = 1
    <3>1. inq[c][1] # "part" BY <2>2
    <3>2. ~lines[c][r + 1].split /\ at[r + 2] = 1 + 1 /\ inq[c][1] = lines[c][r + 1].cmd
      BY <1>6, <3>1 DEF Segments
    <3> QED BY <2>1, <2>2, <3>2
  <2>3. CASE k = 2
    <3>1. inq[c][1] = "part" /\ q >= 2 BY <2>3 DEF q
    <3>2. lines[c][r + 1].split BY <1>6, <1>8, <3>1 DEF Segments
    <3>3. ~(r + 1 = n /\ cut[c])
      BY <1>1, <1>6, <1>9, <3>1, <3>2 DEF Segments, n
    <3>4. at[r + 2] = 1 + 2 /\ inq[c][1 + 1] = lines[c][r + 1].cmd
      BY <1>6, <3>2, <3>3 DEF Segments, n
    <3> QED BY <2>3, <3>2, <3>3, <3>4
  <2> QED BY <2>2, <2>3
<1> QED BY <1>2, <1>4, <1>10 DEF r, n, q

\* When the first k segments have been read and answered, the rest is that
\* of the lines not answered yet.
LEMMA Consumed ==
  ASSUME TypeOK, Places, NEW c \in Clients, Answered(c), Pipelined(c),
         NEW k \in {1, 2}, k <= Len(inq[c]), k = 1 <=> inq[c][1] # "part",
         UNCHANGED <<lines[c], cut[c]>>, Len(replies'[c]) = Len(replies[c]) + 1,
         Len(inq'[c]) = Len(inq[c]) - k,
         \A i \in 1..(Len(inq[c]) - k) : inq'[c][i] = inq[c][i + k]
  PROVE  Pipelined(c)'
<1> DEFINE r == Len(replies[c])
           n == Len(lines[c])
           q == Len(inq[c])
<1>1. r \in Nat /\ n \in Nat /\ q \in Nat /\ q >= 1
  BY DEF TypeOK
<1>4. r < n /\ ~(r + 1 = n /\ cut[c]) BY FirstLine
<1>2. PICK at \in [(r + 1)..(n + 1) -> 1..(q + 1)] : Unread(c, at) /\ at[r + 2] = k + 1
  BY FirstLine
<1> HIDE DEF r, n, q
<1>3. /\ at[r + 1] = 1 /\ at[n + 1] = q + 1
      /\ \A i, j \in (r + 1)..(n + 1) : i < j => at[i] < at[j]
      /\ \A i \in (r + 1)..n : Segments(c, i, at[i], at[i + 1])
  BY <1>2 DEF Unread, r, n, q
<1>5. r + 2 \in (r + 1)..(n + 1) BY <1>1, <1>4
<1>10. at[r + 2] = k + 1 BY <1>2
<1>20. \E f : f = [i \in (r + 2)..(n + 1) |-> at[i] - k] OBVIOUS
<1>21. PICK later : later = [i \in (r + 2)..(n + 1) |-> at[i] - k] BY <1>20
<1>11. \A i \in (r + 2)..(n + 1) :
         /\ i \in (r + 1)..(n + 1) /\ at[i] \in Int /\ k + 1 <= at[i] /\ at[i] <= q + 1
         /\ later[i] = at[i] - k
  <2>0. \A i \in (r + 2)..(n + 1) : later[i] = at[i] - k BY <1>21
  <2> SUFFICES ASSUME NEW i \in (r + 2)..(n + 1)
               PROVE  /\ i \in (r + 1)..(n + 1) /\ at[i] \in Int
                      /\ k + 1 <= at[i] /\ at[i] <= q + 1
    BY <2>0
  <2>1. i \in (r + 1)..(n + 1) /\ at[i] \in 1..(q + 1) BY <1>1
  <2>2. i = r + 2 \/ at[r + 2] < at[i] BY <1>1, <1>3, <1>5, <2>1
  <2>3. k + 1 <= at[i] BY <1>1, <1>10, <2>1, <2>2
  <2> QED BY <1>1, <2>1, <2>3
<1>12. later \in [(r + 2)..(n + 1) -> 1..(q - k + 1)]
  <2>1. \A i \in (r + 2)..(n + 1) : at[i] - k \in 1..(q - k + 1)
    BY <1>1, <1>11, Within
  <2> QED BY <1>21, <2>1
<1>13. later[r + 2] = 1 /\ later[n + 1] = q - k + 1
  <2>1. r + 2 \in (r + 2)..(n + 1) /\ n + 1 \in (r + 2)..(n + 1) BY <1>1, <1>4
  <2>2. later[r + 2] = at[r + 2] - k /\ later[n + 1] = at[n + 1] - k
    BY <1>11, <2>1, Zenon
  <2>3. at[r + 2] = k + 1 /\ at[n + 1] = q + 1 BY <1>3, <1>10
  <2>4. \A x \in Int : (x = k + 1 => x - k = 1) /\ (x = q + 1 => x - k = q - k + 1)
    BY <1>1, Ends
  <2>5. at[r + 2] \in Int /\ at[n + 1] \in Int BY <1>11, <2>1
  <2>6. at[r + 2] - k = 1 /\ at[n + 1] - k = q - k + 1 BY <2>3, <2>4, <2>5, Zenon
  <2> QED BY <2>2, <2>6, Zenon
<1>14. \A i, j \in (r + 2)..(n + 1) : i < j => later[i] < later[j]
  BY <1>3, <1>11
<1>15. \A i \in (r + 2)..n : Segments(c, i, later[i], later[i + 1])'
  <2> SUFFICES ASSUME NEW i \in (r + 2)..n
               PROVE  Segments(c, i, later[i], later[i + 1])'
    OBVIOUS
  <2>1. /\ i \in (r + 1)..n /\ i \in (r + 2)..(n + 1) /\ i + 1 \in (r + 2)..(n + 1)
        /\ i < i + 1
    BY <1>1
  <2>2. Segments(c, i, at[i], at[i + 1]) BY <1>3, <2>1
  <2>3. at[i] < at[i + 1] BY <1>3, <1>11, <2>1
  <2>4. inq'[c][at[i] - k] = inq[c][at[i]]
    <3>1. at[i] - k \in 1..(q - k) /\ at[i] - k + k = at[i]
      <4>1. at[i] \in Int /\ k + 1 <= at[i] /\ at[i + 1] \in Int /\ at[i + 1] <= q + 1
        BY <1>11, <2>1
      <4>2. at[i] < q + 1 BY <1>1, <2>3, <4>1
      <4> QED BY <1>1, <4>1, <4>2, Moved
    <3> QED BY <3>1 DEF q
  <2>5. at[i + 1] = at[i] + 2 => inq'[c][at[i] - k + 1] = inq[c][at[i] + 1]
    <3> SUFFICES ASSUME at[i + 1] = at[i] + 2
                 PROVE  inq'[c][at[i] - k + 1] = inq[c][at[i] + 1]
      OBVIOUS
    <3>1. at[i] + 2 <= q + 1 /\ at[i] \in Int /\ k + 1 <= at[i]
      BY <1>11, <2>1
    <3>2. at[i] - k + 1 \in 1..(q - k) /\ at[i] - k + 1 + k = at[i] + 1
      BY <1>1, <3>1, Moved
    <3> QED BY <3>2 DEF q
  <2>6. later[i] = at[i] - k /\ later[i + 1] = at[i + 1] - k BY <1>11, <2>1
  <2>7. /\ at[i + 1] = at[i] + 1 => later[i + 1] = later[i] + 1
        /\ at[i + 1] = at[i] + 2 => later[i + 1] = later[i] + 2
    <3>1. at[i] \in Int /\ at[i + 1] \in Int /\ k \in Int BY <1>11, <2>1
    <3>2. /\ at[i + 1] = at[i] + 1 => at[i + 1] - k = at[i] - k + 1
          /\ at[i + 1] = at[i] + 2 => at[i + 1] - k = at[i] - k + 2
      BY <3>1, Shifted
    <3> QED BY <2>6, <3>2
  <2>8. inq'[c][later[i]] = inq[c][at[i]] BY <2>4, <2>6
  <2>10. lines'[c] = lines[c] /\ cut'[c] = cut[c] OBVIOUS
  <2>9. at[i + 1] = at[i] + 2 => inq'[c][later[i] + 1] = inq[c][at[i] + 1]
    BY <2>5, <2>6
  <2> QED BY <2>2, <2>7, <2>8, <2>9, <2>10 DEF Segments
<1>16. Len(replies'[c]) = r + 1 /\ Len(inq'[c]) = q - k /\ Len(lines'[c]) = n
  BY DEF r, n, q
<1>17. Unread(c, later)'
  <2>1. r + 1 + 1 = r + 2 BY <1>1
  <2> QED BY <1>13, <1>14, <1>15, <1>16, <2>1 DEF Unread
<1>18. cut'[c] => Len(replies'[c]) < Len(lines'[c])
  BY <1>1, <1>4, <1>16
<1>19. Pipelined(c)'
  <2>1. r + 1 + 1 = r + 2 BY <1>1
  <2> QED BY <1>12, <1>16, <1>17, <1>18, <2>1 DEF Pipelined
<1> QED BY <1>19

\* A line, or the first segment of one, is sent behind the others.
LEMMA Extended ==
  ASSUME TypeOK, NEW c \in Clients, Answered(c), Pipelined(c), ~cut[c],
         NEW l \in [cmd : Commands, split : BOOLEAN], NEW seg,
         lines'[c] = Append(lines[c], l), inq'[c] = Append(inq[c], seg),
         UNCHANGED replies[c],
         \/ l.split /\ cut'[c] /\ seg = "part"
         \/ ~l.split /\ ~cut'[c] /\ seg = l.cmd
  PROVE  Answered(c)' /\ Pipelined(c)'
<1> DEFINE r == Len(replies[c])
           n == Len(lines[c])
           q == Len(inq[c])
<1>1. /\ r \in Nat /\ n \in Nat /\ q \in Nat /\ r <= n
      /\ \A i \in 1..r : i \in 1..n
  BY DEF TypeOK, Answered
<1>2. PICK at \in [(r + 1)..(n + 1) -> 1..(q + 1)] : Unread(c, at)
  BY DEF Pipelined
<1>3. /\ Len(lines'[c]) = n + 1 /\ lines'[c][n + 1] = l
      /\ \A i \in 1..n : lines'[c][i] = lines[c][i]
  BY DEF TypeOK
<1>4. /\ Len(inq'[c]) = q + 1 /\ inq'[c][q + 1] = seg
      /\ \A i \in 1..q : inq'[c][i] = inq[c][i]
  BY DEF TypeOK
<1>5. replies'[c] = replies[c] /\ Len(replies'[c]) = r OBVIOUS
<1>6. Answered(c)'
  BY <1>1, <1>3, <1>5 DEF Answered
<1>7. /\ at[r + 1] = 1 /\ at[n + 1] = q + 1
      /\ \A i, j \in (r + 1)..(n + 1) : i < j => at[i] < at[j]
      /\ \A i \in (r + 1)..n : Segments(c, i, at[i], at[i + 1])
  BY <1>2 DEF Unread
<1>8. r = Len(replies[c]) /\ n = Len(lines[c]) /\ q = Len(inq[c]) OBVIOUS
<1> HIDE DEF r, n, q
<1>9. \E f : f = [i \in (r + 1)..(n + 2) |-> IF i = n + 2 THEN q + 2 ELSE at[i]]
  OBVIOUS
<1>10. PICK more : more = [i \in (r + 1)..(n + 2) |-> IF i = n + 2 THEN q + 2 ELSE at[i]]
  BY <1>9
<1>11. /\ more \in [(r + 1)..(n + 2) -> 1..(q + 2)]
       /\ more[n + 2] = q + 2
       /\ \A i \in (r + 1)..(n + 1) : more[i] = at[i] /\ at[i] \in 1..(q + 1)
  BY <1>1, <1>10
<1>12. n + 1 \in (r + 1)..(n + 1) /\ r + 1 \in (r + 1)..(n + 1) BY <1>1
<1>13. more[r + 1] = 1 /\ more[n + 1] = q + 1 BY <1>7, <1>11, <1>12
<1>14. \A i, j \in (r + 1)..(n + 2) : i < j => more[i] < more[j]
  <2> SUFFICES ASSUME NEW i \in (r + 1)..(n + 2), NEW j \in (r + 1)..(n + 2), i < j
               PROVE  more[i] < more[j]
    OBVIOUS
  <2>1. i \in (r + 1)..(n + 1) BY <1>1
  <2>2. CASE j = n + 2 BY <1>1, <1>11, <2>1, <2>2
  <2>3. CASE j # n + 2
    <3>1. j \in (r + 1)..(n + 1) BY <1>1, <2>3
    <3> QED BY <1>7, <1>11, <2>1, <3>1
  <2> QED BY <2>2, <2>3
<1>15. \A i \in (r + 1)..n : Segments(c, i, more[i], more[i + 1])'
  <2> SUFFICES ASSUME NEW i \in (r + 1)..n
               PROVE  Segments(c, i, more[i], more[i + 1])'
    OBVIOUS
  <2>1. /\ i \in (r + 1)..(n + 1) /\ i + 1 \in (r + 1)..(n + 1) /\ i < i + 1
        /\ i \in 1..n /\ i # n + 1
    BY <1>1
  <2>2. /\ Segments(c, i, at[i], at[i + 1]) /\ at[i] < at[i + 1]
        /\ more[i] = at[i] /\ more[i + 1] = at[i + 1]
        /\ at[i] \in 1..(q + 1) /\ at[i + 1] \in 1..(q + 1)
    BY <1>7, <1>11, <2>1
  <2>3. at[i] \in 1..q BY <1>1, <2>2
  <2>4. at[i + 1] = at[i] + 2 => at[i] + 1 \in 1..q BY <1>1, <2>2
  <2>5. lines'[c][i] = lines[c][i] /\ inq'[c][at[i]] = inq[c][at[i]]
    BY <1>3, <1>4, <2>1, <2>3
  <2>6. at[i + 1] = at[i] + 2 => inq'[c][at[i] + 1] = inq[c][at[i] + 1]
    BY <1>4, <2>4
  <2> QED BY <1>3, <2>1, <2>2, <2>5, <2>6 DEF Segments
<1>16. ASSUME NEW i, i = n + 1 PROVE Segments(c, i, more[i], more[i + 1])'
  <2>1. i + 1 = n + 2 /\ q + 2 = q + 1 + 1 BY <1>1, <1>16
  <2>2. more[i] = q + 1 /\ more[i + 1] = q + 1 + 1 BY <1>11, <1>13, <1>16, <2>1
  <2>3. inq'[c][more[i]] = seg /\ more[i + 1] = more[i] + 1 BY <1>4, <2>2
  <2>4. lines'[c][i] = l /\ i = Len(lines'[c]) BY <1>3, <1>16
  <2>5. CASE l.split /\ cut'[c] /\ seg = "part"
    BY <2>3, <2>4, <2>5 DEF Segments
  <2>6. CASE ~l.split /\ ~cut'[c] /\ seg = l.cmd
    BY <2>3, <2>4, <2>6 DEF Segments
  <2> QED BY <2>5, <2>6
<1>17. \A i \in (r + 1)..(n + 1) : Segments(c, i, more[i], more[i + 1])'
  <2> SUFFICES ASSUME NEW i \in (r + 1)..(n + 1)
               PROVE  Segments(c, i, more[i], more[i + 1])'
    OBVIOUS
  <2>1. CASE i = n + 1 BY <1>16, <2>1
  <2>2. CASE i # n + 1
    <3>1. i \in (r + 1)..n BY <1>1, <2>2
    <3> QED BY <1>15, <3>1
  <2> QED BY <2>1, <2>2
<1>18. n + 1 + 1 = n + 2 /\ q + 1 + 1 = q + 2 /\ r < n + 1 BY <1>1
<1>19. Unread(c, more)'
  BY <1>3, <1>4, <1>5, <1>11, <1>13, <1>14, <1>17, <1>18 DEF Unread
<1>20. Pipelined(c)'
  BY <1>3, <1>4, <1>5, <1>11, <1>18, <1>19 DEF Pipelined
<1> QED BY <1>6, <1>20

\* The rest of the last line is sent.
LEMMA Completed ==
  ASSUME TypeOK, Places, NEW c \in Clients, Answered(c), Pipelined(c), cut[c],
         inq[c] # <<>> => inq'[c] = Append(inq[c], lines[c][Len(lines[c])].cmd),
         ~cut'[c], UNCHANGED <<lines[c], replies[c]>>
  PROVE  Answered(c)' /\ Pipelined(c)'
<1> DEFINE r == Len(replies[c])
           n == Len(lines[c])
           q == Len(inq[c])
<1>1. r \in Nat /\ n \in Nat /\ q \in Nat /\ r < n
  BY DEF TypeOK, Pipelined
<1>2. PICK at \in [(r + 1)..(n + 1) -> 1..(q + 1)] : Unread(c, at)
  BY DEF Pipelined
<1>3. lines'[c] = lines[c] /\ replies'[c] = replies[c] OBVIOUS
<1>4. Answered(c)' BY <1>3 DEF Answered
<1>5. /\ at[r + 1] = 1 /\ at[n + 1] = q + 1
      /\ \A i, j \in (r + 1)..(n + 1) : i < j => at[i] < at[j]
      /\ \A i \in (r + 1)..n : Segments(c, i, at[i], at[i + 1])
  BY <1>2 DEF Unread
<1>6. /\ n \in (r + 1)..n /\ n \in (r + 1)..(n + 1) /\ n + 1 \in (r + 1)..(n + 1)
      /\ n < n + 1 /\ r + 1 \in (r + 1)..(n + 1) /\ r + 1 # n + 1
  BY <1>1
<1>7. at[n] \in 1..(q + 1) /\ at[n] < q + 1 BY <1>5, <1>6
<1>8. at[n] \in 1..q /\ q >= 1 BY <1>1, <1>7
<1>9. inq[c] # <<>> BY <1>8
<1>10. /\ Len(inq'[c]) = q + 1 /\ inq'[c][q + 1] = lines[c][n].cmd
       /\ \A i \in 1..q : inq'[c][i] = inq[c][i]
  <2>1. inq'[c] = Append(inq[c], lines[c][n].cmd) BY <1>9
  <2>2. inq[c] \in Seq(Commands \cup {"part"}) BY DEF TypeOK
  <2> QED BY <2>1, <2>2
<1>11. lines[c][n].split BY DEF Places, CutIsLast
<1>12. Segments(c, n, at[n], q + 1) BY <1>5, <1>6
<1>13. q + 1 = at[n] + 1 /\ inq[c][at[n]] = "part"
  BY <1>11, <1>12 DEF Segments
<1>14. r = Len(replies[c]) /\ n = Len(lines[c]) /\ q = Len(inq[c]) OBVIOUS
<1> HIDE DEF r, n, q
<1>15. \E f : f = [i \in (r + 1)..(n + 1) |-> IF i = n + 1 THEN q + 2 ELSE at[i]]
  OBVIOUS
<1>16. PICK whole : whole = [i \in (r + 1)..(n + 1) |-> IF i = n + 1 THEN q + 2 ELSE at[i]]
  BY <1>15
<1>17. \A i \in (r + 1)..n : i \in (r + 1)..(n + 1) /\ i # n + 1 /\ at[i] \in 1..(q + 1)
  BY <1>1
<1>18. /\ whole \in [(r + 1)..(n + 1) -> 1..(q + 2)]
       /\ whole[n + 1] = q + 2
       /\ \A i \in (r + 1)..n : whole[i] = at[i]
  BY <1>1, <1>16, <1>17
<1>19. whole[r + 1] = 1
  <2>1. r + 1 \in (r + 1)..n BY <1>1
  <2> QED BY <1>5, <1>18, <2>1
<1>20. \A i, j \in (r + 1)..(n + 1) : i < j => whole[i] < whole[j]
  <2> SUFFICES ASSUME NEW i \in (r + 1)..(n + 1), NEW j \in (r + 1)..(n + 1), i < j
               PROVE  whole[i] < whole[j]
    OBVIOUS
  <2>1. i \in (r + 1)..n BY <1>1
  <2>2. CASE j = n + 1 BY <1>1, <1>17, <1>18, <2>1, <2>2
  <2>3. CASE j # n + 1
    <3>1. j \in (r + 1)..n BY <1>1, <2>3
    <3> QED BY <1>5, <1>17, <1>18, <2>1, <3>1
  <2> QED BY <2>2, <2>3
<1>21. \A i \in (r + 1)..n : Segments(c, i, whole[i], whole[i + 1])'
  <2> SUFFICES ASSUME NEW i \in (r + 1)..n
               PROVE  Segments(c, i, whole[i], whole[i + 1])'
    OBVIOUS
  <2>1. CASE i = n
    <3>1. whole[n] = at[n] /\ whole[n + 1] = at[n] + 2 /\ inq'[c][at[n]] = "part"
          /\ inq'[c][at[n] + 1] = lines[c][n].cmd
      <4>1. at[n] = q /\ q + 2 = at[n] + 2 /\ at[n] + 1 = q + 1 BY <1>1, <1>8, <1>13
      <4> QED BY <1>6, <1>8, <1>10, <1>13, <1>18, <4>1
    <3> QED BY <1>3, <1>11, <2>1, <3>1 DEF Segments
  <2>2. CASE i # n
    <3>1. i + 1 \in (r + 1)..n /\ i < i + 1 BY <1>1, <2>2
    <3>2. /\ Segments(c, i, at[i], at[i + 1]) /\ at[i] < at[i + 1]
          /\ whole[i] = at[i] /\ whole[i + 1] = at[i + 1]
          /\ at[i] \in 1..(q + 1) /\ at[i + 1] \in 1..(q + 1)
      BY <1>5, <1>17, <1>18, <3>1
    <3>3. at[i] \in 1..q BY <1>1, <3>2
    <3>4. at[i + 1] = at[i] + 2 => at[i] + 1 \in 1..q BY <1>1, <3>2
    <3>5. inq'[c][at[i]] = inq[c][at[i]] BY <1>10, <3>3
    <3>6. at[i + 1] = at[i] + 2 => inq'[c][at[i] + 1] = inq[c][at[i] + 1]
      BY <1>10, <3>4
    <3> QED BY <1>3, <1>14, <2>2, <3>2, <3>5, <3>6 DEF Segments
  <2> QED BY <2>1, <2>2
<1>22. q + 1 + 1 = q + 2 BY <1>1
<1>23. Unread(c, whole)'
  BY <1>3, <1>10, <1>14, <1>18, <1>19, <1>20, <1>21, <1>22 DEF Unread
<1>24. Pipelined(c)'
  BY <1>3, <1>10, <1>14, <1>18, <1>22, <1>23 DEF Pipelined
<1> QED BY <1>4, <1>24

-----------------------------------------------------------------------------
(* Every step keeps the streams. *)

\* A child that lets go of a client owes it nothing more.
LEMMA LetGo ==
  ASSUME TypeOK, Places, NEW p \in Pids, NEW c \in Clients, conn[p] = c, StreamOf(c),
         Release(p), net'[c] = "open" => net[c] = "open",
         UNCHANGED <<program, backlog, lines, replies>>
  PROVE  StreamOf(c)'
<1>1. c # NoConn BY PreforkAssumption
<1>2. conn'[p] = NoConn /\ \A q \in Pids \ {p} : conn'[q] = conn[q]
  BY DEF Release, TypeOK
<1>3. ~Held(c)' BY <1>1, <1>2 DEF Held, Places, OneHolder
<1>4. ~InBacklog(c)' BY DEF InBacklog, Places, WaitingUnheld
<1>5. Answered(c) => Answered(c)' BY DEF Answered
<1>6. Straight(c)' => Straight(c) BY DEF Straight
<1> QED BY <1>3, <1>4, <1>5, <1>6 DEF StreamOf

\* The reply to the first line not answered is the right one.
LEMMA OneMore ==
  ASSUME TypeOK, Places, NEW c \in Clients, Answered(c), Pipelined(c),
         NEW k \in {1, 2}, k <= Len(inq[c]), k = 1 <=> inq[c][1] # "part",
         UNCHANGED <<lines[c], cut[c]>>, Len(inq'[c]) = Len(inq[c]) - k,
         \A i \in 1..(Len(inq[c]) - k) : inq'[c][i] = inq[c][i + k],
         inq[c][k] # "quit",
         replies'[c] = Append(replies[c], IF inq[c][k] = "get" THEN "ok" ELSE "err")
  PROVE  Answered(c)' /\ Pipelined(c)'
<1> DEFINE r == Len(replies[c])
           n == Len(lines[c])
<1>1. r \in Nat /\ n \in Nat BY DEF TypeOK
<1>2. r < n /\ lines[c][r + 1].cmd = inq[c][k] BY FirstLine
<1>3. /\ Len(replies'[c]) = r + 1
      /\ replies'[c][r + 1] = IF inq[c][k] = "get" THEN "ok" ELSE "err"
      /\ \A i \in 1..r : replies'[c][i] = replies[c][i]
  BY DEF TypeOK
<1>4. Pipelined(c)' BY <1>3, Consumed
<1>5. Answered(c)'
  <2>1. Len(replies'[c]) <= Len(lines'[c]) BY <1>1, <1>2, <1>3
  <2>2. ASSUME NEW i \in 1..(r + 1)
        PROVE  lines'[c][i].cmd # "quit" /\ replies'[c][i] = ReplyTo(lines'[c][i])
    <3>1. CASE i = r + 1 BY <1>2, <1>3, <3>1 DEF ReplyTo
    <3>2. CASE i # r + 1
      <4>1. i \in 1..r BY <1>1, <3>2
      <4> QED BY <1>3, <4>1 DEF Answered, ReplyTo
    <3> QED BY <3>1, <3>2
  <2> QED BY <1>3, <2>1, <2>2 DEF Answered
<1> QED BY <1>4, <1>5

\* A whole line is read on an open connection and carried out.
LEMMA ReadOne ==
  ASSUME TypeOK, Places, NEW p \in Pids, NEW c \in Clients, conn[p] = c,
         net[c] = "open", StreamOf(c),
         NEW k \in {1, 2}, k <= Len(inq[c]), k = 1 <=> inq[c][1] # "part",
         UNCHANGED <<program, backlog, lines, cut>>,
         Len(inq'[c]) = Len(inq[c]) - k,
         \A i \in 1..(Len(inq[c]) - k) : inq'[c][i] = inq[c][i + k],
         Reply(p, inq[c][k], net[c])
  PROVE  StreamOf(c)'
<1> DEFINE m == inq[c][k]
<1> SUFFICES ASSUME Straight(c)' PROVE StreamOf(c)'
  BY DEF StreamOf
<1>1. Straight(c) BY DEF Straight
<1>2. Held(c) BY DEF Held
<1>3. Answered(c) /\ Pipelined(c) BY <1>1, <1>2 DEF StreamOf
<1>4. ~(m = "unreadable" /\ program = "timeout")
  <2>1. Len(replies[c]) < Len(lines[c]) /\ lines[c][Len(replies[c]) + 1].cmd = m
    BY <1>3, FirstLine
  <2>2. Len(replies[c]) + 1 \in DOMAIN lines[c]
    <3>1. lines[c] \in Seq([cmd : Commands, split : BOOLEAN]) BY DEF TypeOK
    <3>2. replies[c] \in Seq({"ok", "err"}) BY DEF TypeOK
    <3> QED BY <2>1, <3>1, <3>2
  <2> QED BY <1>1, <2>1, <2>2 DEF Straight
<1>5. ASSUME m # "quit", Answer(c, IF m = "get" THEN "ok" ELSE "err") PROVE StreamOf(c)'
  <2>1. replies'[c] = Append(replies[c], IF m = "get" THEN "ok" ELSE "err")
    BY <1>5 DEF Answer, TypeOK
  <2>2. Answered(c)' /\ Pipelined(c)' BY <1>3, <1>5, <2>1, OneMore
  <2> QED BY <2>2 DEF StreamOf
<1>6. ASSUME Release(p), UNCHANGED replies PROVE StreamOf(c)'
  BY <1>6, LetGo
<1>7. ~WriteFails(net[c]) BY DEF WriteFails
<1> QED BY <1>4, <1>5, <1>6, <1>7 DEF Reply

\* No half of a line is left on an open connection the server promises for.
LEMMA NoHalf ==
  ASSUME TypeOK, NEW c \in Clients, Answered(c), Pipelined(c), Straight(c),
         program = "timeout", inq[c] = <<"part">>
  PROVE  FALSE
<1> DEFINE r == Len(replies[c])
           n == Len(lines[c])
<1>1. r \in Nat /\ n \in Nat /\ r <= n /\ Len(inq[c]) = 1 /\ inq[c][1] = "part"
  BY DEF TypeOK, Answered
<1>2. PICK at \in [(r + 1)..(n + 1) -> 1..(1 + 1)] : Unread(c, at)
  BY <1>1 DEF Pipelined
<1>3. at[r + 1] = 1 /\ at[n + 1] = 1 + 1
      /\ \A i \in (r + 1)..n : Segments(c, i, at[i], at[i + 1])
  BY <1>1, <1>2 DEF Unread
<1>4. r < n BY <1>1, <1>3
<1>5. r + 1 \in (r + 1)..n /\ r + 1 \in 1..n BY <1>1, <1>4
<1>6. Segments(c, r + 1, 1, at[r + 1 + 1]) BY <1>3, <1>5
<1>7. lines[c] \in Seq([cmd : Commands, split : BOOLEAN]) BY DEF TypeOK
<1>8. lines[c][r + 1] \in [cmd : Commands, split : BOOLEAN] /\ r + 1 \in DOMAIN lines[c]
  <2>1. r + 1 \in 1..Len(lines[c]) BY <1>5
  <2>2. DOMAIN lines[c] = 1..Len(lines[c]) BY <1>7
  <2>3. lines[c][r + 1] \in [cmd : Commands, split : BOOLEAN] BY <1>7, <2>1, Element
  <2> QED BY <2>1, <2>2, <2>3
<1>9. lines[c][r + 1].cmd # "part" BY <1>8 DEF Commands
<1>10. lines[c][r + 1].split BY <1>1, <1>6, <1>9 DEF Segments
<1> QED BY <1>8, <1>10 DEF Straight

\* A step of a child in receiver.
LEMMA ServesStream ==
  ASSUME TypeOK, Places, Stream, NEW p \in Pids,
         ReadLine(p) \/ ReadPart(p) \/ ReadEnd(p) \/ Timeout(p) \/ Send(p)
  PROVE  Stream'
<1>1. Serves(p) BY ChildServes
<1>0. conn[p] \in Clients
  BY <1>1, PreforkAssumption DEF Serves, TypeOK, Places, BusyHolds
<1>2. PICK c \in Clients : conn[p] = c BY <1>0
<1>3. UNCHANGED <<program, backlog, cut, lines>> BY <1>1 DEF Serves
<1>4. net'[c] = "open" <=> net[c] = "open"
  BY <1>1, <1>2 DEF Serves, NetGoesOn, TypeOK
<1>5. ASSUME NEW d \in Clients \ {c} PROVE StreamOf(d)'
  <2>1. StreamOf(d) BY DEF Stream
  <2>2. net'[d] = net[d] BY <1>1, <1>2 DEF Serves, NetGoesOn, TypeOK
  <2>3. inq'[d] = inq[d] BY <1>1, <1>2 DEF Serves, TypeOK
  <2>4. replies'[d] = replies[d] BY <1>1, <1>2 DEF Serves, RepliesGoOn, TypeOK
  <2>5. Held(d)' => Held(d)
    <3>1. d # NoConn BY PreforkAssumption
    <3>2. \A q \in Pids : conn'[q] = d => conn[q] = d
      BY <1>1, <1>2, <3>1 DEF Serves, Continues, TypeOK
    <3> QED BY <3>2 DEF Held
  <2>6. InBacklog(d)' => InBacklog(d) BY <1>3 DEF InBacklog
  <2> QED BY <1>3, <2>1, <2>2, <2>3, <2>4, <2>5, <2>6, StreamKept
<1>6. StreamOf(c)'
  <2> SUFFICES ASSUME net[c] = "open", Straight(c)' PROVE StreamOf(c)'
    BY <1>4 DEF StreamOf
  <2>1. StreamOf(c) BY <1>2 DEF Stream
  <2>2. Held(c) /\ Straight(c) BY <1>2, <1>3 DEF Held, Straight
  <2>3. Answered(c) /\ Pipelined(c) BY <2>1, <2>2 DEF StreamOf
  <2>4. ~AtEOF(net[c]) /\ ~WriteFails(net[c]) BY DEF AtEOF, PeerGone, WriteFails
  <2>5. inq[c] \in Seq(Commands \cup {"part"}) BY <1>2 DEF TypeOK
  <2>6. CASE ReadLine(p)
    <3>1. CASE inq[c] # <<>> /\ Head(inq[c]) # "part"
               /\ inq' = [inq EXCEPT ![c] = Tail(inq[c])]
               /\ Reply(p, Head(inq[c]), net[c])
      <4>1. /\ 1 <= Len(inq[c]) /\ inq[c][1] = Head(inq[c]) /\ inq'[c] = Tail(inq[c])
            /\ Len(Tail(inq[c])) = Len(inq[c]) - 1
            /\ \A i \in 1..(Len(inq[c]) - 1) : Tail(inq[c])[i] = inq[c][i + 1]
        BY <1>2, <2>5, <3>1 DEF TypeOK
      <4>3. Reply(p, inq[c][1], net[c]) BY <1>2, <3>1, <4>1
      <4> QED BY <1>2, <1>3, <2>1, <3>1, <4>1, <4>3, ReadOne
    <3>2. CASE Len(inq[c]) > 1 /\ Head(inq[c]) = "part"
               /\ inq' = [inq EXCEPT ![c] = Tail(Tail(inq[c]))]
               /\ Reply(p, inq[c][2], net[c])
      <4>0. inq[c] # <<>> BY <2>5, <3>2
      <4>1. /\ 2 <= Len(inq[c]) /\ inq[c][1] = Head(inq[c])
            /\ inq'[c] = Tail(Tail(inq[c]))
        BY <1>2, <2>5, <3>2, <4>0 DEF TypeOK
      <4>2. /\ Len(inq'[c]) = Len(inq[c]) - 2
            /\ \A i \in 1..(Len(inq[c]) - 2) : inq'[c][i] = inq[c][i + 2]
        BY <2>5, <4>1, TailTail
      <4>3. 2 \in {1, 2} /\ (2 = 1 <=> inq[c][1] # "part") BY <3>2, <4>1
      <4> QED BY <1>2, <1>3, <2>1, <3>2, <4>1, <4>2, <4>3, ReadOne
    <3> QED BY <1>2, <2>6, <3>1, <3>2 DEF ReadLine
  <2>7. ~ReadPart(p)
    BY <1>2, <2>2, <2>3, <2>4, NoHalf DEF ReadPart
  <2>8. ~ReadEnd(p) BY <1>2, <2>4 DEF ReadEnd
  <2>9. CASE Timeout(p)
    <3> QED BY <1>2, <1>3, <1>4, <2>1, <2>9, LetGo DEF Timeout, netVars
  <2>10. CASE Send(p)
    <3>1. UNCHANGED <<conn, backlog, inq, cut, lines, replies>>
      BY <1>2, <2>4, <2>10 DEF Send
    <3>2. Held(c)' => Held(c) BY <2>2
    <3>3. InBacklog(c)' => InBacklog(c) BY <3>1 DEF InBacklog
    <3> QED BY <1>2, <1>3, <2>1, <2>2, <3>1, StreamKept
  <2> QED BY <2>6, <2>7, <2>8, <2>9, <2>10
<1> QED BY <1>5, <1>6 DEF Stream

\* accept(), and the father, leave every stream alone.
LEMMA AcceptStream ==
  ASSUME TypeOK, Stream, NEW p \in Pids, Accept(p)
  PROVE  Stream'
<1>1. /\ backlog \in Seq(Clients) /\ backlog # <<>>
      /\ backlog' = Tail(backlog) /\ conn' = [conn EXCEPT ![p] = Head(backlog)]
      /\ UNCHANGED <<program, net, inq, cut, lines, replies>>
  BY DEF Accept, TypeOK, mainVars
<1>2. /\ 1 \in DOMAIN backlog /\ Head(backlog) = backlog[1]
      /\ \A i \in DOMAIN backlog' : i + 1 \in DOMAIN backlog /\ backlog'[i] = backlog[i + 1]
  BY <1>1
<1> SUFFICES ASSUME NEW d \in Clients PROVE StreamOf(d)'
  BY DEF Stream
<1>3. InBacklog(d)' => InBacklog(d) BY <1>2 DEF InBacklog
<1>4. Held(d)' => Held(d) \/ InBacklog(d)
  <2>1. \A q \in Pids : conn'[q] = conn[q] \/ conn'[q] = backlog[1]
    BY <1>1, <1>2 DEF TypeOK
  <2> QED BY <1>2, <2>1 DEF Held, InBacklog
<1>5. StreamOf(d) BY DEF Stream
<1> QED BY <1>1, <1>3, <1>4, <1>5, StreamKept

\* The father and SIGINT leave every stream alone, and free connections at most.
LEMMA FatherStream ==
  ASSUME TypeOK, Stream, Father \/ Interrupt(Pids) \/ Interrupt({})
  PROVE  Stream'
<1>1. UNCHANGED <<program, backlog, net, inq, cut, lines, replies>>
  BY DEF Father, ForkFails, HandleSigint, Exit, ForkChild, Kill, Reap, Interrupt,
         mainVars, netVars
<1>2. \A q \in Pids : conn'[q] = conn[q] \/ conn'[q] = NoConn
  <2>1. CASE Father
    <3>1. UNCHANGED conn \/ \E p \in Pids : conn' = [conn EXCEPT ![p] = NoConn]
      BY <2>1
         DEF Father, ForkFails, HandleSigint, Exit, ForkChild, Kill, Reap, Dies, childVars
    <3> QED BY <3>1 DEF TypeOK
  <2>2. CASE Interrupt(Pids) \/ Interrupt({})
    BY <2>2 DEF Interrupt
  <2> QED BY <2>1, <2>2
<1> SUFFICES ASSUME NEW d \in Clients PROVE StreamOf(d)'
  BY DEF Stream
<1>3. InBacklog(d)' => InBacklog(d) BY <1>1 DEF InBacklog
<1>4. Held(d)' => Held(d) BY <1>2, PreforkAssumption DEF Held
<1>5. StreamOf(d) BY DEF Stream
<1> QED BY <1>1, <1>3, <1>4, <1>5, StreamKept

\* A new connection has an empty stream.
LEMMA FreshStream ==
  ASSUME NEW c \in Clients, inq'[c] = <<>>, lines'[c] = <<>>, replies'[c] = <<>>, ~cut'[c]
  PROVE  Answered(c)' /\ Pipelined(c)'
<1>1. Len(replies'[c]) = 0 /\ Len(lines'[c]) = 0 /\ Len(inq'[c]) = 0 OBVIOUS
<1>2. \E f : f = [i \in 1..1 |-> 1] OBVIOUS
<1>3. PICK at : at = [i \in 1..1 |-> 1] BY <1>2
<1>4. at \in [(0 + 1)..(0 + 1) -> 1..(0 + 1)] /\ at[0 + 1] = 0 + 1 BY <1>3
<1>5. Unread(c, at)' BY <1>1, <1>4 DEF Unread
<1> QED BY <1>1, <1>4, <1>5 DEF Answered, Pipelined

\* What a client sends is a line more, or the rest of the last.
LEMMA ClientStream ==
  ASSUME TypeOK, Places, Stream, NEW c \in Clients, Client(c)
  PROVE  Stream'
<1>1. UNCHANGED <<program, conn>>
  BY DEF Client, Connect, ClientCloses, ResetArrives, ClientLeaves, SendLine, SendFirst,
         SendRest, mainVars, childVars
<1>2. Connect(c) \/ backlog' = backlog
  BY DEF Client, ClientCloses, ResetArrives, ClientLeaves, SendLine, SendFirst, SendRest
<1>3. \A d \in Clients : Held(d)' = Held(d) BY <1>1 DEF Held
<1>4. ASSUME NEW d \in Clients, InBacklog(d)' PROVE InBacklog(d) \/ (Connect(c) /\ d = c)
  <2>1. CASE backlog' = backlog
    <3>1. InBacklog(d) BY <1>4, <2>1 DEF InBacklog
    <3> QED BY <3>1
  <2>2. CASE Connect(c)
    <3>1. backlog \in Seq(Clients) /\ backlog' = Append(backlog, c)
      BY <2>2 DEF TypeOK, Connect
    <3>2. PICK i \in DOMAIN backlog' : backlog'[i] = d BY <1>4 DEF InBacklog
    <3>3. d = c \/ (i \in DOMAIN backlog /\ backlog[i] = d) BY <3>1, <3>2
    <3> QED BY <2>2, <3>3 DEF InBacklog
  <2> QED BY <1>2, <2>1, <2>2
<1>5. ASSUME NEW d \in Clients \ {c} PROVE StreamOf(d)'
  <2>1. net'[d] = net[d]
    BY DEF Client, Connect, ClientCloses, ResetArrives, ClientLeaves, SendLine, SendFirst,
           SendRest, TypeOK
  <2>2. inq'[d] = inq[d] /\ replies'[d] = replies[d] /\ lines'[d] = lines[d]
    BY DEF Client, Connect, ClientCloses, ResetArrives, ClientLeaves, SendLine, SendFirst,
           SendRest, TypeOK
  <2>3. cut'[d] = cut[d]
    <3>1. cut' = cut \/ cut' = [cut EXCEPT ![c] = TRUE] \/ cut' = [cut EXCEPT ![c] = FALSE]
      BY DEF Client, Connect, ClientCloses, ResetArrives, ClientLeaves, SendLine, SendFirst,
             SendRest
    <3> QED BY <3>1 DEF TypeOK
  <2>4. StreamOf(d) BY DEF Stream
  <2>5. (Held(d) \/ InBacklog(d))' => Held(d) \/ InBacklog(d) BY <1>3, <1>4
  <2> QED BY <1>1, <2>1, <2>2, <2>3, <2>4, <2>5, StreamKept
<1>6. StreamOf(c)'
  <2>0. StreamOf(c) BY DEF Stream
  <2>1. CASE Connect(c)
    <3>1. /\ lines'[c] = <<>> /\ replies'[c] = <<>> /\ ~cut'[c] /\ inq'[c] = <<>>
      <4>1. net[c] = "idle" /\ UNCHANGED <<lines, replies, cut, inq>>
        BY <2>1 DEF Connect
      <4> QED BY <4>1 DEF Places, GoneForgotten, IdleUnknown
    <3>2. Answered(c)' /\ Pipelined(c)' BY <3>1, FreshStream
    <3> QED BY <3>2 DEF StreamOf
  <2>2. CASE ClientCloses(c) \/ ResetArrives(c) \/ ClientLeaves(c)
    <3>1. net'[c] # "open"
      BY <2>2 DEF ClientCloses, ResetArrives, ClientLeaves, TypeOK
    <3> QED BY <3>1 DEF StreamOf
  <2>3. ASSUME NEW m \in Commands, SendLine(c, m) \/ SendFirst(c, m) \/ SendRest(c, m)
        PROVE  StreamOf(c)'
    <3> SUFFICES ASSUME Straight(c)' PROVE Answered(c)' /\ Pipelined(c)'
      BY DEF StreamOf
    <3>1. CanSend(c) /\ replies'[c] = replies[c]
      BY <2>3 DEF SendLine, SendFirst, SendRest
    <3>2. lines[c] \in Seq([cmd : Commands, split : BOOLEAN]) BY DEF TypeOK
    <3>3. ASSUME NEW l, lines'[c] = Append(lines[c], l) PROVE Straight(c)
      <4>1. \A i \in DOMAIN lines[c] : i \in DOMAIN lines'[c] /\ lines'[c][i] = lines[c][i]
        BY <3>2, <3>3
      <4> QED BY <1>1, <4>1 DEF Straight
    <3>4. ASSUME Straight(c) PROVE Answered(c) /\ Pipelined(c)
      BY <2>0, <3>1, <3>4 DEF StreamOf, CanSend
    <3>5. CASE SendLine(c, m)
      <4>1. [cmd |-> m, split |-> FALSE] \in [cmd : Commands, split : BOOLEAN] OBVIOUS
      <4>2. PICK l \in [cmd : Commands, split : BOOLEAN] : l = [cmd |-> m, split |-> FALSE]
        BY <4>1
      <4>3. /\ lines'[c] = Append(lines[c], l) /\ inq'[c] = Append(inq[c], m)
            /\ ~cut[c] /\ ~cut'[c] /\ ~l.split /\ m = l.cmd
        BY <3>5, <4>2 DEF SendLine, TypeOK
      <4>4. Answered(c) /\ Pipelined(c) BY <3>3, <3>4, <4>3
      <4> QED BY <3>1, <4>3, <4>4, Extended
    <3>6. CASE SendFirst(c, m)
      <4>1. [cmd |-> m, split |-> TRUE] \in [cmd : Commands, split : BOOLEAN] OBVIOUS
      <4>2. PICK l \in [cmd : Commands, split : BOOLEAN] : l = [cmd |-> m, split |-> TRUE]
        BY <4>1
      <4>3. /\ lines'[c] = Append(lines[c], l) /\ inq'[c] = Append(inq[c], "part")
            /\ ~cut[c] /\ l.split
        BY <3>6, <4>2 DEF SendFirst, TypeOK
      <4>4. cut'[c]
        <5>1. cut' = [cut EXCEPT ![c] = TRUE] /\ cut \in [Clients -> BOOLEAN]
          BY <3>6 DEF SendFirst, TypeOK
        <5> QED BY <5>1, Zenon
      <4>5. Answered(c) /\ Pipelined(c) BY <3>3, <3>4, <4>3
      <4> QED BY <3>1, <4>3, <4>4, <4>5, Extended
    <3>7. CASE SendRest(c, m)
      <4>1. /\ UNCHANGED lines /\ cut[c]
            /\ inq[c] # <<>> => inq'[c] = Append(inq[c], lines[c][Len(lines[c])].cmd)
        BY <3>7 DEF SendRest, TypeOK
      <4>2. ~cut'[c]
        <5>1. cut' = [cut EXCEPT ![c] = FALSE] /\ cut \in [Clients -> BOOLEAN]
          BY <3>7 DEF SendRest, TypeOK
        <5> QED BY <5>1, Zenon
      <4>3. Straight(c) BY <1>1, <4>1 DEF Straight
      <4> QED BY <3>1, <3>4, <4>1, <4>2, <4>3, Completed
    <3> QED BY <2>3, <3>5, <3>6, <3>7
  <2> QED BY <2>1, <2>2, <2>3 DEF Client
<1> QED BY <1>5, <1>6 DEF Stream

-----------------------------------------------------------------------------
(* The invariant. *)

\* No child runs yet and no client is there.
LEMMA InitInv == Init => Inv
<1> SUFFICES ASSUME Init PROVE Inv
  OBVIOUS
<1>1. TypeOK
  <2>1. cut \in [Clients -> BOOLEAN] BY Zenon DEF Init, InitFather, InitNet
  <2>2. /\ <<>> \in Seq(Commands \cup {"part"}) /\ <<>> \in Seq({"ok", "err"})
        /\ <<>> \in Seq([cmd : Commands, split : BOOLEAN])
    OBVIOUS
  <2>3. 0 \in 0..Writes BY PreforkAssumption
  <2> QED BY <2>1, <2>2, <2>3 DEF Init, InitFather, InitNet, TypeOK, NetStates
<1>2. BusyHolds /\ FileUnfinished /\ OneHolder
  BY DEF Init, InitFather, InitNet, BusyHolds, FileUnfinished, OneHolder, Busy
<1>3. WaitingOnce /\ WaitingUnheld
  BY DEF Init, InitFather, InitNet, WaitingOnce, WaitingUnheld
<1>4. IdleUnknown
  BY PreforkAssumption DEF Init, InitFather, InitNet, IdleUnknown, Held, InBacklog
<1>5. GoneForgotten /\ CutIsLast
  <2>1. \A c \in Clients : ~cut[c] BY DEF Init, InitFather, InitNet
  <2> QED BY <2>1 DEF Init, InitFather, InitNet, GoneForgotten, CutIsLast
<1>6. Stream BY DEF Init, InitFather, InitNet, Stream, StreamOf
<1> QED BY <1>1, <1>2, <1>3, <1>4, <1>5, <1>6 DEF Inv, Places

\* A step of nobody keeps the invariant.
LEMMA StutterInv == Inv /\ UNCHANGED vars => Inv'
<1> SUFFICES ASSUME Inv, UNCHANGED vars PROVE Inv'
  OBVIOUS
<1>1. UNCHANGED <<program, main, signalled, child, conn, out, backlog, net, inq, cut, lines,
                  replies>>
  BY DEF vars, mainVars, childVars, netVars
<1>2. TypeOK' BY <1>1 DEF Inv, TypeOK
<1>3. Places'
  BY <1>1 DEF Inv, Places, BusyHolds, FileUnfinished, OneHolder, WaitingOnce, WaitingUnheld,
              IdleUnknown, GoneForgotten, CutIsLast, Busy, Held, InBacklog
<1>4. ASSUME NEW c \in Clients PROVE StreamOf(c)'
  <2>1. StreamOf(c) BY DEF Inv, Stream
  <2>2. (Held(c) \/ InBacklog(c))' => Held(c) \/ InBacklog(c)
    BY <1>1 DEF Held, InBacklog
  <2> QED BY <1>1, <2>1, <2>2, StreamKept
<1> QED BY <1>2, <1>3, <1>4 DEF Inv, Stream

\* Every step keeps the invariant.
LEMMA Inductive == Inv /\ [Next]_vars => Inv'
<1> SUFFICES ASSUME Inv, [Next]_vars PROVE Inv'
  OBVIOUS
<1> USE DEF Inv
<1>1. CASE Father \/ Interrupt(Pids) \/ Interrupt({})
  BY <1>1, FatherTypes, FatherStream
<1>2. ASSUME NEW p \in Pids, Accept(p) PROVE Inv'
  BY <1>2, AcceptTypes, AcceptStream
<1>3. ASSUME NEW p \in Pids,
             ReadLine(p) \/ ReadPart(p) \/ ReadEnd(p) \/ Timeout(p) \/ Send(p)
      PROVE  Inv'
  BY <1>3, ChildServes, ServesTypes, ServesStream
<1>4. ASSUME NEW c \in Clients, Client(c) PROVE Inv'
  BY <1>4, ClientTypes, ClientStream
<1>5. CASE UNCHANGED vars BY <1>5, StutterInv
<1> QED BY <1>1, <1>2, <1>3, <1>4, <1>5 DEF Next, Child

\* Inv holds in every state that can be reached.
THEOREM Invariance == Spec => []Inv
<1> QED BY InitInv, Inductive, PTL DEF Spec

\* Every variable keeps its type; above all a child that sends a file never has
\* more writes left than one file has (preforking:119).
THEOREM TypeCorrect == Spec => []TypeOK
<1>1. Inv => TypeOK BY DEF Inv
<1> QED BY <1>1, Invariance, PTL

-----------------------------------------------------------------------------
(* Every line is answered once, with its own answer and in order. *)

\* The order of the natural numbers, as a relation.
Below == {ss \in Nat \X Nat : ss[1] < ss[2]}

\* There is no infinite descent in the natural numbers.
LEMMA BelowWellFounded == IsWellFoundedOn(Below, Nat)
BY NatLessThanWellFounded, Zenon DEF OpToRel, Below

\* A set of numbers that is not empty has a least element.
LEMMA Least ==
  ASSUME NEW T, T \subseteq Nat, T # {}
  PROVE  \E x \in T : \A y \in T : x <= y
<1>1. PICK x \in T : \A y \in T : ~(<<y, x>> \in Below)
  BY BelowWellFounded, WFMin, Zenon
<1>2. \A y \in T : ~(y < x) BY <1>1 DEF Below
<1> QED BY <1>2

\* What the protocol asks for is a sequence, of the lines before a QUIT.
LEMMA ExpectedUpTo ==
  ASSUME TypeOK, NEW c \in Clients
  PROVE  \E e \in 0..Len(lines[c]) :
           /\ Expected(c) = [i \in 1..e |-> ReplyTo(lines[c][i])]
           /\ e = Len(lines[c]) \/ lines[c][e + 1].cmd = "quit"
<1> DEFINE n == Len(lines[c])
           quits == {i \in DOMAIN lines[c] : lines[c][i].cmd = "quit"}
           served == {i \in DOMAIN lines[c] : \A q \in quits : i < q}
<1>1. n \in Nat /\ DOMAIN lines[c] = 1..n BY DEF TypeOK
<1>2. Expected(c) = [i \in served |-> ReplyTo(lines[c][i])]
  BY DEF Expected, ReplyTo
<1>3. CASE quits = {}
  <2>1. served = 1..n BY <1>1, <1>3
  <2>2. n \in 0..n BY <1>1
  <2> QED BY <1>2, <2>1, <2>2
<1>4. CASE quits # {}
  <2>1. quits \subseteq Nat BY <1>1
  <2>2. PICK q \in quits : \A y \in quits : q <= y BY <1>4, <2>1, Least
  <2>3. q \in 1..n /\ lines[c][q].cmd = "quit" BY <1>1
  <2>4. \E e \in 0..n : e = q - 1 BY <1>1, <2>3
  <2>5. PICK e \in 0..n : e = q - 1 BY <2>4
  <2>6. served = 1..e
    <3>1. \A i \in 1..n : (\A y \in quits : i < y) <=> i <= e
      BY <1>1, <2>1, <2>2, <2>3, <2>5
    <3> QED BY <1>1, <2>3, <2>5, <3>1
  <2>7. e + 1 = q BY <1>1, <2>3, <2>5
  <2> QED BY <1>2, <2>3, <2>6, <2>7
<1> QED BY <1>3, <1>4

\* A sequence of which another is the beginning.
LEMMA Beginning ==
  ASSUME NEW S, NEW s \in Seq(S), NEW t \in Seq(S), Len(s) <= Len(t),
         \A i \in 1..Len(s) : s[i] = t[i]
  PROVE  IsPrefix(s, t)
BY DEF IsPrefix

\* RepliesMatch holds in every state that can be reached.
THEOREM AnsweredInOrder == Spec => []RepliesMatch
<1>1. Inv => RepliesMatch
  <2> SUFFICES ASSUME Inv, NEW c \in Clients, net[c] = "open", Straight(c)
               PROVE  /\ IsPrefix(replies[c], Expected(c))
                      /\ \A p \in Pids :
                           conn[p] = c /\ child[p] = "receive" /\ inq[c] = <<>> =>
                             replies[c] = Expected(c)
    BY DEF RepliesMatch
  <2> DEFINE r == Len(replies[c])
             n == Len(lines[c])
  <2>1. TypeOK /\ Places /\ StreamOf(c) BY DEF Inv, Stream
  <2>2. Answered(c) BY <2>1 DEF StreamOf
  <2>3. PICK e \in 0..n : /\ Expected(c) = [i \in 1..e |-> ReplyTo(lines[c][i])]
                          /\ e = n \/ lines[c][e + 1].cmd = "quit"
    BY <2>1, ExpectedUpTo
  <2>4. r \in Nat /\ n \in Nat /\ replies[c] \in Seq({"ok", "err"}) BY <2>1 DEF TypeOK
  <2>5. /\ r <= n
        /\ \A i \in 1..r : lines[c][i].cmd # "quit" /\ replies[c][i] = ReplyTo(lines[c][i])
    BY <2>2 DEF Answered
  <2>6. r <= e
    <3>1. ~(e < r) 
      <4> SUFFICES ASSUME e < r PROVE FALSE
        OBVIOUS
      <4>1. e + 1 \in 1..r /\ e # n BY <2>4, <2>5
      <4> QED BY <2>3, <2>5, <4>1
    <3> QED BY <2>4, <3>1
  <2>7. Expected(c) \in Seq({"ok", "err"}) /\ Len(Expected(c)) = e
    <3>1. \A i \in 1..e : ReplyTo(lines[c][i]) \in {"ok", "err"} BY DEF ReplyTo
    <3> QED BY <2>3, <3>1
  <2>8. \A i \in 1..r : replies[c][i] = Expected(c)[i]
    <3>1. \A i \in 1..r : i \in 1..e BY <2>4, <2>6
    <3> QED BY <2>3, <2>5, <3>1
  <2>9. IsPrefix(replies[c], Expected(c))
    BY <2>4, <2>6, <2>7, <2>8, Beginning
  <2>10. ASSUME NEW p \in Pids, conn[p] = c, inq[c] = <<>>
         PROVE  replies[c] = Expected(c)
    <3>1. Pipelined(c) BY <2>1, <2>10 DEF StreamOf, Held
    <3>2. PICK at \in [(r + 1)..(n + 1) -> 1..(Len(inq[c]) + 1)] : Unread(c, at)
      BY <3>1 DEF Pipelined
    <3>3. at[r + 1] = 1 /\ at[n + 1] = 0 + 1 /\ (r + 1 < n + 1 => at[r + 1] < at[n + 1])
      BY <2>4, <2>10, <3>2 DEF Unread
    <3>4. r = n BY <2>4, <2>5, <3>3
    <3>5. r = e BY <2>4, <2>6, <3>4
    <3> QED BY <2>4, <2>7, <2>8, <3>5
  <2> QED BY <2>9, <2>10
<1> QED BY <1>1, Invariance, PTL

-----------------------------------------------------------------------------
(* Who may end a child. *)

\* The step of PoolShrinks: which child can end, and over which connection.
LEMMA ShrinksOnlySo ==
  ASSUME Inv, Next, NEW p \in Pids, main' \in {"forking", "pausing"}, Alive(p),
         child'[p] = "zombie"
  PROVE  /\ Busy(p) /\ PeerGone(net[conn[p]])
         /\ program = "timeout" => Signals(net[conn[p]]) \/ child[p] = "receive"
<1> USE DEF Alive
<1>1. child \in [Pids -> {"none", "accept", "receive", "send", "zombie", "gone"}]
  BY DEF Inv, TypeOK
<1>2. ~(Father \/ Interrupt(Pids) \/ Interrupt({}))
  <2>1. main \in {"forking", "pausing"} => ~(Interrupt(Pids) \/ Interrupt({}))
    BY DEF Interrupt
  <2>2. ~(Interrupt(Pids) \/ Interrupt({})) BY <2>1 DEF Interrupt
  <2>3. ~(ForkFails \/ HandleSigint \/ Exit)
    BY DEF ForkFails, HandleSigint, Exit, childVars
  <2>4. ASSUME NEW q \in Pids, ForkChild(q) \/ Kill(q) \/ Reap(q) PROVE FALSE
    BY <1>1, <2>4 DEF ForkChild, Kill, Reap, mainVars
  <2> QED BY <2>2, <2>3, <2>4 DEF Father
<1>3. ASSUME NEW c \in Clients, Client(c) PROVE FALSE
  <2>1. UNCHANGED child
    BY <1>3 DEF Client, Connect, ClientCloses, ResetArrives, ClientLeaves, SendLine, SendFirst,
                SendRest, childVars
  <2> QED BY <2>1
<1>4. ASSUME NEW q \in Pids, Child(q) PROVE q = p /\ ~Accept(q) /\ ~Timeout(q)
  <2>1. CASE Accept(q) BY <1>1, <2>1 DEF Accept
  <2>2. CASE ReadLine(q) \/ ReadPart(q) \/ ReadEnd(q) \/ Timeout(q) \/ Send(q)
    <3>1. Serves(q) BY <2>2, ChildServes DEF Inv
    <3>2. q = p BY <1>1, <3>1 DEF Serves, Continues
    <3>3. ~Timeout(q) BY <1>1, <3>2 DEF Timeout, Release
    <3>4. ~Accept(q) BY <3>1 DEF Serves, Busy, Accept
    <3> QED BY <3>2, <3>3, <3>4
  <2> QED BY <1>4, <2>1, <2>2 DEF Child
<1>5. ReadLine(p) \/ ReadPart(p) \/ ReadEnd(p) \/ Send(p)
  BY <1>2, <1>3, <1>4 DEF Next, Child
<1>6. Busy(p) BY <1>5 DEF ReadLine, ReadPart, ReadEnd, Send, Busy
<1>7. conn[p] \in Clients /\ net[conn[p]] \in NetStates
  BY <1>6 DEF Inv, TypeOK, Places, BusyHolds
<1>8. ASSUME NEW m, NEW s, Reply(p, m, s) PROVE WriteFails(s)
  <2>1. CASE child' = [child EXCEPT ![p] = "send"] BY <1>1, <2>1
  <2>2. CASE UNCHANGED childVars BY <2>2 DEF childVars
  <2>3. CASE Release(p) BY <1>1, <2>3 DEF Release
  <2> QED BY <1>8, <2>1, <2>2, <2>3 DEF Reply
<1>9. CASE ReadLine(p)
  BY <1>8, <1>9, <1>6 DEF ReadLine, WriteFails, PeerGone
<1>10. CASE ReadPart(p)
  <2>1. ReadFails(net[conn[p]]) \/ WriteFails(AfterRead(net[conn[p]]))
    BY <1>8, <1>10 DEF ReadPart
  <2> QED BY <1>6, <1>10, <2>1 DEF ReadPart, ReadFails, WriteFails, AfterRead, PeerGone
<1>11. CASE ReadEnd(p)
  BY <1>6, <1>11 DEF ReadEnd, AtEOF
<1>12. CASE Send(p)
  <2>1. WriteFails(net[conn[p]]) /\ WriteFailed(p, net[conn[p]])
    BY <1>1, <1>12 DEF Send
  <2>2. program = "timeout" => Signals(net[conn[p]])
    BY <1>1, <2>1 DEF WriteFailed, Release, Inv, TypeOK
  <2> QED BY <1>6, <2>1, <2>2 DEF WriteFails, PeerGone
<1> QED BY <1>5, <1>9, <1>10, <1>11, <1>12

\* Without SIGINT, a child is lost only to a client that went away, and in the
\* timeout server that is sending a file only to SIGPIPE.
THEOREM LostToClients == Spec => PoolShrinks
<1>1. Inv /\ [Next]_vars =>
        [\A p \in Pids :
           main' \in {"forking", "pausing"} /\ Alive(p) /\ child'[p] = "zombie" =>
             /\ Busy(p) /\ PeerGone(net[conn[p]])
             /\ program = "timeout" => Signals(net[conn[p]]) \/ child[p] = "receive"]_vars
  BY ShrinksOnlySo
<1> QED BY <1>1, Invariance, PTL DEF Spec, PoolShrinks
=============================================================================
