------------------------------ MODULE SumServer ------------------------------
(***************************************************************************)
(* The servers that add two numbers and their clients: Lab1/1.1, Lab1/1.3  *)
(* and Lab2/2.4 (server_test.c, one program in three states), with the     *)
(* text protocol (-a, prot_a) or XDR (-x, prot_x).  One process serves one *)
(* connection after the other.                                             *)
(*                                                                         *)
(* The stream is a sequence of symbols: an operand, something that is no   *)
(* number (Junk), the end of a line (NL).  read() returns any non-empty    *)
(* beginning of what has arrived, which stands for every segmentation.     *)
(***************************************************************************)
EXTENDS Tcp, Integers, Sequences, FiniteSets

CONSTANTS Typed,    \* the numbers a user types or a peer sends
          NL, Junk, \* the other symbols
          HalfBits, \* bits of an unsigned short
          IntBits,  \* bits of an int
          MaxLine,  \* MAXLINE, the buffer of my_read
          MaxBuf,   \* MAXBUFL, the buffer of prot_a
          MaxSent   \* symbols sent on a connection, a bound of the model

ASSUME SumAssumption ==
  /\ Typed \subseteq Nat /\ NL \notin Nat /\ Junk \notin Nat /\ NL # Junk
  /\ HalfBits \in Nat \ {0} /\ IntBits \in Nat \ {0}
  /\ 2^HalfBits \in Nat \ {0}  \* the provers know nothing of ^
  /\ MaxLine \in Nat \ {0} /\ MaxSent \in Nat
  /\ MaxBuf \in Nat /\ MaxBuf > 3  \* the client's request fits

Symbols == Nat \cup {NL, Junk}

VARIABLES
  lab, proto, \* which server, and its protocol; they never change
  peer,       \* "any" sender of symbols, or the "client" of the lab
  pc,         \* where the server is
  readbuf,    \* read ahead: my_read's static buffer, or the stdio stream's
  line,       \* what readline has stored, or the operands XDR has decoded
  nread,      \* what readline returned last
  net,        \* the server's socket (Tcp)
  wire,       \* symbols sent and not read by the server
  sent,       \* every symbol sent on this connection
  replies,    \* answers written while the client is there to get them
  asked,      \* the two numbers of the client's request, while it waits
  printed,    \* what the client has printed of it, while it did not ask again
  got         \* answers the client has received on this connection

whoVars == <<lab, proto, peer>>
serverVars == <<pc, readbuf, line, nread>>
clientVars == <<asked, printed, got>>
netVars == <<net, wire, sent, replies>>
vars == <<whoVars, serverVars, clientVars, netVars>>

Init ==
  /\ lab \in {"1.1", "1.3", "2.4"} /\ proto \in {"a", "x"}
  /\ peer \in {"any", "client"}
  /\ pc = "accept"
  /\ readbuf = <<>> /\ line = <<>> /\ nread = 0
  /\ net = "idle" /\ wire = <<>> /\ sent = <<>> /\ replies = <<>>
  /\ asked = <<>> /\ printed = <<>> /\ got = 0

Lined == proto = "a" /\ lab # "2.4"    \* Readline() delimits the requests
-----------------------------------------------------------------------------
(* The answer to a request. *)

Sum(n) == [kind |-> "sum", value |-> n]
Error == [kind |-> "wrong operands", value |-> 0]
Overflow == [kind |-> "overflow", value |-> 0]

\* sscanf: %hu skips blanks and line ends, and keeps the low bits.  The
\* operands are at the places of the first two other symbols.
Operands(buf) ==
  {o \in (DOMAIN buf) \X (DOMAIN buf) :
     /\ o[1] < o[2]
     /\ \A k \in 1..o[2] : buf[k] # NL <=> k \in {o[1], o[2]}}
Parses(buf) == \E o \in Operands(buf) : Junk \notin {buf[o[1]], buf[o[2]]}
Unsigned(n) == n % 2^HalfBits
Total(buf) ==
  LET o == CHOOSE o \in Operands(buf) : TRUE
  IN  Unsigned(buf[o[1]]) + Unsigned(buf[o[2]])

\* Mutant: no test for an overflow.
Wide_NoTest(buf) == Sum(Total(buf))

\* Labs 1.1 and 2.4 keep the sum in 32 bits.
Wide(buf) == IF Total(buf) >= 2^HalfBits THEN Overflow ELSE Sum(Total(buf))

\* Lab 1.3 keeps it in 16: the test for an overflow never holds.
Narrow(buf) == Sum(Unsigned(Total(buf)))

Answer(buf) == IF ~Parses(buf) THEN Error
               ELSE IF lab = "1.3" THEN Narrow(buf) ELSE Wide(buf)

\* prot_x: an operand that cannot be decoded is 0.
Decoded(ops, i) == IF i \in DOMAIN ops THEN ops[i] ELSE 0
AnswerX(ops) == Sum((Decoded(ops, 1) + Decoded(ops, 2)) % 2^IntBits)

-----------------------------------------------------------------------------
(* What becomes of the server. *)

\* SIGPIPE, or the exit(1) of err_sys().
Exits == pc' = "exited" /\ readbuf' = <<>> /\ line' = <<>>

\* Write() exits on an error; the write() of Lab 2.4 and fflush() do not.
Fatal == Signals(net) \/ (Lined /\ WriteFails(net))

\* Mutant: prot_a gives up after a wrong request.
Write_ReturnOnError(r, rest) ==
  /\ net' = AfterWrite(net)
  /\ IF Fatal THEN Exits /\ UNCHANGED replies
     ELSE /\ replies' = IF net = "open" THEN Append(replies, r) ELSE replies
          /\ line' = <<>> /\ readbuf' = rest
          /\ pc' = IF (proto = "x" /\ lab # "2.4") \/ r = Error THEN "close" ELSE "read"

\* The answer r is written; rest stays read ahead.  prot_x returns, prot_a
\* goes on.
Write(r, rest) ==
  /\ net' = AfterWrite(net)
  /\ IF Fatal THEN Exits /\ UNCHANGED replies
     ELSE /\ replies' = IF net = "open" THEN Append(replies, r) ELSE replies
          /\ line' = <<>> /\ readbuf' = rest
          /\ pc' = IF proto = "x" /\ lab # "2.4" THEN "close" ELSE "read"

Accepts ==
  /\ pc = "accept" /\ net # "idle"
  /\ pc' = "read"
  /\ UNCHANGED <<whoVars, readbuf, line, nread, clientVars, netVars>>

Accept == lab # "2.4" /\ Accepts

\* Lab 2.4 accepts before its loop, which never gets there again.
AcceptOnce == lab = "2.4" /\ Accepts

\* my_read: the buffer is empty and filled by one read().
Fill ==
  /\ Lined \/ proto = "x"
  /\ pc = "read" /\ readbuf = <<>> /\ wire # <<>>
  /\ \E k \in 1..Len(wire) :
       /\ k <= MaxLine
       /\ readbuf' = SubSeq(wire, 1, k)
       /\ wire' = SubSeq(wire, k + 1, Len(wire))
  /\ UNCHANGED <<whoVars, pc, line, nread, clientVars, net, sent, replies>>

\* Mutant: the loop of readline goes to n <= maxlen.
Full_OneMore(l) == Len(l) = MaxBuf

\* readline stores at most maxlen - 1 bytes.
Full(l) == Len(l) = MaxBuf - 1

\* readline: my_read returns the next symbol, and the line may be complete.
\* It counts one more than it stored unless it stopped at a newline.
Readline ==
  LET l == Append(line, Head(readbuf)) IN
  /\ pc = "read" /\ Lined /\ readbuf # <<>>
  /\ IF Head(readbuf) = NL \/ Full(l)
       THEN /\ nread' = IF Head(readbuf) = NL THEN Len(l) ELSE Len(l) + 1
            /\ Write(Answer(l), Tail(readbuf))
       ELSE /\ line' = l /\ readbuf' = Tail(readbuf)
            /\ UNCHANGED <<pc, nread, net, replies>>
  /\ UNCHANGED <<whoVars, clientVars, wire, sent>>

\* Mutant: nothing stored at the end of file is an empty request.
ReadlineEnd_Empty ==
  /\ pc = "read" /\ Lined /\ readbuf = <<>> /\ wire = <<>> /\ AtEOF(net)
  /\ IF ReadFails(net)
       THEN Exits /\ net' = AfterRead(net) /\ UNCHANGED <<nread, replies>>
     ELSE nread' = Len(line) + 1 /\ Write(Answer(line), <<>>)
  /\ UNCHANGED <<whoVars, clientVars, wire, sent>>

\* my_read returns 0 or -1: what is stored is the last line, nothing stored
\* is the end of prot_a, an error the end of the program.
ReadlineEnd ==
  /\ pc = "read" /\ Lined /\ readbuf = <<>> /\ wire = <<>> /\ AtEOF(net)
  /\ IF ReadFails(net)
       THEN Exits /\ net' = AfterRead(net) /\ UNCHANGED <<nread, replies>>
     ELSE IF line # <<>>
       THEN nread' = Len(line) + 1 /\ Write(Answer(line), <<>>)
       ELSE pc' = "close" /\ nread' = 0 /\ UNCHANGED <<readbuf, line, net, replies>>
  /\ UNCHANGED <<whoVars, clientVars, wire, sent>>

\* Lab 2.4: whatever one read() returns is a request.
ReadRaw ==
  /\ pc = "read" /\ proto = "a" /\ lab = "2.4" /\ wire # <<>>
  /\ \E k \in 1..Len(wire) :
       /\ k <= MaxBuf
       /\ nread' = k
       /\ Write(Answer(SubSeq(wire, 1, k)), <<>>)
       /\ wire' = SubSeq(wire, k + 1, Len(wire))
  /\ UNCHANGED <<whoVars, clientVars, sent>>

\* ... even -1: the old buffer is parsed again, buf[-1] overwritten, and the
\* answer raises SIGPIPE.  (At the end of file prot_a returns and is called
\* again for the same descriptor, for ever: nothing changes any more.)
ReadRawFails ==
  /\ pc = "read" /\ proto = "a" /\ lab = "2.4" /\ wire = <<>> /\ ReadFails(net)
  /\ Exits /\ net' = AfterWrite(AfterRead(net))
  /\ UNCHANGED <<whoVars, nread, clientVars, wire, sent, replies>>

\* prot_x: the stream has the first operand, ...
DecodeFirst ==
  /\ pc = "read" /\ proto = "x" /\ readbuf # <<>> /\ line = <<>>
  /\ line' = Append(line, Head(readbuf)) /\ readbuf' = Tail(readbuf)
  /\ UNCHANGED <<whoVars, pc, nread, clientVars, netVars>>

\* ... and the second.  What it has read ahead is lost with the stream.
DecodeSecond ==
  /\ pc = "read" /\ proto = "x" /\ readbuf # <<>> /\ Len(line) = 1
  /\ Write(AnswerX(Append(line, Head(readbuf))), <<>>)
  /\ UNCHANGED <<whoVars, nread, clientVars, wire, sent>>

\* The end of file stands for what is missing.
DecodeEnd ==
  /\ pc = "read" /\ proto = "x" /\ readbuf = <<>> /\ wire = <<>> /\ AtEOF(net)
  /\ IF ReadFails(net)
       THEN Exits /\ net' = "broken" /\ UNCHANGED replies
       ELSE Write(AnswerX(line), <<>>)
  /\ UNCHANGED <<whoVars, nread, clientVars, wire, sent>>

\* Labs 1.1 and 1.3 close the connection and accept again.
CloseConn ==
  /\ pc = "close"
  /\ pc' = "accept"
  /\ net' = "idle" /\ wire' = <<>>
  /\ UNCHANGED <<whoVars, readbuf, line, nread, clientVars, sent, replies>>

\* The operator stops the server.
Killed ==
  /\ pc # "exited"
  /\ Exits
  /\ UNCHANGED <<whoVars, nread, clientVars, netVars>>

-----------------------------------------------------------------------------
(* The clients. *)

Waiting == asked # <<>> /\ printed = <<>>

Connect ==
  /\ net = "idle" /\ pc = "accept" /\ ~Waiting
  /\ net' = "open" /\ wire' = <<>> /\ sent' = <<>> /\ replies' = <<>>
  /\ asked' = <<>> /\ printed' = <<>> /\ got' = 0
  /\ UNCHANGED <<whoVars, serverVars>>

SendAll(symbols) ==
  /\ net = "open" /\ Len(sent) + Len(symbols) <= MaxSent
  /\ wire' = wire \o symbols /\ sent' = sent \o symbols
  /\ UNCHANGED <<whoVars, serverVars, net, replies>>

SendSymbol(s) ==
  /\ peer = "any" /\ (proto = "x" => s \in Typed)
  /\ SendAll(<<s>>)
  /\ UNCHANGED clientVars

\* Lab 1.3: one request, its numbers read with %hu.
AskText(a, b) ==
  /\ peer = "client" /\ proto = "a" /\ asked = <<>>
  /\ SendAll(<<Unsigned(a), Unsigned(b), NL>>)
  /\ asked' = <<Unsigned(a), Unsigned(b)>>
  /\ UNCHANGED <<printed, got>>

\* Lab 2.4: one request after the other.
AskXdr(a, b) ==
  /\ peer = "client" /\ proto = "x" /\ ~Waiting
  /\ SendAll(<<a, b>>)
  /\ asked' = <<a, b>> /\ printed' = <<>>
  /\ UNCHANGED got

\* Lab 1.3: the answer is printed and the connection closed.
ReceiveText ==
  /\ peer = "client" /\ proto = "a" /\ Waiting /\ replies # <<>>
  /\ printed' = <<Head(replies)>> /\ got' = 1
  /\ net' = IF net = "open" THEN "fin" ELSE net
  /\ UNCHANGED <<whoVars, serverVars, asked, wire, sent, replies>>

\* Lab 2.4: recv() takes all the answers there are, and prints the first.
ReceiveXdr ==
  /\ peer = "client" /\ proto = "x" /\ Waiting /\ Len(replies) > got
  /\ printed' = <<replies[got + 1]>> /\ got' = Len(replies)
  /\ UNCHANGED <<whoVars, serverVars, asked, netVars>>

\* The server is gone and left no answer: Readline() leaves the client's own
\* request in the buffer, recv() zeroes, and both are printed as a sum.
ReceiveEnd ==
  /\ peer = "client" /\ Waiting /\ Len(replies) = got
  /\ pc = "exited" \/ net = "idle"
  /\ printed' = <<Sum(IF proto = "a" THEN asked[1] ELSE 0)>>
  /\ UNCHANGED <<whoVars, serverVars, asked, got, netVars>>

\* close() or the death of the client.
ClientCloses ==
  /\ net = "open"
  /\ net' \in {"fin", "reset"}
  /\ asked' = <<>> /\ printed' = <<>>
  /\ UNCHANGED <<whoVars, serverVars, got, wire, sent, replies>>

\* The RST that answers a write() to a closed socket arrives.
ResetArrives ==
  /\ net = "finw"
  /\ net' = "broken"
  /\ UNCHANGED <<whoVars, serverVars, clientVars, wire, sent, replies>>

-----------------------------------------------------------------------------
Server == \/ Accept \/ AcceptOnce \/ Fill \/ Readline \/ ReadlineEnd
          \/ ReadRaw \/ ReadRawFails
          \/ DecodeFirst \/ DecodeSecond \/ DecodeEnd \/ CloseConn

Client == \/ Connect \/ ReceiveText \/ ReceiveXdr \/ ReceiveEnd
          \/ ClientCloses \/ ResetArrives
          \/ \E a, b \in Typed : AskText(a, b) \/ AskXdr(a, b)
          \/ \E s \in Typed \cup {NL, Junk} : SendSymbol(s)

Next == Server \/ Killed \/ Client

(* The server runs when it can.  Nothing is assumed of the clients. *)
Spec == Init /\ [][Next]_vars /\ WF_vars(Server)
-----------------------------------------------------------------------------
(* Properties. *)

\* buf[nread] is inside prot_a's buffer of MAXBUFL + 1 bytes (server_test.c
\* line 57), whether readline stopped at a newline, the limit, or the end.
TypeOK ==
  /\ lab \in {"1.1", "1.3", "2.4"} /\ proto \in {"a", "x"}
  /\ peer \in {"any", "client"}
  /\ pc \in {"accept", "read", "close", "exited"}
  /\ readbuf \in Seq(Symbols) /\ Len(readbuf) <= MaxLine
  /\ line \in Seq(Symbols) /\ Len(line) < MaxBuf
  /\ nread \in 0..MaxBuf
  /\ net \in NetStates
  /\ wire \in Seq(Symbols) /\ sent \in Seq(Symbols)
  /\ \A i \in DOMAIN replies :
       replies[i] \in {Error, Overflow} \/ replies[i] = Sum(replies[i].value)
  /\ got \in 0..Len(replies)

\* A complete line of what was sent, from place a to place b, ...
IsLine(a, b) ==
  /\ a \in 1..b /\ b \in DOMAIN sent
  /\ sent[b] = NL /\ \A k \in a..(b - 1) : sent[k] # NL
  /\ a = 1 \/ sent[a - 1] = NL

\* ... its number, ...
Index(b) == Cardinality({k \in 1..b : sent[k] = NL})

\* ... and that it and the lines before it fit the buffer: MaxBuf - 1 symbols
\* in a row have an end of line among them.
Fit(b) == \A i \in 0..(b - (MaxBuf - 1)) :
            \E k \in (i + 1)..(i + MaxBuf - 1) : sent[k] = NL

\* However the stream is cut into segments and the lines are pipelined, each
\* line that fits the buffer is answered once, in order, and with the numbers
\* of that line: no symbol is lost or kept by my_read's static buffer, from
\* one line to the next or from one connection to the next.  When the server
\* has nothing left to read it owes no answer (readline, prot_a 51-86).
RepliesInOrder ==
  Lined => \A b \in DOMAIN sent : \A a \in 1..b :
    IsLine(a, b) /\ Fit(b) =>
      /\ Index(b) \in DOMAIN replies => replies[Index(b)] = Answer(SubSeq(sent, a, b))
      /\ net = "open" /\ pc = "read" /\ readbuf = <<>> /\ wire = <<>> =>
           Index(b) \in DOMAIN replies

\* A client that got an answer prints the sum of the two numbers it sent, or
\* the overflow: over the integers for Lab 1.1, in 16 bits for Lab 1.3 and in
\* 32 with XDR, where answers never get out of step (1.3/client.c 79-92,
\* 2.4/client.c 68-105).  Lab 2.4 does not promise it for text: a request
\* that arrives in two segments is two wrong requests.
ClientPrints ==
  LET a == asked[1]
      b == asked[2]
      requests == IF proto = "a" THEN 1 ELSE Len(sent) \div 2 IN
  /\ peer = "client" /\ asked # <<>> /\ printed # <<>> /\ got = requests
  /\ Lined \/ proto = "x"
  =>
    printed[1] = IF proto = "x" THEN Sum((a + b) % 2^IntBits)
                 ELSE IF a + b < 2^HalfBits THEN Sum(a + b)
                 ELSE IF lab = "1.3" THEN Sum(a + b - 2^HalfBits) ELSE Overflow

\* In Labs 1.1 and 1.3 a client that is gone does not keep the only process:
\* it accepts the next one, or is dead (main 172-192).
ServerResumes ==
  lab # "2.4" /\ pc = "read" /\ PeerGone(net) ~> pc \in {"accept", "exited"}
=============================================================================
