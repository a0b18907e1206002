----------------------------- MODULE FileExchange -----------------------------
(***************************************************************************)
(* One session of a file client with its server.                           *)
(*   "2.3"   Lab2/2.3: a sequential server, one command per connection;    *)
(*   "3.1"   Lab3/3.1: client.c with a child of server.c (SemServer)       *)
(*   "old"   or of server_tcp_concorrente_OLD.c (OldForkServer);           *)
(*   "3.3"   Lab3/3.3: client.c with a child of server_tcp_preforking.c    *)
(*   "3.3t"  or of server_tcp_timeout_oob.c (PreforkServer);               *)
(*   "3.4"   Lab3/3.4: a sequential server, messages in XDR.               *)
(* Nothing in a request or an answer says which request it is about; the   *)
(* model knows (req), the programs do not.  The connection is seen from    *)
(* the client's end.  Lines arrive whole at the server here (PreforkServer *)
(* cuts them), and answers may be cut in every place where a client reads  *)
(* part of one.  The local names of the files are left out: see Stored.    *)
(***************************************************************************)
EXTENDS Tcp, Naturals, Sequences

CONSTANTS Names,     \* what the user types for a file
          MaxReq     \* requests of a session, a bound of the model

(***************************************************************************)
(* A name, with and without a blank before it: of these two each server    *)
(* finds only one (FileName); a file that only stat() finds, one that      *)
(* fopen() opens and fread() does not read, and an empty one.              *)
(***************************************************************************)
Kinds == {"plain", "spaced", "unreadable", "directory", "empty"}

ASSUME FileAssumption == Names \subseteq Kinds /\ MaxReq \in Nat

VARIABLES
  lab,     \* which client and server; never changes
  client,  \* "typing"; "waiting" in select(), or for a message; "sizing" once
           \* +OK is read; "reading" a content; "guessing" when it does not
           \* know how much it reads, or of what; or "ended"
  names,   \* the names typed so far
  taking,  \* the request whose content the client reads
  stored,  \* the files it has written, until torn
  late,    \* the client has gone on without an answer
  torn,    \* it has left a content, or a part of a size, in the stream
  server,  \* "backlog"; "reading"; "sizing" once +OK is sent; "sending";
           \* "done" with the client, which stays connected; or Gone
  job,     \* the request whose file is being sent
  failed,  \* the server closed, or was killed, without an answer
  net,     \* the client's socket (Tcp)
  inq,     \* lines on their way to the server
  out      \* parts of answers on their way to the client

clientVars == <<client, names, taking, stored, late, torn>>
serverVars == <<server, job, failed>>
netVars == <<net, inq, out>>
vars == <<lab, clientVars, serverVars, netVars>>

TextLabs == {"2.3", "3.1", "old", "3.3", "3.3t"}
PairLabs == TextLabs \ {"2.3"}         \* two lines for each request

\* The connection is closed; the process may be dead, or loop for ever.
Gone == {"closed", "dead", "spinning"}

\* connect() has returned; the server may still be busy with others.
Init ==
  /\ lab \in TextLabs \cup {"3.4"}
  /\ client = "typing" /\ names = <<>> /\ taking = 0 /\ stored = <<>>
  /\ late = FALSE /\ torn = FALSE
  /\ server = "backlog" /\ job = 0 /\ failed = FALSE
  /\ net = "open" /\ inq = <<>> /\ out = <<>>

-----------------------------------------------------------------------------
(* The server. *)

\* Some take buf + 4 for the name, and their clients send no blank after GET:
\* the first character typed is dropped.
FileName == IF lab \in {"old", "3.3", "3.3t"} THEN "spaced" ELSE "plain"

Opens(n) == n \in {FileName, "directory", "empty"}

\* Nothing is sent of an empty file, nor of a directory where fread() counts
\* (in Lab 3.4 the content is a part of the message).
NoBytes(n) == (lab # "3.4" /\ n = "empty") \/ (lab = "3.1" /\ n = "directory")

Says(r, part) == Append(out, [req |-> r, part |-> part])

\* The father of "old" closes no connection: the end of a child is not seen.
FatherKeeps == lab = "old" /\ server # "backlog"

\* The connection is closed, with FIN or, if it has unread lines or was never
\* accepted, with RST, which may overtake what was sent before.
Closes(sent, next) ==
  /\ server' = next /\ job' = 0
  /\ IF FatherKeeps THEN net' = net /\ out' = sent
     ELSE IF inq' = <<>> /\ server # "backlog" THEN net' = "fin" /\ out' = sent
     ELSE /\ net' = "reset"
          /\ out' \in {SubSeq(sent, 1, n) : n \in 0..Len(sent)}

Accepts ==
  /\ server = "backlog"
  /\ server' = "reading"
  /\ UNCHANGED <<lab, clientVars, job, failed, netVars>>

Accept == lab # "3.4" /\ Accepts

\* The sequential server of Lab 3.4 has closed the connection before this one.
Accept34 == lab = "3.4" /\ Accepts

\* +OK, or the message's head.
Begin(r) == /\ server' = (IF lab = "3.4" THEN "sending" ELSE "sizing")
            /\ job' = r /\ out' = Says(r, "ok")
            /\ UNCHANGED <<failed, net>>

Refuse(r, next) == /\ server' = next /\ out' = Says(r, "err")
                   /\ UNCHANGED <<job, failed, net>>

GiveUp(next) == failed' = TRUE /\ Closes(out, next)

\* Mutant: the buffer is not emptied, and the old line carried out again.
NextLine_Again(l) == inq # <<>> /\ l = Head(inq) /\ inq' = inq

NextLine(l) == inq # <<>> /\ l = Head(inq) /\ inq' = Tail(inq)

\* receiver returns after one command, and main leaves the connection open.
Command23(l) ==
  /\ lab = "2.3" /\ server = "reading" /\ NextLine(l)
  /\ \/ l.line = "get" /\ Opens(names[l.req]) /\ Begin(l.req)
     \/ l.line = "get" /\ ~Opens(names[l.req]) /\ Refuse(l.req, "done")
     \/ l.line = "quit" /\ server' = "done" /\ UNCHANGED <<job, failed, net, out>>
  /\ UNCHANGED <<lab, clientVars>>

\* fopen() fails: exit(1).  An empty line: -ERR and close(), after which read()
\* fails and c keeps the newline, for ever (SemServer).
Command31(l) ==
  /\ lab = "3.1" /\ server = "reading" /\ NextLine(l)
  /\ \/ l.line = "get" /\ Opens(names[l.req]) /\ Begin(l.req)
     \/ l.line = "get" /\ ~Opens(names[l.req]) /\ GiveUp("dead")
     \/ /\ l.line = "blank" /\ Closes(Says(l.req, "err"), "spinning")
        /\ UNCHANGED failed
  /\ UNCHANGED <<lab, clientVars>>

\* Every line that Readline returns is answered.
CommandOld(l) ==
  /\ lab = "old" /\ server = "reading" /\ NextLine(l)
  /\ IF l.line = "get" /\ Opens(names[l.req]) THEN Begin(l.req)
     ELSE Refuse(l.req, "reading")
  /\ UNCHANGED <<lab, clientVars>>

\* Mutant: an empty line is ignored.
Command33_NoBlank(l) ==
  /\ lab = "3.3" /\ server = "reading" /\ NextLine(l)
  /\ \/ l.line = "get" /\ Opens(names[l.req]) /\ Begin(l.req)
     \/ l.line = "get" /\ ~Opens(names[l.req]) /\ Refuse(l.req, "reading")
     \/ l.line = "blank" /\ UNCHANGED <<serverVars, net, out>>
  /\ UNCHANGED <<lab, clientVars>>

Command33(l) ==
  /\ lab = "3.3" /\ server = "reading" /\ NextLine(l)
  /\ \/ l.line = "get" /\ Opens(names[l.req]) /\ Begin(l.req)
     \/ l.line = "get" /\ ~Opens(names[l.req]) /\ Refuse(l.req, "reading")
     \/ l.line = "blank" /\ Refuse(l.req, "reading")
  /\ UNCHANGED <<lab, clientVars>>

\* Nothing is answered when only fopen() fails.
Command33t(l) ==
  /\ lab = "3.3t" /\ server = "reading" /\ NextLine(l)
  /\ \/ l.line = "get" /\ Opens(names[l.req]) /\ Begin(l.req)
     \/ /\ l.line = "get" /\ ~Opens(names[l.req]) /\ names[l.req] # "unreadable"
        /\ Refuse(l.req, "reading")
     \/ l.line = "blank" /\ Refuse(l.req, "reading")
     \/ /\ l.line = "get" /\ names[l.req] = "unreadable"
        /\ UNCHANGED <<serverVars, net, out>>
  /\ UNCHANGED <<lab, clientVars>>

\* Eight seconds without a line.
Idle33t ==
  /\ lab = "3.3t" /\ server = "reading"
  /\ UNCHANGED <<lab, clientVars, inq>>
  /\ GiveUp("closed")

\* What is left of a stream when its reader needs the first k elements and a
\* stdio buffer, thrown away afterwards, has taken some more.
Rests(q, k) == {SubSeq(q, n + 1, Len(q)) : n \in k..Len(q)}

\* Mutant: it exits after an error.
Command34_OneError ==
  /\ lab = "3.4" /\ server = "reading" /\ inq # <<>>
  /\ inq' \in Rests(inq, 1)
  /\ LET l == Head(inq) IN
     \/ /\ l.line = "get" /\ Opens(names[l.req]) /\ names[l.req] # "directory"
        /\ Begin(l.req)
     \/ l.line = "get" /\ ~Opens(names[l.req]) /\ Refuse(l.req, "done")
     \/ l.line = "get" /\ names[l.req] = "directory" /\ GiveUp("closed")
     \/ l.line = "quit" /\ Closes(out, "closed") /\ UNCHANGED failed
  /\ UNCHANGED <<lab, clientVars>>

\* The stream is opened anew for every message.  receiver returns -1 when
\* the file cannot be read.
Command34 ==
  /\ lab = "3.4" /\ server = "reading" /\ inq # <<>>
  /\ inq' \in Rests(inq, 1)
  /\ LET l == Head(inq) IN
     \/ /\ l.line = "get" /\ Opens(names[l.req]) /\ names[l.req] # "directory"
        /\ Begin(l.req)
     \/ l.line = "get" /\ ~Opens(names[l.req]) /\ Refuse(l.req, "reading")
     \/ l.line = "get" /\ names[l.req] = "directory" /\ GiveUp("closed")
     \/ l.line = "quit" /\ Closes(out, "closed") /\ UNCHANGED failed
  /\ UNCHANGED <<lab, clientVars>>

\* The size, and in Lab 2.3 the time of the last change: writes of their own.
SendSize ==
  /\ server = "sizing" /\ server' = "sending" /\ out' = Says(job, "size")
  /\ UNCHANGED <<lab, clientVars, job, failed, net, inq>>

\* Mutant: the loop goes on with the same file.
Send_Again ==
  /\ server = "sending"
  /\ server' = (IF lab = "2.3" THEN "done" ELSE "reading") /\ UNCHANGED job
  /\ out' = IF NoBytes(names[job]) THEN out ELSE Says(job, "content")
  /\ UNCHANGED <<lab, clientVars, failed, net, inq>>

\* The content: as many bytes as stat() said, whatever fread() returned; in
\* Lab 3.1 as many as fread() returned.
Send ==
  /\ server = "sending"
  /\ server' = (IF lab = "2.3" THEN "done" ELSE "reading") /\ job' = 0
  /\ out' = IF NoBytes(names[job]) THEN out ELSE Says(job, "content")
  /\ UNCHANGED <<lab, clientVars, failed, net, inq>>

\* Mutant: the end of file is not noticed.
ServerEnd_Ignored ==
  /\ server = "reading" /\ inq = <<>> /\ client = "ended" /\ lab = "2.3"
  /\ server' = "done"
  /\ UNCHANGED <<lab, clientVars, job, failed, netVars>>

\* The client is gone and nothing is left to read: read() returns 0, which the
\* child of Lab 3.1 takes for the newline it read last; or -1 if the client
\* left answers unread, which ends the process in Read() and in Readline(),
\* and the child of Lab 3.1 by SIGPIPE when it answers.
ServerEnd ==
  /\ server = "reading" /\ inq = <<>> /\ client = "ended"
  /\ \/ server' = CASE lab = "2.3" -> "done" [] lab = "3.1" -> "spinning"
                     [] OTHER -> "closed"
     \/ lab \notin {"3.3t", "3.4"} /\ out # <<>> /\ server' = "dead"
  /\ UNCHANGED <<lab, clientVars, job, failed, netVars>>

\* The server is killed, or SIGPIPE ends it when the client is gone.
ServerDies ==
  /\ server \notin Gone
  /\ UNCHANGED <<lab, clientVars, inq>>
  /\ GiveUp("dead")

-----------------------------------------------------------------------------
(* The client. *)

\* A request is written; Write() ends the client where write() fails.
Request(n, lines, fatal) ==
  /\ client = "typing" /\ Len(names) < MaxReq
  /\ net' = AfterWrite(net)
  /\ IF Signals(net) \/ (fatal /\ WriteFails(net))
       THEN client' = "ended" /\ UNCHANGED <<names, inq>>
       ELSE /\ client' = "waiting" /\ names' = Append(names, n)
            /\ inq' = IF net # "open" THEN inq
                      ELSE inq \o [i \in DOMAIN lines |->
                                     [req |-> Len(names) + 1, line |-> lines[i]]]
  /\ UNCHANGED <<lab, taking, stored, late, torn, serverVars, out>>

Request23(n) == lab = "2.3" /\ Request(n, <<"get">>, TRUE)

\* fgets() keeps the newline and the client adds another.
Request31(n) == lab \in {"3.1", "old"} /\ Request(n, <<"get", "blank">>, FALSE)
Request33(n) == lab \in {"3.3", "3.3t"} /\ Request(n, <<"get", "blank">>, FALSE)

Request34(n) == lab = "3.4" /\ Request(n, <<"get">>, FALSE)

\* Where QUIT is recognised the client writes it and ends.
Quit ==
  /\ lab \in {"2.3", "3.4"} /\ client = "typing"
  /\ client' = "ended"
  /\ inq' = IF net = "open" THEN Append(inq, [req |-> 0, line |-> "quit"]) ELSE inq
  /\ UNCHANGED <<lab, names, taking, stored, late, torn, serverVars, net, out>>

\* select() returns 0 after two seconds; the answer may be on its way.
TimeOut ==
  /\ lab \in TextLabs /\ client = "waiting"
  /\ client' = "typing" /\ late' = TRUE
  /\ UNCHANGED <<lab, names, taking, stored, torn, serverVars, netVars>>

\* A file is written, after as many answers as requests or fewer.  Under which
\* name is not modelled: in Lab 2.3 the one typed last, in Lab 3.4 a counter;
\* in Labs 3.1 and 3.3 fname is never assigned, and every file overwrites the
\* last.
Stored(r, whole) ==
  stored' = Append(stored, [asked |-> Len(names), of |-> r, whole |-> whole])

\* The line of an answer: +OK announces a size and a content.
ReadAnswer ==
  /\ lab \in TextLabs /\ ~torn /\ client = "waiting" /\ out # <<>>
  /\ out' = Tail(out)
  /\ IF Head(out).part = "ok"
       THEN client' = "sizing" /\ taking' = Head(out).req
       ELSE client' = "typing" /\ UNCHANGED taking
  /\ UNCHANGED <<lab, names, stored, late, torn, serverVars, net, inq>>

\* The end of the stream ends the line; Read() exits on an error.
ReadNoAnswer ==
  /\ lab \in TextLabs /\ client = "waiting" /\ out = <<>> /\ AtEOF(net)
  /\ client' = IF lab = "2.3" /\ ReadFails(net) THEN "ended" ELSE "typing"
  /\ net' = AfterRead(net)
  /\ UNCHANGED <<lab, names, taking, stored, late, torn, serverVars, inq, out>>

\* The size is what one read() of four bytes returns (two in Lab 2.3).  Then
\* the local file is opened; if it cannot be, the content stays in the stream.
ReadSize ==
  /\ client = "sizing" /\ out # <<>> /\ Head(out).part = "size"
  /\ out' = Tail(out)
  /\ IF names[taking] = "empty"
       THEN /\ client' = "typing" /\ UNCHANGED torn
            /\ Stored(taking, TRUE) \/ UNCHANGED stored
       ELSE /\ UNCHANGED stored
            /\ \/ client' = "reading" /\ UNCHANGED torn
               \/ client' = "typing" /\ torn' = TRUE
  /\ UNCHANGED <<lab, names, taking, late, serverVars, net, inq>>

\* It may return less: the count is what the buffer holds, with "+OK" behind
\* the bytes read, and the others stay in the stream (where it is the time that
\* is cut, before the content).
ReadPartOfSize ==
  /\ client = "sizing" /\ out # <<>> /\ Head(out).part = "size"
  /\ client' \in {"guessing", "typing"} /\ torn' = TRUE
  /\ UNCHANGED <<lab, names, taking, stored, late, serverVars, netVars>>

\* At the end of the stream the count is what "+OK" makes.
ReadNoSize ==
  /\ client = "sizing" /\ out = <<>> /\ AtEOF(net)
  /\ client' \in IF lab = "2.3" /\ ReadFails(net) THEN {"ended"}
                 ELSE {"guessing", "typing"}
  /\ net' = AfterRead(net)
  /\ UNCHANGED <<lab, names, taking, stored, late, torn, serverVars, inq, out>>

\* The content, until as many bytes have been read as were counted.
ReadContent ==
  /\ client = "reading" /\ out # <<>>
  /\ out' = Tail(out)
  /\ IF Head(out).part = "content"
       THEN /\ client' = "typing"
            /\ Stored(taking, Head(out).req = taking /\ names[taking] # "directory")
       ELSE UNCHANGED <<client, stored>>
  /\ UNCHANGED <<lab, names, taking, late, torn, serverVars, net, inq>>

\* What is missing at the end of the stream is made up: the last byte read is
\* written until the count is reached.
ReadNoContent ==
  /\ client \in {"reading", "guessing"} /\ out = <<>> /\ AtEOF(net)
  /\ IF lab = "2.3" /\ ReadFails(net)
       THEN client' = "ended" /\ UNCHANGED stored
       ELSE /\ client' = "typing"
            /\ IF torn THEN UNCHANGED stored ELSE Stored(taking, FALSE)
  /\ net' = AfterRead(net)
  /\ UNCHANGED <<lab, names, taking, late, torn, serverVars, inq, out>>

\* Once something was left in the stream, it is read where a line is looked for,
\* up to a newline or a full buffer, or a size, or as many bytes as that makes;
\* the whole of a part or some of it, several parts for one line or one content.
\* There is no time-out there: with nothing more to read the client blocks.
Misread ==
  /\ torn /\ client \in {"waiting", "guessing"} /\ out # <<>>
  /\ client' \in {"guessing", "typing"} /\ out' \in {out, Tail(out)}
  /\ UNCHANGED <<lab, names, taking, stored, late, torn, serverVars, net, inq>>

\* A whole message, or nothing: an error is only traced, and an empty file
\* is taken for a failure.
Message34 ==
  /\ lab = "3.4" /\ client = "waiting"
  /\ \/ /\ out # <<>> /\ Head(out).part = "err"
        /\ client' = "typing" /\ out' \in Rests(out, 1)
        /\ UNCHANGED <<stored, net>>
     \/ /\ Len(out) > 1 /\ Head(out).part = "ok"
        /\ out' \in Rests(out, 2) /\ UNCHANGED net
        /\ IF names[Head(out).req] = "empty"
             THEN client' = "ended" /\ UNCHANGED stored
             ELSE /\ client' = "typing"
                  /\ Stored(Head(out).req, TRUE) \/ UNCHANGED stored
     \/ /\ \A i \in DOMAIN out : out[i].part = "ok"
        /\ AtEOF(net) /\ net' = AfterRead(net)
        /\ client' = "ended" /\ UNCHANGED <<stored, out>>
  /\ UNCHANGED <<lab, names, taking, late, torn, serverVars, inq>>

\* The user kills it.
ClientDies ==
  /\ client # "ended"
  /\ client' = "ended"
  /\ UNCHANGED <<lab, names, taking, stored, late, torn, serverVars, netVars>>

\* The RST that answers a write() to a closed socket arrives.
ResetArrives ==
  /\ net = "finw"
  /\ net' = "broken"
  /\ UNCHANGED <<lab, clientVars, serverVars, inq, out>>

-----------------------------------------------------------------------------
Server ==
  \/ Command34 \/ SendSize \/ Send \/ ServerEnd
  \/ \E r \in 0..MaxReq, line \in {"get", "blank", "quit"} :
       LET l == [req |-> r, line |-> line]
       IN  \/ Command23(l) \/ Command31(l) \/ CommandOld(l)
           \/ Command33(l) \/ Command33t(l)

Receive ==
  \/ ReadAnswer \/ ReadNoAnswer \/ ReadSize \/ ReadPartOfSize \/ ReadNoSize
  \/ ReadContent \/ ReadNoContent \/ Misread \/ Message34

User == \/ Quit \/ ClientDies
        \/ \E n \in Names : Request23(n) \/ Request31(n) \/ Request33(n) \/ Request34(n)

Next == \/ Accept \/ Accept34 \/ Server \/ Idle33t \/ ServerDies
        \/ User \/ TimeOut \/ Receive \/ ResetArrives

(* The server and the client run when they can, and time passes. *)
Spec == Init /\ [][Next]_vars /\ WF_vars(Server) /\ WF_vars(Receive)
             /\ WF_vars(TimeOut)
-----------------------------------------------------------------------------
(* Properties. *)

Parts == {"ok", "size", "content", "err"}
Lines == {"get", "blank", "quit"}

\* One answer is sent at a time, and what is on its way is about requests
\* that were made.
TypeOK ==
  /\ lab \in TextLabs \cup {"3.4"}
  /\ client \in {"typing", "waiting", "sizing", "reading", "guessing", "ended"}
  /\ names \in Seq(Names) /\ taking \in 0..Len(names)
  /\ stored \in Seq([asked : 1..Len(names), of : 1..Len(names), whole : BOOLEAN])
  /\ late \in BOOLEAN /\ torn \in BOOLEAN /\ failed \in BOOLEAN
  /\ server \in {"backlog", "reading", "sizing", "sending", "done"} \cup Gone
  /\ job \in IF server \in {"sizing", "sending"} THEN 1..Len(names) ELSE {0}
  /\ net \in NetStates
  /\ inq \in Seq([req : 0..Len(names), line : Lines])
  /\ out \in Seq([req : 1..Len(names), part : Parts])

\* The request the j-th answer is about: the servers of Lab 3 answer the
\* empty line that follows a request, too.
Owner(j) == IF lab \in PairLabs THEN (j + 1) \div 2 ELSE j

\* As long as the client has waited for every answer and read each to its end,
\* the file it stores after its j-th request is the one that the j-th answer
\* of the stream is about, and the whole of it unless the server failed or
\* could not read it: in Labs 2.3 and 3.4 the file just asked for.  This is so
\* with read-ahead buffers that are thrown away, and connections closed with
\* lines unread; it is not promised after a size that was read in part, a
\* local file that could not be opened, or a time-out (2.3/client.c 85-141,
\* 3.3/client.c 95-138, 3.4 server.c 60-87).
FileOfRequest ==
  ~late /\ ~torn /\ (lab = "3.3t" => \A i \in DOMAIN names : names[i] # "unreadable") =>
    \A i \in DOMAIN stored :
      /\ stored[i].of = Owner(stored[i].asked)
      /\ stored[i].whole \/ failed \/ names[stored[i].of] = "directory"

\* A client that went on without an answer only falls behind: a file it is
\* sent late is taken for the answer to a later request, never to an earlier
\* one, no file is stored twice and no request answered twice, and the files
\* keep the order of the requests.  Only a content or a part of a size left in
\* the stream may change that (2.3/client.c 85-144, 3.1/client.c 95-138).
FallsBehind ==
  ~torn =>
    \A i, j \in DOMAIN stored :
      /\ stored[i].of <= stored[i].asked
      /\ i < j => stored[i].of < stored[j].of /\ stored[i].asked < stored[j].asked

\* No client waits for ever once its server has accepted it: not in a loop
\* that reads a line, a size or a content, and not in Lab 3.4, which has no
\* time-out and relies on one answer to each message or the end of the
\* connection.  It may where the father keeps the connection of a child that
\* was killed (OLD.c 213), and where it looks for a newline, or for the bytes
\* of a wrong count, in what it has left in the stream (2.3/client.c 92-95,
\* 126-128).
ClientGoesOn ==
  client \in {"waiting", "sizing", "reading", "guessing"} /\ server # "backlog"
    ~> client \in {"typing", "ended"} \/ torn \/ (lab = "old" /\ failed)

\* A client that ends, whenever it does, is not served for ever: its server
\* turns to the next one, or its process ends, which is the end of the service
\* in Labs 2.3 and 3.4.  Only the child of Lab 3.1 loops on and keeps its
\* permit (2.3/server.c 41-49, 3.1/server.c 135-139, 3.4/server/server.c
\* 86-89, 261-263).
ServerLetsGo ==
  client = "ended" /\ server \in {"reading", "sizing", "sending"}
    ~> server \in {"done", "closed", "dead"} \/ (lab = "3.1" /\ server = "spinning")

\* The file a client stores when it has waited for each answer is the one it
\* has asked for last.
FileRequested ==
  ~late /\ ~torn => \A i \in DOMAIN stored : stored[i].of = stored[i].asked
=============================================================================
