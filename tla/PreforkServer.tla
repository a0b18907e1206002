---------------------------- MODULE PreforkServer ----------------------------
(***************************************************************************)
(* The two servers of Lab 3.3, which have the same main:                   *)
(*   "preforking"  Lab3/3.3/server_tcp_preforking.c                        *)
(*   "timeout"     Lab3/3.3/server_tcp_timeout_oob.c                       *)
(* The father forks its children once and then waits for SIGINT; every     *)
(* child accepts a connection, serves it (receiver) and accepts again.     *)
(* What differs is how receiver reads a command and what it does when a    *)
(* read or a write fails; the variable program tells which server runs.    *)
(*                                                                         *)
(* A command line arrives whole or in two segments.  The bytes before the  *)
(* newline are "part"; the rest of a split line stands for its command.    *)
(***************************************************************************)
EXTENDS Tcp, Integers, Sequences, SequencesExt

CONSTANTS Pids,     \* the children: nchildren of them
          Clients,  \* connections that clients may open, again and again
          NoConn,   \* no connection
          Backlog,  \* LISTENQ
          Writes,   \* write() calls of one file: +OK, size, bytes
          MaxLines  \* command lines per connection, a bound of the model

ASSUME PreforkAssumption == /\ NoConn \notin Clients
                            /\ Backlog \in Nat \ {0} /\ Writes \in Nat \ {0}
                            /\ MaxLines \in Nat \ {0}

VARIABLES
  program,   \* which of the two servers this is; never changes
  main,      \* where the father is
  signalled, \* children sig_int has sent SIGTERM to
  child,     \* what each child does
  conn,      \* the connfd of each child
  out,       \* write() calls left in the file a child is sending
  backlog,   \* connections no child has accepted yet
  net,       \* state of the server's socket of each connection (Tcp)
  inq,       \* segments received on a connection and not read yet
  cut,       \* the client has sent only the first segment of its last line
  lines,     \* command lines the client has sent, and whether each was split
  replies    \* replies begun while the client is there to get them

mainVars == <<program, main, signalled>>
childVars == <<child, conn, out>>
netVars == <<backlog, net, inq, cut, lines, replies>>
vars == <<mainVars, childVars, netVars>>

(***************************************************************************)
(* Commands: GET of a file that is sent; what both servers refuse (GET of  *)
(* a file stat() does not find, and anything unknown); GET of a file that  *)
(* stat() finds and fopen() does not open; QUIT.                           *)
(***************************************************************************)
Commands == {"get", "refused", "unreadable", "quit"}

Busy(p) == child[p] \in {"receive", "send"}
Alive(p) == child[p] \in {"accept", "receive", "send"}
Held(c) == \E p \in Pids : conn[p] = c
InBacklog(c) == \E i \in DOMAIN backlog : backlog[i] = c

\* No child is forked yet.
InitFather ==
  /\ program \in {"preforking", "timeout"}
  /\ main = "forking" /\ signalled = {}
  /\ child = [p \in Pids |-> "none"]
  /\ conn = [p \in Pids |-> NoConn]
  /\ out = [p \in Pids |-> 0]

\* The socket listens, and nobody has connected.
InitNet ==
  /\ backlog = <<>>
  /\ net = [c \in Clients |-> "idle"]
  /\ inq = [c \in Clients |-> <<>>]
  /\ cut = [c \in Clients |-> FALSE]
  /\ lines = [c \in Clients |-> <<>>]
  /\ replies = [c \in Clients |-> <<>>]

Init == InitFather /\ InitNet

-----------------------------------------------------------------------------
(* What becomes of a child and its connection. *)

\* receiver returns, the child closes the connection and accepts again.
Release(p) ==
  /\ child' = [child EXCEPT ![p] = "accept"]
  /\ conn' = [conn EXCEPT ![p] = NoConn]
  /\ out' = [out EXCEPT ![p] = 0]

\* The process ends: SIGPIPE, or the exit(1) of err_sys().
Dies(p) ==
  /\ child' = [child EXCEPT ![p] = "zombie"]
  /\ conn' = [conn EXCEPT ![p] = NoConn]
  /\ out' = [out EXCEPT ![p] = 0]

\* Mutant: writen() exits as Write() does.
WriteFailed_Exits(p, s) == Dies(p)

\* A write that failed on a socket in state s and did not end the process
\* by a signal: Write() calls err_sys(), writen() makes receiver return.
WriteFailed(p, s) ==
  IF Signals(s) \/ program = "preforking" THEN Dies(p) ELSE Release(p)

Answer(c, r) ==
  replies' = IF net[c] = "open" THEN [replies EXCEPT ![c] = Append(@, r)] ELSE replies

\* Mutant: no answer to what is refused, and no end at QUIT.
Reply_Silent(p, m, s) ==
  LET c == conn[p] IN
  \/ /\ m = "get"
     /\ child' = [child EXCEPT ![p] = "send"]
     /\ out' = [out EXCEPT ![p] = Writes]
     /\ Answer(c, "ok")
     /\ net' = [net EXCEPT ![c] = s]
     /\ UNCHANGED conn
  \/ /\ m # "get"
     /\ net' = [net EXCEPT ![c] = s]
     /\ UNCHANGED <<childVars, replies>>

\* The command m is carried out on a socket left in state s by the read.
\* The timeout server answers nothing when only fopen() fails (lines 164-166).
Reply(p, m, s) ==
  LET c == conn[p]
      silent == m = "unreadable" /\ program = "timeout" IN
  \/ /\ m = "get"
     /\ child' = [child EXCEPT ![p] = "send"]
     /\ out' = [out EXCEPT ![p] = Writes]
     /\ Answer(c, "ok")
     /\ net' = [net EXCEPT ![c] = s]
     /\ UNCHANGED conn
  \/ /\ m \in {"refused", "unreadable"} /\ ~silent
     /\ net' = [net EXCEPT ![c] = AfterWrite(s)]
     /\ IF WriteFails(s)
          THEN WriteFailed(p, s) /\ UNCHANGED replies
          ELSE Answer(c, "err") /\ UNCHANGED childVars
  \/ /\ silent
     /\ net' = [net EXCEPT ![c] = s]
     /\ UNCHANGED <<childVars, replies>>
  \/ /\ m = "quit"
     /\ Release(p)
     /\ net' = [net EXCEPT ![c] = s]
     /\ UNCHANGED replies

-----------------------------------------------------------------------------
(* The children. *)

Accept(p) ==
  /\ child[p] = "accept"
  /\ backlog # <<>>
  /\ child' = [child EXCEPT ![p] = "receive"]
  /\ conn' = [conn EXCEPT ![p] = Head(backlog)]
  /\ backlog' = Tail(backlog)
  /\ UNCHANGED <<mainVars, out, net, inq, cut, lines, replies>>

\* A whole line is there to be read, in one segment or in two.
ReadLine(p) ==
  LET c == conn[p] IN
  /\ child[p] = "receive"
  /\ \/ /\ inq[c] # <<>> /\ Head(inq[c]) # "part"
        /\ inq' = [inq EXCEPT ![c] = Tail(@)]
        /\ Reply(p, Head(inq[c]), net[c])
     \/ /\ Len(inq[c]) > 1 /\ Head(inq[c]) = "part"
        /\ inq' = [inq EXCEPT ![c] = Tail(Tail(@))]
        /\ Reply(p, inq[c][2], net[c])
  /\ UNCHANGED <<mainVars, backlog, cut, lines>>

\* Only the first bytes of a line are there.  The timeout server takes what
\* there is for a command; the other waits for more unless there will be no
\* more.  Cut anywhere, the line may read as any command.
ReadPart(p) ==
  LET c == conn[p] IN
  /\ child[p] = "receive"
  /\ inq[c] = <<"part">>
  /\ program = "timeout" \/ AtEOF(net[c])
  /\ inq' = [inq EXCEPT ![c] = <<>>]
  /\ IF program = "preforking" /\ ReadFails(net[c])
       THEN Dies(p) /\ net' = [net EXCEPT ![c] = AfterRead(@)]
                    /\ UNCHANGED replies
       ELSE \E m \in Commands : Reply(p, m, AfterRead(net[c]))
  /\ UNCHANGED <<mainVars, backlog, cut, lines>>

\* Mutant: the end of the connection taken for an empty command.
ReadEnd_Ignored(p) ==
  LET c == conn[p] IN
  /\ child[p] = "receive"
  /\ inq[c] = <<>> /\ AtEOF(net[c])
  /\ net' = [net EXCEPT ![c] = AfterRead(@)]
  /\ UNCHANGED <<mainVars, childVars, backlog, inq, cut, lines, replies>>

\* The client closed its end, or the connection was reset: Read() exits the
\* process on an error, readn() does not.
ReadEnd(p) ==
  LET c == conn[p] IN
  /\ child[p] = "receive"
  /\ inq[c] = <<>> /\ AtEOF(net[c])
  /\ IF program = "preforking" /\ ReadFails(net[c]) THEN Dies(p) ELSE Release(p)
  /\ net' = [net EXCEPT ![c] = AfterRead(@)]
  /\ UNCHANGED <<mainVars, backlog, inq, cut, lines, replies>>

\* select() returns 0 after TIMEOUT seconds of silence.
Timeout(p) ==
  /\ program = "timeout"
  /\ child[p] = "receive"
  /\ inq[conn[p]] = <<>> /\ ~AtEOF(net[conn[p]])
  /\ Release(p)
  /\ UNCHANGED <<mainVars, netVars>>

\* Mutant: one write too many (i <= size).
Send_OneMore(p) ==
  LET c == conn[p] IN
  /\ child[p] = "send"
  /\ IF WriteFails(net[c])
       THEN WriteFailed(p, net[c])
       ELSE /\ out' = [out EXCEPT ![p] = @ - 1]
            /\ child' = [child EXCEPT ![p] = IF out[p] = 0 THEN "receive" ELSE @]
            /\ UNCHANGED conn
  /\ net' = [net EXCEPT ![c] = AfterWrite(@)]
  /\ UNCHANGED <<mainVars, backlog, inq, cut, lines, replies>>

\* One write of a file being sent.
Send(p) ==
  LET c == conn[p] IN
  /\ child[p] = "send"
  /\ IF WriteFails(net[c])
       THEN WriteFailed(p, net[c])
       ELSE /\ out' = [out EXCEPT ![p] = @ - 1]
            /\ child' = [child EXCEPT ![p] = IF out[p] = 1 THEN "receive" ELSE @]
            /\ UNCHANGED conn
  /\ net' = [net EXCEPT ![c] = AfterWrite(@)]
  /\ UNCHANGED <<mainVars, backlog, inq, cut, lines, replies>>

-----------------------------------------------------------------------------
(* The father. *)

ForkChild(p) ==
  /\ main = "forking"
  /\ child[p] = "none"
  /\ child' = [child EXCEPT ![p] = "accept"]
  /\ UNCHANGED <<mainVars, conn, out, netVars>>

\* Fork() leaves through err_sys(); the children forked before go on.
ForkFails ==
  /\ main = "forking"
  /\ \E p \in Pids : child[p] = "none"
  /\ main' = "exited"
  /\ UNCHANGED <<program, signalled, childVars, netVars>>

\* sigaction(SIGINT) comes after the last fork().
HandleSigint ==
  /\ main = "forking"
  /\ \A p \in Pids : child[p] # "none"
  /\ main' = "pausing"
  /\ UNCHANGED <<program, signalled, childVars, netVars>>

\* SIGINT: from the terminal to the father and its children, or to the
\* father alone.  The children have the default action, and so has the
\* father before sigaction().
Interrupt(hit) ==
  /\ main \in {"forking", "pausing"}
  /\ main' = IF main = "pausing" THEN "killing" ELSE "exited"
  /\ child' = [p \in Pids |-> IF p \in hit /\ Alive(p) THEN "zombie" ELSE child[p]]
  /\ conn' = [p \in Pids |-> IF p \in hit THEN NoConn ELSE conn[p]]
  /\ out' = [p \in Pids |-> IF p \in hit THEN 0 ELSE out[p]]
  /\ UNCHANGED <<program, signalled, netVars>>

\* Mutant: SIGTERM counted but not sent.
Kill_None(p) ==
  /\ main = "killing"
  /\ p \notin signalled
  /\ signalled' = signalled \cup {p}
  /\ main' = IF signalled' = Pids THEN "waiting" ELSE main
  /\ UNCHANGED <<program, childVars, netVars>>

\* sig_int: one SIGTERM for each child, the dead ones included.
Kill(p) ==
  /\ main = "killing"
  /\ p \notin signalled
  /\ signalled' = signalled \cup {p}
  /\ main' = IF signalled' = Pids THEN "waiting" ELSE main
  /\ IF Alive(p) THEN Dies(p) ELSE UNCHANGED childVars
  /\ UNCHANGED <<program, netVars>>

\* wait() in a loop until it fails with ECHILD.
Reap(p) ==
  /\ main = "waiting"
  /\ child[p] = "zombie"
  /\ child' = [child EXCEPT ![p] = "gone"]
  /\ UNCHANGED <<mainVars, conn, out, netVars>>

Exit ==
  /\ main = "waiting"
  /\ \A p \in Pids : child[p] = "gone"
  /\ main' = "exited"
  /\ UNCHANGED <<program, signalled, childVars, netVars>>

-----------------------------------------------------------------------------
(* The clients and the network. *)

Connect(c) ==
  /\ net[c] = "idle"
  /\ Len(backlog) < Backlog
  /\ net' = [net EXCEPT ![c] = "open"]
  /\ backlog' = Append(backlog, c)
  /\ UNCHANGED <<mainVars, childVars, inq, cut, lines, replies>>

CanSend(c) == net[c] = "open" /\ (Held(c) \/ InBacklog(c))

SendLine(c, m) ==
  /\ CanSend(c) /\ ~cut[c] /\ Len(lines[c]) < MaxLines
  /\ inq' = [inq EXCEPT ![c] = Append(@, m)]
  /\ lines' = [lines EXCEPT ![c] = Append(@, [cmd |-> m, split |-> FALSE])]
  /\ UNCHANGED <<mainVars, childVars, backlog, net, cut, replies>>

SendFirst(c, m) ==
  /\ CanSend(c) /\ ~cut[c] /\ Len(lines[c]) < MaxLines
  /\ inq' = [inq EXCEPT ![c] = Append(@, "part")]
  /\ cut' = [cut EXCEPT ![c] = TRUE]
  /\ lines' = [lines EXCEPT ![c] = Append(@, [cmd |-> m, split |-> TRUE])]
  /\ UNCHANGED <<mainVars, childVars, backlog, net, replies>>

\* The rest of the line: behind its beginning it makes the command whole,
\* alone it may read as anything.
SendRest(c, m) ==
  /\ CanSend(c) /\ cut[c]
  /\ inq[c] # <<>> => m = lines[c][Len(lines[c])].cmd
  /\ inq' = [inq EXCEPT ![c] = Append(@, m)]
  /\ cut' = [cut EXCEPT ![c] = FALSE]
  /\ UNCHANGED <<mainVars, childVars, backlog, net, lines, replies>>

\* close() or the death of the client: FIN, or RST if it left bytes unread.
\* What it was owed does not matter any more.
ClientCloses(c) ==
  /\ net[c] = "open"
  /\ \E s \in {"fin", "reset"} : net' = [net EXCEPT ![c] = s]
  /\ cut' = [cut EXCEPT ![c] = FALSE]
  /\ lines' = [lines EXCEPT ![c] = <<>>]
  /\ replies' = [replies EXCEPT ![c] = <<>>]
  /\ UNCHANGED <<mainVars, childVars, backlog, inq>>

\* The RST that answers a write() to a closed socket arrives.
ResetArrives(c) ==
  /\ net[c] = "finw"
  /\ net' = [net EXCEPT ![c] = "broken"]
  /\ UNCHANGED <<mainVars, childVars, backlog, inq, cut, lines, replies>>

\* No child has the connection any more: the client may come again.
ClientLeaves(c) ==
  /\ net[c] # "idle" /\ ~Held(c) /\ ~InBacklog(c)
  /\ net' = [net EXCEPT ![c] = "idle"]
  /\ inq' = [inq EXCEPT ![c] = <<>>]
  /\ cut' = [cut EXCEPT ![c] = FALSE]
  /\ lines' = [lines EXCEPT ![c] = <<>>]
  /\ replies' = [replies EXCEPT ![c] = <<>>]
  /\ UNCHANGED <<mainVars, childVars, backlog>>

-----------------------------------------------------------------------------
Father == \/ ForkFails \/ HandleSigint \/ Exit
          \/ \E p \in Pids : ForkChild(p) \/ Kill(p) \/ Reap(p)

Child(p) == Accept(p) \/ ReadLine(p) \/ ReadPart(p) \/ ReadEnd(p)
            \/ Timeout(p) \/ Send(p)

Client(c) == \/ Connect(c) \/ ClientCloses(c) \/ ResetArrives(c)
             \/ ClientLeaves(c)
             \/ \E m \in Commands : \/ SendLine(c, m) \/ SendFirst(c, m)
                                    \/ SendRest(c, m)

Next == \/ Father
        \/ Interrupt(Pids) \/ Interrupt({})
        \/ \E p \in Pids : Child(p)
        \/ \E c \in Clients : Client(c)

(***************************************************************************)
(* The father and the children run when they can; select() returns after   *)
(* its time is over.  Nothing is assumed of the clients.                   *)
(***************************************************************************)
Spec == Init /\ [][Next]_vars

FairSpec == /\ Spec /\ WF_vars(Father)
            /\ \A p \in Pids : WF_vars(Child(p))

-----------------------------------------------------------------------------
(* Properties. *)

\* A child never owes more writes than one file has (the loop at
\* preforking:119), and every queue holds what it should.
TypeOK ==
  /\ program \in {"preforking", "timeout"}
  /\ main \in {"forking", "pausing", "killing", "waiting", "exited"}
  /\ signalled \in SUBSET Pids
  /\ child \in [Pids -> {"none", "accept", "receive", "send", "zombie", "gone"}]
  /\ conn \in [Pids -> Clients \cup {NoConn}]
  /\ out \in [Pids -> 0..Writes]
  /\ backlog \in Seq(Clients)
  /\ net \in [Clients -> NetStates]
  /\ inq \in [Clients -> Seq(Commands \cup {"part"})]
  /\ cut \in [Clients -> BOOLEAN]
  /\ lines \in [Clients -> Seq([cmd : Commands, split : BOOLEAN])]
  /\ replies \in [Clients -> Seq({"ok", "err"})]

\* What the protocol asks for: one reply for each line before a QUIT.
Expected(c) ==
  LET quits == {i \in DOMAIN lines[c] : lines[c][i].cmd = "quit"}
      served == {i \in DOMAIN lines[c] : \A q \in quits : i < q}
  IN  [i \in served |-> IF lines[c][i].cmd = "get" THEN "ok" ELSE "err"]

\* The timeout server promises less: lines that arrive in one segment, and
\* no file that is found but cannot be opened.
Straight(c) ==
  program = "preforking"
    \/ \A i \in DOMAIN lines[c] :
         ~lines[c][i].split /\ lines[c][i].cmd # "unreadable"

\* Each line is answered once, with its own answer and in order, however the
\* lines are pipelined and the segments cut, and when the child waits for
\* more it owes the client nothing (preforking:76-140, timeout:95-191).
RepliesMatch ==
  \A c \in Clients : net[c] = "open" /\ Straight(c) =>
    /\ IsPrefix(replies[c], Expected(c))
    /\ \A p \in Pids :
         conn[p] = c /\ child[p] = "receive" /\ inq[c] = <<>> =>
           replies[c] = Expected(c)

\* A child lets go of a client that is gone, wherever it is in a command or a
\* file: it accepts the next one, or is dead.  The timeout server also lets go
\* of a client that has fallen silent: after any n lines it waits for one more,
\* or for TIMEOUT seconds, the rest of a cut line included; a client that keeps
\* sending lines keeps its child (preforking:85-88 and 221, timeout:95-115 and
\* 186-190).
Released ==
  \A c \in Clients :
    /\ Held(c) /\ PeerGone(net[c]) ~> ~Held(c)
    /\ \A n \in 0..MaxLines :
         program = "timeout" /\ Held(c) /\ Len(lines[c]) = n
           ~> ~Held(c) \/ Len(lines[c]) > n

\* Once its handler runs the father ends, and leaves no child behind
\* (sig_int, preforking:52-65).
ShutsDown == main = "killing" ~> (main = "exited" /\ \A p \in Pids : child[p] = "gone")

\* Nothing forks a new child.  But for SIGINT one is lost only to a client
\* that went away; in the timeout server, where receiver returns when the
\* "connection has been closed by client" (142, 149, 159, 173, 183), only to
\* SIGPIPE, when the client's end was known before the write.
PoolShrinks ==
  [][\A p \in Pids :
       main' \in {"forking", "pausing"} /\ Alive(p) /\ child'[p] = "zombie" =>
         /\ Busy(p) /\ PeerGone(net[conn[p]])
         /\ program = "timeout" => Signals(net[conn[p]]) \/ child[p] = "receive"]_vars
=============================================================================
