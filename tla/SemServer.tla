------------------------------ MODULE SemServer ------------------------------
(***************************************************************************)
(* Lab3/3.1/server.c: the father takes a permit of a semaphore, accepts a  *)
(* connection and forks a child that serves it; the SIGCHLD handler of the *)
(* father reaps the dead children and gives one permit back for each.      *)
(*                                                                         *)
(* The father, its handler, the children, the clients and the network      *)
(* interleave at the granularity of the system calls.  The descriptors are *)
(* modelled because they decide what a client sees: a connection is closed *)
(* when no process holds it any more.                                      *)
(***************************************************************************)
EXTENDS Tcp, Integers, Sequences, FiniteSets

CONSTANTS Clients,   \* connections that clients may open, again and again
          Pids,      \* free slots of the process table
          Max,       \* MAX_CHILDREN
          NoConn,    \* the -1 of a failed accept()
          Backlog,   \* LISTENQ: connections waiting for accept()
          Writes,    \* write() calls of one answer: +OK, size, blocks
          MaxQ       \* unread commands per connection, a bound of the model

ASSUME MaxAssumption == Max \in Nat \ {0}
ASSUME PidsAssumption == IsFiniteSet(Pids)
ASSUME ClientsAssumption == NoConn \notin Clients
ASSUME BoundsAssumption == /\ Backlog \in Nat \ {0}
                           /\ Writes \in Nat \ {0}
                           /\ MaxQ \in Nat \ {0}

VARIABLES
  sem,       \* the value of the semaphore
  mpc,       \* where the father is in its loop
  connfd,    \* the father's variable connfd
  hpc,       \* where the SIGCHLD handler is, "off" when it does not run
  sigchld,   \* SIGCHLD is pending for the father (signals do not queue)
  child,     \* what the process of each slot does
  serves,    \* the connfd of each child
  left,      \* write() calls left in the answer a child is sending
  parentFds, \* connections the father has open
  childFds,  \* connections each child has open
  backlog,   \* connections accept() has not returned yet
  net,       \* state of the server's socket of each connection (Tcp)
  inq        \* commands received on a connection and not read yet

mainVars == <<sem, mpc, connfd, hpc, sigchld, parentFds>>
childVars == <<child, serves, left, childFds>>
netVars == <<backlog, net, inq>>
vars == <<mainVars, childVars, netVars>>

(***************************************************************************)
(* The commands a client may send, by what the child does with them: GET   *)
(* of a file it can open, GET of one it cannot, QUIT, and anything else    *)
(* (the empty line that follows every GET of Lab3/3.1/client.c included).  *)
(***************************************************************************)
Commands == {"get", "missing", "quit", "other"}

LiveStates == {"serve", "send", "spin"}
Live == {p \in Pids : child[p] \in LiveStates}
Unreaped == {p \in Pids : child[p] # "free"}

\* Some process of the server has the connection open.
Held(c) == c \in parentFds \/ \E p \in Pids : c \in childFds[p]

InBacklog(c) == \E i \in DOMAIN backlog : backlog[i] = c

Init ==
  /\ sem = Max
  /\ mpc = "wait"
  /\ connfd = NoConn
  /\ hpc = "off"
  /\ sigchld = FALSE
  /\ child = [p \in Pids |-> "free"]
  /\ serves = [p \in Pids |-> NoConn]
  /\ left = [p \in Pids |-> 0]
  /\ parentFds = {}
  /\ childFds = [p \in Pids |-> {}]
  /\ backlog = <<>>
  /\ net = [c \in Clients |-> "idle"]
  /\ inq = [c \in Clients |-> <<>>]

-----------------------------------------------------------------------------
(* The father.  It does not run while its signal handler does. *)

\* Mutant: sem_trywait() whose result is not checked.
SemWait_Unchecked ==
  /\ mpc = "wait" /\ hpc = "off"
  /\ sem' = sem - 1
  /\ mpc' = "accept"
  /\ UNCHANGED <<connfd, hpc, sigchld, parentFds, childVars, netVars>>

SemWait ==
  /\ mpc = "wait" /\ hpc = "off"
  /\ sem > 0
  /\ sem' = sem - 1
  /\ mpc' = "accept"
  /\ UNCHANGED <<connfd, hpc, sigchld, parentFds, childVars, netVars>>

Accept ==
  /\ mpc = "accept" /\ hpc = "off"
  /\ backlog # <<>>
  /\ connfd' = Head(backlog)
  /\ backlog' = Tail(backlog)
  /\ parentFds' = parentFds \cup {Head(backlog)}
  /\ mpc' = "fork"
  /\ UNCHANGED <<sem, hpc, sigchld, childVars, net, inq>>

\* accept() fails (no descriptor left, say): nobody looks at its result.
AcceptFails ==
  /\ mpc = "accept" /\ hpc = "off"
  /\ connfd' = NoConn
  /\ mpc' = "fork"
  /\ UNCHANGED <<sem, hpc, sigchld, parentFds, childVars, netVars>>

\* The child starts with copies of every descriptor of the father.
Fork(p) ==
  /\ mpc = "fork" /\ hpc = "off"
  /\ child[p] = "free"
  /\ child' = [child EXCEPT ![p] = "serve"]
  /\ serves' = [serves EXCEPT ![p] = connfd]
  /\ childFds' = [childFds EXCEPT ![p] = parentFds]
  /\ mpc' = "close"
  /\ UNCHANGED <<sem, connfd, hpc, sigchld, left, parentFds, netVars>>

\* fork() fails: a message, and back to the loop with connfd still open.
ForkFails ==
  /\ mpc = "fork" /\ hpc = "off"
  /\ mpc' = "wait"
  /\ UNCHANGED <<sem, connfd, hpc, sigchld, parentFds, childVars, netVars>>

\* Mutants: the father keeps the connection; the father gives its permit
\* back itself.
CloseConn_Kept ==
  /\ mpc = "close" /\ hpc = "off"
  /\ mpc' = "wait"
  /\ UNCHANGED <<sem, connfd, hpc, sigchld, parentFds, childVars, netVars>>

CloseConn_Posts ==
  /\ mpc = "close" /\ hpc = "off"
  /\ parentFds' = parentFds \ {connfd}
  /\ sem' = sem + 1
  /\ mpc' = "wait"
  /\ UNCHANGED <<connfd, hpc, sigchld, childVars, netVars>>

CloseConn ==
  /\ mpc = "close" /\ hpc = "off"
  /\ parentFds' = parentFds \ {connfd}
  /\ mpc' = "wait"
  /\ UNCHANGED <<sem, connfd, hpc, sigchld, childVars, netVars>>

-----------------------------------------------------------------------------
(* sig_handler: it reaps what there is, in a loop, since one SIGCHLD may   *)
(* stand for several children.  SIGCHLD is blocked while it runs.          *)

\* Mutant: one sem_post for the signal, before the loop.
Deliver_Posts ==
  /\ sigchld /\ hpc = "off"
  /\ sigchld' = FALSE
  /\ sem' = sem + 1
  /\ hpc' = "loop"
  /\ UNCHANGED <<mpc, connfd, parentFds, childVars, netVars>>

Deliver ==
  /\ sigchld /\ hpc = "off"
  /\ sigchld' = FALSE
  /\ hpc' = "loop"
  /\ UNCHANGED <<sem, mpc, connfd, parentFds, childVars, netVars>>

Reap(p) ==
  /\ hpc = "loop"
  /\ child[p] = "zombie"
  /\ child' = [child EXCEPT ![p] = "free"]
  /\ hpc' = "post"
  /\ UNCHANGED <<sem, mpc, connfd, sigchld, parentFds,
                 serves, left, childFds, netVars>>

\* Mutant: "if" instead of "while" around waitpid.
Post_Once ==
  /\ hpc = "post"
  /\ sem' = sem + 1
  /\ hpc' = "off"
  /\ UNCHANGED <<mpc, connfd, sigchld, parentFds, childVars, netVars>>

Post ==
  /\ hpc = "post"
  /\ sem' = sem + 1
  /\ hpc' = "loop"
  /\ UNCHANGED <<mpc, connfd, sigchld, parentFds, childVars, netVars>>

HandlerReturns ==
  /\ hpc = "loop"
  /\ \A p \in Pids : child[p] # "zombie"
  /\ hpc' = "off"
  /\ UNCHANGED <<sem, mpc, connfd, sigchld, parentFds, childVars, netVars>>

-----------------------------------------------------------------------------
(* The children: file_transfer. *)

\* The process ends: its descriptors are closed, SIGCHLD goes to the father.
Ends(p) ==
  /\ child' = [child EXCEPT ![p] = "zombie"]
  /\ serves' = [serves EXCEPT ![p] = NoConn]
  /\ left' = [left EXCEPT ![p] = 0]
  /\ childFds' = [childFds EXCEPT ![p] = {}]
  /\ sigchld' = TRUE

\* The last branch: -ERR, close, and the loop goes on without a connection.
Reject(p, s) ==
  LET c == serves[p] IN
  IF Signals(s)
    THEN Ends(p) /\ net' = [net EXCEPT ![c] = s]
    ELSE /\ net' = [net EXCEPT ![c] = AfterWrite(s)]
         /\ childFds' = [childFds EXCEPT ![p] = @ \ {c}]
         /\ child' = [child EXCEPT ![p] = "spin"]
         /\ UNCHANGED <<serves, left, sigchld>>

\* GET of a file fopen() opens: the answer takes Writes calls of write().
Get(p) ==
  /\ child' = [child EXCEPT ![p] = "send"]
  /\ left' = [left EXCEPT ![p] = Writes]
  /\ UNCHANGED <<serves, childFds, sigchld, net>>

\* One command read from the connection and dispatched.  The test for QUIT
\* asks request[2] to be both 'I' and 'T': QUIT takes the last branch.
Request(p) ==
  LET c == serves[p] IN
  /\ child[p] = "serve" /\ c # NoConn
  /\ inq[c] # <<>>
  /\ inq' = [inq EXCEPT ![c] = Tail(@)]
  /\ \/ Head(inq[c]) = "get" /\ Get(p)
     \/ Head(inq[c]) = "missing" /\ Ends(p) /\ UNCHANGED net
     \/ Head(inq[c]) \in {"quit", "other"} /\ Reject(p, net[c])
  /\ UNCHANGED <<sem, mpc, connfd, hpc, parentFds, backlog>>

\* read() returns 0 or -1 and leaves c as it was, most often the '\n' of the
\* command before: an empty command, so the last branch.
RequestAtEOF(p) ==
  LET c == serves[p] IN
  /\ child[p] = "serve" /\ c # NoConn
  /\ inq[c] = <<>> /\ AtEOF(net[c])
  /\ Reject(p, AfterRead(net[c]))
  /\ UNCHANGED <<sem, mpc, connfd, hpc, parentFds, backlog, inq>>

\* The same on the connfd -1 of a failed accept().
RequestNoConn(p) ==
  /\ child[p] = "serve" /\ serves[p] = NoConn
  /\ child' = [child EXCEPT ![p] = "spin"]
  /\ UNCHANGED <<mainVars, serves, left, childFds, netVars>>

\* One write() of an answer, its result unchecked; after the last one the
\* file is closed and the next command read.
Send(p) ==
  LET c == serves[p] IN
  /\ child[p] = "send"
  /\ \/ Signals(net[c]) /\ Ends(p) /\ UNCHANGED net
     \/ /\ ~Signals(net[c])
        /\ net' = [net EXCEPT ![c] = AfterWrite(@)]
        /\ left' = [left EXCEPT ![p] = @ - 1]
        /\ child' = [child EXCEPT ![p] = IF left[p] = 1 THEN "serve" ELSE @]
        /\ UNCHANGED <<serves, childFds, sigchld>>
  /\ UNCHANGED <<sem, mpc, connfd, hpc, parentFds, backlog, inq>>

\* read, write and close of a closed descriptor fail at once, for ever.
Spin(p) == child[p] = "spin" /\ UNCHANGED vars

-----------------------------------------------------------------------------
(* The clients and the network. *)

Connect(c) ==
  /\ net[c] = "idle"
  /\ Len(backlog) < Backlog
  /\ net' = [net EXCEPT ![c] = "open"]
  /\ backlog' = Append(backlog, c)
  /\ UNCHANGED <<mainVars, childVars, inq>>

ClientSend(c) ==
  /\ net[c] = "open" /\ (Held(c) \/ InBacklog(c))
  /\ Len(inq[c]) < MaxQ
  /\ \E m \in Commands : inq' = [inq EXCEPT ![c] = Append(@, m)]
  /\ UNCHANGED <<mainVars, childVars, backlog, net>>

\* close() or the death of the client: FIN, or RST if it left bytes unread.
ClientCloses(c) ==
  /\ net[c] = "open"
  /\ \E s \in {"fin", "reset"} : net' = [net EXCEPT ![c] = s]
  /\ UNCHANGED <<mainVars, childVars, backlog, inq>>

\* The RST that answers a write() to a closed socket arrives.
ResetArrives(c) ==
  /\ net[c] = "finw"
  /\ net' = [net EXCEPT ![c] = "broken"]
  /\ UNCHANGED <<mainVars, childVars, backlog, inq>>

\* Once the server holds nothing of it the connection is gone on both sides
\* and the client may come again.
ClientLeaves(c) ==
  /\ net[c] # "idle" /\ ~Held(c) /\ ~InBacklog(c)
  /\ net' = [net EXCEPT ![c] = "idle"]
  /\ inq' = [inq EXCEPT ![c] = <<>>]
  /\ UNCHANGED <<mainVars, childVars, backlog>>

-----------------------------------------------------------------------------
Main == SemWait \/ Accept \/ AcceptFails \/ ForkFails \/ CloseConn
        \/ \E p \in Pids : Fork(p)

Handler == Deliver \/ Post \/ HandlerReturns \/ \E p \in Pids : Reap(p)

Child(p) == Request(p) \/ RequestAtEOF(p) \/ RequestNoConn(p)
            \/ Send(p) \/ Spin(p)

Client(c) == Connect(c) \/ ClientSend(c) \/ ClientCloses(c)
             \/ ResetArrives(c) \/ ClientLeaves(c)

Next == \/ Main
        \/ Handler
        \/ \E p \in Pids : Child(p)
        \/ \E c \in Clients : Client(c)

Spec == Init /\ [][Next]_vars

(***************************************************************************)
(* The scheduler runs every process that can run: the father, its handler  *)
(* and each child make progress.  fork() may fail every time.  Nothing is  *)
(* assumed of the clients.                                                 *)
(***************************************************************************)
Fairness == /\ WF_vars(Main)
            /\ WF_vars(Handler)
            /\ \A p \in Pids : WF_vars(Child(p))

FairSpec == Spec /\ Fairness
-----------------------------------------------------------------------------
\* The semaphore is never negative, a child never owes more writes than one
\* answer has, and the queues hold connections and commands (server.c:72-173).
TypeOK ==
  /\ sem \in Nat
  /\ mpc \in {"wait", "accept", "fork", "close"}
  /\ connfd \in Clients \cup {NoConn}
  /\ hpc \in {"off", "loop", "post"}
  /\ sigchld \in BOOLEAN
  /\ child \in [Pids -> LiveStates \cup {"free", "zombie"}]
  /\ serves \in [Pids -> Clients \cup {NoConn}]
  /\ left \in [Pids -> 0..Writes]
  /\ parentFds \in SUBSET Clients
  /\ childFds \in [Pids -> SUBSET Clients]
  /\ backlog \in Seq(Clients)
  /\ net \in [Clients -> NetStates]
  /\ inq \in [Clients -> Seq(Commands)]

Holding == IF mpc \in {"accept", "fork"} THEN 1 ELSE 0
Posting == IF hpc = "post" THEN 1 ELSE 0

\* Permits that are free, in the father's hand, with a child that has not
\* been reaped, or about to be given back by the handler.
Permits == sem + Holding + Cardinality(Unreaped) + Posting

-----------------------------------------------------------------------------
(* Properties. *)

\* A permit never comes from nowhere and disappears only when fork() fails
\* (server.c:86-90 goes back to the loop without sem_post): whatever the
\* order of forks, deaths, merged SIGCHLDs and handler runs, one sem_post is
\* made for each child and no more.
PermitsConserved == [][Permits' = Permits
                       \/ (ForkFails /\ Permits' = Permits - 1)]_vars

\* At most MAX_CHILDREN children serve at a time: the server implements the
\* bounded service, a child being active from its fork to its death.
Service == INSTANCE BoundedService
             WITH Procs <- Pids, Limit <- Max, active <- Live
ServiceSpec == Service!Spec

\* No other process keeps open the connection a child is serving, except
\* the father between fork() and close(): when the child closes it or dies
\* the client is told (server.c:104 and the copies fork() makes).
ConnectionPrivate ==
  \A q \in Pids :
    child[q] \in {"serve", "send"} /\ serves[q] # NoConn =>
      /\ serves[q] \in childFds[q]
      /\ \A p \in Pids \ {q} : serves[q] \notin childFds[p]
      /\ serves[q] \in parentFds => mpc = "close" /\ connfd = serves[q]

\* Every dead child is reaped, also when several die before the father runs
\* its handler (server.c:118, the loop around waitpid).
ChildReaped == \A p \in Pids : child[p] = "zombie" ~> child[p] = "free"

\* Every permit that is left is with a living child.
Starved == Permits = Cardinality(Live)

\* A client in the backlog is accepted, unless from some time on every
\* permit is with a child that does not end or has been lost by fork().
ServiceResumes ==
  \A c \in Clients : []<>~Starved => (InBacklog(c) ~> ~InBacklog(c))

\* When clients go away, in order or killed, the father is still able to
\* serve the others (lab3_dp1.pdf, 3.1): nobody waits in the backlog for
\* ever, were it only that accept() and fork() never fail.
ClientsGoAway ==
  /\ Init /\ [][Next /\ ~AcceptFails /\ ~ForkFails]_vars
  /\ Fairness /\ \A c \in Clients : WF_vars(ClientCloses(c))
EveryClientAccepted == \A c \in Clients : InBacklog(c) ~> ~InBacklog(c)
=============================================================================
