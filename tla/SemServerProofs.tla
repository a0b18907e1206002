--------------------------- MODULE SemServerProofs ---------------------------
(***************************************************************************)
(* Proofs about SemServer for every number of clients, process slots and   *)
(* permits: type correctness, one sem_post for each child, and the limit   *)
(* on the children that serve at the same time.                            *)
(***************************************************************************)
EXTENDS SemServer, FiniteSetTheorems, TLAPS

\* The father's part of a child's step is the pending signal; the slot of
\* the child keeps a process, alive or dead.
LEMMA ChildStep ==
  ASSUME TypeOK, NEW p \in Pids, Child(p)
  PROVE  \/ UNCHANGED vars
         \/ /\ child[p] \in LiveStates
            /\ \E x \in LiveStates \cup {"zombie"} :
                 child' = [child EXCEPT ![p] = x]
            /\ UNCHANGED <<sem, mpc, connfd, hpc, parentFds, backlog>>
<1>1. CASE Request(p)
  <2>1. CASE Head(inq[serves[p]]) = "get" /\ Get(p)
    BY <1>1, <2>1 DEF Request, Get, LiveStates, TypeOK
  <2>2. CASE Ends(p)
    BY <1>1, <2>2 DEF Request, Ends, LiveStates, TypeOK
  <2>3. CASE Reject(p, net[serves[p]])
    BY <1>1, <2>3 DEF Request, Reject, Ends, LiveStates, TypeOK
  <2> QED BY <1>1, <2>1, <2>2, <2>3 DEF Request
<1>2. CASE RequestAtEOF(p)
  BY <1>2 DEF RequestAtEOF, Reject, Ends, LiveStates, TypeOK
<1>3. CASE RequestNoConn(p)
  BY <1>3 DEF RequestNoConn, mainVars, LiveStates, netVars, TypeOK
<1>4. CASE Send(p)
  <2>1. CASE Ends(p)
    BY <1>4, <2>1 DEF Send, Ends, LiveStates, TypeOK
  <2>2. CASE ~Signals(net[serves[p]])
    <3>1. child' = [child EXCEPT ![p] = IF left[p] = 1 THEN "serve" ELSE "send"]
      BY <1>4, <2>2 DEF Send, TypeOK
    <3> QED BY <1>4, <2>2, <3>1 DEF Send, LiveStates
  <2> QED BY <1>4, <2>1, <2>2 DEF Send
<1>5. CASE Spin(p)
  BY <1>5 DEF Spin
<1> QED BY <1>1, <1>2, <1>3, <1>4, <1>5 DEF Child

\* Clients and the network change nothing of main and its children.
LEMMA ClientStep ==
  ASSUME NEW c \in Clients, Client(c)
  PROVE  UNCHANGED <<mainVars, childVars>>
BY DEF Client, Connect, ClientSend, ClientCloses, ResetArrives, ClientLeaves,
       mainVars, childVars

\* What the father, its handler and the children leave of Permits.
LEMMA UnreapedFinite == IsFiniteSet(Unreaped) /\ Cardinality(Unreaped) \in Nat
<1>1. Unreaped \subseteq Pids BY DEF Unreaped
<1> QED BY <1>1, PidsAssumption, FS_Subset, FS_CardinalityType

\* A step that leaves the semaphore, main and the children alone.
LEMMA PermitsSame ==
  ASSUME UNCHANGED <<sem, mpc, hpc>>, Unreaped' = Unreaped
  PROVE  Permits' = Permits
BY DEF Permits, Holding, Posting

\* Every step keeps the permits but a failed fork(), which loses one.
LEMMA PermitsStep ==
  ASSUME TypeOK, [Next]_vars
  PROVE  Permits' = Permits \/ (ForkFails /\ Permits' = Permits - 1)
<1> USE UnreapedFinite
<1>1. CASE SemWait
  <2>1. Unreaped' = Unreaped BY <1>1 DEF SemWait, childVars, Unreaped
  <2> QED BY <1>1, <2>1 DEF SemWait, Permits, Holding, Posting, TypeOK
<1>2. CASE Accept
  <2>1. Unreaped' = Unreaped BY <1>2 DEF Accept, childVars, Unreaped
  <2> QED BY <1>2, <2>1 DEF Accept, Permits, Holding, Posting
<1>3. CASE AcceptFails
  <2>1. Unreaped' = Unreaped BY <1>3 DEF AcceptFails, childVars, Unreaped
  <2> QED BY <1>3, <2>1 DEF AcceptFails, Permits, Holding, Posting
<1>4. CASE ForkFails
  <2>1. Unreaped' = Unreaped BY <1>4 DEF ForkFails, childVars, Unreaped
  <2> QED BY <1>4, <2>1 DEF ForkFails, Permits, Holding, Posting, TypeOK
<1>5. CASE CloseConn
  <2>1. Unreaped' = Unreaped BY <1>5 DEF CloseConn, childVars, Unreaped
  <2> QED BY <1>5, <2>1 DEF CloseConn, Permits, Holding, Posting
<1>6. ASSUME NEW p \in Pids, Fork(p) PROVE Permits' = Permits
  <2>1. p \notin Unreaped BY <1>6 DEF Fork, Unreaped
  <2>2. Unreaped' = Unreaped \cup {p}
    BY <1>6 DEF Fork, Unreaped, TypeOK, LiveStates
  <2>3. Cardinality(Unreaped') = Cardinality(Unreaped) + 1
    BY <2>1, <2>2, FS_AddElement
  <2> QED BY <1>6, <2>3 DEF Fork, Permits, Holding, Posting, TypeOK
<1>7. CASE Deliver
  <2>1. Unreaped' = Unreaped BY <1>7 DEF Deliver, childVars, Unreaped
  <2> QED BY <1>7, <2>1 DEF Deliver, Permits, Holding, Posting
<1>8. CASE Post
  <2>1. Unreaped' = Unreaped BY <1>8 DEF Post, childVars, Unreaped
  <2>2. Posting = 1 /\ Posting' = 0 BY <1>8 DEF Post, Posting
  <2>3. Holding' = Holding /\ Holding \in Nat BY <1>8 DEF Post, Holding
  <2>4. sem' = sem + 1 /\ sem \in Nat BY <1>8 DEF Post, TypeOK
  <2> QED BY <2>1, <2>2, <2>3, <2>4 DEF Permits
<1>9. CASE HandlerReturns
  <2>1. Unreaped' = Unreaped BY <1>9 DEF HandlerReturns, childVars, Unreaped
  <2> QED BY <1>9, <2>1 DEF HandlerReturns, Permits, Holding, Posting
<1>10. ASSUME NEW p \in Pids, Reap(p) PROVE Permits' = Permits
  <2>1. p \in Unreaped BY <1>10 DEF Reap, Unreaped
  <2>2. Unreaped' = Unreaped \ {p} BY <1>10 DEF Reap, Unreaped, TypeOK
  <2>3. Cardinality(Unreaped') = Cardinality(Unreaped) - 1
    BY <2>1, <2>2, FS_RemoveElement
  <2>4. Posting = 0 /\ Posting' = 1 BY <1>10 DEF Reap, Posting
  <2>5. Holding' = Holding /\ Holding \in Nat BY <1>10 DEF Reap, Holding
  <2>6. sem' = sem /\ sem \in Nat BY <1>10 DEF Reap, TypeOK
  <2> QED BY <2>3, <2>4, <2>5, <2>6 DEF Permits
<1>11. ASSUME NEW p \in Pids, Child(p) PROVE Permits' = Permits
  <2>1. CASE UNCHANGED vars
    <3>1. Unreaped' = Unreaped BY <2>1 DEF vars, childVars, Unreaped
    <3> QED BY <2>1, <3>1, PermitsSame DEF vars, mainVars
  <2>2. CASE ~UNCHANGED vars
    <3>1. Unreaped' = Unreaped
      BY <1>11, <2>2, ChildStep DEF Unreaped, LiveStates, TypeOK
    <3> QED BY <1>11, <2>2, <3>1, ChildStep, PermitsSame
  <2> QED BY <2>1, <2>2
<1>12. ASSUME NEW c \in Clients, Client(c) PROVE Permits' = Permits
  <2>1. UNCHANGED <<mainVars, childVars>> BY <1>12, ClientStep
  <2>2. Unreaped' = Unreaped BY <2>1 DEF childVars, Unreaped
  <2> QED BY <2>1, <2>2, PermitsSame DEF mainVars
<1>13. CASE UNCHANGED vars
  <2>1. Unreaped' = Unreaped BY <1>13 DEF vars, childVars, Unreaped
  <2> QED BY <1>13, <2>1, PermitsSame DEF vars, mainVars
<1> QED
  BY <1>1, <1>2, <1>3, <1>4, <1>5, <1>6, <1>7, <1>8, <1>9, <1>10, <1>11,
     <1>12, <1>13 DEF Next, Main, Handler

-----------------------------------------------------------------------------
(* Type correctness.  A child that sends has something left to send. *)

LeftPositive == \A p \in Pids : child[p] = "send" => left[p] > 0

TypeInv == TypeOK /\ LeftPositive

\* A write leaves a socket in one of the states of Tcp.
LEMMA AfterWriteType == \A s \in NetStates : AfterWrite(s) \in NetStates
BY DEF NetStates, AfterWrite

\* So does a read.
LEMMA AfterReadType == \A s \in NetStates : AfterRead(s) \in NetStates
BY DEF NetStates, AfterRead

\* A child that ends keeps the types.
LEMMA EndsType ==
  ASSUME TypeInv, NEW p \in Pids, Ends(p)
  PROVE  /\ child' \in [Pids -> LiveStates \cup {"free", "zombie"}]
         /\ serves' \in [Pids -> Clients \cup {NoConn}]
         /\ left' \in [Pids -> 0..Writes]
         /\ childFds' \in [Pids -> SUBSET Clients]
         /\ sigchld' \in BOOLEAN
         /\ LeftPositive'
BY BoundsAssumption DEF TypeInv, TypeOK, LeftPositive, Ends

\* So does a child that answers -ERR.
LEMMA RejectType ==
  ASSUME TypeInv, NEW p \in Pids, NEW s \in NetStates, Reject(p, s)
  PROVE  /\ child' \in [Pids -> LiveStates \cup {"free", "zombie"}]
         /\ serves' \in [Pids -> Clients \cup {NoConn}]
         /\ left' \in [Pids -> 0..Writes]
         /\ childFds' \in [Pids -> SUBSET Clients]
         /\ sigchld' \in BOOLEAN
         /\ net' \in [Clients -> NetStates]
         /\ LeftPositive'
<1>1. CASE Signals(s)
  BY <1>1, EndsType DEF Reject, TypeInv, TypeOK
<1>2. CASE ~Signals(s)
  <2> DEFINE c == serves[p]
  <2>1. /\ net' = [net EXCEPT ![c] = AfterWrite(s)]
        /\ childFds' = [childFds EXCEPT ![p] = childFds[p] \ {c}]
        /\ child' = [child EXCEPT ![p] = "spin"]
        /\ UNCHANGED <<serves, left, sigchld>>
    BY <1>2 DEF Reject, TypeInv, TypeOK
  <2>2. net' \in [Clients -> NetStates]
    BY <2>1, AfterWriteType DEF TypeInv, TypeOK
  <2>3. child' \in [Pids -> LiveStates \cup {"free", "zombie"}] /\ LeftPositive'
    BY <2>1 DEF TypeInv, TypeOK, LeftPositive, LiveStates
  <2> QED BY <2>1, <2>2, <2>3 DEF TypeInv, TypeOK
<1> QED BY <1>1, <1>2

\* A step of a child keeps the types.
LEMMA ChildType ==
  ASSUME TypeInv, NEW p \in Pids, Child(p)
  PROVE  TypeInv'
<1> USE DEF TypeInv
<1>1. CASE Request(p)
  <2> DEFINE c == serves[p]
  <2>1. c \in Clients /\ inq' \in [Clients -> Seq(Commands)]
    BY <1>1 DEF Request, TypeOK
  <2>2. CASE Get(p)
    BY <1>1, <2>1, <2>2, BoundsAssumption
       DEF Request, Get, TypeOK, LeftPositive, LiveStates
  <2>3. CASE Ends(p) /\ UNCHANGED net
    BY <1>1, <2>1, <2>3, EndsType DEF Request, TypeOK
  <2>4. CASE Reject(p, net[c])
    <3>1. net[c] \in NetStates BY <2>1 DEF TypeOK
    <3> QED BY <1>1, <2>1, <2>4, <3>1, RejectType DEF Request, TypeOK
  <2> QED BY <1>1, <2>2, <2>3, <2>4 DEF Request
<1>2. CASE RequestAtEOF(p)
  <2>1. AfterRead(net[serves[p]]) \in NetStates
    BY <1>2, AfterReadType DEF RequestAtEOF, TypeOK
  <2> QED BY <1>2, <2>1, RejectType DEF RequestAtEOF, TypeOK
<1>3. CASE RequestNoConn(p)
  BY <1>3 DEF RequestNoConn, mainVars, netVars, TypeOK, LeftPositive, LiveStates
<1>4. CASE Send(p)
  <2>1. CASE Ends(p) /\ UNCHANGED net
    BY <1>4, <2>1, EndsType DEF Send, TypeOK
  <2>2. CASE ~Signals(net[serves[p]])
    <3>1. net' \in [Clients -> NetStates]
      <4> DEFINE c == serves[p]
      <4>1. net' = [net EXCEPT ![c] = AfterWrite(net[c])]
        BY <1>4, <2>2 DEF Send, TypeOK
      <4>2. c \in Clients => AfterWrite(net[c]) \in NetStates
        BY AfterWriteType DEF TypeOK
      <4> HIDE DEF c
      <4> QED BY <4>1, <4>2 DEF TypeOK
    <3>2. left[p] \in Nat /\ left[p] > 0 /\ left[p] <= Writes
      BY <1>4, BoundsAssumption DEF Send, TypeOK, LeftPositive
    <3>3. left' \in [Pids -> 0..Writes]
      BY <1>4, <2>2, <3>2, BoundsAssumption DEF Send, TypeOK
    <3>4. /\ child' = [child EXCEPT ![p] = IF left[p] = 1 THEN "serve" ELSE "send"]
          /\ left' = [left EXCEPT ![p] = left[p] - 1]
      BY <1>4, <2>2 DEF Send, TypeOK
    <3>5. LeftPositive'
      BY <3>2, <3>4 DEF TypeOK, LeftPositive
    <3>6. child' \in [Pids -> LiveStates \cup {"free", "zombie"}]
      BY <3>4 DEF TypeOK, LiveStates
    <3>7. UNCHANGED <<sem, mpc, connfd, hpc, sigchld, serves, childFds,
                      parentFds, backlog, inq>>
      BY <1>4, <2>2 DEF Send
    <3>8. TypeOK'
      BY <3>1, <3>3, <3>6, <3>7 DEF TypeOK
    <3> QED BY <3>5, <3>8
  <2> QED BY <1>4, <2>1, <2>2 DEF Send
<1>5. CASE Spin(p)
  BY <1>5 DEF Spin, vars, mainVars, childVars, netVars, TypeOK, LeftPositive
<1> QED BY <1>1, <1>2, <1>3, <1>4, <1>5 DEF Child

\* A step of a client keeps the types.
LEMMA ClientType ==
  ASSUME TypeInv, NEW c \in Clients, Client(c)
  PROVE  TypeInv'
<1>1. UNCHANGED <<mainVars, childVars>> BY ClientStep
<1>2. backlog' \in Seq(Clients) /\ net' \in [Clients -> NetStates]
  <2> backlog \in Seq(Clients) /\ net \in [Clients -> NetStates]
    BY DEF TypeInv, TypeOK
  <2>1. CASE Connect(c) BY <2>1 DEF Connect, NetStates
  <2>2. CASE ClientSend(c) BY <2>2 DEF ClientSend
  <2>3. CASE ClientCloses(c) BY <2>3 DEF ClientCloses, NetStates
  <2>4. CASE ResetArrives(c) BY <2>4 DEF ResetArrives, NetStates
  <2>5. CASE ClientLeaves(c) BY <2>5 DEF ClientLeaves, NetStates
  <2> QED BY <2>1, <2>2, <2>3, <2>4, <2>5 DEF Client
<1>3. inq' \in [Clients -> Seq(Commands)]
  <2> inq \in [Clients -> Seq(Commands)] BY DEF TypeInv, TypeOK
  <2>1. CASE ClientSend(c)
    <3>1. PICK m \in Commands : inq' = [inq EXCEPT ![c] = Append(inq[c], m)]
      BY <2>1 DEF ClientSend
    <3>2. Append(inq[c], m) \in Seq(Commands) OBVIOUS
    <3> QED BY <3>1, <3>2
  <2>2. CASE ClientLeaves(c) BY <2>2 DEF ClientLeaves
  <2>3. CASE UNCHANGED inq BY <2>3
  <2> QED BY <2>1, <2>2, <2>3 DEF Client, Connect, ClientCloses, ResetArrives
<1> QED BY <1>1, <1>2, <1>3 DEF TypeInv, TypeOK, LeftPositive, mainVars, childVars

\* Every step keeps the types.
LEMMA TypeStep == TypeInv /\ [Next]_vars => TypeInv'
<1> SUFFICES ASSUME TypeInv, [Next]_vars PROVE TypeInv'
  OBVIOUS
<1> USE DEF TypeInv, TypeOK, LeftPositive, childVars, netVars, mainVars
<1>1. CASE Main
  <2>1. CASE SemWait \/ AcceptFails \/ ForkFails \/ CloseConn
    BY <2>1 DEF SemWait, AcceptFails, ForkFails, CloseConn
  <2>2. CASE Accept
    BY <2>2 DEF Accept
  <2>3. ASSUME NEW p \in Pids, Fork(p) PROVE TypeInv'
    BY <2>3 DEF Fork, LiveStates
  <2> QED BY <1>1, <2>1, <2>2, <2>3 DEF Main
<1>2. CASE Handler
  <2>1. CASE Deliver \/ HandlerReturns
    BY <2>1 DEF Deliver, HandlerReturns
  <2>3. CASE Post
    <3>1. sem' \in Nat BY <2>3 DEF Post
    <3> QED BY <2>3, <3>1 DEF Post
  <2>2. ASSUME NEW p \in Pids, Reap(p) PROVE TypeInv'
    BY <2>2 DEF Reap
  <2> QED BY <1>2, <2>1, <2>2, <2>3 DEF Handler
<1>3. ASSUME NEW p \in Pids, Child(p) PROVE TypeInv'
  BY <1>3, ChildType
<1>4. ASSUME NEW c \in Clients, Client(c) PROVE TypeInv'
  BY <1>4, ClientType
<1>5. CASE UNCHANGED vars
  BY <1>5 DEF vars
<1> QED BY <1>1, <1>2, <1>3, <1>4, <1>5 DEF Next

\* The types at the start.
LEMMA TypeInit == Init => TypeInv
<1> SUFFICES ASSUME Init PROVE TypeInv
  OBVIOUS
<1>1. child \in [Pids -> LiveStates \cup {"free", "zombie"}] /\ LeftPositive
  BY DEF Init, LiveStates, LeftPositive
<1>2. /\ net \in [Clients -> NetStates]
      /\ inq \in [Clients -> Seq(Commands)] /\ backlog \in Seq(Clients)
  BY DEF Init, NetStates
<1>3. /\ left \in [Pids -> 0..Writes]
      /\ serves \in [Pids -> Clients \cup {NoConn}]
      /\ childFds \in [Pids -> SUBSET Clients]
  BY BoundsAssumption DEF Init
<1> QED BY <1>1, <1>2, <1>3, MaxAssumption DEF Init, TypeInv, TypeOK

\* Every variable keeps its type: the semaphore never goes below zero, and
\* no child counts its writes below zero (server.c:81, 175-193).
THEOREM TypeCorrect == Spec => []TypeOK
<1>1. TypeInv => TypeOK BY DEF TypeInv
<1> QED BY <1>1, TypeInit, TypeStep, PTL DEF Spec

-----------------------------------------------------------------------------
(* The permits and the limit. *)

PermitInv == TypeInv /\ Permits <= Max

\* The permits are a number.
LEMMA PermitsNat == TypeOK => Permits \in Nat
BY UnreapedFinite DEF TypeOK, Permits, Holding, Posting

\* At the start all permits are in the semaphore.
LEMMA PermitsInit == Init => Permits = Max
<1> SUFFICES ASSUME Init PROVE Permits = Max
  OBVIOUS
<1>1. Unreaped = {} BY DEF Init, Unreaped
<1> QED BY <1>1, FS_EmptySet, MaxAssumption DEF Init, Permits, Holding, Posting

\* There are never more permits than at the start.
LEMMA PermitInvariant == Spec => []PermitInv
<1>1. Init => PermitInv
  BY TypeInit, PermitsInit, MaxAssumption DEF PermitInv
<1>2. PermitInv /\ [Next]_vars => PermitInv'
  <2> SUFFICES ASSUME PermitInv, [Next]_vars PROVE PermitInv'
    OBVIOUS
  <2>1. TypeInv' BY TypeStep DEF PermitInv
  <2>2. Permits \in Nat BY PermitsNat DEF PermitInv, TypeInv
  <2>3. Permits' = Permits \/ Permits' = Permits - 1
    BY PermitsStep DEF PermitInv, TypeInv
  <2> QED BY <2>1, <2>2, <2>3, MaxAssumption DEF PermitInv
<1> QED BY <1>1, <1>2, PTL DEF Spec

\* One sem_post for each child that was forked, and none lost but those of
\* a failed fork() (server.c:86-90, 118-119).
THEOREM PermitsAreConserved == Spec => PermitsConserved
<1>1. PermitInv /\ [Next]_vars =>
        [Permits' = Permits \/ (ForkFails /\ Permits' = Permits - 1)]_vars
  BY PermitsStep DEF PermitInv, TypeInv
<1> QED BY <1>1, PermitInvariant, PTL DEF Spec, PermitsConserved

\* The living children are among those not reaped.
LEMMA LiveBound ==
  ASSUME PermitInv
  PROVE  /\ IsFiniteSet(Live) /\ Cardinality(Live) \in Nat
         /\ Cardinality(Live) <= Cardinality(Unreaped)
<1>1. Live \subseteq Unreaped
  BY DEF Live, Unreaped, LiveStates, PermitInv, TypeInv, TypeOK
<1> QED BY <1>1, UnreapedFinite, FS_Subset, FS_CardinalityType

\* A step of the server starts a session below the limit, ends one, or
\* leaves the sessions alone.
LEMMA ServiceStep ==
  ASSUME PermitInv, [Next]_vars
  PROVE  [Service!Next]_Live
<1> TypeOK BY DEF PermitInv, TypeInv
<1>1. ASSUME NEW p \in Pids, Fork(p) PROVE Service!Begin(p)
  <2>1. p \notin Live BY <1>1 DEF Fork, Live, LiveStates
  <2>2. Live' = Live \cup {p} BY <1>1 DEF Fork, Live, LiveStates, TypeOK
  <2>3. Holding = 1 BY <1>1 DEF Fork, Holding
  <2>4. Posting \in Nat /\ sem \in Nat BY DEF Posting, TypeOK
  <2>5. Cardinality(Unreaped) < Max
    BY <2>3, <2>4, UnreapedFinite, MaxAssumption DEF PermitInv, Permits
  <2>6. Cardinality(Live) < Max
    BY <2>5, LiveBound, UnreapedFinite, MaxAssumption
  <2>7. Service!Cardinality(Live) = Cardinality(Live)
    BY DEF Service!Cardinality, Cardinality
  <2> QED BY <2>1, <2>2, <2>6, <2>7 DEF Service!Begin
<1>2. ASSUME NEW p \in Pids, Child(p) PROVE UNCHANGED Live \/ Service!End(p)
  <2>1. CASE UNCHANGED vars
    BY <2>1 DEF vars, childVars, Live
  <2>2. CASE ~UNCHANGED vars
    <3>1. p \in Live BY <1>2, <2>2, ChildStep DEF Live
    <3>2. PICK x \in LiveStates \cup {"zombie"} :
            child' = [child EXCEPT ![p] = x]
      BY <1>2, <2>2, ChildStep
    <3>3. CASE x \in LiveStates
      <4>1. Live' = Live BY <3>1, <3>2, <3>3 DEF Live, TypeOK
      <4> QED BY <4>1
    <3>4. CASE x = "zombie"
      <4>1. Live' = Live \ {p} BY <3>2, <3>4 DEF Live, LiveStates, TypeOK
      <4> QED BY <3>1, <4>1 DEF Service!End
    <3> QED BY <3>3, <3>4
  <2> QED BY <2>1, <2>2
<1>3. ASSUME NEW p \in Pids, Reap(p) PROVE Live' = Live
  BY <1>3 DEF Reap, Live, LiveStates, TypeOK
<1>4. ASSUME NEW c \in Clients, Client(c) PROVE Live' = Live
  BY <1>4, ClientStep DEF childVars, Live
<1>5. CASE \/ SemWait \/ Accept \/ AcceptFails \/ ForkFails \/ CloseConn
           \/ Deliver \/ Post \/ HandlerReturns \/ UNCHANGED vars
  <2>1. UNCHANGED child
    BY <1>5 DEF SemWait, Accept, AcceptFails, ForkFails, CloseConn, Deliver,
                Post, HandlerReturns, vars, childVars
  <2> QED BY <2>1 DEF Live
<1> QED
  BY <1>1, <1>2, <1>3, <1>4, <1>5 DEF Next, Main, Handler, Service!Next

\* At most MAX_CHILDREN children serve at any time, for every MAX_CHILDREN,
\* every number of clients and every interleaving with the handler.
THEOREM ImplementsService == Spec => ServiceSpec
<1>1. Init => Service!Init
  BY DEF Init, Service!Init, Live, LiveStates
<1>2. PermitInv /\ [Next]_vars => [Service!Next]_Live
  BY ServiceStep
<1> QED BY <1>1, <1>2, PermitInvariant, PTL DEF Spec, ServiceSpec, Service!Spec

-----------------------------------------------------------------------------
(***************************************************************************)
(* The descriptors.  ConnectionPrivate is not inductive: Accept needs that *)
(* a waiting connection is held by no process, Fork that no child has the  *)
(* connection the father has just accepted, and Connect that a client      *)
(* without a connection is neither held nor waiting.                       *)
(***************************************************************************)

WaitingDistinct == \A i, j \in DOMAIN backlog : backlog[i] = backlog[j] => i = j

WaitingUnheld == \A c \in Clients : InBacklog(c) => ~Held(c)

IdleUnknown ==
  \A c \in Clients : net[c] = "idle" => ~Held(c) /\ ~InBacklog(c)

AcceptedUnshared ==
  mpc = "fork" /\ connfd # NoConn =>
    connfd \in parentFds /\ \A p \in Pids : connfd \notin childFds[p]

DeadHoldNothing ==
  \A p \in Pids : child[p] \in {"free", "zombie"} => childFds[p] = {}

FdInv == /\ TypeInv
         /\ WaitingDistinct /\ WaitingUnheld /\ IdleUnknown
         /\ AcceptedUnshared /\ DeadHoldNothing /\ ConnectionPrivate

\* The backlog without its first connection.
LEMMA TailFacts ==
  ASSUME NEW S, NEW s \in Seq(S), s # <<>>
  PROVE  /\ 1 \in DOMAIN s /\ Head(s) = s[1] /\ Head(s) \in S
         /\ \A i \in DOMAIN Tail(s) :
              i \in Nat /\ i + 1 \in DOMAIN s /\ i + 1 # 1 /\ Tail(s)[i] = s[i + 1]
OBVIOUS

\* The backlog with one connection more.
LEMMA AppendFacts ==
  ASSUME NEW S, NEW s \in Seq(S), NEW e \in S
  PROVE  \A i \in DOMAIN Append(s, e) :
           \/ i \in DOMAIN s /\ Append(s, e)[i] = s[i]
           \/ i \notin DOMAIN s /\ i = Len(s) + 1 /\ Append(s, e)[i] = e
OBVIOUS

\* Steps that open nothing and change no waiting connection.
LEMMA FdShrinks ==
  ASSUME FdInv, TypeInv', UNCHANGED <<backlog, mpc, connfd, parentFds>>,
         \A c \in Clients : net'[c] = "idle" => net[c] = "idle",
         \A p \in Pids : childFds'[p] \subseteq childFds[p],
         DeadHoldNothing',
         \A p \in Pids : child'[p] \in {"serve", "send"} =>
           /\ child[p] \in {"serve", "send"}
           /\ serves'[p] = serves[p] /\ childFds'[p] = childFds[p]
  PROVE  FdInv'
<1>1. \A c \in Clients : Held(c)' => Held(c)
  BY DEF Held
<1>2. \A c \in Clients : InBacklog(c)' <=> InBacklog(c)
  BY DEF InBacklog
<1>3. WaitingDistinct' BY DEF FdInv, WaitingDistinct
<1>4. WaitingUnheld' BY <1>1, <1>2 DEF FdInv, WaitingUnheld
<1>5. IdleUnknown' BY <1>1, <1>2 DEF FdInv, IdleUnknown
<1>6. AcceptedUnshared' BY DEF FdInv, AcceptedUnshared
<1>7. ConnectionPrivate'
  <2> SUFFICES ASSUME NEW q \in Pids,
                      child'[q] \in {"serve", "send"}, serves'[q] # NoConn
               PROVE  /\ serves'[q] \in childFds'[q]
                      /\ \A p \in Pids \ {q} : serves'[q] \notin childFds'[p]
                      /\ serves'[q] \in parentFds' =>
                           mpc' = "close" /\ connfd' = serves'[q]
    BY DEF ConnectionPrivate
  <2> QED BY DEF FdInv, ConnectionPrivate
<1> QED BY <1>3, <1>4, <1>5, <1>6, <1>7 DEF FdInv

\* A child that ends closes its descriptors and no others.
LEMMA FdEnds ==
  ASSUME TypeInv, NEW p \in Pids, Ends(p)
  PROVE  /\ \A q \in Pids : childFds'[q] \subseteq childFds[q]
         /\ childFds'[p] = {} /\ child'[p] = "zombie"
         /\ \A q \in Pids \ {p} : /\ childFds'[q] = childFds[q]
                                  /\ child'[q] = child[q]
                                  /\ serves'[q] = serves[q]
BY DEF TypeInv, TypeOK, Ends

\* A child that answers -ERR opens none.
LEMMA FdReject ==
  ASSUME FdInv, NEW p \in Pids, child[p] = "serve", NEW s, Reject(p, s),
         s # "idle"
  PROVE  /\ \A q \in Pids : childFds'[q] \subseteq childFds[q]
         /\ (child'[p] = "zombie" /\ childFds'[p] = {}) \/ child'[p] = "spin"
         /\ \A q \in Pids \ {p} : /\ childFds'[q] = childFds[q]
                                  /\ child'[q] = child[q]
                                  /\ serves'[q] = serves[q]
         /\ \A c \in Clients : net'[c] = "idle" => net[c] = "idle"
<1> TypeInv BY DEF FdInv
<1>1. CASE Signals(s)
  <2>1. Ends(p) /\ net' = [net EXCEPT ![serves[p]] = s] BY <1>1 DEF Reject
  <2> QED BY <2>1, FdEnds DEF TypeInv, TypeOK
<1>2. CASE ~Signals(s)
  <2>1. AfterWrite(s) # "idle" BY DEF AfterWrite
  <2> QED BY <1>2, <2>1 DEF Reject, TypeInv, TypeOK
<1> QED BY <1>1, <1>2

\* A step of a child keeps the connections private.
LEMMA FdChild ==
  ASSUME FdInv, TypeInv', NEW p \in Pids, Child(p)
  PROVE  FdInv'
<1> TypeInv /\ DeadHoldNothing BY DEF FdInv
<1>1. CASE Request(p)
  <2>1. child[p] = "serve" /\ UNCHANGED <<backlog, mpc, connfd, parentFds>>
    BY <1>1 DEF Request
  <2>2. CASE Get(p)
    <3>1. DeadHoldNothing'
      BY <1>1, <2>2 DEF Request, Get, DeadHoldNothing, TypeInv, TypeOK
    <3>2. UNCHANGED <<serves, childFds, net>> BY <2>2 DEF Get
    <3>3. \A q \in Pids : child'[q] \in {"serve", "send"} =>
                            child[q] \in {"serve", "send"}
      BY <2>1, <2>2 DEF Get, TypeInv, TypeOK
    <3> QED BY <2>1, <3>1, <3>2, <3>3, FdShrinks
  <2>3. CASE Ends(p) /\ UNCHANGED net
    <3>1. DeadHoldNothing' BY <2>3, FdEnds DEF DeadHoldNothing
    <3> QED BY <2>1, <2>3, <3>1, FdEnds, FdShrinks
  <2>4. CASE Reject(p, net[serves[p]])
    <3>1. net[serves[p]] # "idle"
      <4>1. serves[p] \in Clients /\ serves[p] \in childFds[p]
        BY <1>1, <2>1 DEF Request, FdInv, ConnectionPrivate, TypeInv, TypeOK
      <4> QED BY <4>1 DEF FdInv, IdleUnknown, Held
    <3>2. DeadHoldNothing' BY <2>1, <2>4, <3>1, FdReject DEF DeadHoldNothing
    <3> QED BY <2>1, <2>4, <3>1, <3>2, FdReject, FdShrinks
  <2> QED BY <1>1, <2>2, <2>3, <2>4 DEF Request
<1>2. CASE RequestAtEOF(p)
  <2>1. child[p] = "serve" /\ UNCHANGED <<backlog, mpc, connfd, parentFds>>
    BY <1>2 DEF RequestAtEOF
  <2>2. AfterRead(net[serves[p]]) # "idle"
    BY <1>2 DEF RequestAtEOF, AtEOF, PeerGone, AfterRead
  <2>3. DeadHoldNothing'
    BY <1>2, <2>1, <2>2, FdReject DEF RequestAtEOF, DeadHoldNothing
  <2> QED BY <1>2, <2>1, <2>2, <2>3, FdReject, FdShrinks DEF RequestAtEOF
<1>3. CASE RequestNoConn(p)
  <2>1. UNCHANGED <<backlog, net, mpc, connfd, parentFds, serves, childFds>>
    BY <1>3 DEF RequestNoConn, mainVars, netVars
  <2>2. /\ DeadHoldNothing'
        /\ \A q \in Pids : child'[q] \in {"serve", "send"} =>
                             child[q] \in {"serve", "send"}
    BY <1>3, <2>1 DEF RequestNoConn, DeadHoldNothing, TypeInv, TypeOK
  <2> QED BY <2>1, <2>2, FdShrinks
<1>4. CASE Send(p)
  <2>1. child[p] = "send" /\ UNCHANGED <<backlog, mpc, connfd, parentFds>>
    BY <1>4 DEF Send
  <2>2. CASE Ends(p) /\ UNCHANGED net
    <3>1. DeadHoldNothing' BY <2>2, FdEnds DEF DeadHoldNothing
    <3> QED BY <2>1, <2>2, <3>1, FdEnds, FdShrinks
  <2>3. CASE ~Signals(net[serves[p]])
    <3>1. /\ UNCHANGED <<serves, childFds>>
          /\ net' = [net EXCEPT ![serves[p]] = AfterWrite(net[serves[p]])]
          /\ child' = [child EXCEPT ![p] = IF left[p] = 1 THEN "serve" ELSE "send"]
      BY <1>4, <2>1, <2>3 DEF Send, TypeInv, TypeOK
    <3>2. /\ DeadHoldNothing'
          /\ \A q \in Pids : child'[q] \in {"serve", "send"} =>
                               child[q] \in {"serve", "send"}
      BY <2>1, <3>1 DEF DeadHoldNothing, TypeInv, TypeOK
    <3>3. \A c \in Clients : net'[c] = "idle" => net[c] = "idle"
      BY <3>1 DEF AfterWrite, TypeInv, TypeOK
    <3> QED BY <2>1, <3>1, <3>2, <3>3, FdShrinks
  <2> QED BY <1>4, <2>2, <2>3 DEF Send
<1>5. CASE Spin(p)
  <2>1. UNCHANGED <<child, serves, childFds, backlog, net, mpc, connfd, parentFds>>
    BY <1>5 DEF Spin, vars, mainVars, childVars, netVars
  <2>2. DeadHoldNothing' BY <2>1 DEF DeadHoldNothing
  <2> QED BY <2>1, <2>2, FdShrinks
<1> QED BY <1>1, <1>2, <1>3, <1>4, <1>5 DEF Child

\* accept() takes a connection nobody holds.
LEMMA FdAccept ==
  ASSUME FdInv, TypeInv', Accept
  PROVE  FdInv'
<1> TypeInv BY DEF FdInv
<1> DEFINE c == Head(backlog)
<1>1. /\ backlog \in Seq(Clients) /\ backlog # <<>> /\ mpc = "accept"
      /\ backlog' = Tail(backlog) /\ connfd' = c /\ mpc' = "fork"
      /\ parentFds' = parentFds \cup {c}
      /\ UNCHANGED <<child, serves, childFds, net>>
  BY DEF Accept, TypeInv, TypeOK, childVars
<1>2. /\ 1 \in DOMAIN backlog /\ c = backlog[1] /\ c \in Clients
      /\ \A i \in DOMAIN Tail(backlog) :
           /\ i \in Nat /\ i + 1 \in DOMAIN backlog /\ i + 1 # 1
           /\ Tail(backlog)[i] = backlog[i + 1]
  BY <1>1, TailFacts
<1> HIDE DEF c
<1>3. InBacklog(c) /\ ~Held(c)
  BY <1>2 DEF InBacklog, FdInv, WaitingUnheld
<1>4. \A d \in Clients : InBacklog(d)' => InBacklog(d) /\ d # c
  BY <1>1, <1>2 DEF InBacklog, FdInv, WaitingDistinct
<1>5. \A d \in Clients : Held(d)' => Held(d) \/ d = c
  BY <1>1 DEF Held
<1>6. WaitingDistinct' BY <1>1, <1>2 DEF FdInv, WaitingDistinct
<1>7. WaitingUnheld' BY <1>4, <1>5 DEF FdInv, WaitingUnheld
<1>8. IdleUnknown' BY <1>1, <1>2, <1>3, <1>4, <1>5 DEF FdInv, IdleUnknown
<1>9. AcceptedUnshared' BY <1>1, <1>3 DEF AcceptedUnshared, Held
<1>10. DeadHoldNothing' BY <1>1 DEF FdInv, DeadHoldNothing
<1>11. ConnectionPrivate'
  BY <1>1, <1>3 DEF FdInv, ConnectionPrivate, Held
<1> QED BY <1>6, <1>7, <1>8, <1>9, <1>10, <1>11 DEF FdInv

\* The child forked shares the connection of its father only.
LEMMA FdFork ==
  ASSUME FdInv, TypeInv', NEW p \in Pids, Fork(p)
  PROVE  FdInv'
<1> TypeInv BY DEF FdInv
<1>1. /\ mpc = "fork" /\ child[p] = "free" /\ mpc' = "close"
      /\ child' = [child EXCEPT ![p] = "serve"]
      /\ serves' = [serves EXCEPT ![p] = connfd]
      /\ childFds' = [childFds EXCEPT ![p] = parentFds]
      /\ UNCHANGED <<connfd, parentFds, backlog, net>>
  BY DEF Fork, netVars
<1>2. \A c \in Clients : InBacklog(c)' <=> InBacklog(c) BY <1>1 DEF InBacklog
<1>3. \A c \in Clients : Held(c)' => Held(c) BY <1>1 DEF Held, TypeInv, TypeOK
<1>4. WaitingDistinct' BY <1>1 DEF FdInv, WaitingDistinct
<1>5. WaitingUnheld' BY <1>2, <1>3 DEF FdInv, WaitingUnheld
<1>6. IdleUnknown' BY <1>1, <1>2, <1>3 DEF FdInv, IdleUnknown
<1>7. AcceptedUnshared' BY <1>1 DEF AcceptedUnshared
<1>8. DeadHoldNothing' BY <1>1 DEF FdInv, DeadHoldNothing, TypeInv, TypeOK
<1>9. ConnectionPrivate'
  <2> SUFFICES ASSUME NEW q \in Pids,
                      child'[q] \in {"serve", "send"}, serves'[q] # NoConn
               PROVE  /\ serves'[q] \in childFds'[q]
                      /\ \A r \in Pids \ {q} : serves'[q] \notin childFds'[r]
                      /\ serves'[q] \in parentFds' =>
                           mpc' = "close" /\ connfd' = serves'[q]
    BY DEF ConnectionPrivate
  <2>1. CASE q = p
    BY <1>1, <2>1 DEF FdInv, AcceptedUnshared, TypeInv, TypeOK
  <2>2. CASE q # p
    <3>1. /\ child[q] \in {"serve", "send"} /\ serves'[q] = serves[q]
          /\ childFds'[q] = childFds[q] /\ childFds'[p] = parentFds
      BY <1>1, <2>2 DEF TypeInv, TypeOK
    <3>2. serves[q] \notin parentFds
      BY <1>1, <3>1 DEF FdInv, ConnectionPrivate
    <3> QED BY <1>1, <3>1, <3>2 DEF FdInv, ConnectionPrivate, TypeInv, TypeOK
  <2> QED BY <2>1, <2>2
<1> QED BY <1>4, <1>5, <1>6, <1>7, <1>8, <1>9 DEF FdInv

\* Clients open connections nobody holds.
LEMMA FdClient ==
  ASSUME FdInv, TypeInv', NEW c \in Clients, Client(c)
  PROVE  FdInv'
<1> TypeInv BY DEF FdInv
<1>1. UNCHANGED <<mpc, connfd, parentFds, child, serves, childFds>>
  BY ClientStep DEF mainVars, childVars
<1>2. DeadHoldNothing' /\ ConnectionPrivate' /\ AcceptedUnshared'
  BY <1>1 DEF FdInv, DeadHoldNothing, ConnectionPrivate, AcceptedUnshared
<1>3. \A d \in Clients : Held(d)' <=> Held(d) BY <1>1 DEF Held
<1>4. CASE Connect(c)
  <2>1. /\ net[c] = "idle" /\ net' = [net EXCEPT ![c] = "open"]
        /\ backlog' = Append(backlog, c) /\ backlog \in Seq(Clients)
    BY <1>4 DEF Connect, TypeInv, TypeOK
  <2>2. ~Held(c) /\ ~InBacklog(c) BY <2>1 DEF FdInv, IdleUnknown
  <2>3. \A i \in DOMAIN backlog' :
          \/ i \in DOMAIN backlog /\ backlog'[i] = backlog[i]
          \/ i \notin DOMAIN backlog /\ i = Len(backlog) + 1 /\ backlog'[i] = c
    BY <2>1, AppendFacts
  <2>4. \A d \in Clients : InBacklog(d)' => InBacklog(d) \/ d = c
    BY <2>3 DEF InBacklog
  <2>5. WaitingDistinct'
    BY <2>2, <2>3 DEF FdInv, WaitingDistinct, InBacklog
  <2>6. WaitingUnheld' BY <1>3, <2>2, <2>4 DEF FdInv, WaitingUnheld
  <2>7. IdleUnknown' BY <1>3, <2>1, <2>4 DEF FdInv, IdleUnknown, TypeInv, TypeOK
  <2> QED BY <1>2, <2>5, <2>6, <2>7 DEF FdInv
<1>5. CASE ~Connect(c)
  <2>1. UNCHANGED backlog
    BY <1>5 DEF Client, ClientSend, ClientCloses, ResetArrives, ClientLeaves
  <2>2. \A d \in Clients : InBacklog(d)' <=> InBacklog(d) BY <2>1 DEF InBacklog
  <2>3. \A d \in Clients : net'[d] = "idle" =>
          net[d] = "idle" \/ (~Held(d) /\ ~InBacklog(d))
    BY <1>5 DEF Client, ClientSend, ClientCloses, ResetArrives, ClientLeaves,
                TypeInv, TypeOK
  <2>4. WaitingDistinct' /\ WaitingUnheld'
    BY <1>3, <2>1, <2>2 DEF FdInv, WaitingDistinct, WaitingUnheld
  <2>5. IdleUnknown' BY <1>3, <2>2, <2>3 DEF FdInv, IdleUnknown
  <2> QED BY <1>2, <2>4, <2>5 DEF FdInv
<1> QED BY <1>4, <1>5

\* Nobody holds a connection at the start.
LEMMA FdInit == Init => FdInv
BY TypeInit DEF Init, FdInv, WaitingDistinct, WaitingUnheld, IdleUnknown,
                AcceptedUnshared, DeadHoldNothing, ConnectionPrivate, Held,
                InBacklog

\* Every step keeps the connections private.
LEMMA FdStep == FdInv /\ [Next]_vars => FdInv'
<1> SUFFICES ASSUME FdInv, [Next]_vars PROVE FdInv'
  OBVIOUS
<1> TypeInv /\ TypeInv' BY TypeStep DEF FdInv
<1>1. CASE \/ SemWait \/ AcceptFails \/ ForkFails \/ Deliver \/ Post
           \/ HandlerReturns \/ UNCHANGED vars
  <2>1. /\ UNCHANGED <<child, serves, childFds, backlog, net, parentFds>>
        /\ mpc' = "fork" => (mpc = "fork" /\ connfd' = connfd) \/ connfd' = NoConn
        /\ mpc = "close" => mpc' = "close" /\ connfd' = connfd
    BY <1>1 DEF SemWait, AcceptFails, ForkFails, Deliver, Post, HandlerReturns,
                vars, mainVars, childVars, netVars
  <2> QED
    BY <2>1 DEF FdInv, WaitingDistinct, WaitingUnheld, IdleUnknown, Held,
                InBacklog, AcceptedUnshared, DeadHoldNothing, ConnectionPrivate
<1>2. CASE CloseConn
  <2>1. /\ UNCHANGED <<child, serves, childFds, backlog, net, connfd>>
        /\ parentFds' = parentFds \ {connfd} /\ mpc = "close" /\ mpc' = "wait"
    BY <1>2 DEF CloseConn, childVars, netVars
  <2> QED
    BY <2>1 DEF FdInv, WaitingDistinct, WaitingUnheld, IdleUnknown, Held,
                InBacklog, AcceptedUnshared, DeadHoldNothing, ConnectionPrivate
<1>3. CASE Accept BY <1>3, FdAccept
<1>4. ASSUME NEW p \in Pids, Fork(p) PROVE FdInv' BY <1>4, FdFork
<1>5. ASSUME NEW p \in Pids, Reap(p) PROVE FdInv'
  <2>1. /\ UNCHANGED <<serves, childFds, backlog, net, mpc, connfd, parentFds>>
        /\ child[p] = "zombie" /\ child' = [child EXCEPT ![p] = "free"]
    BY <1>5 DEF Reap, netVars
  <2>2. DeadHoldNothing' BY <2>1 DEF FdInv, DeadHoldNothing, TypeInv, TypeOK
  <2>3. \A q \in Pids : child'[q] \in {"serve", "send"} =>
                          child[q] \in {"serve", "send"}
    BY <2>1 DEF TypeInv, TypeOK
  <2> QED BY <2>1, <2>2, <2>3, FdShrinks
<1>6. ASSUME NEW p \in Pids, Child(p) PROVE FdInv' BY <1>6, FdChild
<1>7. ASSUME NEW c \in Clients, Client(c) PROVE FdInv' BY <1>7, FdClient
<1> QED
  BY <1>1, <1>2, <1>3, <1>4, <1>5, <1>6, <1>7 DEF Next, Main, Handler

\* A connection a child serves is open in that child and in no other
\* process but the father on its way to close(): the last close, and so
\* what the client sees, is the child's alone (server.c:95-104).
THEOREM ConnectionsArePrivate == Spec => []ConnectionPrivate
<1>1. FdInv => ConnectionPrivate BY DEF FdInv
<1> QED BY <1>1, FdInit, FdStep, PTL DEF Spec
=============================================================================
