-------------------------- MODULE OldForkServerProofs --------------------------
(***************************************************************************)
(* Type correctness of the counting server, for every limit and number of  *)
(* connections: above all how far n_children can drift.  A child is        *)
(* counted in once and counted out at most twice, once for its signal and  *)
(* once when the handler reaps it; an increment that overwrites a          *)
(* decrement only raises the count.                                        *)
(***************************************************************************)
EXTENDS OldForkServer, FiniteSetTheorems, TLAPS

Zombies == {p \in Pids : child[p] = "zombie"}

Forking == IF mpc \in {"fork", "exited"} THEN 1 ELSE 0
Adding == IF mpc \in {"load", "store"} THEN 1 ELSE 0
Pending == IF sigchld THEN 1 ELSE 0

Forks == arrivals - waiting - Forking
Stores == Forks - Adding

\* Decrements made so far, at most: one for each child that has ended but the
\* one whose signal is pending, and one for each that is no zombie any more.
Decrements == 2 * Forks - 2 * Cardinality(Live) - Cardinality(Zombies) - Pending

Types == /\ n_children \in Int /\ reg \in -(MaxConns + 1)..MaxConns
         /\ mpc \in {"check", "waitpid", "accept", "fork", "load", "store", "exited"}
         /\ hpc \in {"off", "loop"}
         /\ sigchld \in BOOLEAN
         /\ child \in [Pids -> {"free", "serve", "zombie"}]
         /\ waiting \in Nat /\ arrivals \in 0..MaxConns

Counted == /\ Forks >= Adding
           /\ Stores - Decrements <= n_children /\ n_children <= Stores
           /\ mpc = "store" => n_children <= reg /\ reg <= Stores

Inv == Types /\ Counted

-----------------------------------------------------------------------------
(* How a step of one process changes the numbers of living and dead children. *)

\* The sets of children are finite.
LEMMA Numbers ==
  /\ IsFiniteSet(Live) /\ Cardinality(Live) \in Nat
  /\ IsFiniteSet(Zombies) /\ Cardinality(Zombies) \in Nat
<1>1. Live \subseteq Pids /\ Zombies \subseteq Pids BY DEF Live, Zombies
<1> QED BY <1>1, OldAssumption, FS_Subset, FS_CardinalityType

\* A fork is one more living child.
LEMMA Forked ==
  ASSUME Types, NEW p \in Pids, child[p] = "free",
         child' = [child EXCEPT ![p] = "serve"]
  PROVE  /\ Cardinality(Live)' = Cardinality(Live) + 1
         /\ Cardinality(Zombies)' = Cardinality(Zombies)
<1>1. p \notin Live /\ Live' = Live \cup {p} BY DEF Types, Live
<1>2. Zombies' = Zombies BY DEF Types, Zombies
<1> QED BY <1>1, <1>2, Numbers, FS_AddElement

\* A child that ends is a zombie.
LEMMA Ended ==
  ASSUME Types, NEW p \in Pids, child[p] = "serve",
         child' = [child EXCEPT ![p] = "zombie"]
  PROVE  /\ Cardinality(Live)' = Cardinality(Live) - 1
         /\ Cardinality(Zombies)' = Cardinality(Zombies) + 1
<1>1. p \in Live /\ Live' = Live \ {p} BY DEF Types, Live
<1>2. p \notin Zombies /\ Zombies' = Zombies \cup {p} BY DEF Types, Zombies
<1> QED BY <1>1, <1>2, Numbers, FS_AddElement, FS_RemoveElement

\* Who is reaped is a zombie no more.
LEMMA Reaped ==
  ASSUME Types, NEW p \in Pids, child[p] = "zombie",
         child' = [child EXCEPT ![p] = "free"]
  PROVE  /\ Cardinality(Live)' = Cardinality(Live)
         /\ Cardinality(Zombies)' = Cardinality(Zombies) - 1
<1>1. Live' = Live BY DEF Types, Live
<1>2. p \in Zombies /\ Zombies' = Zombies \ {p} BY DEF Types, Zombies
<1> QED BY <1>1, <1>2, Numbers, FS_RemoveElement

\* The others change neither number.
LEMMA Unchanged ==
  ASSUME UNCHANGED child
  PROVE  /\ Cardinality(Live)' = Cardinality(Live)
         /\ Cardinality(Zombies)' = Cardinality(Zombies)
<1>1. Live' = Live /\ Zombies' = Zombies BY DEF Live, Zombies
<1> QED BY <1>1

-----------------------------------------------------------------------------
(* The invariant. *)

\* At the start nothing is counted.
LEMMA InitInv == Init => Inv
<1> SUFFICES ASSUME Init PROVE Inv
  OBVIOUS
<1>1. Live = {} /\ Zombies = {} BY DEF Init, Live, Zombies
<1>2. Cardinality(Live) = 0 /\ Cardinality(Zombies) = 0 BY <1>1, FS_EmptySet
<1>3. reg \in -(MaxConns + 1)..MaxConns /\ arrivals \in 0..MaxConns
  BY OldAssumption DEF Init
<1>5. sigchld \in BOOLEAN BY Zenon DEF Init
<1>6. Types BY <1>3, <1>5 DEF Init, Types
<1>4. Counted
  BY <1>2 DEF Init, Counted, Forks, Stores, Decrements, Forking, Adding, Pending
<1> QED BY <1>4, <1>6 DEF Inv

\* The count is within the type when the invariant holds.
LEMMA InvTypeOK == Inv => TypeOK
<1> SUFFICES ASSUME Inv PROVE TypeOK
  OBVIOUS
<1>1. /\ Cardinality(Live) \in Nat /\ Cardinality(Zombies) \in Nat
      /\ MaxConns \in Nat \ {0} /\ waiting \in Nat /\ arrivals \in 0..MaxConns
      /\ n_children \in Int
  BY Numbers, OldAssumption DEF Inv, Types
<1>2. Forking \in {0, 1} /\ Adding \in {0, 1} /\ Pending \in {0, 1}
  BY DEF Forking, Adding, Pending
<1>3. Forks \in Int /\ Forks <= MaxConns BY <1>1, <1>2 DEF Forks
<1>4. Stores >= Forks - 1 /\ Stores <= Forks /\ Stores \in Int
  BY <1>2, <1>3 DEF Stores
<1>5. Decrements <= 2 * Forks /\ Decrements \in Int
  BY <1>1, <1>2, <1>3 DEF Decrements
<1>6. n_children \in -(MaxConns + 1)..MaxConns
  BY <1>1, <1>3, <1>4, <1>5 DEF Inv, Counted
<1> QED BY <1>6 DEF Inv, Types, TypeOK

\* The father.
LEMMA MainInv == ASSUME Inv, Main PROVE Inv'
<1> USE OldAssumption DEF Inv
<1>0. n_children \in -(MaxConns + 1)..MaxConns BY InvTypeOK DEF TypeOK
<1>1. CASE Check \/ WaitNoChild
  <2>1. Types' BY <1>1 DEF Types, Check, WaitNoChild, WaitpidReturns
  <2>2. UNCHANGED <<n_children, reg, sigchld, child, waiting, arrivals>>
    BY <1>1 DEF Check, WaitNoChild, WaitpidReturns
  <2>3. mpc \in {"check", "waitpid"} /\ mpc' \in {"waitpid", "accept"}
    BY <1>1 DEF Check, WaitNoChild, WaitpidReturns
  <2>4. Counted'
    BY <2>2, <2>3, Unchanged
       DEF Counted, Forks, Stores, Decrements, Forking, Adding, Pending
  <2> QED BY <2>1, <2>4
<1>2. CASE Accept
  <2>1. Types' BY <1>2 DEF Types, Accept
  <2>2. Counted'
    BY <1>2, Unchanged
       DEF Types, Accept, Counted, Forks, Stores, Decrements, Forking, Adding, Pending
  <2> QED BY <2>1, <2>2
<1>3. CASE ForkFails
  <2>1. Types' BY <1>3 DEF Types, ForkFails
  <2>2. Counted'
    BY <1>3, Unchanged
       DEF ForkFails, Counted, Forks, Stores, Decrements, Forking, Adding, Pending
  <2> QED BY <2>1, <2>2
<1>4. CASE Load
  <2>1. Types' BY <1>0, <1>4 DEF Types, Load
  <2>2. Counted'
    BY <1>4, Unchanged
       DEF Types, Load, Counted, Forks, Stores, Decrements, Forking, Adding, Pending
  <2> QED BY <2>1, <2>2
<1>5. CASE Store
  <2>1. Types' BY <1>5 DEF Types, Store
  <2>2. Counted'
    BY <1>5, Unchanged, Numbers
       DEF Types, Store, Counted, Forks, Stores, Decrements, Forking, Adding, Pending
  <2> QED BY <2>1, <2>2
<1>6. ASSUME NEW p \in Pids, WaitChild(p) PROVE Inv'
  <2>1. Types' BY <1>6 DEF Types, WaitChild, WaitpidReturns
  <2>2. /\ Cardinality(Live)' = Cardinality(Live)
        /\ Cardinality(Zombies)' = Cardinality(Zombies) - 1
    BY <1>6, Reaped DEF WaitChild, WaitpidReturns
  <2>3. Counted'
    BY <1>6, <2>2, Numbers
       DEF Types, WaitChild, WaitpidReturns, Counted, Forks, Stores, Decrements, Forking, Adding, Pending
  <2> QED BY <2>1, <2>3
<1>7. ASSUME NEW p \in Pids, Fork(p) PROVE Inv'
  <2>1. Types' BY <1>7 DEF Types, Fork
  <2>2. /\ Cardinality(Live)' = Cardinality(Live) + 1
        /\ Cardinality(Zombies)' = Cardinality(Zombies)
    BY <1>7, Forked DEF Fork
  <2>3. Counted'
    BY <1>7, <2>2, Numbers
       DEF Types, Fork, Counted, Forks, Stores, Decrements, Forking, Adding, Pending
  <2> QED BY <2>1, <2>3
<1> QED BY <1>1, <1>2, <1>3, <1>4, <1>5, <1>6, <1>7 DEF Main

\* The handler: what it takes from the count, Decrements takes too.
LEMMA HandlerInv == ASSUME Inv, Handler PROVE Inv'
<1> USE DEF Inv
<1>1. CASE Deliver
  <2>1. Types'
    <3>1. sigchld' \in BOOLEAN BY <1>1, Zenon DEF Deliver
    <3>2. mpc' \in {mpc, "waitpid", "accept"} BY <1>1 DEF Deliver
    <3> QED BY <1>1, <3>1, <3>2 DEF Types, Deliver
  <2>2. /\ UNCHANGED <<reg, child, waiting, arrivals>>
        /\ n_children' = n_children - 1 /\ Pending = 1 /\ Pending' = 0
    BY <1>1 DEF Deliver, Pending
  <2>3. Forking' = Forking /\ Adding' = Adding /\ (mpc' = "store" => mpc = "store")
    BY <1>1 DEF Deliver, Forking, Adding
  <2>4. Counted'
    BY <2>2, <2>3, Unchanged, Numbers
       DEF Types, Counted, Forks, Stores, Decrements, Forking, Adding
  <2> QED BY <2>1, <2>4
<1>2. CASE HandlerReturns
  <2>1. Types' BY <1>2 DEF Types, HandlerReturns
  <2>2. Counted'
    BY <1>2, Unchanged
       DEF HandlerReturns, Counted, Forks, Stores, Decrements, Forking, Adding, Pending
  <2> QED BY <2>1, <2>2
<1>3. ASSUME NEW p \in Pids, Reap(p) PROVE Inv'
  <2>1. Types' BY <1>3 DEF Types, Reap
  <2>2. /\ Cardinality(Live)' = Cardinality(Live)
        /\ Cardinality(Zombies)' = Cardinality(Zombies) - 1
    BY <1>3, Reaped DEF Reap
  <2>3. Counted'
    BY <1>3, <2>2, Numbers
       DEF Types, Reap, Counted, Forks, Stores, Decrements, Forking, Adding, Pending
  <2> QED BY <2>1, <2>3
<1> QED BY <1>1, <1>2, <1>3 DEF Handler

\* The children, the clients and init.
LEMMA OthersInv ==
  ASSUME Inv, Connect \/ \E p \in Pids : ChildEnds(p) \/ InitReaps(p)
  PROVE  Inv'
<1> USE OldAssumption DEF Inv
<1>1. CASE Connect
  <2>1. Types' BY <1>1 DEF Types, Connect
  <2>2. Counted'
    BY <1>1, Unchanged
       DEF Types, Connect, Counted, Forks, Stores, Decrements, Forking, Adding, Pending
  <2> QED BY <2>1, <2>2
<1>2. ASSUME NEW p \in Pids, ChildEnds(p) PROVE Inv'
  <2>1. Types' BY <1>2 DEF Types, ChildEnds
  <2>2. /\ Cardinality(Live)' = Cardinality(Live) - 1
        /\ Cardinality(Zombies)' = Cardinality(Zombies) + 1
    BY <1>2, Ended DEF ChildEnds
  <2>3. Counted'
    BY <1>2, <2>2, Numbers
       DEF Types, ChildEnds, Counted, Forks, Stores, Decrements, Forking, Adding, Pending
  <2> QED BY <2>1, <2>3
<1>3. ASSUME NEW p \in Pids, InitReaps(p) PROVE Inv'
  <2>1. Types' BY <1>3 DEF Types, InitReaps
  <2>2. /\ Cardinality(Live)' = Cardinality(Live)
        /\ Cardinality(Zombies)' = Cardinality(Zombies) - 1
    BY <1>3, Reaped DEF InitReaps
  <2>3. Counted'
    BY <1>3, <2>2, Numbers
       DEF Types, InitReaps, Counted, Forks, Stores, Decrements, Forking, Adding, Pending
  <2> QED BY <2>1, <2>3
<1> QED BY <1>1, <1>2, <1>3

\* A step of nobody keeps the invariant.
LEMMA StutterInv == ASSUME Inv, UNCHANGED vars PROVE Inv'
BY DEF vars, Inv, Types, Counted, Forks, Stores, Decrements, Forking, Adding,
       Pending, Live, Zombies

\* Every step keeps the invariant.
LEMMA Inductive == Inv /\ [Next]_vars => Inv'
<1> SUFFICES ASSUME Inv, [Next]_vars PROVE Inv'
  OBVIOUS
<1> QED BY MainInv, HandlerInv, OthersInv, StutterInv DEF Next

-----------------------------------------------------------------------------
\* n_children stays between what two decrements and one increment for each
\* connection can make of it, however the handler runs between the load and
\* the store of n_children++ (lines 53, 59 and 209).
THEOREM TypeCorrect == Spec => []TypeOK
<1> QED BY InitInv, Inductive, InvTypeOK, PTL DEF Spec
=============================================================================
