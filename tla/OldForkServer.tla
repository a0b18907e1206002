---------------------------- MODULE OldForkServer ----------------------------
(***************************************************************************)
(* Lab3/3.1/server_tcp_concorrente_OLD.c: the father counts its children   *)
(* in n_children, raised after fork() and lowered by the SIGCHLD handler,  *)
(* and waits for one to end before accept() when there are MAX_CHILDREN.   *)
(*                                                                         *)
(* n_children++ in main is a load and a store, and the handler may run in  *)
(* between: the variable is neither volatile nor of an atomic type.        *)
(* What a child says to its client is left out: receiver() returns when    *)
(* the client quits or closes, and a failed write ends the process, so a   *)
(* child just ends at some time.                                           *)
(***************************************************************************)
EXTENDS Integers, FiniteSets

CONSTANTS Pids,        \* free slots of the process table
          MaxChildren, \* MAX_CHILDREN
          MaxConns     \* connections ever made, a bound of the model

ASSUME OldAssumption == /\ MaxChildren \in Nat \ {0}
                        /\ MaxConns \in Nat \ {0}
                        /\ IsFiniteSet(Pids)

VARIABLES
  n_children, \* the counter
  reg,        \* the value main has loaded to increment it
  mpc,        \* where the father is in its loop, "exited" after it
  hpc,        \* where the SIGCHLD handler is, "off" when it does not run
  sigchld,    \* SIGCHLD is pending (signals do not queue)
  child,      \* the process of each slot: "free", "serve" or "zombie"
  waiting,    \* connections accept() has not returned yet
  arrivals    \* connections made so far

vars == <<n_children, reg, mpc, hpc, sigchld, child, waiting, arrivals>>

Live == {p \in Pids : child[p] = "serve"}
NoZombie == \A p \in Pids : child[p] # "zombie"

Init == /\ n_children = 0 /\ reg = 0
        /\ mpc = "check" /\ hpc = "off" /\ sigchld = FALSE
        /\ child = [p \in Pids |-> "free"]
        /\ waiting = 0 /\ arrivals = 0

-----------------------------------------------------------------------------
(* The father.  It does not run while its handler does, and a pending      *)
(* signal is handled before its next instruction; only a waitpid() in the  *)
(* kernel may still find the child that raised the signal.                 *)

Runs == hpc = "off" /\ ~sigchld

\* Mutant: the test repeated until a child is known to have ended.
WaitpidReturns_While(reaped) ==
  /\ mpc = "waitpid" /\ hpc = "off"
  /\ reaped
  /\ mpc' = "check"
  /\ UNCHANGED <<n_children, reg, hpc, sigchld, waiting, arrivals>>

\* waitpid(-1, &status, 0) returns, with a child or with ECHILD, and main
\* goes on to accept() without looking at n_children again.
WaitpidReturns(reaped) ==
  /\ mpc = "waitpid" /\ hpc = "off"
  /\ reaped
  /\ mpc' = "accept"
  /\ UNCHANGED <<n_children, reg, hpc, sigchld, waiting, arrivals>>

Check ==
  /\ mpc = "check" /\ Runs
  /\ mpc' = IF n_children >= MaxChildren THEN "waitpid" ELSE "accept"
  /\ UNCHANGED <<n_children, reg, hpc, sigchld, child, waiting, arrivals>>

WaitChild(p) ==
  /\ WaitpidReturns(child[p] = "zombie")
  /\ child' = [child EXCEPT ![p] = "free"]

WaitNoChild ==
  /\ WaitpidReturns(\A p \in Pids : child[p] = "free")
  /\ UNCHANGED child

\* Accept() calls accept() again when a signal interrupts it.
Accept ==
  /\ mpc = "accept" /\ Runs
  /\ waiting > 0
  /\ waiting' = waiting - 1
  /\ mpc' = "fork"
  /\ UNCHANGED <<n_children, reg, hpc, sigchld, child, arrivals>>

Fork(p) ==
  /\ mpc = "fork" /\ Runs
  /\ child[p] = "free"
  /\ child' = [child EXCEPT ![p] = "serve"]
  /\ mpc' = "load"
  /\ UNCHANGED <<n_children, reg, hpc, sigchld, waiting, arrivals>>

\* Fork() leaves through err_sys().
ForkFails ==
  /\ mpc = "fork" /\ Runs
  /\ mpc' = "exited"
  /\ UNCHANGED <<n_children, reg, hpc, sigchld, child, waiting, arrivals>>

Load ==
  /\ mpc = "load" /\ Runs
  /\ reg' = n_children
  /\ mpc' = "store"
  /\ UNCHANGED <<n_children, hpc, sigchld, child, waiting, arrivals>>

Store ==
  /\ mpc = "store" /\ Runs
  /\ n_children' = reg + 1
  /\ mpc' = "check"
  /\ UNCHANGED <<reg, hpc, sigchld, child, waiting, arrivals>>

-----------------------------------------------------------------------------
(* sig_chld *)

\* The handler starts and counts one child out, reaped or not.  A waitpid()
\* of main that has begun is interrupted for good (sa_flags is 0); one that
\* has not begun is called when the handler is done.
Deliver ==
  /\ sigchld /\ hpc = "off" /\ mpc # "exited"
  /\ sigchld' = FALSE
  /\ n_children' = n_children - 1
  /\ hpc' = "loop"
  /\ mpc' \in IF mpc = "waitpid" THEN {"waitpid", "accept"} ELSE {mpc}
  /\ UNCHANGED <<reg, child, waiting, arrivals>>

\* Mutant: "if" instead of "while" around waitpid.
Reap_Once(p) ==
  /\ hpc = "loop"
  /\ child[p] = "zombie"
  /\ child' = [child EXCEPT ![p] = "free"]
  /\ n_children' = n_children - 1
  /\ hpc' = "off"
  /\ UNCHANGED <<reg, mpc, sigchld, waiting, arrivals>>

\* The loop reaps a child and counts it out, again.
Reap(p) ==
  /\ hpc = "loop"
  /\ child[p] = "zombie"
  /\ child' = [child EXCEPT ![p] = "free"]
  /\ n_children' = n_children - 1
  /\ UNCHANGED <<reg, mpc, hpc, sigchld, waiting, arrivals>>

\* Mutant: the failed waitpid() that ends the loop counted as well.
HandlerReturns_Counts ==
  /\ hpc = "loop" /\ NoZombie
  /\ hpc' = "off"
  /\ n_children' = n_children - 1
  /\ UNCHANGED <<reg, mpc, sigchld, child, waiting, arrivals>>

HandlerReturns ==
  /\ hpc = "loop" /\ NoZombie
  /\ hpc' = "off"
  /\ UNCHANGED <<n_children, reg, mpc, sigchld, child, waiting, arrivals>>

-----------------------------------------------------------------------------
(* The children, the clients, and init for the children of a dead father. *)

ChildEnds(p) ==
  /\ child[p] = "serve"
  /\ child' = [child EXCEPT ![p] = "zombie"]
  /\ sigchld' = (sigchld \/ mpc # "exited")
  /\ UNCHANGED <<n_children, reg, mpc, hpc, waiting, arrivals>>

Connect ==
  /\ arrivals < MaxConns
  /\ arrivals' = arrivals + 1
  /\ waiting' = waiting + 1
  /\ UNCHANGED <<n_children, reg, mpc, hpc, sigchld, child>>

InitReaps(p) ==
  /\ mpc = "exited" /\ child[p] = "zombie"
  /\ child' = [child EXCEPT ![p] = "free"]
  /\ UNCHANGED <<n_children, reg, mpc, hpc, sigchld, waiting, arrivals>>

-----------------------------------------------------------------------------
Main == Check \/ WaitNoChild \/ Accept \/ ForkFails \/ Load \/ Store
        \/ \E p \in Pids : WaitChild(p) \/ Fork(p)

Handler == Deliver \/ HandlerReturns \/ \E p \in Pids : Reap(p)

Next == Main \/ Handler \/ Connect
        \/ \E p \in Pids : ChildEnds(p) \/ InitReaps(p)

Spec == Init /\ [][Next]_vars

(***************************************************************************)
(* The father, the handler and init run when they can.  Every client ends  *)
(* its session some day: this one is an assumption on the clients.         *)
(***************************************************************************)
FairSpec == /\ Spec
            /\ WF_vars(Main) /\ WF_vars(Handler)
            /\ \A p \in Pids : WF_vars(InitReaps(p)) /\ WF_vars(ChildEnds(p))
-----------------------------------------------------------------------------
(* Properties. *)

\* The count stays within what two decrements and one increment for each
\* connection allow, the increment of the last one being still to come.
TypeOK == /\ n_children \in -(MaxConns + 1)..MaxConns
          /\ reg \in -(MaxConns + 1)..MaxConns
          /\ mpc \in {"check", "waitpid", "accept", "fork", "load", "store",
                      "exited"}
          /\ hpc \in {"off", "loop"}
          /\ sigchld \in BOOLEAN
          /\ child \in [Pids -> {"free", "serve", "zombie"}]
          /\ waiting \in Nat /\ arrivals \in 0..MaxConns

\* Every dead child is reaped, by the handler or by main, whichever of the
\* two waitpid() calls gets to it and however many signals were merged.
ChildReaped == \A p \in Pids : child[p] = "zombie" ~> child[p] = "free"

\* A wrong count may make main wait for a child that is not there, but never
\* for ever: the waitpid() before accept() is made once and fails with
\* ECHILD when there is no child (lines 185-190).
AcceptResumes == mpc = "waitpid" ~> mpc = "accept"

\* "maximum number of children reached: NO accept now" (line 186): at most
\* MAX_CHILDREN children serve at a time.
LimitHolds == Cardinality(Live) <= MaxChildren
=============================================================================
