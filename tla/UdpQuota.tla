------------------------------ MODULE UdpQuota ------------------------------
(***************************************************************************)
(* Lab2/2.2/server.c: a UDP server that echoes datagrams and keeps, for    *)
(* the first MAXCLIENTS addresses, how many it has echoed: from the fourth *)
(* on a datagram is dropped.  The clients and the network are the          *)
(* environment: a client (Lab2/2.2/client.c) sends one datagram each time  *)
(* it is run; the network loses, duplicates and reorders.                  *)
(*                                                                         *)
(* Datagrams of one address are alike for the server, which compares       *)
(* addresses and not ports, so those in flight are only counted.           *)
(***************************************************************************)
EXTENDS Integers, Sequences

CONSTANTS Addrs,      \* the clients' IP addresses
          MaxClients, \* MAXCLIENTS
          Quota,      \* 3 in the code
          MaxPackets  \* datagrams per address, a bound of the model

ASSUME QuotaAssumption == /\ MaxClients \in Nat
                          /\ Quota \in Nat \ {0}
                          /\ MaxPackets \in Nat

VARIABLES
  clients,  \* clients[0 .. tot_clients-1], the addresses known so far
  npck,     \* npck[0 .. tot_clients-1], datagrams echoed for each
  inflight, \* datagrams on their way to the server, per address
  received, \* datagrams the server has received, per address
  answered  \* datagrams the server has echoed, per address

vars == <<clients, npck, inflight, received, answered>>

tot_clients == Len(clients)
Known(a) == \E i \in DOMAIN clients : clients[i] = a

Init ==
  /\ clients = <<>>
  /\ npck = <<>>
  /\ inflight = [a \in Addrs |-> 0]
  /\ received = [a \in Addrs |-> 0]
  /\ answered = [a \in Addrs |-> 0]

-----------------------------------------------------------------------------
(* prot_text: one datagram received, looked up, counted and echoed or not. *)

\* Mutant: the last address known is not compared.
Found_AllButLast(a, i) ==
  /\ i \in DOMAIN clients \ {tot_clients} /\ clients[i] = a
  /\ \A j \in DOMAIN clients : j < i => clients[j] # a

\* The loop over the addresses stops at the first that is the source's.
Found(a, i) ==
  /\ i \in DOMAIN clients /\ clients[i] = a
  /\ \A j \in DOMAIN clients : j < i => clients[j] # a

Echo(a) == answered' = [answered EXCEPT ![a] = @ + 1]

\* Mutant: the first datagram of an address is not counted.
Add_Zero(a) ==
  /\ IF tot_clients < MaxClients
       THEN clients' = Append(clients, a) /\ npck' = Append(npck, 0)
       ELSE UNCHANGED <<clients, npck>>
  /\ Echo(a)

\* An address not found is added if there is room, and echoed in any case.
Add(a) ==
  /\ IF tot_clients < MaxClients
       THEN clients' = Append(clients, a) /\ npck' = Append(npck, 1)
       ELSE UNCHANGED <<clients, npck>>
  /\ Echo(a)

\* Mutant: counts down.
Count_Down(a, i) ==
  /\ UNCHANGED clients
  /\ IF npck[i] >= Quota
       THEN UNCHANGED <<npck, answered>>
       ELSE npck' = [npck EXCEPT ![i] = @ - 1] /\ Echo(a)

\* An address found is echoed Quota times in all.
Count(a, i) ==
  /\ UNCHANGED clients
  /\ IF npck[i] >= Quota
       THEN UNCHANGED <<npck, answered>>
       ELSE npck' = [npck EXCEPT ![i] = @ + 1] /\ Echo(a)

Receive(a) ==
  /\ inflight[a] > 0
  /\ inflight' = [inflight EXCEPT ![a] = @ - 1]
  /\ received' = [received EXCEPT ![a] = @ + 1]
  /\ \/ (\A i \in DOMAIN clients : ~Found(a, i)) /\ Add(a)
     \/ \E i \in DOMAIN clients : Found(a, i) /\ Count(a, i)

-----------------------------------------------------------------------------
(* The clients and the network. *)

\* A client sends a datagram, or the network makes a second one of it.
Arrive(a) ==
  /\ received[a] + inflight[a] < MaxPackets
  /\ inflight' = [inflight EXCEPT ![a] = @ + 1]
  /\ UNCHANGED <<clients, npck, received, answered>>

Lose(a) ==
  /\ inflight[a] > 0
  /\ inflight' = [inflight EXCEPT ![a] = @ - 1]
  /\ UNCHANGED <<clients, npck, received, answered>>

Next == \E a \in Addrs : Receive(a) \/ Arrive(a) \/ Lose(a)

Spec == Init /\ [][Next]_vars
-----------------------------------------------------------------------------
(* Properties. *)

\* The counts of prot_text are never negative.
TypeOK == /\ clients \in Seq(Addrs)
          /\ npck \in Seq(Nat)
          /\ inflight \in [Addrs -> Nat]
          /\ received \in [Addrs -> Nat]
          /\ answered \in [Addrs -> Nat]

\* The two arrays stay in step, within their size, and an address has one
\* entry: the lookup never misses an address it has added (lines 64-84).
TableSound ==
  /\ Len(npck) = tot_clients /\ tot_clients <= MaxClients
  /\ \A i, j \in DOMAIN clients : clients[i] = clients[j] => i = j

Least(m, n) == IF m < n THEN m ELSE n

\* A known address is echoed for its first three datagrams and for no other,
\* whatever arrived from the rest in between; an unknown one means that the
\* table was full (lines 74-103).
QuotaExact ==
  \A a \in Addrs :
    IF Known(a) THEN answered[a] = Least(received[a], Quota)
    ELSE received[a] > 0 => tot_clients = MaxClients
=============================================================================
