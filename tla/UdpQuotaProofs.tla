--------------------------- MODULE UdpQuotaProofs ---------------------------
(***************************************************************************)
(* QuotaExact for every number of addresses, every MAXCLIENTS and every    *)
(* quota.  It is not inductive alone: the count the server compares with   *)
(* the quota must be the number of echoes, the entry it finds the only one *)
(* of the address, and an address from which nothing has come must not     *)
(* have been answered.                                                     *)
(***************************************************************************)
EXTENDS UdpQuota, TLAPS

CountsEchoes == \A i \in DOMAIN clients : npck[i] = answered[clients[i]]

NothingForNothing == \A a \in Addrs : received[a] = 0 => answered[a] = 0

Inv == TypeOK /\ TableSound /\ CountsEchoes /\ NothingForNothing /\ QuotaExact

\* The loop finds an address exactly when the table has it, at its place.
LEMMA LookupFinds ==
  ASSUME TypeOK, TableSound, NEW a \in Addrs
  PROVE  /\ \A i \in DOMAIN clients : Found(a, i) <=> clients[i] = a
         /\ Known(a) <=> \E i \in DOMAIN clients : Found(a, i)
<1>1. \A i \in DOMAIN clients : clients[i] = a =>
        \A j \in DOMAIN clients : j < i => clients[j] # a
  BY DEF TypeOK, TableSound
<1> QED BY <1>1 DEF Found, Known

\* Nobody is in the table at the start.
LEMMA Initially == Init => Inv
BY QuotaAssumption
   DEF Init, Inv, TypeOK, TableSound, CountsEchoes, NothingForNothing,
       QuotaExact, Known, tot_clients

\* A step that receives nothing.
LEMMA Elsewhere ==
  ASSUME Inv, TypeOK', UNCHANGED <<clients, npck, received, answered>>
  PROVE  Inv'
BY DEF Inv, TableSound, CountsEchoes, NothingForNothing, QuotaExact, Known,
       tot_clients

\* What every datagram received does to the counters of the addresses.
LEMMA Received ==
  ASSUME Inv, NEW a \in Addrs, Receive(a)
  PROVE  /\ received' \in [Addrs -> Nat] /\ inflight' \in [Addrs -> Nat]
         /\ received'[a] = received[a] + 1 /\ received'[a] > 0
         /\ \A b \in Addrs \ {a} : received'[b] = received[b]
<1>1. /\ received' = [received EXCEPT ![a] = received[a] + 1]
      /\ inflight' = [inflight EXCEPT ![a] = inflight[a] - 1] /\ inflight[a] > 0
  BY DEF Receive
<1>2. received \in [Addrs -> Nat] /\ inflight \in [Addrs -> Nat]
  BY DEF Inv, TypeOK
<1> QED BY <1>1, <1>2

\* An answer is one more for its client and none for the others.
LEMMA Echoed ==
  ASSUME Inv, NEW a \in Addrs, Echo(a)
  PROVE  /\ answered' \in [Addrs -> Nat] /\ answered'[a] = answered[a] + 1
         /\ \A b \in Addrs \ {a} : answered'[b] = answered[b]
<1>1. answered' = [answered EXCEPT ![a] = answered[a] + 1] BY DEF Echo
<1>2. answered \in [Addrs -> Nat] BY DEF Inv, TypeOK
<1> QED BY <1>1, <1>2

\* Nothing is owed to an address not heard from, whatever is done for another.
LEMMA StillNothing ==
  ASSUME Inv, NEW a \in Addrs, Receive(a),
         \A b \in Addrs \ {a} : answered'[b] = answered[b]
  PROVE  NothingForNothing'
<1> SUFFICES ASSUME NEW b \in Addrs, received'[b] = 0 PROVE answered'[b] = 0
  BY DEF NothingForNothing
<1>1. b # a /\ received[b] = 0 BY Received
<1> QED BY <1>1 DEF Inv, NothingForNothing

\* An unknown address, and room in the table.
LEMMA ReceiveNew ==
  ASSUME Inv, NEW a \in Addrs, Receive(a), ~Known(a), tot_clients < MaxClients,
         Add(a)
  PROVE  Inv'
<1>1. /\ clients' = Append(clients, a) /\ npck' = Append(npck, 1) /\ Echo(a)
  BY DEF Add
<1>2. /\ clients \in Seq(Addrs) /\ npck \in Seq(Nat) /\ Len(npck) = Len(clients)
      /\ Len(clients) < MaxClients
  BY DEF Inv, TypeOK, TableSound, tot_clients
<1>3. /\ clients' \in Seq(Addrs) /\ npck' \in Seq(Nat)
      /\ Len(clients') = Len(clients) + 1 /\ Len(npck') = Len(clients')
      /\ DOMAIN clients' = 1..(Len(clients) + 1) /\ DOMAIN clients = 1..Len(clients)
      /\ clients'[Len(clients) + 1] = a /\ npck'[Len(clients) + 1] = 1
      /\ \A i \in DOMAIN clients : clients'[i] = clients[i] /\ npck'[i] = npck[i]
  BY <1>1, <1>2
<1>4. \A i \in DOMAIN clients : clients[i] # a /\ clients[i] \in Addrs
  BY <1>2 DEF Known
<1>5. received[a] = 0 /\ answered[a] = 0
  <2>1. ~(received[a] > 0)
    <3>1. MaxClients \in Nat /\ tot_clients # MaxClients
      BY <1>2, QuotaAssumption DEF tot_clients
    <3>2. IF Known(a) THEN answered[a] = Least(received[a], Quota)
          ELSE received[a] > 0 => tot_clients = MaxClients
      BY DEF Inv, QuotaExact
    <3> QED BY <3>1, <3>2
  <2>2. received[a] \in Nat BY DEF Inv, TypeOK
  <2>3. received[a] = 0 BY <2>1, <2>2
  <2> QED BY <2>3 DEF Inv, NothingForNothing
<1>6. /\ answered' \in [Addrs -> Nat] /\ answered'[a] = 1 /\ received'[a] = 1
      /\ \A b \in Addrs \ {a} : answered'[b] = answered[b] /\ received'[b] = received[b]
  BY <1>1, <1>5, Echoed, Received
<1>7. TypeOK' BY <1>3, <1>6, Received DEF TypeOK
<1>8. TableSound'
  <2>1. \A i, j \in DOMAIN clients : clients[i] = clients[j] => i = j
    BY DEF Inv, TableSound
  <2>2. \A i, j \in DOMAIN clients' : clients'[i] = clients'[j] => i = j
    <3> SUFFICES ASSUME NEW i \in DOMAIN clients', NEW j \in DOMAIN clients',
                        clients'[i] = clients'[j]
                 PROVE  i = j
      OBVIOUS
    <3>1. \A k \in DOMAIN clients' : k \in DOMAIN clients \/ k = Len(clients) + 1
      BY <1>2, <1>3
    <3>2. CASE i \in DOMAIN clients /\ j \in DOMAIN clients
      <4>1. clients[i] = clients[j] BY <3>2, <1>3
      <4> QED BY <3>2, <4>1, <2>1
    <3>3. CASE i \in DOMAIN clients /\ j = Len(clients) + 1
      BY <3>3, <1>3, <1>4
    <3>4. CASE i = Len(clients) + 1 /\ j \in DOMAIN clients
      BY <3>4, <1>3, <1>4
    <3> QED BY <3>1, <3>2, <3>3, <3>4
  <2>3. Len(npck') = Len(clients') /\ Len(clients') <= MaxClients
    BY <1>2, <1>3, QuotaAssumption
  <2> QED BY <2>2, <2>3 DEF TableSound, tot_clients
<1>9. CountsEchoes'
  <2> SUFFICES ASSUME NEW i \in DOMAIN clients'
               PROVE  npck'[i] = answered'[clients'[i]]
    BY DEF CountsEchoes
  <2>1. CASE i = Len(clients) + 1 BY <2>1, <1>3, <1>6
  <2>2. CASE i \in DOMAIN clients
    <3>1. npck[i] = answered[clients[i]] BY <2>2 DEF Inv, CountsEchoes
    <3> QED BY <2>2, <3>1, <1>3, <1>4, <1>6
  <2> QED BY <2>1, <2>2, <1>2, <1>3
<1>10. Known(a)' /\ \A b \in Addrs \ {a} : Known(b)' <=> Known(b)
  <2>1. Len(clients) + 1 \in DOMAIN clients' BY <1>2, <1>3
  <2>2. \A i \in DOMAIN clients' : i \in DOMAIN clients \/ i = Len(clients) + 1
    BY <1>2, <1>3
  <2>3. DOMAIN clients \subseteq DOMAIN clients' BY <1>2, <1>3
  <2> QED BY <1>3, <2>1, <2>2, <2>3 DEF Known
<1>11. QuotaExact'
  <2>1. answered'[a] = Least(received'[a], Quota)
    BY <1>6, QuotaAssumption DEF Least
  <2>2. ASSUME NEW b \in Addrs \ {a}
        PROVE  IF Known(b)' THEN answered'[b] = Least(received'[b], Quota)
               ELSE received'[b] > 0 => tot_clients' = MaxClients
    <3>1. IF Known(b) THEN answered[b] = Least(received[b], Quota)
          ELSE received[b] > 0 => tot_clients = MaxClients
      BY DEF Inv, QuotaExact
    <3>2. MaxClients \in Nat /\ tot_clients # MaxClients
      BY <1>2, QuotaAssumption DEF tot_clients
    <3> QED BY <3>1, <3>2, <1>6, <1>10
  <2> QED BY <1>10, <2>1, <2>2 DEF QuotaExact, Least
<1>12. NothingForNothing' BY <1>6, StillNothing
<1> QED BY <1>7, <1>8, <1>9, <1>11, <1>12 DEF Inv

\* An unknown address, and a full table.
LEMMA ReceiveFull ==
  ASSUME Inv, NEW a \in Addrs, Receive(a), ~Known(a), ~(tot_clients < MaxClients),
         Add(a)
  PROVE  Inv'
<1>1. UNCHANGED <<clients, npck>> /\ Echo(a) BY DEF Add
<1>2. tot_clients = MaxClients
  BY QuotaAssumption DEF Inv, TableSound, TypeOK, tot_clients
<1>3. \A i \in DOMAIN clients : clients[i] # a /\ clients[i] \in Addrs
  BY DEF Known, Inv, TypeOK
<1>4. \A b \in Addrs : Known(b)' <=> Known(b) BY <1>1 DEF Known
<1>5. TypeOK' BY <1>1, Echoed, Received DEF Inv, TypeOK
<1>6. TableSound' BY <1>1 DEF Inv, TableSound, tot_clients
<1>7. CountsEchoes'
  <2> SUFFICES ASSUME NEW i \in DOMAIN clients
               PROVE  npck[i] = answered'[clients[i]]
    BY <1>1 DEF CountsEchoes
  <2>1. npck[i] = answered[clients[i]] BY DEF Inv, CountsEchoes
  <2> QED BY <2>1, <1>1, <1>3, Echoed
<1>8. QuotaExact'
  <2> SUFFICES ASSUME NEW b \in Addrs
               PROVE  IF Known(b)' THEN answered'[b] = Least(received'[b], Quota)
                      ELSE received'[b] > 0 => tot_clients' = MaxClients
    BY DEF QuotaExact, Least
  <2>1. tot_clients' = MaxClients BY <1>1, <1>2 DEF tot_clients
  <2>2. Known(b) => b # a /\ answered[b] = Least(received[b], Quota)
    BY DEF Inv, QuotaExact
  <2>3. b # a => answered'[b] = answered[b] /\ received'[b] = received[b]
    BY <1>1, Echoed, Received
  <2> QED BY <1>4, <2>1, <2>2, <2>3
<1>9. NothingForNothing' BY <1>1, Echoed, StillNothing
<1> QED BY <1>5, <1>6, <1>7, <1>8, <1>9 DEF Inv

\* A known address: echoed and counted below the quota, dropped at it.
LEMMA ReceiveKnown ==
  ASSUME Inv, NEW a \in Addrs, Receive(a), NEW k \in DOMAIN clients,
         clients[k] = a, Count(a, k)
  PROVE  Inv'
<1>1. UNCHANGED clients BY DEF Count
<1>2. /\ npck \in Seq(Nat) /\ DOMAIN clients = 1..Len(clients)
      /\ DOMAIN npck = DOMAIN clients
      /\ answered \in [Addrs -> Nat] /\ received \in [Addrs -> Nat]
      /\ \A i \in DOMAIN clients : clients[i] \in Addrs /\ (clients[i] = a => i = k)
  BY DEF Inv, TypeOK, TableSound, tot_clients
<1>3. Known(a) /\ answered[a] = Least(received[a], Quota) /\ npck[k] = answered[a]
  BY DEF Known, Inv, QuotaExact, CountsEchoes
<1>4. \A b \in Addrs : Known(b)' <=> Known(b) BY <1>1 DEF Known
<1>5. /\ answered' \in [Addrs -> Nat] /\ npck' \in Seq(Nat)
      /\ Len(npck') = Len(npck)
      /\ npck'[k] = answered'[a]
      /\ answered'[a] = Least(received'[a], Quota)
      /\ \A i \in DOMAIN clients \ {k} : npck'[i] = npck[i]
      /\ \A b \in Addrs \ {a} : answered'[b] = answered[b]
  <2>1. CASE npck[k] >= Quota
    <3>1. UNCHANGED <<npck, answered>> BY <2>1 DEF Count
    <3>2. answered'[a] = Least(received'[a], Quota)
      BY <2>1, <3>1, <1>2, <1>3, Received, QuotaAssumption DEF Least
    <3> QED BY <3>1, <3>2, <1>2, <1>3
  <2>2. CASE ~(npck[k] >= Quota)
    <3>1. npck' = [npck EXCEPT ![k] = npck[k] + 1] /\ Echo(a) BY <2>2 DEF Count
    <3>2. /\ npck' \in Seq(Nat) /\ Len(npck') = Len(npck) /\ npck'[k] = npck[k] + 1
          /\ \A i \in DOMAIN clients \ {k} : npck'[i] = npck[i]
      BY <3>1, <1>2
    <3>3. answered'[a] = Least(received'[a], Quota)
      BY <2>2, <3>1, <1>2, <1>3, Echoed, Received, QuotaAssumption DEF Least
    <3> QED BY <3>1, <3>2, <3>3, <1>3, Echoed
  <2> QED BY <2>1, <2>2
<1>6. TypeOK' BY <1>1, <1>5, Received DEF Inv, TypeOK
<1>7. TableSound' BY <1>1, <1>5 DEF Inv, TableSound, tot_clients
<1>8. CountsEchoes'
  <2> SUFFICES ASSUME NEW i \in DOMAIN clients
               PROVE  npck'[i] = answered'[clients[i]]
    BY <1>1 DEF CountsEchoes
  <2>1. npck[i] = answered[clients[i]] BY DEF Inv, CountsEchoes
  <2> QED BY <2>1, <1>2, <1>5
<1>9. QuotaExact'
  <2> SUFFICES ASSUME NEW b \in Addrs
               PROVE  IF Known(b)' THEN answered'[b] = Least(received'[b], Quota)
                      ELSE received'[b] > 0 => tot_clients' = MaxClients
    BY DEF QuotaExact, Least
  <2>1. CASE b = a BY <2>1, <1>3, <1>4, <1>5
  <2>2. CASE b # a
    <3>1. IF Known(b) THEN answered[b] = Least(received[b], Quota)
          ELSE received[b] > 0 => tot_clients = MaxClients
      BY DEF Inv, QuotaExact
    <3>2. tot_clients' = tot_clients BY <1>1 DEF tot_clients
    <3> QED BY <2>2, <3>1, <3>2, <1>4, <1>5, Received
  <2> QED BY <2>1, <2>2
<1>10. NothingForNothing' BY <1>5, StillNothing
<1> QED BY <1>6, <1>7, <1>8, <1>9, <1>10 DEF Inv

\* Every step keeps the invariant.
LEMMA Inductive == Inv /\ [Next]_vars => Inv'
<1> SUFFICES ASSUME Inv, [Next]_vars PROVE Inv' OBVIOUS
<1>1. CASE UNCHANGED vars
  BY <1>1, Elsewhere DEF vars, Inv, TypeOK
<1>2. ASSUME NEW a \in Addrs, Receive(a) PROVE Inv'
  <2>1. CASE (\A i \in DOMAIN clients : ~Found(a, i)) /\ Add(a)
    <3>1. ~Known(a) BY <2>1, LookupFinds DEF Inv
    <3> QED BY <1>2, <2>1, <3>1, ReceiveNew, ReceiveFull
  <2>2. CASE \E i \in DOMAIN clients : Found(a, i) /\ Count(a, i)
    <3>1. PICK i \in DOMAIN clients : Found(a, i) /\ Count(a, i) BY <2>2
    <3>2. clients[i] = a BY <3>1 DEF Found
    <3> QED BY <1>2, <3>1, <3>2, ReceiveKnown
  <2> QED BY <1>2, <2>1, <2>2 DEF Receive
<1>3. ASSUME NEW a \in Addrs, Arrive(a) PROVE Inv'
  <2>1. TypeOK' BY <1>3 DEF Arrive, Inv, TypeOK
  <2> QED BY <1>3, <2>1, Elsewhere DEF Arrive
<1>4. ASSUME NEW a \in Addrs, Lose(a) PROVE Inv'
  <2>1. TypeOK' BY <1>4 DEF Lose, Inv, TypeOK
  <2> QED BY <1>4, <2>1, Elsewhere DEF Lose
<1> QED BY <1>1, <1>2, <1>3, <1>4 DEF Next

\* Every address in the table has been echoed for its first three datagrams
\* and for no other, and one that was heard from and is not there found the
\* table full, for every MAXCLIENTS and every quota (prot_text).
THEOREM QuotaIsExact == Spec => []QuotaExact
<1>1. Inv => QuotaExact BY DEF Inv
<1> QED BY Initially, Inductive, <1>1, PTL DEF Spec

\* The two arrays of prot_text stay in step and within MAXCLIENTS, with one
\* entry for each address.
THEOREM TableIsSound == Spec => []TableSound
<1>1. Inv => TableSound BY DEF Inv
<1> QED BY Initially, Inductive, <1>1, PTL DEF Spec

\* The counts of prot_text are numbers, whatever arrives.
THEOREM TypeCorrect == Spec => []TypeOK
<1>1. Inv => TypeOK BY DEF Inv
<1> QED BY Initially, Inductive, <1>1, PTL DEF Spec
=============================================================================
