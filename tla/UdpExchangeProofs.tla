-------------------------- MODULE UdpExchangeProofs --------------------------
(***************************************************************************)
(* Type correctness of the UDP exchanges, that answers stay in step with   *)
(* the sends of Lab 1.5, and that the quota of Lab 2.2 is spent only on    *)
(* sends, for every number of tries, quota and bound on what is in flight. *)
(***************************************************************************)
EXTENDS UdpExchange, TLAPS

-----------------------------------------------------------------------------
(* Type correctness. *)

\* A count that is raised under a bound stays under it.
LEMMA LeastBounds ==
  ASSUME NEW m \in Nat, NEW n \in Nat
  PROVE  Least(m, n) \in 0..n /\ Least(m, n) <= m
BY DEF Least

\* What was sent before becomes old.
LEMMA AgedType ==
  ASSUME NEW ds \in [Ages -> 0..MaxFlight]
  PROVE  /\ Aged(ds) \in [Ages -> 0..MaxFlight]
         /\ Aged(ds)["new"] = 0 /\ Aged(ds)["old"] <= ds["old"] + ds["new"]
<1>1. MaxFlight \in Nat \ {0} BY ExchangeAssumption
<1>2. ds["old"] + ds["new"] \in Nat BY <1>1 DEF Ages
<1>3. Least(ds["old"] + ds["new"], MaxFlight) \in 0..MaxFlight
      /\ Least(ds["old"] + ds["new"], MaxFlight) <= ds["old"] + ds["new"]
  BY <1>1, <1>2, LeastBounds
<1> QED BY <1>1, <1>3 DEF Aged, Ages

\* Init establishes the types.
LEMMA InitTypeOK == Init => TypeOK
<1> SUFFICES ASSUME Init PROVE TypeOK
  OBVIOUS
<1>1. sized \in BOOLEAN /\ duplicated \in BOOLEAN /\ dropped \in BOOLEAN /\ refused \in BOOLEAN
  BY Zenon DEF Init
<1>2. toServer \in [Ages -> 0..MaxFlight] /\ toClient \in [Ages -> 0..MaxFlight]
  BY ExchangeAssumption DEF Init
<1>3. tries \in 0..(Tries - 1) /\ runs \in 0..(Quota + 1) /\ echoes \in 0..Quota
  BY ExchangeAssumption DEF Init
<1> QED BY <1>1, <1>2, <1>3 DEF Init, TypeOK

\* One datagram less or more in flight.
LEMMA FlightType ==
  ASSUME NEW ds \in [Ages -> 0..MaxFlight], NEW a \in Ages
  PROVE  /\ ds[a] \in 0..MaxFlight
         /\ ds[a] > 0 => [ds EXCEPT ![a] = @ - 1] \in [Ages -> 0..MaxFlight]
         /\ ds[a] < MaxFlight => [ds EXCEPT ![a] = @ + 1] \in [Ages -> 0..MaxFlight]
         /\ [ds EXCEPT ![a] = Least(@ + 1, MaxFlight)] \in [Ages -> 0..MaxFlight]
<1>1. MaxFlight \in Nat \ {0} /\ ds[a] \in 0..MaxFlight BY ExchangeAssumption
<1>2. ds[a] + 1 \in Nat /\ MaxFlight \in Nat BY <1>1
<1>3. Least(ds[a] + 1, MaxFlight) \in 0..MaxFlight BY <1>2, LeastBounds
<1> QED BY <1>1, <1>3

\* The steps of the network.
LEMMA NetworkTypeOK ==
  ASSUME TypeOK, NEW a \in Ages, Lose(a) \/ Duplicate(a)
  PROVE  TypeOK'
<1>1. /\ toServer \in [Ages -> 0..MaxFlight] /\ toClient \in [Ages -> 0..MaxFlight]
      /\ MaxFlight \in Nat \ {0}
  BY ExchangeAssumption DEF TypeOK
<1>2. toServer' \in [Ages -> 0..MaxFlight] /\ toClient' \in [Ages -> 0..MaxFlight]
  <2>1. CASE Lose(a) BY <2>1, <1>1, FlightType DEF Lose
  <2>2. CASE Duplicate(a) BY <2>2, <1>1, FlightType DEF Duplicate
  <2> QED BY <2>1, <2>2
<1>3. duplicated' \in BOOLEAN /\ dropped' \in BOOLEAN /\ refused' \in BOOLEAN
  BY Zenon DEF TypeOK, Lose, Duplicate
<1>4. UNCHANGED <<lab, hostVars>>
  BY DEF Lose, Duplicate
<1> QED BY <1>2, <1>3, <1>4 DEF TypeOK, hostVars

\* What a server does with a datagram it has taken.
LEMMA ServerTypeOK ==
  ASSUME TypeOK, NEW a \in Ages, Taken(a), Answers(a) \/ Vanishes(a) \/ Exits
  PROVE  /\ toServer' \in [Ages -> 0..MaxFlight]
         /\ toClient' \in [Ages -> 0..MaxFlight]
         /\ server' \in {"up", "exited"} /\ dropped' \in BOOLEAN
<1>1. /\ toServer \in [Ages -> 0..MaxFlight] /\ toClient \in [Ages -> 0..MaxFlight]
      /\ server \in {"up", "exited"} /\ dropped \in BOOLEAN
  BY DEF TypeOK
<1>2. toServer' \in [Ages -> 0..MaxFlight] BY <1>1, FlightType DEF Taken
<1>3. toClient' \in [Ages -> 0..MaxFlight]
  BY <1>1, FlightType DEF Answers, Vanishes, Exits
<1>4. dropped' \in BOOLEAN BY <1>1, Zenon DEF Answers, Vanishes, Exits
<1>5. server' \in {"up", "exited"} BY <1>1 DEF Answers, Vanishes, Exits
<1> QED BY <1>2, <1>3, <1>4, <1>5

\* The steps of the servers.
LEMMA ServeTypeOK ==
  ASSUME TypeOK, NEW a \in Ages, Serve(a)
  PROVE  TypeOK'
<1>1. Taken(a) /\ (Answers(a) \/ Vanishes(a) \/ Exits)
  BY DEF Serve, Echo, EchoQuota, EchoUpper, Sendto
<1>2. /\ toServer' \in [Ages -> 0..MaxFlight] /\ toClient' \in [Ages -> 0..MaxFlight]
      /\ server' \in {"up", "exited"} /\ dropped' \in BOOLEAN
  BY <1>1, ServerTypeOK
<1>3. UNCHANGED <<lab, client, tries, answer, runs, duplicated>>
  BY DEF Serve, Echo, EchoQuota, EchoUpper
<1>4. sized' \in BOOLEAN /\ refused' \in BOOLEAN
  BY Zenon DEF Serve, Echo, EchoQuota, EchoUpper, TypeOK
<1>5. echoes' \in 0..Quota
  <2>1. CASE EchoQuota(a) BY <2>1, ExchangeAssumption DEF EchoQuota, TypeOK
  <2>2. CASE Echo(a) \/ EchoUpper(a) BY <2>2 DEF Echo, EchoUpper, TypeOK
  <2> QED BY <2>1, <2>2 DEF Serve
<1> QED BY <1>2, <1>3, <1>4, <1>5 DEF TypeOK

\* A new send.
LEMMA SendsTypeOK ==
  ASSUME TypeOK, Sends
  PROVE  TypeOK'
<1>1. toServer \in [Ages -> 0..MaxFlight] /\ toClient \in [Ages -> 0..MaxFlight]
  BY DEF TypeOK
<1>2. toServer' \in [Ages -> 0..MaxFlight] /\ toClient' \in [Ages -> 0..MaxFlight]
  <2>1. Aged(toServer) \in [Ages -> 0..MaxFlight] /\ Aged(toClient) \in [Ages -> 0..MaxFlight]
    BY <1>1, AgedType
  <2>2. "new" \in Ages /\ 1 \in 0..MaxFlight BY ExchangeAssumption DEF Ages
  <2> QED BY <2>1, <2>2 DEF Sends
<1>3. runs' \in 0..(Quota + 1)
  <2>1. runs + 1 \in Nat /\ Quota + 1 \in Nat /\ runs' = Least(runs + 1, Quota + 1)
    BY ExchangeAssumption DEF TypeOK, Sends
  <2> QED BY <2>1, LeastBounds
<1>4. tries' \in 0..(Tries - 1) BY ExchangeAssumption DEF Sends
<1>5. sized' \in BOOLEAN /\ duplicated' \in BOOLEAN
  BY Zenon DEF Sends, TypeOK
<1> QED BY <1>2, <1>3, <1>4, <1>5 DEF Sends, TypeOK

\* The other steps of the clients.
LEMMA ClientTypeOK ==
  ASSUME TypeOK,
         \/ Select \/ AbandonOnce
         \/ \E a \in Ages : Receive(a)
  PROVE  TypeOK'
<1>1. sized' \in BOOLEAN /\ duplicated' \in BOOLEAN /\ dropped' \in BOOLEAN /\ refused' \in BOOLEAN
  BY Zenon DEF TypeOK, Select, SelectEmpty, GiveUp, AbandonOnce, NoAnswer,
               Receive, ReceiveOnce, ReceiveLine, Receives, faultVars
<1>2. CASE \E a \in Ages : Receive(a)
  <2>1. PICK a \in Ages : Receives(a) BY <1>2 DEF Receive, ReceiveOnce, ReceiveLine
  <2>2. toClient' \in [Ages -> 0..MaxFlight] BY <2>1, FlightType DEF Receives, TypeOK
  <2> QED BY <1>1, <2>1, <2>2 DEF Receives, TypeOK
<1>3. CASE SelectEmpty
  BY <1>1, <1>3, ExchangeAssumption
     DEF SelectEmpty, SelectLast, TypeOK, netVars, faultVars
<1>4. CASE NoAnswer BY <1>1, <1>4 DEF NoAnswer, TypeOK, netVars, faultVars
<1> QED BY <1>2, <1>3, <1>4 DEF Select, GiveUp, AbandonOnce

\* Every step preserves the types.
LEMMA NextTypeOK == TypeOK /\ [Next]_vars => TypeOK'
<1> SUFFICES ASSUME TypeOK, [Next]_vars PROVE TypeOK'
  OBVIOUS
<1>1. CASE SendOnce \/ SendLine BY <1>1, SendsTypeOK DEF SendOnce, SendLine
<1>2. CASE Select \/ AbandonOnce BY <1>2, ClientTypeOK
<1>3. CASE \E a \in Ages : Receive(a) BY <1>3, ClientTypeOK
<1>4. CASE \E a \in Ages : Serve(a) BY <1>4, ServeTypeOK
<1>5. CASE \E a \in Ages : Lose(a) \/ Duplicate(a) BY <1>5, NetworkTypeOK
<1>6. CASE UNCHANGED vars
  BY <1>6 DEF TypeOK, vars, hostVars, netVars, faultVars
<1> QED BY <1>1, <1>2, <1>3, <1>4, <1>5, <1>6 DEF Next

\* The variables of the exchange keep their types: the client of 2.1 never
\* makes more than Tries calls of select() for a send.
THEOREM TypeCorrect == Spec => []TypeOK
<1> QED BY InitTypeOK, NextTypeOK, PTL DEF Spec

-----------------------------------------------------------------------------
(* Answers stay in step with the sends.  Without doubled datagrams at most  *)
(* one datagram of 1.5 is in flight, in either direction, and none while    *)
(* the client is about to send.                                             *)

OneInFlight ==
  lab = "1.5" /\ ~duplicated =>
    /\ toServer["old"] = 0 /\ toClient["old"] = 0
    /\ toServer["new"] + toClient["new"] <= 1
    /\ client = "sending" => toServer["new"] = 0 /\ toClient["new"] = 0

StepInv == TypeOK /\ OneInFlight /\ InStep

\* Init establishes the invariant.
LEMMA InitStepInv == Init => StepInv
<1> SUFFICES ASSUME Init PROVE StepInv
  OBVIOUS
<1>1. TypeOK BY InitTypeOK
<1>2. OneInFlight BY DEF Init, OneInFlight, Ages
<1>3. InStep BY DEF Init, InStep
<1> QED BY <1>1, <1>2, <1>3 DEF StepInv

\* Every step preserves it.
LEMMA NextStepInv == StepInv /\ [Next]_vars => StepInv'
<1> SUFFICES ASSUME StepInv, [Next]_vars PROVE StepInv'
  OBVIOUS
<1>1. TypeOK /\ TypeOK' BY NextTypeOK DEF StepInv
<1>2. /\ toServer \in [Ages -> 0..MaxFlight] /\ toClient \in [Ages -> 0..MaxFlight]
      /\ MaxFlight \in Nat \ {0} /\ Ages = {"new", "old"}
  BY <1>1, ExchangeAssumption DEF TypeOK, Ages
<1>3. CASE SendOnce \/ SendLine
  <2>1. OneInFlight'
    <3>1. CASE SendLine
      <4>1. ASSUME ~duplicated'
            PROVE  /\ toServer["old"] = 0 /\ toServer["new"] = 0
                   /\ toClient["old"] = 0 /\ toClient["new"] = 0
        BY <1>2, <3>1, <4>1 DEF SendLine, Sends, StepInv, OneInFlight
      <4>2. ASSUME ~duplicated'
            PROVE  Aged(toServer)["old"] = 0 /\ Aged(toClient)["old"] = 0
                   /\ Aged(toServer)["new"] = 0 /\ Aged(toClient)["new"] = 0
        BY <4>1, <4>2, <1>2, AgedType
      <4> QED BY <1>2, <3>1, <4>2 DEF SendLine, Sends, OneInFlight, Aged
    <3>2. CASE SendOnce BY <3>2 DEF SendOnce, Once, Sends, OneInFlight
    <3> QED BY <1>3, <3>1, <3>2
  <2>2. InStep' BY <1>3 DEF SendOnce, SendLine, Sends, InStep
  <2> QED BY <1>1, <2>1, <2>2 DEF StepInv
<1>4. CASE Select \/ AbandonOnce
  BY <1>1, <1>4 DEF StepInv, Select, SelectEmpty, GiveUp, AbandonOnce, NoAnswer,
                    OneInFlight, InStep, netVars, faultVars
<1>5. CASE \E a \in Ages : Receive(a)
  <2>1. PICK a \in Ages : Receive(a) BY <1>5
  <2>2. OneInFlight'
    BY <1>2, <2>1 DEF Receive, ReceiveOnce, ReceiveLine, Receives, Once,
                      StepInv, OneInFlight, faultVars
  <2>3. InStep'
    BY <1>2, <2>1 DEF Receive, ReceiveOnce, ReceiveLine, Receives, TypeOK,
                      StepInv, OneInFlight, InStep, faultVars
  <2> QED BY <1>1, <2>2, <2>3 DEF StepInv
<1>6. CASE \E a \in Ages : Serve(a)
  <2>1. PICK a \in Ages : Serve(a) BY <1>6
  <2>2. InStep'
    BY <2>1 DEF Serve, Echo, EchoQuota, EchoUpper, StepInv, InStep
  <2>3. OneInFlight'
    <3>1. CASE EchoUpper(a)
      BY <1>2, <3>1 DEF EchoUpper, Taken, Answers, Vanishes, Exits, Least, StepInv, OneInFlight
    <3>2. CASE Echo(a) \/ EchoQuota(a)
      BY <3>2 DEF Echo, EchoQuota, OneInFlight
    <3> QED BY <2>1, <3>1, <3>2 DEF Serve
  <2> QED BY <1>1, <2>2, <2>3 DEF StepInv
<1>7. CASE \E a \in Ages : Lose(a) \/ Duplicate(a)
  <2>1. PICK a \in Ages : Lose(a) \/ Duplicate(a) BY <1>7
  <2>2. InStep' BY <2>1 DEF Lose, Duplicate, hostVars, StepInv, InStep
  <2>3. OneInFlight'
    <3>1. CASE Lose(a)
      BY <1>2, <3>1 DEF Lose, hostVars, StepInv, OneInFlight
    <3>2. CASE Duplicate(a) BY <3>2 DEF Duplicate, OneInFlight
    <3> QED BY <2>1, <3>1, <3>2
  <2> QED BY <1>1, <2>2, <2>3 DEF StepInv
<1>8. CASE UNCHANGED vars
  BY <1>1, <1>8 DEF StepInv, OneInFlight, InStep, vars, hostVars, netVars, faultVars
<1> QED BY <1>3, <1>4, <1>5, <1>6, <1>7, <1>8 DEF Next

\* A client that waits before it sends again takes the answer to an earlier
\* send for the answer to its last only after the network doubled a datagram.
THEOREM AnswersInStep == Spec => []InStep
<1>1. StepInv => InStep BY DEF StepInv
<1> QED BY <1>1, InitStepInv, NextStepInv, PTL DEF Spec

-----------------------------------------------------------------------------
(* The quota of 2.2 is spent on sends only.  Without doubled datagrams the  *)
(* server has echoed, or will take, no more datagrams than were sent.       *)

SpentOnSends ==
  lab = "2.2" /\ ~duplicated /\ runs <= Quota =>
    echoes + toServer["new"] + toServer["old"] <= runs

QuotaInv == TypeOK /\ SpentOnSends /\ QuotaSpent

\* Init establishes the invariant.
LEMMA InitQuotaInv == Init => QuotaInv
<1> SUFFICES ASSUME Init PROVE QuotaInv
  OBVIOUS
<1>1. TypeOK BY InitTypeOK
<1>2. SpentOnSends BY DEF Init, SpentOnSends, Ages
<1>3. QuotaSpent BY DEF Init, QuotaSpent
<1> QED BY <1>1, <1>2, <1>3 DEF QuotaInv

\* Every step preserves it.
LEMMA NextQuotaInv == QuotaInv /\ [Next]_vars => QuotaInv'
<1> SUFFICES ASSUME QuotaInv, [Next]_vars PROVE QuotaInv'
  OBVIOUS
<1>1. TypeOK /\ TypeOK' BY NextTypeOK DEF QuotaInv
<1>2. /\ toServer \in [Ages -> 0..MaxFlight] /\ MaxFlight \in Nat \ {0}
      /\ Ages = {"new", "old"} /\ runs \in 0..(Quota + 1) /\ echoes \in 0..Quota
      /\ Quota \in Nat
  BY <1>1, ExchangeAssumption DEF TypeOK, Ages
<1>3. toServer["new"] \in 0..MaxFlight /\ toServer["old"] \in 0..MaxFlight
  BY <1>2
<1>4. CASE SendOnce \/ SendLine
  <2>1. Sends BY <1>4 DEF SendOnce, SendLine
  <2>2. QuotaSpent' BY <2>1 DEF Sends, QuotaSpent
  <2>3. SpentOnSends'
    <3>1. /\ Aged(toServer)["old"] \in 0..MaxFlight
          /\ Aged(toServer)["old"] <= toServer["old"] + toServer["new"]
          /\ Aged(toServer)["new"] = 0 /\ Aged(toServer) \in [Ages -> 0..MaxFlight]
      BY <1>2, AgedType
    <3>2. toServer'["new"] = 1 /\ toServer'["old"] = Aged(toServer)["old"]
      BY <1>2, <2>1, <3>1 DEF Sends
    <3>3. runs' <= Quota => runs <= Quota /\ runs' = runs + 1
      BY <1>2, <2>1 DEF Sends, Least
    <3>4. echoes' = echoes /\ lab' = lab /\ duplicated' = duplicated
      BY <2>1 DEF Sends
    <3> QED BY <1>2, <1>3, <3>1, <3>2, <3>3, <3>4 DEF SpentOnSends, QuotaInv
  <2> QED BY <1>1, <2>2, <2>3 DEF QuotaInv
<1>5. CASE Select \/ AbandonOnce
  BY <1>1, <1>5 DEF QuotaInv, Select, SelectEmpty, GiveUp, AbandonOnce, NoAnswer,
                    SpentOnSends, QuotaSpent, netVars, faultVars
<1>6. CASE \E a \in Ages : Receive(a)
  BY <1>1, <1>6 DEF Receive, ReceiveOnce, ReceiveLine, Receives, QuotaInv,
                    SpentOnSends, QuotaSpent, faultVars
<1>7. CASE \E a \in Ages : Serve(a)
  <2>1. PICK a \in Ages : Serve(a) BY <1>7
  <2>2. CASE EchoQuota(a)
    <3>1. toServer'["new"] + toServer'["old"] + 1 = toServer["new"] + toServer["old"]
          /\ toServer[a] > 0
      BY <1>2, <1>3, <2>2 DEF EchoQuota, Taken
    <3>2. toServer'["new"] \in 0..MaxFlight /\ toServer'["old"] \in 0..MaxFlight
      BY <1>1, <1>2 DEF TypeOK
    <3>3. UNCHANGED <<lab, runs, duplicated>> /\ echoes' \in {echoes, echoes + 1}
      BY <2>2 DEF EchoQuota
    <3>4. SpentOnSends'
      BY <1>2, <1>3, <3>1, <3>2, <3>3 DEF SpentOnSends, QuotaInv
    <3>5. QuotaSpent'
      <4>1. CASE echoes < Quota
        BY <2>2, <4>1 DEF EchoQuota, QuotaInv, QuotaSpent
      <4>2. CASE ~(echoes < Quota)
        BY <1>2, <1>3, <2>2, <3>1, <3>2, <3>3, <4>2
           DEF EchoQuota, QuotaInv, SpentOnSends, QuotaSpent
      <4> QED BY <4>1, <4>2
    <3> QED BY <1>1, <3>4, <3>5 DEF QuotaInv
  <2>3. CASE Echo(a) \/ EchoUpper(a)
    BY <1>1, <2>3 DEF Echo, EchoUpper, QuotaInv, SpentOnSends, QuotaSpent
  <2> QED BY <2>1, <2>2, <2>3 DEF Serve
<1>8. CASE \E a \in Ages : Lose(a) \/ Duplicate(a)
  <2>1. PICK a \in Ages : Lose(a) \/ Duplicate(a) BY <1>8
  <2>2. CASE Lose(a)
    <3>1. toServer'["new"] + toServer'["old"] <= toServer["new"] + toServer["old"]
      BY <1>2, <1>3, <2>2 DEF Lose
    <3>2. toServer'["new"] \in 0..MaxFlight /\ toServer'["old"] \in 0..MaxFlight
      BY <1>1, <1>2 DEF TypeOK
    <3> QED BY <1>1, <1>2, <1>3, <2>2, <3>1, <3>2
            DEF Lose, hostVars, QuotaInv, SpentOnSends, QuotaSpent
  <2>3. CASE Duplicate(a)
    BY <1>1, <2>3 DEF Duplicate, hostVars, QuotaInv, SpentOnSends, QuotaSpent
  <2> QED BY <2>1, <2>2, <2>3
<1>9. CASE UNCHANGED vars
  BY <1>1, <1>9 DEF QuotaInv, SpentOnSends, QuotaSpent, vars, hostVars, netVars, faultVars
<1> QED BY <1>4, <1>5, <1>6, <1>7, <1>8, <1>9 DEF Next

\* No datagram among a client's first Quota is refused, whatever is lost,
\* unless the network doubled one.
THEOREM QuotaIsSpentOnSends == Spec => []QuotaSpent
<1>1. QuotaInv => QuotaSpent BY DEF QuotaInv
<1> QED BY <1>1, InitQuotaInv, NextQuotaInv, PTL DEF Spec
=============================================================================
