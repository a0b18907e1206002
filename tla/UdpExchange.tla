----------------------------- MODULE UdpExchange -----------------------------
(***************************************************************************)
(* The UDP clients with their servers:                                     *)
(*   "1.4"  the client sends once, waits for one answer and ends; it is    *)
(*          run again and again, each time with a port of its own;         *)
(*   "2.2"  the same client; the server (UdpQuota) echoes Quota datagrams  *)
(*          of an address and drops the rest;                              *)
(*   "2.1"  like 1.4, but the client ends after five empty select(): its   *)
(*          sendto() is not in the loop, and its while (1) never repeats;  *)
(*   "1.5"  one process that sends and waits in turn, for ever.            *)
(* The network loses, duplicates and reorders.  A datagram, or its answer, *)
(* belongs to the last send ("new") or to one before it ("old"); in flight *)
(* they are counted.                                                       *)
(***************************************************************************)
EXTENDS Naturals

CONSTANTS Tries,     \* select() calls of the client of 2.1
          Quota,     \* echoes the server of 2.2 makes
          MaxFlight  \* old datagrams in flight, a bound of the model

ASSUME ExchangeAssumption == Tries \in Nat \ {0} /\ Quota \in Nat \ {0}
                             /\ MaxFlight \in Nat \ {0}

VARIABLES
  lab,        \* which client and server; never changes
  client,     \* "sending" or "waiting"
  tries,      \* the i of 2.1
  server,     \* "up" or "exited"
  sized,      \* the address length 1.5's server passes is initialised
  toServer,   \* datagrams on their way to the server, by age
  toClient,   \* answers on their way back
  answer,     \* what the client has taken for the answer to its last send
  runs,       \* sends so far, up to Quota + 1
  echoes,     \* datagrams the server of 2.2 has echoed
  duplicated, \* the network has delivered a datagram twice
  dropped,    \* the last datagram, or an answer to it, was lost
  refused     \* the last datagram was over the quota

hostVars == <<client, tries, server, sized, answer, runs, echoes>>
netVars == <<toServer, toClient>>
faultVars == <<duplicated, dropped, refused>>
vars == <<lab, hostVars, netVars, faultVars>>

Ages == {"new", "old"}
Least(m, n) == IF m < n THEN m ELSE n

Init ==
  /\ lab \in {"1.4", "2.2", "1.5", "2.1"}
  /\ client = "sending" /\ tries = 0 /\ answer = "none" /\ runs = 0
  /\ server = "up" /\ sized = (lab # "1.5") /\ echoes = 0
  /\ toServer = [a \in Ages |-> 0] /\ toClient = [a \in Ages |-> 0]
  /\ duplicated = FALSE /\ dropped = FALSE /\ refused = FALSE

-----------------------------------------------------------------------------
(* The network. *)

Aged(ds) == [old |-> Least(ds["old"] + ds["new"], MaxFlight), new |-> 0]

Lose(a) ==
  /\ \/ /\ toServer[a] > 0
        /\ toServer' = [toServer EXCEPT ![a] = @ - 1] /\ UNCHANGED toClient
     \/ /\ toClient[a] > 0
        /\ toClient' = [toClient EXCEPT ![a] = @ - 1] /\ UNCHANGED toServer
  /\ dropped' = (dropped \/ a = "new")
  /\ UNCHANGED <<lab, hostVars, duplicated, refused>>

\* A second copy of a datagram.
Duplicate(a) ==
  /\ \/ /\ toServer[a] \in 1..(MaxFlight - 1)
        /\ toServer' = [toServer EXCEPT ![a] = @ + 1] /\ UNCHANGED toClient
     \/ /\ toClient[a] \in 1..(MaxFlight - 1)
        /\ toClient' = [toClient EXCEPT ![a] = @ + 1] /\ UNCHANGED toServer
  /\ duplicated' = TRUE
  /\ UNCHANGED <<lab, hostVars, dropped, refused>>

-----------------------------------------------------------------------------
(* The servers. *)

Taken(a) == /\ server = "up" /\ toServer[a] > 0
            /\ toServer' = [toServer EXCEPT ![a] = @ - 1]

Answers(a) == /\ toClient' = [toClient EXCEPT ![a] = Least(@ + 1, MaxFlight)]
              /\ UNCHANGED <<server, dropped>>

Vanishes(a) == /\ dropped' = (dropped \/ a = "new")
               /\ UNCHANGED <<server, toClient>>

Exits == server' = "exited" /\ UNCHANGED <<toClient, dropped>>

\* Sendto() sends, or fails and exits through err_sys().
Sendto(a) == Answers(a) \/ Exits

Echo(a) ==
  /\ lab \in {"1.4", "2.1"}
  /\ Taken(a) /\ Sendto(a)
  /\ UNCHANGED <<lab, client, tries, sized, answer, runs, echoes, duplicated,
                 refused>>

\* Mutant: the quota is one less.
EchoQuota_OneLess(a) ==
  /\ lab = "2.2" /\ Taken(a)
  /\ IF echoes < Quota - 1
       THEN Sendto(a) /\ echoes' = echoes + 1 /\ UNCHANGED refused
       ELSE Vanishes(a) /\ refused' = (refused \/ a = "new") /\ UNCHANGED echoes
  /\ UNCHANGED <<lab, client, tries, sized, answer, runs, duplicated>>

\* UdpQuota's Receive for one address that the table has room for.
EchoQuota(a) ==
  /\ lab = "2.2" /\ Taken(a)
  /\ IF echoes < Quota
       THEN Sendto(a) /\ echoes' = echoes + 1 /\ UNCHANGED refused
       ELSE Vanishes(a) /\ refused' = (refused \/ a = "new") /\ UNCHANGED echoes
  /\ UNCHANGED <<lab, client, tries, sized, answer, runs, duplicated>>

\* The first recvfrom() is passed an uninitialised length: it may fail, which
\* ends the server, or cut the address the answer is sent to.
EchoUpper(a) ==
  /\ lab = "1.5" /\ Taken(a)
  /\ Answers(a) \/ Vanishes(a) \/ (~sized /\ Exits)
  /\ sized' = TRUE
  /\ UNCHANGED <<lab, client, tries, answer, runs, echoes, duplicated,
                 refused>>

-----------------------------------------------------------------------------
(* The clients. *)

Sends ==
  /\ client' = "waiting"
  /\ toServer' = [Aged(toServer) EXCEPT !["new"] = 1]
  /\ toClient' = Aged(toClient)
  /\ runs' = Least(runs + 1, Quota + 1) /\ tries' = 0
  /\ answer' = "none" /\ dropped' = FALSE /\ refused' = FALSE
  /\ UNCHANGED <<lab, server, sized, echoes, duplicated>>

Receives(a) ==
  /\ client = "waiting" /\ toClient[a] > 0
  /\ toClient' = [toClient EXCEPT ![a] = @ - 1]
  /\ client' = "sending" /\ answer' = a
  /\ UNCHANGED <<lab, tries, server, sized, runs, echoes, toServer, faultVars>>

\* Labs 1.4, 2.2 and 2.1: one datagram, one answer, and the process ends.
\* Only answers to its own port reach it.
Once == {"1.4", "2.2", "2.1"}

SendOnce == lab \in Once /\ client = "sending" /\ Sends
ReceiveOnce(a) == lab \in Once /\ a = "new" /\ Receives(a)

NoAnswer == /\ client = "waiting" /\ client' = "sending"
            /\ UNCHANGED <<lab, tries, server, sized, answer, runs, echoes,
                           netVars, faultVars>>

\* Mutant: the client of 1.5 does not exit when recvfrom() fails.
AbandonOnce_Line == lab \in {"1.4", "2.2", "1.5"} /\ NoAnswer

\* The user interrupts it, or nobody listens on the server's port: the next
\* call on the connected socket fails and err_sys() ends the client.
AbandonOnce == lab \in {"1.4", "2.2"} /\ NoAnswer

\* Mutant: i <= 5.
SelectLast_OneMore == tries = Tries

SelectLast == tries = Tries - 1

\* Mutant: i is not incremented.
SelectEmpty_Again ==
  /\ lab = "2.1" /\ client = "waiting" /\ ~SelectLast
  /\ UNCHANGED vars

\* Lab 2.1: select() returns 0 after three seconds, ...
SelectEmpty ==
  /\ lab = "2.1" /\ client = "waiting" /\ ~SelectLast
  /\ tries' = tries + 1
  /\ UNCHANGED <<lab, client, server, sized, answer, runs, echoes, netVars, faultVars>>

\* ... and the last time the client ends.
GiveUp == lab = "2.1" /\ SelectLast /\ NoAnswer

\* Lab 1.5: whatever comes next is the answer.
SendLine == lab = "1.5" /\ client = "sending" /\ Sends
ReceiveLine(a) == lab = "1.5" /\ Receives(a)

-----------------------------------------------------------------------------
Serve(a) == Echo(a) \/ EchoQuota(a) \/ EchoUpper(a)
Receive(a) == ReceiveOnce(a) \/ ReceiveLine(a)
Select == SelectEmpty \/ GiveUp

Next == \/ SendOnce \/ SendLine \/ Select \/ AbandonOnce
        \/ \E a \in Ages : Serve(a) \/ Receive(a) \/ Lose(a) \/ Duplicate(a)

(* What is not lost is delivered, and time passes. *)
Spec == /\ Init /\ [][Next]_vars /\ WF_vars(Select)
        /\ \A a \in Ages : WF_vars(Serve(a)) /\ WF_vars(Receive(a))
-----------------------------------------------------------------------------
(* Properties. *)

\* The loop of 2.1 makes at most five calls of select() for a send.
TypeOK ==
  /\ lab \in {"1.4", "2.2", "1.5", "2.1"}
  /\ client \in {"sending", "waiting"} /\ tries \in 0..(Tries - 1)
  /\ server \in {"up", "exited"} /\ sized \in BOOLEAN
  /\ toServer \in [Ages -> 0..MaxFlight] /\ toClient \in [Ages -> 0..MaxFlight]
  /\ answer \in Ages \cup {"none"}
  /\ runs \in 0..(Quota + 1) /\ echoes \in 0..Quota
  /\ duplicated \in BOOLEAN /\ dropped \in BOOLEAN /\ refused \in BOOLEAN

\* Nothing in a datagram tells which send it answers.  Still an answer is
\* taken for the wrong send only when the network has doubled a datagram: a
\* client that has no answer does not send again (1.5/client.c 56-77,
\* 2.1/client.c 64-98, 2.2/client.c 62-76).
InStep == duplicated \/ answer # "old"

\* The first Quota datagrams of a client are not refused, whatever is lost,
\* unless the network doubled one: doubled datagrams use up the quota
\* (2.2/server.c 62-103).
QuotaSpent == refused => duplicated \/ runs > Quota

\* The client of 2.1 ends its wait whatever is lost; the others end it if
\* nothing of this exchange is lost or refused and the server has not exited
\* (2.1/client.c 68-98, 1.5/client.c 69, 2.2/client.c 68).
AnswerComes ==
  client = "waiting" /\ (lab = "2.1" \/ ~dropped)
    ~> client = "sending" \/ (lab # "2.1" /\ (dropped \/ server = "exited"))
=============================================================================
