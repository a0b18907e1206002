---------------------------- MODULE WrappersProofs ----------------------------
(***************************************************************************)
(* What the wrappers promise, for buffers, requests and streams of every   *)
(* size.  The invariant ties the counters of the two ends together: what a *)
(* call has stored and what my_read keeps are the last bytes read() has    *)
(* returned, and what writen has written is all that is in the stream.     *)
(***************************************************************************)
EXTENDS Wrappers, TLAPS

\* my_read's buffer continues where the call is.
Ahead ==
  /\ start + got + read_cnt = taken
  /\ reader = "readn" => read_cnt = 0
  /\ \A j \in 1..read_cnt : read_buf[read_ptr + j] = start + got + j

\* A call that goes on has space left and no whole line.
Calling ==
  rpc = "reading" =>
    /\ got < want
    /\ reader = "readline" => /\ got + 1 < want
                              /\ \A i \in 1..got : buf[i] \notin Ends

Inv == TypeOK /\ WrittenInFull /\ InOrder /\ Ahead /\ Calling /\ ReturnsWhole

USE WrapAssumption DEF Bytes

-----------------------------------------------------------------------------
\* Every counter is a natural number.
LEMMA Numbers ==
  ASSUME TypeOK
  PROVE  /\ given \in Nat /\ n \in Nat /\ ptr \in Nat /\ put \in Nat /\ taken \in Nat
         /\ want \in Nat /\ got \in Nat /\ start \in Nat
         /\ read_cnt \in Nat /\ read_ptr \in Nat
         /\ MaxBytes \in Nat /\ MaxLine \in Nat
         /\ taken <= put /\ put <= MaxBytes
BY DEF TypeOK

\* writen's count starts from what was given before.
LEMMA PlusZero == ASSUME NEW i \in Nat PROVE i + 0 = i
OBVIOUS

\* Nothing is written, stored or read ahead at the start.
LEMMA InitInv == Init => Inv
BY DEF Init, Inv, TypeOK, WrittenInFull, InOrder, Ahead, Calling, ReturnsWhole, Blank

(* The writer. *)

\* writen is called with the next bytes.
LEMMA WritenInv == ASSUME Inv, NEW size \in Sizes, Writen(size) PROVE Inv'
<1>1. TypeOK /\ WrittenInFull /\ given \in Bytes /\ MaxBytes \in Nat /\ put \in Nat
      /\ size \in Nat \ {0}
  BY DEF Inv, TypeOK
<1>2. n' \in Bytes /\ ptr' \in 0..n' /\ given' + n' <= MaxBytes /\ given' = given
      /\ wpc' = "writing"
  BY <1>1 DEF Writen
<1>3. UNCHANGED <<reader, net, flow, put, taken, rpc, want, buf, got, start, ret,
                  read_buf, read_cnt, read_ptr>>
  BY DEF Writen, netVars, callVars, aheadVars
<1>4. TypeOK' BY <1>1, <1>2, <1>3 DEF TypeOK
<1>5. WrittenInFull' BY <1>1, <1>2, <1>3 DEF WrittenInFull, Writen, TypeOK
<1>6. InOrder' /\ Ahead' /\ Calling' /\ ReturnsWhole'
  BY <1>3 DEF Inv, InOrder, Ahead, Calling, ReturnsWhole
<1> QED BY <1>4, <1>5, <1>6 DEF Inv

\* The bytes written are the next of the buffer.
LEMMA WriteSomeInv == ASSUME Inv, NEW k \in 1..MaxBytes, WriteSome(k) PROVE Inv'
<1> USE DEF Inv
<1>1. flow' = [i \in 1..MaxBytes |->
                 IF put < i /\ i <= put + k THEN given + ptr + (i - put) ELSE flow[i]]
  BY DEF WriteSome, Copied, TypeOK
<1>2. put' = put + k /\ taken' = taken /\ net' = net /\ net = "open"
      /\ k <= n - ptr /\ put + k <= taken + Room
  BY DEF WriteSome
<1>3. put = given + ptr BY DEF WrittenInFull
<1>4. given' + ptr' = given + ptr + k /\ (wpc' = "idle" => ptr' = 0) /\ given' \in Bytes /\ n' \in Bytes
      /\ ptr' \in 0..n' /\ given' + n' <= MaxBytes /\ wpc' \in {"idle", "writing"}
  <2>1. given \in Nat /\ n \in Nat /\ ptr \in 0..n /\ given + n <= MaxBytes
        /\ MaxBytes \in Nat /\ k \in Nat
    BY DEF TypeOK
  <2>2. CASE Returns(k)
    <3>1. ptr + k = n /\ wpc' = "idle" /\ given' = given + n /\ n' = 0 /\ ptr' = 0
      BY <2>2 DEF WriteSome, Returns
    <3> QED BY <2>1, <3>1
  <2>3. CASE ~Returns(k)
    <3>1. wpc' = "writing" /\ given' = given /\ n' = n /\ ptr' = ptr + k
      BY <2>3 DEF WriteSome
    <3> QED BY <2>1, <1>2, <3>1
  <2> QED BY <2>2, <2>3
<1>5. put' \in Bytes BY <1>2, <1>3, <1>4 DEF TypeOK
<1>6. flow' \in [1..MaxBytes -> Bytes]
  BY <1>1, <1>2, <1>3, <1>5 DEF TypeOK
<1>7. TypeOK'
  <2>1. UNCHANGED <<reader, rpc, want, buf, got, start, ret, read_buf, read_cnt, read_ptr>>
    BY DEF WriteSome, callVars, aheadVars
  <2>2. taken \in Nat /\ put \in Nat /\ taken <= put /\ k \in Nat BY DEF TypeOK
  <2>3. taken' \in 0..put' /\ put' <= taken' + Room BY <1>2, <2>2
  <2> QED BY <1>2, <1>4, <1>5, <1>6, <2>1, <2>3 DEF TypeOK
<1>8. WrittenInFull'
  <2>1. given \in Nat /\ ptr \in Nat /\ put \in Nat /\ MaxBytes \in Nat /\ k \in Nat
        /\ given' \in Nat /\ ptr' \in Nat
    BY <1>4 DEF TypeOK
  <2>2. put' = given' + ptr' /\ (wpc' = "idle" => put' = given')
    <3>1. given' + ptr' = put + k BY <1>3, <1>4, <2>1
    <3>2. put' = put + k BY <1>2
    <3>3. wpc' = "idle" => ptr' = 0 BY <1>4
    <3>4. given' + 0 = given' BY <2>1, PlusZero
    <3> QED BY <3>1, <3>2, <3>3, <3>4
  <2>3. ASSUME NEW i \in 1..put' PROVE flow'[i] = i
    <3>1. i \in 1..MaxBytes BY <1>5, <2>1
    <3>2. CASE put < i BY <3>1, <3>2, <1>1, <1>2, <1>3, <2>1
    <3>3. CASE ~(put < i)
      BY <3>1, <3>3, <1>1, <2>1, <1>2 DEF WrittenInFull
    <3> QED BY <3>2, <3>3
  <2> QED BY <2>2, <2>3 DEF WrittenInFull
<1>9. InOrder' /\ Ahead' /\ Calling' /\ ReturnsWhole'
  BY <1>2 DEF WriteSome, callVars, aheadVars, InOrder, Ahead, Calling, ReturnsWhole
<1> QED BY <1>7, <1>8, <1>9

\* An error or the end of the writer moves no byte.
LEMMA WriterStopsInv == ASSUME Inv, WriteFails \/ WriterEnds \/ Breaks PROVE Inv'
BY DEF Inv, TypeOK, WrittenInFull, InOrder, Ahead, Calling, ReturnsWhole, WriteFails,
       WriterEnds, Breaks, netVars, writerVars, callVars, aheadVars

-----------------------------------------------------------------------------
(* The reader. *)

\* A call starts where the last one stopped.
LEMMA CallInv == ASSUME Inv, NEW size \in Sizes, Call(size) PROVE Inv'
<1> USE DEF Inv
<1>1. /\ rpc' = "reading" /\ want' = size /\ got' = 0 /\ start' = start + got /\ ret' = 0
      /\ buf' = Blank(MaxBytes) /\ (reader = "readline" => size > 1)
      /\ UNCHANGED <<reader, writerVars, netVars, aheadVars>>
  BY DEF Call
<1>2. start + got <= taken BY Numbers DEF Ahead
<1>3. buf' \in [1..MaxBytes -> Bytes] /\ start' \in Bytes
  BY <1>1, <1>2, Numbers DEF Blank
<1>4. size \in Nat \ {0} OBVIOUS
<1>5. TypeOK' BY <1>1, <1>3, <1>4 DEF TypeOK, netVars, writerVars, aheadVars
<1>6. WrittenInFull' BY <1>1 DEF WrittenInFull, netVars, writerVars
<1>7. Ahead' BY <1>1, Numbers DEF Ahead, netVars, aheadVars
<1>8. InOrder' /\ Calling' /\ ReturnsWhole'
  BY <1>1, <1>4 DEF InOrder, Calling, ReturnsWhole
<1> QED BY <1>5, <1>6, <1>7, <1>8

\* readn's part of the stream goes on behind what it has stored.
LEMMA ReadSomeInv == ASSUME Inv, NEW k \in 1..MaxBytes, ReadSome(k) PROVE Inv'
<1> USE DEF Inv
<1>1. buf' = [i \in 1..MaxBytes |->
                IF got < i /\ i <= got + k THEN flow[taken + (i - got)] ELSE buf[i]]
  BY DEF ReadSome, Store, Copied, TypeOK
<1>2. /\ taken' = taken + k /\ got' = got + k /\ start' = start /\ want' = want
      /\ k <= want - got /\ k <= put - taken
      /\ reader = "readn" /\ rpc = "reading"
      /\ UNCHANGED <<reader, writerVars, net, flow, put, aheadVars>>
  BY DEF ReadSome, Reading
<1>3. start + got = taken /\ read_cnt = 0 BY <1>2 DEF Ahead, TypeOK
<1>4. \A i \in 1..k : flow[taken + i] = taken + i
  BY <1>2 DEF WrittenInFull, TypeOK
<1>5. \A i \in 1..MaxBytes : got < i /\ i <= got + k => buf'[i] = start + i
  <2> SUFFICES ASSUME NEW i \in 1..MaxBytes, got < i, i <= got + k
               PROVE buf'[i] = start + i
    OBVIOUS
  <2>1. i - got \in 1..k BY Numbers
  <2>2. flow[taken + (i - got)] = taken + (i - got) BY <1>4, <2>1
  <2>3. taken + (i - got) = start + i BY <1>3, Numbers
  <2> QED BY <1>1, <2>2, <2>3
<1>6. buf' \in [1..MaxBytes -> Bytes]
  <2> SUFFICES ASSUME NEW i \in 1..MaxBytes PROVE buf'[i] \in Bytes
    BY <1>1
  <2>1. CASE got < i /\ i <= got + k
    <3>1. buf'[i] = start + i BY <2>1, <1>5
    <3>2. start + i <= put BY <2>1, <1>2, <1>3, Numbers
    <3> QED BY <3>1, <3>2, Numbers
  <2>2. CASE ~(got < i /\ i <= got + k) BY <2>2, <1>1 DEF TypeOK
  <2> QED BY <2>1, <2>2
<1>7. (rpc' = "idle" /\ ret' = want /\ got' = want) \/ (rpc' = rpc /\ ret' = ret /\ got' < want)
  BY <1>2 DEF ReadSome, TypeOK
<1>8. TypeOK' BY <1>2, <1>6, <1>7 DEF TypeOK, writerVars, aheadVars
<1>9. WrittenInFull' BY <1>2 DEF WrittenInFull, writerVars
<1>10. InOrder'
  <2> SUFFICES ASSUME NEW i \in 1..(got + k) PROVE buf'[i] = start + i
    BY <1>2 DEF InOrder
  <2>1. i \in 1..MaxBytes BY <1>2, <1>3, Numbers
  <2>2. CASE got < i BY <1>5, <2>1, <2>2, Numbers
  <2>3. CASE ~(got < i)
    <3>1. buf'[i] = buf[i] BY <1>1, <2>1, <2>3
    <3> QED BY <2>3, <3>1, Numbers DEF InOrder
  <2> QED BY <2>2, <2>3
<1>11. Ahead' BY <1>2, <1>3 DEF Ahead, aheadVars, TypeOK
<1>12. Calling' BY <1>2, <1>7 DEF Calling
<1>13. ReturnsWhole' BY <1>2, <1>7 DEF ReturnsWhole
<1> QED BY <1>8, <1>9, <1>10, <1>11, <1>12, <1>13

\* my_read's buffer holds the bytes that follow.
LEMMA FillInv == ASSUME Inv, NEW k \in 1..MaxBytes, Fill(k) PROVE Inv'
<1> USE DEF Inv
<1>1. read_buf' = [i \in 1..MaxLine |->
                     IF 0 < i /\ i <= 0 + k THEN flow[taken + (i - 0)] ELSE read_buf[i]]
  BY DEF Fill, Copied, TypeOK
<1>2. /\ taken' = taken + k /\ read_cnt' = k /\ read_ptr' = 0 /\ read_cnt = 0
      /\ k <= MaxLine /\ k <= put - taken /\ reader = "readline"
      /\ UNCHANGED <<reader, writerVars, net, flow, put, callVars>>
  BY DEF Fill, Reading
<1>3. start + got = taken BY <1>2 DEF Ahead, TypeOK
<1>4. \A i \in 1..k : read_buf'[i] = taken + i /\ taken + i \in Bytes
  BY <1>1, <1>2 DEF WrittenInFull, TypeOK
<1>5. read_buf' \in [1..MaxLine -> Bytes]
  <2> SUFFICES ASSUME NEW i \in 1..MaxLine PROVE read_buf'[i] \in Bytes
    BY <1>1
  <2>1. CASE i \in 1..k BY <2>1, <1>4
  <2>2. CASE i \notin 1..k BY <2>2, <1>1, Numbers DEF TypeOK
  <2> QED BY <2>1, <2>2
<1>9. taken' \in 0..put' /\ put' <= taken' + Room /\ read_cnt' \in 0..MaxLine
      /\ read_ptr' \in 0..(MaxLine - read_cnt')
  BY <1>2, Numbers DEF TypeOK
<1>6. TypeOK' BY <1>2, <1>5, <1>9 DEF TypeOK, writerVars, callVars
<1>7. WrittenInFull' /\ InOrder' /\ Calling' /\ ReturnsWhole'
  BY <1>2 DEF WrittenInFull, InOrder, Calling, ReturnsWhole, writerVars, callVars
<1>8. Ahead'
  <2>1. start' + got' + read_cnt' = taken' BY <1>2, <1>3, Numbers DEF callVars
  <2>2. ASSUME NEW j \in 1..k PROVE read_buf'[0 + j] = start + got + j
    BY <1>3, <1>4
  <2> QED BY <1>2, <2>1, <2>2 DEF Ahead, callVars
<1> QED BY <1>6, <1>7, <1>8

\* readline takes one byte of my_read's buffer.
LEMMA TakeInv == ASSUME Inv, Take PROVE Inv'
<1> USE DEF Inv
<1> DEFINE c == read_buf[read_ptr + 1]
<1>1. /\ buf' = [buf EXCEPT ![got + 1] = c] /\ got' = got + 1
      /\ read_cnt' = read_cnt - 1 /\ read_ptr' = read_ptr + 1 /\ read_cnt > 0
      /\ reader = "readline" /\ rpc = "reading"
      /\ UNCHANGED <<reader, writerVars, netVars, want, start, read_buf>>
  BY DEF Take, Reading
<1>2. c = start + got + 1 /\ start + got + 1 <= taken /\ got + 1 \in 1..MaxBytes
  BY <1>1 DEF Ahead, TypeOK
<1>3. buf' \in [1..MaxBytes -> Bytes] BY <1>1, <1>2 DEF TypeOK
<1>4. /\ got + 1 < want
      /\ \A i \in 1..got : buf[i] \notin Ends
  BY <1>1 DEF Calling
<1>5. \/ rpc' = "idle" /\ ret' \in Int /\ (c \in Ends \/ got' = want - 1)
      \/ rpc' = "reading" /\ ret' = ret /\ c \notin Ends /\ got' + 1 < want
  BY <1>1, <1>4 DEF Take, Newline, NoSpace, TypeOK
<1>6. TypeOK' BY <1>1, <1>3, <1>4, <1>5 DEF TypeOK, writerVars, netVars
<1>7. WrittenInFull' BY <1>1 DEF WrittenInFull, writerVars, netVars
<1>8. InOrder'
  <2> SUFFICES ASSUME NEW i \in 1..(got + 1) PROVE buf'[i] = start + i
    BY <1>1 DEF InOrder
  <2>1. i \in 1..MaxBytes /\ buf \in [1..MaxBytes -> Bytes]
    BY <1>2, Numbers DEF TypeOK
  <2>2. buf'[i] = IF i = got + 1 THEN c ELSE buf[i] BY <1>1, <2>1
  <2>3. i # got + 1 => i \in 1..got BY Numbers
  <2>4. i # got + 1 => buf[i] = start + i BY <2>3 DEF InOrder
  <2>5. i = got + 1 => c = start + i BY <1>2, Numbers
  <2> QED BY <2>2, <2>4, <2>5
<1>9. Ahead'
  <2>1. start' + got' + read_cnt' = taken' BY <1>1, Numbers DEF Ahead, netVars
  <2>2. ASSUME NEW j \in 1..(read_cnt - 1)
        PROVE  read_buf[read_ptr + 1 + j] = start + (got + 1) + j
    <3>1. 1 + j \in 1..read_cnt BY Numbers
    <3>2. read_buf[read_ptr + (1 + j)] = start + got + (1 + j) BY <3>1 DEF Ahead
    <3> QED BY <3>2, Numbers
  <2> QED BY <1>1, <2>1, <2>2 DEF Ahead
<1>10. /\ \A i \in 1..(got' - 1) : buf'[i] \notin Ends
       /\ buf'[got'] = c
  BY <1>1, <1>2, <1>4 DEF TypeOK
<1>11. Calling' BY <1>1, <1>5, <1>10 DEF Calling, TypeOK
<1>12. ReturnsWhole' BY <1>1, <1>5, <1>10 DEF ReturnsWhole, TypeOK
<1> QED BY <1>6, <1>7, <1>8, <1>9, <1>11, <1>12

\* A call that meets the end of the stream returns what it has.
LEMMA ReadStopsInv == ASSUME Inv, ReadEnd \/ LineEnd \/ ReadFails PROVE Inv'
<1> USE DEF Inv
<1>1. /\ UNCHANGED <<reader, writerVars, netVars, want, buf, got, start, aheadVars>>
      /\ rpc = "reading" /\ ret' \in Int
      /\ \/ rpc' = "exited"
         \/ rpc' = "idle" /\ AtEnd /\ read_cnt = 0
  BY Numbers DEF ReadEnd, LineEnd, ReadFails, Reading, Ahead
<1>2. TypeOK' BY <1>1 DEF TypeOK, writerVars, netVars, aheadVars
<1>3. WrittenInFull' /\ InOrder' /\ Ahead' /\ Calling'
  BY <1>1 DEF WrittenInFull, InOrder, Ahead, Calling, writerVars, netVars, aheadVars
<1>4. ReturnsWhole'
  <2>1. CASE rpc' = "exited" BY <2>1 DEF ReturnsWhole
  <2>2. CASE rpc' = "idle" /\ AtEnd /\ read_cnt = 0
    <3>1. start + got = put /\ net = "shut" BY <2>2, Numbers DEF Ahead, AtEnd
    <3>2. reader = "readline" => \A i \in 1..(got - 1) : buf[i] \notin Ends
      BY <1>1, Numbers DEF Calling
    <3> QED BY <1>1, <3>1, <3>2 DEF ReturnsWhole, netVars
  <2> QED BY <1>1, <2>1, <2>2
<1> QED BY <1>2, <1>3, <1>4

-----------------------------------------------------------------------------
\* Nothing else disturbs the invariant.
LEMMA StutterInv == ASSUME Inv, UNCHANGED vars PROVE Inv'
BY DEF Inv, TypeOK, WrittenInFull, InOrder, Ahead, Calling, ReturnsWhole, vars,
       netVars, writerVars, callVars, aheadVars

\* Every step keeps the invariant.
LEMMA NextInv == Inv /\ [Next]_vars => Inv'
<1> SUFFICES ASSUME Inv, [Next]_vars PROVE Inv'
  OBVIOUS
<1>1. ASSUME NEW size \in Sizes, Writen(size) \/ Call(size) PROVE Inv'
  BY <1>1, WritenInv, CallInv
<1>2. CASE Write BY <1>2, WriterStopsInv, WriteSomeInv DEF Write
<1>3. CASE Read BY <1>3, ReadStopsInv, TakeInv, ReadSomeInv, FillInv DEF Read
<1>4. CASE WriterEnds \/ Breaks BY <1>4, WriterStopsInv
<1>5. CASE UNCHANGED vars BY <1>5, StutterInv
<1> QED BY <1>1, <1>2, <1>3, <1>4, <1>5 DEF Next

\* All of it holds in every state.
LEMMA Invariance == Spec => []Inv
BY InitInv, NextInv, PTL DEF Spec

-----------------------------------------------------------------------------
\* Neither end ever writes or reads past the buffer it was given, and
\* readline leaves a place for the final 0 (sockwrap.c 186-320).
THEOREM TypeCorrect == Spec => []TypeOK
BY Invariance, PTL DEF Inv

\* "reads exactly n bytes": calls return the bytes of the stream in order,
\* none lost and none twice, whatever single reads return (186-284).
THEOREM BytesInOrder == Spec => []InOrder
BY Invariance, PTL DEF Inv

\* writen has written all it was given when it returns, and nothing else is
\* ever in the stream (296-320).
THEOREM WritenWritesAll == Spec => []WrittenInFull
BY Invariance, PTL DEF Inv

\* A call that returns has all it asked for, or one line, or is at the end of
\* the stream (186-284).
THEOREM CallsReturnWhole == Spec => []ReturnsWhole
BY Invariance, PTL DEF Inv
=============================================================================
