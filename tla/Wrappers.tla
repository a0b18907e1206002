------------------------------- MODULE Wrappers -------------------------------
(***************************************************************************)
(* The functions of sockwrap.c that move bytes: writen() and Writen() at   *)
(* one end of a connection; at the other either readn() or readline() with *)
(* my_read()'s buffer, called again and again by a program that uses one   *)
(* of the two.  One write() may take less than it is given, one read()     *)
(* return less than it is asked for.  A call that a signal interrupts is   *)
(* made again and leaves everything as it was: it is a stuttering step.    *)
(*                                                                         *)
(* The i-th byte the writer's program hands over is the number i.          *)
(***************************************************************************)
EXTENDS Integers

CONSTANTS Sizes,    \* what the programs ask for: n or maxlen
          Ends,     \* the bytes that are newlines
          MaxLine,  \* MAXLINE, the size of my_read's buffer
          Room,     \* bytes that fit in the socket's buffers
          MaxBytes  \* bytes handed over, a bound of the model

ASSUME WrapAssumption ==
  /\ Sizes \subseteq Nat \ {0} /\ Ends \subseteq Nat
  /\ MaxLine \in Nat \ {0} /\ Room \in Nat \ {0} /\ MaxBytes \in Nat

VARIABLES
  reader,   \* "readn" or "readline"; never changes
  wpc,      \* writer: "idle", "writing" (in writen), or "exited"
  given,    \* bytes that completed calls of writen have written
  n, ptr,   \* writen: the size of its buffer, and how much is written
  net,      \* "open", "shut" by the writer, or "broken"
  flow,     \* the bytes write() has taken, in order
  put,      \* how many these are
  taken,    \* how many of them read() has returned
  rpc,      \* reader: "idle", "reading" (in a call), or "exited"
  want,     \* n or maxlen of the call
  buf, got, \* the caller's buffer, and how much of it is stored
  start,    \* bytes that earlier calls have returned
  ret,      \* what the last call returned
  read_buf, \* my_read: its static buffer,
  read_cnt, \* the bytes left in it,
  read_ptr  \* and the bytes used of it

writerVars == <<wpc, given, n, ptr>>
netVars == <<net, flow, put, taken>>
callVars == <<rpc, want, buf, got, start, ret>>
aheadVars == <<read_buf, read_cnt, read_ptr>>
vars == <<reader, writerVars, netVars, callVars, aheadVars>>

Bytes == 0..MaxBytes
Blank(size) == [i \in 1..size |-> 0]

Init ==
  /\ reader \in {"readn", "readline"}
  /\ wpc = "idle" /\ given = 0 /\ n = 0 /\ ptr = 0
  /\ net = "open" /\ flow = Blank(MaxBytes) /\ put = 0 /\ taken = 0
  /\ rpc = "idle" /\ want = 0 /\ buf = Blank(MaxBytes) /\ got = 0
  /\ start = 0 /\ ret = 0
  /\ read_buf = Blank(MaxLine) /\ read_cnt = 0 /\ read_ptr = 0

\* k bytes copied behind the first "at" of an array.
Copied(array, at, k, bytes) ==
  [i \in DOMAIN array |-> IF at < i /\ i <= at + k THEN bytes[i - at] ELSE array[i]]

-----------------------------------------------------------------------------
(* writen *)

Writen(size) ==
  /\ wpc = "idle" /\ given + size <= MaxBytes
  /\ wpc' = "writing" /\ n' = size /\ ptr' = 0
  /\ UNCHANGED <<reader, given, netVars, callVars, aheadVars>>

\* Mutant: what one write() takes is enough.
Returns_Short(k) == TRUE

\* nleft is 0.
Returns(k) == ptr + k = n

\* write() takes k of the bytes left, as many as there is room for.
WriteSome(k) ==
  /\ wpc = "writing" /\ net = "open"
  /\ k <= n - ptr /\ put + k <= taken + Room
  /\ flow' = Copied(flow, put, k, [j \in 1..k |-> given + ptr + j])
  /\ put' = put + k
  /\ IF Returns(k)
       THEN wpc' = "idle" /\ given' = given + n /\ n' = 0 /\ ptr' = 0
       ELSE ptr' = ptr + k /\ UNCHANGED <<wpc, given, n>>
  /\ UNCHANGED <<reader, net, taken, callVars, aheadVars>>

\* An error other than EINTR: Writen leaves through err_sys().
WriteFails ==
  /\ wpc = "writing" /\ net = "broken"
  /\ wpc' = "exited"
  /\ UNCHANGED <<reader, given, n, ptr, netVars, callVars, aheadVars>>

\* The writer closes the connection, or ends in the middle of a call.
WriterEnds ==
  /\ wpc # "exited"
  /\ wpc' = "exited"
  /\ net' = IF net = "open" THEN "shut" ELSE net
  /\ UNCHANGED <<reader, given, n, ptr, flow, put, taken, callVars, aheadVars>>

\* The connection is reset; what is on its way is lost.
Breaks ==
  /\ net # "broken"
  /\ net' = "broken"
  /\ UNCHANGED <<reader, writerVars, flow, put, taken, callVars, aheadVars>>

-----------------------------------------------------------------------------
(* readn and readline *)

Call(size) ==
  /\ rpc = "idle" /\ (reader = "readline" => size > 1)
  /\ rpc' = "reading" /\ want' = size
  /\ buf' = Blank(MaxBytes) /\ got' = 0 /\ start' = start + got /\ ret' = 0
  /\ UNCHANGED <<reader, writerVars, netVars, aheadVars>>

Reading(function) == rpc = "reading" /\ reader = function

\* read() has nothing left to return and never will.
AtEnd == net = "shut" /\ taken = put

\* Mutant: the buffer's pointer stays where it is.
Store_Ahead(k) == buf' = Copied(buf, 0, k, [j \in 1..k |-> flow[taken + j]])

Store(k) == buf' = Copied(buf, got, k, [j \in 1..k |-> flow[taken + j]])

\* Mutant: no read() returns less than it is asked for.
ReadSome_All(k) ==
  /\ Reading("readn") /\ net # "broken"
  /\ k = want - got /\ k <= put - taken
  /\ Store(k)
  /\ taken' = taken + k /\ got' = got + k
  /\ rpc' = "idle" /\ ret' = want
  /\ UNCHANGED <<reader, writerVars, net, flow, put, want, start, aheadVars>>

\* read() returns k of the bytes readn has left to read.
ReadSome(k) ==
  /\ Reading("readn") /\ net # "broken"
  /\ k <= want - got /\ k <= put - taken
  /\ Store(k)
  /\ taken' = taken + k /\ got' = got + k
  /\ IF got + k = want THEN rpc' = "idle" /\ ret' = want
                       ELSE UNCHANGED <<rpc, ret>>
  /\ UNCHANGED <<reader, writerVars, net, flow, put, want, start, aheadVars>>

\* read() returns 0: readn returns what it has.
ReadEnd ==
  /\ Reading("readn") /\ AtEnd
  /\ rpc' = "idle" /\ ret' = got
  /\ UNCHANGED <<reader, writerVars, netVars, want, buf, got, start, aheadVars>>

\* my_read: its buffer is empty and filled by one read().
Fill(k) ==
  /\ Reading("readline") /\ net # "broken"
  /\ read_cnt = 0 /\ k <= MaxLine /\ k <= put - taken
  /\ read_buf' = Copied(read_buf, 0, k, [j \in 1..k |-> flow[taken + j]])
  /\ read_cnt' = k /\ read_ptr' = 0
  /\ taken' = taken + k
  /\ UNCHANGED <<reader, writerVars, net, flow, put, callVars>>

\* Mutant: the newline is not looked for.
Newline_Missed(c) == FALSE

Newline(c) == c \in Ends

\* Mutant: n <= maxlen.
NoSpace_OneMore == got + 1 = want

\* With one byte more, maxlen - 1 are stored.
NoSpace == got + 2 = want

\* readline stores what my_read returns, and may have a line, or no space.
\* It counts one more than it stored unless it stopped at a newline.
Take ==
  LET c == read_buf[read_ptr + 1] IN
  /\ Reading("readline") /\ read_cnt > 0
  /\ buf' = [buf EXCEPT ![got + 1] = c] /\ got' = got + 1
  /\ read_cnt' = read_cnt - 1 /\ read_ptr' = read_ptr + 1
  /\ IF Newline(c) THEN rpc' = "idle" /\ ret' = got + 1
     ELSE IF NoSpace THEN rpc' = "idle" /\ ret' = want
     ELSE UNCHANGED <<rpc, ret>>
  /\ UNCHANGED <<reader, writerVars, netVars, want, start, read_buf>>

\* Mutant: only an end of file at the beginning ends the call.
LineEnd_Waits ==
  /\ Reading("readline") /\ AtEnd /\ read_cnt = 0 /\ got = 0
  /\ rpc' = "idle" /\ ret' = 0
  /\ UNCHANGED <<reader, writerVars, netVars, want, buf, got, start, aheadVars>>

\* my_read returns 0: a line without an end, or nothing.
LineEnd ==
  /\ Reading("readline") /\ AtEnd /\ read_cnt = 0
  /\ rpc' = "idle" /\ ret' = (IF got = 0 THEN 0 ELSE got + 1)
  /\ UNCHANGED <<reader, writerVars, netVars, want, buf, got, start, aheadVars>>

\* An error other than EINTR: Readn and Readline leave through err_sys();
\* what the call has read is lost.
ReadFails ==
  /\ rpc = "reading" /\ net = "broken" /\ read_cnt = 0
  /\ rpc' = "exited" /\ ret' = -1
  /\ UNCHANGED <<reader, writerVars, netVars, want, buf, got, start, aheadVars>>

-----------------------------------------------------------------------------
Write == WriteFails \/ \E k \in 1..MaxBytes : WriteSome(k)

Read == \/ ReadEnd \/ Take \/ LineEnd \/ ReadFails
        \/ \E k \in 1..MaxBytes : ReadSome(k) \/ Fill(k)

Next == \/ \E size \in Sizes : Writen(size) \/ Call(size)
        \/ Write \/ Read \/ WriterEnds \/ Breaks

(* A call that is made goes on; the programs need not make any. *)
Spec == Init /\ [][Next]_vars /\ WF_vars(Write) /\ WF_vars(Read)
-----------------------------------------------------------------------------
(* Properties. *)

\* The counters stay within the buffers: neither end writes or reads past
\* what it was given, and readline leaves a place for the final 0.
TypeOK ==
  /\ reader \in {"readn", "readline"}
  /\ wpc \in {"idle", "writing", "exited"}
  /\ given \in Bytes /\ n \in Bytes /\ ptr \in 0..n /\ given + n <= MaxBytes
  /\ net \in {"open", "shut", "broken"}
  /\ flow \in [1..MaxBytes -> Bytes]
  /\ put \in Bytes /\ taken \in 0..put /\ put <= taken + Room
  /\ rpc \in {"idle", "reading", "exited"}
  /\ want \in Sizes \cup {0}
  /\ buf \in [1..MaxBytes -> Bytes] /\ start \in Bytes /\ ret \in Int
  /\ got \in 0..want
  /\ got < want \/ want = 0 \/ reader = "readn"
  /\ read_buf \in [1..MaxLine -> Bytes]
  /\ read_cnt \in 0..MaxLine /\ read_ptr \in 0..(MaxLine - read_cnt)

\* "reads exactly n bytes": whatever the single calls of read() and write()
\* move, a call stores the bytes that follow those of the call before, none
\* lost, none twice (186-206, 232-284 and 296-320).
InOrder == \A i \in 1..got : buf[i] = start + i

\* When writen has returned, all it was given has been written, in order;
\* when it is interrupted by an error, a beginning of it (296-320).
WrittenInFull == /\ put = given + ptr /\ (wpc = "idle" => put = given)
                 /\ \A i \in 1..put : flow[i] = i

\* A call returns early only at the end of the stream, and readline with a
\* whole line and not more than one: no newline is stored before the last
\* byte (186-206, 258-284).
ReturnsWhole ==
  rpc = "idle" /\ want > 0 =>
    /\ reader = "readn" => got = want \/ (net # "open" /\ start + got = put)
    /\ reader = "readline" =>
         /\ \/ got = want - 1 \/ (got > 0 /\ buf[got] \in Ends)
            \/ net # "open" /\ start + got = put
         /\ \A i \in 1..(got - 1) : buf[i] \notin Ends

\* A call comes to an end when what it waits for has been written, or nothing
\* more will be; the read-ahead is not forgotten (234-284).
Enough == \/ put - start >= want \/ wpc = "exited"
          \/ reader = "readline" /\ \E i \in Ends : start < i /\ i <= put
CallEnds == rpc = "reading" /\ Enough ~> rpc # "reading"

\* writen comes to an end while the other end is in a call.
WriteEnds == wpc = "writing" ~> wpc # "writing" \/ rpc # "reading"
=============================================================================
