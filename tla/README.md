# Verification of the network programming labs

TLA+ models of the client/server programs of this repository (Labs 1 to 3 of a
course on distributed programming in C), the TLC runs that check them on small
instances, and proofs, checked by TLAPS, that hold for every value of the
parameters.

Run a check with `tlc -config <cfg> <MC module>`, for instance
`tlc -config FileExchange_pass.cfg MCFileExchange`, and the proofs with
`tlapm <module>` for each of the eight modules named `*Proofs`.

## 1. Inventory

| Component | State it keeps | Operations | What is hard |
|---|---|---|---|
| Semaphore server, `Lab3/3.1/server.c` | a semaphore of `MAX_CHILDREN` permits, `connfd`, descriptors, the children | `sem_wait`, `accept`, `fork`, `close`; `sig_handler`; `file_transfer` in each child | the handler runs between any two steps, SIGCHLDs merge, children die at any write |
| Counting fork server, `Lab3/3.1/server_tcp_concorrente_OLD.c` | `n_children` | the limit test with `waitpid`, `Accept`, `Fork`, `n_children++`; `sig_chld`; `receiver` in each child | a counter shared with a signal handler, two `waitpid()` for the same children, a connection the father keeps open |
| Preforking server, `Lab3/3.3/server_tcp_preforking.c` | `pids[]`, one connection per child | fork of the pool, `pause`, `sig_int`; accept loop and `receiver` in each child | partial lines, clients that vanish, shutting down a pool |
| The same with a time-out, `Lab3/3.3/server_tcp_timeout_oob.c` | the same | `select`, `read_timeout` and `writen` in `receiver` | time-outs racing late lines, split lines, SIGPIPE |
| Clients of Lab 3.1 and 3.3 (`client.c`, the same program twice) | the socket | send a request, wait two seconds, receive a file | answers that come late, two lines for a request, reads of a line, a size and a content without a time-out |
| Sequential file server and client, `Lab2/2.3` | the connection | one request, one file | the server returns without closing, late answers, ends in the middle of a file |
| XDR file server and client, `Lab3/3.4` | stdio and XDR streams | decode, read file, encode | streams opened anew for each message lose what they read ahead; no time-out |
| UDP echo server with a quota, `Lab2/2.2/server.c` | `clients[]`, `npck[]`, `tot_clients` | `prot_text` | a full table; lost, duplicated and reordered datagrams |
| UDP clients and servers, `Lab1/1.4`, `1.5`, `Lab2/2.1`, `2.2/client.c` | a count of `select()` calls | send, wait, take an answer | answers carry no number; losses; a server that exits |
| Sum servers and clients, `Lab1/1.1`, `1.3`, `Lab2/2.4` | `my_read`'s buffer or a stdio stream, `n_read` | read a line, parse, add, answer; the same in XDR | segmentation and pipelining, read-ahead across lines and connections, 16-bit sums |
| TCP connection example, `Lab1/1.2` | nothing | connect, close | nothing |
| `sockwrap.c`, `errlib.c`, copied in each directory | `my_read`'s static buffer | `readn`, `writen`, `readline`, wrappers that exit on errors | short reads and writes, EINTR, the end of the stream in the middle of a call |

How they interact: every client talks to its server through one socket. Inside
the servers of Lab 3 the processes interact through the listen queue (all of
them accept from it), inherited descriptors, the death of children (SIGCHLD and
`waitpid`), signals sent with `kill`, and, in Lab 3.1, the semaphore, which is
private to the father and shared only with its own signal handler.

What makes each of them correct:
* 3.1: at most `MAX_CHILDREN` clients at a time; a permit for every child, given
  back once; dead children reaped; connections private to their child; the
  father able to serve the next client whatever the last ones did.
* old 3.1: the same limit, held by a counter; no zombies; no wait for ever.
* 3.3: each line answered once, in order; a child comes back when its client is
  gone (or silent, with the time-out); SIGINT ends the whole pool.
* File clients: the file stored after a request is the one that was asked for, or else
  one asked for before, and all of it; no wait for ever.
* 2.2: three echoes per known address, whatever the network does.
* UDP clients: an answer belongs to the datagram sent last; the wait of 2.1 ends.
* Sum: each line answered once and in order with its own sum; the printed sum is
  that of the operands sent.
* Wrappers: bytes neither lost, doubled nor reordered; a call returns what it was
  asked for unless the stream has ended.

## 2. Modules

| Module | Models | Checked by |
|---|---|---|
| `Tcp` | external: the kernel's TCP socket as `read()`, `write()` and `close()` show it | through the servers |
| `BoundedService` | abstract: sessions begin and end, never more than `Limit` | `ServiceSpec` of `SemServer` |
| `SemServer` | `Lab3/3.1/server.c` | `MCSemServer`, `SemServerProofs` |
| `OldForkServer` | `Lab3/3.1/server_tcp_concorrente_OLD.c` | `MCOldForkServer`, `OldForkServerProofs` |
| `PreforkServer` | both programs of `Lab3/3.3` | `MCPreforkServer`, `PreforkServerProofs` |
| `FileExchange` | clients composed with servers: `Lab2/2.3`, `3.1`, `3.3`, `3.4` | `MCFileExchange`, `FileExchangeProofs` |
| `UdpQuota` | the server of `Lab2/2.2`, many clients | `MCUdpQuota`, `UdpQuotaProofs` |
| `UdpExchange` | clients composed with servers: `Lab1/1.4`, `1.5`, `Lab2/2.1`, `2.2` | `MCUdpExchange`, `UdpExchangeProofs` |
| `SumServer` | `Lab1/1.1`, `1.2`, `1.3`, `Lab2/2.4`, and `my_read`/`readline` as they use it | `MCSumServer`, `SumServerProofs` |
| `Wrappers` | `writen`, `readn`, `my_read`, `readline` of `sockwrap.c` | `MCWrappers`, `WrappersProofs` |

### Tcp
The states a server can tell apart: the client's end open, closed (`fin`), closed
and already written to (`finw`, a RST is coming), reset (`reset`, the error is
reported once), and broken (`broken`: a write raises SIGPIPE). This is Linux'
behaviour; no program of the repository changes the action of SIGPIPE.

### SemServer
An action per system call of the father (`SemWait`, `Accept`, `AcceptFails`,
`Fork`, `ForkFails`, `CloseConn`), four for the handler (`Deliver`, `Reap`,
`Post`, `HandlerReturns`), and for a child one per command read (`Request`,
`RequestAtEOF`, `RequestNoConn`) and one per `write()` of an answer (`Send`).
The father does nothing while its handler runs. A signal may be delivered at any
later time, which allows more behaviours than Linux has. `Spin` is the loop on a
closed descriptor. The descriptors are sets of connections: `fork()` copies the
father's, and a client's connection is over when nobody holds it (`ClientLeaves`).
Clients send any commands, close, and are killed; `Commands` are the four
kinds `file_transfer` tells apart. The descriptor -1 is `NoConn`.

### OldForkServer
`Load` and `Store` are the two halves of `n_children++`; the variable is an `int`
that is neither volatile nor atomic. Here a signal is delivered before the next
instruction of the father, so that no behaviour is due to a delay the kernel
would not make; only inside `waitpid()` may the kernel find the child first. A
child only serves and ends; what it says to its client is in `FileExchange`.

### PreforkServer
The two programs share `main` and differ in `receiver`; the variable `program`,
which never changes, selects. `ReadLine`, `ReadPart` and `ReadEnd` are the reading
loop with a whole line, a part of one, and none; `Reply` is the dispatch,
`WriteFailed` the error path (`Write()` exits, `writen()` makes `receiver` return),
`Timeout` the empty `select()`, which a client that has fallen silent, in the middle of a
line too, comes to. A line travels in one segment or in two. The father is
`forking`, `pausing`, in `sig_int` (`killing`, `waiting`), or `exited`. `Interrupt(hit)` is
SIGINT to the father and the children in `hit` (all of them for CTRL-C). `lines`
and `replies` record what a client has asked and been answered.

### FileExchange
One client and the process that serves it, from the client's end of the
connection. The variable `lab` says which pair: `2.3`; `3.1` (a child of `server.c`),
`old`; `3.3` and `3.3t`; `3.4`. A request is the lines its client writes: one in 2.3, two
in Lab 3, where `fgets()` keeps the newline and the client adds another. A
`Command...` action is the server's dispatch on one line, `SendSize` the size and `Send` the
content. An answer is the parts its client takes one by one: a status, a size, a
content. Each part carries the number of the request it is about (`req`), which no
program sees and only the properties use. The client is `waiting` for a line in
`select()`, `sizing` or `reading`; `TimeOut` is the two seconds of `select()`,
after which it is `late` for good. `ReadNoAnswer`, `ReadNoSize` and `ReadNoContent` are
what it makes of an end or an error, `Message34` is the XDR client's reading.

Only `select()` has a time-out, and the size is one `read()` of four bytes. A size
may be read in part (`ReadPartOfSize`); a content stays in the stream when the local
file cannot be opened (`ReadSize`). From then on the client is `torn`: what it takes
for a line, a size or a content depends on the bytes of a file, so `Misread` lets it
take any amount of what is there, and it may block with nothing more to read.
`guessing` is the reading of a content of unknown length. No property promises
anything of a torn client but its types; the properties say so.

`stored` records which file was written after how many requests, until the
client is torn. The local names are not modelled. The client of 2.3 uses the name
typed last and that of 3.4 a counter (`3.4/client/client.c:198`), but those of 3.1 and 3.3
use an array that nothing assigns (`3.3/client.c:25`, `112`), so that each file
overwrites the last, under a name that the code does not determine.

A process whose connection is closed (`Gone`) may have turned to the next client or
ended in order (`closed`), be `dead`, or be `spinning`: the child of 3.1, which
takes the end of the stream for another command, answers and closes, and then loops for ever
with its permit (`SemServer`). In 3.4 `Rests` are
the messages a stream may have left in its buffer, which are lost when the next
stream is opened. `Closes` is a connection closed with FIN, or with RST when
lines are unread; a RST may overtake what was sent before. `FatherKeeps` is
what the old server's missing `close()` does: the client does not see the end.

### UdpQuota
`Receive(a)` is one call of `prot_text` for a datagram of address `a`: `Found` is
the lookup, `Add` and `Count` its two branches, `Echo` the `Sendto`. The network
loses datagrams (`Lose`), duplicates them (`Arrive` stands for a second copy too)
and reorders them: datagrams of one address are alike, as the server does not
look at the port, so those in flight are counted. `received` and `answered` are
the history the properties are about. That `Sendto()` ends the server when it fails is left
out here: it only stops the history. `UdpExchange` has it (`EchoQuota`).

### UdpExchange
One address, its client started again and again, and the server. Datagrams are
alike but for their age: `new` belongs to the last send, `old` to one before; each is
counted. `SendOnce` and `SendLine` are the sends, `Select` an empty `select()` of
2.1, `AbandonOnce` the death of a client that waits, `Serve(a)` the server's loop,
`Receive(a)` the client's `recvfrom()`, `Lose` and `Duplicate` the network. In 1.5 the server
passes an address length that is not initialised: the first answer may be sent to
the client, or `sendto()` may fail and end the server (`sized`). `duplicated`, `dropped` and `refused`
remember what the network and the quota have done.

### SumServer
Three servers with the protocols of `prot_a` (a line of text) and `prot_x` (XDR).
The stream consists of operands, `Junk` and `NL`; `Fill` is a `read()` of `my_read`,
which returns any beginning of what is there; `Readline` is one turn of its loop, which
ends at a newline or when the buffer is full and then includes the answer;
`ReadlineEnd` is the end of the stream, `ReadRaw` the plain `read()` of Lab 2.4's
text server. `DecodeFirst` and `DecodeSecond` are the two operands that XDR decodes from
what stdio read ahead, `DecodeEnd` its end. `Accept` is the loop of the servers that accept again,
`AcceptOnce` that of Lab 2.4, which accepts one connection. `Answer` is the sum in the width of its C type: `uint16_t` operands
in an `int` (`Wide`), or in a `uint16_t` (`Narrow`), XDR in 32 bits. The clients
of 1.3 and 2.4 (`AskText`, `AskXdr`, `ReceiveText`, `ReceiveXdr`, `ReceiveEnd`)
or any sender of symbols (`SendSymbol`) are at the other end.

### Wrappers
Two processes, one in `writen` and one in `readn` or `readline`, over a stream in which
byte `i` is the number `i`. `WriteSome` and `ReadSome` move any part of what is asked for; `Fill` is the
`read()` of `my_read` into its buffer and `Take` one turn of `readline`'s loop. EINTR makes
the call again and changes nothing: a stuttering step. At the end of the stream
or at the limit `readline` returns one more than it has stored (sockwrap.c
258-284); `ret` models it, and `got` is what is stored.

### What is abstracted everywhere
* File contents, local and remote names, and message texts; a file takes `Writes` calls of
  `write()` in the servers' modules, and is one part in `FileExchange`.
* A line for the semaphore server is complete and shorter than its buffer; lines
  for the preforking servers are shorter than theirs. `SumServer` has lines
  longer than the buffer.
* Send buffers never fill, but in `Wrappers`: elsewhere a `write()` does not block.
* Kernel errors of `accept()` other than the one in `AcceptFails`, and failed
  `socket()`, `bind()`, `listen()` at the start, before anything happens.

## 3. Runs

| Run | Instance | Shows |
|---|---|---|
| `sem_safety` | 2 clients, 3 process slots, 2 permits, backlog 2, 2 writes, 1 unread command | `TypeOK`, `ConnectionPrivate`, `PermitsConserved`, and that `SemServer` implements `BoundedService` |
| `sem_live` | 1 client, 2 slots, 2 permits | `ChildReaped`, `ServiceResumes` |
| `sem_starve` | 1 client, 2 permits | violation: clients that leave use up the permits |
| `old_pass` | 4 slots, limit 2, 5 connections | `TypeOK`, `ChildReaped`, `AcceptResumes` |
| `old_limit` | the same | violation: a third child while two serve |
| `prefork_pass` | 1 client, 2 children, both programs, 2 lines, files of 2 writes | `TypeOK`, `RepliesMatch`, `PoolShrinks`, `Released`, `ShutsDown` |
| `file_pass` | the six pairs of client and server, all five kinds of files, 3 requests | `TypeOK`, `FileOfRequest`, `FallsBehind`, `ClientGoesOn`, `ServerLetsGo` |
| `file_step` | the same | violation: in Labs 3.1 (the old server) and 3.3 the file stored after a request is that of an earlier one |
| `udp_table` | 3 addresses, a table of 2, quota 3, 5 datagrams each | `TypeOK`, `TableSound`, `QuotaExact` |
| `udp_exchange` | 2 tries, quota 3, 2 old datagrams in flight | `TypeOK`, `InStep`, `QuotaSpent`, `AnswerComes` |
| `sum_pass` | operands 1 and 6, shorts of 2 bits, ints of 3, `MAXLINE` 2, `MAXBUFL` 4, 5 symbols | `TypeOK`, `RepliesInOrder`, `ClientPrints`, `ServerResumes` |
| `wrappers_pass` | 6 bytes, newlines at 2 and 3, requests of 1 to 3, `MAXLINE` 2, room for 2 | `TypeOK`, `InOrder`, `WrittenInFull`, `ReturnsWhole`, `CallEnds`, `WriteEnds` |

Why the bounds are enough to be interesting.
* Semaphore server: with three slots and two permits the limit can come only from
  the semaphore, two children can die under one SIGCHLD while a third is about
  to be forked, and a slot is used again. Two clients are needed for a
  descriptor to be inherited by the wrong child. One unread command per
  connection is enough because a child reads one at a time; commands follow each
  other without end, as do connections.
* Old server: two children, a third to break the limit, and five connections to
  let the count drift.
* Preforking servers: one client, who uses both children in turn and keeps one busy
  while the other accepts; two lines are a pipeline and can each be split; with two writes
  one may fail in the middle of a file. About 244 000 states.
* File exchange: three requests are one that is given up, one that is answered
  with the file of the first, and one more to fall behind by two; the kinds of files are
  all that the programs tell apart. About 907 000 states.
* UDP: five datagrams are two more than the quota, three addresses one more than
  the table. In the exchange two tries tell the last from the others, and two
  old datagrams in flight with one new one show every order.
* Sum: with shorts of two bits 6 is too large for an operand, 1 + 6 is 1 + 2 in
  16-bit terms, two operands overflow, and 1 + 6 fits the int. A buffer of four takes a
  request and no more; five symbols are a line longer than it, or a request with the
  beginning of the next; `MAXLINE` 2 makes a line take several `read()` calls and leaves
  symbols read ahead.
* Wrappers: six bytes are two of the longest requests; a room of two forces short writes; a
  buffer of two keeps a byte from one line to the next; adjacent newlines give an empty line.

Symmetry is used only in the safety run of `SemServer`: neither clients nor
slots are told apart, and symmetry is unsound for liveness.

The named bounds of the models are `MaxQ` (unread commands), `MaxConns`,
`MaxLines`, `MaxPackets`, `MaxReq`, `MaxFlight`, `MaxSent` and `MaxBytes`. The other
constants are parameters of the code: `Backlog`, `Writes`, `Max`, `MaxChildren`,
`MaxClients`, `Quota`, `Tries`, `MaxLine`, `MaxBuf`, `HalfBits`, `IntBits`.

Deadlock is not checked where the system really stops: the semaphore server when
every permit is lost, the old server and the preforking ones when the father has
left, a sum server that was killed, a session that is over, a UDP client of 1.5 whose
datagram was lost, and where a bounded number of datagrams or bytes is used up.

### Fairness
`WF` of the father, of its handler, and of each child: the scheduler of the kernel
runs each process that can run, signals are delivered, `select()` returns after
its time. Accepting, forking and their failures are one action of the father,
so `fork()` may fail for ever. Of the clients nothing is assumed, with two exceptions that
are stated where they are made: in `OldForkServer` every client ends its session,
and in `ClientsGoAway`, the specification of `sem_starve`, every client goes away
and `accept()` and `fork()` never fail (the assumptions under which the claim has
the best chance to hold). `ServiceResumes` is conditional: a client is accepted
unless all permits left are for ever with living children.

`Released` is about two kinds of clients. One that is gone is let go of by both programs.
One that is only silent is let go of by the time-out server, and a client that goes on
sending keeps its child for ever, since `select()` starts anew at each line: the
property therefore says, of each number `n` of lines, that the client sends another or
is let go of. `MaxLines` bounds the lines and plays no part in it.

In `FileExchange` the serving process, the client's reading, and its
two-second time-out are fair; that a user types, that the backlog is
served, and that anything dies are not. `ServerLetsGo` counts the end of the server's
process as letting go, because for the sequential servers of 2.3 and 3.4 it is: they
die of SIGPIPE with the service. For the child of 3.1 it allows the spinning. In `UdpExchange` each datagram not
lost is delivered (`Serve`, `Receive`) and `select()` returns; losses and duplicates are
free. In `SumServer` only the server is fair. In `Wrappers` a call that was made
goes on; no program has to make one.

### Findings
Shown by a run:
1. `sem_starve`: at end of file the child of `server.c` loops on a closed descriptor for
   ever and keeps its permit; after `MAX_CHILDREN` of them nobody is accepted.
2. `old_limit`: `sig_chld` decrements twice, and the limit is an `if`.
3. `file_step`: a client of Labs 3.1 and 3.3 ends each request with two newlines; the servers
   answer both lines, the client reads one answer for each request, and what it
   takes for the answer to the third request is the file of the second. (`server.c` of 3.1
   closes after the second line instead.)

Met while modelling; the modules have them as the code does:
* The test for QUIT (`3.1/server.c:197`) compares `request[2]` with both `'I'` and `'T'`.
* SIGPIPE ends a child of the time-out server before `writen()` can report the
  error its callers handle (`timeout:156`); `PoolShrinks` says exactly when.
* With a full table an unknown address has no limit (`2.2/server.c:86`).
* The client of 2.1 never sends a second time (`2.1/client.c:64`).
* The server of 2.3 returns after one command (`2.3/server.c:108`).
* The clients of 3.1 and 3.3 never assign the name they store under (`3.3/client.c:25`, `112`).
* After a failed `fopen()` the client of 2.3 may wait for ever in the content it has left in
  the stream (`2.3/client.c:92`, `133`); a size may be read in part (`110`, `3.3/client.c:113`).
* The sum of Lab 1.3 is cut to 16 bits before the test for an overflow
  (`1.3/server_test.c:72`).
* When the server closes without an answer, the client of 1.3 prints its first own operand
  as the sum (85-89), and that of 2.4 prints `Sum: 0`; the text server of 2.4
  takes half a line for a request (`ReadRaw`) and writes `buf[-1]` after a failed `read()`
  (`ReadRawFails`).
* The client of 2.3 goes on storing when the file ends early, and the client
  of 3.4 exits on an empty file (189-197).
* The address length in `1.5/server.c:48` is not initialised.

## 4. Proofs

All theorems are for every value of the constants, under the named assumptions of the
modules: the counts are positive, the process table is finite, -1 is not a
connection, a newline and other text are not numbers, and `MAXBUFL` takes the client's
request (`MaxBuf > 3`; it is 255 in the code). Every safety property that a passing
run checks is proved.

`SemServerProofs`, for any number of clients, slots, permits and any bounds:
* `TypeCorrect`: `Spec => []TypeOK`. `TypeOK` is not inductive: the write that ends an
  answer would take `left` below 0 if an answer could be in progress with none left.
  `TypeInv` adds that it cannot (`LeftPositive`).
* `PermitsAreConserved`: `Spec => PermitsConserved`. `Permits` counts a permit
  where it is: in the semaphore, in the father's hand, with an unreaped child, or
  in the handler between `waitpid()` and `sem_post()`. Every action moves it from
  one to another; the cardinality lemmas for adding and removing a slot carry the
  argument.
* `ImplementsService`: `Spec => ServiceSpec`, the refinement. A child is active
  from its fork to its death. `Begin` needs fewer than `Limit` active; that follows
  from `PermitInv`: there are at most `Max` permits, the father has one in hand when it
  forks, and every living child has another.
* `ConnectionsArePrivate`: `Spec => []ConnectionPrivate`. The inductive invariant `FdInv`
  follows a connection on its way: a client without one is neither held nor
  waiting (`IdleUnknown`), one in the backlog is there once (`WaitingDistinct`) and held by no
  process (`WaitingUnheld`), one just accepted is with the father alone
  (`AcceptedUnshared`), and a process that does not live holds none (`DeadHoldNothing`).

`OldForkServerProofs`, `TypeCorrect`: the range of `n_children` is the content of
this `TypeOK`, and it needs an account of both races. `Counted` says that the count is at
most the increments made (`Stores`) and at least these without the
`Decrements`: two for each child that is dead and reaped, one for a
zombie, and one less while a signal is pending. An increment that overwrites a
decrement (`load` before, `store` after the handler) only raises the count, so the
register is kept between the count and `Stores`.

`PreforkServerProofs`, for both servers, any pool, clients, backlog and length
of files, and any number of lines:
* `TypeCorrect`, and `LostToClients`: `Spec => PoolShrinks`. `Places` is their
  invariant: a child has a connection exactly while it is in `receiver`, and a
  connection is with one child, or in the backlog once, or nowhere. Every step of a child in
  `receiver` has one form (`Serves`), so that the invariant is shown for it once.
* `AnsweredInOrder`: `Spec => []RepliesMatch`. The inductive part is `Stream`:
  the replies begun are those of the first lines, none of them a QUIT
  (`Answered`), and the unread segments are exactly the lines not answered
  (`Pipelined`: a function gives the place in the queue at which each line starts,
  and each line is there as its one or two segments, the last one perhaps with
  its second segment missing). `FirstLine` and `Consumed` are the reading of a line,
  `Extended` and `Completed` the sending; `NoHalf` shows that the time-out server
  finds no half line among those it promises for. The theorem then needs the
  first QUIT, a least element (`Least`, from the library's well-founded induction).

`UdpQuotaProofs`, for every set of addresses, table size and quota:
* `TypeCorrect`, `QuotaIsExact` and `TableIsSound`, by the inductive invariant `Inv`, which adds
  that `npck[i]` is the number of echoes made to `clients[i]`, and that an address from which
  nothing came has not been answered. The second is needed when an address is
  added, the first when it is found.

`UdpExchangeProofs`, for every number of tries, quota and datagrams in flight:
* `TypeCorrect`; `AnswersInStep`: `Spec => []InStep`, where the invariant is that without
  duplication there is one datagram or answer at most for a send of Lab 1.5, and none
  when it has been answered; `QuotaIsSpentOnSends`: `Spec => []QuotaSpent`, where what
  has been echoed and what is in flight are at most the sends.

`WrappersProofs`, for every size of buffers, requests and stream:
* `TypeCorrect`, `BytesInOrder`, `WritenWritesAll` and `CallsReturnWhole`. The four
  properties need each other and two facts more: `Ahead`, what the call has stored
  and what `my_read` keeps are the last bytes `read()` has returned, and `Calling`,
  a call that goes on has space left and no newline stored.

`FileExchangeProofs`, for any names and any number of requests:
* `TypeCorrect`, and `OnlyBehind`: `Spec => []FallsBehind`, with any of the servers. `FallsBehind`
  alone is not inductive. `Increasing` and `Behind` say that the requests of the files stored, of
  the one being read, of the answers `+OK` on their way and of the GET lines on
  theirs follow each other in this order, each greater than the last, and `Unstored` that
  nothing has been stored yet for the request the client is busy with. What a step leaves of a
  queue is a `Part` of it (the tail, a beginning after a reset, an end after a
  thrown-away buffer), so that `ServerStep` and the lemmas on `Reads` treat every
  way of losing data at once. A torn client stores nothing that counts, and only makes
  the queue shorter (`MisreadInv`).
* `EachItsFile`: `Spec => []FileOfRequest`, by the invariant `InvFile`. The property
  speaks of what is stored; what makes it true is in the two queues. For the labs with text,
  `InStep` numbers the parts on their way by the lines they answer (`Chain`: a
  function `u` from places of `out` to numbers of answers). What may follow a part depends
  on what is due (`Due`): after `+OK` a size of the same answer, after a size its content, unless the
  file is empty, and otherwise the line of the next answer. `Ahead` says that
  the lines left are those after the last one answered, `Sending` that a size or content that is due
  is being sent, or that the server has failed or the file is a directory. When the connection is
  over nothing is left to mistake for an answer (`Over`). Taking the first part, adding one
  at the end, and losing an end to a RST each keep a chain
  (`ReadAnswering`, `SayAnswering`, `CloseAnswering`). For Lab 3.4, where streams throw away
  what they read ahead, `Alone` says why this loses nothing: one request or answer is
  under way at most.

`SumServerProofs`, for any sizes of the buffers and any segmentation:
* `TypeCorrect`: `Spec => []TypeOK`, that is, `readline` and `my_read` stay in their buffers and
  the terminator of `prot_a` falls inside its own. `TypeOK` is not inductive: a line of
  `MAXBUFL - 1` symbols would take one more. `Inv` adds that a line that has reached the
  limit does not wait.
* `AnsweredInOrder`: `Spec => []RepliesInOrder`. The invariant (`Ordered`) is that up to some
  place of what was sent every line is answered (`Answered`: the k-th line by the
  k-th answer), and that from there the stored part of a line, what `my_read` has
  read ahead, and what is on its way are the rest, one behind the other (`Rest`). The
  other case is a line that does not fit (`TooLong`): `readline` cuts it, and nothing is
  promised from there on. `Fresh` says that `my_read`'s static buffer is
  empty between two connections of a server that accepts more than one, without which the
  next client would be answered with symbols of the last.
* `PrintsTheSum`: `Spec => []ClientPrints`. A text client has sent one line, and the
  answer it waits for is the first (`TextClient`, and the theorem above). The
  XDR client may have sent any number of requests: `XdrClient` says that the server
  has answered all but the last, and owes at most that one.

Only model-checked: the liveness properties (`ChildReaped`, `ServiceResumes`,
`AcceptResumes`, `Released`, `ShutsDown`, `ClientGoesOn`, `ServerLetsGo`, `AnswerComes`,
`ServerResumes`, `CallEnds`, `WriteEnds`), since the prover does not reason about
fairness; and the three violations.

## 5. Not modelled, and why

* `types.c` and `types.h` of Lab 3.4: generated by rpcgen; a message is one element.
  Executables and `testprog`: no source.
* The wrappers nothing calls, and the conversion of names, ports and addresses
  (`sockwrap.c`, `errlib.c`, the start of each `main`): they run once before
  anything happens, print and exit, and keep no state.
* Memory past a buffer: the terminator of a line that fills the buffer
  (`3.1/server.c:140`), `buf[nBytes]` in `1.5/client.c:60`, the 31st place of `2.1/client.c:84`.
* Descriptors and processes running out, and send buffers that fill in the
  servers: their limits are the machine's.
* Keep-alive and out-of-band options: they act in the kernel.
* The father's `listenfd` in the children of 3.1, never closed there: nothing reads it.
* Lab 3.2: the directory has no program.

## 6. What could come next

1. `PreforkServer` as an implementation of `BoundedService`, with its pool as the limit.
2. The drift of `n_children` in `OldForkServer` as a property of its own: by how much
   the children that serve can exceed the limit.
