-------------------------------- MODULE Tcp --------------------------------
(***************************************************************************)
(* External: the Linux end of a TCP connection as the servers of this      *)
(* repository see it through read(), write() and close().  The state of    *)
(* the server's socket is one of                                           *)
(*   "idle"    the client has no connection;                               *)
(*   "open"    established, both directions work;                          *)
(*   "fin"     the client closed its socket: read() answers 0 once the     *)
(*             received bytes are consumed;                                *)
(*   "finw"    the server wrote after that: a RST is on its way back;      *)
(*   "reset"   a RST was received on an established connection: the next   *)
(*             call reports ECONNRESET, once, and raises no signal;        *)
(*   "broken"  every later write() reports EPIPE and raises SIGPIPE, whose *)
(*             default action ends the process (no program here changes    *)
(*             it).                                                        *)
(***************************************************************************)

NetStates == {"idle", "open", "fin", "finw", "reset", "broken"}

\* The client's socket is gone (closed, or its process was killed).
PeerGone(s) == s \in {"fin", "finw", "reset", "broken"}

\* write() kills the writer with SIGPIPE.
Signals(s) == s = "broken"

\* write() returns -1 (and, when Signals, does not return at all).
WriteFails(s) == s \in {"reset", "broken"}

\* The socket after a write().
AfterWrite(s) == IF s = "fin" THEN "finw"
                 ELSE IF s = "reset" THEN "broken" ELSE s

\* read() with nothing left to read returns 0 or -1 instead of blocking, ...
AtEOF(s) == PeerGone(s)

\* ... -1 only to report the reset, ...
ReadFails(s) == s = "reset"

\* ... and leaves the socket in this state.
AfterRead(s) == IF s = "reset" THEN "broken" ELSE s
=============================================================================
