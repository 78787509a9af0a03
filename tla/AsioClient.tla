----------------------------- MODULE AsioClient -----------------------------
(***************************************************************************)
(* A session of the asio HTTP/2 client (asio_client_session_impl.cc and    *)
(* the TCP and TLS classes below it): resolving, connecting and the TLS    *)
(* handshake under the connect deadline; then one read and one write in    *)
(* flight, the write buffer wb_ with the frame left over from the last     *)
(* call of nghttp2_session_mem_send, the PING timer of an idle session,    *)
(* the requests of the application and their callbacks, and stop().        *)
(*                                                                         *)
(* cl is the session.  out, last, lib, goaway and closing are what the     *)
(* nghttp2 session holds (external, modelled from its use).  ping is the   *)
(* PING timer: pending says that a wait is outstanding; a wait that        *)
(* expired is a handler "ping" in q, one that was cancelled only returns   *)
(* and is left out.  closes, errors, owed and stale are history: calls of  *)
(* on_close and of the error callback, frames produced and not yet         *)
(* written, and requests that failed while they were submitted.            *)
(***************************************************************************)
EXTENDS IoService, FiniteSets, SequencesExt

CONSTANTS Requests,   \* stream IDs the client uses, in this order
          Pushed,     \* stream IDs the server promises, in this order
          BufSize,    \* frames that fit in wb_
          MaxPings,   \* PINGs explored
          Scopes      \* {[tls, app, calls, ops, peer, fail]}

VARIABLES cl, scope
vars == <<cl, scope>>

Ids == Range(Requests) \cup Range(Pushed)
None == [type |-> "NONE", id |-> 0]
Frame(t, s) == [type |-> t, id |-> s]

\* session_impl::session_impl and start_resolve.
Init ==
    /\ scope \in Scopes
    /\ cl = [phase |-> "resolving", q |-> <<>>, dl |-> [wait |-> "pending", due |-> FALSE],
             rd |-> "none", wr |-> "none", writing |-> FALSE, stopped |-> FALSE, freed |-> FALSE,
             inside |-> FALSE, buf |-> <<>>, pend |-> None, ping |-> FALSE, pings |-> MaxPings,
             out |-> <<>>, last |-> None, lib |-> [s \in Ids |-> "idle"],
             goaway |-> FALSE, closing |-> FALSE, streams |-> {},
             closes |-> [s \in Ids |-> 0], errors |-> 0, owed |-> <<>>, stale |-> {},
             ops |-> scope.ops]

-----------------------------------------------------------------------------
(* The nghttp2 session, its callbacks and session_impl's streams_.         *)

Submit(x, f) == [x EXCEPT !.out = Append(@, f)]

\* session_impl::start_ping: ping_.expires_from_now cancels the wait before it.
StartPing(x) == [x EXCEPT !.ping = TRUE]

\* on_stream_close_callback and pop_stream: the session that becomes idle
\* starts to ping.
OnStreamClose(x, s) ==
    LET y == [x EXCEPT !.lib[s] = "closed"] IN
    IF s \notin x.streams THEN y
    ELSE LET z == [y EXCEPT !.streams = @ \ {s}, !.closes[s] = @ + 1] IN
         IF z.streams = {} THEN StartPing(z) ELSE z

\* create_push_stream, and the last part of submit: the stream is registered
\* and the session is not idle any more.
Register(x, s) == [x EXCEPT !.streams = @ \cup {s}, !.ping = FALSE]

\* What the session does with a frame once it is sent.
AfterSent(x) ==
    LET f == x.last
        y == [x EXCEPT !.last = None] IN
    CASE f.type = "RST_STREAM" -> OnStreamClose(y, f.id)
      [] f.type = "GOAWAY" -> [y EXCEPT !.closing = TRUE]
      [] OTHER -> y

\* nghttp2_session_mem_send until it has a frame or nothing to send.  A request
\* that may not be sent, after GOAWAY, is opened and closed again.
RECURSIVE MemSend(_)
MemSend(x) ==
    IF x.last # None THEN MemSend(AfterSent(x))
    ELSE IF x.out = <<>> THEN x
    ELSE LET f == Head(x.out)
             y == [x EXCEPT !.out = Tail(@)]
             taken == [y EXCEPT !.last = f, !.owed = Append(@, <<f.type, f.id>>)] IN
         CASE f.type = "HEADERS" ->
                 IF x.goaway \/ x.closing THEN MemSend(OnStreamClose(y, f.id))
                 ELSE [taken EXCEPT !.lib[f.id] = "open"]
           [] f.type = "RST_STREAM" -> IF x.lib[f.id] # "open" THEN MemSend(y) ELSE taken
           [] OTHER -> taken

\* The loop of do_write: frames until wb_ is full.
RECURSIVE Fill(_)
Fill(x) ==
    IF x.last = None THEN x
    ELSE IF Len(x.buf) + 1 > BufSize THEN [x EXCEPT !.pend = x.last]
    ELSE Fill(MemSend([x EXCEPT !.buf = Append(@, <<x.last.type, x.last.id>>)]))

\* session_impl::should_stop, of which nghttp2_session_want_read and
\* nghttp2_session_want_write are the second and third part.
Open(x) == {s \in Ids : x.lib[s] = "open"}
ShouldStop(x) ==
    /\ ~x.writing
    /\ x.closing \/ (x.goaway /\ Open(x) = {})
    /\ x.out = <<>> /\ x.last = None

-----------------------------------------------------------------------------
(* session_impl.                                                           *)

\* session_impl::call_error_cb.
CallErrorCb(x) == IF x.stopped THEN x ELSE [x EXCEPT !.errors = @ + 1]

\* session_impl::stop: ping_.cancel() and deadline_.cancel() too.
Stop(x) ==
    IF x.stopped THEN x
    ELSE [CancelDeadline(CloseSocket(x)) EXCEPT !.stopped = TRUE, !.ping = FALSE]

\* session_impl::do_write.  The callbacks of the session run inside the
\* callback_guard; a nghttp2_session_mem_send that fails stops the session.
WriteOut(x) ==
    IF x.buf # <<>> THEN [ExpiresFromNow([x EXCEPT !.writing = TRUE]) EXCEPT !.wr = "pending"]
    ELSE IF ShouldStop(x) THEN Stop(x)
    ELSE x
DoWrite(x) ==
    IF x.stopped \/ x.writing THEN x
    ELSE LET b == IF x.pend = None THEN <<>> ELSE <<<<x.pend.type, x.pend.id>>>> IN
         WriteOut([Fill(MemSend([x EXCEPT !.inside = TRUE, !.buf = b, !.pend = None]))
                       EXCEPT !.inside = FALSE])

\* session_impl::signal_write.
SignalWrite(x) == IF x.inside THEN x ELSE DoWrite(x)

\* session_impl::do_read.
DoRead(x) == IF x.stopped THEN x ELSE [ExpiresFromNow(x) EXCEPT !.rd = "pending"]

\* The frame that session_impl::submit, cancel and shutdown queue.  They do
\* nothing, or fail, once the session has stopped.
NextRequest(x) == {i \in DOMAIN Requests : x.lib[Requests[i]] = "idle" /\ Requests[i] \notin x.streams}
Queued(x, op) ==
    CASE op = "submit" /\ NextRequest(x) # {} ->
            {Frame("HEADERS", Requests[CHOOSE i \in NextRequest(x) : \A j \in NextRequest(x) : i <= j])}
      [] op = "cancel" /\ x.streams # {} -> {Frame("RST_STREAM", CHOOSE s \in x.streams : TRUE)}
      [] op = "shutdown" /\ ~x.closing -> {Frame("GOAWAY", 0)}
      [] OTHER -> {}

\* The end of submit: the write was signalled before the stream is registered,
\* so that a request that is refused at once, outside of a callback, is closed
\* before streams_ has it.
Submitted(x, f) ==
    IF f.type # "HEADERS" THEN x
    ELSE [Register(x, f.id) EXCEPT !.stale = IF x.lib[f.id] = "closed" THEN @ \cup {f.id} ELSE @]

\* A call of the application.
Call(x, op) ==
    IF x.stopped \/ Queued(x, op) = {} THEN x
    ELSE LET f == CHOOSE g \in Queued(x, op) : TRUE IN
         Submitted(SignalWrite(Submit(x, f)), f)

\* The session object lives as long as the application or a handler refers to
\* it; its destructor calls on_close for the streams that are left.
Released(x) ==
    IF x.freed \/ ~x.stopped \/ x.phase # "up" \/ x.rd # "none" \/ x.wr # "none"
       \/ x.dl.wait # "none" \/ x.ping \/ "ping" \in Range(x.q)
    THEN x
    ELSE [x EXCEPT !.freed = TRUE, !.streams = {},
                   !.closes = [s \in Ids |-> @[s] + (IF s \in x.streams THEN 1 ELSE 0)]]

-----------------------------------------------------------------------------
(* Establishing the connection.                                            *)

\* not_connected.
NotConnected(x) == Released([Stop(CallErrorCb(x)) EXCEPT !.phase = "up"])

\* The handler of async_resolve.  It does not look at stopped_.
Resolved ==
    /\ cl.phase = "resolving"
    /\ \/ cl' = [cl EXCEPT !.phase = "connecting"]
       \/ scope.fail /\ cl' = NotConnected(cl)
    /\ UNCHANGED scope

\* setup_session: the preface, SETTINGS and WINDOW_UPDATE, one frame here.
SetupSession(x) == Submit(x, Frame("SETTINGS", 0))

\* connected: the preface is written, reading and the PING timer start, and the
\* connect callback runs, outside of the callback_guard.
Connected(x, op) ==
    Call(StartPing(DoRead(DoWrite(SetupSession([x EXCEPT !.phase = "up"])))), op)

\* start_connect and, with TLS, the handshake: their handlers return when the
\* session has stopped.
ConnectDone ==
    /\ cl.phase \in {"connecting", "handshake"}
    /\ \/ cl.stopped /\ cl' = Released([cl EXCEPT !.phase = "up"])
       \/ ~cl.stopped /\ scope.fail /\ cl' = NotConnected(cl)
       \/ ~cl.stopped /\ cl.phase = "connecting" /\ scope.tls /\ cl' = [cl EXCEPT !.phase = "handshake"]
       \/ /\ ~cl.stopped
          /\ scope.tls => cl.phase = "handshake"
          /\ \E op \in scope.app : cl' = Connected(cl, op)
    /\ UNCHANGED scope

-----------------------------------------------------------------------------
(* The connection.                                                         *)

\* Frames of the server: the end of a response or RST_STREAM, a header larger
\* than 64k, a PUSH_PROMISE on an open stream, GOAWAY.
Arrivals(x) ==
    {f \in {Frame(t, s) : t \in {"END", "BIG"}, s \in Ids} :
         /\ x.lib[f.id] = "open"
         /\ f.type = "BIG" => Frame("RST_STREAM", f.id) \notin Range(x.out) \cup {x.last}}
      \cup {Frame("PUSH_PROMISE", s) : s \in {p \in Range(Pushed) :
                x.lib[p] = "idle" /\ \E r \in Range(Requests) : x.lib[r] = "open"}}
      \cup (IF x.goaway THEN {} ELSE {Frame("GOAWAY", 0)})
      \cup {Frame("OTHER", 0)}

\* on_begin_headers_callback, on_header_callback, on_frame_recv_callback and
\* on_data_chunk_recv_callback: the application's callbacks run inside the
\* callback_guard and may call the session.
Received(x, f, op) ==
    LET y == [x EXCEPT !.inside = TRUE]
        z == CASE f.type = "END" -> OnStreamClose(y, f.id)
               [] f.type = "BIG" -> Submit(y, Frame("RST_STREAM", f.id))
               [] f.type = "PUSH_PROMISE" -> Register([y EXCEPT !.lib[f.id] = "open"], f.id)
               [] f.type = "GOAWAY" -> [y EXCEPT !.goaway = TRUE]
               [] OTHER -> y
    IN  [(IF f.type = "OTHER" THEN z ELSE Call(z, op)) EXCEPT !.inside = FALSE]

Arrive ==
    /\ cl.rd = "pending"
    /\ \/ cl' = Post([cl EXCEPT !.rd = "ok"], "read")
       \/ scope.fail /\ cl' = Post([cl EXCEPT !.rd = "error"], "read")
    /\ UNCHANGED scope

\* The handler of do_read.
ReadDone ==
    /\ Ready(cl, "read")
    /\ LET x == [Popped(cl) EXCEPT !.rd = "none"] IN
       \/ /\ cl.rd = "error"
          /\ cl' = Released(Stop(IF ShouldStop(x) THEN x ELSE CallErrorCb(x)))
       \/ /\ cl.rd = "ok"
          /\ \E f \in Arrivals(cl), op \in scope.app :
                /\ f.type \in scope.peer
                /\ f.type = "OTHER" => op = "none"
                /\ LET y == DoWrite(Received(x, f, op)) IN
                   cl' = Released(IF ShouldStop(y) THEN Stop(y) ELSE DoRead(y))
       \/ /\ cl.rd = "ok" /\ "BAD" \in scope.peer
          /\ cl' = Released(Stop(CallErrorCb(x)))
    /\ UNCHANGED scope

Wrote ==
    /\ cl.wr = "pending"
    /\ \/ cl' = Post([cl EXCEPT !.wr = "ok", !.buf = <<>>, !.owed =
                          IF IsPrefix(cl.buf, @) THEN SubSeq(@, Len(cl.buf) + 1, Len(@))
                          ELSE <<<<"LOST", 0>>>>], "write")
       \/ scope.fail /\ cl' = Post([cl EXCEPT !.wr = "error"], "write")
    /\ UNCHANGED scope

\* The handler of do_write.
WriteDone ==
    /\ Ready(cl, "write")
    /\ LET x == [Popped(cl) EXCEPT !.wr = "none"] IN
       cl' = Released(IF cl.wr = "error" THEN Stop(CallErrorCb(x))
                      ELSE DoWrite([x EXCEPT !.writing = FALSE]))
    /\ UNCHANGED scope

\* session_impl::handle_deadline.
HandleDeadline ==
    /\ Ready(cl, "deadline")
    /\ LET x == [Popped(cl) EXCEPT !.dl.wait = "none"] IN
       cl' = IF cl.stopped THEN Released(x)
             ELSE IF cl.dl.due THEN Released(Stop(CallErrorCb(x)))
             ELSE AsyncWait(x)
    /\ UNCHANGED scope

Elapse ==
    /\ scope.fail /\ ~cl.dl.due /\ ~cl.stopped
    /\ cl' = Elapsed(cl)
    /\ UNCHANGED scope

\* 30 seconds pass: the wait of the PING timer is over.
PingDue ==
    /\ cl.ping /\ (cl.pings > 0 \/ cl.stopped)
    /\ cl' = Post([cl EXCEPT !.ping = FALSE, !.pings = IF cl.stopped THEN @ ELSE @ - 1], "ping")
    /\ UNCHANGED scope

\* session_impl::handle_ping.
HandlePing ==
    /\ Ready(cl, "ping")
    /\ cl' = IF cl.stopped \/ cl.streams # {} THEN Released(Popped(cl))
             ELSE StartPing(SignalWrite(Submit(Popped(cl), Frame("PING", 0))))
    /\ UNCHANGED scope

\* The application calls the session from a handler of its own.
Application ==
    /\ cl.ops > 0 /\ cl.phase = "up" /\ ~cl.freed
    /\ \E op \in scope.calls : cl' = Call([cl EXCEPT !.ops = @ - 1], op)
    /\ UNCHANGED scope

Next ==
    \/ Resolved \/ ConnectDone \/ Arrive \/ ReadDone \/ Wrote \/ WriteDone \/ HandleDeadline
    \/ Elapse \/ PingDue \/ HandlePing \/ Application

Spec == Init /\ [][Next]_vars

-----------------------------------------------------------------------------
\* No lost write: frames the session has queued, and the frame that did not fit
\* into wb_, are waited for by a write in flight.
NoLostWrite == ~cl.stopped /\ ~cl.writing => cl.out = <<>> /\ cl.pend = None

\* Frames reach the socket once and in order, across calls that fill wb_.
FramesInOrder ==
    LET p == IF cl.pend = None THEN <<>> ELSE <<<<cl.pend.type, cl.pend.id>>>>
    IN  <<"LOST", 0>> \notin Range(cl.owed) /\ (~cl.stopped => cl.owed = cl.buf \o p)

\* A connected session with no request has a PING to come, so that a dead idle
\* connection is noticed; the timer of a session that has requests does not run.
IdlePinged ==
    /\ cl.phase = "up" /\ ~cl.stopped /\ cl.streams = {} =>
           cl.ping \/ "ping" \in Range(cl.q) \/ cl.pings = 0
    /\ cl.ping => cl.streams = {}

\* The error callback runs at most once, and on_close exactly once for every
\* request: when its stream closes or, at the latest, with the session object.
CallbacksOnce ==
    /\ cl.errors <= 1
    /\ \A s \in Ids :
          /\ cl.closes[s] <= 1
          /\ s \in cl.streams => cl.closes[s] = 0
          /\ cl.freed /\ cl.lib[s] # "idle" => cl.closes[s] = 1

\* A request that streams_ holds is known to the nghttp2 session, which will
\* close it, unless it was refused while it was submitted.
StreamsKnown ==
    \A s \in cl.streams \ cl.stale :
        cl.lib[s] = "open" \/ (cl.lib[s] = "idle" /\ Frame("HEADERS", s) \in Range(cl.out))

\* The deadline is watched as long as the session is not stopped.
DeadlineWatched == ~cl.stopped => cl.dl.wait # "none"

\* What the asio client promises of a session.
AsioClientSound ==
    /\ NoLostWrite /\ FramesInOrder /\ IdlePinged
    /\ CallbacksOnce /\ StreamsKnown /\ DeadlineWatched

=============================================================================
