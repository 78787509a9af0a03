----------------------------- MODULE AsioServer -----------------------------
(***************************************************************************)
(* A connection of the asio HTTP/2 server: connection<socket> with its     *)
(* deadline, its one read and one write in flight and its output buffer    *)
(* (asio_server_connection.h), the http2_handler between it and the        *)
(* nghttp2 session (asio_server_http2_handler.cc/.h), and the response     *)
(* objects of the application (asio_server_response_impl.cc).              *)
(*                                                                         *)
(* sv is the connection.  out, last, lib, data and half are what the       *)
(* nghttp2 session holds (external, modelled from its use): the frames     *)
(* queued, the frame whose sending the next nghttp2_session_mem_send       *)
(* completes, each stream's state, the state of its body and whether the   *)
(* request has ended.  streams is streams_, res the response objects,      *)
(* heads, closes and owed are history: responses submitted, calls of       *)
(* on_close, frames the session produced that the socket has not taken.    *)
(***************************************************************************)
EXTENDS IoService, FiniteSets, SequencesExt

CONSTANTS Requests,   \* stream IDs the client uses
          Promised,   \* stream IDs the server promises, used in this order
          BufSize,    \* frames that fit in outbuf_
          Scopes      \* {[tls, body, reqs, app, later, ops, peer, fail]}

VARIABLES sv, scope
vars == <<sv, scope>>

Streams == Requests \cup Range(Promised)
None == [type |-> "NONE", id |-> 0]
Frame(t, s) == [type |-> t, id |-> s]

\* response_impl::response_impl and stream::stream.
NewResponse == [state |-> "INITIAL", pushed |-> FALSE, promised |-> FALSE,
                gen |-> "deferred"]

\* server::start_accept: the connection exists, its deadline is started, and
\* the TLS handshake of it or its first read.
Init ==
    /\ scope \in Scopes
    /\ sv = [phase |-> IF scope.tls THEN "handshake" ELSE "start",
             q |-> IF scope.tls THEN <<>> ELSE <<"start">>,
             dl |-> [wait |-> "pending", due |-> FALSE],
             rd |-> "none", wr |-> "none", writing |-> FALSE, stopped |-> FALSE,
             freed |-> FALSE, sig |-> FALSE, inside |-> FALSE, buf |-> <<>>, pend |-> None,
             out |-> <<>>, last |-> None, lib |-> [s \in Streams |-> "idle"],
             data |-> [s \in Streams |-> "none"], half |-> {}, goaway |-> FALSE,
             streams |-> {}, res |-> [s \in Streams |-> NewResponse],
             heads |-> [s \in Streams |-> 0], closes |-> [s \in Streams |-> 0],
             owed |-> <<>>, spoke |-> FALSE, ops |-> scope.ops]

-----------------------------------------------------------------------------
(* http2_handler and response_impl.                                        *)

\* http2_handler::signal_write: one write is posted, unless a callback of the
\* session is running, after which the connection writes anyway.
SignalWrite(x) ==
    IF ~x.inside /\ ~x.sig THEN Post([x EXCEPT !.sig = TRUE], "initiate") ELSE x

\* http2_handler::create_stream.
CreateStream(x, s) == [x EXCEPT !.streams = @ \cup {s}, !.res[s] = NewResponse]

\* A frame is queued in the session.
Submit(x, f) == [x EXCEPT !.out = Append(@, f)]

\* http2_handler::stream_error, response_impl::cancel.
StreamError(x, s) == SignalWrite(Submit(x, Frame("RST_STREAM", s)))

\* http2_handler::resume: nghttp2_session_resume_data, which only acts on a
\* body that was deferred.
Resume(x, s) ==
    SignalWrite(IF x.data[s] = "deferred" THEN [x EXCEPT !.data[s] = "active"] ELSE x)

\* response_impl::start_response and http2_handler::start_response.  A response
\* that has no body is BODY_STARTED at once.
StartResponse(x, s) ==
    LET y == IF scope.body THEN x ELSE [x EXCEPT !.res[s].state = "BODY_STARTED"] IN
    SignalWrite(Submit([y EXCEPT !.heads[s] = @ + 1], Frame("HEADERS", s)))

\* WriteHead that does not wait for the PUSH_PROMISE of a pushed response.
WriteHead_NotWaiting(x, s) ==
    IF x.res[s].state # "INITIAL" THEN x
    ELSE StartResponse([x EXCEPT !.res[s].state = "HEADER_DONE"], s)

\* response_impl::write_head.
WriteHead(x, s) ==
    IF x.res[s].state # "INITIAL" THEN x
    ELSE LET y == [x EXCEPT !.res[s].state = "HEADER_DONE"] IN
         IF x.res[s].pushed /\ ~x.res[s].promised THEN y ELSE StartResponse(y, s)

\* response_impl::end.
End(x, s) ==
    IF x.res[s].state = "BODY_STARTED" THEN x
    ELSE LET y == [x EXCEPT !.res[s].gen = "data"] IN
         [(IF x.res[s].state = "INITIAL" THEN WriteHead(y, s) ELSE Resume(y, s))
             EXCEPT !.res[s].state = "BODY_STARTED"]

\* response_impl::push_promise_sent.
PushPromiseSent(x, s) ==
    IF x.res[s].promised THEN x
    ELSE LET y == [x EXCEPT !.res[s].promised = TRUE] IN
         IF x.res[s].state = "INITIAL" THEN y ELSE StartResponse(y, s)

\* http2_handler::push_promise: the promised stream is known to the handler as
\* soon as the PUSH_PROMISE is queued.
NextPromised(x) == {s \in Range(Promised) : x.res[s] = NewResponse /\ x.closes[s] = 0
                                            /\ s \notin x.streams}
PushPromise(x, s) ==
    IF NextPromised(x) = {} THEN x
    ELSE LET p == Promised[Len(Promised) - Cardinality(NextPromised(x)) + 1] IN
         SignalWrite([CreateStream(Submit(x, [type |-> "PUSH_PROMISE", id |-> s, promised |-> p]), p)
                          EXCEPT !.res[p].pushed = TRUE])

\* What an application may do with a response it holds.
Do(x, op, s) ==
    CASE op = "head"   -> WriteHead(x, s)
      [] op = "end"    -> End(x, s)
      [] op = "resume" -> Resume(x, s)
      [] op = "cancel" -> StreamError(x, s)
      [] op = "push"   -> PushPromise(x, s)
      [] op = "none"   -> x

-----------------------------------------------------------------------------
(* The nghttp2 session, as the handler sees it.                            *)

\* on_stream_close_callback and http2_handler::close_stream.
OnStreamClose(x, s) ==
    LET y == [x EXCEPT !.lib[s] = "closed", !.data[s] = "none"] IN
    IF s \notin x.streams THEN y
    ELSE [y EXCEPT !.closes[s] = @ + 1, !.streams = @ \ {s}]

\* What the session does with a frame once it is sent, at the next call of
\* nghttp2_session_mem_send; on_frame_send_callback.
AfterSent(x) ==
    LET f == x.last
        y == [x EXCEPT !.last = None] IN
    CASE f.type = "PUSH_PROMISE" ->
            IF f.promised \in x.streams THEN PushPromiseSent(y, f.promised) ELSE y
      [] f.type = "HEADERS" ->
            IF scope.body THEN [y EXCEPT !.data[f.id] = "active"]
            ELSE IF f.id \in x.half THEN OnStreamClose(y, f.id)
            ELSE [y EXCEPT !.lib[f.id] = "local"]
      [] f.type = "DATA" ->
            IF f.id \in x.half THEN OnStreamClose(y, f.id)
            ELSE [y EXCEPT !.lib[f.id] = "local", !.data[f.id] = "none"]
      [] f.type = "RST_STREAM" -> OnStreamClose(y, f.id)
      [] OTHER -> y

\* The streams whose body can be read.
Bodies(x) == {s \in Streams : x.data[s] = "active"}

\* The generator of a response that has not ended is deferred_generator: the
\* session asks every body that is active and puts it aside (call_read).
Deferred(x) ==
    [x EXCEPT !.data = [s \in Streams |->
        IF s \in Bodies(x) /\ x.res[s].gen = "deferred" THEN "deferred" ELSE @[s]]]

\* A queued frame can be sent unless its stream is gone.
Sendable(x, f) ==
    CASE f.type \in {"HEADERS", "RST_STREAM"} -> x.lib[f.id] \in {"open", "reserved", "local"}
      [] f.type = "PUSH_PROMISE" -> x.lib[f.id] = "open" /\ ~x.goaway
      [] OTHER -> TRUE

\* The frame is taken for sending: a PUSH_PROMISE reserves its stream.
Taken(x, f) ==
    [(IF f.type = "PUSH_PROMISE" THEN [x EXCEPT !.lib[f.promised] = "reserved",
                                                 !.half = @ \cup {f.promised}]
      ELSE IF f.type = "DATA" THEN [x EXCEPT !.data[f.id] = "sent"] ELSE x)
        EXCEPT !.last = f, !.owed = Append(@, <<f.type, f.id>>)]

\* on_frame_not_send_callback: RST_STREAM for HEADERS that cannot be sent.
NotSent(x, f) ==
    IF f.type = "HEADERS" THEN Submit(x, Frame("RST_STREAM", f.id)) ELSE x

\* A DATA frame of the first stream whose body can be read.
NextData(x) ==
    IF Bodies(x) = {} THEN x
    ELSE Taken(x, Frame("DATA", CHOOSE s \in Bodies(x) : \A t \in Bodies(x) : s <= t))

\* nghttp2_session_mem_send until it has a frame or nothing to send: the state
\* after it, whose last is the frame, or None.
RECURSIVE MemSend(_)
MemSend(x) ==
    IF x.last # None THEN MemSend(AfterSent(x))
    ELSE IF x.out = <<>> THEN NextData(Deferred(x))
    ELSE LET f == Head(x.out)
             y == [x EXCEPT !.out = Tail(@)] IN
         IF Sendable(x, f) THEN Taken(y, f) ELSE MemSend(NotSent(y, f))

\* http2_handler::on_write: the frame left over from the last time, then frames
\* until outbuf_ is full.
RECURSIVE Fill(_)
Fill(x) ==
    IF x.last = None THEN x
    ELSE IF Len(x.buf) + 1 > BufSize THEN [x EXCEPT !.pend = x.last]
    ELSE Fill(MemSend([x EXCEPT !.buf = Append(@, <<x.last.type, x.last.id>>)]))

OnWrite(x) ==
    LET y == [x EXCEPT !.inside = TRUE, !.pend = None,
                       !.buf = IF x.pend = None THEN <<>> ELSE <<<<x.pend.type, x.pend.id>>>>] IN
    [Fill(MemSend(y)) EXCEPT !.inside = FALSE]

\* nghttp2_session_want_read and nghttp2_session_want_write, both false.
Active(x) == {s \in Streams : x.lib[s] \in {"open", "local", "reserved"}}
ShouldStop(x) == x.goaway /\ Active(x) = {} /\ x.out = <<>> /\ x.last = None

\* on_begin_headers_callback, on_header_callback, which resets a stream whose
\* header is larger than 64k, on_frame_recv_callback, call_on_request and the
\* application's request handler, which may answer at once, in two calls.
OnRequest(x, s, big, ops) ==
    LET y == CreateStream([x EXCEPT !.lib[s] = "open", !.half = @ \cup {s}], s)
        z == IF big THEN Submit(y, Frame("RST_STREAM", s)) ELSE y
    IN  Do(Do(z, ops[1], s), ops[2], s)

\* http2_handler::on_read of one frame of the client.
OnRead(x, f, ops) ==
    LET y == [x EXCEPT !.inside = TRUE]
        z == CASE f.type \in {"HEADERS", "BIG"} -> OnRequest(y, f.id, f.type = "BIG", ops)
               [] f.type = "RST_STREAM" -> OnStreamClose(y, f.id)
               [] f.type = "GOAWAY" -> [y EXCEPT !.goaway = TRUE]
               [] OTHER -> y
    IN [z EXCEPT !.inside = FALSE]

-----------------------------------------------------------------------------
(* connection.                                                             *)

\* connection::stop.
Stop(x) ==
    IF x.stopped THEN x ELSE CancelDeadline(CloseSocket([x EXCEPT !.stopped = TRUE]))

\* async_read_some and async_write, which fail at once on a closed socket.
AsyncRead(x) ==
    IF x.stopped THEN Post([x EXCEPT !.rd = "error"], "read") ELSE [x EXCEPT !.rd = "pending"]
AsyncWrite(x) ==
    IF x.stopped THEN Post([x EXCEPT !.wr = "error"], "write") ELSE [x EXCEPT !.wr = "pending"]

\* connection::do_write.
WriteOut(x) ==
    IF x.buf # <<>> THEN AsyncWrite(ExpiresFromNow([x EXCEPT !.writing = TRUE]))
    ELSE IF ShouldStop(x) THEN Stop(x)
    ELSE x
DoWrite(x) == IF x.writing THEN x ELSE WriteOut(OnWrite(x))

\* connection::do_read.
DoRead(x) == AsyncRead(ExpiresFromNow(x))

\* The connection lives as long as a handler refers to it; its destructor and
\* the handler's call on_close for the streams that are left.
Referred(x) == x.rd # "none" \/ x.wr # "none" \/ x.dl.wait # "none" \/ x.phase # "up"
Released(x) ==
    IF Referred(x) \/ x.freed THEN x
    ELSE [x EXCEPT !.freed = TRUE, !.streams = {},
                   !.closes = [s \in Streams |-> @[s] + (IF s \in x.streams THEN 1 ELSE 0)]]

\* connection::start and the completion of the TLS handshake.
HandshakeDone ==
    /\ sv.phase = "handshake"
    /\ ~sv.stopped
    /\ sv' = Post([sv EXCEPT !.phase = "start"], "start")
    /\ UNCHANGED scope

HandshakeFails ==
    /\ sv.phase = "handshake"
    /\ sv' = Released([Stop(sv) EXCEPT !.phase = "up"])
    /\ UNCHANGED scope

Start ==
    /\ Ready(sv, "start")
    /\ sv' = DoRead(Submit([Popped(sv) EXCEPT !.phase = "up"], Frame("SETTINGS", 0)))
    /\ UNCHANGED scope

\* Frames the peer may send next.
Arrivals(x) ==
    {Frame(t, s) : t \in {"HEADERS", "BIG"}, s \in {r \in scope.reqs : x.lib[r] = "idle" /\ ~x.goaway
                                     /\ \A t \in Requests : t < r => x.lib[t] # "idle"}}
      \cup {f \in {Frame("RST_STREAM", s) : s \in Streams} : x.lib[f.id] \in {"open", "reserved"}}
      \cup (IF x.goaway THEN {} ELSE {Frame("GOAWAY", 0)})
      \cup {Frame("OTHER", 0)}

\* Bytes arrive, or the peer closes the connection.
Arrive ==
    /\ sv.rd = "pending"
    /\ \/ sv' = Post([sv EXCEPT !.rd = "ok"], "read")
       \/ scope.fail /\ sv' = Post([sv EXCEPT !.rd = "error"], "read")
    /\ UNCHANGED scope

\* The handler of do_read, after on_read and do_write.
ReadOn(x) == IF ~x.writing /\ ShouldStop(x) THEN Released(Stop(x)) ELSE DoRead(x)

ReadDone ==
    /\ Ready(sv, "read")
    /\ LET x == [Popped(sv) EXCEPT !.rd = "none"] IN
       IF sv.rd = "error" THEN sv' = Released(Stop(x))
       ELSE \/ \E f \in Arrivals(sv), ops \in scope.app :
                  /\ f.type \in scope.peer
                  /\ f.type \notin {"HEADERS", "BIG"} => ops = CHOOSE o \in scope.app : TRUE
                  /\ sv' = ReadOn(DoWrite(OnRead(x, f, ops)))
            \/ "BAD" \in scope.peer /\ sv' = Released(Stop(x))
    /\ UNCHANGED scope

\* The write in flight completes.
Wrote ==
    /\ sv.wr = "pending"
    /\ \/ sv' = Post([sv EXCEPT !.wr = "ok", !.buf = <<>>, !.spoke = TRUE, !.owed =
                              IF IsPrefix(sv.buf, @) THEN SubSeq(@, Len(sv.buf) + 1, Len(@))
                              ELSE <<<<"LOST", 0>>>>], "write")
       \/ scope.fail /\ sv' = Post([sv EXCEPT !.wr = "error"], "write")
    /\ UNCHANGED scope

\* The handler of do_write.
WriteDone ==
    /\ Ready(sv, "write")
    /\ LET x == [Popped(sv) EXCEPT !.wr = "none"] IN
       sv' = Released(IF sv.wr = "error" THEN Stop(x)
                      ELSE DoWrite([x EXCEPT !.writing = FALSE]))
    /\ UNCHANGED scope

\* http2_handler::initiate_write, posted by signal_write.
InitiateWrite ==
    /\ Ready(sv, "initiate")
    /\ LET x == [Popped(sv) EXCEPT !.sig = FALSE] IN
       sv' = IF sv.freed THEN x ELSE Released(DoWrite(x))
    /\ UNCHANGED scope

\* connection::handle_deadline.
HandleDeadline ==
    /\ Ready(sv, "deadline")
    /\ LET x == [Popped(sv) EXCEPT !.dl.wait = "none"] IN
       sv' = IF sv.stopped THEN Released(x)
             ELSE IF sv.dl.due THEN Released(Stop(x))
             ELSE AsyncWait(x)
    /\ UNCHANGED scope

Elapse ==
    /\ scope.fail /\ ~sv.dl.due /\ ~sv.stopped
    /\ sv' = Elapsed(sv)
    /\ UNCHANGED scope

\* The application calls a response object from a handler of its own.
Application ==
    /\ sv.ops > 0
    /\ \E s \in sv.streams, op \in scope.later :
          sv' = Do([sv EXCEPT !.ops = @ - 1], op, s)
    /\ UNCHANGED scope

Next ==
    \/ HandshakeDone \/ HandshakeFails \/ Start \/ Arrive \/ ReadDone \/ Wrote \/ WriteDone
    \/ InitiateWrite \/ HandleDeadline \/ Elapse \/ Application

Spec == Init /\ [][Next]_vars

-----------------------------------------------------------------------------
\* No lost write: once the client's first bytes were handled (start() itself
\* does not write), output that the session could send is being written, or a
\* write is posted, whoever queued it and from wherever.
NoLostWrite ==
    sv.spoke /\ ~sv.stopped =>
        \/ sv.writing \/ sv.sig
        \/ sv.out = <<>> /\ sv.pend = None /\ \A s \in Bodies(sv) : sv.res[s].gen = "deferred"

\* Everything the session produced reaches the socket once and in order,
\* across writes that fill outbuf_ and leave a frame in buf_.
FramesInOrder ==
    LET p == IF sv.pend = None THEN <<>> ELSE <<<<sv.pend.type, sv.pend.id>>>>
    IN  <<"LOST", 0>> \notin Range(sv.owed) /\ (~sv.stopped => sv.owed = sv.buf \o p)

\* The head of a response is submitted once, and that of a pushed response
\* only when its PUSH_PROMISE was sent.
HeadOnce ==
    \A s \in Streams :
        /\ sv.heads[s] <= 1
        /\ sv.res[s].pushed /\ sv.heads[s] = 1 => sv.res[s].promised

\* The deadline is watched as long as the connection is not stopped, by exactly
\* one wait.
DeadlineWatched ==
    /\ ~sv.stopped => sv.dl.wait # "none"
    /\ Cardinality({i \in DOMAIN sv.q : sv.q[i] = "deadline"}) = (IF sv.dl.wait = "ready" THEN 1 ELSE 0)

\* on_close is called once for every stream the application saw: when the
\* stream closes, or when the connection goes away.
ClosedOnce ==
    \A s \in Streams :
        LET seen == sv.lib[s] # "idle" \/ sv.res[s] # NewResponse IN
        /\ sv.closes[s] <= 1
        /\ s \in sv.streams => sv.closes[s] = 0
        /\ sv.freed /\ seen => sv.closes[s] = 1

\* What the asio server promises of a connection.
AsioServerSound == NoLostWrite /\ FramesInOrder /\ HeadOnce /\ DeadlineWatched /\ ClosedOnce

=============================================================================
