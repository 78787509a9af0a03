------------------------------- MODULE Relay --------------------------------
(***************************************************************************)
(* nghttpx relaying the streams of one HTTP/2 client connection to HTTP/1  *)
(* backends: Http2Upstream, Downstream, DownstreamQueue and                *)
(* HttpDownstreamConnection with its keep-alive pool.                      *)
(*                                                                         *)
(* One event loop runs all of it, so every callback is one action; what    *)
(* interleaves is the client, the backends, the sockets and the timers.    *)
(* Bodies are counted in chunks and a chunk carries the stream it belongs  *)
(* to, so that a byte that reaches the wrong exchange is visible.          *)
(* `relay' holds, for the client connection `up',                          *)
(*   d     the Downstream object of each stream                            *)
(*   q     the HostEntry of each authority: active count, blocked list     *)
(*   c     each HttpDownstreamConnection with the backend at its far end   *)
(*   f     the nghttp2 stream of each exchange as the client sees it       *)
(***************************************************************************)
EXTENDS Integers, Sequences, FiniteSets, SequencesExt

CONSTANTS Streams,    \* the requests one client connection may make
          Hosts,      \* authorities
          Conns,      \* how many backend connections may exist at a time
          MaxRetry,   \* 50 in the code
          RespBuf,    \* response_buffer_size in chunks
          Scopes      \* the configurations explored

VARIABLES relay, scope

rvars == <<relay, scope>>

-----------------------------------------------------------------------------
(* What a scope fixes: the streams used, their authority and body length,  *)
(* whether the request carries content-length, the length of each response *)
(* and how it ends, CONNECT and pushed streams, and the faults explored.   *)

Host(s) == scope.host[s]
Tunnel(s) == s \in scope.tunnel
Pushed(s) == s \in DOMAIN scope.push
\* HEADERS without END_STREAM (http2_expect_body)
ExpectBody(s) == Tunnel(s) \/ scope.body[s] > 0 \/ s \in scope.empty
\* no content-length in a request with a body: transfer-encoding: chunked
Chunked(s) == ExpectBody(s) /\ ~Tunnel(s) /\ ~scope.sized
Fault(k) == k \in scope.faults

Page == <<0, 0>>          \* nghttpx's own error page
End(s) == <<s, -1>>       \* the last chunk of a chunked body

NoDownstream ==
  [req |-> "none", resp |-> "none", disp |-> "none", conn |-> 0, sent |-> FALSE,
   blk |-> <<>>, eof |-> FALSE, buf |-> <<>>, unc |-> 0, retry |-> 0,
   close |-> FALSE, up |-> FALSE, rb |-> <<>>, rt |-> FALSE, wt |-> FALSE]

NoConn ==
  [st |-> "none", owner |-> 0, hdr |-> FALSE, onw |-> "noop", wev |-> FALSE,
   reuse |-> TRUE, paused |-> {}, peer |-> TRUE, closing |-> FALSE,
   cur |-> 0, next |-> 0, todo |-> <<>>, pos |-> 0, out |-> <<>>, bad |-> FALSE]

IdleStream ==
  [st |-> "idle", recv |-> 0, ended |-> FALSE, res |-> "none", defer |-> FALSE,
   rst |-> FALSE, nres |-> 0, got |-> 0, page |-> FALSE, used |-> 0,
   mixed |-> FALSE, leak |-> FALSE, whole |-> 0]

Init ==
  /\ scope \in Scopes
  /\ relay = [up |-> TRUE,
              d |-> [s \in Streams |-> NoDownstream],
              q |-> [h \in Hosts |-> [active |-> 0, blocked |-> <<>>]],
              c |-> [k \in Conns |-> NoConn],
              f |-> [s \in Streams |-> IdleStream]]

-----------------------------------------------------------------------------
(* The nghttp2 session towards the client *)

Usable(x, s) == x.f[s].st = "open" /\ ~x.f[s].rst

RstStream(x, s) ==
  IF x.f[s].st = "open" THEN [x EXCEPT !.f[s].rst = TRUE] ELSE x

SubmitResponse(x, s) ==
  IF Usable(x, s) THEN [x EXCEPT !.f[s].res = "submitted", !.f[s].defer = FALSE,
                                 !.f[s].nres = @ + 1]
  ELSE x

ResumeData(x, s) == [x EXCEPT !.f[s].defer = FALSE]

Consume(x, s, n) == [x EXCEPT !.f[s].used = @ + n]

\* error_reply, also for redirect_to_https and the mruby replies
ErrorReply(x, s) ==
  SubmitResponse([x EXCEPT !.d[s].rb = Append(@, Page),
                           !.d[s].resp = "MSG_COMPLETE",
                           !.d[s].wt = TRUE], s)

-----------------------------------------------------------------------------
(* Backend connections and the pool *)

Idle(x, k) == x.c[k].st = "open" /\ x.c[k].owner = 0
\* get_downstream_connection: a pooled connection, a new one, or none (0)
\* when every address is blocked; which address is chosen is left open
Candidates(x) ==
  LET idle == {k \in Conns : Idle(x, k)}
      free == {k \in Conns : x.c[k].st = "none"}
      new == IF free = {} THEN {} ELSE {Min(free)}
  IN idle \cup new \cup (IF Fault("none") \/ idle \cup new = {} THEN {0} ELSE {})

ActualSignal(x, k) == x.c[k].st = "open"
SignalWrite(x, k) == IF ActualSignal(x, k) THEN [x EXCEPT !.c[k].wev = TRUE] ELSE x

\* initiate_connection: connect, or reset a connection of the pool
Attach(x, s, k) ==
  [x EXCEPT !.d[s].conn = k,
            !.c[k] = IF @.st = "none"
                       THEN [NoConn EXCEPT !.st = "connecting", !.owner = s]
                       ELSE [@ EXCEPT !.owner = s, !.onw = "first", !.hdr = FALSE]]

\* detach_downstream_connection, then the pool or the destructor
Detach(x, s) ==
  LET k == x.d[s].conn
  IN [x EXCEPT !.d[s].conn = 0,
               !.c[k] = IF @.reuse
                          THEN [@ EXCEPT !.owner = 0, !.paused = {}, !.wev = FALSE]
                          ELSE NoConn]

\* pop_downstream_connection: the connection is deleted
Pop(x, s) ==
  IF x.d[s].conn = 0 THEN x
  ELSE [x EXCEPT !.c[x.d[s].conn] = NoConn, !.d[s].conn = 0]

CanDetach_AnyRequest(x, s) ==
  LET d == x.d[s]
  IN /\ d.conn # 0 /\ d.resp = "MSG_COMPLETE"
     /\ ~d.up /\ ~d.close /\ d.buf = <<>>

CanDetach(x, s) ==
  LET d == x.d[s]
  IN /\ d.conn # 0 /\ d.resp = "MSG_COMPLETE" /\ d.req = "MSG_COMPLETE"
     /\ ~d.up /\ ~d.close /\ d.buf = <<>>


PushRequestHeaders(x, s) ==
  LET k == x.d[s].conn
      y == [x EXCEPT !.c[k].hdr = TRUE, !.d[s].buf = Append(@, <<s, 0>>)]
  IN IF x.c[k].hdr THEN SignalWrite(x, k)
     ELSE IF Tunnel(s) \/ x.d[s].blk # <<>> \/ ~ExpectBody(s)
            THEN SignalWrite(y, k) ELSE y

\* HttpDownstreamConnection::end_upload_data
ConnEndUpload(x, s) ==
  LET k == x.d[s].conn
  IN IF ~x.d[s].sent
       THEN LET y == [x EXCEPT !.d[s].eof = TRUE]
            IN IF x.c[k].hdr THEN SignalWrite(y, k) ELSE y
       ELSE LET y == SignalWrite(x, k)
            IN IF Chunked(s) THEN [y EXCEPT !.d[s].buf = Append(@, End(s))] ELSE y

\* Downstream::end_upload_data
EndUpload(x, s) ==
  CASE x.d[s].conn # 0 -> ConnEndUpload(x, s)
    [] x.d[s].conn = 0 /\ ~x.d[s].sent -> [x EXCEPT !.d[s].eof = TRUE]
    [] OTHER -> IF x.d[s].resp # "MSG_COMPLETE" THEN RstStream(x, s) ELSE x

\* HttpDownstreamConnection::push_upload_data_chunk
ConnPushUpload(x, s, t) ==
  LET k == x.d[s].conn
  IN IF ~x.d[s].sent
       THEN LET y == [x EXCEPT !.d[s].blk = Append(@, t), !.d[s].unc = @ + 1]
            IN IF x.c[k].hdr THEN SignalWrite(y, k) ELSE y
       ELSE SignalWrite([x EXCEPT !.d[s].buf = Append(@, t)], k)

\* Downstream::push_upload_data_chunk and on_data_chunk_recv_callback
PushUpload(x, s, t) ==
  CASE x.d[s].conn # 0 -> LET y == ConnPushUpload(x, s, t)
                          IN [y EXCEPT !.d[s].unc = @ + 1]
    [] x.d[s].conn = 0 /\ ~x.d[s].sent ->
         [x EXCEPT !.d[s].blk = Append(@, t), !.d[s].unc = @ + 1]
    [] OTHER -> Consume(IF x.d[s].resp # "MSG_COMPLETE" THEN RstStream(x, s) ELSE x, s, 1)

-----------------------------------------------------------------------------
(* DownstreamQueue and the life of a Downstream *)

MarkActive(x, s) ==
  [x EXCEPT !.q[Host(s)].active = @ + 1, !.d[s].disp = "ACTIVE"]
MarkBlocked(x, s) ==
  [x EXCEPT !.q[Host(s)].blocked = Append(@, s), !.d[s].disp = "BLOCKED"]
CanActivate_OneMore(x, s) == x.q[Host(s)].active <= scope.limit
CanActivate(x, s) == x.q[Host(s)].active < scope.limit

\* The operators from here to RetryConnection yield the set of possible
\* outcomes, one for each connection get_downstream_connection may return.
InitiateDownstream(x, s) ==
  {IF k = 0
     THEN [ErrorReply(x, s) EXCEPT !.d[s].req = "CONNECT_FAIL", !.d[s].disp = "FAILURE"]
     ELSE LET y == MarkActive(PushRequestHeaders(Attach(x, s, k), s), s)
          IN IF ExpectBody(s) THEN y ELSE EndUpload(y, s)
   : k \in Candidates(x)}

StartDownstream(x, s) ==
  IF CanActivate(x, s) THEN InitiateDownstream(x, s) ELSE {MarkBlocked(x, s)}

\* remove_downstream with remove_and_get_blocked
RemoveDownstream(x, s) ==
  LET h == Host(s)
      y == [Pop(x, s) EXCEPT
              !.d[s] = NoDownstream,
              !.q[h] = IF x.d[s].disp = "ACTIVE" THEN [@ EXCEPT !.active = @ - 1]
                       ELSE [@ EXCEPT !.blocked = SelectSeq(@, LAMBDA r : r # s)]]
      blocked == y.q[h].blocked
  IN IF y.q[h].active >= scope.limit \/ blocked = <<>> THEN {y}
     ELSE InitiateDownstream([y EXCEPT !.q[h].blocked = Tail(@)], Head(blocked))

\* on_stream_close_callback; the client's view of the exchange is summed up
OnStreamClose(x, s) ==
  LET y == [Consume(x, s, x.d[s].unc) EXCEPT !.d[s].unc = 0]
      z == [y EXCEPT
              !.f[s] = [IdleStream EXCEPT !.st = "closed", !.mixed = y.f[s].mixed,
                                          !.whole = y.f[s].whole,
                                          !.leak = y.f[s].used < y.f[s].recv]]
      w == IF z.d[s].req # "CONNECT_FAIL" /\ CanDetach(z, s) THEN Detach(z, s) ELSE z
  IN RemoveDownstream(w, s)

\* delete handler: every Downstream and its connection go with it
DeleteHandler(x) ==
  [x EXCEPT !.up = FALSE,
            !.d = [s \in Streams |-> NoDownstream],
            !.q = [h \in Hosts |-> [active |-> 0, blocked |-> <<>>]],
            !.c = [k \in Conns |-> IF x.c[k].owner # 0 THEN NoConn ELSE x.c[k]],
            !.f = [s \in Streams |-> [IdleStream EXCEPT !.st = "closed",
                                        !.mixed = x.f[s].mixed, !.whole = x.f[s].whole]]]

\* retry_downstream_connection; `assert(!request_header_sent)' is RetryUnsent
RetryConnection(x, s) ==
  LET y == [Pop(x, s) EXCEPT !.d[s].retry = @ + 1, !.d[s].buf = <<>>]
  IN IF x.d[s].retry + 1 > MaxRetry THEN {DeleteHandler(x)}
     ELSE {IF k = 0 THEN [ErrorReply(y, s) EXCEPT !.d[s].req = "CONNECT_FAIL"]
           ELSE PushRequestHeaders(Attach(y, s, k), s) : k \in Candidates(y)}


OnBodyComplete(x, s, received) ==
  IF received THEN [ResumeData(x, s) EXCEPT !.d[s].wt = TRUE]
  ELSE [RstStream(x, s) EXCEPT !.d[s].close = TRUE]

\* the client gets the next chunk of the response; resume_read
Deliver(x, s) ==
  LET t == Head(x.d[s].rb)
      f == x.f[s]
      k == x.d[s].conn
      y == [x EXCEPT
              !.d[s].rb = Tail(@),
              !.f[s] = IF t = Page THEN [@ EXCEPT !.page = TRUE, !.mixed = @ \/ f.got > 0]
                       ELSE [@ EXCEPT !.got = @ + 1,
                                      !.mixed = @ \/ f.page \/ t # <<s, f.got + 1>>]]
  IN IF k # 0 /\ 2 * Len(y.d[s].rb) <= RespBuf
       THEN [y EXCEPT !.c[k].paused = @ \ {"NO_BUFFER"}] ELSE y

\* END_STREAM is sent: a truncated response that looks whole is `mixed'
EndResponse(x, s) ==
  LET f == x.f[s]
      whole == f.page \/ Tunnel(s) \/ scope.until = "eof" \/ f.got = scope.reply[s]
      y == [x EXCEPT !.f[s].res = "ended", !.f[s].mixed = @ \/ ~whole]
  IN IF x.d[s].up \/ ~f.ended THEN RstStream(y, s) ELSE y

-----------------------------------------------------------------------------
(* The client *)

Open(s) == relay.up /\ relay.f[s].st = "open"
\* no response is expected on a stream once both sides are closed
RemoteEnd(x, s) == [x EXCEPT !.f[s].ended = TRUE]

NewDownstream == [NoDownstream EXCEPT !.req = "INITIAL", !.resp = "INITIAL",
                                      !.disp = "PENDING", !.rt = TRUE]

\* on_begin_headers, on_header and on_request_headers
RequestHeaders(s) ==
  LET x == [relay EXCEPT !.d[s] = NewDownstream, !.f[s].st = "open"]
      y == IF ExpectBody(s) THEN [x EXCEPT !.d[s].req = "HEADER_COMPLETE"]
           ELSE [RemoteEnd(x, s) EXCEPT !.d[s].req = "MSG_COMPLETE", !.d[s].rt = FALSE]
  IN /\ relay.up /\ s \in scope.streams /\ ~Pushed(s)
     /\ relay.f[s].st = "idle"
     /\ relay' \in StartDownstream(y, s)

\* a request refused before it reaches a backend (400, 431, 501)
RequestRefused(s) ==
  /\ relay.up /\ s \in scope.streams /\ ~Pushed(s) /\ Fault("refused")
  /\ relay.f[s].st = "idle"
  /\ LET x == [relay EXCEPT !.d[s] = NewDownstream, !.f[s].st = "open"]
     IN relay' = ErrorReply(IF ExpectBody(s) THEN x ELSE RemoteEnd(x, s), s)

RequestData(s) ==
  /\ Open(s) /\ ~relay.f[s].ended /\ ~relay.f[s].rst
  /\ relay.f[s].recv < scope.body[s]
  /\ LET k == relay.f[s].recv + 1
         x == [relay EXCEPT !.f[s].recv = k, !.d[s].rt = TRUE]
     IN relay' = PushUpload(x, s, <<s, k>>)

\* END_STREAM on DATA or on the trailer part; the stream closes when the
\* response has ended already
RequestEnd(s) ==
  LET x == EndUpload([relay EXCEPT !.d[s].rt = FALSE], s)
      y == RemoteEnd([x EXCEPT !.d[s].req = "MSG_COMPLETE"], s)
  IN /\ Open(s) /\ ~relay.f[s].ended /\ ~relay.f[s].rst
     /\ relay.f[s].recv = scope.body[s]
     /\ relay' \in (IF y.f[s].res = "ended" THEN OnStreamClose(y, s) ELSE {y})

ClientReset(s) ==
  /\ Open(s) /\ Fault("reset")
  /\ relay' \in OnStreamClose(relay, s)

ClientGone ==
  /\ relay.up /\ Fault("gone")
  /\ \E s \in Streams : relay.f[s].st = "open"
  /\ relay' = DeleteHandler(relay)

-----------------------------------------------------------------------------
(* Towards the client *)

\* downstream_data_read_callback, send_data_callback and on_frame_send: one
\* chunk, with END_STREAM when the response is complete and nothing is left
SendData(s) ==
  LET d == relay.d[s]
      last == Len(d.rb) <= 1 /\ d.resp = "MSG_COMPLETE"
      x == IF d.rb = <<>> THEN relay ELSE Deliver(relay, s)
      y == [x EXCEPT !.d[s].wt = Len(d.rb) > 1]
      z == IF last THEN EndResponse(y, s) ELSE y
  IN /\ Open(s) /\ Usable(relay, s)
     /\ relay.f[s].res = "submitted" /\ ~relay.f[s].defer
     /\ relay' \in
          CASE d.rb = <<>> /\ ~last ->
                 {[relay EXCEPT !.f[s].defer = TRUE, !.d[s].wt = FALSE]}
            [] last /\ z.f[s].ended /\ ~z.f[s].rst -> OnStreamClose(z, s)
            [] OTHER -> {z}

SendRst(s) ==
  /\ Open(s) /\ relay.f[s].rst
  /\ relay' \in OnStreamClose(relay, s)

\* PUSH_PROMISE leaves: the promised request is complete and is started
SendPromise(s) ==
  LET p == scope.push[s]
      x == [relay EXCEPT !.d[s] = [NewDownstream EXCEPT !.rt = FALSE, !.req = "MSG_COMPLETE"],
                         !.f[s].st = "open", !.f[s].ended = TRUE]
  IN /\ relay.up /\ Pushed(s) /\ relay.f[s].st = "promised"
     /\ relay' \in (IF Usable(relay, p) /\ relay.f[p].res = "submitted"
                       THEN StartDownstream(x, s)
                       ELSE {[relay EXCEPT !.f[s].st = "closed"]})

\* upstream_timeoutcb of the read or the write timer: on_timeout
UpstreamTimeout(s) ==
  /\ Open(s) /\ Fault("timeout") /\ ~relay.f[s].rst
  /\ relay.d[s].rt \/ relay.d[s].wt
  /\ relay' = RstStream(relay, s)

-----------------------------------------------------------------------------
(* Backend sockets *)

\* The backend parses what it gets: the request line with its header, then
\* the body as the framing it was told says.  `bad' is a message it cannot
\* parse: bytes of one request inside another.
BodyDone(s, n) == IF Chunked(s) \/ Tunnel(s) THEN FALSE ELSE n = scope.body[s]

BackendParse(x, k, t) ==
  LET b == x.c[k]
      s == t[1]
      hdr == t[2] = 0
      fits == IF hdr THEN b.cur = 0
              ELSE b.cur = s /\ (t = End(s) \/ t[2] = b.next)
      ends == fits /\ (t = End(s) \/ BodyDone(s, t[2]))
      y == [x EXCEPT !.c[k] = [@ EXCEPT !.bad = @ \/ ~fits,
                                        !.cur = IF ends THEN 0 ELSE s,
                                        !.next = IF ends THEN 0 ELSE t[2] + 1,
                                        !.todo = IF hdr THEN Append(@, s) ELSE @]]
  IN IF ends THEN [y EXCEPT !.f[s].whole = @ + 1] ELSE y


\* what a write hands to the backend; a closed peer may still swallow it
Transmit(x, k, items) ==
  IF x.c[k].peer THEN FoldLeft(LAMBDA y, t : BackendParse(y, k, t), x, items) ELSE x

ProcessBlocked(x, s) ==
  LET y == [x EXCEPT !.d[s].buf = @ \o x.d[s].blk]
  IN IF x.d[s].eof THEN ConnEndUpload(y, s) ELSE y

\* write_clear up to the n-th item, and the end of write_first
WriteItems(x, s, k, n) ==
  LET buf == x.d[s].buf
      y == [Transmit(x, k, SubSeq(buf, 1, n)) EXCEPT
              !.d[s].buf = SubSeq(buf, n + 1, Len(buf)),
              !.c[k].wev = n < Len(buf)]
      z == IF n = Len(buf) THEN [Consume(y, s, y.d[s].unc) EXCEPT !.d[s].unc = 0] ELSE y
  IN IF z.c[k].onw = "first"
       THEN [z EXCEPT !.c[k].onw = "plain", !.d[s].sent = TRUE, !.d[s].blk = <<>>]
       ELSE z

WriteError(x, s, k) ==
  IF x.c[k].onw = "first" THEN RetryConnection(x, s)
  ELSE {[x EXCEPT !.c[k].onw = "noop", !.c[k].reuse = FALSE, !.c[k].wev = FALSE]}

\* on_write: everything, a part (EAGAIN), or an error
OnWrite(x, k) ==
  LET s == x.c[k].owner
      y == IF x.c[k].onw = "first" THEN ProcessBlocked(x, s) ELSE x
      n == Len(y.d[s].buf)
  IN IF x.c[k].onw = "noop" THEN {[x EXCEPT !.c[k].wev = FALSE]}
     ELSE {WriteItems(y, s, k, m) : m \in IF Fault("partial") THEN 0 .. n ELSE {n}}
            \cup (IF x.c[k].peer THEN {} ELSE WriteError(y, s, k))

Attached(k) == relay.up /\ relay.c[k].owner # 0

Write(k) ==
  /\ Attached(k) /\ relay.c[k].st = "open" /\ relay.c[k].wev
  /\ relay' \in OnWrite(relay, k)

\* connectcb
Connected(k) ==
  /\ Attached(k) /\ relay.c[k].st = "connecting"
  /\ relay' \in OnWrite([relay EXCEPT !.c[k].st = "open", !.c[k].onw = "first"], k)

\* connected() finds an error, or connect_timeoutcb
ConnectFails(k) ==
  /\ Attached(k) /\ relay.c[k].st = "connecting" /\ Fault("connect")
  /\ relay' \in RetryConnection(relay, relay.c[k].owner)

\* prepare_push_promise and submit_push_promise
PushPromise(x, s) ==
  [x EXCEPT !.f = [r \in Streams |->
     IF Pushed(r) /\ scope.push[r] = s /\ @[r].st = "idle" /\ Usable(x, s)
       THEN [@[r] EXCEPT !.st = "promised"] ELSE @[r]]]

\* on_downstream_header_complete
OnHeaderComplete(x, s) == [SubmitResponse(PushPromise(x, s), s) EXCEPT !.d[s].wt = TRUE]

\* htp_hdrs_completecb
HeaderComplete(x, s, t) ==
  OnHeaderComplete([x EXCEPT !.d[s].resp = "HEADER_COMPLETE",
                             !.d[s].close = Tunnel(s) \/ t[2] = -1,
                             !.d[s].up = Tunnel(s),
                             !.d[s].req = IF Tunnel(s) THEN "HEADER_COMPLETE" ELSE @], s)

MsgComplete(x, s) ==
  OnBodyComplete([x EXCEPT !.d[s].resp = "MSG_COMPLETE",
                           !.c[x.d[s].conn].paused = @ \cup {"MSG_BLOCK"}], s, TRUE)

\* downstream_error; close is what timeoutcb and a broken response set
DownstreamError(x, s) ==
  LET y == Pop(x, s)
      z == IF y.d[s].resp = "HEADER_COMPLETE"
             THEN IF y.d[s].up THEN OnBodyComplete(y, s, TRUE) ELSE RstStream(y, s)
             ELSE ErrorReply(y, s)
  IN IF y.d[s].resp = "MSG_COMPLETE"
       THEN IF y.d[s].up THEN RstStream(y, s) ELSE y
       ELSE [z EXCEPT !.d[s].resp = "MSG_COMPLETE"]

\* only a response without a length is whole when the backend closes
DownstreamEof(x, s) ==
  LET y == Pop(x, s)
  IN CASE y.d[s].resp = "HEADER_COMPLETE" ->
            OnBodyComplete([y EXCEPT !.d[s].resp = "MSG_COMPLETE"], s,
                           scope.until = "eof" \/ Tunnel(s))
       [] y.d[s].resp = "INITIAL" -> ErrorReply(y, s)
       [] OTHER -> y

\* process_input for one item: a header, a broken header or a chunk
ProcessInput(x, s, t) ==
  LET header == t[2] <= 0
      ends == scope.until = "length" /\ ~Tunnel(s) /\ (IF header THEN 0 ELSE t[2]) = scope.reply[t[1]]
      y == IF header THEN HeaderComplete(x, s, t)
           ELSE [ResumeData(x, s) EXCEPT !.d[s].rb = Append(@, t), !.d[s].wt = TRUE]
      z == IF ends THEN MsgComplete(y, s) ELSE y
  IN IF t[2] = -2 \/ (header /\ x.d[s].resp # "INITIAL") THEN DownstreamError(x, s)
     ELSE LET w == IF Len(z.d[s].rb) >= RespBuf
                     THEN [z EXCEPT !.c[z.d[s].conn].paused = @ \cup {"NO_BUFFER"}] ELSE z
          IN IF CanDetach(w, s) THEN Detach(w, s) ELSE w

\* readcb and downstream_read
Read(k) ==
  LET b == relay.c[k]
  IN /\ Attached(k) /\ b.st = "open" /\ b.paused = {}
     /\ b.out # <<>> \/ ~b.peer
     /\ relay' = IF b.out # <<>>
                   THEN ProcessInput([relay EXCEPT !.c[k].out = Tail(@)], b.owner, Head(b.out))
                   ELSE DownstreamEof(relay, b.owner)

\* timeoutcb
BackendTimeout(k) ==
  /\ Attached(k) /\ relay.c[k].st = "open" /\ Fault("timeout")
  /\ relay' = DownstreamError([relay EXCEPT !.d[relay.c[k].owner].close = TRUE],
                              relay.c[k].owner)

\* idle_readcb and idle_timeoutcb
IdleEnds(k) ==
  /\ Idle(relay, k) /\ Fault("close")
  /\ relay' = [relay EXCEPT !.c[k] = NoConn]

-----------------------------------------------------------------------------
(* The backend: answers the requests whose header it got, in order,        *)
(* possibly before the body has arrived, and may close at any time.        *)

Answer(k) ==
  LET b == relay.c[k]
      s == Head(b.todo)
      n == scope.reply[s]
      heads == {IF scope.until = "eof" THEN -1 ELSE 0}
                 \cup (IF Fault("close") THEN {-1} ELSE {})
                 \cup (IF Fault("broken") THEN {-2} ELSE {})
      Say(p, i) ==
        LET done == p = n /\ ~Tunnel(s)
            bye == b.closing \/ i < 0
        IN [b EXCEPT !.out = Append(@, <<s, i>>), !.closing = bye,
                     !.pos = IF done THEN 0 ELSE p + 1,
                     !.todo = IF done THEN Tail(@) ELSE @,
                     !.peer = ~(bye /\ done) /\ i # -2]
  IN /\ b.st = "open" /\ b.peer /\ ~b.bad /\ b.todo # <<>>
     /\ b.pos <= n
     /\ \E i \in IF b.pos = 0 THEN heads ELSE {b.pos} :
          relay' = [relay EXCEPT !.c[k] = Say(b.pos, i)]

Hangup(k) ==
  /\ relay.c[k].st = "open" /\ relay.c[k].peer
  /\ Fault("close") \/ (Len(relay.c[k].todo) > 0 /\ Tunnel(Head(relay.c[k].todo)))
  /\ relay' = [relay EXCEPT !.c[k].peer = FALSE, !.c[k].todo = <<>>, !.c[k].cur = 0]

-----------------------------------------------------------------------------
Next ==
  /\ UNCHANGED scope
  /\ \/ ClientGone
     \/ \E s \in Streams : \/ RequestHeaders(s) \/ RequestRefused(s) \/ RequestData(s)
                           \/ RequestEnd(s) \/ ClientReset(s)
                           \/ SendData(s) \/ SendRst(s) \/ SendPromise(s)
                           \/ UpstreamTimeout(s)
     \/ \E k \in Conns : \/ Write(k) \/ Connected(k) \/ ConnectFails(k) \/ Read(k)
                         \/ BackendTimeout(k) \/ IdleEnds(k)
                         \/ Answer(k) \/ Hangup(k)

Spec == Init /\ [][Next]_rvars

\* What makes SendRst, UpstreamTimeout, SendData, BackendTimeout and the outcome
\* of a connect possible.
ResetDue(s) == Open(s) /\ relay.f[s].rst
TimeoutDue(s) == Open(s) /\ ~relay.f[s].rst /\ (relay.d[s].rt \/ relay.d[s].wt)
DataDue(s) == Open(s) /\ Usable(relay, s) /\ ~relay.f[s].defer /\ relay.f[s].res = "submitted"
Silent(k) == Attached(k) /\ relay.c[k].st = "open"
Connecting(k) == Attached(k) /\ relay.c[k].st = "connecting"

\* Weak fairness of these actions.  Each can be taken only finitely often while
\* its guard stays true (a chunk, a retry or the stream is used up), so that its
\* weak fairness is that the guard is false again and again.  Nothing is
\* assumed of the client and of the backends.
Fairness ==
  /\ \A s \in Streams : []<>~ResetDue(s) /\ []<>~TimeoutDue(s) /\ []<>~DataDue(s)
  /\ \A k \in Conns : []<>~Silent(k) /\ []<>~Connecting(k)

-----------------------------------------------------------------------------
(* Properties *)

Of(h, state) == {s \in Streams : relay.d[s].disp = state /\ Host(s) = h}

\* DownstreamQueue and the connections agree with the Downstream objects:
\* num_active counts the ACTIVE ones of an authority and respects the limit,
\* the blocked list holds each BLOCKED one once, a slot is free while one is
\* blocked only until a failed exchange closes, a connection and its
\* Downstream name each other, and only a connection that has not sent its
\* request header can be retried (the assertion of retry_downstream_connection).
QueueExact ==
  /\ \A h \in Hosts :
       LET e == relay.q[h]
       IN /\ e.active = Cardinality(Of(h, "ACTIVE")) /\ e.active <= scope.limit
          /\ ToSet(e.blocked) = Of(h, "BLOCKED") /\ IsInjective(e.blocked)
          /\ e.blocked # <<>> => e.active = scope.limit \/ Of(h, "FAILURE") # {}
  /\ \A k \in Conns : \A s \in Streams : (relay.c[k].owner = s) <=> (relay.d[s].conn = k)
  /\ \A k \in Conns : LET b == relay.c[k]
                      IN b.st = "connecting" \/ (b.owner # 0 /\ b.onw = "first")
                           => b.owner # 0 /\ ~relay.d[b.owner].sent

\* Exchanges that share backend connections never mix: a backend never gets
\* bytes of one request inside another, a connection waits in the pool only
\* when its last exchange is over on both sides, a client gets its own
\* response (or one error page), in order, once, and END_STREAM only on a
\* whole one, no request reaches two backends whole, and the flow-control
\* window taken by a request body is given back when the stream closes.
ExchangesIsolated ==
  /\ \A k \in Conns : LET b == relay.c[k]
                      IN /\ ~b.bad
                         /\ Idle(relay, k) /\ b.peer
                              => b.cur = 0 /\ b.todo = <<>> /\ b.out = <<>>
  /\ \A s \in Streams : LET f == relay.f[s]
                        IN ~f.mixed /\ ~f.leak /\ f.whole <= 1 /\ f.nres <= 1

\* A complete request whose bytes are all written has reached the backend
\* whole, so that the backend can answer it.
ForwardedWhole ==
  \A s \in Streams :
    LET d == relay.d[s]
        b == relay.c[d.conn]
    IN d.conn # 0 /\ ~Tunnel(s) /\ d.sent /\ d.buf = <<>> /\ d.req = "MSG_COMPLETE" /\ b.peer
         => b.cur # s

\* A connected backend connection that holds bytes of a complete request has
\* been told to write them.
WriteSignalled ==
  \A s \in Streams :
    LET d == relay.d[s]
        b == relay.c[d.conn]
    IN d.conn # 0 /\ d.buf \o d.blk # <<>> /\ d.req = "MSG_COMPLETE"
         /\ b.st = "open" /\ b.onw # "noop" => b.wev


\* Every exchange ends, by its response, by an error reply or by RST_STREAM,
\* however long the client, the queue or a backend keeps it waiting.
Pending(s) == relay.f[s].st = "open"
ExchangeEnds == \A s \in Streams : []<>~Pending(s)
=============================================================================
