--------------------------- MODULE BackendSession ---------------------------
(***************************************************************************)
(* nghttpx multiplexing requests over HTTP/2 backend connections:          *)
(* Http2Session, Http2DownstreamConnection, and what Http2Upstream and     *)
(* HttpsUpstream do when a backend stream or a whole session is lost.      *)
(*                                                                         *)
(*   bs.s     the Http2Session objects of one backend address              *)
(*   bs.free  the address's http2_extra_freelist                           *)
(*   bs.d     the Downstream of each request, with the frontend's stream   *)
(*                                                                         *)
(* A stream of a session is an index into `str', in the order of           *)
(* nghttp2_submit_request and of PUSH_PROMISE frames.  Stream 0 is -1.     *)
(***************************************************************************)
EXTENDS Integers, Sequences, FiniteSets, SequencesExt

CONSTANTS Requests,   \* exchanges, those pushed by the backend included
          Sessions,   \* Http2Session objects that may exist at a time
          MaxRetry,   \* 50 in the code
          Limit,      \* 100 in the code: dconns before SETTINGS is known
          Scopes

VARIABLES bs, scope

bvars == <<bs, scope>>

Fault(k) == k \in scope.faults
Pushed(r) == r \in DOMAIN scope.push
\* extended CONNECT: needs SETTINGS_ENABLE_CONNECT_PROTOCOL, is a tunnel
Extended(r) == r \in scope.ext

NoSession ==
  [st |-> "none", chk |-> "NONE", zone |-> "NONE", lib |-> FALSE, init |-> FALSE,
   dc |-> <<>>, str |-> <<>>, max |-> Limit, goaway |-> FALSE, bye |-> FALSE,
   term |-> FALSE, rcvd |-> FALSE, allow |-> FALSE, ack |-> FALSE, win |-> 0,
   old |-> FALSE]

NoStream ==
  [st |-> "closed", by |-> 0, d |-> 0, data |-> FALSE, end |-> FALSE,
   resp |-> "none", rst |-> FALSE, defer |-> FALSE]

NoDownstream ==
  [st |-> "idle", req |-> "INITIAL", resp |-> "INITIAL", on |-> 0, sd |-> 0,
   sid |-> 0, pend |-> FALSE, sent |-> FALSE, recv |-> 0, blk |-> 0, buf |-> 0,
   unc |-> 0, rb |-> 0, retry |-> 0, up |-> FALSE, final |-> TRUE, rst |-> FALSE,
   copies |-> 0, stray |-> FALSE]

Init ==
  /\ scope \in Scopes
  /\ bs = [s |-> [i \in Sessions |-> NoSession], free |-> <<>>, bad |-> FALSE,
           d |-> [r \in Requests |-> NoDownstream]]

-----------------------------------------------------------------------------
(* The freelist and the choice of a session *)

MaxConcurrencyReached(x, i, extra) ==
  LET s == x.s[i]
  IN Len(s.dc) + extra >= (IF s.lib THEN s.max ELSE Limit)
       \/ (s.lib /\ (s.goaway \/ s.term))

AddToFreelist(x, i) ==
  IF x.s[i].zone # "NONE" THEN x
  ELSE [x EXCEPT !.s[i].zone = "EXTRA",
                 !.free = IF x.s[i].old THEN @ ELSE Append(@, i)]

RemoveFromFreelist(x, i, zone) ==
  [x EXCEPT !.s[i].zone = IF @ = "GONE" THEN @ ELSE zone,
            !.free = SelectSeq(@, LAMBDA k : k # i)]

\* get_http2_session: the first session of the freelist with room, those
\* before it leave the list; else a new one (0: no more can be modelled)
NewSession(x) ==
  LET fresh == {i \in Sessions : x.s[i].st = "none"}
  IN IF fresh = {} THEN <<x, 0>>
     ELSE <<AddToFreelist([x EXCEPT !.s[Min(fresh)].st = "DISCONNECTED"], Min(fresh)),
            Min(fresh)>>

RECURSIVE GetHttp2Session(_)
GetHttp2Session(x) ==
  IF x.free = <<>> THEN NewSession(x)
  ELSE LET i == Head(x.free)
       IN CASE MaxConcurrencyReached(x, i, 0) ->
                 GetHttp2Session(RemoveFromFreelist(x, i, "NONE"))
            [] MaxConcurrencyReached(x, i, 1) -> <<RemoveFromFreelist(x, i, "NONE"), i>>
            [] OTHER -> <<x, i>>

-----------------------------------------------------------------------------
(* Http2DownstreamConnection *)

\* nghttp2_submit_rst_stream on behalf of r: a queued request is cancelled,
\* RST_STREAM of an open stream is queued.  `stray': the stream is another's.
SubmitRst(x, i, j, r) ==
  IF j \notin DOMAIN x.s[i].str \/ x.s[i].str[j].st = "closed" THEN x
  ELSE [x EXCEPT !.s[i].str[j].rst = TRUE,
                 !.d[r].stray = @ \/ x.s[i].str[j].by # r]

\* Http2DownstreamConnection::submit_rst_stream
RstStream(x, r) ==
  LET d == x.d[r]
  IN IF x.s[d.on].st = "CONNECTED" /\ d.sid # 0
          /\ d.resp \notin {"MSG_RESET", "MSG_COMPLETE"}
       THEN SubmitRst(x, d.on, d.sid, r) ELSE x

Consume(x, i, n) == IF x.s[i].lib THEN [x EXCEPT !.s[i].win = @ - n] ELSE x

\* remove_downstream_connection
RemoveDconn(x, r) ==
  LET d == x.d[r]
      i == d.on
      y == [x EXCEPT !.s[i].dc = SelectSeq(@, LAMBDA q : q # r),
                     !.d[r].on = 0, !.d[r].sd = 0]
      z == IF d.sd = 0 THEN y ELSE [y EXCEPT !.s[i].str[d.sd].d = 0]
  IN IF MaxConcurrencyReached(z, i, 0) THEN z ELSE AddToFreelist(z, i)

\* the destructor, reached through pop_downstream_connection
Pop(x, r) ==
  LET d == x.d[r]
      y == IF x.s[d.on].st = "CONNECTED" /\ d.sid # 0
             THEN [Consume(RstStream(x, r), d.on, d.unc) EXCEPT !.d[r].unc = 0] ELSE x
  IN IF d.on = 0 THEN x ELSE RemoveDconn(y, r)

\* detach_downstream_connection; the object is not poolable and goes away
Detach_KeepsWindow(x, r) ==
  RemoveDconn([RstStream(x, r) EXCEPT !.d[r].unc = 0], r)

Detach(x, r) ==
  LET d == x.d[r]
      y == IF d.sid # 0
             THEN [Consume(RstStream(x, r), d.on, d.unc) EXCEPT !.d[r].unc = 0] ELSE x
  IN RemoveDconn(y, r)

CanDetach(x, r) ==
  LET d == x.d[r]
  IN /\ d.on # 0 /\ d.resp = "MSG_COMPLETE" /\ d.req = "MSG_COMPLETE"
     /\ ~d.up /\ d.buf = 0

CanPushRequest(x, i, r) ==
  /\ x.s[i].st = "CONNECTED" /\ x.s[i].chk = "NONE"
  /\ Extended(r) => x.s[i].rcvd

StartChecking(x, i) ==
  IF x.s[i].st = "CONNECTED" /\ x.s[i].chk = "REQUIRED"
    THEN [x EXCEPT !.s[i].chk = "STARTED"] ELSE x

\* submit_request
SubmitRequest(x, i, r) ==
  LET j == Len(x.s[i].str) + 1
  IN [x EXCEPT !.s[i].str = Append(@, [NoStream EXCEPT
                                         !.st = "queued", !.by = r, !.d = r,
                                         !.data = scope.body[r] > 0 \/ Extended(r)]),
               !.d[r].sd = j, !.d[r].sid = j]

\* push_request_headers fails for a CONNECT the backend does not allow
PushFails(x, r) ==
  CanPushRequest(x, x.d[r].on, r) /\ Extended(r) /\ ~x.s[x.d[r].on].allow

PushRequestHeaders(x, r) ==
  LET i == x.d[r].on
  IN IF ~CanPushRequest(x, i, r)
       THEN StartChecking([x EXCEPT !.d[r].pend = TRUE], i)
       ELSE LET y == [x EXCEPT !.d[r].pend = FALSE]
            IN IF PushFails(x, r) THEN y ELSE SubmitRequest(y, i, r)

\* attach_downstream, whose signal_write starts the connection
Attach(x, i, r) ==
  [x EXCEPT !.s[i].dc = Append(@, r), !.d[r].on = i,
            !.s[i].init = @ \/ x.s[i].st = "DISCONNECTED"]

\* nghttp2_session_resume_data; an unknown stream is ignored
ResumeData(x, r) ==
  LET d == x.d[r]
  IN IF d.sid \in DOMAIN x.s[d.on].str
       THEN [x EXCEPT !.s[d.on].str[d.sid].defer = FALSE] ELSE x

-----------------------------------------------------------------------------
(* The frontend *)

\* RST_STREAM to the client, or the end of an HTTP/1 client connection
RstUpstream(x, r) == [x EXCEPT !.d[r].rst = TRUE]
ErrorReply(x, r) == [x EXCEPT !.d[r].resp = "MSG_COMPLETE", !.d[r].rb = 1]


SubmissionReady(x, r) ==
  LET d == x.d[r]
  IN /\ d.req \in {"HEADER_COMPLETE", "MSG_COMPLETE"}
     /\ d.pend \/ ~d.sent
     /\ d.resp = "INITIAL"

\* get_downstream_connection, attach, push_request_headers
Retry(x, r) ==
  LET g == GetHttp2Session(x)
      y == PushRequestHeaders(Attach(g[1], g[2], r), r)
  IN CASE g[2] = 0 -> ErrorReply(x, r)
       [] g[2] # 0 /\ PushFails(Attach(g[1], g[2], r), r) -> Pop(ErrorReply(y, r), r)
       [] OTHER -> y

\* on_downstream_reset of both frontends
OnDownstreamReset(x, r, hard) ==
  LET y == [Pop(x, r) EXCEPT !.d[r].retry = @ + 1]
  IN CASE SubmissionReady(x, r) /\ (hard \/ y.d[r].retry > MaxRetry) -> ErrorReply(y, r)
       [] SubmissionReady(x, r) -> Retry(y, r)
       [] x.d[r].resp = "MSG_COMPLETE" -> Pop(x, r)
       [] OTHER -> RstUpstream(Pop(x, r), r)

\* downstream_read
DownstreamRead(x, r) ==
  CASE x.d[r].resp = "MSG_RESET" -> Pop(RstUpstream(x, r), r)
    [] CanDetach(x, r) -> Detach(x, r)
    [] OTHER -> x

\* the stream to the client closes: on_stream_close_callback of Http2Upstream
CloseRequest(x, r) ==
  LET y == IF CanDetach(x, r) THEN Detach(x, r) ELSE Pop(x, r)
  IN [y EXCEPT !.d[r] = [NoDownstream EXCEPT !.st = "done", !.copies = x.d[r].copies,
                                             !.stray = y.d[r].stray]]

-----------------------------------------------------------------------------
(* Http2Session *)

RECURSIVE ResetAll(_, _, _)
ResetAll(x, rs, hard) ==
  IF rs = <<>> THEN x ELSE ResetAll(OnDownstreamReset(x, Head(rs), hard), Tail(rs), hard)

ShouldHardFail(x, i) ==
  x.s[i].st = "PROXY_CONNECTING" \/ (scope.proxy /\ x.s[i].st = "DISCONNECTED")

\* delete http2session: exclude_from_scheduling, disconnect
Delete(x, i) ==
  LET y == [RemoveFromFreelist(x, i, "GONE") EXCEPT
              !.s[i].zone = "GONE", !.s[i].lib = FALSE, !.s[i].st = "DISCONNECTED",
              !.s[i].chk = "NONE", !.s[i].init = FALSE]
      z == ResetAll(y, x.s[i].dc, ShouldHardFail(x, i))
  IN [z EXCEPT !.s[i] = NoSession]

RECURSIVE SubmitEach(_, _, _)
SubmitEach(x, i, rs) ==
  LET r == Head(rs)
      y == PushRequestHeaders(x, r)
  IN IF rs = <<>> THEN x
     ELSE SubmitEach(IF ~x.d[r].pend \/ ~SubmissionReady(x, r)
                          \/ (Extended(r) /\ ~x.s[i].rcvd) THEN x
                     ELSE IF PushFails(x, r) THEN ErrorReply(y, r) ELSE y,
                     i, Tail(rs))

SubmitPending(x, i) == SubmitEach(x, i, x.s[i].dc)

ConnectionAlive(x, i) ==
  IF x.s[i].chk = "NONE" THEN x ELSE SubmitPending([x EXCEPT !.s[i].chk = "NONE"], i)

\* SETTINGS is submitted; its timer is kept only where it may fire
ConnectionMade(x, i) ==
  SubmitPending([x EXCEPT !.s[i].st = "CONNECTED", !.s[i].lib = TRUE,
                          !.s[i].ack = Fault("settings")], i)

\* on_stream_close_callback, called when libnghttp2 closes stream j
StreamClosed(x, i, j, error) ==
  LET r == x.s[i].str[j].d
      d == x.d[r]
      y == [x EXCEPT !.d[r].resp =
              CASE d.up /\ @ = "HEADER_COMPLETE" -> "MSG_COMPLETE"
                [] ~error /\ @ = "MSG_COMPLETE" -> @
                [] OTHER -> "MSG_RESET"]
      z == IF r = 0 THEN x
           ELSE IF Pushed(r) /\ d.req = "INITIAL"
                  THEN CloseRequest([x EXCEPT !.d[r].resp = "MSG_RESET"], r)
                  ELSE DownstreamRead(y, r)
      q == z.s[i].str[j].d
  IN [IF q = 0 THEN z ELSE [z EXCEPT !.d[q].sd = 0] EXCEPT !.s[i].str[j] = NoStream]

\* both sides of stream j have ended
CloseIfEnded(x, i, j) ==
  IF x.s[i].str[j].end /\ x.s[i].str[j].resp = "end"
    THEN StreamClosed(x, i, j, FALSE) ELSE x

Quiet(x, i) == \A j \in DOMAIN x.s[i].str : x.s[i].str[j].st = "closed"

\* the end of downstream_read and downstream_write: nothing is left to do
EndIfDone(x, i) ==
  IF x.s[i].lib /\ (x.s[i].goaway \/ x.s[i].bye) /\ Quiet(x, i) THEN Delete(x, i) ELSE x

\* readcb: downstream_read, then connection_alive
AfterRead(x, i) ==
  LET y == EndIfDone(x, i) IN IF y.s[i].lib THEN ConnectionAlive(y, i) ELSE y

-----------------------------------------------------------------------------
(* Requests *)

Live(r) == bs.d[r].st = "live"

NewRequest(r) ==
  LET x == [bs EXCEPT !.d[r].st = "live",
                      !.d[r].req = IF scope.body[r] > 0 \/ Extended(r)
                                     THEN "HEADER_COMPLETE" ELSE "MSG_COMPLETE"]
  IN /\ ~Pushed(r) /\ r \in DOMAIN scope.body /\ bs.d[r].st = "idle"
     /\ bs' = Retry(x, r)

\* push_upload_data_chunk of Downstream and Http2DownstreamConnection
RequestData(r) ==
  LET d == bs.d[r]
      x == [bs EXCEPT !.d[r].recv = @ + 1]
  IN /\ Live(r) /\ d.req = "HEADER_COMPLETE" /\ ~d.rst /\ d.recv < scope.body[r]
     /\ bs' = CASE ~d.sent -> [x EXCEPT !.d[r].blk = @ + 1]
                [] d.sent /\ d.on # 0 -> ResumeData([x EXCEPT !.d[r].buf = @ + 1], r)
                [] OTHER -> IF d.resp = "MSG_COMPLETE" THEN x ELSE RstUpstream(x, r)

RequestEnd(r) ==
  LET d == bs.d[r]
      x == [bs EXCEPT !.d[r].req = "MSG_COMPLETE"]
  IN /\ Live(r) /\ d.req = "HEADER_COMPLETE" /\ ~d.rst /\ d.recv = scope.body[r]
     /\ ~Extended(r)
     /\ bs' = CASE ~d.sent -> x
                [] d.sent /\ d.on # 0 -> ResumeData(x, r)
                [] OTHER -> IF d.resp = "MSG_COMPLETE" THEN x ELSE RstUpstream(x, r)

\* a chunk of the response goes to the client: resume_read
Deliver(r) ==
  LET d == bs.d[r]
      x == [bs EXCEPT !.d[r].rb = @ - 1]
  IN /\ Live(r) /\ d.rb > 0 /\ ~d.rst
     /\ bs' = IF d.on # 0 /\ bs.s[d.on].st = "CONNECTED" /\ d.sid # 0 /\ d.unc > 0
                THEN [Consume(x, d.on, 1) EXCEPT !.d[r].unc = @ - 1] ELSE x

\* the whole response was sent, or RST_STREAM was
Finish(r) ==
  /\ Live(r) /\ (bs.d[r].rst \/ (bs.d[r].rb = 0 /\ bs.d[r].resp = "MSG_COMPLETE"))
  /\ bs' = CloseRequest(bs, r)

ClientReset(r) ==
  /\ Live(r) /\ Fault("reset") /\ ~bs.d[r].rst
  /\ bs' = CloseRequest(bs, r)

\* downstream_timeoutcb: on_timeout of the connection
StreamTimeout(r) ==
  /\ Live(r) /\ Fault("timeout") /\ bs.d[r].on # 0
  /\ bs' = RstStream(bs, r)

-----------------------------------------------------------------------------
(* Connecting *)

\* initiate_connection: through the proxy, after a name lookup, or directly
Initiate(i) ==
  /\ bs.s[i].init /\ bs.s[i].st = "DISCONNECTED"
  /\ bs' = [bs EXCEPT !.s[i].init = FALSE,
                      !.s[i].st = CASE scope.proxy -> "PROXY_CONNECTING"
                                    [] scope.dns -> "RESOLVING_NAME"
                                    [] OTHER -> "CONNECTING"]

Connecting(i) ==
  bs.s[i].st \in {"RESOLVING_NAME", "PROXY_CONNECTING", "CONNECTING"}

\* the name is resolved, or the proxy has built the tunnel, or TCP and TLS
\* are through
Connected(i) ==
  /\ Connecting(i)
  /\ bs' = IF bs.s[i].st = "CONNECTING" THEN ConnectionMade(bs, i)
           ELSE [bs EXCEPT !.s[i].st = "CONNECTING"]

\* every failure on the way, the connect timeout included
ConnectFails(i) ==
  /\ Fault("connect") /\ (Connecting(i) \/ bs.s[i].init)
  /\ bs' = Delete(bs, i)

-----------------------------------------------------------------------------
(* Writing: libnghttp2 puts one frame after the other into wb_ *)

Up(i) == bs.s[i].lib
Open(i) == {j \in DOMAIN bs.s[i].str : bs.s[i].str[j].st = "open"}
Queued(i) == {j \in DOMAIN bs.s[i].str : bs.s[i].str[j].st = "queued"}

\* on_frame_send for request HEADERS
HeadersSent(x, i, j) ==
  LET r == x.s[i].str[j].d
      y == [x EXCEPT !.s[i].str[j].st = "open",
                     !.s[i].str[j].end = ~x.s[i].str[j].data,
                     !.d[x.s[i].str[j].by].copies = @ + 1]
  IN IF r = 0 THEN y
     ELSE [y EXCEPT !.d[r].sent = TRUE, !.d[r].blk = 0, !.d[r].buf = @ + x.d[r].blk]

\* on_frame_not_send with START_STREAM_NOT_ALLOWED, then the stream closes
HeadersNotSent(x, i, j) ==
  LET r == x.s[i].str[j].d
  IN StreamClosed(IF r = 0 THEN x ELSE OnDownstreamReset(x, r, FALSE), i, j, TRUE)

SendHeaders(i) ==
  /\ Up(i) /\ Queued(i) # {} /\ Cardinality(Open(i)) < bs.s[i].max
  /\ LET j == Min(Queued(i))
         s == bs.s[i]
         x == CASE s.str[j].rst -> StreamClosed(bs, i, j, TRUE)
                [] ~s.str[j].rst /\ (s.goaway \/ s.term) -> HeadersNotSent(bs, i, j)
                [] OTHER -> HeadersSent(bs, i, j)
     IN bs' = EndIfDone(x, i)

\* http2_data_read_callback and send_data_callback
SendData(i, j) ==
  LET s == bs.s[i].str[j]
      d == bs.d[s.d]
      last == d.buf <= 1 /\ d.req = "MSG_COMPLETE"
      x == [bs EXCEPT !.d[s.d].buf = IF @ > 0 THEN @ - 1 ELSE 0,
                      !.s[i].str[j].end = last]
  IN /\ Up(i) /\ j \in Open(i) /\ s.data /\ ~s.end /\ ~s.defer /\ ~s.rst
     /\ bs' = IF s.d = 0 \/ (d.buf = 0 /\ ~last)
                THEN [bs EXCEPT !.s[i].str[j].defer = TRUE]
                ELSE EndIfDone(CloseIfEnded(x, i, j), i)

SendRst(i, j) ==
  /\ Up(i) /\ j \in Open(i) /\ bs.s[i].str[j].rst
  /\ bs' = EndIfDone(StreamClosed(bs, i, j, TRUE), i)

\* GOAWAY of terminate_session: neither side has anything more to say
SendTermination(i) ==
  /\ Up(i) /\ bs.s[i].term
  /\ bs' = Delete(bs, i)

-----------------------------------------------------------------------------
(* Reading *)

RecvSettings(i) ==
  /\ Up(i)
  /\ \E m \in scope.max :
       LET x == [bs EXCEPT !.s[i].max = m]
           y == SubmitPending([x EXCEPT !.s[i].rcvd = TRUE, !.s[i].allow = scope.allow], i)
       IN /\ m # bs.s[i].max \/ ~bs.s[i].rcvd
          /\ bs' = AfterRead(IF bs.s[i].rcvd THEN x ELSE y, i)

RecvSettingsAck(i) ==
  /\ Up(i) /\ bs.s[i].ack
  /\ bs' = AfterRead([bs EXCEPT !.s[i].ack = FALSE], i)

RecvPingAck(i) ==
  /\ Up(i) /\ bs.s[i].chk # "NONE"
  /\ bs' = AfterRead(bs, i)

\* HEADERS of a response: on_begin_headers, on_response_headers.  A request
\* that is no longer there is answered with RST_STREAM.
ResponseHeaders(x, i, j, last) ==
  LET r == x.s[i].str[j].d
      y == [x EXCEPT !.s[i].str[j].resp = IF last THEN "end" ELSE "head"]
      z == [y EXCEPT !.d[r].resp = IF last THEN "MSG_COMPLETE" ELSE "HEADER_COMPLETE",
                     !.d[r].up = Extended(r), !.d[r].final = TRUE,
                     !.d[r].req = IF Extended(r) THEN "HEADER_COMPLETE" ELSE @]
  IN IF r = 0 THEN SubmitRst(y, i, j, x.s[i].str[j].by) ELSE DownstreamRead(z, r)

RecvHeaders(i, j) ==
  /\ Up(i) /\ j \in Open(i) /\ bs.s[i].str[j].resp = "none"
  /\ \E last \in {l \in BOOLEAN : l => ~Extended(bs.s[i].str[j].by)} :
       bs' = AfterRead(CloseIfEnded(ResponseHeaders(bs, i, j, last), i, j), i)

\* a non-final response: the final one is still expected
RecvNonFinal(i, j) ==
  LET r == bs.s[i].str[j].d
  IN /\ Up(i) /\ j \in Open(i) /\ bs.s[i].str[j].resp = "none" /\ Fault("100")
     /\ r # 0 /\ bs.d[r].final
     /\ bs' = AfterRead(DownstreamRead([bs EXCEPT !.d[r].final = FALSE], r), i)

\* a header field or a response that is refused: RST_STREAM is submitted
RecvBad(i, j) ==
  /\ Up(i) /\ j \in Open(i) /\ Fault("bad") /\ bs.s[i].str[j].d # 0
  /\ bs' = AfterRead(SubmitRst(bs, i, j, bs.s[i].str[j].by), i)

\* DATA: on_data_chunk_recv, on_frame_recv
DataReceived(x, i, j, last) ==
  LET r == x.s[i].str[j].d
      y == [x EXCEPT !.s[i].win = @ + 1, !.s[i].str[j].resp = IF last THEN "end" ELSE @]
      z == [y EXCEPT !.d[r].unc = @ + 1, !.d[r].rb = @ + 1,
                     !.d[r].resp = IF last THEN "MSG_COMPLETE" ELSE @]
  IN IF r = 0 THEN Consume(SubmitRst(y, i, j, x.s[i].str[j].by), i, 1)
     ELSE DownstreamRead(z, r)

RecvData(i, j) ==
  LET s == bs.s[i].str[j]
  IN /\ Up(i) /\ j \in Open(i) /\ s.resp = "head" /\ ~s.rst
     /\ bs.s[i].win < scope.window
     /\ \E last \in BOOLEAN :
          bs' = AfterRead(CloseIfEnded(DataReceived(bs, i, j, last), i, j), i)

\* RST_STREAM: downstream_read is called once before the stream is closed
RecvRst(i, j) ==
  LET r == bs.s[i].str[j].d
      x == IF r = 0 THEN bs ELSE DownstreamRead(bs, r)
  IN /\ Up(i) /\ j \in Open(i) /\ Fault("rst")
     /\ \E error \in BOOLEAN : bs' = AfterRead(StreamClosed(x, i, j, error), i)

\* GOAWAY closes the streams above its last stream id
RECURSIVE CloseAbove(_, _, _)
CloseAbove(x, i, js) ==
  IF js = {} THEN x ELSE CloseAbove(StreamClosed(x, i, Min(js), TRUE), i, js \ {Min(js)})

RecvGoaway(i) ==
  /\ Up(i) /\ Fault("goaway") /\ ~bs.s[i].goaway
  /\ \E last \in 0 .. Len(bs.s[i].str) :
       LET x == [bs EXCEPT !.s[i].goaway = TRUE]
       IN bs' = AfterRead(CloseAbove(x, i, {j \in Open(i) : j > last /\ ~Pushed(bs.s[i].str[j].by)}), i)

\* PUSH_PROMISE begins: handle_downstream_push_promise makes a Downstream
\* and binds it to the promised stream, unless the request is gone
RecvPromise(i, j, p) ==
  LET k == Len(bs.s[i].str) + 1
      s == [NoStream EXCEPT !.st = "open", !.by = p, !.end = TRUE]
      x == [bs EXCEPT !.s[i].str = Append(@, [s EXCEPT !.d = p]), !.s[i].dc = Append(@, p),
                      !.d[p].st = "live", !.d[p].on = i, !.d[p].sd = k, !.d[p].sid = k]
  IN /\ Up(i) /\ j \in Open(i) /\ bs.d[p].st = "idle"
     /\ bs.s[i].str[j].by = scope.push[p]
     /\ bs' = AfterRead(IF bs.s[i].str[j].d # 0 THEN x
                        ELSE [bs EXCEPT !.s[i].str = Append(@, [s EXCEPT !.rst = TRUE]),
                                        !.d[p].st = "done"], i)

\* PUSH_PROMISE is complete: handle_downstream_push_promise_complete
RecvPromiseEnd(i, p) ==
  /\ Up(i) /\ bs.d[p].on = i /\ bs.d[p].req = "INITIAL"
  /\ LET g == bs.d[scope.push[p]]
     IN bs' = AfterRead(IF g.on = i
                          THEN [bs EXCEPT !.d[p].req = "MSG_COMPLETE", !.d[p].sent = TRUE]
                          ELSE SubmitRst(bs, i, bs.d[p].sd, p), i)

\* EOF or an error on the socket
PeerGone(i) ==
  /\ Up(i) /\ Fault("gone")
  /\ bs' = Delete(bs, i)

-----------------------------------------------------------------------------
(* Timers *)

\* connchk_timeout_cb: no traffic for a while, or no answer to PING
CheckTimeout(i) ==
  /\ Up(i) /\ Fault("idle") /\ bs.s[i].chk # "REQUIRED"
  /\ bs' = IF bs.s[i].chk = "STARTED" THEN Delete(bs, i)
           ELSE [bs EXCEPT !.s[i].chk = "REQUIRED"]

\* settings_timeout_cb
SettingsTimeout(i) ==
  /\ Up(i) /\ Fault("settings") /\ bs.s[i].ack /\ ~bs.s[i].term
  /\ bs' = [bs EXCEPT !.s[i].ack = FALSE, !.s[i].term = TRUE]

\* check_retire: the API has replaced the backends.  `bad': the session is
\* used before it exists.
Retire ==
  /\ Fault("retire")
  /\ \E i \in Sessions : bs.s[i].st # "none" /\ ~bs.s[i].old
                         /\ (bs.s[i].lib \/ ~scope.late)
  /\ bs' = [bs EXCEPT !.free = <<>>,
                      !.bad = \E i \in Sessions : bs.s[i].st # "none" /\ ~bs.s[i].lib,
                      !.s = [i \in Sessions |->
                               IF bs.s[i].st = "none" THEN bs.s[i]
                               ELSE [bs.s[i] EXCEPT !.old = TRUE, !.bye = bs.s[i].lib]]]

-----------------------------------------------------------------------------
Next ==
  /\ UNCHANGED scope
  /\ \/ \E r \in Requests : \/ NewRequest(r) \/ RequestData(r) \/ RequestEnd(r)
                            \/ Deliver(r) \/ Finish(r) \/ ClientReset(r) \/ StreamTimeout(r)
     \/ \E i \in Sessions :
          \/ Initiate(i) \/ Connected(i) \/ ConnectFails(i)
          \/ SendHeaders(i) \/ SendTermination(i)
          \/ RecvSettings(i) \/ RecvSettingsAck(i) \/ RecvPingAck(i)
          \/ RecvGoaway(i) \/ PeerGone(i) \/ CheckTimeout(i) \/ SettingsTimeout(i)
          \/ \E j \in DOMAIN bs.s[i].str :
               \/ SendData(i, j) \/ SendRst(i, j)
               \/ RecvHeaders(i, j) \/ RecvNonFinal(i, j) \/ RecvBad(i, j)
               \/ RecvData(i, j) \/ RecvRst(i, j)
               \/ \E p \in DOMAIN scope.push : RecvPromise(i, j, p)
          \/ \E p \in DOMAIN scope.push : RecvPromiseEnd(i, p)
     \/ Retire

Spec == Init /\ [][Next]_bvars

-----------------------------------------------------------------------------
(* Properties *)

Bound(i) == {r \in Requests : bs.d[r].on = i}
Sum(f(_), S) == FoldLeft(LAMBDA a, r : a + f(r), 0, SetToSeq(S))

\* The lists that tie requests, backend streams and sessions together agree:
\* dconns_ holds each connection of a session once, a StreamData and its
\* Http2DownstreamConnection name each other, the freelist holds exactly the
\* sessions that say they are in it, and nothing names a deleted session.
LinksExact ==
  /\ \A i \in Sessions :
       LET s == bs.s[i]
       IN /\ ToSet(s.dc) = Bound(i) /\ IsInjective(s.dc)
          /\ s.st = "none" => s = NoSession
          /\ (\E k \in DOMAIN bs.free : bs.free[k] = i) <=> (s.zone = "EXTRA" /\ ~s.old)
          /\ \A j \in DOMAIN s.str : LET r == s.str[j].d
                                     IN r # 0 => bs.d[r].on = i /\ bs.d[r].sd = j
  /\ IsInjective(bs.free)
  /\ \A r \in Requests : LET d == bs.d[r]
                         IN d.sd # 0 => d.on # 0 /\ bs.s[d.on].str[d.sd].d = r


\* A request waits in a session only while the session cannot take it: no
\* wake-up is lost between connecting, the SETTINGS of the backend and the
\* connection check.  What a session has received and not given back to the
\* backend's flow control is what its requests still hold.
NothingLost ==
  \A i \in Sessions :
    /\ \A r \in Bound(i) : bs.d[r].pend /\ SubmissionReady(bs, r) => ~CanPushRequest(bs, i, r)
    /\ bs.s[i].lib => bs.s[i].win = Sum(LAMBDA r : bs.d[r].unc, Bound(i))
=============================================================================
