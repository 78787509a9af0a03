------------------------------ MODULE Pipeline ------------------------------
(***************************************************************************)
(* nghttpx's HTTP/1 frontend: HttpsUpstream under ClientHandler.  The      *)
(* client may pipeline; one request at a time has a Downstream, and the    *)
(* parser, the read buffer, the read watcher and the write watcher must    *)
(* be stopped and restarted around it without losing what is buffered.     *)
(*                                                                         *)
(* The backend side is what Relay shows a DownstreamConnection to promise: *)
(* it takes the body, drains its buffer and answers, fails or closes.      *)
(* A message part is <<request, k>>: the header (0) or the k-th chunk.     *)
(* `http' holds the sockets, the handler and the one Downstream `d'.       *)
(***************************************************************************)
EXTENDS Integers, Sequences, FiniteSets, SequencesExt

CONSTANTS Bodies,     \* the number of chunks of each request of the client
          Tunnels,    \* the CONNECT and upgrade requests
          ReadBuf,    \* the room of the handler's read buffer, in parts
          ReqBuf      \* the room of request_buf

VARIABLES http

Requests == DOMAIN Bodies
NoD == [r |-> 0, req |-> "none", resp |-> "none", conn |-> FALSE, sent |-> <<>>,
        held |-> 0, close |-> FALSE, up |-> FALSE, paused |-> FALSE, out |-> <<>>]

Init ==
  http = [alive |-> TRUE, mode |-> "http1", next |-> <<1, 0>>, sock |-> <<>>, rb |-> <<>>,
          act |-> TRUE, feed |-> FALSE, parser |-> "run", nobuf |-> FALSE,
          wev |-> FALSE, last |-> FALSE, d |-> NoD, done |-> 0, got |-> <<>>,
          wrong |-> FALSE]

\* the last part of a request's message
LastPart(t) == t[2] = Bodies[t[1]]
Close(x) == [x EXCEPT !.alive = FALSE, !.d = NoD, !.sock = <<>>, !.rb = <<>>, !.act = FALSE,
                      !.feed = FALSE, !.wev = FALSE, !.got = <<>>]
Signal(x) == [x EXCEPT !.wev = TRUE]

\* error_reply: both connections close after it
ErrorReply(x) ==
  [x EXCEPT !.d.out = Append(@, "page"), !.d.resp = "MSG_COMPLETE", !.d.close = TRUE,
            !.last = TRUE]

-----------------------------------------------------------------------------
(* Reading *)

\* push_upload_data_chunk; the part must belong to the exchange at hand
Forward(x, t) ==
  [x EXCEPT !.d.sent = Append(@, t), !.d.held = @ + 1,
            !.wrong = @ \/ (~x.d.up /\ t[1] # x.d.r)]

BufFull(x) == x.d.conn /\ x.d.held >= ReqBuf

\* htp_msg_completecb
MessageComplete(x) ==
  LET y == [x EXCEPT !.d.req = "MSG_COMPLETE", !.parser = "paused"]
  IN IF x.d.conn \/ x.d.resp = "MSG_COMPLETE" THEN y
     ELSE [y EXCEPT !.parser = "error"]

\* htp_msg_begin to htp_hdrs_completecb; `ok' is the header accepted and a
\* backend found
Header(x, t, ok) ==
  LET y == [x EXCEPT !.d = [NoD EXCEPT !.r = t[1], !.req = "HEADER_COMPLETE", !.resp = "INITIAL"],
                     !.wrong = @ \/ x.d # NoD]
  IN IF ok THEN Forward([y EXCEPT !.d.conn = TRUE], t)
     ELSE [y EXCEPT !.d.req = "CONNECT_FAIL", !.parser = "error"]

\* htp_bodycb
Chunk(x, t) ==
  CASE x.d.conn -> Forward(x, t)
    [] ~x.d.conn /\ x.d.resp = "MSG_COMPLETE" -> x
    [] OTHER -> [x EXCEPT !.parser = "error"]

\* http_parser_execute on the read buffer, until the message ends
RECURSIVE Parse(_, _)
Parse(x, ok) ==
  IF x.parser # "run" \/ x.rb = <<>> THEN x
  ELSE LET t == Head(x.rb)
           y == [x EXCEPT !.rb = Tail(@)]
           z == IF t[2] = 0 THEN Header(y, t, ok) ELSE Chunk(y, t)
       IN Parse(IF z.parser = "run" /\ LastPart(t) THEN MessageComplete(z) ELSE z, ok)

\* The next pipelined request is parsed while one is being answered
OnRead_NextRequest(x, ok) ==
  LET y == [Parse(x, ok) EXCEPT !.act = TRUE]
  IN IF x.last THEN x
     ELSE IF y.parser = "error" THEN Signal(ErrorReply(y))
     ELSE IF BufFull(y) THEN [y EXCEPT !.nobuf = TRUE, !.act = FALSE] ELSE Signal(y)

\* HttpsUpstream::on_read
OnRead(x, ok) ==
  LET p == Parse(x, ok)
      y == [p EXCEPT !.act = TRUE]
  IN CASE x.last -> x
       [] ~x.last /\ x.d.up ->
            LET z == FoldLeft(Forward, [x EXCEPT !.rb = <<>>, !.act = TRUE], x.rb)
            IN IF BufFull(z) THEN [z EXCEPT !.nobuf = TRUE, !.act = FALSE] ELSE z
       [] ~x.last /\ ~x.d.up /\ x.d.req \in {"MSG_COMPLETE", "CONNECT_FAIL"} -> x
       [] OTHER ->
            CASE y.parser = "paused" ->
                   IF y.d.req = "MSG_COMPLETE" /\ y.d.resp = "MSG_COMPLETE" THEN Signal(y) ELSE y
              [] y.parser = "error" ->
                   Signal(IF y.d.r # 0 /\ y.d.resp # "INITIAL" THEN [y EXCEPT !.last = TRUE]
                          ELSE ErrorReply(y))
              [] OTHER -> IF BufFull(y) THEN [y EXCEPT !.nobuf = TRUE, !.act = FALSE] ELSE y

\* ClientHandler::read_clear
RECURSIVE ReadLoop(_, _)
ReadLoop(x, ok) ==
  LET y == IF x.rb # <<>> THEN OnRead(x, ok) ELSE x
  IN CASE Len(y.rb) = ReadBuf -> [y EXCEPT !.act = FALSE]
       [] Len(y.rb) < ReadBuf /\ (~y.act \/ y.sock = <<>>) -> y
       [] OTHER -> ReadLoop([y EXCEPT !.rb = Append(@, Head(y.sock)), !.sock = Tail(@)], ok)

ReadCb(ok) ==
  /\ http.alive /\ http.mode = "http1"
  /\ http.feed \/ (http.act /\ http.sock # <<>>)
  /\ http' = ReadLoop([http EXCEPT !.feed = FALSE], ok)

-----------------------------------------------------------------------------
(* Writing *)

\* HttpsUpstream::resume_read: what is buffered is not announced by the
\* socket, so that a read event is fed
ResumeRead(x) ==
  IF BufFull(x) THEN x
  ELSE [x EXCEPT !.nobuf = FALSE, !.act = TRUE, !.parser = IF @ = "paused" THEN "run" ELSE @,
                 !.feed = TRUE]

\* HttpsUpstream::on_write
OnWrite(x) ==
  LET over == x.d.resp = "MSG_COMPLETE"
      y == IF over THEN [x EXCEPT !.d.conn = FALSE] ELSE [x EXCEPT !.d.paused = FALSE]
      z == [y EXCEPT !.d = NoD, !.done = @ + 1, !.got = <<>>]
  IN CASE x.d.r = 0 \/ x.d.out # <<>> -> x
       [] x.d.r # 0 /\ x.d.out = <<>> /\ over /\ x.d.req = "MSG_COMPLETE" ->
            IF x.last THEN z ELSE ResumeRead(z)
       [] OTHER -> y

\* ClientHandler::write_clear with upstream_write; the client takes all of
\* the response or a part of it
WriteCb(all) ==
  LET x == OnWrite(http)
      n == IF all THEN Len(x.d.out) ELSE 1
      y == OnWrite([x EXCEPT !.d.out = SubSeq(@, n + 1, Len(@)),
                             !.got = @ \o [i \in 1 .. n |-> <<x.d.r, x.d.out[i]>>]])
      z == IF x.d.out = <<>> THEN x ELSE y
  IN /\ http.alive /\ http.wev /\ http.mode = "http1"
     /\ all \/ Len(x.d.out) > 1
     /\ http' = IF z.d.out # <<>> THEN z
                ELSE IF z.last THEN Close([z EXCEPT !.done = IF z.d.r # 0 THEN @ + 1 ELSE @])
                ELSE [z EXCEPT !.wev = FALSE]

-----------------------------------------------------------------------------
(* The client and the backend *)

ClientSend ==
  LET t == http.next
  IN /\ http.alive /\ t[1] \in Requests
     /\ http' = [http EXCEPT !.sock = Append(@, t),
                             !.next = IF LastPart(t) THEN <<t[1] + 1, 0>> ELSE <<t[1], t[2] + 1>>]

\* EOF, an error, or the read or write timer
ClientLeaves == http.alive /\ http' = Close(http)

Busy == http.alive /\ http.d.conn

\* write_clear of the backend connection has emptied request_buf
BackendDrained ==
  /\ Busy /\ http.d.held > 0
  /\ http' = ResumeRead([http EXCEPT !.d.held = 0])

\* htp_hdrs_completecb of the response; keep is http_should_keep_alive
ResponseHeader(keep) ==
  LET tunnel == http.d.r \in Tunnels
      x == Signal([http EXCEPT !.d.resp = "HEADER_COMPLETE", !.d.close = ~keep \/ tunnel,
                               !.d.up = tunnel, !.d.out = Append(@, "head"),
                               !.d.req = IF tunnel THEN "HEADER_COMPLETE" ELSE @])
  IN /\ Busy /\ http.d.resp = "INITIAL" /\ ~http.d.paused
     /\ http' = IF tunnel THEN ResumeRead(x) ELSE x

\* one chunk of response body, after which the buffer is full
ResponseBody ==
  /\ Busy /\ http.d.resp = "HEADER_COMPLETE" /\ ~http.d.paused
  /\ "body" \notin {http.got[i][2] : i \in DOMAIN http.got} \cup ToSet(http.d.out)
  /\ http' = Signal([http EXCEPT !.d.out = Append(@, "body"), !.d.paused = TRUE])

\* on_downstream_body_complete, then detach when both sides are complete
Complete(x) ==
  [x EXCEPT !.d.resp = "MSG_COMPLETE", !.d.out = Append(@, "end"),
            !.last = @ \/ x.d.close \/ x.d.req # "MSG_COMPLETE"]

ResponseComplete ==
  /\ Busy /\ http.d.resp = "HEADER_COMPLETE" /\ ~http.d.up /\ ~http.d.paused
  /\ LET x == Complete(http)
         detach == x.d.req = "MSG_COMPLETE" /\ ~x.d.close /\ x.d.held = 0
     IN http' = Signal([x EXCEPT !.d.conn = @ /\ ~detach])

\* downstream_eof; reading is blocked (MSG_BLOCK) once the response is complete
BackendEof ==
  /\ Busy /\ ~http.d.paused /\ http.d.resp # "MSG_COMPLETE"
  /\ http' = Signal([IF http.d.resp = "HEADER_COMPLETE"
                       THEN Complete([http EXCEPT !.d.close = TRUE]) ELSE ErrorReply(http)
                     EXCEPT !.d.conn = FALSE])

\* downstream_error, and on_downstream_abort_request after the last retry
BackendError ==
  /\ Busy
  /\ http' = IF http.d.resp # "INITIAL" THEN Close(http)
             ELSE Signal([ErrorReply(http) EXCEPT !.d.conn = FALSE])

\* perform_http2_upgrade: the Downstream goes to a new Http2Upstream, as
\* stream 1, and what is left in the read buffer is its connection preface
Http2Upgrade ==
  /\ Busy /\ http.mode = "http1"
  /\ http.d.req = "MSG_COMPLETE" /\ http.parser = "paused" /\ http.d.resp = "INITIAL"
  /\ http.rb = <<>> /\ http.sock = <<>>
  /\ http' = Close([http EXCEPT !.mode = "http2"])

Next ==
  \/ \E ok \in BOOLEAN : ReadCb(ok)
  \/ \E all \in BOOLEAN : WriteCb(all)
  \/ ClientSend \/ ClientLeaves \/ BackendDrained
  \/ \E keep \in BOOLEAN : ResponseHeader(keep)
  \/ ResponseBody \/ ResponseComplete \/ BackendEof \/ BackendError \/ Http2Upgrade

Spec == Init /\ [][Next]_http

-----------------------------------------------------------------------------
(* Properties *)

IsPart(s, t) == \E n \in 0 .. Len(t) : s = SubSeq(t, 1, n)

\* Pipelined exchanges stay apart: a request is parsed only when the one
\* before is answered, its backend gets its own parts in order and nothing of
\* the next request, and the client gets for each request in turn one
\* response, or an error page and nothing else.
AnswersInOrder ==
  LET d == http.d
      parts == [k \in 1 .. Bodies[d.r] + 1 |-> <<d.r, k - 1>>]
      answer == [i \in DOMAIN http.got |-> http.got[i][2]] \o d.out
  IN /\ ~http.wrong
     /\ d.r # 0 =>
          /\ d.r = http.done + 1
          /\ d.up \/ IsPart(d.sent, parts)
          /\ \A i \in DOMAIN http.got : http.got[i][1] = d.r
          /\ \E a \in {<<"head", "body", "end">>, <<"head", "end">>, <<"page">>} : IsPart(answer, a)

\* Nothing buffered is forgotten: while input can be processed, bytes of the
\* read buffer have a read event fed and bytes of the socket an active
\* watcher; reading stops for want of room only while the backend still has
\* to take the body; what is to be written or closed has a write event.
InputNeverStuck ==
  LET d == http.d
      takes == ~http.last /\ (d.r = 0 \/ d.req = "HEADER_COMPLETE") /\ ~http.nobuf
  IN http.alive /\ http.mode = "http1" =>
       /\ takes /\ http.rb # <<>> => http.feed
       /\ takes => http.act \/ http.feed
       /\ http.nobuf => d.held >= ReqBuf \/ http.last
       /\ d.out # <<>> \/ http.last => http.wev
       /\ d.r # 0 /\ d.resp = "MSG_COMPLETE" /\ d.req = "MSG_COMPLETE" => http.wev
=============================================================================
