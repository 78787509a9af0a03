--------------------------- MODULE HttpMessaging ---------------------------
(* The HTTP rules a session enforces on the header blocks and the body of one
   stream (lib/nghttp2_http.c and its callers in lib/nghttp2_session.c): a
   request received by a server, the response received by a client, or a
   promised request and its response.  A field is a name and the class of its
   value; the variables after stream record what the application was given. *)
EXTENDS Integers, Sequences, FiniteSets

CONSTANTS Kinds,      \* what the stream carries: "request", "response", "push"
          Methods,    \* methods of the request a response belongs to
          Fields,     \* fields of the blocks: [name, value]
          Chunks,     \* lengths of the pieces of DATA
          MaxBody     \* bound on the body

VARIABLES kind, block, stream, told, body, request, rejected, connectprotocol

vars == <<kind, block, stream, told, body, request, rejected, connectprotocol>>

Pseudo == {":authority", ":method", ":path", ":scheme", ":protocol", ":status",
           ":unknown"}
Hop == {"connection", "keep-alive", "proxy-connection", "transfer-encoding",
        "upgrade"}
MethodFlags == {"METH_CONNECT", "METH_HEAD", "METH_OPTIONS",
                "METH_UPGRADE_WORKAROUND"}
ReqHeaders == {":method", ":path", ":scheme"}

\* What the application was told of the header block that is being received
\* (or was received last): the fields, and whether one of them was repeated or
\* a pseudo field came after a regular one
NothingTold == [names |-> {}, values |-> {}, twice |-> {}, late |-> FALSE,
                regular |-> FALSE]

NewStream == [flags |-> {}, content_length |-> -1, recv |-> 0, status |-> "none"]

(* --- fields ------------------------------------------------------------ *)

CheckPseudo(s, f) == f.name \notin s.flags /\ f.value # "blank"

Seen(s, f) == [s EXCEPT !.flags = @ \cup {f.name}]

\* The value decides the method, path and scheme flags
ValueFlags(f) ==
  CASE f.name = ":method" -> {"METH_CONNECT", "METH_HEAD", "METH_OPTIONS"} \cap
                             {"METH_" \o f.value}
    [] f.name = ":path" -> IF f.value = "/" THEN {"PATH_REGULAR"}
                           ELSE IF f.value = "*" THEN {"PATH_ASTERISK"} ELSE {}
    [] f.name = ":scheme" -> IF f.value = "http" THEN {"SCHEME_HTTP"} ELSE {}
    [] OTHER -> {}

Answer(rv, s) == [rv |-> rv, s |-> s]
Error(s) == Answer("HTTP_HEADER", s)

\* A field that is not a pseudo field ends the pseudo fields
Accept(s, f) ==
  Answer("ok", IF f.name \in Pseudo THEN s
               ELSE [s EXCEPT !.flags = @ \cup {"PSEUDO_HEADER_DISALLOWED"}])

\* parse_uint; a response without a final status may not have a length
ContentLength(s, f) ==
  IF s.content_length # -1 \/ f.value \notin {"0", "2"} THEN Error(s)
  ELSE Accept([s EXCEPT !.content_length = IF f.value = "0" THEN 0 ELSE 2], f)

\* http_request_on_header
RequestOnHeader(s, f, trailer, even) ==
  IF f.name \in Pseudo
     /\ (trailer \/ "PSEUDO_HEADER_DISALLOWED" \in s.flags)
  THEN Error(s)
  ELSE CASE f.name \in {":authority", ":method", ":path", ":scheme", "host"} ->
              IF ~ CheckPseudo(s, f) THEN Error(s)
              ELSE IF f.name = ":method" /\ f.value = "CONNECT" /\ even
              THEN Error(Seen(s, f))
              ELSE LET t == Seen(s, f)
                   IN  Accept([t EXCEPT !.flags = @ \cup ValueFlags(f)], f)
         [] f.name = ":protocol" ->
              IF kind = "request" /\ connectprotocol /\ CheckPseudo(s, f)
              THEN Accept(Seen(s, f), f) ELSE Error(s)
         [] f.name = "content-length" -> ContentLength(s, f)
         [] f.name \in Hop -> Error(s)
         [] f.name = "te" -> IF f.value = "trailers" THEN Accept(s, f)
                             ELSE Error(s)
         [] OTHER -> IF f.name \in Pseudo THEN Error(s) ELSE Accept(s, f)

\* http_response_on_header
ResponseOnHeader(s, f, trailer) ==
  IF f.name \in Pseudo
     /\ (trailer \/ "PSEUDO_HEADER_DISALLOWED" \in s.flags)
  THEN Error(s)
  ELSE CASE f.name = ":status" ->
              IF CheckPseudo(s, f) /\ f.value \in {"100", "200", "204", "304"}
              THEN Accept([Seen(s, f) EXCEPT !.status = f.value], f)
              ELSE Error(s)
         [] f.name = "content-length" /\ s.status = "204" ->
              IF s.content_length # -1 \/ f.value # "0" THEN Error(s)
              ELSE Answer("REMOVE", [s EXCEPT !.content_length = 0])
         [] f.name = "content-length" /\ s.status # "204" ->
              IF \/ s.status = "100"
                 \/ s.status \in {"200", "204"} /\ "METH_CONNECT" \in s.flags
              THEN Error(s) ELSE ContentLength(s, f)
         [] f.name \in Hop -> Error(s)
         [] f.name = "te" -> IF f.value = "trailers" THEN Accept(s, f)
                             ELSE Error(s)
         [] OTHER -> IF f.name \in Pseudo THEN Error(s) ELSE Accept(s, f)

\* nghttp2_http_on_header; "invalid": characters that are not allowed, and
\* "Upper": a name that is not in lower case
OnHeader(s, f, trailer) ==
  IF f.name = "Upper" \/ (f.value = "invalid" /\ f.name \in Pseudo)
  THEN Error(s)
  ELSE IF f.value = "invalid"
  THEN Answer("IGN", [s EXCEPT !.flags = @ \cup {"PSEUDO_HEADER_DISALLOWED"}])
  ELSE IF kind = "request" \/ block = "promise"
  THEN RequestOnHeader(s, f, trailer, kind = "push")
  ELSE ResponseOnHeader(s, f, trailer)

(* --- the ends of blocks and of the message ------------------------------ *)

\* check_path
CheckPath(s) ==
  \/ "SCHEME_HTTP" \notin s.flags
  \/ "PATH_REGULAR" \in s.flags
  \/ {"METH_OPTIONS", "PATH_ASTERISK"} \subseteq s.flags

\* nghttp2_http_on_request_headers
OnRequestHeaders(s) ==
  LET plain == ":protocol" \notin s.flags /\ "METH_CONNECT" \in s.flags
      ok == IF plain
            THEN {":scheme", ":path"} \cap s.flags = {} /\ ":authority" \in s.flags
            ELSE /\ ReqHeaders \subseteq s.flags
                 /\ {":authority", "host"} \cap s.flags # {}
                 /\ ":protocol" \in s.flags =>
                      {"METH_CONNECT", ":authority"} \subseteq s.flags
                 /\ CheckPath(s)
      t == IF plain THEN [s EXCEPT !.content_length = -1] ELSE s
  IN  [ok |-> ok,
       s |-> IF block = "promise"
             THEN [t EXCEPT !.flags = @ \cap MethodFlags, !.content_length = -1]
             ELSE t]

\* expect_response_body
ExpectResponseBody(s) ==
  "METH_HEAD" \notin s.flags /\ s.status \notin {"100", "304", "204"}

\* nghttp2_http_on_response_headers
OnResponseHeaders(s) ==
  IF ":status" \notin s.flags THEN [ok |-> FALSE, s |-> s]
  ELSE IF s.status = "100"
  THEN [ok |-> TRUE,
        s |-> [s EXCEPT !.flags = (@ \cap MethodFlags)
                                  \cup {"EXPECT_FINAL_RESPONSE"},
                        !.content_length = -1, !.status = "none"]]
  ELSE LET t == [s EXCEPT !.flags = @ \ {"EXPECT_FINAL_RESPONSE"}]
       IN  [ok |-> TRUE,
            s |-> IF ~ ExpectResponseBody(t) THEN [t EXCEPT !.content_length = 0]
                  ELSE IF {"METH_CONNECT", "METH_UPGRADE_WORKAROUND"} \cap t.flags # {}
                  THEN [t EXCEPT !.content_length = -1] ELSE t]

\* nghttp2_http_on_remote_end_stream
OnRemoteEndStream(s) ==
  /\ "EXPECT_FINAL_RESPONSE" \notin s.flags
  /\ s.content_length # -1 => s.content_length = s.recv

\* A chunk is counted after it was checked
OnDataChunk_CountLater(s, n) ==
  [ok |-> /\ "EXPECT_FINAL_RESPONSE" \notin s.flags
          /\ s.content_length # -1 => s.recv <= s.content_length,
   s |-> [s EXCEPT !.recv = @ + n]]

\* nghttp2_http_on_data_chunk
OnDataChunk(s, n) ==
  LET t == [s EXCEPT !.recv = @ + n]
  IN  [ok |-> /\ "EXPECT_FINAL_RESPONSE" \notin t.flags
              /\ t.content_length # -1 => t.recv <= t.content_length,
       s |-> t]

(* --- the session -------------------------------------------------------- *)

\* nghttp2_http_record_request_method, and nghttp2_session_upgrade, which does
\* not know the method
RecordRequestMethod(m) ==
  IF m = "UPGRADE" THEN {"METH_UPGRADE_WORKAROUND"}
  ELSE {"METH_" \o m} \cap {"METH_CONNECT", "METH_HEAD"}

Init ==
  /\ kind \in Kinds
  /\ block = "none"
  /\ request \in IF kind = "response" THEN Methods ELSE {"none"}
  /\ stream = [NewStream EXCEPT !.flags =
                 IF kind = "response" THEN RecordRequestMethod(request) ELSE {}]
  /\ told = NothingTold
  /\ body = [length |-> 0, state |-> "waiting"]
  /\ rejected = FALSE
  /\ connectprotocol \in BOOLEAN

\* The category of the next block; session_trailer_headers
BlockKind ==
  CASE body.state = "waiting" ->
         (CASE kind = "request" -> "request" [] kind = "response" -> "response"
            [] kind = "push" -> "promise")
    [] body.state = "promised" -> "response"
    [] body.state = "open" -> IF "EXPECT_FINAL_RESPONSE" \in stream.flags
                              THEN "response" ELSE "trailer"

BeginHeaders ==
  /\ block = "none" /\ ~ rejected /\ body.state \in {"waiting", "promised", "open"}
  /\ block' = BlockKind
  /\ told' = IF BlockKind = "trailer" THEN told ELSE NothingTold
  /\ UNCHANGED <<kind, stream, body, request, rejected, connectprotocol>>

\* The stream is reset: nothing of it reaches the application any more
Reject == rejected' = TRUE /\ block' = "none"

Told(f) ==
  [names |-> told.names \cup {f.name},
   values |-> IF f.name \in {":method", ":path", ":scheme", ":status",
                             "content-length"}
              THEN told.values \cup {<<f.name, f.value>>} ELSE told.values,
   twice |-> told.twice \cup ({f.name} \cap told.names),
   late |-> told.late \/ (f.name \in Pseudo /\ (told.regular \/ block = "trailer")),
   regular |-> told.regular \/ f.name \notin Pseudo]

\* inflate_header_block, one field: told to the application, dropped, or the
\* reason to reset the stream; strict: on_invalid_header_callback rejects what
\* would be ignored
Header ==
  /\ block # "none"
  /\ \E f \in Fields, strict \in BOOLEAN :
       LET r == OnHeader(stream, f, block = "trailer")
       IN  /\ strict => r.rv = "IGN"
           /\ stream' = r.s
           /\ IF r.rv = "HTTP_HEADER" \/ strict
              THEN Reject /\ UNCHANGED told
              ELSE /\ told' = IF r.rv = "ok" THEN Told(f) ELSE told
                   /\ UNCHANGED <<block, rejected>>
  /\ UNCHANGED <<kind, body, request, connectprotocol>>

\* session_after_header_block_received
EndHeaders ==
  /\ block # "none"
  /\ \E fin \in IF block = "promise" THEN {FALSE} ELSE BOOLEAN :
       LET r == CASE block \in {"request", "promise"} -> OnRequestHeaders(stream)
                  [] block = "response" -> OnResponseHeaders(stream)
                  [] block = "trailer" -> [ok |-> fin, s |-> stream]
       IN  /\ stream' = r.s
           /\ IF ~ r.ok \/ (fin /\ ~ OnRemoteEndStream(r.s))
              THEN Reject /\ UNCHANGED body
              ELSE /\ block' = "none"
                   /\ body' = [body EXCEPT !.state =
                                 IF fin THEN "complete"
                                 ELSE IF block = "promise" THEN "promised"
                                 ELSE "open"]
                   /\ UNCHANGED rejected
  /\ UNCHANGED <<kind, told, request, connectprotocol>>

\* A piece of a DATA frame: on_data_chunk_recv_callback
Data ==
  /\ block = "none" /\ ~ rejected /\ body.state = "open"
  /\ \E n \in Chunks :
       LET r == OnDataChunk(stream, n)
       IN  /\ body.length + n <= MaxBody
           /\ stream' = r.s
           /\ IF r.ok THEN body' = [body EXCEPT !.length = @ + n]
                           /\ UNCHANGED <<block, rejected>>
              ELSE Reject /\ UNCHANGED body
  /\ UNCHANGED <<kind, told, request, connectprotocol>>

\* The end of a DATA frame with END_STREAM
EndData ==
  /\ block = "none" /\ ~ rejected /\ body.state = "open"
  /\ IF OnRemoteEndStream(stream)
     THEN body' = [body EXCEPT !.state = "complete"] /\ UNCHANGED <<block, rejected>>
     ELSE Reject /\ UNCHANGED body
  /\ UNCHANGED <<kind, stream, told, request, connectprotocol>>

Next == BeginHeaders \/ Header \/ EndHeaders \/ Data \/ EndData

Spec == Init /\ [][Next]_vars

(* --- properties --------------------------------------------------------- *)

TypeOK ==
  /\ block \in {"none", "request", "response", "promise", "trailer"}
  /\ stream.content_length \in {-1, 0, 2}
  /\ stream.recv \in 0 .. MaxBody + 2
  /\ body.length <= stream.recv
  /\ body.state \in {"waiting", "promised", "open", "complete"}

Received == block = "none" /\ ~ rejected

Value(n) == {v[2] : v \in {w \in told.values : w[1] = n}}

\* Of every header section handed to the application each pseudo field comes
\* at most once and before the other fields, and trailers have none
PseudoFieldsFirst == told.twice \cap Pseudo = {} /\ ~ told.late

\* A request that the session reports as received has what a request must have:
\* a method, and with it either the authority alone (CONNECT) or scheme, path
\* and a host, the path absolute or the asterisk of OPTIONS for http
RequestComplete ==
  (Received /\ kind = "request" /\ body.state \in {"open", "complete"}) =>
    /\ Cardinality(Value(":method")) = 1
    /\ IF Value(":method") = {"CONNECT"} /\ ":protocol" \notin told.names
       THEN /\ ":authority" \in told.names
            /\ {":path", ":scheme"} \cap told.names = {}
       ELSE /\ {":path", ":scheme"} \subseteq told.names
            /\ {":authority", "host"} \cap told.names # {}
            /\ Value(":scheme") = {"http"} =>
                 \/ Value(":path") = {"/"}
                 \/ Value(":path") = {"*"} /\ Value(":method") = {"OPTIONS"}

\* A response that the session reports as complete had a final status, even
\* after non-final ones, and the response to HEAD, 204 and 304 has no body
ResponseComplete ==
  (Received /\ kind # "request" /\ body.state = "complete") =>
    /\ Value(":status") # {} /\ "100" \notin Value(":status")
    /\ (request = "HEAD" \/ Value(":status") \cap {"204", "304"} # {}) =>
         body.length = 0

\* A body that was declared with content-length is delivered with exactly that
\* length, in however many pieces it came, and never more of it; CONNECT has no
\* body in this sense, and what HEAD, 204 and 304 declare is not sent
LengthAsDeclared ==
  LET free == \/ request \in {"CONNECT", "HEAD", "UPGRADE"}
              \/ Value(":method") = {"CONNECT"} /\ ":protocol" \notin told.names
              \/ Value(":status") \cap {"204", "304"} # {}
  IN  (Received /\ ~ free /\ body.state \in {"open", "complete"}) =>
        \A v \in Value("content-length") :
          LET n == IF v = "0" THEN 0 ELSE 2
          IN  body.length <= n /\ (body.state = "complete" => body.length = n)
=============================================================================
