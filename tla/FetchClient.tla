----------------------------- MODULE FetchClient ------------------------------
(* nghttp: one HttpClient, from the addresses it tries to the statistics it   *)
(* prints.  It requests the URIs of the command line and, with --get-assets,  *)
(* what the HTML it receives links to, each once; it takes pushed resources,  *)
(* waits for 100-continue, and terminates the session when all are complete.  *)
EXTENDS Integers, Sequences, SequencesExt, FiniteSets

CONSTANTS
    Addrs,          \* addresses getaddrinfo() returned
    MaxReqs,        \* requests, pushed ones included
    Links,          \* what a piece of HTML links to: sequences of URIs
    Foreign,        \* URIs of other origins
    Scopes          \* [tls, upgrade, body, assets, push, multiply, deps, uris, faults]

VARIABLES
    fc,             \* the HttpClient
    scope

vars == <<fc, scope>>

\* a Request: `lib` is its stream in the library, `got` what was received on it
Request(u, l, b) ==
    [uri |-> u, level |-> l, body |-> b, sid |-> -1, lib |-> "none", got |-> "none",
     timing |-> "INITIAL", parser |-> FALSE, active |-> FALSE, fed |-> FALSE, rst |-> FALSE]

(* add_request(): a resource is requested once, unless it was asked to be     *)
(* requested several times.                                                   *)
AddRequest(v, u, b, l) ==
    IF u \in v.cache THEN v
    ELSE [v EXCEPT !.cache = IF scope.multiply = 1 THEN @ \cup {u} ELSE @,
                   !.q = Append(@, Request(u, l, b))]

\* initiate_connection(): the next address that connect() does not refuse, 0 when none is left
InitiateConnection(v, a) ==
    [v EXCEPT !.state = IF a > Addrs THEN "end" ELSE "connecting", !.addr = a]

\* communicate(): the requests of the command line, each --multiply times
Init ==
    /\ scope \in Scopes
    /\ LET asked == FlattenSeq([i \in 1 .. Len(scope.uris) |->
                                   [j \in 1 .. scope.multiply |-> scope.uris[i]]])
           body  == IF scope.body = "none" THEN "none" ELSE "have"
           start == [state |-> "connecting", addr |-> 1, q |-> <<>>, cache |-> {},
                     next |-> 1, complete |-> 0, success |-> 0, settings |-> FALSE,
                     term |-> "no", goaway |-> FALSE]
       IN  fc = FoldLeft(LAMBDA v, u : AddRequest(v, u, body, 0), start, asked)

\* disconnect(): all timers stop and the session is deleted
Disconnect(v) ==
    [v EXCEPT !.state = "end", !.settings = FALSE,
              !.q = [i \in DOMAIN @ |-> [@[i] EXCEPT !.active = FALSE, !.fed = FALSE]]]

\* nghttp2_session_terminate_session(): the session ends when its GOAWAY is sent
Terminate(v) == [v EXCEPT !.term = IF @ = "no" THEN "queued" ELSE @]

Rst(v, i) == [v EXCEPT !.q[i].rst = TRUE]

(* submit_request(): with --expect-continue the body waits, otherwise it is   *)
(* attached to the request.                                                   *)
SubmitRequest(v, i) ==
    [v EXCEPT !.q[i].lib = "queued", !.q[i].sid = v.next, !.next = @ + 2,
              !.q[i].body = CASE @ = "none" -> "sent"
                              [] @ = "have" /\ scope.body = "expect" -> "wait"
                              [] OTHER -> "attached"]

Need_upgrade == scope.upgrade /\ ~scope.tls

(* connection_made(): an upgraded first request without a body has stream 1   *)
(* and is not sent again; the anchor streams of the dependency tree take the  *)
(* IDs up to 11.                                                              *)
ConnectionMade(v) ==
    LET asUpgrade == Need_upgrade /\ v.q[1].body = "none"
        w  == [v EXCEPT !.state = "open", !.settings = TRUE,
                        !.next = IF scope.deps THEN 13 ELSE IF Need_upgrade THEN 3 ELSE 1]
        w1 == IF asUpgrade
              THEN [w EXCEPT !.q[1].lib = "open", !.q[1].sid = 1, !.q[1].body = "sent"]
              ELSE w
        ix == [k \in 1 .. Len(v.q) - (IF asUpgrade THEN 1 ELSE 0) |->
                  k + (IF asUpgrade THEN 1 ELSE 0)]
    IN  FoldLeft(SubmitRequest, w1, ix)

-------------------------------------------------------------------------------
(* Before the session.                                                        *)

\* writecb() with connected(); connect_fail() tries the next address
Connected ==
    /\ fc.state = "connecting"
    /\ \/ /\ \E a \in fc.addr + 1 .. Addrs + 1 : fc' = InitiateConnection(Disconnect(fc), a)
       \/ fc' = IF scope.tls THEN [fc EXCEPT !.state = "handshake"]
                ELSE IF Need_upgrade
                THEN [fc EXCEPT !.state = "upgrade",
                                !.q[1].timing = IF fc.q[1].body = "none" THEN "ON_REQUEST" ELSE @]
                ELSE ConnectionMade(fc)

\* tls_handshake(): h2 must have been negotiated
TlsHandshake ==
    /\ fc.state = "handshake"
    /\ \/ fc' = ConnectionMade(fc)
       \/ scope.faults /\ fc' = Disconnect(fc)

\* on_upgrade_read(): any status but 101 ends the run
OnUpgradeRead ==
    /\ fc.state = "upgrade"
    /\ \/ fc' = ConnectionMade(fc)
       \/ scope.faults /\ fc' = Disconnect(fc)

-------------------------------------------------------------------------------
(* The session.                                                               *)

Open(i) == fc.state = "open" /\ fc.term # "sent" /\ fc.q[i].lib = "open"

(* update_html_parser(): what the HTML links to, on the same origin, is       *)
(* requested.                                                                 *)
UpdateHtmlParser(v, i, links) ==
    LET Add(w, u) == LET x == AddRequest(w, u, "none", v.q[i].level + 1)
                     IN  IF Len(x.q) > Len(w.q) THEN SubmitRequest(x, Len(x.q)) ELSE w
    IN  IF v.q[i].parser
        THEN FoldLeft(Add, v, SelectSeq(links, LAMBDA u : u \notin Foreign))
        ELSE v

\* on_stream_close_callback(): the last complete request terminates the session
OnStreamClose(v, i, links) ==
    LET w  == UpdateHtmlParser([v EXCEPT !.q[i].lib = "closed", !.q[i].active = FALSE,
                                         !.q[i].fed = FALSE], i, links)
        w1 == [w EXCEPT !.complete = @ + 1]
    IN  IF w1.complete = Len(w1.q) THEN Terminate(w1) ELSE w1

\* the library closes a stream both sides have ended
CloseIfEnded(v, i, links) ==
    IF v.q[i].got = "end" /\ v.q[i].body = "sent" THEN OnStreamClose(v, i, links) ELSE v

Room(l) == Len(fc.q) + Len(l) <= MaxReqs
LinksOf(i) == {l \in Links : Room(l) /\ (fc.q[i].parser \/ l = <<>>)}

(* on_write() sends the first queued request, and the timer of its            *)
(* 100-continue starts; after a GOAWAY it fails, and its stream is closed.    *)
SendHeaders(i) ==
    /\ fc.state = "open" /\ fc.term = "no" /\ fc.q[i].lib = "queued"
    /\ \A j \in 1 .. i - 1 : fc.q[j].lib # "queued"
    /\ fc' = IF fc.goaway THEN OnStreamClose(fc, i, <<>>)
             ELSE [fc EXCEPT !.q[i].lib = "open", !.q[i].timing = "ON_REQUEST",
                             !.q[i].active = fc.q[i].body = "wait"]

(* file_read_callback() reached the end of the body; a file that shrank       *)
(* resets the stream.                                                         *)
SendBody(i) ==
    /\ Open(i) /\ fc.q[i].body = "attached" /\ fc.term = "no"
    /\ \/ \E l \in LinksOf(i) : fc' = CloseIfEnded([fc EXCEPT !.q[i].body = "sent"], i, l)
       \/ scope.faults /\ ~fc.q[i].rst
          /\ fc' = Rst([fc EXCEPT !.q[i].body = "failed"], i)

(* continue_timeout_cb(), when the timer fires or dispatch_continue() fed its *)
(* event.  nghttp2_submit_data() fails while a body is attached; after the    *)
(* end of the body the library drops what it was given.                       *)
ContinueTimeout(i) ==
    /\ fc.state = "open" /\ (fc.q[i].active \/ fc.q[i].fed)
    /\ \E fires \in {b \in BOOLEAN : IF b THEN fc.q[i].active ELSE fc.q[i].fed} :
         LET v == [fc EXCEPT !.q[i].active = @ /\ ~fires, !.q[i].fed = @ /\ fires]
         IN  fc' = CASE v.q[i].body = "attached" -> Rst(v, i)
                     [] v.q[i].body = "wait"     -> [v EXCEPT !.q[i].body = "attached"]
                     [] OTHER                    -> v

(* on_frame_recv_callback2() for HEADERS, with check_response_header(): 100   *)
(* feeds the event of a timer that runs, a final status stops it and may make *)
(* this the HTML that is searched for links.                                  *)
RecvHeaders(i) ==
    /\ Open(i) /\ fc.q[i].got \in {"none", "interim"}
    /\ \E s \in {"100", "final", "bad"}, end \in BOOLEAN :
         LET v == [fc EXCEPT !.q[i].timing = IF fc.q[i].got = "none" THEN "ON_RESPONSE" ELSE @]
             w == CASE s = "100" -> [v EXCEPT !.q[i].got = "interim", !.q[i].fed = v.q[i].active]
                    [] s = "bad" -> Rst([v EXCEPT !.q[i].got = "final"], i)
                    [] OTHER     -> [v EXCEPT !.q[i].got = "final",
                                              !.q[i].active = FALSE, !.q[i].fed = FALSE,
                                              !.q[i].parser = scope.assets /\ v.q[i].level = 0]
         IN  /\ s = "100" => scope.body = "expect" /\ ~end
             /\ s = "bad" => scope.faults /\ ~fc.q[i].rst
             /\ IF end
                THEN fc' = CloseIfEnded([w EXCEPT !.q[i].got = "end", !.success = @ + 1,
                                                  !.q[i].timing = "ON_COMPLETE"], i, <<>>)
                ELSE fc' = w

\* on_data_chunk_recv_callback(), and the end of the response with DATA or trailers
RecvData(i) ==
    /\ Open(i) /\ fc.q[i].got = "final"
    /\ \E l \in LinksOf(i), end \in BOOLEAN :
         LET v == UpdateHtmlParser(fc, i, l)
         IN  IF end
             THEN \E r \in LinksOf(i) :
                    /\ Len(v.q) + Len(r) <= MaxReqs
                    /\ fc' = CloseIfEnded([v EXCEPT !.q[i].got = "end", !.success = @ + 1,
                                                    !.q[i].timing = "ON_COMPLETE"], i, r)
             ELSE fc' = v

(* A PUSH_PROMISE makes a Request when its header block begins; when it is    *)
(* complete, a resource already asked for is cancelled.                       *)
RecvPushPromise(i) ==
    /\ Open(i) /\ scope.push /\ fc.term = "no" /\ ~fc.goaway /\ fc.q[i].got # "end"
    /\ Len(fc.q) < MaxReqs
    /\ \E u \in UNION {ToSet(l) : l \in Links} :
         LET n == Len(fc.q) + 1
             p == [Request(u, 0, "sent") EXCEPT !.sid = 2 * n, !.lib = "open",
                                                !.timing = "ON_REQUEST"]
             v == [fc EXCEPT !.q = Append(@, p)]
         IN  fc' = IF u \in fc.cache THEN Rst(v, n)
                   ELSE [v EXCEPT !.cache = IF scope.multiply = 1 THEN @ \cup {u} ELSE @]

(* RST_STREAM from either side closes the stream; none is sent once the       *)
(* session closes.  The server resets what it answered without the body: the  *)
(* client does not, although it will never send the body.                     *)
ResetStream(i) ==
    /\ Open(i)
    /\ \/ fc.q[i].rst /\ fc.term = "no"
       \/ fc.q[i].got = "end" /\ fc.q[i].body = "wait"
       \/ scope.faults
    /\ \E l \in LinksOf(i) : fc' = OnStreamClose(fc, i, l)

RecvGoaway ==
    /\ fc.state = "open" /\ fc.term # "sent" /\ scope.faults /\ ~fc.goaway
    /\ fc' = [fc EXCEPT !.goaway = TRUE]

\* SETTINGS ACK stops the timer that would terminate the session
Settings ==
    /\ fc.state = "open" /\ fc.settings
    /\ \/ fc' = [fc EXCEPT !.settings = FALSE]
       \/ scope.faults /\ fc' = Terminate([fc EXCEPT !.settings = FALSE])

\* on_write(): GOAWAY is sent; the session that neither reads nor writes is left
Finish ==
    /\ fc.state = "open"
    /\ \/ fc.term = "queued" /\ fc' = [fc EXCEPT !.term = "sent"]
       \/ fc.term = "sent" /\ fc' = Disconnect(fc)
       \/ /\ fc.goaway /\ \A i \in DOMAIN fc.q : fc.q[i].lib = "closed"
          /\ fc' = Disconnect(fc)

\* end of input, or timeoutcb()
ConnectionLost ==
    /\ scope.faults /\ fc.state \in {"handshake", "upgrade", "open"}
    /\ fc' = Disconnect(fc)

Next ==
    /\ \/ Connected \/ TlsHandshake \/ OnUpgradeRead
       \/ \E i \in DOMAIN fc.q : \/ SendHeaders(i) \/ SendBody(i) \/ ContinueTimeout(i)
                                 \/ RecvHeaders(i) \/ RecvData(i)
                                 \/ RecvPushPromise(i) \/ ResetStream(i)
       \/ RecvGoaway \/ Settings \/ Finish \/ ConnectionLost
    /\ UNCHANGED scope

Spec == Init /\ [][Next]_vars

(* The loop runs what is ready, and the server goes on with each response     *)
(* until it has ended it.                                                     *)
Answered == \A i \in DOMAIN fc.q : ~Open(i) \/ fc.q[i].got = "end"

Fairness == WF_vars(Next) /\ []<>Answered

-------------------------------------------------------------------------------
Closed == {i \in DOMAIN fc.q : fc.q[i].lib = "closed"}

(* No resource is fetched twice: of two requests for one URI all but one are  *)
(* pushes the client cancels, whether the page linked to it or the server     *)
(* pushed it first.                                                           *)
ResourcesOnce ==
    scope.multiply = 1 =>
        \A i, j \in DOMAIN fc.q :
            i < j /\ fc.q[i].uri = fc.q[j].uri => fc.q[j].sid % 2 = 0 /\ fc.q[j].rst

(* `complete` counts the requests whose stream was closed, and `success`      *)
(* those whose response ended, which are the ones the statistics list; the    *)
(* session is terminated for no other reason than that all requests are       *)
(* complete, a SETTINGS timeout aside.                                        *)
RequestsCounted ==
    /\ fc.complete = Cardinality(Closed)
    /\ fc.success = Cardinality({i \in DOMAIN fc.q : fc.q[i].timing = "ON_COMPLETE"})
    /\ fc.state = "open" /\ fc.complete = Len(fc.q) => fc.term # "no"
    /\ fc.term # "no" /\ ~scope.faults => Closed = DOMAIN fc.q

(* A 100-continue timer runs only for a request that was sent, is open, and   *)
(* whose final response has not come.                                         *)
TimersSound ==
    \A i \in DOMAIN fc.q :
        fc.q[i].active \/ fc.q[i].fed =>
            fc.state = "open" /\ fc.q[i].lib = "open" /\ fc.q[i].got \in {"none", "interim"}

(* nghttp fetches each resource once, counts what it fetched exactly, and its *)
(* timers belong to requests that still wait.                                 *)
FetchSound == ResourcesOnce /\ RequestsCounted /\ TimersSound

(* The run ends when the server answers what it was asked.                    *)
Pending == fc.state # "end"
FetchEnds == []<>~Pending
===============================================================================
