------------------------------- MODULE LoadTest -------------------------------
(* h2load: one worker thread, its clients, their connections and the counts   *)
(* of requests it reports.                                                    *)
EXTENDS Integers, Sequences, SequencesExt, FiniteSets

CONSTANTS
    Clients,        \* 1 .. n
    Total,          \* requests the worker has to make (-n)
    MaxConc,        \* -m
    Addrs,          \* number of addresses of the host
    Scopes          \* [mode, h1, upload, script, n, timeout, faults]

VARIABLES
    lt,             \* the worker
    scope

vars == <<lt, scope>>

\* -D: no number of requests
Timed == scope.mode = "timed"

Todo == IF scope.script # <<>> THEN scope.n * Cardinality(Clients) ELSE Total

\* the requests of the worker's k-th client
Share(k) ==
    IF Timed THEN 0
    ELSE (Todo \div Cardinality(Clients)) + (IF k <= Todo % Cardinality(Clients) THEN 1 ELSE 0)

NoClient == [st |-> "none", addr |-> 0, cur |-> FALSE, left |-> 0, inflight |-> 0,
             started |-> 0, done |-> 0, open |-> 0, idx |-> 1, timer |-> FALSE,
             idle |-> FALSE, act |-> FALSE, newconn |-> FALSE, upl |-> "no",
             goaway |-> FALSE, term |-> FALSE]

Init ==
    /\ scope \in Scopes
    /\ lt = [phase |-> IF Timed THEN "idle" ELSE "main", made |-> 0, rate |-> TRUE,
             c |-> [k \in Clients |-> NoClient],
             started |-> 0, done |-> 0, success |-> 0, ok |-> 0, failed |-> 0,
             error |-> 0, timedout |-> 0, todo |-> IF Timed THEN 0 ELSE Todo]

-------------------------------------------------------------------------------
(* The counts.                                                                *)

\* n requests that will never be answered
Failed(v, n) == [v EXCEPT !.failed = @ + n, !.error = @ + n]

\* process_abandoned_streams()
Abandon(v, k) ==
    IF v.phase # "main" THEN v
    ELSE [Failed(v, v.c[k].inflight + v.c[k].left) EXCEPT !.c[k].inflight = 0, !.c[k].left = 0]

\* disconnect()
Disconnect(v, k) ==
    [v EXCEPT !.c[k] = [@ EXCEPT !.st = "idle", !.open = 0, !.timer = FALSE, !.idle = FALSE,
                                 !.act = FALSE, !.upl = "no", !.goaway = FALSE,
                                 !.term = FALSE]]

\* fail()
Fail(v, k) == Abandon(Disconnect(v, k), k)

\* free_client() and ~Client(); clients are listed in a timed run
Free(v, k) ==
    [v EXCEPT !.c[k].st = "gone", !.todo = @ + (IF Timed THEN v.c[k].done ELSE 0)]

\* terminate_session()
Terminate(v, k) == [v EXCEPT !.c[k].term = TRUE]

\* process_request_failure()
RequestFailure(v, k) ==
    IF v.phase # "main" THEN v
    ELSE LET w == [Failed(v, v.c[k].left) EXCEPT !.c[k].left = 0]
         IN  IF w.c[k].inflight = 0 THEN Terminate(w, k) ELSE w

-------------------------------------------------------------------------------
(* Requests.                                                                  *)

Lines == Len(scope.script)

\* the session refuses a request: HTTP/2 after a GOAWAY of either side
Refuses(c) == ~scope.h1 /\ (c.goaway \/ c.term)

(* submit_request(), with the session's: whether it succeeded is in ok.       *)
SubmitRequest(v, k) ==
    LET c == v.c[k]
        w == [v EXCEPT !.c[k].open = @ + 1,
                       !.c[k].idx = IF Lines = 0 THEN 1 ELSE (@ % Lines) + 1,
                       !.c[k].upl = IF scope.upload THEN "sending" ELSE @]
        left == IF Timed THEN c.left ELSE c.left - 1
    IN  IF Refuses(c) THEN [v |-> v, ok |-> FALSE]
        ELSE IF v.phase # "main" THEN [v |-> w, ok |-> TRUE]
        ELSE [v |-> [w EXCEPT !.started = @ + 1, !.c[k].started = @ + 1,
                              !.c[k].inflight = @ + 1, !.c[k].left = left,
                              !.c[k].act = @ \/ (scope.timeout /\ left = 0)],
              ok |-> TRUE]

\* submit_request() up to n times, until it fails
Submit(v, k, n) ==
    LET r == FoldLeft(LAMBDA a, i : IF a.ok THEN SubmitRequest(a.v, k) ELSE a,
                      [v |-> v, ok |-> TRUE], [i \in 1 .. n |-> i])
    IN  IF r.ok THEN r.v ELSE RequestFailure(r.v, k)

\* max_concurrent_streams()
Concurrency == IF scope.upload THEN 1 ELSE MaxConc

\* the lines of the script from a client's next one on that are due at time t
Due(idx, t) ==
    Cardinality({j \in idx .. Lines : \A i \in idx .. j : scope.script[i] = t})

(* connection_made(): the first requests.  With a script, the lines due at    *)
(* once, and a timer for the next.                                            *)
ConnectionMade(v, k) ==
    LET w == [v EXCEPT !.c[k].st = "up"]
        c == w.c[k]
    IN  IF scope.script = <<>>
        THEN Submit(w, k, IF Timed THEN MaxConc
                          ELSE IF c.left < Concurrency THEN c.left ELSE Concurrency)
        ELSE LET d == Submit(w, k, Due(c.idx, 0))
             IN  [d EXCEPT !.c[k].timer = scope.script[d.c[k].idx] > 0]

(* on_stream_close(): final, when the connection will take no more requests.  *)
OnStreamClose(v, k, success, status, final) ==
    LET c == v.c[k]
        a == IF v.phase # "main" THEN v
             ELSE [v EXCEPT
                     !.c[k].inflight = IF @ > 0 THEN @ - 1 ELSE 0,
                     !.c[k].done = @ + 1, !.done = @ + 1,
                     !.success = @ + (IF success THEN 1 ELSE 0),
                     !.ok = @ + (IF success /\ status THEN 1 ELSE 0),
                     !.failed = @ + (IF success /\ status THEN 0 ELSE 1),
                     !.error = @ + (IF success THEN 0 ELSE 1)]
        b == [a EXCEPT !.c[k].open = @ - 1]
    IN  CASE b.c[k].left = 0 /\ b.c[k].inflight = 0 -> Terminate(b, k)
          [] final \/ b.c[k].left = 0 -> b
          [] OTHER -> IF scope.script # <<>> THEN [b EXCEPT !.c[k].timer = TRUE]
                      ELSE Submit(b, k, 1)

\* client_request_timeout_cb(): the lines due now
ScriptTimer(k) ==
    LET c == lt.c[k]
        n == Due(c.idx, scope.script[c.idx])
        m == IF n < c.left THEN n ELSE c.left
    IN  /\ c.st = "up" /\ c.timer
        /\ lt' = IF c.open >= MaxConc \/ Refuses(c)
                 THEN LET w == [lt EXCEPT !.c[k].timer = FALSE]
                      IN  IF c.open >= MaxConc THEN w ELSE RequestFailure(w, k)
                 ELSE LET w == Submit(lt, k, m)
                      IN  [w EXCEPT !.c[k].timer = w.c[k].left > 0]
        /\ UNCHANGED scope

-------------------------------------------------------------------------------
(* Connections.                                                               *)

\* connect(): some address takes the connection attempt, or none
Connect(v, k, addr) ==
    LET w == [v EXCEPT !.phase = IF @ = "idle" THEN "warm" ELSE @]
    IN  IF addr = 0 THEN [w EXCEPT !.c[k].addr = IF w.c[k].cur THEN @ ELSE Addrs]
        ELSE [w EXCEPT !.c[k] = [@ EXCEPT !.st = "connecting", !.addr = addr, !.cur = TRUE,
                                          !.idle = scope.timeout]]

\* the addresses connect() may end up with; 0: it fails
Attempts(c) ==
    {0} \cup (IF c.cur THEN {c.addr} ELSE c.addr + 1 .. Addrs)

\* clients made by run() or by one rate_period_timeout_w_cb()
Batch == IF scope.mode = "rate" THEN 1 ELSE Cardinality(Clients)

NewClient(k) ==
    [NoClient EXCEPT !.st = "idle", !.left = IF Timed THEN 1 ELSE Share(k)]

(* run() and rate_period_timeout_w_cb(): a client that cannot connect fails   *)
(* at once.                                                                   *)
MakeClients ==
    LET new == lt.made + 1 .. lt.made + Batch IN
    /\ lt.rate
    /\ \E down \in SUBSET new :
          /\ down # {} => scope.faults /\ ~Timed
          /\ lt' = LET v == [FoldLeft(LAMBDA a, k :
                                 LET b == [a EXCEPT !.c[k] = NewClient(k)]
                                 IN  IF k \in down THEN Free(Fail(Connect(b, k, 0), k), k)
                                     ELSE Connect(b, k, 1),
                               lt, [i \in 1 .. Batch |-> lt.made + i])
                             EXCEPT !.made = @ + Batch]
                   IN  [v EXCEPT !.rate = v.made < Cardinality(Clients)]
    /\ UNCHANGED scope

(* writecb() while connecting: connected() and the handshake.  A refused      *)
(* connection tries the next address.                                         *)
Connected(k) ==
    LET c == lt.c[k] IN
    /\ c.st = "connecting"
    /\ \/ lt' = ConnectionMade([lt EXCEPT !.c[k].idle = scope.timeout], k)
       \/ /\ scope.faults
          /\ LET d == [Disconnect(lt, k) EXCEPT !.c[k].cur = FALSE]
             IN  \E a \in Attempts(d.c[k]) :
                    lt' = IF a = 0 THEN Free(Fail(Connect(d, k, a), k), k) ELSE Connect(d, k, a)
       \/ /\ scope.faults
          /\ lt' = Free(Fail(lt, k), k)
    /\ UNCHANGED scope

(* try_again_or_fail() as a slip would have it: the requests in flight are    *)
(* counted as failed and stay in flight.                                      *)
TryAgainOrFail_KeepsInflight(v, k, addr) ==
    LET d == Disconnect(v, k)
        e == [d EXCEPT !.c[k].newconn = FALSE]
        f == IF e.phase = "main" THEN Failed(e, e.c[k].inflight) ELSE e
        g == Connect(f, k, addr)
    IN  IF d.c[k].newconn /\ d.c[k].left > 0
        THEN (IF addr = 0 THEN Free(Abandon(g, k), k) ELSE g)
        ELSE Free(Abandon(e, k), k)

(* try_again_or_fail(): the requests in flight fail, and a new connection     *)
(* goes on with the others if one was asked for.                              *)
TryAgainOrFail(v, k, addr) ==
    LET d == Disconnect(v, k)
        e == [d EXCEPT !.c[k].newconn = FALSE]
        f == IF e.phase = "main"
             THEN [Failed(e, e.c[k].inflight) EXCEPT !.c[k].inflight = 0] ELSE e
        g == Connect(f, k, addr)
    IN  IF d.c[k].newconn /\ d.c[k].left > 0
        THEN (IF addr = 0 THEN Free(Abandon(g, k), k) ELSE g)
        ELSE Free(Abandon(e, k), k)

\* readcb(): the connection ended
ReadFails(k) ==
    /\ scope.faults /\ lt.c[k].st = "up"
    /\ \E a \in Attempts(lt.c[k]) : lt' = TryAgainOrFail(lt, k, a)
    /\ UNCHANGED scope

(* HTTP/2: a stream is closed, or its request could not be sent.              *)
StreamClosed(k) ==
    /\ ~scope.h1 /\ lt.c[k].st = "up" /\ lt.c[k].open > 0
    /\ \E success, status \in BOOLEAN : lt' = OnStreamClose(lt, k, success, status, FALSE)
    /\ UNCHANGED scope

Goaway(k) ==
    /\ ~scope.h1 /\ scope.faults /\ lt.c[k].st = "up"
    /\ lt' = [lt EXCEPT !.c[k].goaway = TRUE]
    /\ UNCHANGED scope

(* htp_msg_completecb(): an HTTP/1.1 response is complete; final, when the    *)
(* server closes the connection.  While its request is still being uploaded   *)
(* the stream stays open.                                                     *)
MsgComplete(k) ==
    LET c == lt.c[k] IN
    /\ scope.h1 /\ c.st = "up" /\ c.open > 0 /\ c.upl # "answered"
    /\ \E status, final \in BOOLEAN :
          LET v == IF c.upl = "sending" THEN [lt EXCEPT !.c[k].upl = "answered"]
                   ELSE OnStreamClose(lt, k, TRUE, status, final)
              w == [v EXCEPT !.c[k].newconn = @ \/ v.c[k].left > 0]
          IN  IF ~final THEN lt' = v
              ELSE \E a \in Attempts(c) : lt' = TryAgainOrFail(w, k, a)
    /\ UNCHANGED scope

\* Http1Session::on_write(): the upload ends, perhaps after its response
Uploaded(k) ==
    LET c == lt.c[k]
        v == [lt EXCEPT !.c[k].upl = "no"]
    IN  /\ c.st = "up" /\ c.upl # "no" /\ ~c.term
        /\ lt' = IF c.upl = "answered" THEN OnStreamClose(v, k, TRUE, TRUE, FALSE) ELSE v
        /\ UNCHANGED scope

\* writecb(): a terminated session ends its connection
Ends(k) ==
    /\ lt.c[k].st = "up" /\ lt.c[k].term
    /\ lt' = Free(Fail(lt, k), k)
    /\ UNCHANGED scope

(* conn_timeout_cb(): the client is disconnected, and kept.                   *)
ConnTimeout(k) ==
    LET c == lt.c[k]
        v == [lt EXCEPT !.c[k].idle = FALSE, !.c[k].act = FALSE]
        w == IF v.phase = "main" THEN [v EXCEPT !.timedout = @ + c.inflight] ELSE v
    IN  /\ c.idle \/ c.act
        /\ lt' = IF c.st = "up" THEN Disconnect(Abandon(w, k), k) ELSE v
        /\ UNCHANGED scope

\* warmup_timeout_cb() and duration_timeout_cb()
PhaseEnds ==
    /\ Timed /\ lt.phase \in {"warm", "main"}
    /\ lt' = IF lt.phase = "warm" THEN [lt EXCEPT !.phase = "main"]
             ELSE [lt EXCEPT !.phase = "over",
                     !.c = [k \in Clients |-> [@[k] EXCEPT !.term = @ \/ lt.c[k].st = "up"]]]
    /\ UNCHANGED scope

\* a timed run is explored up to this many counts
Bound == Timed => lt.started + lt.done <= scope.n

Next ==
    \/ MakeClients \/ PhaseEnds
    \/ \E k \in Clients :
          /\ Bound
          /\ \/ Connected(k) \/ ReadFails(k) \/ StreamClosed(k) \/ Goaway(k)
             \/ MsgComplete(k) \/ Uploaded(k) \/ Ends(k) \/ ConnTimeout(k) \/ ScriptTimer(k)

Spec == Init /\ [][Next]_vars

(* The loop runs, connections are made or refused, and servers answer.        *)
Fairness ==
    /\ WF_vars(MakeClients)
    /\ \A k \in Clients : WF_vars(Connected(k)) /\ WF_vars(StreamClosed(k)) /\ WF_vars(Ends(k))
                          /\ WF_vars(MsgComplete(k) \/ Uploaded(k)) /\ WF_vars(ScriptTimer(k))

-------------------------------------------------------------------------------
(* Properties.                                                                *)

\* what a client still has to do or to account for
Owed(k) ==
    IF lt.c[k].st = "none" THEN Share(k) ELSE lt.c[k].left + lt.c[k].inflight

(* Every request that was asked for is counted once: it is still owed by its  *)
(* client, or succeeded or failed, whatever becomes of the connections; no    *)
(* count wraps, and no more requests time out than fail.                      *)
RequestsCounted ==
    /\ \A k \in Clients : lt.c[k].left >= 0 /\ lt.c[k].inflight >= 0
    /\ ~Timed =>
          LET owed == FoldFunction(LAMBDA a, b : a + b, 0, [k \in Clients |-> Owed(k)])
          IN  /\ lt.success + lt.error + owed = Todo
              /\ lt.ok + lt.failed + owed = Todo
    /\ lt.timedout <= lt.error

(* What warmup_timeout_cb() asserts whenever it may run: nothing was counted  *)
(* during the warm-up.                                                        *)
WarmUpCountsNothing ==
    lt.phase = "warm" =>
        /\ lt.started = 0 /\ lt.done = 0
        /\ \A k \in Clients :
              lt.c[k].st \notin {"none", "gone"} =>
                  lt.c[k].left = 1 /\ lt.c[k].inflight = 0 /\ lt.c[k].done = 0

(* A connected client with requests left has one under way, or a timer that   *)
(* will make the next, or is closing; and -m is kept to.                      *)
ClientsBusy ==
    \A k \in Clients :
        LET c == lt.c[k] IN
        c.st = "up" =>
            /\ c.left > 0 => c.open > 0 \/ c.timer \/ c.term \/ Timed
            /\ scope.script = <<>> => c.open <= Concurrency

LoadSound == RequestsCounted /\ WarmUpCountsNothing /\ ClientsBusy

(* With a script, -n is the number of requests each client performs.          *)
AsManyAsAsked == scope.script # <<>> => \A k \in Clients : lt.c[k].started <= scope.n

\* a benchmark of a number of requests ends
Pending == ~Timed /\ \E k \in Clients : lt.c[k].st \notin {"gone", "idle"}
BenchmarkEnds == []<>~Pending
===============================================================================
