----------------------------- MODULE SessionCache -----------------------------
(* The TLS session cache of nghttpx: TLS handshakes of frontend connections   *)
(* that look their session up in memcached and wait for the answer, and the   *)
(* one pipelined memcached connection of a worker, which connects on demand,  *)
(* queues what it is asked, and asks again what a lost connection left        *)
(* unanswered.                                                                *)
(*                                                                            *)
(* A request is <<op, c>>: "GET" when client c offered a session, "ADD" when  *)
(* it made a new one.  The bytes of requests and responses are abstracted to  *)
(* what the code acts on: how many whole requests a write took, whether it    *)
(* left one half written, whether a response header arrived in pieces.        *)
EXTENDS Integers, Sequences, SequencesExt, FiniteSets

CONSTANTS
    Clients,    \* frontend TLS connections, one handshake each
    MaxTry,     \* MAX_TRY_COUNT
    Scopes      \* what may happen: see Init

VARIABLES
    mc,         \* the memcached connection and the handshakes
    scope       \* what this behaviour lets happen

vars == <<mc, scope>>

\* the connection fields disconnect() leaves behind
Closed ==
    [st |-> "off", sendq |-> <<>>, recvq |-> <<>>, bufv |-> <<>>,
     wire |-> <<>>, head |-> FALSE, wev |-> FALSE, rt |-> FALSE, wt |-> FALSE]

(* A scope says what the environment does: refuse (connects may fail), drop   *)
(* (the server may close, answer late or not at all), cancel (a client may    *)
(* leave while it waits), frag (a response header may arrive in pieces), full *)
(* (the socket may take less than it is given), tls (memcached over TLS), and *)
(* batch (how many requests fit in the 1300 bytes of one write).              *)
Init ==
    /\ scope \in Scopes
    /\ \E s \in SUBSET Clients :
          mc = Closed @@ [try |-> 0, blocked |-> FALSE, store |-> s,
                          hs |-> [c \in Clients |-> "idle"],
                          lookup |-> [c \in Clients |-> FALSE],
                          session |-> [c \in Clients |-> FALSE],
                          flights |-> [c \in Clients |-> {}],
                          canceled |-> {}, refused |-> {}, faults |-> {}]

Requests == {"GET", "ADD"} \X Clients

Fault(m, cond, name) == IF cond THEN [m EXCEPT !.faults = @ \cup {name}] ELSE m

(* The callback of a request: tls_session_get_cb's lambda resumes the         *)
(* handshake, with the session or without; tls_session_new_cb's only logs.    *)
Callback(m, r, ans) ==
    LET c == r[2] IN
    IF r[1] = "ADD" THEN m
    ELSE [Fault(m, m.hs[c] # "wait", "callback") EXCEPT
            !.lookup[c] = FALSE,
            !.session[c] = ans = "hit",
            !.hs[c] = IF ans = "hit" THEN "got" ELSE "cancel"]

\* disconnect(): every queued request, cancelled or not, fails
Disconnect(m) ==
    LET told == FoldLeft(LAMBDA a, r : Callback(a, r, "error"), m, m.recvq \o m.sendq)
    IN  Closed @@ Fault(told, m.head, "recvbuf")

\* initiate_connection(), and what its callers do when it fails
Connect(m, ok) ==
    IF ok THEN [m EXCEPT !.st = "connecting", !.wev = TRUE, !.wt = TRUE]
    ELSE Disconnect([m EXCEPT !.blocked = TRUE])

AddRequest(m, r, ok) ==
    IF m.blocked THEN [m EXCEPT !.refused = @ \cup {r}]
    ELSE LET q == [m EXCEPT !.sendq = Append(@, r)]
         IN  CASE m.st = "up" -> [q EXCEPT !.wev = TRUE]
               [] m.st = "off" -> Connect(q, ok)
               [] OTHER -> q

Oks == IF scope.refuse THEN BOOLEAN ELSE {TRUE}

ReconnectOrFail(m, ok) ==
    IF m.st # "up" \/ m.recvq \o m.sendq = <<>> THEN Disconnect(m)
    ELSE IF m.try + 1 >= MaxTry THEN Disconnect([m EXCEPT !.try = 0])
    ELSE LET q == m.recvq \o m.sendq
             d == Disconnect([m EXCEPT !.try = @ + 1, !.sendq = <<>>, !.recvq = <<>>])
         IN  Connect([d EXCEPT !.sendq = q], ok)

-------------------------------------------------------------------------------
(* Writing.                                                                   *)

Live(m, q) == SelectSeq(q, LAMBDA r : r \notin m.canceled)

\* fill_request_buffer(): serialise once what is written until nothing is left
Fill(m) ==
    LET live == Live(m, m.sendq) IN
    IF m.bufv # <<>> THEN m
    ELSE IF live = <<>> THEN [m EXCEPT !.sendq = <<>>]
    ELSE [m EXCEPT !.bufv = SubSeq(live, 1, IF Len(live) < scope.batch THEN Len(live)
                                            ELSE scope.batch)]

(* drain_send_queue(): k whole requests were taken, and a part of the next    *)
(* one when part; cancelled requests ahead of them are dropped.               *)
Drain(m, k, part) ==
    LET live == Live(m, m.sendq)
        n    == IF part THEN k + 1 ELSE k
        kept == SubSeq(live, k + 1, Len(live))
        rest == IF n = 0 THEN m.sendq ELSE kept
        q    == m.recvq \o SubSeq(m.bufv, 1, k)
    IN  [Fault(m, Len(live) < n \/ SubSeq(live, 1, n) # SubSeq(m.bufv, 1, n), "sendq") EXCEPT
           !.sendq = rest,
           !.bufv = SubSeq(@, k + 1, Len(@)),
           !.recvq = q,
           !.wire = @ \o SubSeq(m.bufv, 1, k),
           !.rt = q # <<>>]

(* write_clear() and write_tls() on a connection that is up: the loop goes on *)
(* until the queue is empty or the socket takes no more.                      *)
Written(m) ==
    IF m.sendq = <<>> THEN {[m EXCEPT !.wev = FALSE, !.wt = FALSE]}
    ELSE LET f    == Fill(m)
             done == Drain(f, Len(f.bufv), FALSE)
         IN  (IF done.sendq = <<>> THEN {[done EXCEPT !.wev = FALSE, !.wt = FALSE]}
              ELSE {[Fill(done) EXCEPT !.wev = TRUE, !.wt = TRUE]})
             \cup (IF scope.full
                   THEN {[Drain(f, k, part) EXCEPT !.wev = TRUE, !.wt = TRUE] :
                            k \in 0 .. Len(f.bufv) - 1, part \in BOOLEAN}
                   ELSE {})

WriteCb ==
    /\ mc.st = "up" /\ mc.wev
    /\ \/ mc' \in Written(mc)
       \/ /\ scope.drop
          /\ \E ok \in Oks : mc' = ReconnectOrFail(mc, ok)
    /\ UNCHANGED scope

\* connectcb(): connected(), then the write callback
Connected ==
    /\ mc.st = "connecting"
    /\ \/ /\ ~scope.tls
          /\ mc' \in Written([mc EXCEPT !.st = "up", !.wt = FALSE])
       \/ /\ scope.tls
          /\ mc' = [mc EXCEPT !.st = "handshake", !.rt = TRUE]
       \/ /\ scope.refuse
          /\ mc' = Disconnect([mc EXCEPT !.blocked = TRUE])
    /\ UNCHANGED scope

\* tls_handshake() of the memcached connection
Handshake ==
    /\ mc.st = "handshake"
    /\ \/ mc' \in Written([mc EXCEPT !.st = "up", !.rt = FALSE, !.wt = FALSE])
       \/ /\ scope.refuse
          /\ mc' = Disconnect([mc EXCEPT !.blocked = TRUE])
    /\ UNCHANGED scope

-------------------------------------------------------------------------------
(* Reading.                                                                   *)

\* a response header that is not complete yet stays in recvbuf_
ReadPart ==
    /\ mc.st = "up" /\ mc.wire # <<>> /\ scope.frag /\ ~mc.head
    /\ mc' = [mc EXCEPT !.head = TRUE]
    /\ UNCHANGED scope

(* parse_packet(): the response the server gives to the oldest request it     *)
(* holds is taken as the answer to the front of recvq_.                       *)
Read(ans) ==
    LET asked == Head(mc.wire)
        r     == Head(mc.recvq)
        c     == asked[2]
        m     == [Fault(mc, r # asked, "answer") EXCEPT
                    !.try = 0, !.head = FALSE,
                    !.wire = Tail(@), !.recvq = Tail(@),
                    !.rt = @ /\ mc.sendq \o Tail(mc.recvq) # <<>>,
                    !.store = IF asked[1] = "ADD" THEN @ \cup {c} ELSE @]
    IN  /\ mc.st = "up" /\ mc.wire # <<>>
        /\ ans = "hit" => asked[1] = "ADD" \/ c \in mc.store
        /\ mc' = IF r \in mc.canceled THEN m ELSE Callback(m, r, ans)
        /\ UNCHANGED scope

\* the server closes the connection
ReadEof ==
    /\ mc.st = "up" /\ scope.drop
    /\ \E ok \in Oks : mc' = ReconnectOrFail(mc, ok)
    /\ UNCHANGED scope

\* timeoutcb()
Timeout ==
    /\ mc.rt \/ mc.wt
    /\ scope.drop
    /\ mc' = Disconnect(mc)
    /\ UNCHANGED scope

\* the connect blocker's timer
BackoffEnds ==
    /\ mc.blocked
    /\ mc' = [mc EXCEPT !.blocked = FALSE]
    /\ UNCHANGED scope

-------------------------------------------------------------------------------
(* The handshakes: Connection::tls_handshake() and the callbacks OpenSSL      *)
(* makes from it.  flights holds what the client was sent: "full" for a new   *)
(* session, "short" for a resumed one.                                        *)

\* the ClientHello, which offers a session or not
Hello(c) ==
    /\ mc.hs[c] = "idle"
    /\ \/ mc' = [mc EXCEPT !.hs[c] = "started", !.flights[c] = @ \cup {"full"}]
       \/ \E ok \in Oks :
             mc' = AddRequest([mc EXCEPT !.hs[c] = "wait", !.lookup[c] = TRUE],
                              <<"GET", c>>, ok)
    /\ UNCHANGED scope

(* The answer came: with a session the ClientHello is replayed on a new SSL   *)
(* object and what the old one wrote is discarded; without, it goes on.       *)
Resume(c) ==
    /\ mc.hs[c] \in {"got", "cancel"}
    /\ mc' = IF mc.hs[c] = "got"
             THEN [mc EXCEPT !.hs[c] = "started", !.session[c] = FALSE,
                             !.flights[c] = @ \cup {"short"}]
             ELSE [mc EXCEPT !.hs[c] = "started", !.flights[c] = @ \cup {"full"}]
    /\ UNCHANGED scope

\* the handshake completes; tls_session_new_cb() stores a new session
Finish(c) ==
    /\ mc.hs[c] = "started"
    /\ \E ok \in Oks :
          mc' = LET m == [mc EXCEPT !.hs[c] = "done"]
                IN  IF "full" \in mc.flights[c] THEN AddRequest(m, <<"ADD", c>>, ok)
                    ELSE m
    /\ UNCHANGED scope

\* Connection::disconnect() of the frontend connection
Leave(c) ==
    /\ mc.hs[c] \notin {"idle", "gone"}
    /\ mc.hs[c] = "wait" => scope.cancel
    /\ mc' = [mc EXCEPT !.hs[c] = "gone", !.session[c] = FALSE, !.lookup[c] = FALSE,
                        !.canceled = IF mc.lookup[c] THEN @ \cup {<<"GET", c>>} ELSE @]
    /\ UNCHANGED scope

Serve ==
    \/ WriteCb \/ Connected \/ Handshake \/ ReadPart \/ ReadEof \/ Timeout
    \/ \E ans \in {"hit", "miss"} : Read(ans)

Next ==
    \/ Serve
    \/ BackoffEnds
    \/ \E c \in Clients : Hello(c) \/ Resume(c) \/ Finish(c) \/ Leave(c)

Spec == Init /\ [][Next]_vars

(* libev calls back for what is ready, and the read and write timers of the   *)
(* connection bound the wait for a server that stays silent.                  *)
Fairness == WF_vars(Serve)

-------------------------------------------------------------------------------
(* Properties.                                                                *)

Count(q, r) == Cardinality({i \in DOMAIN q : q[i] = r})


\* a lookup that memcached was asked for ends, with a session or without
Pending(c) == mc.hs[c] = "wait" /\ <<"GET", c>> \notin mc.refused
LookupsEnd == \A c \in Clients : []<>~Pending(c)
===============================================================================
