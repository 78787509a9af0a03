----------------------------- MODULE WorkerProcess -----------------------------
(* One worker process of nghttpx: the main thread, which accepts connections  *)
(* and hands them to worker threads over their event queues, stops accepting  *)
(* for a while when it runs out of descriptors or waits for OCSP responses,   *)
(* passes configuration changes on, and shuts down gracefully.                *)
EXTENDS Integers, Sequences, SequencesExt, FiniteSets

CONSTANTS
    Workers,        \* worker threads 1 .. n
    MaxConns,       \* worker_connections
    MaxArrivals,    \* connections clients make
    Certs,          \* certificates with OCSP, 1 .. n
    Scopes          \* [single, api, ocsp, startup, emfile, noverify, replace]

VARIABLES
    wp,             \* the process
    scope

vars == <<wp, scope>>

NoWorkerYet == [q |-> <<>>, conns |-> 0, graceful |-> FALSE, run |-> TRUE, conf |-> 0]

\* worker_process_event_loop() up to ev_run()
Init ==
    /\ scope \in Scopes
    /\ wp = [acceptor |-> IF scope.startup THEN "off" ELSE "on",
             sleeping |-> FALSE, graceful |-> FALSE, run |-> TRUE, joining |-> FALSE,
             arrived |-> 0, backlog |-> 0, closed |-> 0, late |-> FALSE,
             rr |-> IF scope.api THEN 2 ELSE 1,
             w |-> [i \in Workers |-> NoWorkerYet],
             serial |-> <<>>, conf |-> 0, rev |-> 0,
             hold |-> scope.startup,
             ocsp |-> IF scope.ocsp THEN [st |-> "query", next |-> 1, left |-> 2, got |-> 0]
                      ELSE [st |-> "idle", next |-> 1, left |-> 0, got |-> 0],
             stapled |-> [c \in Certs |-> 0]]

Single == scope.single

-------------------------------------------------------------------------------
(* Accepting.                                                                 *)

Arrive ==
    /\ wp.arrived < MaxArrivals /\ wp.acceptor # "deleted"
    /\ wp' = [wp EXCEPT !.arrived = @ + 1, !.backlog = @ + 1]
    /\ UNCHANGED scope

\* a WorkerEvent: its type, and the configuration a REPLACE_DOWNSTREAM carries
Event(type, conf) == [type |-> type, conf |-> conf]

Send(p, i, type) == [p EXCEPT !.w[i].q = Append(@, Event(type, 0))]

NextWorker(i) == IF i = Cardinality(Workers) THEN (IF scope.api THEN 2 ELSE 1) ELSE i + 1

\* a ClientHandler is made, unless worker_connections of them exist
Admit(p, i) ==
    IF p.w[i].conns >= MaxConns THEN [p EXCEPT !.closed = @ + 1]
    ELSE [p EXCEPT !.w[i].conns = @ + 1]

\* handle_connection() of an accepted connection; toApi: it came to the API port
HandleConnection(p, toApi) ==
    LET q == [p EXCEPT !.backlog = @ - 1, !.late = @ \/ p.acceptor = "deleted"] IN
    CASE Single -> Admit(q, 1)
      [] toApi -> Send(q, 1, "NEW")
      [] OTHER -> [Send(q, p.rr, "NEW") EXCEPT !.rr = NextWorker(@)]

\* accept_connection(), when a connection waits and when none does
AcceptOne(p, toApi) == IF p.backlog = 0 THEN p ELSE HandleConnection(p, toApi)

Ports == IF scope.api THEN BOOLEAN ELSE {FALSE}

AcceptCb ==
    /\ wp.run /\ wp.acceptor = "on" /\ wp.backlog > 0
    /\ \E toApi \in Ports : wp' = AcceptOne(wp, toApi)
    /\ UNCHANGED scope

\* EMFILE or ENFILE: sleep_acceptor()
AcceptFails ==
    /\ wp.run /\ scope.emfile /\ wp.acceptor = "on" /\ wp.backlog > 0 /\ ~wp.sleeping
    /\ wp' = [wp EXCEPT !.acceptor = "off", !.sleeping = TRUE]
    /\ UNCHANGED scope

\* enable_acceptor(): over the acceptors there are
Enable(p) == IF p.acceptor = "deleted" THEN p ELSE [p EXCEPT !.acceptor = "on"]

\* acceptor_disable_cb()
SleepEnds ==
    /\ wp.run /\ wp.sleeping
    /\ wp' = LET p == [wp EXCEPT !.sleeping = FALSE]
             IN  IF p.graceful THEN p ELSE Enable(p)
    /\ UNCHANGED scope

-------------------------------------------------------------------------------
(* The graceful shutdown.                                                     *)

SendAll(p, type, conf) ==
    [p EXCEPT !.w = [i \in Workers |-> [@[i] EXCEPT !.q = Append(@, Event(type, conf))]]]

(* The main loop has ended: cancel_ocsp_update() ends a query that runs.      *)
Ended(p) == [p EXCEPT !.run = FALSE, !.hold = FALSE,
                      !.ocsp.st = IF @ = "query" THEN "killed" ELSE "idle"]

\* the single worker is told, and ends the loop when it has no connection
TellSingle(p) ==
    LET d == [p EXCEPT !.w[1].graceful = TRUE]
    IN  IF d.w[1].conns = 0 THEN Ended(d) ELSE d

(* graceful_shutdown() as a slip would order it: the workers are told before  *)
(* the pending connection is accepted.                                        *)
Shutdown_ToldFirst(p, toApi) ==
    LET told == IF Single THEN p ELSE SendAll([p EXCEPT !.joining = TRUE], "SHUTDOWN", 0)
        a    == AcceptOne(told, toApi)
        d    == [a EXCEPT !.acceptor = "deleted", !.graceful = TRUE]
    IN  IF Single THEN TellSingle(d) ELSE d

(* graceful_shutdown(): one connection per acceptor is still accepted, the    *)
(* acceptors go, then the workers are told.                                   *)
Shutdown(p, toApi) ==
    LET a == AcceptOne(p, toApi)
        d == [a EXCEPT !.acceptor = "deleted", !.graceful = TRUE]
    IN  IF Single THEN TellSingle(d) ELSE SendAll([d EXCEPT !.joining = TRUE], "SHUTDOWN", 0)

\* ipc_readcb(): the graceful shutdown notice, any number of times
IpcShutdown ==
    /\ wp.run
    /\ \E toApi \in Ports : wp' = IF wp.graceful THEN wp ELSE Shutdown(wp, toApi)
    /\ UNCHANGED scope

\* the events of a type in a worker's queue
Queued(i, type) == Cardinality({k \in DOMAIN wp.w[i].q : wp.w[i].q[k].type = type})

\* ipc_readcb(): reopen the log files
IpcReopenLog ==
    /\ wp.run /\ ~Single /\ wp.rev = 0 /\ scope.replace
    /\ \A i \in Workers : Queued(i, "LOG") = 0
    /\ wp' = SendAll(wp, "LOG", 0)
    /\ UNCHANGED scope

(* process_events(): one event at a time.                                     *)
ProcessEvents(i) ==
    LET w  == wp.w[i]
        ev == Head(w.q)
        p  == [wp EXCEPT !.w[i].q = Tail(@)]
    IN  /\ ~Single /\ w.run /\ w.q # <<>>
        /\ wp' = CASE ev.type = "NEW" -> Admit(p, i)
                   [] ev.type = "SHUTDOWN" -> [p EXCEPT !.w[i].graceful = TRUE,
                                                   !.w[i].run = w.conns # 0]
                   [] ev.type = "LOG" -> p
                   [] OTHER -> [p EXCEPT !.w[i].conf = ev.conf]
        /\ UNCHANGED scope

\* ~ClientHandler(): the last connection of a worker that shuts down ends its loop
ConnectionEnds(i) ==
    LET w    == wp.w[i]
        last == w.graceful /\ w.conns = 1
        p    == [wp EXCEPT !.w[i].conns = @ - 1, !.w[i].run = ~last]
    IN  /\ w.run /\ wp.run /\ w.conns > 0
        /\ wp' = IF Single /\ last THEN Ended(p) ELSE p
        /\ UNCHANGED scope

\* the joining thread has waited for every worker and breaks the main loop
Joined ==
    /\ wp.run /\ wp.joining /\ \A i \in Workers : ~wp.w[i].run
    /\ wp' = Ended(wp)
    /\ UNCHANGED scope

-------------------------------------------------------------------------------
(* Backend configurations, sent by the API to the main thread.                *)

\* send_replace_downstream() on a worker's thread
ApiReplace(i) ==
    /\ scope.replace /\ wp.rev < 2
    /\ wp.w[i].run /\ wp.w[i].conns > 0 /\ (Single \/ i = 1)
    /\ wp' = [wp EXCEPT !.rev = @ + 1, !.serial = Append(@, wp.rev + 1)]
    /\ UNCHANGED scope

\* handle_serial_event()
SerialEvent ==
    /\ wp.run /\ wp.serial # <<>>
    /\ wp' = LET p == [wp EXCEPT !.serial = <<>>, !.conf = Last(wp.serial)]
             IN  IF Single THEN [p EXCEPT !.w[1].conf = Last(wp.serial)]
                 ELSE FoldLeft(LAMBDA a, c : SendAll(a, "REPLACE", c), p, wp.serial)
    /\ UNCHANGED scope

-------------------------------------------------------------------------------
(* OCSP: one query command after the other, then a timer.                     *)

(* proceed_next_cert_ocsp() after next was counted up: the commands in failed *)
(* cannot be started.                                                         *)
Proceed(p, failed) ==
    LET rest == {c \in Certs : c > p.ocsp.next} \ failed
    IN  IF rest = {}
        THEN LET d == [p EXCEPT !.ocsp = [st |-> "timer", next |-> 1, left |-> 0, got |-> 0],
                                !.hold = FALSE]
             IN  IF p.hold THEN Enable(d) ELSE d
        ELSE [p EXCEPT !.ocsp = [st |-> "query", left |-> 2, got |-> 0,
                                 next |-> CHOOSE c \in rest : \A d \in rest : c <= d]]

\* read_ocsp_chunk()
OcspRead ==
    /\ wp.run /\ wp.ocsp.st = "query" /\ wp.ocsp.left > 0
    /\ wp' = [wp EXCEPT !.ocsp.left = @ - 1, !.ocsp.got = @ + 1]
    /\ UNCHANGED scope

(* handle_ocsp_complete(): the command ended, which may be noticed before all *)
(* of its output was read; a response that does not verify is not used.       *)
OcspExit ==
    LET o == wp.ocsp IN
    /\ wp.run /\ o.st = "query"
    /\ \E fails \in BOOLEAN, failed \in SUBSET Certs :
          wp' = Proceed(IF fails \/ (~scope.noverify /\ o.left > 0) THEN wp
                        ELSE [wp EXCEPT !.stapled[o.next] = o.got], failed)
    /\ UNCHANGED scope

\* ocsp_cb(): the next round
OcspTimer ==
    /\ wp.run /\ wp.ocsp.st = "timer"
    /\ wp' = IF wp.graceful THEN [wp EXCEPT !.ocsp.st = "idle"]
             ELSE Proceed([wp EXCEPT !.ocsp.next = 0], {})
    /\ UNCHANGED scope

Next ==
    \/ Arrive \/ AcceptCb \/ AcceptFails \/ SleepEnds
    \/ IpcShutdown \/ IpcReopenLog \/ Joined \/ SerialEvent
    \/ OcspRead \/ OcspExit \/ OcspTimer
    \/ \E i \in Workers : ProcessEvents(i) \/ ConnectionEnds(i) \/ ApiReplace(i)

Spec == Init /\ [][Next]_vars

(* The loops run, connections end, timers fire, and OCSP commands end.        *)
Fairness ==
    /\ \A i \in Workers : WF_vars(ProcessEvents(i)) /\ WF_vars(ConnectionEnds(i))
    /\ WF_vars(Joined) /\ WF_vars(SleepEnds) /\ WF_vars(OcspExit)

-------------------------------------------------------------------------------
(* Properties.                                                                *)

(* A worker thread whose loop ended left no connection open and none waiting  *)
(* in its queue, and the process ends only after all of them; nothing is      *)
(* accepted once the acceptors are gone; the API thread takes no ordinary     *)
(* connection; a worker holds worker_connections at most.                     *)
DrainsCleanly ==
    /\ \A i \in Workers :
          /\ ~wp.w[i].run => wp.w[i].conns = 0 /\ Queued(i, "NEW") = 0
          /\ wp.w[i].conns <= MaxConns
          /\ Queued(i, "SHUTDOWN") <= 1
    /\ ~wp.run => \A i \in Workers : wp.w[i].conns = 0 /\ (~Single => ~wp.w[i].run)
    /\ ~wp.late
    /\ wp.graceful = (wp.acceptor = "deleted")

(* Accepting is off only while the acceptors sleep or the first OCSP          *)
(* responses are awaited, and something is then on its way to turn it on.     *)
AcceptorsReturn ==
    wp.run /\ wp.acceptor = "off" => wp.sleeping \/ (wp.hold /\ wp.ocsp.st = "query")

(* Every worker goes through the configurations in the order the API sent     *)
(* them, and what is queued for a worker brings it up to the process's own.   *)
ConfigsInOrder ==
    \A i \in Workers :
        LET sent == SelectSeq(wp.w[i].q, LAMBDA ev : ev.type = "REPLACE")
            all  == <<wp.w[i].conf>> \o [k \in DOMAIN sent |-> sent[k].conf]
        IN  (wp.w[i].run /\ (Single => i = 1)) =>
                /\ \A k \in 1 .. Len(all) - 1 : all[k] < all[k + 1]
                /\ Last(all) = wp.conf

\* a stapled OCSP response is a whole one
StapledWhole == \A c \in Certs : wp.stapled[c] \in {0, 2}

WorkersSound == DrainsCleanly /\ AcceptorsReturn /\ ConfigsInOrder /\ StapledWhole

\* a worker process that is told to shut down ends
Pending == wp.graceful /\ wp.run
WorkerEnds == []<>~Pending
===============================================================================
