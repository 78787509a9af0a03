------------------------------- MODULE Processes -------------------------------
(* The processes of nghttpx: a master process, which owns the listening       *)
(* sockets and reacts to signals, the worker processes it forks, the          *)
(* configuration reload that replaces the worker process, and the execution   *)
(* of a new binary that replaces the master.                                  *)
(*                                                                            *)
(* A socket is [addr, id]; file descriptors are numbers, the lowest free one  *)
(* is given out, as the kernel does: a number that was closed comes back.     *)
EXTENDS Integers, Sequences, SequencesExt, FiniteSets, TLC

CONSTANTS
    Addrs,      \* listening addresses a configuration may name
    Fds,        \* descriptor numbers 1 .. n
    Masters,    \* 1 .. n: the first master and the binaries executed after it
    Pids,       \* 1 .. n: worker processes, in the order they are forked
    Scopes      \* what may happen: see Init

VARIABLES
    sys,        \* masters, workers, and the number of sockets made
    scope

vars == <<sys, scope>>

NoMaster == [st |-> "none", fds |-> <<>>, lst |-> <<>>, wps |-> <<>>,
             orig |-> 0, pend |-> {}, told |-> FALSE]
NoWorker == [st |-> "none", of |-> 0, fds |-> <<>>, lst |-> <<>>,
             ipc |-> <<>>, conns |-> 0]

Free(tab) == CHOOSE f \in Fds \ DOMAIN tab : \A g \in Fds \ DOMAIN tab : f <= g

\* descriptors of a table that stay when the numbers in S are closed
Close(tab, S) == [f \in DOMAIN tab \ S |-> tab[f]]

\* the master whose descriptor table and listener map are given makes a socket
Open(p, addr, id) ==
    LET fd == Free(p.fds)
    IN  [p EXCEPT !.fds = @ @@ (fd :> [addr |-> addr, id |-> id]),
                  !.lst = (addr :> fd) @@ @]

(* create_acceptor_socket() for configuration conf, given inherited sockets   *)
(* (address -> descriptor): one that is inherited is used again, the others   *)
(* are made, those in bad cannot be.                                          *)
Acceptors(fds, inherited, conf, bad, n) ==
    LET used == [a \in conf \cap DOMAIN inherited |-> inherited[a]]
        made == SetToSeq((conf \ DOMAIN inherited) \ bad)
        p    == [fds |-> fds, lst |-> used]
    IN  FoldLeft(LAMBDA q, i : Open(q, made[i], n + i), p, [i \in DOMAIN made |-> i])

(* get_inherited_addr_from_config() and get_inherited_addr_from_env(): the    *)
(* address of an inherited descriptor is asked of the kernel, which knows     *)
(* none when it is closed.                                                    *)
Inherited(fds, lst) ==
    LET open == {a \in DOMAIN lst : lst[a] \in DOMAIN fds /\ fds[lst[a]].addr = a}
    IN  [a \in open |-> lst[a]]

\* the descriptor numbers of a listener map
Numbers(lst) == {lst[a] : a \in DOMAIN lst}

Forkable == {p \in Pids : sys.w[p].st = "none"}
NextPid == CHOOSE p \in Forkable : \A q \in Forkable : p <= q

\* fork_worker_process() in the child: what is inherited but unused is closed
Child(i, fds, lst, unused) ==
    [NoWorker EXCEPT !.st = "accept", !.of = i, !.fds = Close(fds, unused), !.lst = lst]

\* ipc_send()
Tell(w, pid, msg) ==
    IF w[pid].st \in {"accept", "drain"} THEN [w EXCEPT ![pid].ipc = Append(@, msg)] ELSE w

(* event_loop() up to ev_run(): the sockets, the worker process, then the     *)
(* signal to the master this one replaces.                                    *)
Start(i, conf, bad) ==
    /\ sys.m[i].st = "start"
    /\ LET inh == Inherited(sys.m[i].fds, sys.m[i].lst)
           p   == Acceptors(sys.m[i].fds, inh, conf, bad, sys.n)
           unused == Numbers(sys.m[i].lst) \ Numbers(p.lst)
           o   == sys.m[i].orig
       IN  IF bad \cap (conf \ DOMAIN inh) # {} \/ Forkable = {}
           THEN sys' = [sys EXCEPT !.m[i] = [NoMaster EXCEPT !.st = "gone"]]
           ELSE sys' = [sys EXCEPT
                  !.n = @ + Cardinality(conf),
                  !.m = [j \in Masters |->
                          CASE j = i -> [@[i] EXCEPT !.st = "run", !.lst = p.lst,
                                           !.fds = Close(p.fds, unused),
                                           !.wps = <<[pid |-> NextPid, sig |-> TRUE]>>]
                            [] j = o /\ @[j].st = "run" -> [@[j] EXCEPT !.pend = @ \cup {"QUIT"}]
                            [] OTHER -> @[j]],
                  !.w[NextPid] = Child(i, Close(p.fds, unused), p.lst, {})]
    /\ UNCHANGED scope

Confs == {c \in SUBSET Addrs : c # {}}

(* A scope bounds what the operator does: how many reloads, whether a new     *)
(* binary is executed, whether worker processes crash, whether sockets and    *)
(* forks may fail, and whether a reload may follow a graceful shutdown.       *)
Init ==
    /\ scope \in Scopes
    /\ sys = [m |-> [i \in Masters |-> IF i = 1 THEN [NoMaster EXCEPT !.st = "start"]
                                       ELSE NoMaster],
              w |-> [p \in Pids |-> NoWorker],
              n |-> 0, hups |-> 0]

-------------------------------------------------------------------------------
(* The master's signal and child callbacks.                                   *)

\* the worker process whose watchers get the signal
Handler(i) == {k \in DOMAIN sys.m[i].wps : sys.m[i].wps[k].sig}

Bads == IF scope.fail THEN SUBSET Addrs ELSE {{}}

\* the watchers of the last worker process stop, those of the new one start
Reloaded(wps, pid) ==
    Append([wps EXCEPT ![Len(wps)].sig = FALSE], [pid |-> pid, sig |-> TRUE])

(* reload_config(): new sockets, a new worker process, and only then the      *)
(* notice to the old one; when a socket or the fork fails, what was opened    *)
(* for the new configuration is closed and the old one stays.                 *)
Reload(i, conf, bad, forks) ==
    LET me  == sys.m[i]
        inh == Inherited(me.fds, me.lst)
        p   == Acceptors(me.fds, inh, conf, bad, sys.n)
        unused == Numbers(me.lst) \ Numbers([a \in conf \cap DOMAIN inh |-> inh[a]])
        ok  == bad \cap (conf \ DOMAIN inh) = {} /\ forks
        last == Last(me.wps).pid
    IN  /\ me.st = "run" /\ Handler(i) # {}
        /\ me.told => scope.late
        /\ sys.hups < scope.hups
        /\ forks => Forkable # {}
        /\ sys' = IF ~ok
                  THEN [sys EXCEPT
                          !.hups = @ + 1,
                          !.m[i].fds = Close(p.fds, Numbers(p.lst) \ Numbers(me.lst))]
                  ELSE [sys EXCEPT
                          !.hups = @ + 1, !.n = @ + Cardinality(conf),
                          !.m[i].fds = Close(p.fds, unused),
                          !.m[i].lst = p.lst,
                          !.m[i].wps = Reloaded(@, NextPid),
                          !.w = Tell([@ EXCEPT ![NextPid] = Child(i, p.fds, p.lst, unused)],
                                     last, "SHUTDOWN")]
        /\ UNCHANGED scope

\* the graceful shutdown signal: the master's sockets close, the worker is told
Quit(i) ==
    LET me == sys.m[i] IN
    /\ me.st = "run"
    /\ "QUIT" \in me.pend \/ (scope.quit /\ ~me.told)
    /\ sys' = IF Handler(i) = {}
              THEN [sys EXCEPT !.m[i] = [NoMaster EXCEPT !.st = "gone"]]
              ELSE [sys EXCEPT
                      !.m[i].pend = @ \ {"QUIT"},
                      !.m[i].told = TRUE,
                      !.m[i].fds = Close(@, Numbers(me.lst)),
                      !.w = FoldLeft(LAMBDA w, k : Tell(w, me.wps[k].pid, "SHUTDOWN"), @,
                                     SetToSeq(Handler(i)))]
    /\ UNCHANGED scope

(* exec_binary(): the child gets the open descriptors and, in its             *)
(* environment, which of them listen where.                                   *)
Exec(i) ==
    LET me == sys.m[i] IN
    /\ scope.exec /\ me.st = "run" /\ Handler(i) # {}
    /\ i + 1 \in Masters /\ sys.m[i + 1].st = "none"
    /\ me.told => scope.late
    /\ sys' = [sys EXCEPT !.m[i + 1] = [NoMaster EXCEPT !.st = "start", !.fds = me.fds,
                                          !.lst = me.lst, !.orig = i]]
    /\ UNCHANGED scope

\* worker_process_child_cb(); the loop ends when no watcher is left
ChildExited(i) ==
    LET me == sys.m[i] IN
    /\ me.st = "run"
    /\ \E k \in DOMAIN me.wps :
          /\ sys.w[me.wps[k].pid].st = "dead"
          /\ sys' = IF Len(me.wps) = 1
                    THEN [sys EXCEPT !.m[i] = [NoMaster EXCEPT !.st = "gone"]]
                    ELSE [sys EXCEPT !.m[i].wps = RemoveAt(@, k)]
    /\ UNCHANGED scope

\* the master is killed: nothing of it runs any more
Killed(i) ==
    /\ scope.crash /\ sys.m[i].st = "run"
    /\ sys' = [sys EXCEPT !.m[i] = [NoMaster EXCEPT !.st = "gone"]]
    /\ UNCHANGED scope

-------------------------------------------------------------------------------
(* The worker processes, as the master sees them.                             *)

Dead(w) == [NoWorker EXCEPT !.st = "dead", !.of = w.of]

\* ipc_readcb(): the graceful shutdown closes the sockets, and ends when idle
IpcRead(p) ==
    LET w == sys.w[p] IN
    /\ w.st \in {"accept", "drain"} /\ w.ipc # <<>>
    /\ sys' = IF w.st = "drain" THEN [sys EXCEPT !.w[p].ipc = Tail(@)]
              ELSE IF w.conns = 0 THEN [sys EXCEPT !.w[p] = Dead(w)]
              ELSE [sys EXCEPT !.w[p] = [w EXCEPT !.st = "drain", !.ipc = Tail(@),
                                           !.fds = Close(@, Numbers(w.lst))]]
    /\ UNCHANGED scope

\* the write end of the pipe is closed everywhere: immediate shutdown
IpcClosed(p) ==
    /\ sys.w[p].st \in {"accept", "drain"} /\ sys.w[p].ipc = <<>>
    /\ sys.m[sys.w[p].of].st = "gone"
    /\ sys' = [sys EXCEPT !.w[p] = Dead(@)]
    /\ UNCHANGED scope

Accept(p) ==
    /\ sys.w[p].st = "accept" /\ sys.w[p].conns = 0
    /\ \E a \in DOMAIN sys.w[p].lst : sys.w[p].lst[a] \in DOMAIN sys.w[p].fds
    /\ sys' = [sys EXCEPT !.w[p].conns = 1]
    /\ UNCHANGED scope

Disconnect(p) ==
    LET w == sys.w[p] IN
    /\ w.conns = 1
    /\ sys' = [sys EXCEPT !.w[p] = IF w.st = "drain" THEN Dead(w) ELSE [w EXCEPT !.conns = 0]]
    /\ UNCHANGED scope

Crash(p) ==
    /\ scope.crash /\ sys.w[p].st \in {"accept", "drain"}
    /\ sys' = [sys EXCEPT !.w[p] = Dead(@)]
    /\ UNCHANGED scope

Next ==
    \/ \E i \in Masters :
          \/ \E conf \in Confs, bad \in Bads :
                \/ Start(i, conf, bad)
                \/ \E forks \in {TRUE} \cup (IF scope.fail THEN {FALSE} ELSE {}) :
                      Reload(i, conf, bad, forks)
          \/ Quit(i) \/ Exec(i) \/ ChildExited(i) \/ Killed(i)
    \/ \E p \in Pids :
          IpcRead(p) \/ IpcClosed(p) \/ Accept(p) \/ Disconnect(p) \/ Crash(p)

Spec == Init /\ [][Next]_vars

QuitDelivered(i) == Quit(i) /\ "QUIT" \in sys.m[i].pend

(* Connections end, the event loops of master and workers run, and a signal   *)
(* that was sent is delivered.                                                *)
Fairness ==
    /\ \A p \in Pids : WF_vars(IpcRead(p) \/ IpcClosed(p)) /\ WF_vars(Disconnect(p))
    /\ \A i \in Masters : WF_vars(ChildExited(i)) /\ WF_vars(QuitDelivered(i))

-------------------------------------------------------------------------------
(* Properties.                                                                *)

Live == {p \in Pids : sys.w[p].st \in {"accept", "drain"}}

\* p accepts connections to a, now or as soon as its event loop runs
Serves(p, a) ==
    /\ sys.w[p].st = "accept" /\ a \in DOMAIN sys.w[p].lst
    /\ sys.w[p].lst[a] \in DOMAIN sys.w[p].fds
    /\ sys.w[p].fds[sys.w[p].lst[a]].addr = a
    /\ \A k \in DOMAIN sys.w[p].ipc : sys.w[p].ipc[k] # "SHUTDOWN"

(* While a master that was not told to stop runs and no process died of       *)
(* itself, every address of its configuration is served by its newest worker  *)
(* process: neither a reload nor a new binary leaves a gap.                   *)
NoGap ==
    \A i \in Masters :
        sys.m[i].st = "run" /\ ~sys.m[i].told /\ ~scope.crash =>
            \A a \in DOMAIN sys.m[i].lst : Serves(Last(sys.m[i].wps).pid, a)

(* One worker process of a master, the newest, gets the signals; every older  *)
(* one was told once to shut down; master and workers hold no listening       *)
(* socket their configuration does not name; no worker process outlives its   *)
(* master unnoticed.                                                          *)
OneInCharge ==
    /\ \A i \in Masters :
          LET me == sys.m[i] IN
          me.st = "run" =>
            /\ Handler(i) \subseteq {Len(me.wps)}
            /\ ~me.told => DOMAIN me.fds = Numbers(me.lst)
            /\ \A k \in 1 .. Len(me.wps) - 1 :
                  LET w == sys.w[me.wps[k].pid] IN
                  w.st = "accept" => "SHUTDOWN" \in ToSet(w.ipc)
    /\ \A p \in Live :
          /\ Len(sys.w[p].ipc) <= 1 + Cardinality(Masters)
          /\ sys.w[p].st = "accept" => DOMAIN sys.w[p].fds = Numbers(sys.w[p].lst)
          /\ sys.m[sys.w[p].of].st = "run" =>
                \E k \in DOMAIN sys.m[sys.w[p].of].wps : sys.m[sys.w[p].of].wps[k].pid = p

ProcessesSound == NoGap /\ OneInCharge

\* a master that was told to stop or replaced ends, and its processes with it
Pending(i) ==
    /\ sys.m[i].told \/ "QUIT" \in sys.m[i].pend \/ sys.m[i].st = "gone"
    /\ sys.m[i].st = "run" \/ \E p \in Live : sys.w[p].of = i

ShutdownEnds == \A i \in Masters : []<>~Pending(i)
===============================================================================
