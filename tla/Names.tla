------------------------------- MODULE Names -------------------------------
(***************************************************************************)
(* Dynamic name lookup in nghttpx: DNSTracker, with one cache entry per    *)
(* host that many queries wait on, over DualDNSResolver, which asks for an *)
(* IPv4 and an IPv6 address at once, over DNSResolver and c-ares.          *)
(*                                                                         *)
(*   dns.ent[h]   ents_: "none" when there is no entry                     *)
(*   dns.q[r]     the DNSQuery of r, held by a backend connection          *)
(*                                                                         *)
(* An address is the family it was found for; `fresh' is expiry >= now.    *)
(***************************************************************************)
EXTENDS Integers, Sequences, FiniteSets, SequencesExt

CONSTANTS Hosts, Queries, Scopes

VARIABLES dns, scope

dvars == <<dns, scope>>

NoEntry == [st |-> "none", res |-> "none", fresh |-> FALSE, qlist |-> <<>>,
            v4 |-> "IDLE", v6 |-> "IDLE"]
NoQuery == [st |-> "idle", in |-> FALSE, res |-> "none"]

Init ==
  /\ scope \in Scopes
  /\ dns = [ent |-> [h \in Hosts |-> NoEntry], q |-> [r \in Queries |-> NoQuery],
            gc |-> FALSE]

Host(r) == scope.host[r]

-----------------------------------------------------------------------------
(* DNSResolver and DualDNSResolver *)

\* DNSResolver::resolve: c-ares cannot start, answers at once (a numeric
\* host, /etc/hosts), or has asked a server
Started == {"ERROR", "OK", "RUNNING"}

\* DualDNSResolver::get_status
Status(v4, v6) ==
  CASE v6 = "OK" \/ v4 = "OK" -> "OK"
    [] v6 # "OK" /\ v4 # "OK" /\ "RUNNING" \in {v4, v6} -> "RUNNING"
    [] OTHER -> "ERROR"
Address(v4, v6) == CASE v6 = "OK" -> "v6" [] v6 # "OK" /\ v4 = "OK" -> "v4" [] OTHER -> "none"

-----------------------------------------------------------------------------
(* DNSTracker *)

\* what resolve returns, or the callback gets
Tell(x, r, st, res) ==
  [x EXCEPT !.q[r] = [@ EXCEPT !.st = st, !.in = FALSE,
                               !.res = IF st = "OK" THEN res ELSE @]]

Wait(x, r) ==
  [x EXCEPT !.q[r].st = "RUNNING", !.q[r].in = TRUE,
            !.ent[Host(r)].qlist = Append(@, r)]

\* make_entry and update_entry, which leave the expiry of a running lookup
\* alone; a new lookup whose families start as v4 and v6
Lookup(x, r, v4, v6) ==
  LET h == Host(r)
      st == Status(v4, v6)
      y == [x EXCEPT !.gc = TRUE,
              !.ent[h] = [@ EXCEPT !.st = st, !.fresh = st # "RUNNING",
                                   !.res = IF st = "OK" THEN Address(v4, v6) ELSE @,
                                   !.v4 = IF st = "RUNNING" THEN v4 ELSE "IDLE",
                                   !.v6 = IF st = "RUNNING" THEN v6 ELSE "IDLE"]]
  IN IF st = "RUNNING" THEN Wait(y, r) ELSE Tell(y, r, st, Address(v4, v6))

\* DNSTracker::resolve
ResolveHost(x, r, v4, v6) ==
  LET e == x.ent[Host(r)]
  IN CASE e.st = "none" \/ (e.st # "RUNNING" /\ ~e.fresh) -> Lookup(x, r, v4, v6)
       [] e.st = "RUNNING" -> Wait(x, r)
       [] OTHER -> Tell(x, r, e.st, e.res)


\* the callback set by add_to_qlist: the entry is still RUNNING while the
\* queries are told, so that a query made by one of them joins the list
RECURSIVE Notify(_, _, _, _, _)
Notify(x, h, st, res, again) ==
  IF x.ent[h].qlist = <<>> THEN x
  ELSE LET r == Head(x.ent[h].qlist)
           y == Tell([x EXCEPT !.ent[h].qlist = Tail(@)], r, st, res)
       IN IF again # 0 THEN Notify(Wait(y, again), h, st, res, 0)
          ELSE Notify(y, h, st, res, 0)

Complete(x, h, st, res, again) ==
  [Notify(x, h, st, res, again) EXCEPT
     !.ent[h] = [@ EXCEPT !.st = st, !.fresh = TRUE, !.v4 = "IDLE", !.v6 = "IDLE",
                          !.res = IF st = "OK" THEN res ELSE @]]

-----------------------------------------------------------------------------
(* Actions *)

Resolve(r, v4, v6) ==
  /\ dns.q[r].st = "idle"
  /\ dns' = ResolveHost(dns, r, v4, v6)

\* host_cb of one family, through on_result, process_result and the
\* callback of DualDNSResolver; c-ares gives up by itself.  `again' is a
\* query one of the callbacks makes for the same host.
Answer(h, six, ok, again) ==
  LET e == dns.ent[h]
      v == IF ok THEN "OK" ELSE "ERROR"
      v4 == IF six THEN e.v4 ELSE v
      v6 == IF six THEN v ELSE e.v6
      st == Status(v4, v6)
  IN /\ (IF six THEN e.v6 ELSE e.v4) = "RUNNING"
     /\ again # 0 => dns.q[again].st = "idle" /\ Host(again) = h /\ st # "RUNNING"
     /\ dns' = IF st = "RUNNING" THEN [dns EXCEPT !.ent[h].v4 = v4, !.ent[h].v6 = v6]
               ELSE Complete(dns, h, st, Address(v4, v6), again)

\* the connection that made the query goes away, or has used the answer
Cancel(r) ==
  LET h == Host(r)
  IN /\ dns.q[r].st # "idle"
     /\ dns' = [dns EXCEPT !.q[r] = NoQuery,
                           !.ent[h].qlist = IF dns.q[r].in /\ dns.ent[h].st # "none"
                                              THEN SelectSeq(@, LAMBDA s : s # r) ELSE @]

\* the time of a result is over
Expire(h) ==
  /\ dns.ent[h].st # "none" /\ dns.ent[h].fresh
  /\ dns' = [dns EXCEPT !.ent[h].fresh = FALSE]

\* gc, every 12 hours; scope.busy: also while a lookup is running
Gc ==
  LET old == {h \in Hosts : dns.ent[h].st # "none" /\ ~dns.ent[h].fresh}
      ent == [h \in Hosts |-> IF h \in old THEN NoEntry ELSE dns.ent[h]]
  IN /\ dns.gc /\ (scope.busy \/ \A h \in old : dns.ent[h].st # "RUNNING")
     /\ dns' = [dns EXCEPT !.ent = ent,
                           !.gc = \E h \in Hosts : ent[h].st # "none"]

Next ==
  /\ UNCHANGED scope
  /\ \/ \E r \in Queries, v4 \in Started, v6 \in Started : Resolve(r, v4, v6)
     \/ \E h \in Hosts, six \in BOOLEAN, ok \in BOOLEAN, again \in Queries \cup {0} :
          Answer(h, six, ok, again)
     \/ \E r \in Queries : Cancel(r)
     \/ \E h \in Hosts : Expire(h)
     \/ Gc

Spec == Init /\ [][Next]_dvars

\* c-ares answers every lookup, if only with a timeout after its last try
Answered(h) == dns.ent[h].st # "RUNNING"

Fairness == \A h \in Hosts : []<>Answered(h)

-----------------------------------------------------------------------------
(* Properties *)

\* A query whose lookup "is being done background" (shrpx_dns_tracker.h) will
\* be notified: it is on the list of its host's entry, whose resolver runs.
QueriesTracked ==
  \A r \in Queries : dns.q[r].in =>
    /\ dns.ent[Host(r)].st = "RUNNING"
    /\ Cardinality({i \in DOMAIN dns.ent[Host(r)].qlist : dns.ent[Host(r)].qlist[i] = r}) = 1

\* Only live queries are on a list, a resolver exists exactly while the entry
\* is RUNNING, and an address handed out is one that was found.
EntriesSound ==
  /\ \A h \in Hosts : LET e == dns.ent[h] IN
       /\ \A i \in DOMAIN e.qlist : dns.q[e.qlist[i]].in
       /\ (e.st = "RUNNING") <=> ("RUNNING" \in {e.v4, e.v6})
       /\ e.st = "OK" => e.res # "none"
       /\ e.st \in {"none", "OK", "ERROR"} => e.qlist = <<>>
       /\ e.st # "none" => dns.gc
  /\ \A r \in Queries : dns.q[r].st = "OK" => dns.q[r].res # "none"

\* A query that waits is answered, unless it is cancelled first.
Pending(r) == dns.q[r].in
LookupsEnd == \A r \in Queries : []<>~Pending(r)
=============================================================================
