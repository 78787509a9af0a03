------------------------------ MODULE Balancer ------------------------------
(***************************************************************************)
(* How an nghttpx worker chooses a backend address: the two-level weighted *)
(* round robin and the affinity ring of ClientHandler, the ConnectBlocker  *)
(* that takes an address out after a failed connect, and the LiveCheck     *)
(* that brings an offline address back.                                    *)
(*                                                                         *)
(* An address is its position in SharedDownstreamAddr::addrs.  The heaps   *)
(* are the sets of `queued' elements under DownstreamAddrEntryGreater.     *)
(* replace_downstream_config builds blocker and live check with a pointer  *)
(* to their address and then shuffles the array: scope.home[p] is the      *)
(* position the blocker and the live check that are now at p point to.     *)
(***************************************************************************)
EXTENDS Integers, Sequences, FiniteSets, FiniteSetsExt

CONSTANTS MaxWeight,  \* MAX_DOWNSTREAM_ADDR_WEIGHT, 256 in the code
          Modulus,    \* of the cycles, 2^32 in the code
          MaxConns,   \* addresses with a connect under way
          Scopes

VARIABLES bal, scope

lvars == <<bal, scope>>

Addrs == DOMAIN scope.group
Groups == {scope.group[p] : p \in Addrs}
Affinity == scope.ring # <<>>

Init ==
  /\ scope \in Scopes
  /\ bal = [a |-> [p \in Addrs |-> [blk |-> "no", fails |-> 0, queued |-> ~Affinity,
                                    cycle |-> 0, pend |-> 0, conns |-> 0, wait |-> 0]],
            g |-> [h \in Groups |-> [queued |-> ~Affinity, cycle |-> 0, pend |-> 0]],
            lc |-> [p \in Addrs |-> [st |-> "idle", succ |-> 0]],
            err |-> FALSE]

Blocked(x, p) == x.a[p].blk # "no"

-----------------------------------------------------------------------------
(* The heaps *)

\* DownstreamAddrEntryGreater, WeightGroupEntryGreater; the key is its seq
Greater(f, l, r) ==
  LET d == (f[l].cycle - f[r].cycle) % Modulus
  IN IF d = 0 THEN r < l ELSE d <= MaxWeight

Top(f, S) == CHOOSE p \in S : \A q \in S \ {p} : Greater(f, q, p)

Queue(x, h) == {p \in Addrs : scope.group[p] = h /\ x.a[p].queued}
WgQueue(x) == {h \in Groups : x.g[h].queued}

TopCycle(f, S) == IF S = {} THEN 0 ELSE f[Top(f, S)].cycle

\* the group is expected to be in its heap already
EnsureEnqueue_AddrOnly(x, p) ==
  [x EXCEPT !.a[p].cycle = TopCycle(x.a, Queue(x, scope.group[p])), !.a[p].pend = 0,
            !.a[p].queued = TRUE]

\* ensure_enqueue_addr
EnsureEnqueue(x, p) ==
  LET h == scope.group[p]
      y == [x EXCEPT !.a[p].cycle = TopCycle(x.a, Queue(x, h)), !.a[p].pend = 0,
                     !.a[p].queued = TRUE]
  IN IF x.g[h].queued THEN y
     ELSE [y EXCEPT !.g[h] = [queued |-> TRUE, pend |-> 0, cycle |-> TopCycle(x.g, WgQueue(x))]]

\* reschedule_addr, reschedule_wg
Reschedule(e, weight) ==
  LET penalty == MaxWeight + e.pend
  IN [e EXCEPT !.cycle = (@ + penalty \div weight) % Modulus, !.pend = penalty % weight,
               !.queued = TRUE]

-----------------------------------------------------------------------------
(* get_downstream_addr yields <<state, address>>, 0 for none *)

RECURSIVE PickAddr(_, _)
PickAddr(x, h) ==
  IF Queue(x, h) = {} THEN <<x, 0>>
  ELSE LET p == Top(x.a, Queue(x, h))
           y == [x EXCEPT !.a[p].queued = FALSE]
       IN IF Blocked(x, p) THEN PickAddr(y, h)
          ELSE <<[y EXCEPT !.a[p] = Reschedule(@, scope.weight[p]),
                           !.g[h] = Reschedule(@, scope.gweight[h])], p>>

RECURSIVE PickWeighted(_)
PickWeighted(x) ==
  IF WgQueue(x) = {} THEN <<x, 0>>
  ELSE LET h == Top(x.g, WgQueue(x))
           r == PickAddr([x EXCEPT !.g[h].queued = FALSE], h)
       IN IF r[2] # 0 THEN r ELSE PickWeighted(r[1])

\* The walk along the ring from entry i, which began after entry k.  The
\* loop compares i with k after its increment, so that k = 0 is never met:
\* the walk does not end when every address is blocked (-1).
RECURSIVE Walk(_, _, _)
Walk(x, i, k) ==
  LET n == Len(scope.ring)
      j == IF i = n THEN 0 ELSE i
      p == scope.ring[j + 1]
  IN CASE i = k -> 0
       [] i # k /\ ~Blocked(x, p) -> p
       [] i # k /\ Blocked(x, p) /\ i = n /\ k = 0 -> -1
       [] OTHER -> Walk(x, j + 1, k)

PickAffinity(x, k) ==
  LET p == scope.ring[k + 1] IN <<x, IF Blocked(x, p) THEN Walk(x, k + 1, k) ELSE p>>

\* one request; `wait' counts the requests an address has been passed over
Take(r) ==
  LET x == r[1]
      free(p) == x.a[p].queued /\ ~Blocked(x, p)
  IN IF r[2] > 0
       THEN [x EXCEPT !.a = [p \in Addrs |->
               [@[p] EXCEPT !.wait = IF free(p) /\ p # r[2] THEN @ + 1 ELSE 0,
                            !.conns = IF p = r[2] THEN @ + 1 ELSE @]]]
       ELSE [x EXCEPT !.err = r[2] = -1 \/ \E p \in Addrs : ~Blocked(x, p)]

Conns == {p \in Addrs : bal.a[p].conns > 0}
Idle == Cardinality(Conns) < MaxConns

GetDownstreamAddr ==
  /\ Idle /\ ~Affinity
  /\ bal' = Take(PickWeighted(bal))

GetAffinityAddr(k) ==
  /\ Idle /\ Affinity
  /\ bal' = Take(PickAffinity(bal, k))

-----------------------------------------------------------------------------
(* ConnectBlocker *)

\* the unblock function of the blocker at p
Unblock(x, p) ==
  LET q == scope.home[p]
  IN IF x.a[q].queued \/ Affinity THEN x ELSE EnsureEnqueue(x, q)

OnSuccess(x, p) == IF Blocked(x, p) THEN x ELSE [x EXCEPT !.a[p].fails = 0]

OnFailure(x, p) ==
  IF Blocked(x, p) THEN x
  ELSE [x EXCEPT !.a[p].fails = @ + 1, !.a[p].blk = "backoff", !.a[p].wait = 0]

Offline(x, p) == [x EXCEPT !.a[p].blk = "offline"]

Online(x, p) == Unblock([x EXCEPT !.a[p].blk = "no", !.a[p].fails = 0], p)

ScheduleCheck(x, p) == [x EXCEPT !.lc[p].st = "timer"]

\* downstream_failure
DownstreamFailure(x, p) ==
  LET y == OnFailure(x, p)
      z == Offline(y, p)
  IN CASE x.a[p].blk = "offline" -> x
       [] x.a[p].blk # "offline" /\ (scope.fall = 0 \/ y.a[p].fails < scope.fall) ->
            [y EXCEPT !.a[p].fails = IF scope.fall = 0 THEN 0 ELSE @]
       [] OTHER -> IF scope.rise > 0 THEN ScheduleCheck(z, p) ELSE z

\* the connect of a request comes to its end
ConnectMade(p) ==
  /\ p \in Conns
  /\ bal' = [OnSuccess(bal, p) EXCEPT !.a[p].conns = @ - 1]

ConnectFailed(p) ==
  /\ p \in Conns
  /\ bal' = [DownstreamFailure(bal, p) EXCEPT !.a[p].conns = @ - 1]

\* connect_blocker_cb; offline() sets the timer to the end of time
BackoffEnds(p) ==
  /\ bal.a[p].blk = "backoff"
  /\ bal' = Unblock([bal EXCEPT !.a[p].blk = "no"], p)

-----------------------------------------------------------------------------
(* LiveCheck *)

CheckFailed(x, p) == ScheduleCheck(x, p)

CheckPassed(x, p) ==
  LET q == scope.home[p]
      n == x.lc[p].succ + 1
  IN IF n < scope.rise THEN ScheduleCheck([x EXCEPT !.lc[p].succ = n], p)
     ELSE [Online(x, q) EXCEPT !.lc[p] = [st |-> "idle", succ |-> 0]]

\* backoff_timeoutcb: the worker's blocker, the name lookup, socket() or
\* connect() may fail at once
CheckStarts(p) ==
  /\ bal.lc[p].st = "timer"
  /\ \E st \in (IF scope.dns THEN {"dns"} ELSE {}) \cup {"connect"} :
       bal' = [bal EXCEPT !.lc[p].st = st]

\* the callback of the DNS query
CheckResolved(p) ==
  /\ bal.lc[p].st = "dns"
  /\ bal' = [bal EXCEPT !.lc[p].st = "connect"]

\* connection_made, for HTTP/2
AwaitSettings(x, p) == [x EXCEPT !.lc[p].st = "settings"]

CheckConnected(p) ==
  /\ bal.lc[p].st = "connect"
  /\ bal' = CASE scope.tls -> [bal EXCEPT !.lc[p].st = "tls"]
              [] ~scope.tls /\ scope.http2 -> AwaitSettings(bal, p)
              [] OTHER -> CheckPassed(bal, p)

CheckHandshake(p) ==
  /\ bal.lc[p].st = "tls"
  /\ bal' = IF scope.http2 THEN AwaitSettings(bal, p) ELSE CheckPassed(bal, p)

\* on_read: GOAWAY is submitted
CheckSettingsAck(p) ==
  /\ bal.lc[p].st = "settings"
  /\ bal' = [bal EXCEPT !.lc[p].st = "closing"]

\* write_clear, write_tls
CheckWritten(p) ==
  /\ bal.lc[p].st = "closing"
  /\ bal' = CheckPassed(bal, p)

\* any error, EOF or timer on the way
CheckFails(p) ==
  /\ bal.lc[p].st # "idle"
  /\ bal' = CheckFailed(bal, p)

Check(p) ==
  \/ CheckStarts(p) \/ CheckResolved(p) \/ CheckConnected(p)
  \/ CheckHandshake(p) \/ CheckSettingsAck(p) \/ CheckWritten(p)

Next ==
  /\ UNCHANGED scope
  /\ \/ GetDownstreamAddr
     \/ \E k \in scope.hashes : GetAffinityAddr(k)
     \/ \E p \in Addrs : ConnectMade(p) \/ ConnectFailed(p) \/ BackoffEnds(p)
                           \/ Check(p) \/ CheckFails(p)

Spec == Init /\ [][Next]_lvars

-----------------------------------------------------------------------------
(* Properties *)

\* A backend that is not blocked is a candidate, and so is its group: a
\* failed connect takes an address out only "temporarily" (shrpx.cc:2113),
\* whatever requests come while it is out.
BackendReturns ==
  ~Affinity => \A p \in Addrs : ~Blocked(bal, p) =>
                 bal.a[p].queued /\ bal.g[scope.group[p]].queued

\* The cycles of two queued entries are within MAX_DOWNSTREAM_ADDR_WEIGHT of
\* each other modulo 2^32, so that the heaps' comparison is an order.
Within(f, S) == \A p, q \in S : p # q => (Greater(f, p, q) <=> ~Greater(f, q, p))
CyclesOrdered ==
  /\ Within(bal.g, WgQueue(bal))
  /\ \A h \in Groups : Within(bal.a, Queue(bal, h))

\* Between two turns of an entry of a heap each other entry has at most its
\* share by weight, and one turn for the remainder and one for a return.
Between(w, p, S) == MapThenSumSet(LAMBDA q : w[q] \div w[p] + 2, S \ {p})
Turns(p) ==
  LET h == scope.group[p]
      mates == {q \in Addrs : scope.group[q] = h}
  IN (Between(scope.weight, p, mates) + 1) * (Between(scope.gweight, h, Groups) + 1)

\* A request fails for want of a backend only when every backend is blocked,
\* and an available backend is passed over a bounded number of times.
RequestsServed ==
  /\ ~bal.err
  /\ ~Affinity => \A p \in Addrs : bal.a[p].wait < Turns(p)

\* An offline backend is being checked, or stays offline for good by
\* configuration; only an offline backend is checked.
OfflineChecked ==
  \A p \in Addrs : (bal.lc[scope.home[p]].st # "idle") <=> (bal.a[p].blk = "offline" /\ scope.rise > 0)
=============================================================================
