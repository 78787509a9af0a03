------------------------------- MODULE MCProxy -------------------------------
(* The instances of nghttpx's request path: an HTTP/2 client over HTTP/1    *)
(* backends (relay), a pipelining HTTP/1 client (pipe), HTTP/2 backends     *)
(* (back), and the choice of the backend (balancer).  A behaviour is about  *)
(* one part; x1 is its state and x2 its scope.                              *)
EXTENDS Integers, Sequences

CONSTANT Shuffled   \* std::shuffle exchanges the first two backends

VARIABLES part, x1, x2

vars == <<part, x1, x2>>

Streams == {1, 2, 3}
Only(s, n) == [t \in Streams |-> IF t = s THEN n ELSE 0]

Relayed ==
  [streams |-> {1}, host |-> [s \in Streams |-> 1], limit |-> 1,
   body |-> Only(1, 0), empty |-> {}, sized |-> TRUE, reply |-> [s \in Streams |-> 1],
   until |-> "length", tunnel |-> {}, push |-> <<>>, faults |-> {}]

RelayScopes ==
  { \* one upload under every fault of its connection
    [Relayed EXCEPT !.body = Only(1, 2),
       !.faults = {"partial", "close", "connect", "none", "timeout", "reset", "broken"}],
    \* two requests, one of them an upload, share the pool
    [Relayed EXCEPT !.streams = {1, 2}, !.limit = 2, !.body = Only(1, 1),
       !.faults = {"partial", "close"}],
    \* an upload waits for its turn and meets a pooled connection
    [Relayed EXCEPT !.streams = {1, 2}, !.body = Only(2, 2), !.faults = {"partial", "connect"}],
    \* three requests for one slot
    [Relayed EXCEPT !.streams = {1, 2, 3}, !.reply = Only(1, 0),
       !.faults = {"none", "reset", "refused", "gone"}],
    \* CONNECT
    [Relayed EXCEPT !.tunnel = {1}, !.body = Only(1, 2), !.reply = Only(1, 2),
       !.faults = {"reset", "timeout"}],
    \* a pushed stream, and responses that end with the connection
    [Relayed EXCEPT !.streams = {1, 2}, !.push = [s \in {2} |-> 1], !.limit = 2,
       !.until = "eof", !.faults = {"reset", "timeout"}] }

R == INSTANCE Relay WITH Hosts <- {1}, Conns <- {1, 2}, MaxRetry <- 2, RespBuf <- 1,
       Scopes <- RelayScopes, relay <- x1, scope <- x2

P == INSTANCE Pipeline WITH Bodies <- <<2, 0, 1>>, Tunnels <- {2}, ReadBuf <- 2, ReqBuf <- 2,
       http <- x1

Backend ==
  [body |-> <<0, 0>>, ext |-> {}, push |-> <<>>, max |-> {2}, allow |-> TRUE,
   proxy |-> FALSE, dns |-> FALSE, window |-> 1, late |-> TRUE, faults |-> {}]

BackendScopes ==
  { [Backend EXCEPT !.body = <<1, 0>>, !.faults = {"idle", "connect", "reset"}],
    [Backend EXCEPT !.max = {1, 2}, !.faults = {"goaway", "rst"}],
    [Backend EXCEPT !.max = {1}, !.faults = {"gone"}],
    [Backend EXCEPT !.body = <<1>>, !.faults = {"settings", "gone", "rst"}],
    [Backend EXCEPT !.body = <<1>>, !.dns = TRUE, !.faults = {"100", "bad", "timeout", "gone"}],
    [Backend EXCEPT !.body = <<1>>, !.ext = {1}, !.proxy = TRUE,
       !.faults = {"connect", "reset", "timeout", "idle"}],
    [Backend EXCEPT !.ext = {1}, !.allow = FALSE, !.faults = {"idle"}],
    [Backend EXCEPT !.body = <<0>>, !.push = [p \in {2} |-> 1],
       !.faults = {"rst", "reset", "gone", "goaway"}],
    [Backend EXCEPT !.faults = {"retire"}] }

B == INSTANCE BackendSession WITH Requests <- {1, 2}, Sessions <- {1, 2}, MaxRetry <- 2,
       Limit <- 2, Scopes <- BackendScopes, bs <- x1, scope <- x2

\* The address the blocker at each position was made for
Home(n) == SubSeq(IF Shuffled THEN <<2, 1, 3>> ELSE <<1, 2, 3>>, 1, n)

Group ==
  [group |-> <<1, 1>>, weight |-> <<1, 1>>, gweight |-> <<1, 1>>, home |-> Home(2),
   fall |-> 0, rise |-> 0, ring |-> <<>>, hashes |-> {},
   dns |-> FALSE, tls |-> FALSE, http2 |-> FALSE]

Balancer == INSTANCE Balancer WITH
    MaxWeight <- 2, Modulus <- 6, MaxConns <- 1, bal <- x1, scope <- x2,
    Scopes <-
      {[Group EXCEPT !.weight = <<1, 2>>],
       \* two weight groups
       [Group EXCEPT !.group = <<1, 1, 2>>, !.weight = <<1, 1, 1>>, !.gweight = <<1, 2>>,
                     !.home = Home(3)],
       \* live checks
       [Group EXCEPT !.group = <<1>>, !.weight = <<1>>, !.home = <<1>>, !.fall = 2, !.rise = 2,
                     !.dns = TRUE, !.tls = TRUE, !.http2 = TRUE],
       [Group EXCEPT !.fall = 1, !.rise = 1],
       \* session affinity
       [Group EXCEPT !.fall = 1, !.ring = <<2, 1, 1>>, !.hashes = {1, 2}]}

Init ==
  \/ part = "relay" /\ R!Init
  \/ part = "pipe" /\ P!Init /\ x2 = 0
  \/ part = "back" /\ B!Init
  \/ part = "balancer" /\ Balancer!Init

Next ==
  /\ UNCHANGED part
  /\ \/ part = "relay" /\ R!Next
     \/ part = "pipe" /\ P!Next /\ UNCHANGED x2
     \/ part = "back" /\ B!Next
     \/ part = "balancer" /\ Balancer!Next

Spec == Init /\ [][Next]_vars

\* Relay!QueueExact: DownstreamQueue agrees with the Downstream objects.
QueueExact == part = "relay" => R!QueueExact
\* Relay!ExchangesIsolated: exchanges that share backend connections never mix.
ExchangesIsolated == part = "relay" => R!ExchangesIsolated
\* Pipeline!AnswersInOrder and Pipeline!InputNeverStuck: pipelined requests are
\* answered in order, and buffered input is read on.
PipelineSound == part = "pipe" => P!AnswersInOrder /\ P!InputNeverStuck
\* BackendSession!LinksExact and BackendSession!NothingLost: requests, streams
\* and sessions name each other, and no wake-up and no window byte is lost.
BackendInStep == part = "back" => B!LinksExact /\ B!NothingLost
\* Balancer!BackendReturns: an address that is not blocked is in the heap, so
\* that a failed connect takes it out only for the time of the backoff.
BackendReturns == part = "balancer" => Balancer!BackendReturns
\* Backend addresses that work are offered in turn: a blocked address comes
\* back, cycles are ordered by weight, a request is served while some address
\* is not blocked, and an address that is offline is being checked.
BackendsBalanced ==
  part = "balancer" =>
    Balancer!BackendReturns /\ Balancer!CyclesOrdered /\ Balancer!RequestsServed
    /\ Balancer!OfflineChecked
=============================================================================
