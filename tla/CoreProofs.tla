----------------------------- MODULE CoreProofs -----------------------------
(***************************************************************************)
(* The invariant of Session: which stream IDs are spent, in which order    *)
(* requests and promises wait, how many ACKs are queued, and who owns each *)
(* DATA item.  What kinds of steps keep it.                                *)
(***************************************************************************)
EXTENDS SessionOpsProofs

\* The ID has been used for a stream.
Spent(s, id) == s.streams[id].state \notin {"NONE", "IDLE"} \/ id \in s.done

\* The ID has been handed out by us or seen from the peer.
Known(s, id) == IF IsMine(s, id) THEN id < s.next_stream_id
                                 ELSE id <= s.last_recv_stream_id

\* Spent IDs are known, and a stream that was reported closed stays gone.
Numbered(s) ==
  /\ \A id \in StreamId : Spent(s, id) => Known(s, id)
  /\ \A id \in StreamId : id \in s.done => ~Live(s, id)
  /\ s.last_sent_stream_id < s.next_stream_id
  /\ s.last_sent_stream_id # 0 => IsMine(s, s.last_sent_stream_id)
  /\ IsMine(s, s.next_stream_id)

\* The requests of a client wait in ob_syn in the order of their IDs, none of
\* which has been used; only the pushed responses of a server, and HEADERS for a
\* stream of the peer, wait with them.
SynItem(s, it) ==
  /\ it.type = "HEADERS" /\ it.aux # "ACK"
  /\ IsRequest(it) => /\ ~s.server /\ IsMine(s, it.id) /\ ~Spent(s, it.id)
                      /\ s.last_sent_stream_id < it.id /\ it.id < s.next_stream_id
  /\ ~IsRequest(it) => s.server \/ ~IsMine(s, it.id)

Requests(s) ==
  /\ \A i \in 1..Len(s.ob_syn) : SynItem(s, s.ob_syn[i])
  /\ \A i, j \in 1..Len(s.ob_syn) :
       i < j /\ IsRequest(s.ob_syn[i]) /\ IsRequest(s.ob_syn[j])
         => s.ob_syn[i].id < s.ob_syn[j].id

\* The promises of a server wait in ob_reg in the order of the promised IDs.
RegItem(s, it) ==
  /\ ~IsRequest(it) /\ it.aux # "ACK" /\ it.type # "DATA"
  /\ it.type = "PUSH_PROMISE" =>
       /\ s.server /\ IsMine(s, it.arg)
       /\ s.last_sent_stream_id < it.arg /\ it.arg < s.next_stream_id

Promises(s) ==
  /\ \A i \in 1..Len(s.ob_reg) : RegItem(s, s.ob_reg[i])
  /\ \A i, j \in 1..Len(s.ob_reg) :
       i < j /\ s.ob_reg[i].type = "PUSH_PROMISE" /\ s.ob_reg[j].type = "PUSH_PROMISE"
         => s.ob_reg[i].arg < s.ob_reg[j].arg

\* The ACKs in a queue.
AcksIn(q) == {i \in 1..Len(q) : q[i].aux = "ACK"}

Acks(s) ==
  /\ \A i \in 1..Len(s.ob_urgent) : s.ob_urgent[i].type \in {"SETTINGS", "PING"}
  /\ s.obq_flood_counter = Cardinality(AcksIn(s.ob_urgent))
  /\ s.obq_flood_counter <= MaxFlood

\* Only open streams have a DATA item, and only a DATA item is deferred.
Attached(s) ==
  \A id \in StreamId : /\ s.streams[id].item = 0 => s.streams[id].defer = "NO"
                       /\ ~Live(s, id) => s.streams[id].item = 0

\* The lists hold idle and closed streams; only the server promises streams.
Lists(s) ==
  /\ \A i \in 1..Len(s.idleq) : s.streams[s.idleq[i]].state = "IDLE"
  /\ \A i, j \in 1..Len(s.idleq) : s.idleq[i] = s.idleq[j] => i = j
  /\ \A i \in 1..Len(s.closedq) : /\ s.closedq[i] \in s.done /\ ~IsMine(s, s.closedq[i])
                                  /\ s.streams[s.closedq[i]].state # "IDLE"
  /\ \A id \in StreamId : s.streams[id].state = "RESERVED" => IsMine(s, id) = s.server

\* The DATA item of the active outbound item.
Active(s, id, a) ==
  s.aob.item.type = "DATA" /\ s.aob.item.id = id /\ s.aob.item.addr = a

\* The DATA items that are allocated are those of the streams and the active
\* one.  While that one's stream is open it is also the stream's item, until it
\* is gone: its last frame has been sent.
Held(s, gone) ==
  /\ \A id \in StreamId, a \in 1..2 :
       (<<id, a>> \in s.heap) <=> (s.streams[id].item = a \/ Active(s, id, a))
  /\ s.aob.item.type = "DATA" =>
       LET id == s.aob.item.id
       IN /\ id \in StreamId /\ Known(s, id) /\ s.aob.item.addr \in 1..2
          /\ Live(s, id) => ((s.streams[id].item # s.aob.item.addr) <=> gone)

\* What the IDs and the queues satisfy.
Ledger(s) == Numbered(s) /\ Requests(s) /\ Promises(s) /\ Acks(s)

\* The invariant while aob is b, before or after the active DATA item is gone.
Core(s, gone, b) == /\ s \in SessionType /\ s.asserts /\ s.aob = b
                    /\ Ledger(s) /\ Lists(s) /\ Attached(s) /\ Held(s, gone)

-----------------------------------------------------------------------------
(* Steps that leave the queues alone *)

SameQueues(s, t) ==
  /\ t.server = s.server /\ t.asserts = s.asserts
  /\ t.last_sent_stream_id = s.last_sent_stream_id
  /\ t.ob_syn = s.ob_syn /\ t.ob_reg = s.ob_reg /\ t.ob_urgent = s.ob_urgent
  /\ t.obq_flood_counter = s.obq_flood_counter /\ t.aob = s.aob

\* The next ID of our own grows and stays one of our own.
Onward(s, t) == /\ s.next_stream_id <= t.next_stream_id
                /\ IsMine(s, s.next_stream_id) => IsMine(t, t.next_stream_id)

\* From s to t only the streams X are opened.
Tame(s, t, X) ==
  /\ SameQueues(s, t)
  /\ Onward(s, t)
  /\ s.last_recv_stream_id <= t.last_recv_stream_id
  /\ \A id \in StreamId : id \in t.done => id \in s.done \/ ~Live(t, id)
  /\ \A id \in StreamId \ X : (Live(t, id) => Live(s, id)) /\ (Spent(t, id) => Spent(s, id))

\* The stream x may be opened on the way from s to t.
Opening(s, t, x) ==
  /\ x \in StreamId /\ ~Spent(s, x) /\ Known(t, x)
  /\ \A i \in 1..Len(s.ob_syn) : IsRequest(s.ob_syn[i]) => s.ob_syn[i].id # x
  /\ s.aob.item.type = "DATA" => s.aob.item.id # x

\* The stream is open and may be found by its ID.
Open(x) == x.state \notin {"NONE", "IDLE"} /\ ~x.closed

\* The stream keeps its DATA item.
SameItem(a, b) == b.item = a.item /\ (a.item = 0 /\ a.defer = "NO" => b.defer = "NO")

\* The stream keeps its DATA item and is as open as before.
SameSlot(a, b) ==
  /\ SameItem(a, b) /\ Open(b) = Open(a)
  /\ b.state \notin {"NONE", "IDLE"} => a.state \notin {"NONE", "IDLE"}

\* From s to t the streams X are opened and the others keep their places.
Calm(s, t, X) ==
  /\ SameQueues(s, t) /\ t.done = s.done /\ t.heap = s.heap
  /\ Onward(s, t)
  /\ s.last_recv_stream_id <= t.last_recv_stream_id
  /\ \A id \in StreamId : IF id \in X THEN SameItem(s.streams[id], t.streams[id])
                                      ELSE SameSlot(s.streams[id], t.streams[id])

\* The stream IDs that a session keeps are numbers.
LEMMA IdNumbers ==
  ASSUME NEW s \in SessionType
  PROVE  /\ s.next_stream_id \in Nat /\ s.next_stream_id \in Int
         /\ s.last_sent_stream_id \in Nat /\ s.last_sent_stream_id \in Int
         /\ s.last_recv_stream_id \in Nat /\ s.last_recv_stream_id \in Int
  BY FieldTypes, SessionAssumption DEF NextId, LastId

\* A step that leaves the role and the next ID alone goes onward.
LEMMA OnwardStays ==
  ASSUME NEW s \in SessionType
  PROVE  /\ \A v : v.server = s.server /\ v.next_stream_id = s.next_stream_id => Onward(s, v)
         /\ s.last_recv_stream_id <= s.last_recv_stream_id
  <1>1. /\ s.next_stream_id <= s.next_stream_id
        /\ s.last_recv_stream_id <= s.last_recv_stream_id
    BY IdNumbers
  <1> QED BY <1>1, Zenon DEF Onward, IsMine

\* What is read of the items of a queue.
LEMMA QueueItems ==
  ASSUME NEW q \in Queue
  PROVE  /\ Len(q) \in Nat
         /\ \A i \in 1..Len(q) : /\ q[i] \in Item /\ q[i].id \in Int /\ q[i].arg \in Int
                                 /\ q[i].type = "HEADERS" => q[i].id \in StreamId
  <1>1. Len(q) \in Nat /\ \A i \in 1..Len(q) : q[i] \in Item
    BY DEF Queue
  <1>2. \A it \in Item : /\ it.id \in Int /\ it.arg \in Int
                         /\ it.type = "HEADERS" => it.id \in StreamId
    BY SessionAssumption DEF Item, StreamId
  <1> QED BY <1>1, <1>2

\* What an open stream is.
LEMMA OpenLive ==
  ASSUME NEW s, NEW id \in StreamId
  PROVE  /\ Live(s, id) = Open(s.streams[id])
         /\ Live(s, id) => Spent(s, id)
  BY ZenonT(30) DEF Live, Raw, Open, Spent

\* A known ID stays known, and whose it is does not change.
LEMMA KnownGrows ==
  ASSUME NEW s \in SessionType, NEW t \in SessionType, t.server = s.server,
         s.next_stream_id <= t.next_stream_id,
         s.last_recv_stream_id <= t.last_recv_stream_id
  PROVE  /\ \A id : IsMine(t, id) = IsMine(s, id)
         /\ \A id \in StreamId : Known(s, id) => Known(t, id)
         /\ \A n \in Int : n < s.next_stream_id => n < t.next_stream_id
  <1>1. \A id : IsMine(t, id) = IsMine(s, id)
    BY DEF IsMine
  <1>2. /\ s.next_stream_id \in Nat /\ t.next_stream_id \in Nat
        /\ s.last_recv_stream_id \in Nat /\ t.last_recv_stream_id \in Nat
        /\ \A id \in StreamId : id \in Int
    BY FieldTypes, SessionAssumption DEF NextId, LastId, StreamId
  <1> QED BY <1>1, <1>2 DEF Known

\* A step that only opens the streams X keeps the ledger.
LEMMA TameLedger ==
  ASSUME NEW s \in SessionType, NEW t \in SessionType, NEW X,
         Ledger(s), Tame(s, t, X), \A x \in X : Opening(s, t, x)
  PROVE  Ledger(t)
  <1>1. SameQueues(s, t) /\ \A x \in X : ~Spent(s, x) /\ x \in StreamId /\ Known(t, x) /\ x \notin s.done
    BY DEF Tame, Opening, Spent
  <1>2. /\ \A id : IsMine(t, id) = IsMine(s, id)
        /\ \A id \in StreamId : Known(s, id) => Known(t, id)
        /\ \A n \in Int : n < s.next_stream_id => n < t.next_stream_id
    BY KnownGrows DEF Tame, SameQueues, Onward
  <1>3. /\ \A id \in StreamId : id \in t.done => id \in s.done \/ ~Live(t, id)
        /\ \A id \in StreamId \ X : (Live(t, id) => Live(s, id)) /\ (Spent(t, id) => Spent(s, id))
    BY DEF Tame
  <1>4. /\ Numbered(s) /\ Requests(s) /\ Promises(s) /\ Acks(s)
        /\ s.last_sent_stream_id \in Int /\ StreamId \subseteq Int
    BY FieldTypes, SessionAssumption DEF Ledger, LastId, StreamId
  <1>5. Numbered(t)
    <2>1. \A id \in StreamId : Spent(t, id) => Known(t, id)
      BY <1>1, <1>2, <1>3, <1>4, Zenon DEF Numbered
    <2>2. \A id \in StreamId : id \in t.done => ~Live(t, id)
      BY <1>1, <1>3, <1>4, Zenon DEF Numbered
    <2>3. IsMine(t, t.next_stream_id)
      BY <1>4 DEF Numbered, Tame, Onward
    <2> QED BY <1>1, <1>2, <1>4, <2>1, <2>2, <2>3, Zenon DEF Numbered, SameQueues
  <1>6. Requests(t)
    <2>1. ASSUME NEW i \in 1..Len(s.ob_syn) PROVE SynItem(t, s.ob_syn[i])
      <3> DEFINE it == s.ob_syn[i]
      <3>1. /\ SynItem(s, it) /\ (IsRequest(it) => it.id \notin X)
            /\ it.id \in Int /\ (it.type = "HEADERS" => it.id \in StreamId)
        BY <1>4, QueueItems, FieldTypes, ZenonT(30) DEF Requests, Opening
      <3> HIDE DEF it
      <3> QED BY <1>1, <1>2, <1>3, <3>1, Zenon DEF SynItem, SameQueues, it
    <2> QED BY <1>1, <1>4, <2>1, Zenon DEF Requests, SameQueues
  <1>7. Promises(t)
    <2>1. ASSUME NEW i \in 1..Len(s.ob_reg) PROVE RegItem(t, s.ob_reg[i])
      <3> DEFINE it == s.ob_reg[i]
      <3>1. RegItem(s, it) /\ it.arg \in Int
        BY <1>4, QueueItems, FieldTypes DEF Promises
      <3> HIDE DEF it
      <3> QED BY <1>1, <1>2, <3>1, Zenon DEF RegItem, SameQueues, it
    <2> QED BY <1>1, <1>4, <2>1, Zenon DEF Promises, SameQueues
  <1> QED BY <1>1, <1>4, <1>5, <1>6, <1>7, Zenon DEF Ledger, Acks, SameQueues

\* A calm step keeps the invariant.
LEMMA CalmCore ==
  ASSUME NEW s, NEW gone, NEW b, Core(s, gone, b), NEW t \in SessionType, NEW X,
         Lists(t), Calm(s, t, X), \A x \in X : Opening(s, t, x)
  PROVE  Core(t, gone, b)
  <1>1. /\ SameQueues(s, t) /\ Attached(s) /\ Held(s, gone) /\ Ledger(s) /\ s.asserts
        /\ s \in SessionType /\ s.aob = b
    BY DEF Calm, Core
  <1>2. /\ \A id \in StreamId : SameItem(s.streams[id], t.streams[id])
        /\ \A id \in StreamId \ X : SameSlot(s.streams[id], t.streams[id])
        /\ t.done = s.done /\ t.heap = s.heap
    BY DEF Calm, SameSlot
  <1>3. \A id \in StreamId \ X : Live(t, id) = Live(s, id) /\ (Spent(t, id) => Spent(s, id))
    BY <1>2, OpenLive, Zenon DEF SameSlot, Spent
  <1>4. \A x \in X : ~Live(s, x) /\ Known(t, x) /\ ~Spent(s, x)
    BY OpenLive, Zenon DEF Opening
  <1>5. Ledger(t)
    <2>1. Tame(s, t, X)
      BY <1>1, <1>2, <1>3, Zenon DEF Calm, Tame
    <2> QED BY <1>1, <2>1, TameLedger, Zenon
  <1>6. Attached(t)
    BY <1>1, <1>2, <1>3, <1>4, Zenon DEF Attached, SameItem
  <1>7. Held(t, gone)
    <2>1. \A id, a : Active(t, id, a) = Active(s, id, a)
      BY <1>1, Zenon DEF Active, SameQueues
    <2>2. ASSUME NEW id \in StreamId, NEW a \in 1..2
          PROVE  (<<id, a>> \in t.heap) <=> (t.streams[id].item = a \/ Active(t, id, a))
      <3>1. /\ t.streams[id].item = s.streams[id].item
            /\ (<<id, a>> \in s.heap) <=> (s.streams[id].item = a \/ Active(s, id, a))
        BY <1>1, <1>2, ZenonT(30) DEF Held, SameItem
      <3> QED BY <1>2, <2>1, <3>1
    <2>3. /\ \A id \in StreamId : Known(s, id) => Known(t, id)
          /\ s.aob.item.type = "DATA" => s.aob.item.id \notin X
      BY <1>1, KnownGrows, Zenon DEF Opening, Calm, SameQueues, Onward
    <2> QED BY <1>1, <1>2, <1>3, <2>2, <2>3, Zenon DEF Held, SameQueues, SameItem
  <1> QED BY <1>1, <1>5, <1>6, <1>7, Zenon DEF Core, SameQueues

\* From s to t the lists stay and no stream becomes idle, reserved or the reverse.
Still(s, t) ==
  /\ t.idleq = s.idleq /\ t.closedq = s.closedq
  /\ \A id \in StreamId :
       /\ (t.streams[id].state = "IDLE") = (s.streams[id].state = "IDLE")
       /\ t.streams[id].state = "RESERVED" => s.streams[id].state = "RESERVED"

Steady(s, t) == Calm(s, t, {}) /\ Still(s, t)

\* What is read of the lists.
LEMMA ListItems ==
  ASSUME NEW s \in SessionType
  PROVE  /\ Len(s.idleq) \in Nat /\ Len(s.closedq) \in Nat
         /\ \A i \in 1..Len(s.idleq) : s.idleq[i] \in StreamId
         /\ \A i \in 1..Len(s.closedq) : s.closedq[i] \in StreamId
  BY FieldTypes DEF IdList

\* A steady step keeps the invariant.
LEMMA SteadyCore ==
  ASSUME NEW s, NEW gone, NEW b, Core(s, gone, b), NEW t \in SessionType, Steady(s, t)
  PROVE  Core(t, gone, b)
  <1>1. s \in SessionType /\ Lists(s)
    BY DEF Core
  <1>2. /\ t.server = s.server /\ t.done = s.done /\ t.idleq = s.idleq /\ t.closedq = s.closedq
        /\ \A id \in StreamId :
             /\ (t.streams[id].state = "IDLE") = (s.streams[id].state = "IDLE")
             /\ t.streams[id].state = "RESERVED" => s.streams[id].state = "RESERVED"
    BY Zenon DEF Steady, Still, Calm, SameQueues
  <1>3. \A id : IsMine(t, id) = IsMine(s, id)
    BY <1>2, Zenon DEF IsMine
  <1>4. Lists(t)
    BY <1>1, <1>2, <1>3, ListItems DEF Lists
  <1>5. Calm(s, t, {}) /\ \A x \in {} : Opening(s, t, x)
    BY DEF Steady
  <1> QED BY <1>4, <1>5, CalmCore

\* Fields that the invariant does not mention, and the counters of IDs.
LEMMA SteadyField ==
  ASSUME NEW s \in SessionType, NEW a
  PROVE  /\ Steady(s, s) /\ Steady(s, [s EXCEPT !.iframe = a])
         /\ Steady(s, [s EXCEPT !.iframe.state = a])
         /\ Steady(s, [s EXCEPT !.window_open = a]) /\ Steady(s, [s EXCEPT !.fatal = a])
         /\ Steady(s, [s EXCEPT !.last_proc_stream_id = a])
         /\ Steady(s, [s EXCEPT !.wire = a])
         /\ s.last_recv_stream_id <= a => Steady(s, [s EXCEPT !.last_recv_stream_id = a])
         /\ s.next_stream_id <= a /\ IsMine(s, a) => Steady(s, [s EXCEPT !.next_stream_id = a])
  <1>1. /\ \A v : v.server = s.server /\ v.next_stream_id = s.next_stream_id => Onward(s, v)
        /\ s.last_recv_stream_id <= s.last_recv_stream_id
    BY OnwardStays, Zenon
  <1>2. ASSUME NEW t, SameQueues(s, t), t.done = s.done, t.heap = s.heap, t.streams = s.streams,
               t.idleq = s.idleq, t.closedq = s.closedq,
               Onward(s, t), s.last_recv_stream_id <= t.last_recv_stream_id
        PROVE  Steady(s, t)
    BY <1>2, Zenon DEF Steady, Still, Calm, SameSlot, SameItem
  <1>3. /\ Steady(s, s) /\ Steady(s, [s EXCEPT !.iframe = a])
        /\ Steady(s, [s EXCEPT !.iframe.state = a])
    BY <1>1, <1>2 DEF SameQueues, SessionType
  <1>4. /\ Steady(s, [s EXCEPT !.window_open = a]) /\ Steady(s, [s EXCEPT !.fatal = a])
        /\ Steady(s, [s EXCEPT !.last_proc_stream_id = a])
    BY <1>1, <1>2 DEF SameQueues, SessionType
  <1>5. /\ Steady(s, [s EXCEPT !.wire = a])
        /\ s.last_recv_stream_id <= a => Steady(s, [s EXCEPT !.last_recv_stream_id = a])
        /\ s.next_stream_id <= a /\ IsMine(s, a) => Steady(s, [s EXCEPT !.next_stream_id = a])
    BY <1>1, <1>2 DEF SameQueues, SessionType, Onward, IsMine
  <1> QED BY <1>3, <1>4, <1>5

\* The stream stays in its place, idle or reserved only if it was.
Stays(a, b) == /\ SameSlot(a, b) /\ (b.state = "IDLE") = (a.state = "IDLE")
               /\ b.state = "RESERVED" => a.state = "RESERVED"

\* The map of streams is replaced by one in which every stream keeps its place.
LEMMA SteadyMap ==
  ASSUME NEW s \in SessionType, NEW m,
         \A id \in StreamId : Stays(s.streams[id], m[id])
  PROVE  Steady(s, [s EXCEPT !.streams = m])
  <1>1. /\ \A v : v.server = s.server /\ v.next_stream_id = s.next_stream_id => Onward(s, v)
        /\ s.last_recv_stream_id <= s.last_recv_stream_id
    BY OnwardStays, Zenon
  <1> QED BY <1>1 DEF Steady, Still, Stays, Calm, SameQueues, SessionType

\* A stream keeps its place in all these assignments.
LEMMA SteadyStream ==
  ASSUME NEW s \in SessionType, NEW id \in StreamId, NEW a
  PROVE  /\ Steady(s, [s EXCEPT !.streams[id].rd = a])
         /\ Steady(s, [s EXCEPT !.streams[id].wr = a])
         /\ a = "NO" \/ s.streams[id].item # 0 => Steady(s, [s EXCEPT !.streams[id].defer = a])
         /\ Live(s, id) /\ a \in {"OPENING", "OPENED", "CLOSING"}
              => Steady(s, [s EXCEPT !.streams[id].state = a])
  <1> DEFINE x == s.streams[id]
  <1>1. x \in Stream /\ s.streams \in [StreamId -> Stream] /\ (Live(s, id) => Open(x))
    BY StreamOf, FieldTypes, OpenLive DEF StreamMap
  <1>2. ASSUME NEW y, Stays(x, y) PROVE Steady(s, [s EXCEPT !.streams[id] = y])
    <2> DEFINE m == [s.streams EXCEPT ![id] = y]
    <2>1. \A i \in StreamId : Stays(s.streams[i], m[i])
      BY <1>1, <1>2 DEF Stays, SameSlot, SameItem
    <2> HIDE DEF m
    <2>2. Steady(s, [s EXCEPT !.streams = m])
      BY <2>1, SteadyMap
    <2> QED BY <2>2, Zenon DEF m
  <1>3. /\ [s EXCEPT !.streams[id].rd = a] = [s EXCEPT !.streams[id] = [x EXCEPT !.rd = a]]
        /\ [s EXCEPT !.streams[id].wr = a] = [s EXCEPT !.streams[id] = [x EXCEPT !.wr = a]]
        /\ [s EXCEPT !.streams[id].defer = a]
             = [s EXCEPT !.streams[id] = [x EXCEPT !.defer = a]]
        /\ [s EXCEPT !.streams[id].state = a]
             = [s EXCEPT !.streams[id] = [x EXCEPT !.state = a]]
    BY Zenon
  <1> HIDE DEF x
  <1>4. /\ Stays(x, [x EXCEPT !.rd = a]) /\ Stays(x, [x EXCEPT !.wr = a])
        /\ a = "NO" \/ x.item # 0 => Stays(x, [x EXCEPT !.defer = a])
        /\ Live(s, id) /\ a \in {"OPENING", "OPENED", "CLOSING"}
             => Stays(x, [x EXCEPT !.state = a])
    BY <1>1 DEF Stays, SameSlot, SameItem, Open, Stream
  <1> QED BY <1>2, <1>3, <1>4, Zenon DEF x

\* nghttp2_session_mem_recv may replace the frame that it is reading: Core does
\* not depend on it.
LEMMA InboundCore ==
  ASSUME NEW s, NEW gone, NEW b, Core(s, gone, b)
  PROVE  /\ Core(ResetInbound(s), gone, b) /\ Core(FrameDone(s), gone, b)
         /\ Core(IgnoreBlock(s), gone, b)
         /\ \A a \in InboundState : Core([s EXCEPT !.iframe.state = a], gone, b)
  <1>1. s \in SessionType
    BY DEF Core
  <1>2. \A a : Steady(s, [s EXCEPT !.iframe = a]) /\ Steady(s, [s EXCEPT !.iframe.state = a])
    BY <1>1, SteadyField, ZenonT(30)
  <1>3. \A a \in InboundState : Core([s EXCEPT !.iframe.state = a], gone, b)
    BY <1>1, <1>2, SetInboundState, SteadyCore, ZenonT(30)
  <1>4. Core(ResetInbound(s), gone, b)
    BY <1>1, <1>2, ResetInboundType, SteadyCore, Zenon DEF ResetInbound
  <1>6. Core(FrameDone(s), gone, b) /\ Core(IgnoreBlock(s), gone, b)
    BY <1>3, <1>4, InboundConstants, Zenon DEF FrameDone, IgnoreBlock
  <1> QED BY <1>3, <1>4, <1>6

-----------------------------------------------------------------------------
(* Idle and closed streams *)

\* The oldest entries of a list of streams that are not open are destroyed.
LEMMA DroppedCalm ==
  ASSUME NEW s \in SessionType, Attached(s), NEW q, NEW n, NEW a,
         \A i \in 1..Len(q) : q[i] \in StreamId => ~Live(s, q[i])
  PROVE  /\ Calm(s, [s EXCEPT !.streams = DestroyOldest(s, q, n), !.idleq = a], {})
         /\ Calm(s, [s EXCEPT !.streams = DestroyOldest(s, q, n), !.closedq = a], {})
  <1> DEFINE m == DestroyOldest(s, q, n)
  <1>1. ASSUME NEW id \in StreamId PROVE SameSlot(s.streams[id], m[id])
    <2>1. CASE m[id] = s.streams[id]
      BY <2>1 DEF SameSlot, SameItem
    <2>2. CASE m[id] # s.streams[id]
      <3>1. m[id] = NoStream /\ ~Open(s.streams[id]) /\ s.streams[id].item = 0
        BY <2>2, OpenLive DEF DestroyOldest, Attached
      <3>2. /\ NoStream.item = 0 /\ NoStream.defer = "NO" /\ NoStream.state = "NONE"
            /\ ~Open(NoStream)
        BY DEF NoStream, Open
      <3> QED BY <3>1, <3>2 DEF SameSlot, SameItem, Open
    <2> QED BY <2>1, <2>2
  <1>2. /\ \A v : v.server = s.server /\ v.next_stream_id = s.next_stream_id => Onward(s, v)
        /\ s.last_recv_stream_id <= s.last_recv_stream_id
    BY OnwardStays, Zenon
  <1> HIDE DEF m
  <1>3. ASSUME NEW t, t.streams = m, SameQueues(s, t), t.done = s.done, t.heap = s.heap,
               t.next_stream_id = s.next_stream_id, t.last_recv_stream_id = s.last_recv_stream_id
        PROVE  Calm(s, t, {})
    BY <1>1, <1>2, <1>3 DEF Calm, SameQueues
  <1>4. Calm(s, [s EXCEPT !.streams = m, !.idleq = a], {})
    BY <1>3, ZenonT(30) DEF SameQueues, SessionType
  <1>5. Calm(s, [s EXCEPT !.streams = m, !.closedq = a], {})
    BY <1>3, ZenonT(30) DEF SameQueues, SessionType
  <1> QED BY <1>4, <1>5 DEF m

\* Streams of the lists are not open.
LEMMA ListedNotLive ==
  ASSUME NEW s, NEW gone, NEW b, Core(s, gone, b)
  PROVE  /\ \A i \in 1..Len(s.idleq) : ~Live(s, s.idleq[i])
         /\ \A i \in 1..Len(s.closedq) : ~Live(s, s.closedq[i])
  <1>1. s \in SessionType /\ Lists(s) /\ Numbered(s)
    BY DEF Core, Ledger
  <1> QED BY <1>1, ListItems DEF Lists, Numbered, Live

\* The end of a list.
LEMMA EndOfList ==
  ASSUME NEW T, NEW q \in Seq(T), NEW n \in Nat
  PROVE  LET r == SubSeq(q, n + 1, Len(q))
         IN /\ \A i \in 1..Len(r) : i + n \in 1..Len(q) /\ r[i] = q[i + n] /\ i + n > n
            /\ Len(r) \in Nat
  OBVIOUS

\* The lists after the oldest entries of one are destroyed.
LEMMA DroppedLists ==
  ASSUME NEW s \in SessionType, Lists(s), NEW n \in Nat, NEW t \in SessionType,
         t.server = s.server, t.done = s.done
  PROVE  /\ (t.closedq = s.closedq /\ t.idleq = SubSeq(s.idleq, n + 1, Len(s.idleq))
               /\ t.streams = DestroyOldest(s, s.idleq, n)) => Lists(t)
         /\ (t.idleq = s.idleq /\ t.closedq = SubSeq(s.closedq, n + 1, Len(s.closedq))
               /\ t.streams = DestroyOldest(s, s.closedq, n)) => Lists(t)
  <1>1. /\ s.idleq \in Seq(StreamId) /\ s.closedq \in Seq(StreamId)
        /\ \A i \in 1..Len(s.idleq) : s.idleq[i] \in StreamId
        /\ \A i \in 1..Len(s.closedq) : s.closedq[i] \in StreamId
    BY FieldTypes, ListItems DEF IdList
  <1>2. /\ \A id : IsMine(t, id) = IsMine(s, id)
        /\ NoStream.state = "NONE"
    BY DEF IsMine, NoStream
  <1>3. ASSUME NEW q
        PROVE  \A id \in StreamId :
                 /\ DestroyOldest(s, q, n)[id] \in {NoStream, s.streams[id]}
                 /\ (\A i \in 1..Len(q) : i <= n => q[i] # id)
                      => DestroyOldest(s, q, n)[id] = s.streams[id]
    BY DEF DestroyOldest
  <1>4. ASSUME t.closedq = s.closedq, t.idleq = SubSeq(s.idleq, n + 1, Len(s.idleq)),
               t.streams = DestroyOldest(s, s.idleq, n)
        PROVE  Lists(t)
    <2>1. \A i \in 1..Len(t.idleq) : i + n \in 1..Len(s.idleq) /\ t.idleq[i] = s.idleq[i + n]
                                       /\ i + n > n /\ i \in Int
      BY <1>1, <1>4, EndOfList
    <2>2. \A i \in 1..Len(t.idleq) : t.streams[t.idleq[i]] = s.streams[s.idleq[i + n]]
      <3> TAKE i \in 1..Len(t.idleq)
      <3>1. \A j \in 1..Len(s.idleq) : j <= n => s.idleq[j] # s.idleq[i + n]
        <4>1. \A j, k \in 1..Len(s.idleq) : s.idleq[j] = s.idleq[k] => j = k
          BY DEF Lists
        <4>2. i + n \in 1..Len(s.idleq) /\ i + n > n
          BY <2>1
        <4>3. \A j \in 1..Len(s.idleq) : j <= n => j # i + n
          BY <1>1, <4>2
        <4> QED BY <4>1, <4>2, <4>3, Zenon
      <3>2. s.idleq[i + n] \in StreamId
        BY <1>1, <2>1
      <3>3. DestroyOldest(s, s.idleq, n)[s.idleq[i + n]] = s.streams[s.idleq[i + n]]
        BY <1>3, <3>1, <3>2, Zenon
      <3> QED BY <1>4, <2>1, <3>3
    <2>3. \A id \in StreamId : t.streams[id] \in {NoStream, s.streams[id]}
      BY <1>3, <1>4
    <2>4. \A i, j \in 1..Len(t.idleq) : t.idleq[i] = t.idleq[j] => i = j
      BY <2>1 DEF Lists
    <2>5. \A i \in 1..Len(t.idleq) : t.streams[t.idleq[i]].state = "IDLE"
      <3>1. \A j \in 1..Len(s.idleq) : s.streams[s.idleq[j]].state = "IDLE"
        BY DEF Lists
      <3> QED BY <2>1, <2>2, <3>1
    <2>6. \A i \in 1..Len(s.closedq) : t.streams[s.closedq[i]].state # "IDLE"
      BY <1>1, <1>2, <2>3 DEF Lists
    <2>7. \A id \in StreamId : t.streams[id].state = "RESERVED" => IsMine(s, id) = s.server
      BY <1>2, <2>3 DEF Lists
    <2> QED BY <1>2, <1>4, <2>4, <2>5, <2>6, <2>7 DEF Lists
  <1>5. ASSUME t.idleq = s.idleq, t.closedq = SubSeq(s.closedq, n + 1, Len(s.closedq)),
               t.streams = DestroyOldest(s, s.closedq, n)
        PROVE  Lists(t)
    <2>1. \A i \in 1..Len(t.closedq) : i + n \in 1..Len(s.closedq) /\ t.closedq[i] = s.closedq[i + n]
      BY <1>1, <1>5, EndOfList
    <2>2. \A id \in StreamId : t.streams[id] \in {NoStream, s.streams[id]}
      BY <1>3, <1>5
    <2>3. \A i \in 1..Len(s.idleq) : t.streams[s.idleq[i]] = s.streams[s.idleq[i]]
      <3> TAKE i \in 1..Len(s.idleq)
      <3>1. \A j \in 1..Len(s.closedq) : j <= n => s.closedq[j] # s.idleq[i]
        BY DEF Lists
      <3> QED BY <1>1, <1>3, <1>5, <3>1
    <2>4. \A i \in 1..Len(t.closedq) : /\ t.closedq[i] \in s.done /\ ~IsMine(s, t.closedq[i])
                                       /\ t.streams[t.closedq[i]].state # "IDLE"
      <3> TAKE i \in 1..Len(t.closedq)
      <3>1. /\ t.closedq[i] \in StreamId /\ t.closedq[i] \in s.done /\ ~IsMine(s, t.closedq[i])
            /\ s.streams[t.closedq[i]].state # "IDLE"
        BY <1>1, <2>1 DEF Lists
      <3> QED BY <1>2, <2>2, <3>1
    <2>5. \A id \in StreamId : t.streams[id].state = "RESERVED" => IsMine(s, id) = s.server
      BY <1>2, <2>2 DEF Lists
    <2>6. \A i \in 1..Len(s.idleq) : t.streams[s.idleq[i]].state = "IDLE"
      BY <2>3, Zenon DEF Lists
    <2>7. \A i, j \in 1..Len(s.idleq) : s.idleq[i] = s.idleq[j] => i = j
      BY Zenon DEF Lists
    <2> QED BY <1>2, <1>5, <2>4, <2>5, <2>6, <2>7 DEF Lists
  <1> QED BY <1>4, <1>5

\* nghttp2_session_adjust_idle_stream and nghttp2_session_adjust_closed_stream
\* keep Core.
LEMMA AdjustCore ==
  ASSUME NEW s, NEW gone, NEW b, Core(s, gone, b)
  PROVE  Core(AdjustIdle(s), gone, b) /\ Core(AdjustClosed(s), gone, b)
  <1>1. s \in SessionType /\ Attached(s) /\ Lists(s)
    BY DEF Core
  <1>2. ASSUME NEW n \in Nat, NEW m, NEW r, NEW t \in SessionType,
               m = DestroyOldest(s, s.idleq, n), r = SubSeq(s.idleq, n + 1, Len(s.idleq)),
               t = [s EXCEPT !.streams = m, !.idleq = r]
        PROVE  Core(t, gone, b)
    <2>1. Calm(s, t, {}) /\ \A x \in {} : Opening(s, t, x)
      BY <1>1, <1>2, ListedNotLive, DroppedCalm
    <2>2. /\ t.server = s.server /\ t.done = s.done /\ t.closedq = s.closedq
          /\ t.idleq = r /\ t.streams = m
      <3>1. t = [s EXCEPT !.streams = m, !.idleq = r]
        BY <1>2
      <3> QED BY <1>1, <3>1 DEF SessionType
    <2>3. Lists(t)
      BY <1>1, <1>2, <2>2, DroppedLists, Zenon
    <2> QED BY <2>1, <2>3, CalmCore
  <1>6. ASSUME NEW n \in Nat, NEW m, NEW r, NEW t \in SessionType,
               m = DestroyOldest(s, s.closedq, n), r = SubSeq(s.closedq, n + 1, Len(s.closedq)),
               t = [s EXCEPT !.streams = m, !.closedq = r]
        PROVE  Core(t, gone, b)
    <2>1. Calm(s, t, {}) /\ \A x \in {} : Opening(s, t, x)
      BY <1>1, <1>6, ListedNotLive, DroppedCalm
    <2>2. /\ t.server = s.server /\ t.done = s.done /\ t.idleq = s.idleq
          /\ t.closedq = r /\ t.streams = m
      <3>1. t = [s EXCEPT !.streams = m, !.closedq = r]
        BY <1>6
      <3> QED BY <1>1, <3>1 DEF SessionType
    <2>3. Lists(t)
      BY <1>1, <1>6, <2>2, DroppedLists, Zenon
    <2> QED BY <2>1, <2>3, CalmCore
  <1>3. /\ Larger(Len(s.idleq) - Smaller(MaxIdle, Larger(MinIdle,
             Smaller(s.local_max_concurrent, s.pending_max_concurrent))), 0) \in Nat
        /\ \A a \in Int : Smaller(Larger(a, 0), Len(s.closedq)) \in Nat
    BY <1>1, FieldTypes, ListItems, SessionAssumption DEF Larger, Smaller
  <1>4. Core(AdjustIdle(s), gone, b)
    BY <1>1, <1>2, <1>3, AdjustIdleType, Zenon DEF AdjustIdle
  <1>5. Core(AdjustClosed(s), gone, b)
    <2> DEFINE limit == IF s.local_max_concurrent = DefaultMaxConcurrent
                          THEN s.pending_max_concurrent ELSE s.local_max_concurrent
    <2>1. Len(s.closedq) + s.num_incoming_streams - limit \in Int
      BY <1>1, FieldTypes, ListItems
    <2> QED BY <1>1, <1>3, <1>6, <2>1, AdjustClosedType, Zenon DEF AdjustClosed
  <1> QED BY <1>4, <1>5

\* A stream that is not known may be idle.
LEMMA UnknownNotSpent ==
  ASSUME NEW s, NEW gone, NEW b, Core(s, gone, b), NEW id \in StreamId, ~Known(s, id)
  PROVE  /\ ~Spent(s, id) /\ id \notin s.done
         /\ s.aob.item.type = "DATA" => s.aob.item.id # id
  BY DEF Core, Ledger, Numbered, Spent, Held

\* Creating a stream of the state IDLE for an ID that has none keeps Core.
LEMMA OpenIdleCore ==
  ASSUME NEW s, NEW gone, NEW b, Core(s, gone, b), NEW id \in StreamId,
         ~Raw(s, id), DetectIdle(s, id)
  PROVE  /\ Core(OpenIdle(s, id), gone, b) /\ Calm(s, OpenIdle(s, id), {})
         /\ OpenIdle(s, id).streams = [s.streams EXCEPT ![id] = [NoStream EXCEPT !.state = "IDLE"]]
         /\ OpenIdle(s, id).idleq = Append(s.idleq, id)
  <1> DEFINE x == [NoStream EXCEPT !.state = "IDLE"]
             t == OpenIdle(s, id)
  <1>1. s \in SessionType /\ t \in SessionType /\ Attached(s) /\ Lists(s)
    BY OpenIdleType DEF Core
  <1>2. /\ t.streams = [s.streams EXCEPT ![id] = x] /\ t.idleq = Append(s.idleq, id)
        /\ t.closedq = s.closedq /\ t.server = s.server /\ t.done = s.done
    BY <1>1 DEF OpenIdle, SessionType
  <1>3. /\ x.state = "IDLE" /\ x.item = 0 /\ x.defer = "NO" /\ ~Open(x)
        /\ s.streams[id].state = "NONE" /\ s.streams[id].item = 0 /\ ~Open(s.streams[id])
    BY <1>1 DEF NoStream, Open, Raw, Live, Attached
  <1>4. \A i \in StreamId : t.streams[i] = IF i = id THEN x ELSE s.streams[i]
    BY <1>1, <1>2, FieldTypes DEF StreamMap
  <1> HIDE DEF x
  <1>5. \A i \in StreamId : SameSlot(s.streams[i], t.streams[i])
    <2> TAKE i \in StreamId
    <2>1. CASE i = id
      BY <1>3, <1>4, <2>1 DEF SameSlot, SameItem, Open
    <2>2. CASE i # id
      BY <1>4, <2>2 DEF SameSlot, SameItem
    <2> QED BY <2>1, <2>2
  <1>6. Calm(s, t, {}) /\ \A y \in {} : Opening(s, t, y)
    <2>1. /\ SameQueues(s, t) /\ t.heap = s.heap
          /\ t.next_stream_id = s.next_stream_id
          /\ t.last_recv_stream_id = s.last_recv_stream_id
      BY <1>1 DEF OpenIdle, SessionType, SameQueues
    <2>2. /\ \A v : v.server = s.server /\ v.next_stream_id = s.next_stream_id => Onward(s, v)
          /\ s.last_recv_stream_id <= s.last_recv_stream_id
      BY <1>1, OnwardStays, Zenon
    <2> QED BY <1>2, <1>5, <2>1, <2>2 DEF Calm
  <1>7. Lists(t)
    <2>1. \A i \in 1..Len(s.closedq) : s.closedq[i] # id
      <3>1. id \in s.done => Known(s, id)
        BY DEF Core, Ledger, Numbered, Spent
      <3>2. ~IsMine(s, id) => ~Known(s, id)
        BY <1>1, FieldTypes, SessionAssumption DEF DetectIdle, IsNewPeerId, Known, StreamId, LastId
      <3> QED BY <1>1, <3>1, <3>2 DEF Lists
    <2>2. /\ \A i \in 1..Len(s.idleq) : s.idleq[i] # id /\ s.idleq[i] \in StreamId
          /\ s.idleq \in Seq(StreamId)
      BY <1>1, <1>3, ListItems, FieldTypes DEF Lists, IdList
    <2>3. /\ Len(t.idleq) = Len(s.idleq) + 1 /\ Len(s.idleq) \in Nat
          /\ \A i \in 1..Len(s.idleq) : t.idleq[i] = s.idleq[i]
          /\ t.idleq[Len(s.idleq) + 1] = id
      BY <1>2, <2>2
    <2>7. \A i \in 1..Len(t.idleq) : i \in 1..Len(s.idleq) \/ i = Len(s.idleq) + 1
      BY <2>3
    <2>4. \A i \in 1..Len(t.idleq) : t.streams[t.idleq[i]].state = "IDLE"
      <3> TAKE i \in 1..Len(t.idleq)
      <3>1. CASE i \in 1..Len(s.idleq)
        <4>1. t.idleq[i] = s.idleq[i] /\ s.idleq[i] \in StreamId /\ s.idleq[i] # id
          BY <2>2, <2>3, <3>1, Zenon
        <4> QED BY <1>1, <1>4, <3>1, <4>1 DEF Lists
      <3>2. CASE i = Len(s.idleq) + 1
        BY <1>3, <1>4, <2>3, <3>2
      <3> QED BY <2>7, <3>1, <3>2
    <2>5. \A i, j \in 1..Len(t.idleq) : t.idleq[i] = t.idleq[j] => i = j
      BY <1>1, <2>2, <2>3, <2>7, Zenon DEF Lists
    <2>6. \A i \in 1..Len(t.closedq) : /\ t.closedq[i] \in t.done /\ ~IsMine(t, t.closedq[i])
                                       /\ t.streams[t.closedq[i]].state # "IDLE"
      <3>1. \A i \in 1..Len(s.closedq) : /\ s.closedq[i] \in s.done /\ ~IsMine(s, s.closedq[i])
                                         /\ s.streams[s.closedq[i]].state # "IDLE"
        BY <1>1, Zenon DEF Lists
      <3>2. \A i \in 1..Len(s.closedq) : t.streams[s.closedq[i]] = s.streams[s.closedq[i]]
        BY <1>1, <1>4, <2>1, ListItems, Zenon
      <3>3. \A i \in 1..Len(s.closedq) : /\ s.closedq[i] \in t.done /\ ~IsMine(t, s.closedq[i])
                                         /\ t.streams[s.closedq[i]].state # "IDLE"
        BY <1>2, <3>1, <3>2, Zenon DEF IsMine
      <3> QED BY <1>2, <3>3, Zenon
    <2>8. \A i \in StreamId : t.streams[i].state = "RESERVED" => IsMine(t, i) = t.server
      BY <1>1, <1>2, <1>3, <1>4 DEF Lists, IsMine
    <2> QED BY <2>4, <2>5, <2>6, <2>8, Zenon DEF Lists
  <1> QED BY <1>1, <1>2, <1>6, <1>7, CalmCore DEF x

\* Calm steps one after the other.
LEMMA CalmTrans ==
  ASSUME NEW s \in SessionType, NEW u \in SessionType, NEW t \in SessionType, NEW X,
         Calm(s, u, {}), Calm(u, t, X)
  PROVE  Calm(s, t, X)
  <1> \A r \in SessionType : r.next_stream_id \in Int /\ r.last_recv_stream_id \in Int
    BY IdNumbers, Zenon
  <1>1. /\ Onward(s, t)
        /\ s.last_recv_stream_id <= t.last_recv_stream_id
    BY DEF Calm, Onward
  <1>2. SameQueues(s, t) /\ t.done = s.done /\ t.heap = s.heap
    BY Zenon DEF Calm, SameQueues
  <1>3. \A id \in StreamId : IF id \in X THEN SameItem(s.streams[id], t.streams[id])
                                         ELSE SameSlot(s.streams[id], t.streams[id])
    <2> TAKE id \in StreamId
    <2> SameSlot(s.streams[id], u.streams[id])
      BY DEF Calm
    <2>1. id \in X => SameItem(s.streams[id], t.streams[id])
      BY DEF Calm, SameSlot, SameItem
    <2>2. id \notin X => SameSlot(s.streams[id], t.streams[id])
      BY DEF Calm, SameSlot, SameItem, Open
    <2> QED BY <2>1, <2>2
  <1> QED BY <1>1, <1>2, <1>3, Zenon DEF Calm

\* A list without repetitions, and without x.
LEMMA WithoutItems ==
  ASSUME NEW T, NEW q \in Seq(T), NEW x, \A i, j \in 1..Len(q) : q[i] = q[j] => i = j
  PROVE  LET r == Without(q, x)
         IN /\ \A i \in 1..Len(r) : r[i] # x /\ \E j \in 1..Len(q) : r[i] = q[j]
            /\ \A i, j \in 1..Len(r) : r[i] = r[j] => i = j
            /\ x \notin Elements(q) => r = q
  <1>1. CASE x \notin Elements(q)
    BY <1>1 DEF Without, Elements
  <1>2. CASE x \in Elements(q)
    <2> DEFINE k == CHOOSE i \in 1..Len(q) : q[i] = x
               r == [i \in 1..Len(q) - 1 |-> IF i < k THEN q[i] ELSE q[i + 1]]
    <2> k \in 1..Len(q) /\ q[k] = x /\ Len(q) \in Nat
      BY <1>2 DEF Elements
    <2>2. Without(q, x) = r
      BY <1>2 DEF Without
    <2> HIDE DEF k
    <2> /\ Len(r) = Len(q) - 1
        /\ \A i \in 1..Len(q) - 1 : i < k => r[i] = q[i]
        /\ \A i \in 1..Len(q) - 1 : i >= k => r[i] = q[i + 1]
      OBVIOUS
    <2> HIDE DEF r
    <2>5. \A i \in 1..Len(r) : r[i] # x /\ \E j \in 1..Len(q) : r[i] = q[j]
      <3> TAKE i \in 1..Len(r)
      <3>1. CASE i < k
        BY <3>1
      <3>2. CASE i >= k
        <4> i + 1 \in 1..Len(q) /\ i + 1 # k /\ r[i] = q[i + 1]
          BY <3>2
        <4> QED OBVIOUS
      <3> QED BY <3>1, <3>2
    <2>7. \A i, j \in 1..Len(r) : r[i] = r[j] => i = j
      <3> SUFFICES ASSUME NEW i \in 1..Len(r), NEW j \in 1..Len(r), r[i] = r[j]
                   PROVE  i = j
        OBVIOUS
      <3> QED OBVIOUS
    <2> QED BY <1>2, <2>2, <2>5, <2>7
  <1> QED BY <1>1, <1>2

\* Before a stream is opened its ID leaves the list of idle streams.
LEMMA UnlistedCore ==
  ASSUME NEW s, NEW gone, NEW b, Core(s, gone, b), NEW id \in StreamId
  PROVE  LET t == [s EXCEPT !.idleq = Without(s.idleq, id)]
         IN /\ Core(t, gone, b) /\ Calm(s, t, {})
            /\ \A i \in 1..Len(t.idleq) : t.idleq[i] # id
            /\ s.streams[id].state # "IDLE" => t = s
  <1> DEFINE w == Without(s.idleq, id)
             t == [s EXCEPT !.idleq = w]
  <1> s \in SessionType /\ Lists(s)
    BY DEF Core
  <1>1. s.idleq \in Seq(StreamId) /\ w \in IdList
    BY FieldTypes, WithoutType DEF IdList
  <1>2. /\ \A i \in 1..Len(w) : w[i] # id /\ \E j \in 1..Len(s.idleq) : w[i] = s.idleq[j]
        /\ \A i, j \in 1..Len(w) : w[i] = w[j] => i = j
        /\ id \notin Elements(s.idleq) => w = s.idleq
    BY <1>1, WithoutItems DEF Lists
  <1>3. s.streams[id].state # "IDLE" => w = s.idleq
    BY <1>2 DEF Lists, Elements
  <1> HIDE DEF w
  <1>4. /\ t \in SessionType /\ t.idleq = w
        /\ t.streams = s.streams /\ t.server = s.server /\ t.done = s.done
        /\ t.closedq = s.closedq
    <2>1. t \in SessionType
      BY <1>1, SMTT(30) DEF SessionType
    <2>2. /\ t.idleq = w /\ t.closedq = s.closedq
          /\ t.streams = s.streams /\ t.server = s.server /\ t.done = s.done
      BY SMTT(30) DEF SessionType
    <2> QED BY <2>1, <2>2
  <1>5. w = s.idleq => t = s
    BY DEF SessionType
  <1>6. Calm(s, t, {})
    <2>1. /\ \A v : v.server = s.server /\ v.next_stream_id = s.next_stream_id => Onward(s, v)
          /\ s.last_recv_stream_id <= s.last_recv_stream_id
      BY OnwardStays, Zenon
    <2> QED BY <2>1 DEF Calm, SameQueues, SameSlot, SameItem, SessionType
  <1> HIDE DEF t
  <1>7. Lists(t)
    <2>1. \A i \in 1..Len(w) : s.streams[w[i]].state = "IDLE"
      <3>1. \A j \in 1..Len(s.idleq) : s.streams[s.idleq[j]].state = "IDLE"
        BY Zenon DEF Lists
      <3> TAKE i \in 1..Len(w)
      <3>2. PICK j \in 1..Len(s.idleq) : w[i] = s.idleq[j]
        BY <1>2, Zenon
      <3> QED BY <3>1, <3>2, Zenon
    <2>2. \A i : IsMine(t, i) = IsMine(s, i)
      BY <1>4, Zenon DEF IsMine
    <2>3. \A i \in 1..Len(t.idleq) : t.streams[t.idleq[i]].state = "IDLE"
      BY <1>4, <2>1, Zenon
    <2>4. \A i, j \in 1..Len(t.idleq) : t.idleq[i] = t.idleq[j] => i = j
      BY <1>2, <1>4, Zenon
    <2>5. \A i \in 1..Len(t.closedq) : /\ t.closedq[i] \in t.done /\ ~IsMine(t, t.closedq[i])
                                       /\ t.streams[t.closedq[i]].state # "IDLE"
      <3>1. \A i \in 1..Len(s.closedq) : /\ s.closedq[i] \in s.done /\ ~IsMine(s, s.closedq[i])
                                         /\ s.streams[s.closedq[i]].state # "IDLE"
        BY Zenon DEF Lists
      <3> QED BY <1>4, <2>2, <3>1, ZenonT(30)
    <2>6. \A i \in StreamId : t.streams[i].state = "RESERVED" => IsMine(t, i) = t.server
      <3>1. \A i \in StreamId : s.streams[i].state = "RESERVED" => IsMine(s, i) = s.server
        BY Zenon DEF Lists
      <3> QED BY <1>4, <2>2, <3>1, ZenonT(30)
    <2> QED BY <2>3, <2>4, <2>5, <2>6, ZenonT(30) DEF Lists
  <1>8. Core(t, gone, b)
    <2> \A x \in {} : Opening(s, t, x)
      OBVIOUS
    <2> QED BY <1>4, <1>6, <1>7, CalmCore
  <1> QED BY <1>2, <1>3, <1>4, <1>5, <1>6, <1>8 DEF t, w

\* The stream is created and the streams of its role are counted.
Created(u, id, x, n1, n2, n3) ==
  [u EXCEPT !.streams[id] = x, !.num_incoming_reserved_streams = n1,
            !.num_outgoing_streams = n2, !.num_incoming_streams = n3]

\* nghttp2_session_open_stream has reached u when it creates the stream.
OpensFrom(s, u, id, dep) ==
  /\ Calm(s, u, {}) /\ u.streams[id] = s.streams[id]
  /\ DetectIdle(u, id) = DetectIdle(s, id)
  /\ \A i \in 1..Len(u.idleq) : u.idleq[i] # id
  /\ OpenStream(s, id, "IDLE", dep) = OpenIdle(u, id)
  /\ \A state : state # "IDLE" => \E x, n1, n2, n3 :
       /\ OpenStream(s, id, state, dep) = Created(u, id, x, n1, n2, n3)
       /\ x.state = state /\ x.item = 0 /\ x.defer = "NO" /\ ~x.closed

\* nghttp2_session_open_stream keeps Core up to the point where the stream is
\* created.
LEMMA OpenBegin ==
  ASSUME NEW s, NEW gone, NEW b, Core(s, gone, b), NEW id \in StreamId, NEW dep \in LastId,
         s.streams[id].state \in {"NONE", "IDLE"}
  PROVE  \E u : Core(u, gone, b) /\ OpensFrom(s, u, id, dep)
  <1> DEFINE c == s.asserts /\ (Raw(s, id) => s.streams[id].state = "IDLE")
             w == Without(s.idleq, id)
             s1 == [s EXCEPT !.asserts = c, !.idleq = w]
             r == [s EXCEPT !.idleq = w]
             more(v) == dep # 0 /\ dep # id /\ ~Raw(v, dep) /\ DetectIdle(v, dep)
             U(v) == IF more(v) THEN OpenIdle(v, dep) ELSE v
             u == U(r)
             x(state) == [NoStream EXCEPT !.state = state,
                            !.push = (state = "RESERVED"),
                            !.rd = (state = "RESERVED" /\ IsMine(s, id)),
                            !.wr = (state = "RESERVED" /\ ~IsMine(s, id))]
             n1(v, state) == IF state = "RESERVED" /\ ~IsMine(s, id)
                            THEN v.num_incoming_reserved_streams + 1
                            ELSE v.num_incoming_reserved_streams
             n2(v, state) == IF state # "RESERVED" /\ IsMine(s, id)
                            THEN v.num_outgoing_streams + 1 ELSE v.num_outgoing_streams
             n3(v, state) == IF state # "RESERVED" /\ ~IsMine(s, id)
                            THEN v.num_incoming_streams + 1 ELSE v.num_incoming_streams
             T(v, state) == [v EXCEPT !.streams[id] = x(state),
                               !.num_incoming_reserved_streams = n1(v, state),
                               !.num_outgoing_streams = n2(v, state),
                               !.num_incoming_streams = n3(v, state)]
  <1> s \in SessionType /\ s.asserts
    BY DEF Core
  <1>6. ASSUME NEW state
        PROVE  OpenStream(s, id, state, dep) =
                 IF state = "IDLE" THEN OpenIdle(U(s1), id) ELSE T(U(s1), state)
    BY Zenon DEF OpenStream
  <1>7. ASSUME NEW state
        PROVE  x(state).state = state /\ x(state).item = 0 /\ x(state).defer = "NO" /\ ~x(state).closed
    BY DEF NoStream
  <1>1. c = s.asserts
    BY DEF Raw
  <1> HIDE DEF c, x, n1, n2, n3
  <1>2. /\ Core(r, gone, b) /\ Calm(s, r, {}) /\ \A i \in 1..Len(r.idleq) : r.idleq[i] # id
    BY UnlistedCore
  <1> HIDE DEF w
  <1>3. s1 = r
    BY <1>1 DEF SessionType
  <1>4. /\ r.streams = s.streams /\ r.server = s.server
        /\ r.last_sent_stream_id = s.last_sent_stream_id
        /\ r.last_recv_stream_id = s.last_recv_stream_id
    BY DEF SessionType
  <1> HIDE DEF s1, r
  <1>5. /\ Core(u, gone, b) /\ Calm(s, u, {}) /\ u.streams[id] = s.streams[id]
        /\ DetectIdle(u, id) = DetectIdle(s, id)
        /\ \A i \in 1..Len(u.idleq) : u.idleq[i] # id
    <2>1. CASE ~more(r)
      <3> u = r
        BY <2>1
      <3> HIDE DEF r, u, more
      <3> QED BY <1>2, <1>4, Zenon DEF DetectIdle, IsMine, IsNewPeerId
    <2>2. CASE more(r)
      <3> dep \in StreamId /\ u = OpenIdle(r, dep) /\ dep # id /\ r \in SessionType
        BY <2>2, <1>2 DEF LastId, StreamId, Core
      <3> HIDE DEF u
      <3>1. /\ Core(u, gone, b) /\ Calm(r, u, {})
            /\ u.streams = [r.streams EXCEPT ![dep] = [NoStream EXCEPT !.state = "IDLE"]]
            /\ u.idleq = Append(r.idleq, dep)
        BY <1>2, <2>2, OpenIdleCore, Zenon
      <3> u \in SessionType
        BY <3>1 DEF Core
      <3>2. /\ u.last_sent_stream_id = r.last_sent_stream_id /\ u.server = r.server
            /\ u.last_recv_stream_id = r.last_recv_stream_id
        BY DEF OpenIdle, SessionType
      <3>3. Calm(s, u, {})
        BY <1>2, <3>1, CalmTrans
      <3>4. u.streams[id] = s.streams[id]
        BY <1>4, <3>1, FieldTypes DEF StreamMap
      <3>5. \A i \in 1..Len(u.idleq) : u.idleq[i] # id
        <4> r.idleq \in Seq(StreamId)
          BY FieldTypes DEF IdList
        <4> QED BY <1>2, <3>1
      <3> QED BY <1>4, <3>1, <3>2, <3>3, <3>4, <3>5, Zenon DEF DetectIdle, IsMine, IsNewPeerId
    <2> QED BY <2>1, <2>2
  <1>8. OpenStream(s, id, "IDLE", dep) = OpenIdle(u, id)
    BY <1>3, <1>6, Zenon
  <1>9. ASSUME NEW state, state # "IDLE"
        PROVE  OpenStream(s, id, state, dep) =
                 Created(u, id, x(state), n1(u, state), n2(u, state), n3(u, state))
    BY <1>3, <1>6, <1>9, Zenon DEF Created
  <1> HIDE DEF u
  <1>10. \A state : state # "IDLE" => \E y, m1, m2, m3 :
           /\ OpenStream(s, id, state, dep) = Created(u, id, y, m1, m2, m3)
           /\ y.state = state /\ y.item = 0 /\ y.defer = "NO" /\ ~y.closed
    <2> SUFFICES ASSUME NEW state, state # "IDLE"
                 PROVE  \E y, m1, m2, m3 :
                          /\ OpenStream(s, id, state, dep) = Created(u, id, y, m1, m2, m3)
                          /\ y.state = state /\ y.item = 0 /\ y.defer = "NO" /\ ~y.closed
      OBVIOUS
    <2> DEFINE y == x(state) m1 == n1(u, state) m2 == n2(u, state) m3 == n3(u, state)
    <2>1. OpenStream(s, id, state, dep) = Created(u, id, y, m1, m2, m3)
      BY <1>9
    <2>2. y.state = state /\ y.item = 0 /\ y.defer = "NO" /\ ~y.closed
      BY <1>7
    <2> HIDE DEF y, m1, m2, m3
    <2> QED BY <2>1, <2>2
  <1>11. Core(u, gone, b) /\ OpensFrom(s, u, id, dep)
    BY <1>5, <1>8, <1>10 DEF OpensFrom
  <1> QED BY <1>11

\* nghttp2_session_open_stream for the state IDLE keeps Core; so does the
\* creation of the stream a reprioritized stream depends on.
LEMMA IdleStreamCore ==
  ASSUME NEW s, NEW gone, NEW b, Core(s, gone, b), NEW dep \in LastId
  PROVE  /\ Core(Reprioritize(s, dep), gone, b)
         /\ \A id \in StreamId : ~Raw(s, id) /\ DetectIdle(s, id)
              => Core(OpenStream(s, id, "IDLE", dep), gone, b)
  <1>1. Core(Reprioritize(s, dep), gone, b)
    <2> dep # 0 => dep \in StreamId
      BY DEF LastId, StreamId
    <2> QED BY OpenIdleCore, Zenon DEF Reprioritize
  <1>2. ASSUME NEW id \in StreamId, ~Raw(s, id), DetectIdle(s, id)
        PROVE  Core(OpenStream(s, id, "IDLE", dep), gone, b)
    <2>1. s.streams[id].state = "NONE"
      BY <1>2 DEF Raw
    <2>2. PICK u : Core(u, gone, b) /\ OpensFrom(s, u, id, dep)
      BY <2>1, OpenBegin
    <2>3. ~Raw(u, id) /\ DetectIdle(u, id) /\ OpenStream(s, id, "IDLE", dep) = OpenIdle(u, id)
      BY <1>2, <2>1, <2>2, Zenon DEF OpensFrom, Raw
    <2>4. Core(OpenIdle(u, id), gone, b)
      BY <2>2, <2>3, OpenIdleCore
    <2> QED BY <2>3, <2>4, Zenon
  <1> QED BY <1>1, <1>2

\* nghttp2_session_open_stream for an ID that has not been used.
LEMMA OpenStreamCalm ==
  ASSUME NEW s, NEW gone, NEW b, Core(s, gone, b), NEW id \in StreamId, NEW dep \in LastId,
         NEW state \in {"INITIAL", "OPENING", "RESERVED"}, ~Spent(s, id),
         state = "RESERVED" => IsMine(s, id) = s.server
  PROVE  LET t == OpenStream(s, id, state, dep)
         IN /\ t \in SessionType /\ Calm(s, t, {id}) /\ Lists(t)
            /\ Live(t, id) /\ t.streams[id].state = state
  <1> DEFINE t == OpenStream(s, id, state, dep)
  <1> s \in SessionType /\ state # "IDLE" /\ state # "NONE"
    BY DEF Core
  <1>1. PICK u : Core(u, gone, b) /\ OpensFrom(s, u, id, dep)
    BY OpenBegin DEF Spent
  <1> u \in SessionType /\ Lists(u) /\ Attached(u) /\ Calm(s, u, {}) /\ u.streams[id] = s.streams[id]
    BY <1>1 DEF Core, OpensFrom
  <1>2. PICK x, n1, n2, n3 :
          /\ t = Created(u, id, x, n1, n2, n3)
          /\ x.state = state /\ x.item = 0 /\ x.defer = "NO" /\ ~x.closed
    BY <1>1 DEF OpensFrom
  <1>3. t \in SessionType
    <2> id \in LastId /\ state \in StreamState
      BY SessionAssumption DEF StreamState, LastId, StreamId
    <2> QED BY OpenStreamType
  <1> HIDE DEF t
  <1>4. /\ t.streams = [u.streams EXCEPT ![id] = x]
        /\ t.idleq = u.idleq /\ t.closedq = u.closedq /\ t.server = u.server /\ t.done = u.done
        /\ SameQueues(u, t) /\ t.heap = u.heap
        /\ u.next_stream_id = t.next_stream_id
        /\ u.last_recv_stream_id = t.last_recv_stream_id
    BY <1>2 DEF Created, SessionType, SameQueues
  <1>5. /\ t.streams[id] = x /\ \A i \in StreamId : i # id => t.streams[i] = u.streams[i]
        /\ \A i \in StreamId : i # id => t.streams[i] = u.streams[i]
    BY <1>4, FieldTypes DEF StreamMap
  <1>6. Calm(u, t, {id})
    <2>1. /\ \A v : v.server = u.server /\ v.next_stream_id = u.next_stream_id => Onward(u, v)
          /\ u.last_recv_stream_id <= u.last_recv_stream_id
      BY OnwardStays, Zenon
    <2>2. ~Open(u.streams[id]) /\ u.streams[id].item = 0
      BY OpenLive DEF Spent, Open, Attached
    <2>3. \A i \in StreamId : IF i \in {id} THEN SameItem(u.streams[i], t.streams[i])
                                            ELSE SameSlot(u.streams[i], t.streams[i])
      BY <1>2, <1>5, <2>2 DEF SameItem, SameSlot
    <2> QED BY <1>4, <2>1, <2>3, Zenon DEF Calm
  <1>7. Lists(t)
    <2>1. /\ \A i \in 1..Len(u.idleq) : u.idleq[i] # id
          /\ id \notin u.done /\ IsMine(u, id) = IsMine(s, id) /\ u.server = s.server
      BY <1>1 DEF OpensFrom, Spent, Calm, SameQueues, IsMine
    <2>2. \A i : IsMine(t, i) = IsMine(u, i)
      BY <1>4 DEF IsMine
    <2>3. \A i \in StreamId : t.streams[i].state = "RESERVED" => IsMine(u, i) = u.server
      BY <1>2, <1>5, <2>1 DEF Lists
    <2>4. \A i \in 1..Len(u.idleq) : t.streams[u.idleq[i]] = u.streams[u.idleq[i]]
      BY <1>5, <2>1, ListItems, Zenon
    <2>5. \A i \in 1..Len(u.closedq) : /\ u.closedq[i] \in u.done
                                       /\ t.streams[u.closedq[i]] = u.streams[u.closedq[i]]
      BY <1>5, <2>1, ListItems, Zenon DEF Lists
    <2>6. \A i \in 1..Len(t.idleq) : t.streams[t.idleq[i]].state = "IDLE"
      <3>1. \A i \in 1..Len(u.idleq) : u.streams[u.idleq[i]].state = "IDLE"
        BY Zenon DEF Lists
      <3>2. \A i \in 1..Len(u.idleq) : t.streams[u.idleq[i]].state = "IDLE"
        BY <2>4, <3>1, Zenon
      <3> QED BY <1>4, <3>2, Zenon
    <2>7. \A i, j \in 1..Len(t.idleq) : t.idleq[i] = t.idleq[j] => i = j
      BY <1>4, Zenon DEF Lists
    <2>8. \A i \in 1..Len(t.closedq) : /\ t.closedq[i] \in t.done /\ ~IsMine(t, t.closedq[i])
                                        /\ t.streams[t.closedq[i]].state # "IDLE"
      <3>1. \A i \in 1..Len(u.closedq) : /\ ~IsMine(u, u.closedq[i])
                                         /\ u.streams[u.closedq[i]].state # "IDLE"
        BY Zenon DEF Lists
      <3>2. \A i \in 1..Len(u.closedq) : /\ u.closedq[i] \in u.done
                                         /\ ~IsMine(t, u.closedq[i])
                                         /\ t.streams[u.closedq[i]].state # "IDLE"
        BY <2>2, <2>5, <3>1, Zenon
      <3> QED BY <1>4, <3>2, Zenon
    <2>9. \A i \in StreamId : t.streams[i].state = "RESERVED" => IsMine(t, i) = t.server
      BY <1>4, <2>2, <2>3
    <2> QED BY <2>6, <2>7, <2>8, <2>9, Zenon DEF Lists
  <1>8. Calm(s, t, {id})
    BY <1>3, <1>6, CalmTrans
  <1> QED BY <1>2, <1>3, <1>5, <1>7, <1>8 DEF Live, Raw, t

-----------------------------------------------------------------------------
(* Closing streams *)

\* Where the entries of two lists, one after the other, come from.
LEMMA ConcatItems ==
  ASSUME NEW p \in Seq(StreamId), NEW q \in Seq(StreamId)
  PROVE  \A i \in 1..Len(p \o q) :
           \/ i \in 1..Len(p) /\ (p \o q)[i] = p[i]
           \/ i - Len(p) \in 1..Len(q) /\ (p \o q)[i] = q[i - Len(p)]
  OBVIOUS

\* From s to u only what was announced in GOAWAYs may change.
SameButFlags(s, u) ==
  /\ u.streams = s.streams /\ u.idleq = s.idleq /\ u.closedq = s.closedq
  /\ u.done = s.done /\ u.heap = s.heap /\ SameQueues(s, u)
  /\ u.next_stream_id = s.next_stream_id /\ u.last_recv_stream_id = s.last_recv_stream_id

\* nghttp2_session_close_stream keeps Core, for any set of open streams, and
\* whether or not a GOAWAY of the peer has been recorded before.
LEMMA CloseAllCore ==
  ASSUME NEW s, NEW gone, NEW b, Core(s, gone, b), NEW u \in SessionType, SameButFlags(s, u),
         NEW C \in SUBSET StreamId, NEW q \in IdList, \A i \in 1..Len(q) : q[i] \in C,
         \A id \in C : Live(s, id)
  PROVE  Core(CloseAll(u, C, q), gone, b)
  <1> DEFINE t == CloseAll(u, C, q)
             kept == IF KeepClosed /\ u.server /\ \A id \in C : ~IsMine(u, id) THEN C ELSE {}
             freed == {x \in u.heap : /\ x[1] \in C
                                      /\ u.streams[x[1]].item = x[2]
                                      /\ ~ (u.aob.item.type = "DATA"
                                            /\ <<u.aob.item.id, u.aob.item.addr>> = x)}
  <1> /\ s \in SessionType /\ s.asserts /\ s.aob = b /\ Ledger(s)
      /\ Lists(s) /\ Attached(s) /\ Held(s, gone)
    BY DEF Core
  <1>1. t \in SessionType
    BY CloseAllType, Zenon
  <1>2. /\ t.streams = [id \in StreamId |->
             IF id \in kept THEN [u.streams[id] EXCEPT !.closed = TRUE, !.item = 0, !.defer = "NO"]
             ELSE IF id \in C THEN NoStream ELSE u.streams[id]]
        /\ t.closedq = (IF kept = {} THEN u.closedq ELSE u.closedq \o q)
        /\ t.heap = u.heap \ freed /\ t.done = u.done \cup C
    BY Zenon DEF CloseAll, SessionType
  <1>3. /\ t.idleq = s.idleq /\ SameQueues(s, t) /\ t.next_stream_id = s.next_stream_id
        /\ t.last_recv_stream_id = s.last_recv_stream_id
    BY ZenonT(60) DEF CloseAll, SessionType, SameQueues, SameButFlags
  <1> HIDE DEF t, kept, freed
  <1>4. /\ u.streams = s.streams /\ u.closedq = s.closedq /\ u.done = s.done /\ u.heap = s.heap
        /\ u.aob = s.aob /\ u.server = s.server /\ t.server = s.server
        /\ \A id : IsMine(u, id) = IsMine(s, id) /\ IsMine(t, id) = IsMine(s, id)
    BY <1>3, Zenon DEF SameButFlags, SameQueues, IsMine
  <1>12. t.done = s.done \cup C /\ t.heap = s.heap \ freed
    BY <1>2, <1>4, Zenon
  <1>5. \A id \in StreamId : id \notin C => t.streams[id] = s.streams[id]
    <2>1. \A id : id \notin C => id \notin kept
      BY DEF kept
    <2>2. \A id \in StreamId : id \notin C /\ id \notin kept => t.streams[id] = u.streams[id]
      <3> DEFINE K(id) == [u.streams[id] EXCEPT !.closed = TRUE, !.item = 0, !.defer = "NO"]
      <3>1. t.streams = [id \in StreamId |-> IF id \in kept THEN K(id)
                                             ELSE IF id \in C THEN NoStream ELSE u.streams[id]]
        BY <1>2
      <3> HIDE DEF K
      <3> QED BY <3>1
    <2> QED BY <1>4, <2>1, <2>2, Zenon
  <1>6. ASSUME NEW id \in C
        PROVE  /\ ~Open(t.streams[id]) /\ t.streams[id].item = 0 /\ t.streams[id].defer = "NO"
               /\ t.streams[id].state \in {"NONE", s.streams[id].state}
               /\ s.streams[id].state \notin {"NONE", "IDLE"}
    <2>1. s.streams[id] \in Stream /\ id \in StreamId /\ Open(s.streams[id])
      BY StreamOf, OpenLive
    <2>2. \/ t.streams[id] = [s.streams[id] EXCEPT !.closed = TRUE, !.item = 0, !.defer = "NO"]
          \/ t.streams[id] = NoStream
      BY <1>2, <1>4, <2>1, ZenonT(60)
    <2>3. ASSUME NEW x \in Stream, Open(x)
          PROVE  LET y == [x EXCEPT !.closed = TRUE, !.item = 0, !.defer = "NO"]
                 IN /\ ~Open(y) /\ y.item = 0 /\ y.defer = "NO" /\ y.state = x.state
                    /\ x.state \notin {"NONE", "IDLE"}
      BY <2>3 DEF Open, Stream
    <2>4. ~Open(NoStream) /\ NoStream.item = 0 /\ NoStream.defer = "NO" /\ NoStream.state = "NONE"
      BY DEF Open, NoStream
    <2> QED BY <2>1, <2>2, <2>3, <2>4
  <1>7. /\ \A id \in C : ~Live(t, id) /\ Spent(s, id) /\ Live(s, id)
        /\ \A id \in StreamId \ C : Live(t, id) = Live(s, id) /\ (Spent(t, id) = Spent(s, id))
    <2>1. \A id \in C : ~Live(t, id) /\ Spent(s, id) /\ Live(s, id)
      BY <1>6, OpenLive
    <2>2. \A id \in StreamId \ C : id \in t.done <=> id \in s.done
      BY <1>12
    <2> QED BY <1>5, <2>1, <2>2, OpenLive, Zenon DEF Spent
  <1>8. Ledger(t)
    <2>1. Tame(s, t, {})
      <3>2. /\ Onward(s, t)
            /\ s.last_recv_stream_id <= t.last_recv_stream_id
        BY <1>3, OnwardStays, Zenon DEF SameQueues
      <3>3. \A id \in StreamId : /\ id \in t.done => id \in s.done \/ ~Live(t, id)
                                 /\ Live(t, id) => Live(s, id)
                                 /\ Spent(t, id) => Spent(s, id)
        BY <1>7, <1>12
      <3> QED BY <1>3, <3>2, <3>3, Zenon DEF Tame
    <2>2. \A x \in {} : Opening(s, t, x)
      OBVIOUS
    <2> QED BY <1>1, <2>1, <2>2, TameLedger
  <1>9. Attached(t)
    BY <1>5, <1>6, <1>7 DEF Attached
  <1>10. Held(t, gone)
    <2>1. ASSUME NEW id \in StreamId, NEW a \in 1..2
          PROVE  (<<id, a>> \in t.heap) <=> (t.streams[id].item = a \/ Active(t, id, a))
      <3>1. /\ (<<id, a>> \in s.heap) <=> (s.streams[id].item = a \/ Active(s, id, a))
            /\ Active(t, id, a) = Active(s, id, a)
        BY <1>3 DEF Held, Active, SameQueues
      <3>2. <<id, a>> \in freed <=> /\ <<id, a>> \in s.heap /\ id \in C
                                    /\ s.streams[id].item = a /\ ~Active(s, id, a)
        BY <1>4 DEF freed, Active
      <3>3. CASE id \notin C
        BY <1>5, <1>12, <3>1, <3>2, <3>3
      <3>4. CASE id \in C
        <4>1. t.streams[id].item = 0
          BY <1>6, <3>4, Zenon
        <4>2. a # 0
          OBVIOUS
        <4> t.streams[id].item # a
          BY <4>1, <4>2, Zenon
        <4> QED BY <1>12, <3>1, <3>2, <3>4
      <3> QED BY <3>3, <3>4
    <2>2. ASSUME t.aob.item.type = "DATA"
          PROVE  LET id == t.aob.item.id
                 IN /\ id \in StreamId /\ Known(t, id) /\ t.aob.item.addr \in 1..2
                    /\ Live(t, id) => ((t.streams[id].item # t.aob.item.addr) <=> gone)
      <3> t.aob = s.aob
        BY <1>3 DEF SameQueues
      <3>1. LET id == s.aob.item.id
            IN /\ id \in StreamId /\ Known(s, id) /\ s.aob.item.addr \in 1..2
               /\ Live(s, id) => ((s.streams[id].item # s.aob.item.addr) <=> gone)
        BY <2>2, Zenon DEF Held
      <3>2. \A id : Known(t, id) = Known(s, id)
        BY <1>3, <1>4, Zenon DEF Known
      <3> QED BY <1>5, <1>7, <3>1, <3>2, Zenon
    <2> QED BY <2>1, <2>2, Zenon DEF Held
  <1>11. Lists(t)
    <2>1. \A i \in 1..Len(s.idleq) : s.idleq[i] \in StreamId /\ s.idleq[i] \notin C
      BY <1>6, ListItems DEF Lists
    <2>2. \A i \in 1..Len(t.closedq) : \/ \E j \in 1..Len(s.closedq) : t.closedq[i] = s.closedq[j]
                                       \/ t.closedq[i] \in kept
      <3> s.closedq \in Seq(StreamId) /\ q \in Seq(StreamId)
        BY FieldTypes DEF IdList
      <3>1. CASE kept = {}
        BY <1>2, <1>4, <3>1
      <3>2. CASE kept = C /\ kept # {}
        <4> t.closedq = s.closedq \o q
          BY <1>2, <1>4, <3>2
        <4> DEFINE c == s.closedq \o q
        <4>1. \A i \in 1..Len(c) :
              \/ i \in 1..Len(s.closedq) /\ c[i] = s.closedq[i]
              \/ i - Len(s.closedq) \in 1..Len(q) /\ c[i] = q[i - Len(s.closedq)]
          BY ConcatItems
        <4> HIDE DEF c
        <4>2. \A i \in 1..Len(c) : (\E j \in 1..Len(s.closedq) : c[i] = s.closedq[j]) \/ c[i] \in C
          BY <4>1, Zenon
        <4> QED BY <3>2, <4>2, Zenon DEF c
      <3> QED BY <3>1, <3>2 DEF kept
    <2>3. \A id \in kept : id \in C /\ ~IsMine(s, id) /\ id \in StreamId
      BY <1>4 DEF kept
    <2>4. \A id \in StreamId : t.streams[id].state \in {"NONE", s.streams[id].state}
      BY <1>5, <1>6
    <2>5. \A i \in 1..Len(t.closedq) :
            t.closedq[i] \in t.done /\ ~IsMine(s, t.closedq[i])
              /\ t.streams[t.closedq[i]].state # "IDLE"
      <3> TAKE i \in 1..Len(t.closedq)
      <3>1. CASE t.closedq[i] \in kept
        BY <1>6, <1>12, <2>3, <2>4, <3>1
      <3>2. CASE \E j \in 1..Len(s.closedq) : t.closedq[i] = s.closedq[j]
        <4> PICK j \in 1..Len(s.closedq) : t.closedq[i] = s.closedq[j]
          BY <3>2
        <4>1. /\ s.closedq[j] \in StreamId /\ s.closedq[j] \in s.done
              /\ ~IsMine(s, s.closedq[j]) /\ s.streams[s.closedq[j]].state # "IDLE"
          BY ListItems DEF Lists
        <4> QED BY <1>12, <2>4, <4>1
      <3> QED BY <2>2, <3>1, <3>2
    <2>6. \A id \in StreamId : t.streams[id].state = "RESERVED" => IsMine(s, id) = s.server
      BY <2>4 DEF Lists
    <2>7. \A i \in 1..Len(s.idleq) : t.streams[s.idleq[i]] = s.streams[s.idleq[i]]
      BY <1>5, <2>1, Zenon
    <2>8. \A i \in 1..Len(t.idleq) : t.streams[t.idleq[i]].state = "IDLE"
      <3>1. \A i \in 1..Len(s.idleq) : s.streams[s.idleq[i]].state = "IDLE"
        BY Zenon DEF Lists
      <3>2. \A i \in 1..Len(s.idleq) : t.streams[s.idleq[i]].state = "IDLE"
        BY <2>7, <3>1, Zenon
      <3> QED BY <1>3, <3>2, Zenon
    <2>9. \A i, j \in 1..Len(t.idleq) : t.idleq[i] = t.idleq[j] => i = j
      BY <1>3, Zenon DEF Lists
    <2>10. \A i \in 1..Len(t.closedq) : /\ t.closedq[i] \in t.done /\ ~IsMine(t, t.closedq[i])
                                        /\ t.streams[t.closedq[i]].state # "IDLE"
      BY <1>4, <2>5
    <2>11. \A i \in StreamId : t.streams[i].state = "RESERVED" => IsMine(t, i) = t.server
      BY <1>4, <2>6
    <2> QED BY <2>8, <2>9, <2>10, <2>11, Zenon DEF Lists
  <1> QED BY <1>1, <1>3, <1>8, <1>9, <1>10, <1>11 DEF Core, SameQueues, t

\* nghttp2_session_close_stream and nghttp2_session_close_stream_if_shut_rdwr
\* keep Core, and so does the end of a stream that the peer has ended.
LEMMA CloseStreamCore ==
  ASSUME NEW s, NEW gone, NEW b, Core(s, gone, b), NEW id
  PROVE  /\ Core(CloseStream(s, id), gone, b) /\ Core(CloseIfShut(s, id), gone, b)
         /\ id \in StreamId => Core(EndOfStream(s, id), gone, b)
  <1>1. ASSUME NEW u, Core(u, gone, b) PROVE Core(CloseStream(u, id), gone, b)
    <2> u \in SessionType
      BY <1>1 DEF Core
    <2>1. CASE Live(u, id)
      <3> id \in StreamId
        BY <2>1, LiveId
      <3>1. {id} \in SUBSET StreamId /\ <<id>> \in IdList /\ \A i \in 1..Len(<<id>>) : <<id>>[i] \in {id}
        BY DEF IdList
      <3>2. SameButFlags(u, u)
        BY DEF SameButFlags, SameQueues
      <3>3. \A i \in {id} : Live(u, i)
        BY <2>1
      <3>4. Core(CloseAll(u, {id}, <<id>>), gone, b)
        BY <1>1, <3>1, <3>2, <3>3, CloseAllCore
      <3> QED BY <2>1, <3>4, Zenon DEF CloseStream
    <2> QED BY <1>1, <2>1 DEF CloseStream
  <1>2. ASSUME NEW u, Core(u, gone, b) PROVE Core(CloseIfShut(u, id), gone, b)
    BY <1>1, <1>2, Zenon DEF CloseIfShut
  <1>3. ASSUME id \in StreamId PROVE Core(EndOfStream(s, id), gone, b)
    <2> DEFINE u == [s EXCEPT !.streams[id].rd = TRUE]
    <2>1. u \in SessionType /\ Steady(s, u)
      BY <1>3, SetStreamField, SteadyStream DEF Core, StreamState, Deferral
    <2> HIDE DEF u
    <2>2. Core(u, gone, b)
      BY <2>1, SteadyCore
    <2> QED BY <1>2, <2>2, Zenon DEF EndOfStream, u
  <1> QED BY <1>1, <1>2, <1>3

\* From s to t only the streams and what the invariant does not mention change.
SameButStreams(s, t) ==
  /\ SameQueues(s, t) /\ t.done = s.done /\ t.heap = s.heap
  /\ t.idleq = s.idleq /\ t.closedq = s.closedq
  /\ t.next_stream_id = s.next_stream_id /\ t.last_recv_stream_id = s.last_recv_stream_id

\* If all streams keep their places, so does the invariant.
LEMMA StaysCore ==
  ASSUME NEW s, NEW gone, NEW b, Core(s, gone, b), NEW t \in SessionType, SameButStreams(s, t),
         \A id \in StreamId : Stays(s.streams[id], t.streams[id])
  PROVE  Core(t, gone, b)
  <1> s \in SessionType
    BY DEF Core
  <1>1. /\ Onward(s, t)
        /\ s.last_recv_stream_id <= t.last_recv_stream_id
    BY FieldTypes, SessionAssumption DEF NextId, LastId, SameButStreams, SameQueues, Onward, IsMine
  <1>2. Steady(s, t)
    BY <1>1, Zenon DEF Steady, Still, Stays, Calm, SameButStreams
  <1> QED BY <1>2, SteadyCore

\* A step that only changes what Core does not mention keeps it.
LEMMA UnseenCore ==
  ASSUME NEW s, NEW gone, NEW b, Core(s, gone, b), NEW t \in SessionType, SameButStreams(s, t),
         t.streams = s.streams
  PROVE  Core(t, gone, b)
  BY StaysCore, Zenon DEF Stays, SameSlot, SameItem

\* Core is kept when the response HEADERS of a pushed stream have been sent or
\* received.
LEMMA PromotedCore ==
  ASSUME NEW s, NEW gone, NEW b, Core(s, gone, b), NEW id \in StreamId, Live(s, id)
  PROVE  Core(Promoted(s, id), gone, b) /\ Core(PushOpened(s, id), gone, b)
  <1> DEFINE x == s.streams[id]
             y == [x EXCEPT !.state = "OPENED", !.push = FALSE]
             m == [s.streams EXCEPT ![id] = y]
  <1> s \in SessionType /\ x \in Stream /\ Open(x) /\ s.streams \in StreamMap
    BY StreamOf, OpenLive, FieldTypes DEF Core
  <1>4. /\ Promoted(s, id) = [s EXCEPT !.streams = m,
                                       !.num_outgoing_streams = s.num_outgoing_streams + 1]
        /\ PushOpened(s, id) = [s EXCEPT !.streams = m, !.num_incoming_reserved_streams =
             IF IsMine(s, id) THEN s.num_incoming_reserved_streams
                              ELSE s.num_incoming_reserved_streams - 1,
             !.num_incoming_streams = s.num_incoming_streams + 1]
    <2>1. [[s.streams EXCEPT ![id].state = "OPENED"] EXCEPT ![id].push = FALSE] = m
      BY DEF StreamMap
    <2> QED BY <2>1 DEF Promoted, PushOpened
  <1> HIDE DEF x
  <1>1. Stays(x, y)
    BY DEF Stays, SameSlot, SameItem, Open, Stream
  <1> HIDE DEF y
  <1>2. \A i \in StreamId : Stays(s.streams[i], m[i])
    <2>1. \A i \in StreamId : m[i] = IF i = id THEN y ELSE s.streams[i]
      BY DEF StreamMap
    <2> QED BY <1>1, <2>1 DEF Stays, SameSlot, SameItem, x
  <1> HIDE DEF m
  <1>3. /\ Promoted(s, id).streams = m /\ PushOpened(s, id).streams = m
        /\ SameButStreams(s, Promoted(s, id)) /\ SameButStreams(s, PushOpened(s, id))
    BY <1>4 DEF SameButStreams, SameQueues, SessionType
  <1> QED BY <1>2, <1>3, PromotedType, PushOpenedType, StaysCore

-----------------------------------------------------------------------------
(* The queues *)

\* From s to t the queues change, and IDs may be handed out.
SameButQueues(s, t) ==
  /\ t.server = s.server /\ t.asserts = s.asserts /\ t.aob = s.aob
  /\ t.streams = s.streams /\ t.idleq = s.idleq /\ t.closedq = s.closedq
  /\ t.done = s.done /\ t.heap = s.heap
  /\ t.last_sent_stream_id = s.last_sent_stream_id
  /\ t.last_recv_stream_id = s.last_recv_stream_id
  /\ Onward(s, t)

\* The invariant depends on the queues only in these ways.
LEMMA QueuesCore ==
  ASSUME NEW s, NEW gone, NEW b, Core(s, gone, b), NEW t \in SessionType, SameButQueues(s, t),
         Requests(t), Promises(t), Acks(t)
  PROVE  Core(t, gone, b)
  <1> /\ s \in SessionType /\ s.asserts /\ s.aob = b /\ Ledger(s)
      /\ Lists(s) /\ Attached(s) /\ Held(s, gone)
    BY DEF Core
  <1>1. /\ \A id : IsMine(t, id) = IsMine(s, id) /\ Live(t, id) = Live(s, id)
        /\ \A id : Spent(t, id) = Spent(s, id)
    BY Zenon DEF SameButQueues, IsMine, Live, Raw, Spent
  <1>2. /\ \A id \in StreamId : Known(s, id) => Known(t, id)
        /\ \A n \in Int : n < s.next_stream_id => n < t.next_stream_id
    <2> /\ s.last_recv_stream_id <= t.last_recv_stream_id /\ t.server = s.server
        /\ s.next_stream_id <= t.next_stream_id
      <3>1. /\ t.last_recv_stream_id = s.last_recv_stream_id /\ t.server = s.server
            /\ s.next_stream_id <= t.next_stream_id
        BY Zenon DEF SameButQueues, Onward
      <3>2. s.last_recv_stream_id \in Int
        BY IdNumbers, Zenon
      <3> QED BY <3>1, <3>2
    <2> QED BY KnownGrows, Zenon
  <1>3. Numbered(t)
    <2> s.last_sent_stream_id \in Int
      BY IdNumbers, Zenon
    <2>1. IsMine(t, t.next_stream_id)
      BY DEF Ledger, Numbered, SameButQueues, Onward
    <2> QED BY <1>1, <1>2, <2>1, Zenon DEF Ledger, Numbered, SameButQueues
  <1>5. Lists(t) /\ Attached(t)
    <2> t.server = s.server /\ t.streams = s.streams /\ t.idleq = s.idleq
          /\ t.closedq = s.closedq /\ t.done = s.done
      BY DEF SameButQueues
    <2> Attached(t)
      BY <1>1 DEF Attached
    <2>1. \A i \in 1..Len(t.idleq) : t.streams[t.idleq[i]].state = "IDLE"
      BY Zenon DEF Lists
    <2>2. \A i, j \in 1..Len(t.idleq) : t.idleq[i] = t.idleq[j] => i = j
      BY Zenon DEF Lists
    <2>3. \A i \in 1..Len(t.closedq) : /\ t.closedq[i] \in t.done /\ ~IsMine(t, t.closedq[i])
                                        /\ t.streams[t.closedq[i]].state # "IDLE"
      BY <1>1 DEF Lists
    <2>4. \A i \in StreamId : t.streams[i].state = "RESERVED" => IsMine(t, i) = t.server
      BY <1>1 DEF Lists
    <2> QED BY <2>1, <2>2, <2>3, <2>4, Zenon DEF Lists
  <1>6. Held(t, gone)
    <2> \A id, a : Active(t, id, a) = Active(s, id, a)
      BY Zenon DEF Active, SameButQueues
    <2> QED BY <1>1, <1>2 DEF Held, SameButQueues
  <1> QED BY <1>3, <1>5, <1>6, Zenon DEF Core, Ledger, SameButQueues

\* A queue with one item more.
LEMMA AppendItems ==
  ASSUME NEW q \in Queue, NEW it \in Item
  PROVE  LET r == Append(q, it)
         IN /\ r \in Queue /\ Len(r) = Len(q) + 1 /\ r[Len(q) + 1] = it
            /\ \A i \in 1..Len(q) : r[i] = q[i]
            /\ \A i \in 1..Len(r) : i \in 1..Len(q) \/ i = Len(q) + 1
  BY DEF Queue

\* A queue of SETTINGS and PINGs with one more of them.
LEMMA AppendTyped ==
  ASSUME NEW q \in Queue, NEW it \in Item, it.type \in {"SETTINGS", "PING"},
         \A i \in 1..Len(q) : q[i].type \in {"SETTINGS", "PING"}
  PROVE  LET r == Append(q, it)
         IN \A i \in 1..Len(r) : r[i].type \in {"SETTINGS", "PING"}
  BY AppendItems

\* Queueing a frame other than a request or a DATA frame keeps Core.
LEMMA AddRegCore ==
  ASSUME NEW s, NEW gone, NEW b, Core(s, gone, b), NEW it \in Item, RegItem(s, it),
         it.type = "PUSH_PROMISE" =>
           \A i \in 1..Len(s.ob_reg) : s.ob_reg[i].type = "PUSH_PROMISE" => s.ob_reg[i].arg < it.arg
  PROVE  Core(AddReg(s, it), gone, b)
  <1> DEFINE t == AddReg(s, it)
  <1> s \in SessionType /\ Ledger(s) /\ s.ob_reg \in Queue
    BY FieldTypes DEF Core
  <1>1. t \in SessionType
    BY AddType
  <1>2. t.ob_reg = Append(s.ob_reg, it) /\ t.ob_syn = s.ob_syn /\ t.ob_urgent = s.ob_urgent
          /\ t.obq_flood_counter = s.obq_flood_counter /\ SameButQueues(s, t)
          /\ t.next_stream_id = s.next_stream_id
    <2> \A v : v.server = s.server /\ v.next_stream_id = s.next_stream_id => Onward(s, v)
      BY OnwardStays, Zenon
    <2> QED BY DEF AddReg, SessionType, SameButQueues
  <1> HIDE DEF t
  <1>3. Requests(t) /\ Acks(t)
    <2>1. \A x : SynItem(s, x) => SynItem(t, x)
      BY <1>2, Zenon DEF SynItem, SameButQueues, IsMine, Spent
    <2> QED BY <1>2, <2>1 DEF Ledger, Requests, Acks
  <1>4. /\ t.ob_reg[Len(s.ob_reg) + 1] = it /\ \A i \in 1..Len(s.ob_reg) : t.ob_reg[i] = s.ob_reg[i]
        /\ \A i \in 1..Len(t.ob_reg) : i \in 1..Len(s.ob_reg) \/ i = Len(s.ob_reg) + 1
        /\ Len(s.ob_reg) \in Nat
    <2>1. LET r == Append(s.ob_reg, it)
          IN /\ r[Len(s.ob_reg) + 1] = it /\ \A i \in 1..Len(s.ob_reg) : r[i] = s.ob_reg[i]
             /\ \A i \in 1..Len(r) : i \in 1..Len(s.ob_reg) \/ i = Len(s.ob_reg) + 1
      BY AppendItems, Zenon
    <2>2. Len(s.ob_reg) \in Nat
      BY QueueItems, Zenon
    <2> QED BY <1>2, <2>1, <2>2, Zenon
  <1>5. Promises(t)
    <2>1. \A x : RegItem(s, x) => RegItem(t, x)
      BY <1>2, Zenon DEF RegItem, SameButQueues, IsMine
    <2>2. \A i \in 1..Len(t.ob_reg) : RegItem(t, t.ob_reg[i])
      BY <1>4, <2>1, Zenon DEF Ledger, Promises
    <2>3. ASSUME NEW i \in 1..Len(t.ob_reg), NEW j \in 1..Len(t.ob_reg), i < j,
                 t.ob_reg[i].type = "PUSH_PROMISE", t.ob_reg[j].type = "PUSH_PROMISE"
          PROVE  t.ob_reg[i].arg < t.ob_reg[j].arg
      <3>1. i \in 1..Len(s.ob_reg)
        BY <1>4, <2>3
      <3>2. CASE j \in 1..Len(s.ob_reg)
        BY <1>4, <2>3, <3>1, <3>2, Zenon DEF Ledger, Promises
      <3>3. CASE j = Len(s.ob_reg) + 1
        BY <1>4, <2>3, <3>1, <3>3, Zenon
      <3> QED BY <1>4, <3>2, <3>3
    <2> QED BY <2>2, <2>3, Zenon DEF Promises
  <1> QED BY <1>1, <1>2, <1>3, <1>5, QueuesCore DEF t

\* Queueing HEADERS that wait for the number of streams to go down keeps Core.
LEMMA AddSynCore ==
  ASSUME NEW s, NEW gone, NEW b, Core(s, gone, b), NEW it \in Item, NEW n \in NextId,
         s.next_stream_id <= n, IsMine(s, n),
         NEW t \in SessionType, t = [s EXCEPT !.ob_syn = Append(@, it), !.next_stream_id = n],
         SynItem(t, it),
         IsRequest(it) =>
           \A i \in 1..Len(s.ob_syn) : IsRequest(s.ob_syn[i]) => s.ob_syn[i].id < it.id
  PROVE  Core(t, gone, b)
  <1> s \in SessionType /\ Ledger(s) /\ s.ob_syn \in Queue
    BY FieldTypes DEF Core
  <1>2. /\ t.ob_syn = Append(s.ob_syn, it) /\ t.ob_reg = s.ob_reg /\ t.ob_urgent = s.ob_urgent
        /\ t.obq_flood_counter = s.obq_flood_counter /\ SameButQueues(s, t)
        /\ t.next_stream_id = n
    BY DEF SessionType, SameButQueues, Onward, IsMine
  <1>3. Promises(t) /\ Acks(t)
    <2>1. \A i \in 1..Len(s.ob_reg) : RegItem(t, s.ob_reg[i])
      <3> TAKE i \in 1..Len(s.ob_reg)
      <3> RegItem(s, s.ob_reg[i]) /\ s.ob_reg[i].arg \in Int
        BY FieldTypes, QueueItems DEF Ledger, Promises
      <3> s.ob_reg[i].arg < s.next_stream_id => s.ob_reg[i].arg < n
        BY FieldTypes DEF NextId
      <3> QED BY <1>2, Zenon DEF RegItem, SameButQueues, IsMine
    <2> QED BY <1>2, <2>1 DEF Ledger, Promises, Acks
  <1>4. /\ t.ob_syn[Len(s.ob_syn) + 1] = it /\ \A i \in 1..Len(s.ob_syn) : t.ob_syn[i] = s.ob_syn[i]
        /\ \A i \in 1..Len(t.ob_syn) : i \in 1..Len(s.ob_syn) \/ i = Len(s.ob_syn) + 1
        /\ Len(s.ob_syn) \in Nat
    BY <1>2, AppendItems, QueueItems
  <1>5. Requests(t)
    <2>1. \A i \in 1..Len(s.ob_syn) : SynItem(t, s.ob_syn[i])
      <3> TAKE i \in 1..Len(s.ob_syn)
      <3> SynItem(s, s.ob_syn[i]) /\ s.ob_syn[i].id \in Int
        BY QueueItems DEF Ledger, Requests
      <3> s.ob_syn[i].id < s.next_stream_id => s.ob_syn[i].id < n
        BY FieldTypes DEF NextId
      <3> QED BY <1>2, Zenon DEF SynItem, SameButQueues, IsMine, Spent
    <2>2. \A i \in 1..Len(t.ob_syn) : SynItem(t, t.ob_syn[i])
      BY <1>4, <2>1, Zenon
    <2>3. ASSUME NEW i \in 1..Len(t.ob_syn), NEW j \in 1..Len(t.ob_syn), i < j,
                 IsRequest(t.ob_syn[i]), IsRequest(t.ob_syn[j])
          PROVE  t.ob_syn[i].id < t.ob_syn[j].id
      <3>1. i \in 1..Len(s.ob_syn)
        BY <1>4, <2>3
      <3>2. CASE j \in 1..Len(s.ob_syn)
        BY <1>4, <2>3, <3>1, <3>2, Zenon DEF Ledger, Requests
      <3>3. CASE j = Len(s.ob_syn) + 1
        BY <1>4, <2>3, <3>1, <3>3, Zenon
      <3> QED BY <1>4, <3>2, <3>3
    <2> QED BY <2>2, <2>3, Zenon DEF Requests
  <1> QED BY <1>2, <1>3, <1>5, QueuesCore

\* The number of ACKs in a queue when an item is added at its end or taken from
\* its head.
LEMMA AcksCounted ==
  ASSUME NEW q \in Queue
  PROVE  /\ Cardinality(AcksIn(q)) \in Nat
         /\ \A it \in Item : Cardinality(AcksIn(Append(q, it))) =
              IF it.aux = "ACK" THEN Cardinality(AcksIn(q)) + 1 ELSE Cardinality(AcksIn(q))
         /\ q # <<>> => Cardinality(AcksIn(Tail(q))) =
              IF Head(q).aux = "ACK" THEN Cardinality(AcksIn(q)) - 1 ELSE Cardinality(AcksIn(q))
  <1>1. ASSUME NEW r \in Queue
        PROVE  IsFiniteSet(AcksIn(r)) /\ Cardinality(AcksIn(r)) \in Nat
    <2>1. Len(r) \in Nat /\ AcksIn(r) \subseteq 1..Len(r)
      BY DEF Queue, AcksIn
    <2>2. IsFiniteSet(1..Len(r))
      BY <2>1, FS_Interval
    <2> QED BY <2>1, <2>2, FS_Subset, FS_CardinalityType
  <1>2. ASSUME NEW it \in Item
        PROVE  Cardinality(AcksIn(Append(q, it))) =
                 IF it.aux = "ACK" THEN Cardinality(AcksIn(q)) + 1 ELSE Cardinality(AcksIn(q))
    <2>1. /\ AcksIn(Append(q, it)) = IF it.aux = "ACK" THEN AcksIn(q) \cup {Len(q) + 1} ELSE AcksIn(q)
          /\ Len(q) + 1 \notin AcksIn(q)
      BY DEF AcksIn, Queue
    <2> QED BY <1>1, <2>1, FS_AddElement
  <1>3. ASSUME q # <<>>
        PROVE  Cardinality(AcksIn(Tail(q))) =
                 IF Head(q).aux = "ACK" THEN Cardinality(AcksIn(q)) - 1 ELSE Cardinality(AcksIn(q))
    <2> DEFINE S == AcksIn(Tail(q))
               T == AcksIn(q) \ {1}
               f == [i \in S |-> i + 1]
    <2>1. /\ Tail(q) \in Queue /\ Len(q) \in Nat \ {0} /\ Len(Tail(q)) = Len(q) - 1
          /\ \A i \in 1..Len(Tail(q)) : Tail(q)[i] = q[i + 1]
          /\ Head(q) = q[1]
      BY <1>3 DEF Queue
    <2>2. \A i \in S : i + 1 \in T /\ i \in Int
      BY <2>1 DEF AcksIn
    <2>3. \A j \in T : j - 1 \in S /\ j \in Int /\ j - 1 + 1 = j
      BY <2>1 DEF AcksIn
    <2>4. 1 \in AcksIn(q) <=> Head(q).aux = "ACK"
      BY <2>1 DEF AcksIn
    <2> HIDE DEF S, T
    <2>5. f \in Bijection(S, T)
      <3>1. f \in [S -> T] /\ (\A i, j \in S : f[i] = f[j] => i = j)
        BY <2>2
      <3>2. \A j \in T : \E i \in S : f[i] = j
        BY <2>3
      <3> QED BY <3>1, <3>2 DEF Bijection, Injection, Surjection, IsInjective
    <2>6. IsFiniteSet(S) /\ ExistsBijection(S, T)
      BY <1>1, <2>1, <2>5, Zenon DEF ExistsBijection, S
    <2>7. Cardinality(T) = Cardinality(S)
      BY <2>6, FS_Bijection
    <2> QED BY <1>1, <2>4, <2>7, FS_RemoveElement DEF S, T
  <1> QED BY <1>1, <1>2, <1>3

\* Queueing a SETTINGS or PING keeps Core, if an ACK is counted in
\* obq_flood_counter.
LEMMA AddUrgentCore ==
  ASSUME NEW s, NEW gone, NEW b, Core(s, gone, b), NEW it \in Item,
         it.type \in {"SETTINGS", "PING"}, NEW t \in SessionType, SameButQueues(s, t),
         t.ob_urgent = Append(s.ob_urgent, it), t.ob_reg = s.ob_reg, t.ob_syn = s.ob_syn,
         t.next_stream_id = s.next_stream_id,
         t.obq_flood_counter = IF it.aux = "ACK" THEN s.obq_flood_counter + 1
                               ELSE s.obq_flood_counter,
         t.obq_flood_counter <= MaxFlood
  PROVE  Core(t, gone, b)
  <1> s \in SessionType /\ Ledger(s) /\ s.ob_urgent \in Queue
    BY FieldTypes DEF Core
  <1>1. Requests(t) /\ Promises(t)
    <2>1. /\ \A x : SynItem(s, x) => SynItem(t, x)
          /\ \A x : RegItem(s, x) => RegItem(t, x)
      BY Zenon DEF SynItem, RegItem, SameButQueues, IsMine, Spent
    <2> QED BY <2>1 DEF Ledger, Requests, Promises
  <1>2. Acks(t)
    <2>1. \A i \in 1..Len(t.ob_urgent) : t.ob_urgent[i].type \in {"SETTINGS", "PING"}
      <3>1. \A i \in 1..Len(s.ob_urgent) : s.ob_urgent[i].type \in {"SETTINGS", "PING"}
        BY Zenon DEF Ledger, Acks
      <3>2. LET r == Append(s.ob_urgent, it)
            IN \A i \in 1..Len(r) : r[i].type \in {"SETTINGS", "PING"}
        BY <3>1, AppendTyped, Zenon
      <3> QED BY <3>2, Zenon
    <2>2. Cardinality(AcksIn(t.ob_urgent)) =
            IF it.aux = "ACK" THEN Cardinality(AcksIn(s.ob_urgent)) + 1
            ELSE Cardinality(AcksIn(s.ob_urgent))
      <3>1. Cardinality(AcksIn(Append(s.ob_urgent, it))) =
              IF it.aux = "ACK" THEN Cardinality(AcksIn(s.ob_urgent)) + 1
              ELSE Cardinality(AcksIn(s.ob_urgent))
        BY AcksCounted, Zenon
      <3> QED BY <3>1, Zenon
    <2>3. s.obq_flood_counter = Cardinality(AcksIn(s.ob_urgent))
      BY Zenon DEF Ledger, Acks
    <2>4. t.obq_flood_counter = Cardinality(AcksIn(t.ob_urgent))
      BY <2>2, <2>3, Zenon
    <2> QED BY <2>1, <2>4, Zenon DEF Acks
  <1> QED BY <1>1, <1>2, QueuesCore

=============================================================================
