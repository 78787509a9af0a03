------------------------------ MODULE CoreItems -------------------------------
(*****************************************************************************)
(* The DATA item of a stream, and the items taken from the queues: what attaches, *)
(* detaches and frees an item, and what pops the next one, keeps the invariant *)
(* Core of CoreProofs.                                                       *)
(*****************************************************************************)
EXTENDS CoreProofs

-----------------------------------------------------------------------------
(* The DATA item of a stream *)

\* From s to t only aob and the place of one DATA item change.
SameButItem(s, t, id) ==
  /\ t.server = s.server /\ t.asserts = s.asserts
  /\ t.last_sent_stream_id = s.last_sent_stream_id
  /\ t.ob_syn = s.ob_syn /\ t.ob_reg = s.ob_reg /\ t.ob_urgent = s.ob_urgent
  /\ t.obq_flood_counter = s.obq_flood_counter
  /\ t.done = s.done /\ t.idleq = s.idleq /\ t.closedq = s.closedq
  /\ t.next_stream_id = s.next_stream_id /\ t.last_recv_stream_id = s.last_recv_stream_id
  /\ \A i \in StreamId : /\ t.streams[i].state = s.streams[i].state
                         /\ t.streams[i].closed = s.streams[i].closed
                         /\ i # id => t.streams[i] = s.streams[i]

\* Apart from the DATA item nothing of the invariant is touched.
LEMMA ItemCore ==
  ASSUME NEW s, NEW gone, NEW b, Core(s, gone, b), NEW t \in SessionType, NEW id,
         SameButItem(s, t, id), NEW g,
         Held(t, g),
         id \in StreamId => /\ t.streams[id].item = 0 => t.streams[id].defer = "NO"
                            /\ ~Live(s, id) => t.streams[id].item = 0
  PROVE  Core(t, g, t.aob)
  <1>1. /\ s \in SessionType /\ s.asserts /\ Ledger(s) /\ Lists(s) /\ Attached(s)
        /\ Numbered(s) /\ Requests(s) /\ Promises(s) /\ Acks(s)
    BY DEF Core, Ledger
  <1>2. /\ \A i : IsMine(t, i) = IsMine(s, i)
        /\ \A i \in StreamId : /\ Live(t, i) = Live(s, i) /\ Spent(t, i) = Spent(s, i)
                               /\ Known(t, i) = Known(s, i)
    BY Zenon DEF SameButItem, IsMine, Live, Raw, Spent, Known
  <1>3. Numbered(t)
    BY <1>1, <1>2, Zenon DEF Numbered, SameButItem
  <1>4. Requests(t)
    <2>1. \A i \in 1..Len(s.ob_syn) : SynItem(t, s.ob_syn[i])
      <3> TAKE i \in 1..Len(s.ob_syn)
      <3>1. /\ SynItem(s, s.ob_syn[i])
            /\ s.ob_syn[i].type = "HEADERS" => s.ob_syn[i].id \in StreamId
        BY <1>1, QueueItems, FieldTypes DEF Requests
      <3> QED BY <1>2, <3>1, Zenon DEF SynItem, SameButItem
    <2> QED BY <1>1, <2>1, Zenon DEF Requests, SameButItem
  <1>5. Promises(t) /\ Acks(t)
    <2>1. \A x : RegItem(s, x) => RegItem(t, x)
      BY <1>2, Zenon DEF RegItem, SameButItem
    <2> QED BY <1>1, <2>1 DEF Promises, Acks, SameButItem
  <1>6. Lists(t)
    <2>1. /\ t.idleq = s.idleq /\ t.closedq = s.closedq /\ t.done = s.done /\ t.server = s.server
          /\ \A i \in StreamId : t.streams[i].state = s.streams[i].state
      BY Zenon DEF SameButItem
    <2>2. /\ \A i \in 1..Len(s.idleq) : s.idleq[i] \in StreamId
          /\ \A i \in 1..Len(s.closedq) : s.closedq[i] \in StreamId
      BY <1>1, ListItems
    <2>3. \A i : IsMine(t, i) = IsMine(s, i)
      BY <1>2
    <2>4. /\ \A i \in 1..Len(s.idleq) : s.streams[s.idleq[i]].state = "IDLE"
          /\ \A i, j \in 1..Len(s.idleq) : s.idleq[i] = s.idleq[j] => i = j
          /\ \A i \in 1..Len(s.closedq) :
               /\ s.closedq[i] \in s.done /\ ~IsMine(s, s.closedq[i])
               /\ s.streams[s.closedq[i]].state # "IDLE"
          /\ \A i \in StreamId : s.streams[i].state = "RESERVED" => IsMine(s, i) = s.server
      BY <1>1, Zenon DEF Lists
    <2>5. /\ \A i \in 1..Len(s.idleq) : t.streams[s.idleq[i]].state = "IDLE"
          /\ \A i \in 1..Len(s.closedq) : t.streams[s.closedq[i]].state # "IDLE"
      BY <2>1, <2>2, <2>4
    <2>6. /\ \A i \in 1..Len(t.idleq) : t.streams[t.idleq[i]].state = "IDLE"
          /\ \A i, j \in 1..Len(t.idleq) : t.idleq[i] = t.idleq[j] => i = j
      BY <2>1, <2>4, <2>5, ZenonT(30)
    <2>7. \A i \in 1..Len(t.closedq) : /\ t.closedq[i] \in t.done /\ ~IsMine(t, t.closedq[i])
                                       /\ t.streams[t.closedq[i]].state # "IDLE"
      BY <2>1, <2>3, <2>4, <2>5, ZenonT(30)
    <2>8. \A i \in StreamId : t.streams[i].state = "RESERVED" => IsMine(t, i) = t.server
      BY <2>1, <2>3, <2>4, ZenonT(30)
    <2> QED BY <2>6, <2>7, <2>8, ZenonT(30) DEF Lists
  <1>7. Attached(t)
    <2> SUFFICES ASSUME NEW i \in StreamId
                 PROVE  /\ t.streams[i].item = 0 => t.streams[i].defer = "NO"
                        /\ ~Live(t, i) => t.streams[i].item = 0
      BY Zenon DEF Attached
    <2>1. CASE i = id
      BY <1>2, <2>1, Zenon
    <2>2. CASE i # id
      <3> t.streams[i] = s.streams[i] /\ Live(t, i) = Live(s, i)
        BY <1>2, <2>2, Zenon DEF SameButItem
      <3> QED BY <1>1 DEF Attached
    <2> QED BY <2>1, <2>2
  <1> QED BY <1>1, <1>3, <1>4, <1>5, <1>6, <1>7, Zenon DEF Core, Ledger, SameButItem

\* Without an active DATA item on an open stream it does not matter whether it
\* is gone.
LEMMA GoneFree ==
  ASSUME NEW s, NEW gone, NEW b, Core(s, gone, b), NEW g,
         b.item.type = "DATA" => ~Live(s, b.item.id)
  PROVE  Core(s, g, b)
  BY Zenon DEF Core, Held

\* Core is kept when another item becomes active, or the stage of the active
\* one changes.
LEMMA ActiveCore ==
  ASSUME NEW s, NEW gone, NEW b, Core(s, gone, b), NEW c \in ActiveItem, NEW g,
         \/ c.item = b.item /\ g = gone
         \/ c.item.type # "DATA" /\ b.item.type # "DATA"
         \/ /\ b.item.type # "DATA" /\ g = FALSE
            /\ c.item.type = "DATA" => /\ Live(s, c.item.id) /\ c.item.addr \in 1..2
                                       /\ c.item.addr = s.streams[c.item.id].item
         \/ /\ c.item.type # "DATA"
            /\ b.item.type = "DATA" => Live(s, b.item.id) /\ gone = FALSE
  PROVE  Core([s EXCEPT !.aob = c], g, c)
  <1> DEFINE t == [s EXCEPT !.aob = c]
  <1>1. /\ s \in SessionType /\ Held(s, gone) /\ s.aob = b /\ Attached(s) /\ Numbered(s)
        /\ s.streams \in StreamMap
    BY FieldTypes DEF Core, Ledger
  <1>2. t \in SessionType
    BY <1>1, ZenonT(60) DEF SessionType
  <1>3. SameButItem(s, t, 0) /\ t.aob = c /\ t.heap = s.heap /\ t.streams = s.streams
    BY <1>1 DEF SameButItem, SessionType
  <1> HIDE DEF t
  <1>4. \A i : Live(t, i) = Live(s, i) /\ Known(t, i) = Known(s, i)
    BY <1>3, Zenon DEF Live, Raw, Known, IsMine, SameButItem
  <1>5. \A i : Live(s, i) => i \in StreamId /\ Known(s, i)
    BY <1>1, OpenLive, LiveId, Zenon DEF Numbered
  <1>6. \A i \in StreamId, a \in 1..2 :
          /\ Active(t, i, a) <=> c.item.type = "DATA" /\ c.item.id = i /\ c.item.addr = a
          /\ Active(s, i, a) <=> b.item.type = "DATA" /\ b.item.id = i /\ b.item.addr = a
    BY <1>1, <1>3 DEF Active
  <1>7. \A i \in StreamId, a \in 1..2 :
          (<<i, a>> \in s.heap) <=> (s.streams[i].item = a \/ Active(s, i, a))
    BY <1>1, ZenonT(30) DEF Held
  <1>8. b.item.type = "DATA" =>
          /\ b.item.id \in StreamId /\ Known(s, b.item.id) /\ b.item.addr \in 1..2
          /\ Live(s, b.item.id) => ((s.streams[b.item.id].item # b.item.addr) <=> gone)
    BY <1>1 DEF Held
  <1>9. Held(t, g)
    <2>1. \A i \in StreamId, a \in 1..2 :
            (<<i, a>> \in s.heap) <=> (s.streams[i].item = a \/ Active(t, i, a))
      BY <1>5, <1>6, <1>7, <1>8, ZenonT(30)
    <2>2. c.item.type = "DATA" =>
            /\ c.item.id \in StreamId /\ Known(s, c.item.id) /\ c.item.addr \in 1..2
            /\ Live(s, c.item.id) => ((s.streams[c.item.id].item # c.item.addr) <=> g)
      BY <1>5, <1>8
    <2> QED BY <1>3, <1>4, <2>1, <2>2, Zenon DEF Held
  <1>10. 0 \notin StreamId
    BY DEF StreamId
  <1> QED BY <1>2, <1>3, <1>9, <1>10, ItemCore, ZenonT(30) DEF t

\* Detaching the item of a stream from it while aob still points to it keeps
\* Core.
LEMMA DetachCore ==
  ASSUME NEW s, NEW b, Core(s, FALSE, b), b.item.type = "DATA", Live(s, b.item.id)
  PROVE  Core(Detach(s, b.item.id), TRUE, b)
  <1> DEFINE id == b.item.id
             t == Detach(s, id)
  <1>1. /\ s \in SessionType /\ Held(s, FALSE) /\ s.aob = b /\ s.streams \in StreamMap
        /\ id \in StreamId
    BY FieldTypes, LiveId, ZenonT(30) DEF Core
  <1>2. t \in SessionType
    BY <1>1, DetachType
  <1>3. /\ t.streams[id].item = 0 /\ t.streams[id].defer = "NO"
        /\ t.streams[id].state = s.streams[id].state /\ t.streams[id].closed = s.streams[id].closed
        /\ \A i \in StreamId : i # id => t.streams[i] = s.streams[i]
    BY <1>1 DEF Detach, SessionType, StreamMap, Stream
  <1>4. /\ SameButItem(s, t, id) /\ t.aob = s.aob /\ t.heap = s.heap
    <2>1. \A i \in StreamId : /\ t.streams[i].state = s.streams[i].state
                              /\ t.streams[i].closed = s.streams[i].closed
      BY <1>3
    <2>2. /\ t.server = s.server /\ t.asserts = s.asserts
          /\ t.last_sent_stream_id = s.last_sent_stream_id
          /\ t.ob_syn = s.ob_syn /\ t.ob_reg = s.ob_reg /\ t.ob_urgent = s.ob_urgent
          /\ t.obq_flood_counter = s.obq_flood_counter
          /\ t.done = s.done /\ t.idleq = s.idleq /\ t.closedq = s.closedq
          /\ t.next_stream_id = s.next_stream_id
          /\ t.last_recv_stream_id = s.last_recv_stream_id /\ t.aob = s.aob /\ t.heap = s.heap
      BY <1>1 DEF Detach, SessionType
    <2> HIDE DEF t
    <2> QED BY <1>3, <2>1, <2>2, Zenon DEF SameButItem
  <1> HIDE DEF t
  <1>5. \A i \in StreamId : Live(t, i) = Live(s, i) /\ Known(t, i) = Known(s, i)
    BY <1>4, Zenon DEF Live, Raw, Known, IsMine, SameButItem
  <1>6. /\ Known(s, id) /\ b.item.addr \in 1..2 /\ s.streams[id].item = b.item.addr
    BY <1>1 DEF Held
  <1>7. \A i \in StreamId, a \in 1..2 :
          /\ Active(t, i, a) <=> Active(s, i, a)
          /\ Active(s, i, a) <=> id = i /\ b.item.addr = a
          /\ (<<i, a>> \in s.heap) <=> (s.streams[i].item = a \/ Active(s, i, a))
    BY <1>1, <1>4, ZenonT(30) DEF Held, Active
  <1>8. Held(t, TRUE)
    <2>1. \A i \in StreamId, a \in 1..2 :
            (<<i, a>> \in t.heap) <=> (t.streams[i].item = a \/ Active(t, i, a))
      <3> TAKE i \in StreamId, a \in 1..2
      <3>1. (<<i, a>> \in t.heap) <=> (s.streams[i].item = a \/ Active(s, i, a))
        BY <1>4, <1>7, ZenonT(30)
      <3>2. /\ Active(s, i, a) <=> i = id /\ a = b.item.addr
            /\ Active(t, i, a) <=> Active(s, i, a)
        BY <1>7, ZenonT(30)
      <3>3. a # 0
        OBVIOUS
      <3>4. CASE i = id
        <4> t.streams[i].item = 0 /\ s.streams[i].item = b.item.addr
          BY <1>3, <1>6, <3>4
        <4> QED BY <3>1, <3>2, <3>3, <3>4, Zenon
      <3>5. CASE i # id
        <4> t.streams[i].item = s.streams[i].item
          BY <1>3, <3>5
        <4> QED BY <3>1, <3>2, <3>5, Zenon
      <3> QED BY <3>4, <3>5
    <2>2. t.aob.item.type = "DATA" /\ t.aob.item.id = id /\ t.aob.item.addr = b.item.addr
      BY <1>1, <1>4
    <2>3. t.streams[id].item # b.item.addr
      BY <1>3, <1>6
    <2> QED BY <1>1, <1>5, <1>6, <2>1, <2>2, <2>3 DEF Held
  <1> QED BY <1>1, <1>2, <1>3, <1>4, <1>8, ItemCore, ZenonT(30) DEF t

\* active_outbound_item_reset keeps Core: the DATA item it releases is no
\* longer the item of its stream.
LEMMA ReleaseCore ==
  ASSUME NEW s, NEW gone, NEW b, Core(s, gone, b), b.item.type = "DATA",
         Live(s, b.item.id) => gone = TRUE
  PROVE  \A g : Core(ResetAob(FreeData(s, s.aob.item)), g, [item |-> NoItem, stage |-> "POP"])
  <1> DEFINE id == b.item.id
             a0 == b.item.addr
             t == ResetAob(FreeData(s, s.aob.item))
  <1> TAKE g
  <1>1. /\ s \in SessionType /\ Held(s, gone) /\ s.aob = b /\ s.streams \in StreamMap
        /\ Attached(s)
    BY FieldTypes DEF Core
  <1>2. t \in SessionType
    BY <1>1, ResetAobType, FreeDataType
  <1>3. /\ SameButItem(s, t, 0) /\ t.streams = s.streams /\ t.heap = s.heap \ {<<id, a0>>}
        /\ t.aob = [item |-> NoItem, stage |-> "POP"]
    BY <1>1 DEF ResetAob, FreeData, SameButItem, SessionType
  <1>4. t.aob.item.type # "DATA"
    BY <1>3 DEF NoItem, Frame
  <1> HIDE DEF t
  <1>5. id \in StreamId /\ a0 \in 1..2 /\ s.streams[id].item # a0
    BY <1>1 DEF Held, Attached
  <1>6. \A i \in StreamId, a \in 1..2 :
          /\ ~Active(t, i, a) /\ (Active(s, i, a) <=> id = i /\ a0 = a)
          /\ (<<i, a>> \in s.heap) <=> (s.streams[i].item = a \/ Active(s, i, a))
    <2>1. \A i \in StreamId, a \in 1..2 : ~Active(t, i, a)
      BY <1>4 DEF Active
    <2>2. \A i \in StreamId, a \in 1..2 : Active(s, i, a) <=> id = i /\ a0 = a
      BY <1>1 DEF Active
    <2>3. \A i \in StreamId, a \in 1..2 :
            (<<i, a>> \in s.heap) <=> (s.streams[i].item = a \/ Active(s, i, a))
      BY <1>1, ZenonT(30) DEF Held
    <2> QED BY <2>1, <2>2, <2>3, ZenonT(30)
  <1>7. Held(t, g)
    <2>1. \A i \in StreamId, a \in 1..2 :
            (<<i, a>> \in t.heap) <=> (t.streams[i].item = a \/ Active(t, i, a))
      <3> TAKE i \in StreamId, a \in 1..2
      <3>1. (<<i, a>> \in s.heap) <=> (s.streams[i].item = a \/ Active(s, i, a))
        BY <1>6, ZenonT(30)
      <3>2. (Active(s, i, a) <=> i = id /\ a = a0) /\ ~Active(t, i, a)
        BY <1>6, ZenonT(30)
      <3>3. (<<i, a>> \in t.heap) <=> (<<i, a>> \in s.heap /\ ~ (i = id /\ a = a0))
        BY <1>3
      <3>4. t.streams[i].item = s.streams[i].item /\ s.streams[id].item # a0
        BY <1>3, <1>5
      <3> QED BY <3>1, <3>2, <3>3, <3>4, Zenon
    <2> QED BY <1>4, <2>1, Zenon DEF Held
  <1>8. 0 \notin StreamId
    BY DEF StreamId
  <1> QED BY <1>2, <1>3, <1>7, <1>8, ItemCore DEF t

\* session_after_frame_sent2 keeps Core and leaves no item active: a DATA item
\* whose last frame has been sent is released.
LEMMA AfterFrameSent2Core ==
  ASSUME NEW s, NEW b, Core(s, b.item.data, b)
  PROVE  \A g : Core(AfterFrameSent2(s), g, [item |-> NoItem, stage |-> "POP"])
  <1> DEFINE c == [item |-> NoItem, stage |-> "POP"]
             it == s.aob.item
  <1>1. s \in SessionType /\ s.aob = b /\ it \in Item /\ it = b.item /\ it.data \in BOOLEAN
    BY ActiveFields, ItemFields DEF Core
  <1>2. c \in ActiveItem /\ c.item.type # "DATA"
    BY FrameItem, FrameConstants DEF NoItem, ActiveItem, Frame
  <1> TAKE g
  <1> HIDE DEF c, it
  <1>3. CASE it.type # "DATA"
    <2>1. AfterFrameSent2(s) = [s EXCEPT !.aob = c]
      BY <1>3, Zenon DEF AfterFrameSent2, ResetAob, c, it
    <2>2. Core([s EXCEPT !.aob = c], g, c)
      BY <1>1, <1>2, <1>3, ActiveCore, ZenonT(30)
    <2> QED BY <2>1, <2>2 DEF c
  <1>4. CASE it.type = "DATA" /\ it.data
    <2>1. AfterFrameSent2(s) = ResetAob(FreeData(s, s.aob.item))
      BY <1>4, Zenon DEF AfterFrameSent2, it
    <2> QED BY <1>1, <1>4, <2>1, ReleaseCore, ZenonT(30)
  <1>5. CASE it.type = "DATA" /\ ~it.data /\ MaySendData(s, it.id)
    <2>1. AfterFrameSent2(s) = [s EXCEPT !.aob = c]
      BY <1>5, Zenon DEF AfterFrameSent2, ResetAob, c, it
    <2>2. Live(s, it.id) /\ it.data = FALSE
      BY <1>1, <1>5 DEF MaySendData, MaySend
    <2>3. Core([s EXCEPT !.aob = c], g, c)
      BY <1>1, <1>2, <2>2, ActiveCore, ZenonT(30)
    <2> QED BY <2>1, <2>3 DEF c
  <1>6. CASE it.type = "DATA" /\ ~it.data /\ ~MaySendData(s, it.id)
    <2> DEFINE u == IF Live(s, it.id) THEN Detach(s, it.id) ELSE s
    <2>1. AfterFrameSent2(s) = ResetAob(FreeData(u, s.aob.item))
      BY <1>6, Zenon DEF AfterFrameSent2, it
    <2>2. Core(u, TRUE, b)
      <3>1. it.data = FALSE
        BY <1>1, <1>6
      <3>2. CASE Live(s, it.id)
        BY <1>1, <1>6, <3>1, <3>2, DetachCore, ZenonT(30)
      <3>3. CASE ~Live(s, it.id)
        BY <1>1, <3>3, GoneFree, ZenonT(30)
      <3> QED BY <3>2, <3>3, ZenonT(30)
    <2>3. u.aob = s.aob
      BY <1>1, <2>2 DEF Core
    <2> HIDE DEF u
    <2>4. Core(ResetAob(FreeData(u, u.aob.item)), g, [item |-> NoItem, stage |-> "POP"])
      BY <1>1, <1>6, <2>2, ReleaseCore, ZenonT(30)
    <2> QED BY <2>1, <2>3, <2>4
  <1> QED BY <1>1, <1>3, <1>4, <1>5, <1>6

\* Detaching an item that is not active from its stream and releasing it keeps
\* Core.
LEMMA DropItemCore ==
  ASSUME NEW s, NEW gone, NEW b, Core(s, gone, b), b.item.type # "DATA",
         NEW id \in StreamId, NEW it, it.id = id, it.addr = s.streams[id].item,
         s.streams[id].item # 0
  PROVE  Core(FreeData(Detach(s, id), it), gone, b)
  <1> DEFINE t == FreeData(Detach(s, id), it)
             a0 == s.streams[id].item
  <1>1. /\ s \in SessionType /\ Held(s, gone) /\ s.aob = b /\ s.streams \in StreamMap
        /\ s.streams[id] \in Stream
    BY FieldTypes, StreamOf DEF Core
  <1>2. t \in SessionType
    BY <1>1, DetachType, FreeDataType
  <1>3. /\ t.streams[id].item = 0 /\ t.streams[id].defer = "NO"
        /\ t.streams[id].state = s.streams[id].state /\ t.streams[id].closed = s.streams[id].closed
        /\ \A i \in StreamId : i # id => t.streams[i] = s.streams[i]
    BY <1>1 DEF Detach, FreeData, SessionType, StreamMap, Stream
  <1>4. /\ SameButItem(s, t, id) /\ t.aob = s.aob /\ t.heap = s.heap \ {<<id, a0>>}
    <2> \A i \in StreamId : /\ t.streams[i].state = s.streams[i].state
                            /\ t.streams[i].closed = s.streams[i].closed
      BY <1>3
    <2>1. /\ t.server = s.server /\ t.asserts = s.asserts /\ t.aob = s.aob
          /\ t.last_sent_stream_id = s.last_sent_stream_id
          /\ t.ob_syn = s.ob_syn /\ t.ob_reg = s.ob_reg /\ t.ob_urgent = s.ob_urgent
          /\ t.obq_flood_counter = s.obq_flood_counter
          /\ t.done = s.done /\ t.idleq = s.idleq /\ t.closedq = s.closedq
          /\ t.next_stream_id = s.next_stream_id
          /\ t.last_recv_stream_id = s.last_recv_stream_id
      BY <1>1, ZenonT(30) DEF Detach, FreeData, SessionType
    <2>2. t.heap = s.heap \ {<<id, a0>>}
      BY <1>1, ZenonT(30) DEF Detach, FreeData, SessionType
    <2> HIDE DEF t
    <2> QED BY <1>3, <2>1, <2>2, ZenonT(30) DEF SameButItem
  <1> HIDE DEF t
  <1>5. a0 \in 1..2
    BY <1>1 DEF Stream
  <1>6. \A i \in StreamId, a \in 1..2 :
          /\ ~Active(t, i, a) /\ ~Active(s, i, a)
          /\ (<<i, a>> \in s.heap) <=> (s.streams[i].item = a \/ Active(s, i, a))
    BY <1>1, <1>4, ZenonT(30) DEF Held, Active
  <1>7. Held(t, gone)
    <2>1. \A i \in StreamId, a \in 1..2 :
            (<<i, a>> \in t.heap) <=> (t.streams[i].item = a \/ Active(t, i, a))
      <3> TAKE i \in StreamId, a \in 1..2
      <3>1. ((<<i, a>> \in s.heap) <=> (s.streams[i].item = a)) /\ ~Active(t, i, a)
        BY <1>6, ZenonT(30)
      <3>2. (<<i, a>> \in t.heap) <=> (<<i, a>> \in s.heap /\ ~ (i = id /\ a = a0))
        BY <1>4
      <3>3. i = id => t.streams[i].item = 0 /\ s.streams[i].item = a0
        BY <1>3
      <3>4. i # id => t.streams[i].item = s.streams[i].item
        BY <1>3
      <3>5. a # 0
        OBVIOUS
      <3> QED BY <3>1, <3>2, <3>3, <3>4, <3>5, Zenon
    <2> QED BY <1>1, <1>4, <2>1, Zenon DEF Held
  <1> QED BY <1>1, <1>2, <1>3, <1>4, <1>7, ItemCore DEF t

\* nghttp2_submit_data keeps Core: a DATA item is attached to an open stream
\* without one.
LEMMA SubmitDataOnCore ==
  ASSUME NEW s, NEW gone \in BOOLEAN, NEW b, Core(s, gone, b), NEW id
  PROVE  Core(SubmitDataOn(s, id), gone, b)
  <1> SUFFICES ASSUME Live(s, id), s.streams[id].item = 0
               PROVE  Core(SubmitDataOn(s, id), gone, b)
    BY Zenon DEF SubmitDataOn
  <1> DEFINE t == SubmitDataOn(s, id)
             f == Fresh(s, id)
  <1>1. /\ s \in SessionType /\ Held(s, gone) /\ s.aob = b /\ s.streams \in StreamMap
        /\ id \in StreamId /\ s.streams[id].defer = "NO" /\ s.asserts = TRUE
    BY FieldTypes, LiveId, Zenon DEF Core, Attached
  <1>2. t \in SessionType
    BY <1>1, SubmitDataOnType
  <1>3. f \in 1..2
    BY DEF Fresh
  <1>4. t = [s EXCEPT !.heap = s.heap \cup {<<id, f>>}, !.asserts = TRUE,
                      !.streams = [s.streams EXCEPT ![id].item = f]]
    BY <1>1, ZenonT(30) DEF SubmitDataOn
  <1> HIDE DEF f
  <1>5. /\ t.streams = [s.streams EXCEPT ![id].item = f] /\ t.asserts = TRUE
        /\ t.heap = s.heap \cup {<<id, f>>} /\ t.aob = s.aob
    BY <1>1, <1>4 DEF SessionType
  <1>6. /\ t.streams[id].item = f /\ t.streams[id].defer = "NO"
        /\ t.streams[id].state = s.streams[id].state /\ t.streams[id].closed = s.streams[id].closed
        /\ \A i \in StreamId : i # id => t.streams[i] = s.streams[i]
    BY <1>1, <1>5 DEF StreamMap, Stream
  <1>7. SameButItem(s, t, id)
    <2>1. \A i \in StreamId : /\ t.streams[i].state = s.streams[i].state
                              /\ t.streams[i].closed = s.streams[i].closed
      BY <1>6
    <2>2. /\ t.server = s.server /\ t.asserts = s.asserts
          /\ t.last_sent_stream_id = s.last_sent_stream_id
          /\ t.ob_syn = s.ob_syn /\ t.ob_reg = s.ob_reg /\ t.ob_urgent = s.ob_urgent
          /\ t.obq_flood_counter = s.obq_flood_counter
          /\ t.done = s.done /\ t.idleq = s.idleq /\ t.closedq = s.closedq
          /\ t.next_stream_id = s.next_stream_id
          /\ t.last_recv_stream_id = s.last_recv_stream_id
      <3> DEFINE h == s.heap \cup {<<id, f>>}
                 m == [s.streams EXCEPT ![id].item = f]
      <3>1. t = [s EXCEPT !.heap = h, !.asserts = TRUE, !.streams = m]
        BY <1>4
      <3> HIDE DEF h, m, t
      <3> QED BY <1>1, <3>1, ZenonT(30) DEF SessionType
    <2> HIDE DEF t
    <2> QED BY <1>6, <2>1, <2>2, Zenon DEF SameButItem
  <1> HIDE DEF t
  <1>8. \A i \in StreamId : Live(t, i) = Live(s, i) /\ Known(t, i) = Known(s, i)
    BY <1>7, Zenon DEF Live, Raw, Known, IsMine, SameButItem
  <1>9. \A i \in StreamId, a \in 1..2 :
          /\ Active(t, i, a) <=> Active(s, i, a)
          /\ (<<i, a>> \in s.heap) <=> (s.streams[i].item = a \/ Active(s, i, a))
    BY <1>1, <1>5, ZenonT(30) DEF Held, Active
  <1>10. Held(t, gone)
    <2>1. \A i \in StreamId, a \in 1..2 :
            (<<i, a>> \in t.heap) <=> (t.streams[i].item = a \/ Active(t, i, a))
      <3> TAKE i \in StreamId, a \in 1..2
      <3>1. /\ (<<i, a>> \in s.heap) <=> (s.streams[i].item = a \/ Active(s, i, a))
            /\ Active(t, i, a) <=> Active(s, i, a)
        BY <1>9, ZenonT(30)
      <3>2. (<<i, a>> \in t.heap) <=> (<<i, a>> \in s.heap \/ (i = id /\ a = f))
        BY <1>5
      <3>3. i = id => t.streams[i].item = f /\ s.streams[i].item = 0
        BY <1>6
      <3>4. i # id => t.streams[i].item = s.streams[i].item
        BY <1>6
      <3>5. a # 0
        OBVIOUS
      <3> QED BY <3>1, <3>2, <3>3, <3>4, <3>5, Zenon
    <2>2. ASSUME b.item.type = "DATA"
          PROVE  /\ b.item.id \in StreamId /\ Known(t, b.item.id) /\ b.item.addr \in 1..2
                 /\ Live(t, b.item.id) => ((t.streams[b.item.id].item # b.item.addr) <=> gone)
      <3>1. /\ b.item.id \in StreamId /\ Known(s, b.item.id) /\ b.item.addr \in 1..2
            /\ Live(s, b.item.id) => ((s.streams[b.item.id].item # b.item.addr) <=> gone)
        BY <1>1, <2>2 DEF Held
      <3>2. CASE b.item.id # id
        BY <1>6, <1>8, <3>1, <3>2
      <3>3. CASE b.item.id = id
        <4>1. gone
          BY <3>1, <3>3
        <4>2. \A a \in 1..2 : (<<id, a>> \in s.heap) <=> a = b.item.addr
          <5>1. \A a : Active(s, id, a) <=> a = b.item.addr
            BY <1>1, <2>2, <3>3 DEF Active
          <5> TAKE a \in 1..2
          <5>2. (<<id, a>> \in s.heap) <=> (s.streams[id].item = a \/ Active(s, id, a))
            BY <1>1, <1>9, ZenonT(30)
          <5>3. s.streams[id].item # a
            OBVIOUS
          <5> QED BY <5>1, <5>2, <5>3, Zenon
        <4>3. f # b.item.addr
          BY <3>1, <4>2 DEF Fresh, f
        <4> QED BY <1>6, <1>8, <3>1, <3>3, <4>1, <4>3
      <3> QED BY <3>2, <3>3
    <2> QED BY <1>1, <1>5, <2>1, <2>2, Zenon DEF Held
  <1> QED BY <1>1, <1>2, <1>3, <1>5, <1>6, <1>7, <1>10, ItemCore, ZenonT(30) DEF t

-----------------------------------------------------------------------------
(* Taking an item from the queues *)

\* A queue without its head.
LEMMA TailItems ==
  ASSUME NEW q \in Queue, q # <<>>
  PROVE  LET r == Tail(q)
         IN /\ r \in Queue /\ Head(q) \in Item /\ Head(q) = q[1] /\ 1 \in 1..Len(q)
            /\ \A i \in 1..Len(r) : r[i] = q[i + 1] /\ i + 1 \in 1..Len(q) /\ 1 < i + 1
            /\ \A i, j \in 1..Len(r) : i < j => i + 1 < j + 1
  BY QueueUpdate DEF Queue

\* An item that may be sent: the stream it opens is the next one to be announced.
Sendable(s, it) ==
  /\ it \in Item /\ it.type # "DATA"
  /\ it.type = "PUSH_PROMISE" => s.server
  /\ IsRequest(it) \/ it.type = "PUSH_PROMISE" =>
       LET n == OpenedBy(it)
       IN /\ IsMine(s, n) /\ s.last_sent_stream_id < n /\ n < s.next_stream_id
          /\ \A i \in 1..Len(s.ob_syn) : IsRequest(s.ob_syn[i]) => n < s.ob_syn[i].id
          /\ \A i \in 1..Len(s.ob_reg) :
               s.ob_reg[i].type = "PUSH_PROMISE" => n < s.ob_reg[i].arg

\* Taking a SETTINGS or PING from ob_urgent keeps Core.
LEMMA PopUrgentCore ==
  ASSUME NEW s, NEW gone, NEW b, Core(s, gone, b), s.ob_urgent # <<>>
  PROVE  LET it == Head(s.ob_urgent)
             p == PrepBegin(PopControl(s), it)
         IN Core(p, gone, b) /\ Sendable(p, it) /\ it.type # "HEADERS"
  <1> DEFINE q == s.ob_urgent
             it == Head(q)
             c == Cardinality(AcksIn(Tail(q)))
             p == PrepBegin(PopControl(s), it)
             u == [s EXCEPT !.ob_urgent = Tail(q)]
             w == [s EXCEPT !.ob_urgent = Tail(q), !.obq_flood_counter = c]
  <1> /\ s \in SessionType /\ Ledger(s) /\ q \in Queue /\ s.asserts = TRUE
      /\ s.obq_flood_counter \in Nat
    BY FieldTypes DEF Core
  <1>1. it \in Item /\ it.type \in {"SETTINGS", "PING"} /\ Tail(q) \in Queue
    BY TailItems DEF Ledger, Acks
  <1>2. /\ c \in Nat /\ s.obq_flood_counter = IF it.aux = "ACK" THEN c + 1 ELSE c
    BY <1>1, AcksCounted DEF Ledger, Acks
  <1>3. p = w
    <2>1. PopControl(s) = u /\ ~IsRequest(it)
      BY <1>1 DEF PopControl, IsRequest
    <2>2. u.asserts = TRUE /\ u.obq_flood_counter = s.obq_flood_counter
      BY <1>1 DEF SessionType
    <2> HIDE DEF c, it, q
    <2>3. CASE it.aux = "ACK"
      <3>1. /\ (u.asserts /\ u.obq_flood_counter > 0) = TRUE
            /\ Larger(u.obq_flood_counter - 1, 0) = c
        BY <1>2, <2>2, <2>3 DEF Larger
      <3>2. p = [u EXCEPT !.asserts = TRUE, !.obq_flood_counter = c]
        BY <2>1, <2>3, <3>1, Zenon DEF PrepBegin
      <3> QED BY <3>2, ZenonT(30) DEF SessionType
    <2>4. CASE it.aux # "ACK"
      <3>1. p = u /\ c = s.obq_flood_counter
        BY <1>2, <2>1, <2>4, Zenon DEF PrepBegin
      <3> QED BY <3>1, ZenonT(30) DEF SessionType
    <2> QED BY <2>3, <2>4
  <1>4. w \in SessionType
    BY <1>1, <1>2, ZenonT(60) DEF SessionType
  <1>5. /\ SameButQueues(s, w) /\ w.ob_urgent = Tail(q) /\ w.ob_reg = s.ob_reg
        /\ w.ob_syn = s.ob_syn /\ w.next_stream_id = s.next_stream_id
        /\ w.obq_flood_counter = c
    <2> \A v : v.server = s.server /\ v.next_stream_id = s.next_stream_id => Onward(s, v)
      BY OnwardStays, Zenon
    <2>1. /\ w.server = s.server /\ w.asserts = s.asserts /\ w.aob = s.aob
          /\ w.streams = s.streams /\ w.idleq = s.idleq /\ w.closedq = s.closedq
          /\ w.done = s.done /\ w.heap = s.heap
          /\ w.last_sent_stream_id = s.last_sent_stream_id
          /\ w.last_recv_stream_id = s.last_recv_stream_id
          /\ w.ob_urgent = Tail(q) /\ w.ob_reg = s.ob_reg
          /\ w.ob_syn = s.ob_syn /\ w.next_stream_id = s.next_stream_id
          /\ w.obq_flood_counter = c
      BY DEF SessionType
    <2> HIDE DEF w
    <2> QED BY <2>1, Zenon DEF SameButQueues
  <1> HIDE DEF w, p
  <1>6. Requests(w) /\ Promises(w)
    <2>1. /\ \A x : SynItem(s, x) => SynItem(w, x)
          /\ \A x : RegItem(s, x) => RegItem(w, x)
      BY <1>5, Zenon DEF SynItem, RegItem, SameButQueues, IsMine, Spent
    <2> QED BY <1>5, <2>1 DEF Ledger, Requests, Promises
  <1>7. Acks(w)
    <2>1. c <= MaxFlood
      BY <1>2, SessionAssumption DEF Ledger, Acks
    <2>2. \A i \in 1..Len(Tail(q)) : Tail(q)[i].type \in {"SETTINGS", "PING"}
      BY TailItems DEF Ledger, Acks
    <2> QED BY <1>5, <2>1, <2>2 DEF Acks
  <1>8. Core(w, gone, b)
    BY <1>4, <1>5, <1>6, <1>7, QueuesCore
  <1>9. Sendable(w, it)
    BY <1>1 DEF Sendable, IsRequest
  <1> QED BY <1>1, <1>3, <1>8, <1>9 DEF p

\* Taking a frame from ob_reg keeps Core.
LEMMA PopRegCore ==
  ASSUME NEW s, NEW gone, NEW b, Core(s, gone, b), s.ob_urgent = <<>>, s.ob_reg # <<>>
  PROVE  LET it == Head(s.ob_reg)
             p == PrepBegin(PopControl(s), it)
         IN Core(p, gone, b) /\ Sendable(p, it) /\ ~IsRequest(it)
  <1> DEFINE q == s.ob_reg
             it == Head(q)
             r == Tail(q)
             p == PrepBegin(PopControl(s), it)
             w == [s EXCEPT !.ob_reg = r]
  <1> s \in SessionType /\ Ledger(s) /\ q \in Queue
    BY FieldTypes DEF Core
  <1>1. /\ r \in Queue /\ it \in Item /\ it = q[1] /\ 1 \in 1..Len(q)
        /\ \A i \in 1..Len(r) : r[i] = q[i + 1] /\ i + 1 \in 1..Len(q) /\ 1 < i + 1
        /\ \A i, j \in 1..Len(r) : i < j => i + 1 < j + 1
    BY TailItems
  <1>2. RegItem(s, it)
    BY <1>1 DEF Ledger, Promises
  <1> HIDE DEF it
  <1>3. p = w
    BY <1>2, Zenon DEF PopControl, PrepBegin, RegItem
  <1> HIDE DEF r, p
  <1>4. w \in SessionType
    BY <1>1, ZenonT(60) DEF SessionType
  <1>5. /\ SameButQueues(s, w) /\ w.ob_urgent = s.ob_urgent /\ w.ob_reg = r
        /\ w.ob_syn = s.ob_syn /\ w.next_stream_id = s.next_stream_id
        /\ w.obq_flood_counter = s.obq_flood_counter
    <2> \A v : v.server = s.server /\ v.next_stream_id = s.next_stream_id => Onward(s, v)
      BY OnwardStays, Zenon
    <2> QED BY DEF SessionType, SameButQueues
  <1> HIDE DEF w
  <1>6. /\ \A x : SynItem(s, x) => SynItem(w, x)
        /\ \A x : RegItem(s, x) => RegItem(w, x)
    BY <1>5, Zenon DEF SynItem, RegItem, SameButQueues, IsMine, Spent
  <1>7. Requests(w) /\ Acks(w)
    BY <1>5, <1>6 DEF Ledger, Requests, Acks
  <1>8. Promises(w)
    <2>1. /\ \A i \in 1..Len(q) : RegItem(s, q[i])
          /\ \A i, j \in 1..Len(q) :
               i < j /\ q[i].type = "PUSH_PROMISE" /\ q[j].type = "PUSH_PROMISE"
                 => q[i].arg < q[j].arg
      BY DEF Ledger, Promises
    <2>2. \A i \in 1..Len(r) : RegItem(w, r[i])
      BY <1>1, <1>6, <2>1, Zenon
    <2>3. \A i, j \in 1..Len(r) :
            i < j /\ r[i].type = "PUSH_PROMISE" /\ r[j].type = "PUSH_PROMISE"
              => r[i].arg < r[j].arg
      BY <1>1, <2>1, Zenon
    <2> QED BY <1>5, <2>2, <2>3, Zenon DEF Promises
  <1>9. Core(w, gone, b)
    BY <1>4, <1>5, <1>7, <1>8, QueuesCore
  <1>10. Sendable(w, it)
    <2>1. /\ it.type # "DATA" /\ ~IsRequest(it) /\ RegItem(w, it)
      BY <1>2, <1>6 DEF RegItem
    <2>2. ASSUME it.type = "PUSH_PROMISE"
          PROVE  /\ w.server /\ OpenedBy(it) = it.arg
                 /\ IsMine(w, it.arg) /\ w.last_sent_stream_id < it.arg
                 /\ it.arg < w.next_stream_id
      BY <2>1, <2>2 DEF RegItem, OpenedBy
    <2>3. ASSUME it.type = "PUSH_PROMISE", NEW i \in 1..Len(w.ob_syn)
          PROVE  ~IsRequest(w.ob_syn[i])
      BY <1>7, <2>2, <2>3, Zenon DEF Requests, SynItem
    <2>4. ASSUME it.type = "PUSH_PROMISE", NEW i \in 1..Len(w.ob_reg),
                 w.ob_reg[i].type = "PUSH_PROMISE"
          PROVE  it.arg < w.ob_reg[i].arg
      BY <1>1, <1>5, <2>4, Zenon DEF Ledger, Promises
    <2> QED BY <1>1, <2>1, <2>2, <2>3, <2>4, Zenon DEF Sendable
  <1> QED BY <1>2, <1>3, <1>9, <1>10, Zenon DEF p, it, RegItem

\* Taking HEADERS from ob_syn keeps Core; a request opens its stream.
LEMMA PopSynCore ==
  ASSUME NEW s, NEW gone, NEW b, Core(s, gone, b), b.item.type # "DATA",
         s.ob_urgent = <<>>, s.ob_reg = <<>>, s.ob_syn # <<>>
  PROVE  LET it == Head(s.ob_syn)
             p == PrepBegin(PopControl(s), it)
         IN Core(p, gone, b) /\ Sendable(p, it)
  <1> DEFINE q == s.ob_syn
             it == Head(q)
             r == Tail(q)
             p == PrepBegin(PopControl(s), it)
             w == [s EXCEPT !.ob_syn = r]
  <1> s \in SessionType /\ Ledger(s) /\ q \in Queue /\ s.aob = b
    BY FieldTypes DEF Core
  <1>1. /\ r \in Queue /\ it \in Item /\ it = q[1] /\ 1 \in 1..Len(q)
        /\ \A i \in 1..Len(r) : r[i] = q[i + 1] /\ i + 1 \in 1..Len(q) /\ 1 < i + 1
        /\ \A i, j \in 1..Len(r) : i < j => i + 1 < j + 1
    BY TailItems
  <1>2. SynItem(s, it) /\ it.id \in StreamId /\ it.arg \in LastId
    BY <1>1, ItemFields DEF Ledger, Requests, SynItem
  <1> HIDE DEF it
  <1>3. PopControl(s) = w
    BY Zenon DEF PopControl
  <1> HIDE DEF r
  <1>4. w \in SessionType
    BY <1>1, ZenonT(60) DEF SessionType
  <1>5. /\ SameButQueues(s, w) /\ w.ob_urgent = s.ob_urgent /\ w.ob_reg = s.ob_reg
        /\ w.ob_syn = r /\ w.next_stream_id = s.next_stream_id
        /\ w.obq_flood_counter = s.obq_flood_counter
    <2> \A v : v.server = s.server /\ v.next_stream_id = s.next_stream_id => Onward(s, v)
      BY OnwardStays, Zenon
    <2> QED BY DEF SessionType, SameButQueues
  <1> HIDE DEF w
  <1>6. /\ \A x : SynItem(s, x) => SynItem(w, x)
        /\ \A x : RegItem(s, x) => RegItem(w, x)
    BY <1>5, Zenon DEF SynItem, RegItem, SameButQueues, IsMine, Spent
  <1>7. Promises(w) /\ Acks(w)
    BY <1>5, <1>6 DEF Ledger, Promises, Acks
  <1>8. Requests(w)
    BY <1>1, <1>5, <1>6, Zenon DEF Ledger, Requests
  <1>9. Core(w, gone, b)
    BY <1>4, <1>5, <1>7, <1>8, QueuesCore
  <1>10. ASSUME IsRequest(it), NEW i \in 1..Len(w.ob_syn), IsRequest(w.ob_syn[i])
         PROVE  it.id < w.ob_syn[i].id
    BY <1>1, <1>5, <1>10, Zenon DEF Ledger, Requests
  <1>11. CASE ~IsRequest(it)
    <2>1. p = w
      BY <1>2, <1>3, <1>11, Zenon DEF PrepBegin, SynItem
    <2>2. Sendable(w, it)
      BY <1>1, <1>2, <1>11 DEF Sendable, SynItem
    <2> QED BY <1>9, <2>1, <2>2 DEF it
  <1>12. CASE IsRequest(it)
    <2> DEFINE id == it.id
    <2> p = OpenStream(w, id, "INITIAL", it.arg)
      BY <1>3, <1>12, Zenon DEF PrepBegin
    <2> HIDE DEF p
    <2>1. /\ SynItem(w, it) /\ ~Spent(w, id) /\ IsMine(w, id) /\ ~w.server
          /\ w.last_sent_stream_id < id /\ id < w.next_stream_id
      BY <1>2, <1>6, <1>12, Zenon DEF SynItem
    <2>2. p \in SessionType /\ Calm(w, p, {id}) /\ Lists(p)
      BY <1>2, <1>9, <2>1, OpenStreamCalm, Zenon
    <2>3. /\ p.server = w.server /\ p.ob_syn = w.ob_syn /\ p.ob_reg = w.ob_reg
          /\ p.last_sent_stream_id = w.last_sent_stream_id
          /\ w.next_stream_id <= p.next_stream_id
          /\ w.last_recv_stream_id <= p.last_recv_stream_id
      BY <2>2, Zenon DEF Calm, SameQueues, Onward
    <2>4. IsMine(p, id) /\ id < p.next_stream_id
      <3> id \in Int /\ w.next_stream_id \in Nat /\ p.next_stream_id \in Nat
        BY <1>2, <1>4, <2>2, FieldTypes DEF NextId, StreamId
      <3> QED BY <2>1, <2>3 DEF IsMine
    <2>5. Opening(w, p, id)
      <3>1. \A i \in 1..Len(w.ob_syn) : IsRequest(w.ob_syn[i]) => w.ob_syn[i].id # id
        <4> TAKE i \in 1..Len(w.ob_syn)
        <4> w.ob_syn[i].id \in Int /\ id \in Int
          BY <1>1, <1>2, <1>5, QueueItems DEF StreamId
        <4> QED BY <1>10, <1>12
      <3>2. w.aob.item.type # "DATA"
        BY <1>5 DEF SameButQueues
      <3> QED BY <1>2, <2>1, <2>4, <3>1, <3>2, Zenon DEF Opening, Known
    <2>6. Core(p, gone, b)
      <3> \A x \in {id} : Opening(w, p, x)
        BY <2>5
      <3> QED BY <1>9, <2>2, CalmCore
    <2>7. Sendable(p, it)
      <3>1. it.type = "HEADERS" /\ OpenedBy(it) = id
        BY <1>2, <1>12 DEF SynItem, OpenedBy
      <3>2. \A i \in 1..Len(p.ob_reg) : p.ob_reg[i].type # "PUSH_PROMISE"
        BY <1>7, <2>1, <2>3, Zenon DEF Promises, RegItem
      <3>3. \A i \in 1..Len(p.ob_syn) : IsRequest(p.ob_syn[i]) => id < p.ob_syn[i].id
        BY <1>10, <1>12, <2>3, Zenon
      <3>4. p.last_sent_stream_id < id
        BY <2>1, <2>3
      <3>5. it.type # "DATA" /\ it.type # "PUSH_PROMISE"
        BY <3>1
      <3> QED BY <1>1, <2>4, <3>1, <3>2, <3>3, <3>4, <3>5, Zenon DEF Sendable
    <2> QED BY <2>6, <2>7 DEF p, it
  <1> QED BY <1>11, <1>12

\* Core holds after nghttp2_session_pop_next_ob_item and session_prep_frame up
\* to the point where it decides whether the frame may go.
LEMMA PoppedCore ==
  ASSUME NEW s, NEW gone, NEW b, Core(s, gone, b), b.item.type # "DATA",
         ControlItem(s) # NoItem
  PROVE  LET it == ControlItem(s)
             p == PrepBegin(PopControl(s), it)
         IN /\ Core(p, gone, b)
            /\ Sendable(p, [it EXCEPT !.aux = Category(p, it)])
  <1> DEFINE it == ControlItem(s)
             p == PrepBegin(PopControl(s), it)
             j == [it EXCEPT !.aux = Category(p, it)]
  <1>1. Core(p, gone, b) /\ Sendable(p, it)
    <2>1. CASE s.ob_urgent # <<>>
      BY <2>1, PopUrgentCore, Zenon DEF ControlItem
    <2>2. CASE s.ob_urgent = <<>> /\ s.ob_reg # <<>>
      BY <2>2, PopRegCore, Zenon DEF ControlItem
    <2>3. CASE s.ob_urgent = <<>> /\ s.ob_reg = <<>> /\ s.ob_syn # <<>> /\ ~OutgoingMax(s)
      BY <2>3, PopSynCore, Zenon DEF ControlItem
    <2> QED BY <2>1, <2>2, <2>3, Zenon DEF ControlItem
  <1> HIDE DEF p, it
  <1>2. it \in Item
    BY <1>1 DEF Sendable
  <1>3. Category(p, it) \in Aux
    BY <1>2, CategoryType
  <1>4. CASE it.type # "HEADERS" \/ IsRequest(it)
    <2>1. Category(p, it) = it.aux
      BY <1>4, Zenon DEF Category
    <2>2. j = it
      BY <1>2, <2>1 DEF Item
    <2> QED BY <1>1, <2>2 DEF p, it
  <1>5. CASE it.type = "HEADERS" /\ ~IsRequest(it)
    <2>1. Category(p, it) \in {"PUSH_RESPONSE", "RESPONSE", "HEADERS"}
      BY <1>5 DEF Category
    <2> HIDE DEF j
    <2>2. j \in Item /\ j.type = "HEADERS" /\ ~IsRequest(j)
      <3>1. j \in Item
        BY <1>2, <1>3, ZenonT(30) DEF Item, j
      <3>2. j.type = it.type /\ j.aux = Category(p, it)
        BY <1>2 DEF Item, j
      <3> QED BY <1>5, <2>1, <3>1, <3>2 DEF IsRequest
    <2> QED BY <1>1, <2>2 DEF Sendable, p, it, j
  <1> QED BY <1>4, <1>5

\* Core is kept when the ID n of our own is announced in last_sent_stream_id.
LEMMA LastSentCore ==
  ASSUME NEW s, NEW gone, NEW b, Core(s, gone, b), NEW n \in LastId, IsMine(s, n),
         n < s.next_stream_id,
         \A i \in 1..Len(s.ob_syn) : IsRequest(s.ob_syn[i]) => n < s.ob_syn[i].id,
         \A i \in 1..Len(s.ob_reg) :
           s.ob_reg[i].type = "PUSH_PROMISE" => n < s.ob_reg[i].arg
  PROVE  Core([s EXCEPT !.asserts = TRUE, !.last_sent_stream_id = n], gone, b)
  <1> DEFINE t == [s EXCEPT !.asserts = TRUE, !.last_sent_stream_id = n]
  <1>1. /\ s \in SessionType /\ s.asserts = TRUE /\ s.aob = b /\ Lists(s) /\ Attached(s)
        /\ Held(s, gone) /\ Numbered(s) /\ Requests(s) /\ Promises(s) /\ Acks(s)
    BY FieldTypes, ZenonT(30) DEF Core, Ledger
  <1>2. t \in SessionType
    BY <1>1, ZenonT(60) DEF SessionType
  <1>3. /\ t.asserts = TRUE /\ t.last_sent_stream_id = n /\ t.server = s.server
        /\ t.streams = s.streams /\ t.done = s.done /\ t.idleq = s.idleq
        /\ t.closedq = s.closedq /\ t.next_stream_id = s.next_stream_id
        /\ t.last_recv_stream_id = s.last_recv_stream_id /\ t.ob_syn = s.ob_syn
        /\ t.ob_reg = s.ob_reg /\ t.ob_urgent = s.ob_urgent /\ t.heap = s.heap
        /\ t.obq_flood_counter = s.obq_flood_counter /\ t.aob = s.aob
    BY <1>1 DEF SessionType
  <1> HIDE DEF t
  <1>4. /\ \A i : IsMine(t, i) = IsMine(s, i)
        /\ \A i : Live(t, i) = Live(s, i) /\ Spent(t, i) = Spent(s, i) /\ Known(t, i) = Known(s, i)
    BY <1>3, Zenon DEF IsMine, Live, Raw, Spent, Known
  <1>5. Numbered(t)
    BY <1>1, <1>3, <1>4, Zenon DEF Numbered
  <1>6. Requests(t)
    <2>1. \A i \in 1..Len(s.ob_syn) : SynItem(t, s.ob_syn[i])
      <3> TAKE i \in 1..Len(s.ob_syn)
      <3>1. SynItem(s, s.ob_syn[i]) /\ (IsRequest(s.ob_syn[i]) => n < s.ob_syn[i].id)
        BY <1>1 DEF Requests
      <3> QED BY <1>3, <1>4, <3>1, Zenon DEF SynItem
    <2> QED BY <1>1, <1>3, <2>1, ZenonT(30) DEF Requests
  <1>7. Promises(t) /\ Acks(t)
    <2>1. \A i \in 1..Len(s.ob_reg) : RegItem(t, s.ob_reg[i])
      <3> TAKE i \in 1..Len(s.ob_reg)
      <3>1. /\ RegItem(s, s.ob_reg[i])
            /\ s.ob_reg[i].type = "PUSH_PROMISE" => n < s.ob_reg[i].arg
        BY <1>1 DEF Promises
      <3> QED BY <1>3, <1>4, <3>1, Zenon DEF RegItem
    <2>2. Promises(t)
      <3>1. \A i, j \in 1..Len(s.ob_reg) :
              i < j /\ s.ob_reg[i].type = "PUSH_PROMISE" /\ s.ob_reg[j].type = "PUSH_PROMISE"
                => s.ob_reg[i].arg < s.ob_reg[j].arg
        BY <1>1 DEF Promises
      <3> QED BY <1>3, <2>1, <3>1, ZenonT(30) DEF Promises
    <2>3. Acks(t)
      BY <1>1, <1>3, ZenonT(30) DEF Acks
    <2> QED BY <2>2, <2>3
  <1>8. Lists(t) /\ Attached(t)
    <2>1. Lists(t)
      <3>1. \A i \in 1..Len(t.idleq) : t.streams[t.idleq[i]].state = "IDLE"
        BY <1>1, <1>3, ZenonT(30) DEF Lists
      <3>2. \A i, j \in 1..Len(t.idleq) : t.idleq[i] = t.idleq[j] => i = j
        BY <1>1, <1>3, ZenonT(30) DEF Lists
      <3>3. \A i \in 1..Len(t.closedq) : /\ t.closedq[i] \in t.done /\ ~IsMine(s, t.closedq[i])
                                         /\ t.streams[t.closedq[i]].state # "IDLE"
        BY <1>1, <1>3, ZenonT(30) DEF Lists
      <3>4. \A i \in StreamId : t.streams[i].state = "RESERVED" => IsMine(s, i) = t.server
        BY <1>1, <1>3, ZenonT(30) DEF Lists
      <3>5. \A i : IsMine(t, i) = IsMine(s, i)
        BY <1>4
      <3> QED BY <3>1, <3>2, <3>3, <3>4, <3>5, ZenonT(30) DEF Lists
    <2>2. Attached(t)
      BY <1>1, <1>3, <1>4, ZenonT(30) DEF Attached
    <2> QED BY <2>1, <2>2
  <1>9. Held(t, gone)
    <2> \A i, a : Active(t, i, a) = Active(s, i, a)
      BY <1>3, Zenon DEF Active
    <2> QED BY <1>1, <1>3, <1>4, ZenonT(30) DEF Held
  <1> QED BY <1>1, <1>2, <1>3, <1>5, <1>6, <1>7, <1>8, <1>9, Zenon DEF Core, Ledger, t

\* Core is kept when session_prep_frame records the ID of the stream the frame
\* opens.
LEMMA PrepDoneCore ==
  ASSUME NEW s, NEW gone, NEW b, Core(s, gone, b), NEW it, Sendable(s, it)
  PROVE  Core(PrepDone(s, it), gone, b)
  <1> DEFINE n == OpenedBy(it)
             t == [s EXCEPT !.asserts = TRUE, !.last_sent_stream_id = n]
  <1>1. /\ s \in SessionType /\ s.asserts = TRUE /\ Numbered(s) /\ it \in Item
        /\ s.last_sent_stream_id \in Nat
    <2>1. /\ s \in SessionType /\ s.asserts /\ Numbered(s) /\ it \in Item
      BY Zenon DEF Core, Ledger, Sendable
    <2>2. s.asserts \in BOOLEAN /\ s.last_sent_stream_id \in Nat
      BY <2>1, FieldTypes, IdNumbers, Zenon
    <2> QED BY <2>1, <2>2, Zenon
  <1>2. CASE IsRequest(it) \/ it.type = "PUSH_PROMISE"
    <2>1. /\ IsMine(s, n) /\ s.last_sent_stream_id < n /\ n < s.next_stream_id
          /\ \A i \in 1..Len(s.ob_syn) : IsRequest(s.ob_syn[i]) => n < s.ob_syn[i].id
          /\ \A i \in 1..Len(s.ob_reg) :
               s.ob_reg[i].type = "PUSH_PROMISE" => n < s.ob_reg[i].arg
      BY <1>2, Zenon DEF Sendable
    <2>2. n \in LastId
      BY <1>1, <1>2, ItemFields DEF OpenedBy
    <2>3. Core(t, gone, b)
      BY <2>1, <2>2, LastSentCore, ZenonT(30)
    <2>4. CASE IsRequest(it)
      <3>1. n = it.id /\ (s.asserts /\ s.last_sent_stream_id < n) = TRUE
        BY <1>1, <2>1, <2>4 DEF OpenedBy
      <3>2. PrepDone(s, it) = t
        BY <2>4, <3>1, Zenon DEF PrepDone, IsRequest
      <3> QED BY <2>3, <3>2
    <2>5. CASE it.type = "PUSH_PROMISE"
      <3>1. n = it.arg /\ ~IsRequest(it)
        BY <2>5 DEF OpenedBy, IsRequest
      <3>2. s.last_sent_stream_id + 2 <= n
        <4>1. s.server /\ (s.last_sent_stream_id # 0 => IsMine(s, s.last_sent_stream_id))
          BY <1>1, <2>5 DEF Sendable, Numbered
        <4>2. n % 2 = 0 /\ s.last_sent_stream_id % 2 = 0 /\ n \in Nat
          <5>1. n # 0 /\ n \in Nat
            BY <1>1, <2>1, <2>2, SessionAssumption DEF LastId
          <5> HIDE DEF n
          <5>2. n % 2 = 0
            BY <2>1, <4>1, <5>1, ZenonT(30) DEF IsMine
          <5>3. s.last_sent_stream_id % 2 = 0
            <6>1. CASE s.last_sent_stream_id = 0
              BY <6>1
            <6>2. CASE s.last_sent_stream_id # 0
              <7>1. IsMine(s, s.last_sent_stream_id) /\ s.server = TRUE
                BY <1>1, <4>1, <6>2 DEF SessionType
              <7> QED BY <7>1, ZenonT(30) DEF IsMine
            <6> QED BY <6>1, <6>2
          <5> QED BY <5>1, <5>2, <5>3
        <4> HIDE DEF n
        <4> DEFINE m == s.last_sent_stream_id
        <4>3. m \in Nat /\ m % 2 = 0 /\ m < n
          BY <1>1, <2>1, <4>2
        <4> HIDE DEF m
        <4>4. m + 1 # n
          BY <4>2, <4>3
        <4>5. m + 2 <= n
          BY <4>2, <4>3, <4>4
        <4> QED BY <4>5 DEF m
      <3>3. (s.asserts /\ s.last_sent_stream_id + 2 <= n) = TRUE
        BY <1>1, <3>2
      <3>4. PrepDone(s, it) = t
        BY <2>5, <3>1, <3>3, Zenon DEF PrepDone
      <3> QED BY <2>3, <3>4
    <2> QED BY <1>2, <2>4, <2>5
  <1>3. CASE ~ (IsRequest(it) \/ it.type = "PUSH_PROMISE") /\ it.type = "GOAWAY"
    <2> DEFINE u == [s EXCEPT !.local_last_stream_id = it.arg]
    <2>1. PrepDone(s, it) = u
      BY <1>3, Zenon DEF PrepDone
    <2>2. u \in SessionType
      BY <1>1, <1>3, <2>1, PrepDoneType, Zenon
    <2>3. SameButStreams(s, u) /\ u.streams = s.streams
      BY <1>1 DEF SameButStreams, SameQueues, SessionType
    <2> HIDE DEF u
    <2> QED BY <2>1, <2>2, <2>3, UnseenCore
  <1>4. CASE ~ (IsRequest(it) \/ it.type = "PUSH_PROMISE") /\ it.type # "GOAWAY"
    BY <1>4, Zenon DEF PrepDone
  <1> QED BY <1>2, <1>3, <1>4

=============================================================================
