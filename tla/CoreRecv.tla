------------------------------- MODULE CoreRecv -------------------------------
(*****************************************************************************)
(* The invariant Safe, which holds between two steps: Core, with what the stage *)
(* of aob says of its item.  The steps of nghttp2_session_mem_recv keep it.  *)
(*****************************************************************************)
EXTENDS SessionProofs, CoreOps

-----------------------------------------------------------------------------
(* The invariant between two steps *)

\* The active DATA item is gone once its last frame has been sent.
GoneNow(s) == s.aob.stage = "SENT" /\ s.aob.item.data

\* The stages of the active outbound item.
Staged(b) == /\ b.stage = "POP" => b.item = NoItem
             /\ b.stage = "NO_COPY" => b.item.type = "DATA"

\* The invariant between two steps.
Safe(s) == Core(s, GoneNow(s), s.aob) /\ Staged(s.aob)

\* A step that keeps Core and leaves aob alone keeps Safe.
LEMMA SafeKept ==
  ASSUME NEW s, Safe(s), NEW t, Core(t, GoneNow(s), s.aob)
  PROVE  Safe(t)
  BY Zenon DEF Safe, Core, GoneNow

\* What Safe says of the active outbound item between two steps.
LEMMA SafeFacts ==
  ASSUME NEW s, Safe(s)
  PROVE  /\ s \in SessionType /\ Core(s, GoneNow(s), s.aob) /\ GoneNow(s) \in BOOLEAN
         /\ s.aob.stage = "POP" => s.aob.item.type # "DATA"
         /\ s.aob.stage # "SENT" => GoneNow(s) = FALSE
         /\ s.aob.stage = "NO_COPY" => s.aob.item.type = "DATA"
         /\ s.aob.item \in Item
  <1>1. s \in SessionType /\ s.aob.item \in Item /\ s.aob.item.data \in BOOLEAN
    BY ActiveFields, ItemFields DEF Safe, Core
  <1> QED BY <1>1 DEF Safe, Staged, GoneNow, NoItem, Frame

\* nghttp2_session_add_settings without ACK keeps Core.
LEMMA PendedCore ==
  ASSUME NEW s, NEW gone, NEW b, Core(s, gone, b), NEW v \in Settings
  PROVE  /\ Core(Pended(s, v), gone, b)
         /\ Pended(s, v).server = s.server /\ Pended(s, v).next_stream_id = s.next_stream_id
  <1> DEFINE it == Frame("SETTINGS", 0)
             t == Pended(s, v)
  <1>1. s \in SessionType /\ Ledger(s) /\ t \in SessionType
    BY PendedType DEF Core
  <1>2. it \in Item /\ it.type = "SETTINGS" /\ it.aux = "NONE"
    BY FrameItem, FrameConstants DEF Frame
  <1>3. \A w : w.server = s.server /\ w.next_stream_id = s.next_stream_id => Onward(s, w)
    BY <1>1, OnwardStays, Zenon
  <1> HIDE DEF it
  <1>4. /\ SameButQueues(s, t) /\ t.ob_urgent = Append(s.ob_urgent, it) /\ t.ob_reg = s.ob_reg
        /\ t.ob_syn = s.ob_syn /\ t.next_stream_id = s.next_stream_id
        /\ t.obq_flood_counter = s.obq_flood_counter
    <2>1. /\ t.server = s.server /\ t.asserts = s.asserts /\ t.aob = s.aob
          /\ t.streams = s.streams /\ t.idleq = s.idleq /\ t.closedq = s.closedq
          /\ t.done = s.done /\ t.heap = s.heap
          /\ t.last_sent_stream_id = s.last_sent_stream_id
          /\ t.last_recv_stream_id = s.last_recv_stream_id
          /\ t.ob_urgent = Append(s.ob_urgent, it) /\ t.ob_reg = s.ob_reg
          /\ t.ob_syn = s.ob_syn /\ t.next_stream_id = s.next_stream_id
          /\ t.obq_flood_counter = s.obq_flood_counter
      BY <1>1 DEF Pended, SessionType, it
    <2> HIDE DEF t
    <2> QED BY <1>3, <2>1, Zenon DEF SameButQueues
  <1>5. s.obq_flood_counter <= MaxFlood
    BY <1>1 DEF Ledger, Acks
  <1> HIDE DEF t
  <1>6. Core(t, gone, b)
    BY <1>1, <1>2, <1>4, <1>5, AddUrgentCore
  <1> QED BY <1>4, <1>6 DEF SameButQueues, t

\* nghttp2_stream_resume_deferred_item keeps Core.
LEMMA ResumeCore ==
  ASSUME NEW s, NEW gone, NEW b, Core(s, gone, b), NEW R
  PROVE  Core(Resume(s, R), gone, b)
  <1> DEFINE m == [id \in StreamId |-> IF id \in R THEN [s.streams[id] EXCEPT !.defer = "NO"]
                                                   ELSE s.streams[id]]
  <1>1. s \in SessionType /\ Resume(s, R) \in SessionType
    BY ResumeType DEF Core
  <1>2. \A x \in Stream : Stays(x, [x EXCEPT !.defer = "NO"]) /\ Stays(x, x)
    BY DEF Stays, SameSlot, SameItem, Open, Stream
  <1>3. \A id \in StreamId : Stays(s.streams[id], m[id])
    BY <1>1, <1>2, StreamOf, Zenon
  <1> HIDE DEF m
  <1>4. Steady(s, [s EXCEPT !.streams = m])
    BY <1>1, <1>3, SteadyMap
  <1>5. Resume(s, R) = [s EXCEPT !.streams = m]
    BY Zenon DEF Resume, m
  <1> QED BY <1>1, <1>4, <1>5, SteadyCore

\* Terminating a session changes neither its role nor what it has received.
LEMMA TerminateFields ==
  ASSUME NEW s \in SessionType, NEW last
  PROVE  /\ Terminate(s, last).server = s.server
         /\ Terminate(s, last).last_recv_stream_id = s.last_recv_stream_id
  <1> DEFINE u == [s EXCEPT !.iframe.state = "IGN_ALL"]
             it == [Frame("GOAWAY", 0) EXCEPT
                      !.arg = Smaller(last, u.local_last_stream_id), !.aux = "TERM_ON_SEND"]
             v == [u EXCEPT !.ob_reg = Append(u.ob_reg, it)]
             w == [v EXCEPT !.goaway_flags = v.goaway_flags \cup {"TERM_ON_SEND"}]
             y == [u EXCEPT !.goaway_flags = u.goaway_flags \cup {"TERM_ON_SEND"}]
  <1>1. Terminate(s, last) \in {s, u, w, y}
    BY Zenon DEF Terminate, AddGoaway, AddReg
  <1> HIDE DEF it
  <1>2. /\ u.server = s.server /\ u.last_recv_stream_id = s.last_recv_stream_id
        /\ w.server = s.server /\ w.last_recv_stream_id = s.last_recv_stream_id
        /\ y.server = s.server /\ y.last_recv_stream_id = s.last_recv_stream_id
    BY DEF SessionType
  <1> HIDE DEF u, w, y
  <1> QED BY <1>1, <1>2

\* nghttp2_session_on_settings_received without ACK leaves the IDs alone.
LEMMA OnSettingsFields ==
  ASSUME NEW s \in SessionType, NEW v \in Settings, NEW invalid, NEW R
  PROVE  /\ OnSettings(s, v, invalid, R, TRUE).server = s.server
         /\ OnSettings(s, v, invalid, R, TRUE).last_recv_stream_id = s.last_recv_stream_id
  <1> DEFINE n == IF v.mcs # -1 THEN v.mcs
                  ELSE IF s.remote_settings_received THEN s.remote_max_concurrent
                  ELSE DefaultMaxConcurrent
             s1 == [s EXCEPT !.remote_max_concurrent = n,
                             !.remote_settings_received = TRUE]
             r1 == Resume(s1, R)
             c == IF v.push = "keep" THEN r1.remote_enable_push ELSE v.push = "on"
             s2 == [r1 EXCEPT !.remote_enable_push = c]
  <1>1. n \in Nat
    BY FieldTypes, SessionAssumption DEF Settings
  <1> HIDE DEF n
  <1>2. s1 \in SessionType
    BY <1>1, ZenonT(60) DEF SessionType
  <1>3. s1.server = s.server /\ s1.last_recv_stream_id = s.last_recv_stream_id
    BY DEF SessionType
  <1> HIDE DEF s1
  <1>4. s2.server = s1.server /\ s2.last_recv_stream_id = s1.last_recv_stream_id
    BY <1>2 DEF Resume, SessionType
  <1>5. /\ ConnectionError(s1).server = s1.server
        /\ ConnectionError(s1).last_recv_stream_id = s1.last_recv_stream_id
    BY <1>2, TerminateFields DEF ConnectionError
  <1> HIDE DEF s2, r1, c
  <1>6. OnSettings(s, v, invalid, R, TRUE) \in {ConnectionError(s1), s2}
    BY Zenon DEF OnSettings, s1, s2, r1, c, n
  <1> QED BY <1>3, <1>4, <1>5, <1>6, ZenonT(30)

\* nghttp2_session_on_settings_received without ACK keeps Core.
LEMMA OnSettingsCore ==
  ASSUME NEW s, NEW gone, NEW b, Core(s, gone, b), NEW v \in Settings, NEW invalid, NEW R,
         NEW noack
  PROVE  Core(OnSettings(s, v, invalid, R, noack), gone, b)
  <1> DEFINE n == IF v.mcs # -1 THEN v.mcs
                  ELSE IF s.remote_settings_received THEN s.remote_max_concurrent
                  ELSE DefaultMaxConcurrent
             s1 == [s EXCEPT !.remote_max_concurrent = n,
                             !.remote_settings_received = TRUE]
             r1 == Resume(s1, R)
             c == IF v.push = "keep" THEN r1.remote_enable_push ELSE v.push = "on"
             s2 == [r1 EXCEPT !.remote_enable_push = c]
  <1>1. s \in SessionType /\ n \in Nat
    BY FieldTypes, SessionAssumption DEF Settings, Core
  <1> HIDE DEF n
  <1>2. s1 \in SessionType
    BY <1>1, ZenonT(60) DEF SessionType
  <1>3. SameButStreams(s, s1) /\ s1.streams = s.streams
    BY <1>1 DEF SameButStreams, SameQueues, SessionType
  <1> HIDE DEF s1
  <1>4. Core(s1, gone, b)
    BY <1>2, <1>3, UnseenCore
  <1>5. Core(r1, gone, b)
    BY <1>4, ResumeCore
  <1> HIDE DEF r1
  <1>7. s2 \in SessionType
    <2>1. r1 \in SessionType /\ r1.remote_enable_push \in BOOLEAN
      BY <1>5, FieldTypes DEF Core
    <2>2. c \in BOOLEAN
      BY <2>1, ZenonT(30)
    <2> HIDE DEF c
    <2> QED BY <2>1, <2>2, ZenonT(60) DEF SessionType
  <1>8. SameButStreams(r1, s2) /\ s2.streams = r1.streams
    BY <1>5, ZenonT(30) DEF SameButStreams, SameQueues, SessionType, Core
  <1> HIDE DEF s2
  <1>9. Core(s2, gone, b)
    BY <1>5, <1>7, <1>8, UnseenCore
  <1>10. Core(ConnectionError(s1), gone, b) /\ Core(AddAck(s2, "SETTINGS"), gone, b)
    BY <1>4, <1>9, ConnectionErrorCore, AddAckCore
  <1>11. OnSettings(s, v, invalid, R, noack) \in {ConnectionError(s1), s2, AddAck(s2, "SETTINGS")}
    BY Zenon DEF OnSettings, s1, s2, r1, c, n
  <1> QED BY <1>9, <1>10, <1>11

\* Adjusting the idle streams touches no stream that is open.
LEMMA AdjustedItem ==
  ASSUME NEW s, NEW gone, NEW b, Core(s, gone, b), NEW id \in StreamId
  PROVE  /\ AdjustIdle(s).streams[id].item = s.streams[id].item
         /\ s.streams[id].item # 0 => Live(AdjustIdle(s), id)
  <1> DEFINE n == Larger(Len(s.idleq) - Smaller(MaxIdle, Larger(MinIdle,
                    Smaller(s.local_max_concurrent, s.pending_max_concurrent))), 0)
             a == SubSeq(s.idleq, n + 1, Len(s.idleq))
  <1>1. s \in SessionType /\ Attached(s)
    BY DEF Core
  <1> HIDE DEF n, a
  <1>2. Calm(s, [s EXCEPT !.streams = DestroyOldest(s, s.idleq, n), !.idleq = a], {})
    BY <1>1, ListedNotLive, DroppedCalm, ZenonT(30)
  <1>3. AdjustIdle(s) = [s EXCEPT !.streams = DestroyOldest(s, s.idleq, n), !.idleq = a]
    BY Zenon DEF AdjustIdle, n, a
  <1>4. SameSlot(s.streams[id], AdjustIdle(s).streams[id])
    BY <1>2, <1>3, Zenon DEF Calm
  <1>5. Live(AdjustIdle(s), id) = Live(s, id)
    BY <1>4, OpenLive, Zenon DEF SameSlot
  <1>6. s.streams[id].item # 0 => Live(s, id)
    BY <1>1, Zenon DEF Attached
  <1> QED BY <1>4, <1>5, <1>6, Zenon DEF SameSlot, SameItem

\* No item is active.
LEMMA PopSafe ==
  ASSUME NEW t, \A g : Core(t, g, [item |-> NoItem, stage |-> "POP"])
  PROVE  Safe(t)
  <1> DEFINE c == [item |-> NoItem, stage |-> "POP"]
  <1>1. \A g : Core(t, g, c)
    OBVIOUS
  <1>2. c.item = NoItem /\ c.stage = "POP"
    OBVIOUS
  <1> HIDE DEF c
  <1>3. t.aob = c
    BY <1>1 DEF Core
  <1> QED BY <1>1, <1>2, <1>3 DEF Safe, Staged

\* The active item has been sent.
LEMMA SentSafe ==
  ASSUME NEW t, NEW b, Core(t, b.item.data, b)
  PROVE  Safe([t EXCEPT !.aob.stage = "SENT"])
  <1> DEFINE d == [b EXCEPT !.stage = "SENT"]
             r == [t EXCEPT !.aob = d]
  <1>1. t \in SessionType /\ t.aob = b /\ b \in ActiveItem
    BY FieldTypes DEF Core
  <1>2. d \in ActiveItem /\ d.item = b.item /\ d.stage = "SENT" /\ b.item.data \in BOOLEAN
    BY <1>1, ItemFields DEF ActiveItem
  <1>3. [t EXCEPT !.aob.stage = "SENT"] = r
    BY <1>1
  <1> HIDE DEF d
  <1>4. Core(r, b.item.data, d)
    BY <1>2, ActiveCore, ZenonT(30)
  <1>5. r.aob = d
    BY <1>4 DEF Core
  <1> HIDE DEF r
  <1>6. GoneNow(r) = b.item.data /\ Staged(r.aob)
    BY <1>2, <1>5 DEF GoneNow, Staged
  <1> QED BY <1>3, <1>4, <1>5, <1>6, ZenonT(30) DEF Safe

\* Safe holds when a frame starts to be sent.
LEMMA StartSendCore ==
  ASSUME NEW s, NEW gone, NEW b, Core(s, gone, b), b.item.type # "DATA", NEW it \in Item,
         it.type = "DATA" => /\ Live(s, it.id) /\ it.addr \in 1..2
                             /\ it.addr = s.streams[it.id].item,
         NEW cont, NEW q, NEW open \in BOOLEAN,
         it.type = "GOAWAY" => q \in Orders(SentCloses([s EXCEPT !.aob.item = it]))
  PROVE  Safe(StartSend(s, it, cont, q, open))
  <1> DEFINE w == OnWire(s, it)
             c == [item |-> it, stage |-> "SEND"]
             s1 == [w EXCEPT !.aob = c]
             t == AfterFrameSent1(s1, q, open)
  <1>1. Core(w, gone, b)
    BY OnWireCore
  <1>2. s \in SessionType /\ w \in SessionType
    BY <1>1 DEF Core
  <1>3. w.streams = s.streams /\ w.server = s.server
    BY <1>2 DEF OnWire, SessionType
  <1>4. c \in ActiveItem /\ c.item = it /\ c.stage = "SEND"
    BY DEF ActiveItem
  <1> HIDE DEF w, c
  <1>5. Core(s1, FALSE, c)
    <2>1. it.type = "DATA" => /\ Live(w, it.id) /\ it.addr \in 1..2
                              /\ it.addr = w.streams[it.id].item
      BY <1>3 DEF Live, Raw
    <2> QED BY <1>1, <1>4, <2>1, ActiveCore, ZenonT(30)
  <1>6. s1 \in SessionType /\ s1.aob = c
    BY <1>5 DEF Core
  <1>7. it.type = "GOAWAY" => q \in Orders(SentCloses(s1))
    <2>1. /\ s1.streams = s.streams /\ s1.server = s.server /\ s1.aob.item = it
      BY <1>2, <1>3, <1>4, <1>6 DEF SessionType
    <2> DEFINE z == [s EXCEPT !.aob.item = it]
    <2>2. z.streams = s.streams /\ z.server = s.server /\ z.aob.item = it
      BY <1>2 DEF SessionType, ActiveItem
    <2> HIDE DEF z, s1
    <2>3. SentCloses(s1) = SentCloses(z)
      <3>1. \A id \in StreamId : Live(s1, id) = Live(z, id) /\ IsMine(s1, id) = IsMine(z, id)
        BY <2>1, <2>2, ZenonT(30) DEF Live, Raw, IsMine
      <3>2. OnGoaway(s1, it.arg, TRUE) = OnGoaway(z, it.arg, TRUE)
        BY <3>1, ZenonT(30) DEF OnGoaway
      <3> QED BY <2>1, <2>2, <3>2, ZenonT(30) DEF SentCloses
    <2> QED BY <2>3 DEF z
  <1>8. s1 = [OnWire(s, it) EXCEPT !.aob = [item |-> it, stage |-> "SEND"]]
    BY DEF w, c
  <1> HIDE DEF s1
  <1>9. Core(t, it.data, c)
    BY <1>4, <1>5, <1>7, AfterFrameSent1Core, ZenonT(30)
  <1>10. t \in SessionType /\ t.aob = c
    BY <1>9 DEF Core
  <1>11. t = AfterFrameSent1([OnWire(s, it) EXCEPT !.aob = [item |-> it, stage |-> "SEND"]], q, open)
    BY <1>8
  <1> HIDE DEF t
  <1>12. Safe([t EXCEPT !.aob.stage = "SENT"])
    BY <1>4, <1>9, SentSafe, ZenonT(30)
  <1>15. Safe(s1)
    <2>1. GoneNow(s1) = FALSE /\ Staged(s1.aob)
      BY <1>4, <1>6 DEF GoneNow, Staged
    <2> QED BY <1>5, <1>6, <2>1, ZenonT(30) DEF Safe
  <1>16. StartSend(s, it, cont, q, open) \in {[t EXCEPT !.aob.stage = "SENT"], s1}
    BY <1>8, <1>11, Zenon DEF StartSend
  <1> QED BY <1>12, <1>15, <1>16

\* Releasing an item and resetting a stream do not depend on each other.
LEMMA FreeAfterRst ==
  ASSUME NEW s \in SessionType, NEW id, NEW it
  PROVE  FreeData(AddRst(s, id), it) = AddRst(FreeData(s, it), id)
  <1> DEFINE h == s.heap \ {<<it.id, it.addr>>}
             u == [s EXCEPT !.heap = h]
             k == CancelAt(s, id)
  <1>1. FreeData(s, it) = u
    BY Zenon DEF FreeData
  <1> HIDE DEF h
  <1>2. /\ u.streams = s.streams /\ u.ob_syn = s.ob_syn /\ u.server = s.server
        /\ u.next_stream_id = s.next_stream_id /\ u.ob_reg = s.ob_reg
    BY DEF SessionType
  <1> HIDE DEF u
  <1>3. /\ Live(u, id) <=> Live(s, id)
        /\ StreamIn(u, id, {"CLOSING"}) <=> StreamIn(s, id, {"CLOSING"})
        /\ CancelAt(u, id) = k
    <2>1. Raw(u, id) <=> Raw(s, id)
      BY <1>2, Zenon DEF Raw
    <2>2. Live(u, id) <=> Live(s, id)
      BY <1>2, <2>1, Zenon DEF Live
    <2>3. StreamIn(u, id, {"CLOSING"}) <=> StreamIn(s, id, {"CLOSING"})
      BY <1>2, <2>2, Zenon DEF StreamIn
    <2>4. CancelAt(u, id) = k
      BY <1>2 DEF CancelAt, IsMine
    <2> QED BY <2>2, <2>3, <2>4
  <1>4. ASSUME NEW a PROVE FreeData([s EXCEPT !.ob_syn = a], it) = [u EXCEPT !.ob_syn = a]
    BY ZenonT(30) DEF FreeData, SessionType, h, u
  <1>5. ASSUME NEW m, NEW a
        PROVE  /\ FreeData([s EXCEPT !.streams = m, !.ob_reg = a], it)
                    = [u EXCEPT !.streams = m, !.ob_reg = a]
               /\ FreeData([s EXCEPT !.ob_reg = a], it) = [u EXCEPT !.ob_reg = a]
    BY ZenonT(30) DEF FreeData, SessionType, h, u
  <1>6. CASE StreamIn(s, id, {"CLOSING"})
    BY <1>1, <1>3, <1>6, Zenon DEF AddRst
  <1>7. CASE ~StreamIn(s, id, {"CLOSING"}) /\ k # 0
    <2> DEFINE a == [s.ob_syn EXCEPT ![k].aux = "CANCELED"]
    <2>1. AddRst(s, id) = [s EXCEPT !.ob_syn = a] /\ AddRst(u, id) = [u EXCEPT !.ob_syn = a]
      BY <1>2, <1>3, <1>7, Zenon DEF AddRst
    <2> QED BY <1>1, <1>4, <2>1
  <1>8. CASE ~StreamIn(s, id, {"CLOSING"}) /\ k = 0
    <2> DEFINE m == [s.streams EXCEPT ![id].state = "CLOSING"]
               a == Append(s.ob_reg, Frame("RST_STREAM", id))
    <2>1. CASE Live(s, id)
      <3>1. /\ AddRst(s, id) = [[s EXCEPT !.streams = m] EXCEPT !.ob_reg =
                                  Append([s EXCEPT !.streams = m].ob_reg, Frame("RST_STREAM", id))]
            /\ AddRst(u, id) = [[u EXCEPT !.streams = m] EXCEPT !.ob_reg =
                                  Append([u EXCEPT !.streams = m].ob_reg, Frame("RST_STREAM", id))]
        BY <1>2, <1>3, <1>8, <2>1, Zenon DEF AddRst, AddRstItem, AddReg
      <3>2. /\ [s EXCEPT !.streams = m].ob_reg = s.ob_reg
            /\ [u EXCEPT !.streams = m].ob_reg = s.ob_reg
        BY DEF SessionType, u
      <3> HIDE DEF m
      <3>3. /\ AddRst(s, id) = [s EXCEPT !.streams = m, !.ob_reg = a]
            /\ AddRst(u, id) = [u EXCEPT !.streams = m, !.ob_reg = a]
        BY <3>1, <3>2, Zenon
      <3>4. FreeData([s EXCEPT !.streams = m, !.ob_reg = a], it)
              = [u EXCEPT !.streams = m, !.ob_reg = a]
        BY <1>5, ZenonT(30)
      <3> QED BY <1>1, <3>3, <3>4, Zenon
    <2>2. CASE ~Live(s, id)
      <3>1. /\ AddRst(s, id) = [s EXCEPT !.ob_reg = a] /\ AddRst(u, id) = [u EXCEPT !.ob_reg = a]
        BY <1>2, <1>3, <1>8, <2>2, Zenon DEF AddRst, AddRstItem, AddReg
      <3> QED BY <1>1, <1>5, <3>1, ZenonT(30)
    <2> QED BY <2>1, <2>2
  <1> QED BY <1>6, <1>7, <1>8

\* A steady step after a calm one.
LEMMA CalmAfter ==
  ASSUME NEW s \in SessionType, NEW u \in SessionType, NEW t \in SessionType, NEW X,
         Calm(s, u, X), Lists(u), Steady(u, t)
  PROVE  Calm(s, t, X) /\ Lists(t)
  <1>1. Calm(u, t, {}) /\ Still(u, t)
    BY DEF Steady
  <1>2. Lists(t)
    <2>1. /\ t.server = u.server /\ t.done = u.done /\ t.idleq = u.idleq /\ t.closedq = u.closedq
          /\ \A id \in StreamId :
               /\ (t.streams[id].state = "IDLE") = (u.streams[id].state = "IDLE")
               /\ t.streams[id].state = "RESERVED" => u.streams[id].state = "RESERVED"
      BY <1>1, Zenon DEF Still, Calm, SameQueues
    <2>2. \A id : IsMine(t, id) <=> IsMine(u, id)
      BY <2>1, Zenon DEF IsMine
    <2>3. \A i \in 1..Len(t.idleq) : t.streams[t.idleq[i]].state = "IDLE"
      <3>1. \A i \in 1..Len(u.idleq) : /\ u.idleq[i] \in StreamId
                                       /\ u.streams[u.idleq[i]].state = "IDLE"
        BY ListItems, Zenon DEF Lists
      <3>2. \A i \in 1..Len(u.idleq) : t.streams[u.idleq[i]].state = "IDLE"
        BY <2>1, <3>1, Zenon
      <3> QED BY <2>1, <3>2, Zenon
    <2>4. \A i, j \in 1..Len(t.idleq) : t.idleq[i] = t.idleq[j] => i = j
      <3>1. \A i, j \in 1..Len(u.idleq) : u.idleq[i] = u.idleq[j] => i = j
        BY DEF Lists
      <3>2. t.idleq = u.idleq
        BY <2>1
      <3> QED BY <3>1, <3>2, Zenon
    <2>5. \A i \in 1..Len(t.closedq) : /\ t.closedq[i] \in t.done /\ ~IsMine(t, t.closedq[i])
                                       /\ t.streams[t.closedq[i]].state # "IDLE"
      <3> TAKE i \in 1..Len(t.closedq)
      <3>1. t.closedq[i] \in StreamId
        BY ListItems
      <3>2. /\ t.closedq[i] \in u.done /\ ~IsMine(u, t.closedq[i])
            /\ u.streams[t.closedq[i]].state # "IDLE"
        <4>1. \A j \in 1..Len(u.closedq) : /\ u.closedq[j] \in u.done
                                           /\ ~IsMine(u, u.closedq[j])
                                           /\ u.streams[u.closedq[j]].state # "IDLE"
          BY Zenon DEF Lists
        <4>2. t.closedq = u.closedq
          BY <2>1, Zenon
        <4> QED BY <4>1, <4>2, Zenon
      <3>3. t.streams[t.closedq[i]].state # "IDLE"
        BY <2>1, <3>1, <3>2
      <3> QED BY <2>1, <2>2, <3>2, <3>3, Zenon
    <2>6. \A id \in StreamId : t.streams[id].state = "RESERVED" => IsMine(t, id) = t.server
      <3> TAKE id \in StreamId
      <3>1. t.streams[id].state = "RESERVED" => IsMine(u, id) = u.server
        BY <2>1, Zenon DEF Lists
      <3>2. IsMine(t, id) = IsMine(u, id)
        BY <2>1 DEF IsMine
      <3> QED BY <2>1, <3>1, <3>2
    <2> QED BY <2>3, <2>4, <2>5, <2>6, Zenon DEF Lists
  <1>3. SameQueues(s, t) /\ t.done = s.done /\ t.heap = s.heap
    BY <1>1, Zenon DEF Calm, SameQueues
  <1>4. Onward(s, t) /\ s.last_recv_stream_id <= t.last_recv_stream_id
    <2> /\ Onward(s, u) /\ Onward(u, t)
        /\ s.last_recv_stream_id <= u.last_recv_stream_id
        /\ u.last_recv_stream_id <= t.last_recv_stream_id
      BY <1>1 DEF Calm
    <2> /\ s.next_stream_id \in Int /\ u.next_stream_id \in Int /\ t.next_stream_id \in Int
        /\ s.last_recv_stream_id \in Int /\ u.last_recv_stream_id \in Int
        /\ t.last_recv_stream_id \in Int
      BY IdNumbers, Zenon
    <2> QED BY DEF Onward
  <1>5. \A id \in StreamId : IF id \in X THEN SameItem(s.streams[id], t.streams[id])
                                         ELSE SameSlot(s.streams[id], t.streams[id])
    <2> TAKE id \in StreamId
    <2>1. SameSlot(u.streams[id], t.streams[id])
      BY <1>1, Zenon DEF Calm
    <2>2. IF id \in X THEN SameItem(s.streams[id], u.streams[id])
                      ELSE SameSlot(s.streams[id], u.streams[id])
      BY Zenon DEF Calm
    <2> QED BY <2>1, <2>2, Zenon DEF SameSlot, SameItem
  <1> QED BY <1>2, <1>3, <1>4, <1>5, Zenon DEF Calm

-----------------------------------------------------------------------------
(* The steps of the receive path *)

\* Core is kept when a frame header has been read.
LEMMA InboundHeadCore ==
  ASSUME NEW s, NEW gone, NEW b, Core(s, gone, b), NEW type \in FrameType, NEW id \in LastId,
         NEW arg \in LastId, NEW end \in BOOLEAN
  PROVE  Core(Inbound(s, type, id, arg, end), gone, b)
  <1>1. s \in SessionType /\ Inbound(s, type, id, arg, end) \in SessionType
    BY InboundType DEF Core
  <1>2. Steady(s, Inbound(s, type, id, arg, end))
    BY <1>1, SteadyField, ZenonT(30) DEF Inbound
  <1> QED BY <1>1, <1>2, SteadyCore

\* nghttp2_session_mem_recv first adjusts the idle streams, which keeps Core;
\* from there a step that keeps Core and leaves aob alone keeps Safe.
LEMMA AdjustedSafe ==
  ASSUME Safe(session)
  PROVE  /\ Core(Adjusted, GoneNow(session), session.aob)
         /\ \A t : Core(t, GoneNow(session), session.aob) => Safe(t)
         /\ session.iframe.id \in LastId /\ session.iframe.arg \in LastId
         /\ Subject(session.iframe) \in LastId
  <1>1. Core(session, GoneNow(session), session.aob) /\ session \in SessionType
    BY SafeFacts, ZenonT(30)
  <1>2. Core(Adjusted, GoneNow(session), session.aob)
    BY <1>1, AdjustCore DEF Adjusted
  <1>3. session.iframe.id \in LastId /\ session.iframe.arg \in LastId
    BY <1>1, FieldTypes, InboundFields
  <1> QED BY <1>2, <1>3, SafeKept DEF Subject

\* Receiving the head of a frame that begins a header block, or carries DATA,
\* keeps Safe.
LEMMA RecvHeadSafe ==
  ASSUME Safe(session), NEW id \in 0..MaxStreamId, NEW pid \in 0..MaxStreamId,
         NEW dep \in 0..MaxStreamId, NEW end \in BOOLEAN, NEW accepted \in BOOLEAN,
         \/ RecvHeaders(id, dep, end, accepted) \/ RecvPushPromise(id, pid, accepted)
         \/ RecvData(id, end)
  PROVE  Safe(session')
  <1> DEFINE g == GoneNow(session)
             b == session.aob
             h == Inbound(Adjusted, "HEADERS", id, 0, end)
             p == Inbound(Adjusted, "PUSH_PROMISE", id, pid, FALSE)
             d == Inbound(Adjusted, "DATA", id, 0, end)
  <1>1. /\ Core(Adjusted, g, b) /\ \A t : Core(t, g, b) => Safe(t)
        /\ id \in LastId /\ pid \in LastId /\ dep \in LastId /\ 0 \in LastId
    BY AdjustedSafe, FrameConstants DEF LastId
  <1> HIDE DEF g, b
  <1>2. Core(h, g, b) /\ Core(p, g, b) /\ Core(d, g, b)
    BY <1>1, InboundHeadCore, FrameConstants, ZenonT(30)
  <1>3. /\ RecvHeaders(id, dep, end, accepted) => session' = ProcessHeaders(h, id, dep, accepted)
        /\ RecvPushPromise(id, pid, accepted) => session' = OnPushPromise(p, id, pid, accepted)
        /\ RecvData(id, end) => session' = OnDataHeader(d, id)
    BY Zenon DEF RecvHeaders, RecvPushPromise, RecvData
  <1> HIDE DEF h, p, d
  <1>4. /\ Core(ProcessHeaders(h, id, dep, accepted), g, b)
        /\ Core(OnPushPromise(p, id, pid, accepted), g, b)
        /\ Core(OnDataHeader(d, id), g, b)
    BY <1>1, <1>2, ProcessHeadersCore, OnPushPromiseCore, FrameHeadCore, ZenonT(30)
  <1> QED BY <1>1, <1>3, <1>4

\* Receiving the rest of a header block keeps Safe.
LEMMA HeaderBlockSafe ==
  ASSUME Safe(session), NEW valid \in BOOLEAN, NEW terminate \in BOOLEAN,
         \/ HeaderFieldFails \/ HeaderBlockError \/ ContinuationExpected
         \/ HeaderBlockEnd(valid, terminate)
  PROVE  Safe(session')
  <1> DEFINE g == GoneNow(session)
             b == session.aob
             a == Adjusted
             x == Subject(session.iframe)
             r == AddRst(a, x)
             e == AfterHeaderBlock(a, valid, terminate)
  <1>1. Core(a, g, b) /\ x \in LastId /\ \A t : Core(t, g, b) => Safe(t)
    BY AdjustedSafe
  <1>2. /\ HeaderFieldFails => session' = [r EXCEPT !.iframe.state = "IGN_HB"]
        /\ HeaderBlockError => session' = CompressionError(a)
        /\ ContinuationExpected => session' = ConnectionError(a)
        /\ HeaderBlockEnd(valid, terminate) =>
             session' = ResetInbound(e) \/ session' = ResetInbound(a)
    BY Zenon DEF HeaderFieldFails, HeaderBlockError, ContinuationExpected, HeaderBlockEnd
  <1> HIDE DEF g, b, a, x
  <1>3. Core(r, g, b) /\ Core(e, g, b) /\ Core(CompressionError(a), g, b)
        /\ Core(ConnectionError(a), g, b)
    BY <1>1, AddRstCore, FrameEndCore, ConnectionErrorCore, ZenonT(30)
  <1> HIDE DEF r, e
  <1>4. /\ Core([r EXCEPT !.iframe.state = "IGN_HB"], g, b)
        /\ Core(ResetInbound(e), g, b) /\ Core(ResetInbound(a), g, b)
    BY <1>1, <1>3, InboundCore, InboundConstants
  <1> QED BY <1>1, <1>2, <1>3, <1>4

\* Receiving the payload of a DATA frame keeps Safe.
LEMMA DataPayloadSafe ==
  ASSUME Safe(session), NEW valid \in BOOLEAN, NEW terminate \in BOOLEAN,
         \/ DataStreamGone \/ DataOverrunsConnection \/ DataOverrunsStream \/ DataInvalid
         \/ DataEnd(valid, terminate) \/ IgnoredDataEnd
  PROVE  Safe(session')
  <1> DEFINE g == GoneNow(session)
             b == session.aob
             a == Adjusted
             x == session.iframe.id
             r == AddRst(a, x)
             e == OnDataEnd(a, valid, terminate)
  <1>1. Core(a, g, b) /\ x \in LastId /\ \A t : Core(t, g, b) => Safe(t)
    BY AdjustedSafe
  <1>2. /\ DataStreamGone => session' = [a EXCEPT !.iframe.state = "IGN_DATA"]
        /\ DataOverrunsConnection => session' = ConnectionError(a)
        /\ DataOverrunsStream => session' = r
        /\ DataInvalid => session' = [r EXCEPT !.iframe.state = "IGN_DATA"]
        /\ DataEnd(valid, terminate) => session' = ResetInbound(e)
        /\ IgnoredDataEnd => session' = ResetInbound(a)
    BY Zenon DEF DataStreamGone, DataOverrunsConnection, DataOverrunsStream, DataInvalid,
                 DataEnd, IgnoredDataEnd
  <1> HIDE DEF g, b, a, x
  <1>3. Core(r, g, b) /\ Core(e, g, b) /\ Core(ConnectionError(a), g, b)
    BY <1>1, AddRstCore, FrameEndCore, ConnectionErrorCore, ZenonT(30)
  <1> HIDE DEF r, e
  <1>4. /\ Core([r EXCEPT !.iframe.state = "IGN_DATA"], g, b)
        /\ Core([a EXCEPT !.iframe.state = "IGN_DATA"], g, b)
        /\ Core(ResetInbound(e), g, b) /\ Core(ResetInbound(a), g, b)
    BY <1>1, <1>3, InboundCore, InboundConstants, ZenonT(30)
  <1> QED BY <1>1, <1>2, <1>3, <1>4

\* Receiving a RST_STREAM, PRIORITY, GOAWAY, PING, the connection's
\* WINDOW_UPDATE or a malformed frame keeps Safe.
LEMMA RecvControlSafe ==
  ASSUME Safe(session), NEW id \in 0..MaxStreamId, NEW dep \in 0..MaxStreamId,
         NEW last \in 0..MaxStreamId, NEW overflow \in BOOLEAN,
         \/ RecvRstStream(id) \/ RecvPriority(id, dep) \/ RecvGoaway(last)
         \/ RecvPing \/ RecvMalformed \/ SettingsExpected
         \/ RecvConnectionWindowUpdate(overflow)
  PROVE  Safe(session')
  <1> DEFINE g == GoneNow(session)
             b == session.aob
             a == Adjusted
             w == [a EXCEPT !.window_open = TRUE]
  <1>1. /\ Core(a, g, b) /\ \A t : Core(t, g, b) => Safe(t)
        /\ id \in LastId /\ dep \in LastId /\ last \in LastId
    BY AdjustedSafe DEF LastId
  <1>2. /\ RecvRstStream(id) => session' = FrameDone(OnRstStream(a, id))
        /\ RecvPriority(id, dep) => session' = FrameDone(OnPriority(a, id, dep))
        /\ RecvGoaway(last) => \E q \in Orders(OnGoaway(a, last, FALSE)) :
             session' = FrameDone(OnGoawayReceived(a, last, q))
        /\ RecvPing => session' = FrameDone(AddAck(a, "PING"))
        /\ RecvMalformed => session' = FrameDone(ConnectionError(a))
        /\ SettingsExpected => session' = ConnectionError(a)
        /\ RecvConnectionWindowUpdate(overflow) =>
             session' = FrameDone(ConnectionError(a)) \/ session' = FrameDone(w)
    BY Zenon DEF RecvRstStream, RecvPriority, RecvGoaway, RecvPing, RecvMalformed,
                 SettingsExpected, RecvConnectionWindowUpdate
  <1> HIDE DEF g, b, a
  <1>3. Core(w, g, b)
    <2>1. a \in SessionType
      BY <1>1 DEF Core
    <2>2. w \in SessionType
      BY <2>1, ZenonT(60) DEF SessionType
    <2> QED BY <1>1, <2>1, <2>2, SteadyField, SteadyCore, ZenonT(30)
  <1> HIDE DEF w
  <1>4. /\ Core(OnRstStream(a, id), g, b) /\ Core(OnPriority(a, id, dep), g, b)
        /\ Core(AddAck(a, "PING"), g, b) /\ Core(ConnectionError(a), g, b)
        /\ \A q \in Orders(OnGoaway(a, last, FALSE)) : Core(OnGoawayReceived(a, last, q), g, b)
    BY <1>1, FrameHeadCore, AddAckCore, ConnectionErrorCore, OnGoawayReceivedCore, ZenonT(30)
  <1>5. \A t : Core(t, g, b) => Core(FrameDone(t), g, b)
    BY InboundCore
  <1> QED BY <1>1, <1>2, <1>3, <1>4, <1>5, Zenon

\* Receiving the SETTINGS of the peer keeps Safe.
LEMMA RecvSettingsSafe ==
  ASSUME Safe(session), NEW v \in PeerSettings, NEW invalid, RecvSettings(v, invalid)
  PROVE  Safe(session')
  <1> DEFINE g == GoneNow(session)
             b == session.aob
             i == Inbound(Adjusted, "SETTINGS", 0, 0, FALSE)
  <1>1. /\ Core(Adjusted, g, b) /\ \A t : Core(t, g, b) => Safe(t)
        /\ v \in Settings /\ 0 \in LastId
    BY AdjustedSafe, InstanceAssumption, FrameConstants
  <1>2. PICK R : session' = FrameDone(OnSettings(i, v, invalid, R, FALSE))
    BY Zenon DEF RecvSettings
  <1> HIDE DEF g, b
  <1>3. Core(i, g, b)
    BY <1>1, InboundHeadCore, FrameConstants, ZenonT(30)
  <1> HIDE DEF i
  <1>4. Core(OnSettings(i, v, invalid, R, FALSE), g, b)
    BY <1>1, <1>3, OnSettingsCore, ZenonT(30)
  <1>5. Core(FrameDone(OnSettings(i, v, invalid, R, FALSE)), g, b)
    BY <1>4, InboundCore, ZenonT(30)
  <1> QED BY <1>1, <1>2, <1>5, ZenonT(30)

\* Receiving the acknowledgement of our SETTINGS keeps Safe.
LEMMA RecvSettingsAckSafe ==
  ASSUME Safe(session), RecvSettingsAck
  PROVE  Safe(session')
  <1> DEFINE g == GoneNow(session)
             c == session.aob
             s == Adjusted
             v == Head(s.inflight_settings)
             l == Tail(s.inflight_settings)
             n == IF v.mcs = -1 THEN s.local_max_concurrent ELSE v.mcs
             b == IF v.push = "keep" THEN s.local_enable_push ELSE v.push = "on"
             s1 == [s EXCEPT !.inflight_settings = l, !.local_max_concurrent = n,
                             !.local_enable_push = b]
  <1>1. Core(s, g, c) /\ s \in SessionType /\ \A t : Core(t, g, c) => Safe(t)
    BY AdjustedSafe DEF Core
  <1>2. /\ s.inflight_settings = <<>> => session' = FrameDone(ConnectionError(s))
        /\ s.inflight_settings # <<>> => session' = FrameDone(s1)
    BY Zenon DEF RecvSettingsAck
  <1> HIDE DEF g, c, s
  <1>3. CASE s.inflight_settings = <<>>
    <2> Core(FrameDone(ConnectionError(s)), g, c)
      BY <1>1, ConnectionErrorCore, InboundCore
    <2> QED BY <1>1, <1>2, <1>3
  <1>4. CASE s.inflight_settings # <<>>
    <2>1. v \in Settings /\ l \in SettingsList
      BY <1>1, <1>4, FieldTypes, SettingsUpdate
    <2> HIDE DEF v, l
    <2>2. n \in Nat /\ b \in BOOLEAN
      BY <1>1, <2>1, FieldTypes, SettingsFields
    <2> HIDE DEF n, b
    <2>3. s1 \in SessionType
      BY <1>1, <2>1, <2>2, ZenonT(60) DEF SessionType
    <2>4. SameButStreams(s, s1) /\ s1.streams = s.streams
      BY <1>1 DEF SameButStreams, SameQueues, SessionType
    <2> HIDE DEF s1
    <2>5. Core(s1, g, c)
      BY <1>1, <2>3, <2>4, UnseenCore
    <2>6. Core(FrameDone(s1), g, c)
      BY <2>5, InboundCore
    <2> QED BY <1>1, <1>2, <1>4, <2>6 DEF s1, n, b, v, l
  <1> QED BY <1>3, <1>4

\* Receiving the WINDOW_UPDATE of a stream keeps Safe.
LEMMA StreamWindowSafe ==
  ASSUME Safe(session), NEW id \in StreamId, NEW overflow, NEW opens,
         RecvStreamWindowUpdate(id, overflow, opens)
  PROVE  Safe(session')
  <1> DEFINE g == GoneNow(session)
             b == session.aob
             a == Adjusted
  <1>1. Core(a, g, b) /\ id \in LastId /\ \A t : Core(t, g, b) => Safe(t)
    BY AdjustedSafe DEF StreamId, LastId
  <1>2. \E t \in {ConnectionError(a), a, AddRst(a, id), Resume(a, {id})} : session' = FrameDone(t)
    BY Zenon DEF RecvStreamWindowUpdate
  <1> HIDE DEF g, b, a
  <1>3. /\ Core(ConnectionError(a), g, b) /\ Core(AddRst(a, id), g, b)
        /\ Core(Resume(a, {id}), g, b)
    BY <1>1, ConnectionErrorCore, AddRstCore, ResumeCore
  <1>4. \A t : Core(t, g, b) => Core(FrameDone(t), g, b)
    BY InboundCore
  <1> QED BY <1>1, <1>2, <1>3, <1>4, Zenon

=============================================================================
