------------------------------- MODULE CoreOps --------------------------------
(*****************************************************************************)
(* What is queued, and what is done about a frame that was received or written, *)
(* keeps the invariant Core of CoreProofs.                                   *)
(*****************************************************************************)
EXTENDS CoreItems

-----------------------------------------------------------------------------
(* Control items and RST_STREAM *)

\* An outbound item with another auxiliary field is an item.
LEMMA ItemAux ==
  ASSUME NEW x \in Item, NEW n \in LastId, NEW y \in Aux
  PROVE  [x EXCEPT !.aux = y] \in Item /\ [x EXCEPT !.arg = n, !.aux = y] \in Item
  BY ZenonT(30) DEF Item, LastId

\* A frame that opens no stream, carries no DATA and is no ACK may wait in ob_reg.
LEMMA PlainRegItem ==
  ASSUME NEW s, NEW it, it.type \notin {"HEADERS", "PUSH_PROMISE", "DATA"}, it.aux # "ACK"
  PROVE  RegItem(s, it)
  BY DEF RegItem, IsRequest

\* Queueing a frame that opens no stream, carries no DATA and is no ACK keeps
\* Core.
LEMMA AddPlainCore ==
  ASSUME NEW s, NEW gone, NEW b, Core(s, gone, b), NEW it \in Item,
         it.type \notin {"HEADERS", "PUSH_PROMISE", "DATA"}, it.aux # "ACK"
  PROVE  Core(AddReg(s, it), gone, b)
  BY PlainRegItem, AddRegCore

\* Queueing a SETTINGS or PING, or the ACK of one, keeps Core.
LEMMA AddAckCore ==
  ASSUME NEW s, NEW gone, NEW b, Core(s, gone, b), NEW type \in {"SETTINGS", "PING"}
  PROVE  Core(AddAck(s, type), gone, b) /\ Core(AddUrgent(s, Frame(type, 0)), gone, b)
  <1> DEFINE it == [Frame(type, 0) EXCEPT !.aux = "ACK"]
             t == [AddUrgent(s, it) EXCEPT !.obq_flood_counter = @ + 1]
             r == Frame(type, 0)
             u == AddUrgent(s, r)
  <1> s \in SessionType /\ Ledger(s)
    BY DEF Core
  <1>0. \A v : v.server = s.server /\ v.next_stream_id = s.next_stream_id => Onward(s, v)
    BY OnwardStays, Zenon
  <1>1. /\ it \in Item /\ it.type \in {"SETTINGS", "PING"} /\ it.aux = "ACK"
        /\ r \in Item /\ r.type \in {"SETTINGS", "PING"} /\ r.aux # "ACK"
    <2> r \in Item /\ r.type = type /\ r.aux = "NONE"
      BY FrameItem, FrameConstants DEF Frame
    <2> it \in Item
      BY ItemAux, FrameConstants, Zenon
    <2> it.type = type /\ it.aux = "ACK"
      BY DEF Frame
    <2> QED OBVIOUS
  <1> HIDE DEF it, r
  <1>4. Core(u, gone, b)
    <2>1. u \in SessionType
      BY <1>1, AddType
    <2>2. /\ SameButQueues(s, u) /\ u.ob_urgent = Append(s.ob_urgent, r) /\ u.ob_reg = s.ob_reg
          /\ u.ob_syn = s.ob_syn /\ u.next_stream_id = s.next_stream_id
          /\ u.obq_flood_counter = s.obq_flood_counter
      BY <1>0 DEF AddUrgent, SessionType, SameButQueues
    <2>3. s.obq_flood_counter <= MaxFlood
      BY DEF Ledger, Acks
    <2> HIDE DEF u
    <2> QED BY <1>1, <2>1, <2>2, <2>3, AddUrgentCore
  <1>2. CASE IsClosing(s) \/ s.obq_flood_counter >= MaxFlood
    <2>1. AddAck(s, type) = s \/ AddAck(s, type) = [s EXCEPT !.fatal = TRUE]
      BY <1>2 DEF AddAck
    <2>2. Steady(s, AddAck(s, type))
      BY <2>1, SteadyField, ZenonT(30)
    <2>3. AddAck(s, type) \in SessionType
      BY AddAckType
    <2> QED BY <2>2, <2>3, <1>4, SteadyCore, Zenon DEF r
  <1>3. CASE ~ (IsClosing(s) \/ s.obq_flood_counter >= MaxFlood)
    <2>1. AddAck(s, type) = t
      BY <1>3, Zenon DEF AddAck, it
    <2>2. t \in SessionType
      BY <2>1, AddAckType, Zenon
    <2>3. /\ SameButQueues(s, t) /\ t.ob_urgent = Append(s.ob_urgent, it) /\ t.ob_reg = s.ob_reg
          /\ t.ob_syn = s.ob_syn /\ t.next_stream_id = s.next_stream_id
          /\ t.obq_flood_counter = s.obq_flood_counter + 1
      <3>1. /\ t.ob_urgent = Append(s.ob_urgent, it) /\ t.ob_reg = s.ob_reg
            /\ t.ob_syn = s.ob_syn /\ t.next_stream_id = s.next_stream_id
            /\ t.obq_flood_counter = s.obq_flood_counter + 1 /\ t.server = s.server
            /\ t.asserts = s.asserts /\ t.aob = s.aob /\ t.streams = s.streams
            /\ t.last_sent_stream_id = s.last_sent_stream_id
            /\ t.last_recv_stream_id = s.last_recv_stream_id
            /\ t.done = s.done /\ t.heap = s.heap
            /\ t.idleq = s.idleq /\ t.closedq = s.closedq
        BY DEF AddUrgent, SessionType
      <3> HIDE DEF t
      <3> QED BY <1>0, <3>1, Zenon DEF SameButQueues
    <2>4. s.obq_flood_counter + 1 <= MaxFlood
      BY <1>3, FieldTypes, SessionAssumption
    <2> HIDE DEF t
    <2>5. Core(t, gone, b)
      BY <1>1, <2>2, <2>3, <2>4, AddUrgentCore
    <2> QED BY <1>4, <2>1, <2>5, Zenon DEF r
  <1> QED BY <1>2, <1>3, <1>4 DEF r

\* nghttp2_session_add_rst_stream keeps Core when it queues a RST_STREAM.
LEMMA AddRstItemCore ==
  ASSUME NEW s, NEW gone, NEW b, Core(s, gone, b), NEW id \in LastId
  PROVE  Core(AddRstItem(s, id), gone, b)
  <1> DEFINE u == IF Live(s, id) THEN [s EXCEPT !.streams[id].state = "CLOSING"] ELSE s
             it == Frame("RST_STREAM", id)
  <1>1. Core(u, gone, b)
    <2>1. CASE Live(s, id)
      <3> DEFINE v == [s EXCEPT !.streams[id].state = "CLOSING"]
      <3>1. v \in SessionType /\ Steady(s, v)
        BY <2>1, LiveId, SetStreamField, SteadyStream, StateConstants, ZenonT(30) DEF Core
      <3> HIDE DEF v
      <3>2. Core(v, gone, b)
        BY <3>1, SteadyCore
      <3> QED BY <2>1, <3>2, Zenon DEF v
    <2> QED BY <2>1
  <1>2. it \in Item /\ it.type = "RST_STREAM" /\ it.aux = "NONE"
    BY FrameItem, FrameConstants DEF Frame
  <1> HIDE DEF u, it
  <1>3. Core(AddReg(u, it), gone, b)
    BY <1>1, <1>2, AddPlainCore
  <1> QED BY <1>3, Zenon DEF AddRstItem, u, it

\* nghttp2_session_add_rst_stream keeps Core when it cancels a pending request.
LEMMA CanceledCore ==
  ASSUME NEW s, NEW gone, NEW b, Core(s, gone, b), NEW id \in LastId, CancelAt(s, id) # 0
  PROVE  Core([s EXCEPT !.ob_syn[CancelAt(s, id)].aux = "CANCELED"], gone, b)
  <1> DEFINE q == s.ob_syn
             at == {i \in 1..Len(q) : q[i].id >= id /\ \A j \in 1..i-1 : q[j].id < id}
             k == CancelAt(s, id)
             x == [q[k] EXCEPT !.aux = "CANCELED"]
             r == [q EXCEPT ![k] = x]
             t == [s EXCEPT !.ob_syn = r]
  <1> s \in SessionType /\ Ledger(s) /\ q \in Queue
    BY FieldTypes DEF Core
  <1>1. /\ ~s.server /\ IsMine(s, id) /\ k = CHOOSE i \in at : TRUE
        /\ \E i \in at : q[i].id = id
    BY Zenon DEF CancelAt
  <1>2. \A i \in 1..Len(q) : q[i].id \in Int
    BY QueueItems
  <1>3. k \in 1..Len(q) /\ q[k].id = id
    <2>1. k \in at
      BY <1>1, ZenonT(30)
    <2>2. PICK i \in at : q[i].id = id
      BY <1>1
    <2>3. i = k
      <3>1. Len(q) \in Nat /\ i \in 1..Len(q) /\ k \in 1..Len(q) /\ id \in Int
        BY <2>1, <2>2, QueueItems DEF LastId
      <3>2. ~(i < k) /\ ~(k < i)
        BY <1>2, <2>1, <2>2, <3>1
      <3> QED BY <3>1, <3>2
    <2> QED BY <2>1, <2>2, <2>3
  <1> HIDE DEF k
  <1>4. IsRequest(q[k]) /\ q[k].type = "HEADERS" /\ SynItem(s, q[k]) /\ q[k] \in Item
    BY <1>1, <1>3, QueueItems, ZenonT(30) DEF Ledger, Requests, SynItem
  <1>5. x \in Item /\ x.id = q[k].id /\ IsRequest(x) /\ x.type = "HEADERS" /\ x.aux = "CANCELED"
    <2>1. x \in Item
      BY <1>4, ItemAux, FrameConstants, Zenon
    <2> QED BY <1>4, <2>1 DEF IsRequest, Item
  <1> HIDE DEF x
  <1>6. r \in Queue /\ Len(r) = Len(q) /\ \A i \in 1..Len(q) : r[i] = IF i = k THEN x ELSE q[i]
    BY <1>3, <1>5, QueueUpdate DEF Queue
  <1> HIDE DEF r
  <1>7. /\ [s EXCEPT !.ob_syn[k].aux = "CANCELED"] = t /\ t \in SessionType
    <2>1. [s EXCEPT !.ob_syn[k].aux = "CANCELED"] = t
      BY Zenon DEF r, x
    <2> QED BY <1>6, <2>1, ZenonT(60) DEF SessionType
  <1>8. /\ t.ob_syn = r /\ t.ob_reg = s.ob_reg /\ t.ob_urgent = s.ob_urgent
        /\ t.obq_flood_counter = s.obq_flood_counter /\ SameButQueues(s, t)
        /\ t.next_stream_id = s.next_stream_id
    <2> \A v : v.server = s.server /\ v.next_stream_id = s.next_stream_id => Onward(s, v)
      BY OnwardStays, Zenon
    <2> QED BY DEF SessionType, SameButQueues
  <1> HIDE DEF t
  <1>9. Promises(t) /\ Acks(t) /\ \A y : SynItem(s, y) => SynItem(t, y)
    <2>1. /\ \A y : SynItem(s, y) => SynItem(t, y)
          /\ \A y : RegItem(s, y) => RegItem(t, y)
      BY <1>8, Zenon DEF SynItem, RegItem, SameButQueues, IsMine, Spent
    <2> QED BY <1>8, <2>1 DEF Ledger, Promises, Acks
  <1>10. Requests(t)
    <2>1. SynItem(s, x)
      BY <1>4, <1>5, Zenon DEF SynItem
    <2>2. \A i \in 1..Len(t.ob_syn) : SynItem(t, t.ob_syn[i])
      BY <1>6, <1>8, <1>9, <2>1, Zenon DEF Ledger, Requests
    <2>3. \A i \in 1..Len(q) : r[i].id = q[i].id /\ (IsRequest(r[i]) <=> IsRequest(q[i]))
      BY <1>4, <1>5, <1>6, Zenon
    <2> QED BY <1>6, <1>8, <2>2, <2>3, Zenon DEF Ledger, Requests
  <1> QED BY <1>7, <1>8, <1>9, <1>10, QueuesCore DEF k

\* nghttp2_session_add_rst_stream keeps Core.
LEMMA AddRstCore ==
  ASSUME NEW s, NEW gone, NEW b, Core(s, gone, b), NEW id \in LastId
  PROVE  Core(AddRst(s, id), gone, b)
  BY AddRstItemCore, CanceledCore, Zenon DEF AddRst

\* nghttp2_session_add_goaway keeps Core.
LEMMA AddGoawayCore ==
  ASSUME NEW s, NEW gone, NEW b, Core(s, gone, b), NEW last \in LastId,
         NEW aux \in Aux \ {"ACK"}
  PROVE  Core(AddGoaway(s, last, aux), gone, b)
  <1> DEFINE n == Smaller(last, s.local_last_stream_id)
             it == [Frame("GOAWAY", 0) EXCEPT !.arg = n, !.aux = aux]
  <1> n \in LastId
    BY FieldTypes DEF Smaller, Core
  <1> HIDE DEF n
  <1>1. it \in Item
    <2> Frame("GOAWAY", 0) \in Item
      BY FrameItem, FrameConstants
    <2> QED BY ItemAux, Zenon
  <1>2. it.type = "GOAWAY" /\ it.aux = aux
    BY DEF Frame
  <1> HIDE DEF it
  <1>3. Core(AddReg(s, it), gone, b)
    BY <1>1, <1>2, AddPlainCore
  <1> QED BY <1>3, Zenon DEF AddGoaway, it, n

\* nghttp2_session_terminate_session keeps Core.
LEMMA TerminateCore ==
  ASSUME NEW s, NEW gone, NEW b, Core(s, gone, b), NEW last \in LastId
  PROVE  Core(Terminate(s, last), gone, b)
  <1> DEFINE u == [s EXCEPT !.iframe.state = "IGN_ALL"]
             v == AddGoaway(u, last, "TERM_ON_SEND")
             w == [v EXCEPT !.goaway_flags = v.goaway_flags \cup {"TERM_ON_SEND"}]
  <1>1. Core(u, gone, b)
    BY InboundCore, InboundConstants
  <1> HIDE DEF u
  <1>2. Core(v, gone, b)
    BY <1>1, AddGoawayCore, FrameConstants
  <1> HIDE DEF v
  <1>3. v \in SessionType /\ v.goaway_flags \in GoawayFlags
    BY <1>2, FieldTypes DEF Core
  <1>4. w \in SessionType
    <2> v.goaway_flags \cup {"TERM_ON_SEND"} \in GoawayFlags
      BY <1>3 DEF GoawayFlags
    <2> QED BY <1>3, ZenonT(60) DEF SessionType
  <1>5. SameButStreams(v, w) /\ w.streams = v.streams
    BY <1>3 DEF SameButStreams, SameQueues, SessionType
  <1>6. Core(w, gone, b)
    BY <1>2, <1>4, <1>5, UnseenCore, ZenonT(30)
  <1>7. Terminate(s, last) \in {s, u, w}
    BY Zenon DEF Terminate, u, v
  <1> HIDE DEF w
  <1> QED BY <1>1, <1>6, <1>7

\* A connection error, which terminates the session, keeps Core.
LEMMA ConnectionErrorCore ==
  ASSUME NEW s, NEW gone, NEW b, Core(s, gone, b)
  PROVE  Core(ConnectionError(s), gone, b)
  BY TerminateCore, FieldTypes DEF ConnectionError, Core

-----------------------------------------------------------------------------
(* Frames received and streams refused *)

\* Core is kept when a frame is refused: the session is terminated, the frame
\* ignored or its stream reset.
LEMMA RefusedCore ==
  ASSUME NEW s, NEW gone, NEW b, Core(s, gone, b), NEW id \in LastId
  PROVE  /\ Core(IgnoreBlock(ConnectionError(s)), gone, b) /\ Core(IgnoreBlock(s), gone, b)
         /\ Core(IgnoreBlock(AddRst(s, id)), gone, b)
         /\ Core([s EXCEPT !.last_proc_stream_id = id], gone, b)
  <1>1. [s EXCEPT !.last_proc_stream_id = id] \in SessionType
    BY SetLastStream, ZenonT(30) DEF Core
  <1>2. Steady(s, [s EXCEPT !.last_proc_stream_id = id])
    BY SteadyField, ZenonT(30) DEF Core
  <1>3. Core([s EXCEPT !.last_proc_stream_id = id], gone, b)
    BY <1>1, <1>2, SteadyCore
  <1> QED BY <1>3, ConnectionErrorCore, AddRstCore, InboundCore, Zenon

\* Changing the state of an open stream keeps Core.
LEMMA SetStateCore ==
  ASSUME NEW s, NEW gone, NEW b, Core(s, gone, b), NEW id, Live(s, id),
         NEW st \in {"OPENING", "OPENED", "CLOSING"}
  PROVE  Core([s EXCEPT !.streams[id].state = st], gone, b)
  <1>1. id \in StreamId /\ s \in SessionType /\ st \in StreamState
    BY LiveId, StateConstants DEF Core
  <1>2. [s EXCEPT !.streams[id].state = st] \in SessionType
    BY <1>1, SetStreamField, StateConstants, ZenonT(30)
  <1>3. Steady(s, [s EXCEPT !.streams[id].state = st])
    BY <1>1, SteadyStream, ZenonT(30)
  <1> QED BY <1>2, <1>3, SteadyCore

\* Core is kept when on_begin_headers_callback has run, whatever it returns.
LEMMA BeginBlockCore ==
  ASSUME NEW s, NEW gone, NEW b, Core(s, gone, b), NEW id \in LastId, NEW accepted
  PROVE  Core(BeginBlock(s, id, accepted), gone, b)
  BY RefusedCore, InboundCore, InboundConstants, ZenonT(30) DEF BeginBlock

\* Core is kept when the peer opens or promises a stream.
LEMMA OpenPeerCore ==
  ASSUME NEW s, NEW gone, NEW b, Core(s, gone, b), NEW id \in LastId, IsNewPeerId(s, id),
         NEW dep \in LastId, NEW state \in {"OPENING", "RESERVED"},
         state = "RESERVED" => ~s.server
  PROVE  LET u == [s EXCEPT !.last_recv_stream_id = id]
         IN Core(u, gone, b) /\ Core(OpenStream(u, id, state, dep), gone, b)
  <1> DEFINE u == [s EXCEPT !.last_recv_stream_id = id]
             t == OpenStream(u, id, state, dep)
  <1>1. /\ s \in SessionType /\ id \in StreamId /\ id \in Int /\ ~IsMine(s, id)
        /\ s.last_recv_stream_id < id /\ s.last_recv_stream_id \in Int
    BY FieldTypes, SessionAssumption DEF IsNewPeerId, LastId, StreamId, Core
  <1>2. u \in SessionType /\ Steady(s, u)
    <2> s.last_recv_stream_id <= id
      BY <1>1
    <2> QED BY <1>1, SetLastStream, SteadyField, ZenonT(30)
  <1>3. /\ u.last_recv_stream_id = id /\ u.streams = s.streams /\ u.done = s.done
        /\ u.server = s.server /\ u.ob_syn = s.ob_syn /\ u.aob = s.aob
    BY <1>1 DEF SessionType
  <1> HIDE DEF u
  <1>4. Core(u, gone, b)
    BY <1>2, SteadyCore
  <1>5. ~Spent(s, id) /\ (s.aob.item.type = "DATA" => s.aob.item.id # id)
    <2> ~Known(s, id)
      BY <1>1 DEF Known
    <2> QED BY <1>1, UnknownNotSpent
  <1>6. ~Spent(u, id) /\ ~IsMine(u, id)
    BY <1>1, <1>3, <1>5 DEF Spent, IsMine
  <1>7. t \in SessionType /\ Calm(u, t, {id}) /\ Lists(t)
    <2>1. state \in {"INITIAL", "OPENING", "RESERVED"} /\ IsMine(u, id) = FALSE
          /\ (state = "RESERVED" => u.server = FALSE)
      BY <1>2, <1>3, <1>6, FieldTypes DEF IsMine
    <2>2. state = "RESERVED" => IsMine(u, id) = u.server
      BY <2>1, ZenonT(30)
    <2> QED BY <1>1, <1>4, <1>6, <2>1, <2>2, OpenStreamCalm, Zenon
  <1> HIDE DEF t
  <1>8. Opening(u, t, id)
    <2>1. t.server = u.server /\ u.last_recv_stream_id <= t.last_recv_stream_id
      BY <1>7, Zenon DEF Calm, SameQueues
    <2>2. Known(t, id)
      BY <1>3, <1>6, <2>1 DEF Known, IsMine
    <2>3. \A i \in 1..Len(u.ob_syn) : IsRequest(u.ob_syn[i]) => u.ob_syn[i].id # id
      BY <1>4, <1>6, Zenon DEF Core, Ledger, Requests, SynItem
    <2> QED BY <1>1, <1>3, <1>5, <1>6, <2>2, <2>3, Zenon DEF Opening
  <1>9. Core(t, gone, b)
    <2> \A x \in {id} : Opening(u, t, x)
      BY <1>8
    <2> QED BY <1>4, <1>7, CalmCore
  <1> QED BY <1>4, <1>9 DEF u, t

\* nghttp2_session_on_request_headers_received keeps Core.
LEMMA OnRequestHeadersCore ==
  ASSUME NEW s, NEW gone, NEW b, Core(s, gone, b), NEW id \in LastId, NEW dep \in LastId,
         NEW accepted
  PROVE  Core(OnRequestHeaders(s, id, dep, accepted), gone, b)
  <1> DEFINE u == [s EXCEPT !.last_recv_stream_id = id]
             t == OpenStream(u, id, "OPENING", dep)
             v == [AdjustClosed(t) EXCEPT !.last_proc_stream_id = id]
  <1>1. /\ Core(IgnoreBlock(ConnectionError(s)), gone, b) /\ Core(IgnoreBlock(s), gone, b)
    BY RefusedCore, ZenonT(30)
  <1>2. CASE ~ (/\ ~ (id = 0 \/ (~s.server /\ DetectIdle(s, id)))
                /\ s.server /\ IsNewPeerId(s, id))
    BY <1>1, <1>2, Zenon DEF OnRequestHeaders
  <1>3. CASE /\ ~ (id = 0 \/ (~s.server /\ DetectIdle(s, id)))
             /\ s.server /\ IsNewPeerId(s, id)
    <2>1. Core(u, gone, b) /\ Core(t, gone, b)
      BY <1>3, OpenPeerCore
    <2> HIDE DEF u, t
    <2>2. Core(AdjustClosed(t), gone, b)
      BY <2>1, AdjustCore
    <2>3. Core(v, gone, b)
      BY <2>2, RefusedCore
    <2>4. /\ Core(BeginBlock(v, id, accepted), gone, b)
          /\ Core(IgnoreBlock(ConnectionError(u)), gone, b) /\ Core(IgnoreBlock(u), gone, b)
          /\ Core(IgnoreBlock(AddRst(u, id)), gone, b)
      BY <2>1, <2>3, BeginBlockCore, RefusedCore, ZenonT(30)
    <2>5. OnRequestHeaders(s, id, dep, accepted) \in
            {BeginBlock(v, id, accepted), IgnoreBlock(ConnectionError(u)), IgnoreBlock(u),
             IgnoreBlock(AddRst(u, id))}
      BY <1>3, Zenon DEF OnRequestHeaders, u, t
    <2> HIDE DEF v
    <2> QED BY <2>4, <2>5
  <1> QED BY <1>2, <1>3

\* session_process_headers_frame keeps Core.
LEMMA ProcessHeadersCore ==
  ASSUME NEW s, NEW gone, NEW b, Core(s, gone, b), NEW id \in LastId, NEW dep \in LastId,
         NEW accepted
  PROVE  Core(ProcessHeaders(s, id, dep, accepted), gone, b)
  <1>1. /\ Core(IgnoreBlock(ConnectionError(s)), gone, b) /\ Core(IgnoreBlock(s), gone, b)
        /\ Core(IgnoreBlock(AddRst(s, id)), gone, b)
        /\ Core(BeginBlock(s, id, accepted), gone, b)
    BY RefusedCore, BeginBlockCore, ZenonT(30)
  <1>2. CASE ~Live(s, id)
    BY <1>2, OnRequestHeadersCore, Zenon DEF ProcessHeaders
  <1>3. CASE Live(s, id)
    <2>1. id \in StreamId
      BY <1>3, LiveId
    <2>2. Core(OnPushResponseHeaders(s, id, accepted), gone, b)
      <3>1. Core(BeginBlock(PushOpened(s, id), id, accepted), gone, b)
        BY <1>3, <2>1, PromotedCore, BeginBlockCore
      <3> QED BY <1>1, <3>1, Zenon DEF OnPushResponseHeaders
    <2>3. Core(OnResponseHeaders(s, id, accepted), gone, b)
      <3> DEFINE u == [s EXCEPT !.streams[id].state = "OPENED"]
      <3>1. Core(u, gone, b)
        BY <1>3, SetStateCore, ZenonT(30)
      <3> HIDE DEF u
      <3>2. Core(BeginBlock(u, id, accepted), gone, b)
        BY <3>1, BeginBlockCore
      <3> QED BY <1>1, <3>2, Zenon DEF OnResponseHeaders, u
    <2>4. Core(OnHeaders(s, id, accepted), gone, b)
      BY <1>1, Zenon DEF OnHeaders
    <2> QED BY <1>3, <2>2, <2>3, <2>4, Zenon DEF ProcessHeaders
  <1> QED BY <1>2, <1>3

\* nghttp2_session_on_push_promise_received keeps Core.
LEMMA OnPushPromiseCore ==
  ASSUME NEW s, NEW gone, NEW b, Core(s, gone, b), NEW id \in LastId, NEW pid \in LastId,
         NEW accepted
  PROVE  Core(OnPushPromise(s, id, pid, accepted), gone, b)
  <1> DEFINE u == [s EXCEPT !.last_recv_stream_id = pid]
             t == OpenStream(u, pid, "RESERVED", id)
             v == [t EXCEPT !.last_proc_stream_id = pid]
  <1>1. /\ Core(IgnoreBlock(ConnectionError(s)), gone, b) /\ Core(IgnoreBlock(s), gone, b)
    BY RefusedCore, ZenonT(30)
  <1>2. CASE s.server \/ ~IsNewPeerId(s, pid)
    BY <1>1, <1>2, Zenon DEF OnPushPromise
  <1>3. CASE ~s.server /\ IsNewPeerId(s, pid)
    <2>1. Core(u, gone, b) /\ Core(t, gone, b)
      BY <1>3, OpenPeerCore
    <2> HIDE DEF u, t
    <2>2. Core(v, gone, b)
      BY <2>1, RefusedCore
    <2>3. /\ Core(BeginBlock(v, pid, accepted), gone, b)
          /\ Core(IgnoreBlock(ConnectionError(u)), gone, b)
          /\ Core(IgnoreBlock(AddRst(u, pid)), gone, b)
      BY <2>1, <2>2, BeginBlockCore, RefusedCore, ZenonT(30)
    <2>4. OnPushPromise(s, id, pid, accepted) \in
            {IgnoreBlock(ConnectionError(s)), IgnoreBlock(s), BeginBlock(v, pid, accepted),
             IgnoreBlock(ConnectionError(u)), IgnoreBlock(AddRst(u, pid))}
      BY Zenon DEF OnPushPromise, u, t
    <2> HIDE DEF v
    <2> QED BY <1>1, <2>3, <2>4
  <1> QED BY <1>2, <1>3

\* Core is kept when a whole header block or DATA frame has been received, and
\* when decompression fails.
LEMMA FrameEndCore ==
  ASSUME NEW s, NEW gone, NEW b, Core(s, gone, b), NEW valid, NEW terminate
  PROVE  /\ Core(AfterHeaderBlock(s, valid, terminate), gone, b)
         /\ Core(OnDataEnd(s, valid, terminate), gone, b)
         /\ Core(CompressionError(s), gone, b)
  <1> DEFINE f == s.iframe
             E == ConnectionError(s)
             R == AddRst(s, Subject(f))
             D == AddRst(s, f.id)
  <1>1. Core(E, gone, b) /\ Core(R, gone, b) /\ Core(D, gone, b)
    <2> f.id \in LastId /\ Subject(f) \in LastId
      BY InboundFields DEF Core, Subject
    <2> QED BY ConnectionErrorCore, AddRstCore
  <1> HIDE DEF E, R, D
  <1>2. ASSUME f.id \in StreamId
        PROVE  /\ Core(EndOfStream(E, f.id), gone, b) /\ Core(EndOfStream(R, f.id), gone, b)
               /\ Core(EndOfStream(D, f.id), gone, b) /\ Core(EndOfStream(s, f.id), gone, b)
    BY <1>1, <1>2, CloseStreamCore
  <1>3. Live(s, f.id) => f.id \in StreamId
    BY LiveId
  <1> HIDE DEF f
  <1>4. Core(AfterHeaderBlock(s, valid, terminate), gone, b)
    BY <1>1, <1>2, <1>3, Zenon DEF AfterHeaderBlock, E, R, f
  <1>5. Core(OnDataEnd(s, valid, terminate), gone, b)
    BY <1>1, <1>2, <1>3, Zenon DEF OnDataEnd, E, D, f
  <1>6. Core(CompressionError(s), gone, b)
    <2>1. /\ Core(FrameDone(ConnectionError(s)), gone, b)
          /\ Core(FrameDone(ConnectionError(R)), gone, b)
      BY <1>1, ConnectionErrorCore, InboundCore
    <2> QED BY <2>1, Zenon DEF CompressionError, R, f
  <1> QED BY <1>4, <1>5, <1>6

\* session_on_data_received_fail_fast, nghttp2_session_on_rst_stream_received
\* and nghttp2_session_on_priority_received keep Core.
LEMMA FrameHeadCore ==
  ASSUME NEW s, NEW gone, NEW b, Core(s, gone, b), NEW id \in LastId, NEW dep \in LastId
  PROVE  /\ Core(OnDataHeader(s, id), gone, b) /\ Core(OnRstStream(s, id), gone, b)
         /\ Core(OnPriority(s, id, dep), gone, b)
  <1> DEFINE E == ConnectionError(s)
  <1>1. Core(E, gone, b)
    BY ConnectionErrorCore
  <1>2. Core(OnDataHeader(s, id), gone, b)
    <2>1. /\ Core([E EXCEPT !.iframe.state = "IGN_DATA"], gone, b)
          /\ Core([s EXCEPT !.iframe.state = "IGN_DATA"], gone, b)
          /\ Core([s EXCEPT !.iframe.state = "DATA"], gone, b)
      BY <1>1, InboundCore, InboundConstants
    <2> HIDE DEF E
    <2> QED BY <1>1, <2>1, Zenon DEF OnDataHeader, E
  <1>3. Core(OnRstStream(s, id), gone, b)
    <2>1. CASE Live(s, id)
      <3> DEFINE u == [s EXCEPT !.streams[id].rd = TRUE]
      <3>1. u \in SessionType /\ Steady(s, u)
        BY <2>1, LiveId, SetStreamField, SteadyStream, StateConstants, ZenonT(30) DEF Core
      <3> HIDE DEF u
      <3>2. Core(CloseStream(u, id), gone, b)
        BY <3>1, SteadyCore, CloseStreamCore
      <3> QED BY <1>1, <3>2, Zenon DEF OnRstStream, u
    <2> QED BY <1>1, <2>1, Zenon DEF OnRstStream
  <1>4. Core(OnPriority(s, id, dep), gone, b)
    <2> DEFINE P == Reprioritize(s, dep)
               O == OpenStream(s, id, "IDLE", dep)
    <2>1. Core(AdjustIdle(P), gone, b)
      BY IdleStreamCore, AdjustCore
    <2>2. ASSUME ~Raw(s, id), DetectIdle(s, id) PROVE Core(AdjustIdle(O), gone, b)
      BY <2>2, IdleId, IdleStreamCore, AdjustCore
    <2> HIDE DEF P, O
    <2> QED BY <1>1, <2>1, <2>2, Zenon DEF OnPriority, P, O
  <1> QED BY <1>2, <1>3, <1>4

\* session_close_stream_on_goaway keeps Core.
LEMMA GoawayClosesCore ==
  ASSUME NEW s, NEW gone, NEW b, Core(s, gone, b), NEW u \in SessionType, SameButFlags(s, u),
         NEW last, NEW incoming, NEW q \in Orders(OnGoaway(s, last, incoming))
  PROVE  Core(CloseAll(u, OnGoaway(s, last, incoming), q), gone, b)
  <1> DEFINE C == OnGoaway(s, last, incoming)
  <1>1. C \in SUBSET StreamId /\ \A id \in C : Live(s, id)
    BY DEF OnGoaway
  <1> HIDE DEF C
  <1>2. q \in IdList
    BY <1>1, OrdersType DEF C
  <1>3. \A i \in 1..Len(q) : q[i] \in C
    BY Zenon DEF Orders, Elements, C
  <1> QED BY <1>1, <1>2, <1>3, CloseAllCore DEF C

\* nghttp2_session_on_goaway_received keeps Core.
LEMMA OnGoawayReceivedCore ==
  ASSUME NEW s, NEW gone, NEW b, Core(s, gone, b), NEW last \in LastId,
         NEW q \in Orders(OnGoaway(s, last, FALSE))
  PROVE  Core(OnGoawayReceived(s, last, q), gone, b)
  <1> DEFINE F == s.goaway_flags \cup {"RECV"}
             u == [s EXCEPT !.goaway_flags = F, !.remote_last_stream_id = last]
  <1>1. s \in SessionType /\ F \in GoawayFlags
    BY FieldTypes DEF Core, GoawayFlags
  <1> HIDE DEF F
  <1>2. u \in SessionType
    BY <1>1, ZenonT(60) DEF SessionType
  <1>3. SameButFlags(s, u)
    BY <1>1 DEF SameButFlags, SameQueues, SessionType
  <1> HIDE DEF u
  <1>4. Core(CloseAll(u, OnGoaway(s, last, FALSE), q), gone, b)
    BY <1>2, <1>3, GoawayClosesCore, ZenonT(30)
  <1> QED BY <1>4, ConnectionErrorCore, Zenon DEF OnGoawayReceived, u, F

-----------------------------------------------------------------------------
(* Frames written and requests queued *)

\* What has been sent on a stream is no part of the invariant.
LEMMA OnWireCore ==
  ASSUME NEW s, NEW gone, NEW b, Core(s, gone, b), NEW it \in Item
  PROVE  Core(OnWire(s, it), gone, b)
  <1>1. s \in SessionType /\ OnWire(s, it) \in SessionType
    BY OnWireType DEF Core
  <1>2. PICK w : OnWire(s, it) = [s EXCEPT !.wire = w] \/ OnWire(s, it) = s
    BY Zenon DEF OnWire
  <1>3. Steady(s, OnWire(s, it))
    BY <1>1, <1>2, SteadyField, ZenonT(30)
  <1> QED BY <1>1, <1>3, SteadyCore

\* Core is kept when HEADERS have been sent.
LEMMA HeadersSentCore ==
  ASSUME NEW s, NEW gone \in BOOLEAN, NEW b, Core(s, gone, b), NEW it \in Item
  PROVE  Core(HeadersSent(s, it), gone, b)
  <1> SUFFICES ASSUME Live(s, it.id) PROVE Core(HeadersSent(s, it), gone, b)
    BY Zenon DEF HeadersSent
  <1> DEFINE id == it.id
             s1 == CASE it.aux = "REQUEST" -> [s EXCEPT !.streams[id].state = "OPENING"]
                     [] it.aux = "PUSH_RESPONSE" -> Promoted(s, id)
                     [] it.aux = "RESPONSE" -> [s EXCEPT !.streams[id].state = "OPENED"]
                     [] OTHER -> s
             w == s1.streams[id].wr \/ it.end
             u == [s1 EXCEPT !.streams[id].wr = w]
             s2 == CloseIfShut(u, id)
  <1>1. id \in StreamId
    BY LiveId
  <1>2. Core(s1, gone, b)
    <2>1. /\ Core([s EXCEPT !.streams[id].state = "OPENING"], gone, b)
          /\ Core([s EXCEPT !.streams[id].state = "OPENED"], gone, b)
          /\ Core(Promoted(s, id), gone, b)
      BY <1>1, SetStateCore, PromotedCore, ZenonT(30)
    <2> QED BY <2>1, Zenon
  <1> HIDE DEF s1
  <1>3. u \in SessionType /\ Steady(s1, u)
    <2>1. s1 \in SessionType /\ w \in BOOLEAN
      BY <1>2 DEF Core
    <2> HIDE DEF w
    <2> QED BY <1>1, <2>1, SetStreamField, SteadyStream, StateConstants, ZenonT(30)
  <1>4. u = [s1 EXCEPT !.streams[id].wr = @ \/ it.end]
    OBVIOUS
  <1> HIDE DEF u
  <1>5. Core(s2, gone, b)
    BY <1>2, <1>3, SteadyCore, CloseStreamCore
  <1>6. s2 = CloseIfShut([s1 EXCEPT !.streams[id].wr = @ \/ it.end], id)
    BY <1>4
  <1> HIDE DEF s2
  <1>7. Core(SubmitDataOn(s2, id), gone, b)
    BY <1>5, SubmitDataOnCore
  <1> QED BY <1>5, <1>6, <1>7, Zenon DEF HeadersSent, s1

\* Core is kept when a DATA frame has been sent; after its last one the item is
\* gone.
LEMMA DataSentCore ==
  ASSUME NEW s, NEW b, Core(s, FALSE, b), b.item.type = "DATA"
  PROVE  Core(DataSent(s, b.item), b.item.data, b)
  <1> DEFINE it == b.item
             u == Detach(s, it.id)
             v == [u EXCEPT !.streams[it.id].wr = TRUE]
  <1>1. s \in SessionType /\ it \in Item /\ it.data \in BOOLEAN
    BY ActiveFields, ItemFields DEF Core
  <1>2. CASE ~Live(s, it.id)
    <2>1. DataSent(s, it) = s
      BY <1>2, Zenon DEF DataSent
    <2> QED BY <1>2, <2>1, GoneFree, Zenon
  <1>3. CASE Live(s, it.id) /\ ~it.data
    <2>1. DataSent(s, it) = s /\ it.data = FALSE
      BY <1>1, <1>3 DEF DataSent
    <2> QED BY <2>1, ZenonT(30)
  <1>4. CASE Live(s, it.id) /\ it.data
    <2>1. Core(u, TRUE, b) /\ it.id \in StreamId /\ it.data = TRUE
      BY <1>1, <1>4, DetachCore, LiveId, ZenonT(30)
    <2> HIDE DEF u
    <2>2. v \in SessionType /\ Steady(u, v)
      BY <2>1, SetStreamField, SteadyStream, StateConstants, ZenonT(30) DEF Core
    <2> HIDE DEF v
    <2>3. Core(CloseIfShut(v, it.id), TRUE, b)
      BY <2>1, <2>2, SteadyCore, CloseStreamCore, ZenonT(30)
    <2>4. DataSent(s, it) = IF it.end THEN CloseIfShut(v, it.id) ELSE u
      BY <1>4, Zenon DEF DataSent, u, v
    <2> QED BY <2>1, <2>3, <2>4, ZenonT(30)
  <1> QED BY <1>2, <1>3, <1>4

\* Core is kept when a PRIORITY or a GOAWAY has been sent.
LEMMA ControlSentCore ==
  ASSUME NEW s, NEW gone, NEW b, Core(s, gone, b), NEW it \in Item
  PROVE  /\ Core(PrioritySent(s, it), gone, b)
         /\ \A q \in Orders(OnGoaway(s, it.arg, TRUE)) : Core(GoawaySent(s, it, q), gone, b)
  <1>1. Core(PrioritySent(s, it), gone, b)
    <2> DEFINE P == Reprioritize(s, it.arg)
               O == OpenStream(s, it.id, "IDLE", it.arg)
    <2>1. it.id \in LastId /\ it.arg \in LastId
      BY ItemFields
    <2>2. Core(AdjustIdle(P), gone, b)
      BY <2>1, IdleStreamCore, AdjustCore
    <2>3. ASSUME ~Raw(s, it.id), DetectIdle(s, it.id) PROVE Core(AdjustIdle(O), gone, b)
      BY <2>1, <2>3, IdleId, IdleStreamCore, AdjustCore
    <2> HIDE DEF P, O
    <2> QED BY <2>2, <2>3, Zenon DEF PrioritySent, P, O
  <1>2. ASSUME NEW q \in Orders(OnGoaway(s, it.arg, TRUE))
        PROVE  Core(GoawaySent(s, it, q), gone, b)
    <2> DEFINE F == s.goaway_flags \cup {"SENT"}
                      \cup (IF it.aux = "TERM_ON_SEND" THEN {"TERM_SENT"} ELSE {})
               u == [s EXCEPT !.goaway_flags = F]
    <2>1. s \in SessionType /\ F \in GoawayFlags
      BY FieldTypes DEF Core, GoawayFlags
    <2> HIDE DEF F
    <2>2. u \in SessionType
      BY <2>1, ZenonT(60) DEF SessionType
    <2>3. SameButFlags(s, u)
      BY <2>1 DEF SameButFlags, SameQueues, SessionType
    <2> HIDE DEF u
    <2>4. Core(CloseAll(u, OnGoaway(s, it.arg, TRUE), q), gone, b)
      BY <2>2, <2>3, GoawayClosesCore, ZenonT(30)
    <2> QED BY <2>4, Zenon DEF GoawaySent, u, F
  <1> QED BY <1>1, <1>2, ZenonT(30)

\* session_after_frame_sent1 keeps Core.
LEMMA AfterFrameSent1Core ==
  ASSUME NEW s, NEW b, Core(s, FALSE, b), NEW q, NEW open \in BOOLEAN,
         b.item.type = "GOAWAY" => q \in Orders(SentCloses(s))
  PROVE  Core(AfterFrameSent1(s, q, open), b.item.data, b)
  <1> DEFINE it == s.aob.item
             t == AfterFrameSent1(s, q, open)
  <1>1. s \in SessionType /\ it \in Item /\ it = b.item /\ it.data \in BOOLEAN
    BY ActiveFields, ItemFields DEF Core
  <1>2. CASE it.type = "DATA"
    <2> DEFINE u == [s EXCEPT !.window_open = open]
    <2>1. u \in SessionType
      BY <1>1, ZenonT(60) DEF SessionType
    <2>2. Steady(s, u)
      BY <1>1, SteadyField, ZenonT(30)
    <2> HIDE DEF u
    <2>3. Core(u, FALSE, b)
      BY <2>1, <2>2, SteadyCore, ZenonT(30)
    <2>4. t = DataSent(u, b.item)
      BY <1>1, <1>2, Zenon DEF AfterFrameSent1, u
    <2> QED BY <1>1, <1>2, <2>3, <2>4, DataSentCore, Zenon
  <1>3. CASE it.type # "DATA"
    <2>1. Core(t, FALSE, b)
      <3>1. CASE it.type = "HEADERS"
        BY <1>1, <3>1, HeadersSentCore, ZenonT(30) DEF AfterFrameSent1
      <3>2. CASE it.type = "PRIORITY"
        BY <1>1, <3>2, ControlSentCore, ZenonT(30) DEF AfterFrameSent1
      <3>3. CASE it.type = "RST_STREAM"
        BY <1>1, <3>3, CloseStreamCore, ZenonT(30) DEF AfterFrameSent1
      <3>4. CASE it.type = "GOAWAY" /\ it.aux = "SHUTDOWN_NOTICE"
        BY <1>1, <3>4, ZenonT(30) DEF AfterFrameSent1, GoawaySent
      <3>5. CASE it.type = "GOAWAY" /\ it.aux # "SHUTDOWN_NOTICE"
        <4>1. q \in Orders(OnGoaway(s, it.arg, TRUE))
          BY <1>1, <3>5, ZenonT(30) DEF SentCloses
        <4>2. t = GoawaySent(s, it, q)
          BY <3>5 DEF AfterFrameSent1
        <4> QED BY <1>1, <4>1, <4>2, ControlSentCore, ZenonT(30)
      <3>6. CASE it.type \notin {"DATA", "HEADERS", "PRIORITY", "RST_STREAM", "GOAWAY"}
        BY <3>6, ZenonT(30) DEF AfterFrameSent1
      <3> QED BY <1>3, <3>1, <3>2, <3>3, <3>4, <3>5, <3>6, ZenonT(30)
    <2> QED BY <1>1, <1>3, <2>1, GoneFree, Zenon
  <1> QED BY <1>2, <1>3

\* nghttp2_session_add_item keeps Core for HEADERS that open no stream.
LEMMA AddHeadersCore ==
  ASSUME NEW s, NEW gone, NEW b, Core(s, gone, b), NEW it \in Item, it.type = "HEADERS",
         it.aux \notin {"REQUEST", "CANCELED", "ACK"}
  PROVE  Core(AddHeaders(s, it), gone, b)
  <1>1. s \in SessionType /\ Ledger(s) /\ Lists(s) /\ ~IsRequest(it)
    BY DEF Core, IsRequest
  <1>2. CASE StreamIn(s, it.id, {"RESERVED"})
    <2> DEFINE n == s.next_stream_id
               t == [s EXCEPT !.ob_syn = Append(s.ob_syn, it), !.next_stream_id = n]
    <2>1. AddHeaders(s, it) = t
      <3>1. AddHeaders(s, it) = [s EXCEPT !.ob_syn = Append(s.ob_syn, it)]
        BY <1>2, Zenon DEF AddHeaders
      <3> QED BY <1>1, <3>1, ZenonT(30) DEF SessionType
    <2>2. t \in SessionType /\ n \in NextId /\ s.next_stream_id <= n /\ IsMine(s, n)
      BY <1>1, <2>1, AddType, FieldTypes DEF NextId, Ledger, Numbered
    <2>3. t.server = s.server
      BY <1>1 DEF SessionType
    <2>4. s.server \/ ~IsMine(s, it.id)
      <3>1. it.id \in StreamId /\ s.streams[it.id].state = "RESERVED"
        BY <1>2, LiveId DEF StreamIn
      <3> QED BY <1>1, <3>1, Zenon DEF Lists
    <2>5. SynItem(t, it)
      BY <1>1, <2>3, <2>4, Zenon DEF SynItem, IsMine
    <2>6. t = [s EXCEPT !.ob_syn = Append(@, it), !.next_stream_id = n]
      OBVIOUS
    <2> HIDE DEF t, n
    <2> QED BY <1>1, <2>1, <2>2, <2>5, <2>6, AddSynCore, ZenonT(30)
  <1>3. CASE ~StreamIn(s, it.id, {"RESERVED"})
    <2>1. AddHeaders(s, it) = AddReg(s, it)
      BY <1>3, Zenon DEF AddHeaders, AddReg
    <2>2. RegItem(s, it)
      BY <1>1 DEF RegItem
    <2> QED BY <2>1, <2>2, AddRegCore
  <1> QED BY <1>2, <1>3

\* nghttp2_submit_request keeps Core: the request takes the next ID.
LEMMA AddRequestCore ==
  ASSUME NEW s, NEW gone, NEW b, Core(s, gone, b), ~s.server, NEW it \in Item,
         it.type = "HEADERS", it.aux = "REQUEST", it.id = s.next_stream_id
  PROVE  Core([AddHeaders(s, it) EXCEPT !.next_stream_id = @ + 2], gone, b)
  <1> DEFINE n == s.next_stream_id + 2
             t == [s EXCEPT !.ob_syn = Append(s.ob_syn, it), !.next_stream_id = n]
  <1>1. /\ s \in SessionType /\ Numbered(s) /\ Requests(s) /\ IsRequest(it)
        /\ it.id \in StreamId /\ it.id \in Int
        /\ s.next_stream_id \in Nat \ {0}
    BY FieldTypes, ItemFields DEF Core, Ledger, IsRequest, NextId, StreamId
  <1>2. [AddHeaders(s, it) EXCEPT !.next_stream_id = @ + 2] = t
    <2>1. AddHeaders(s, it) = [s EXCEPT !.ob_syn = Append(s.ob_syn, it)]
      BY Zenon DEF AddHeaders
    <2> QED BY <1>1, <2>1 DEF SessionType
  <1>3. n \in NextId /\ s.next_stream_id <= n /\ IsMine(s, s.next_stream_id) /\ IsMine(s, n)
        /\ it.id < n /\ ~ (it.id < s.next_stream_id)
    <2>1. IsMine(s, s.next_stream_id)
      BY <1>1 DEF Numbered
    <2>2. (s.next_stream_id + 2) % 2 = s.next_stream_id % 2
      BY <1>1
    <2> QED BY <1>1, <2>1, <2>2 DEF NextId, IsMine
  <1> HIDE DEF n
  <1>4. t \in SessionType
    <2> Append(s.ob_syn, it) \in Queue
      BY <1>1, FieldTypes, QueueUpdate, ZenonT(30)
    <2> QED BY <1>1, <1>3, ZenonT(60) DEF SessionType
  <1>5. /\ t.server = s.server /\ t.streams = s.streams /\ t.done = s.done
        /\ t.last_sent_stream_id = s.last_sent_stream_id /\ t.next_stream_id = n
    BY <1>1 DEF SessionType
  <1>6. ~Spent(s, it.id)
    BY <1>1, <1>3, Zenon DEF Numbered, Known
  <1>7. SynItem(t, it)
    <2>1. ~Spent(t, it.id) /\ IsMine(t, it.id)
      BY <1>3, <1>5, <1>6, Zenon DEF Spent, IsMine
    <2>2. t.last_sent_stream_id < it.id
      BY <1>1, <1>5 DEF Numbered
    <2>3. it.aux # "ACK"
      OBVIOUS
    <2> QED BY <1>1, <1>3, <1>5, <2>1, <2>2, <2>3, Zenon DEF SynItem
  <1>8. \A i \in 1..Len(s.ob_syn) : IsRequest(s.ob_syn[i]) => s.ob_syn[i].id < it.id
    BY <1>1, Zenon DEF Requests, SynItem
  <1>9. t = [s EXCEPT !.ob_syn = Append(@, it), !.next_stream_id = n]
    OBVIOUS
  <1> HIDE DEF t
  <1>10. Core(t, gone, b)
    BY <1>3, <1>4, <1>7, <1>8, <1>9, AddSynCore, ZenonT(30)
  <1> QED BY <1>2, <1>10, Zenon

=============================================================================
