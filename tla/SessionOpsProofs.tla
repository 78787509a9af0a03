-------------------------- MODULE SessionOpsProofs --------------------------
(***************************************************************************)
(* Lemmas about the operators of SessionOps: each one maps a well-typed    *)
(* session to a well-typed session, for all values of the constants.       *)
(***************************************************************************)
EXTENDS SessionOps, TLAPS, FiniteSetTheorems

-----------------------------------------------------------------------------
(* Streams and items *)

\* One is a stream ID: nghttp2_session_upgrade opens stream 1.
LEMMA OneIsStreamId == 1 \in StreamId
  BY SessionAssumption DEF StreamId

\* A stream without state is a stream.
LEMMA NoStreamType == NoStream \in Stream
  BY DEF NoStream, Stream, StreamState, Deferral

\* A stream stays one when any of its fields is assigned a value of its type.
LEMMA StreamUpdate ==
  ASSUME NEW x \in Stream, NEW st \in StreamState, NEW b \in BOOLEAN,
         NEW c \in BOOLEAN, NEW i \in 0..2, NEW d \in Deferral
  PROVE  /\ [x EXCEPT !.state = st] \in Stream
         /\ [x EXCEPT !.state = st, !.push = b] \in Stream
         /\ [x EXCEPT !.rd = b] \in Stream
         /\ [x EXCEPT !.wr = b] \in Stream
         /\ [x EXCEPT !.item = i] \in Stream
         /\ [x EXCEPT !.defer = d] \in Stream
         /\ [x EXCEPT !.item = i, !.defer = d] \in Stream
         /\ [x EXCEPT !.closed = b, !.item = i, !.defer = d] \in Stream
  BY ZenonT(30) DEF Stream

\* The stream nghttp2_session_open_stream creates.
LEMMA OpenedStreamType ==
  ASSUME NEW st \in StreamState, NEW b \in BOOLEAN, NEW r \in BOOLEAN,
         NEW w \in BOOLEAN
  PROVE  [NoStream EXCEPT !.state = st, !.push = b, !.rd = r, !.wr = w] \in Stream
  <1>1. ASSUME NEW x \in Stream
        PROVE  [x EXCEPT !.state = st, !.push = b, !.rd = r, !.wr = w] \in Stream
    BY ZenonT(30) DEF Stream
  <1> QED BY <1>1, NoStreamType, Zenon

\* The states and deferrals the code assigns.
LEMMA StateConstants ==
  /\ {"NONE", "INITIAL", "OPENING", "OPENED", "CLOSING", "RESERVED", "IDLE"}
       \subseteq StreamState
  /\ {"NO", "FLOW", "USER"} \subseteq Deferral
  /\ 0 \in 0..2
  <1>1. 0 \in 0..2
    OBVIOUS
  <1> QED BY <1>1, Zenon DEF StreamState, Deferral

\* A frame without a payload is an item.
LEMMA FrameItem ==
  ASSUME NEW t \in FrameType, NEW id \in LastId
  PROVE  (t = "HEADERS" => id # 0) => Frame(t, id) \in Item
  BY SessionAssumption DEF Frame, Item, Aux, LastId

\* An item stays one when any of its fields is assigned a value of its type.
LEMMA ItemUpdate ==
  ASSUME NEW x \in Item, NEW a \in LastId, NEW d \in 0..2, NEW e \in BOOLEAN,
         NEW b \in BOOLEAN, NEW x2 \in Aux
  PROVE  /\ [x EXCEPT !.aux = x2] \in Item
         /\ [x EXCEPT !.arg = a] \in Item
         /\ [x EXCEPT !.addr = d] \in Item
         /\ [x EXCEPT !.arg = a, !.aux = x2] \in Item
         /\ [x EXCEPT !.end = e, !.data = b, !.aux = x2] \in Item
         /\ [x EXCEPT !.data = b, !.end = e, !.aux = x2] \in Item
         /\ [x EXCEPT !.arg = a, !.end = e, !.data = b, !.aux = x2] \in Item
  BY ZenonT(30) DEF Item, LastId

\* No item is an item.
LEMMA NoItemType == NoItem \in Item
  <1>1. "NONE" \in FrameType /\ 0 \in LastId
    BY SessionAssumption DEF FrameType, LastId
  <1> QED BY <1>1, FrameItem DEF NoItem

-----------------------------------------------------------------------------
(* The fields of a session *)

\* The type of each field that the operators read.
LEMMA FieldTypes ==
  ASSUME NEW s \in SessionType
  PROVE  /\ s.server \in BOOLEAN /\ s.fast_cb \in BOOLEAN
         /\ s.streams \in StreamMap /\ s.closedq \in IdList /\ s.idleq \in IdList
         /\ s.num_outgoing_streams \in Int /\ s.num_incoming_streams \in Int
         /\ s.num_incoming_reserved_streams \in Int /\ s.next_stream_id \in NextId
         /\ s.last_sent_stream_id \in LastId /\ s.last_recv_stream_id \in LastId
         /\ s.last_proc_stream_id \in LastId /\ s.local_last_stream_id \in LastId
         /\ s.remote_last_stream_id \in LastId /\ s.goaway_flags \in GoawayFlags
         /\ s.ob_urgent \in Queue /\ s.ob_reg \in Queue /\ s.ob_syn \in Queue
         /\ s.aob \in ActiveItem /\ s.iframe \in InboundFrame
         /\ s.local_max_concurrent \in Nat /\ s.pending_max_concurrent \in Nat
         /\ s.remote_max_concurrent \in Nat
         /\ s.local_enable_push \in BOOLEAN /\ s.pending_enable_push \in BOOLEAN
         /\ s.remote_enable_push \in BOOLEAN
         /\ s.inflight_settings \in SettingsList
         /\ s.obq_flood_counter \in Nat /\ s.asserts \in BOOLEAN
         /\ s.done \in IdSet /\ s.heap \in Heap /\ s.wire \in Wire
  BY DEF SessionType

\* The stream of an ID, and the map after its stream has changed.
LEMMA StreamOf ==
  ASSUME NEW s \in SessionType, NEW id \in StreamId
  PROVE  /\ s.streams[id] \in Stream
         /\ \A x \in Stream : [s.streams EXCEPT ![id] = x] \in StreamMap
  BY FieldTypes DEF StreamMap

\* Assigning the stream of an ID keeps the session well typed.
LEMMA SetStream ==
  ASSUME NEW s \in SessionType, NEW id \in StreamId, NEW x \in Stream
  PROVE  [s EXCEPT !.streams[id] = x] \in SessionType
  <1>1. [s.streams EXCEPT ![id] = x] \in StreamMap
    BY StreamOf
  <1> QED BY <1>1 DEF SessionType

\* The assignments to one field of one stream that the code makes.
LEMMA SetStreamField ==
  ASSUME NEW s \in SessionType, NEW id \in StreamId, NEW st \in StreamState,
         NEW b \in BOOLEAN, NEW d \in Deferral
  PROVE  /\ [s EXCEPT !.streams[id].state = st] \in SessionType
         /\ [s EXCEPT !.streams[id].rd = b] \in SessionType
         /\ [s EXCEPT !.streams[id].wr = b] \in SessionType
         /\ [s EXCEPT !.streams[id].defer = d] \in SessionType
  <1>1. s.streams[id] \in Stream
    BY StreamOf
  <1>2. /\ [s.streams[id] EXCEPT !.state = st] \in Stream
        /\ [s.streams[id] EXCEPT !.rd = b] \in Stream
        /\ [s.streams[id] EXCEPT !.wr = b] \in Stream
        /\ [s.streams[id] EXCEPT !.defer = d] \in Stream
    BY <1>1, StreamUpdate, StateConstants, Zenon
  <1>3. /\ [s EXCEPT !.streams[id] = [s.streams[id] EXCEPT !.state = st]] \in SessionType
        /\ [s EXCEPT !.streams[id] = [s.streams[id] EXCEPT !.rd = b]] \in SessionType
        /\ [s EXCEPT !.streams[id] = [s.streams[id] EXCEPT !.wr = b]] \in SessionType
        /\ [s EXCEPT !.streams[id] = [s.streams[id] EXCEPT !.defer = d]] \in SessionType
    BY <1>2, SetStream
  <1> QED BY <1>3

\* A stream that is found has an ID of the hash map.
LEMMA LiveId ==
  ASSUME NEW s, NEW id, Live(s, id) \/ Raw(s, id)
  PROVE  id \in StreamId
  BY DEF Live, Raw

\* A set of stream IDs is finite, and its size is a number.
LEMMA IdSetsFinite ==
  ASSUME NEW C, C \subseteq StreamId
  PROVE  IsFiniteSet(C) /\ Cardinality(C) \in Nat
  <1>1. IsFiniteSet(StreamId)
    <2>1. 1 \in Int /\ MaxStreamId \in Int
      BY SessionAssumption
    <2>2. IsFiniteSet(1..MaxStreamId)
      BY <2>1, FS_Interval
    <2> QED BY <2>2 DEF StreamId
  <1> QED BY <1>1, FS_Subset, FS_CardinalityType

-----------------------------------------------------------------------------
(* Opening, keeping and dropping streams *)

\* Removing an entry from a list of IDs leaves a list of IDs.
LEMMA WithoutType ==
  ASSUME NEW q \in IdList, NEW x
  PROVE  Without(q, x) \in IdList
  <1>1. CASE x \notin Elements(q)
    BY <1>1 DEF Without
  <1>2. CASE x \in Elements(q)
    <2> DEFINE k == CHOOSE i \in 1..Len(q) : q[i] = x
               r == [i \in 1..Len(q) - 1 |-> IF i < k THEN q[i] ELSE q[i + 1]]
    <2>1. Len(q) \in Nat /\ Len(q) - 1 \in Nat
      BY <1>2 DEF Elements, IdList
    <2>2. \A i \in 1..Len(q) : q[i] \in StreamId
      BY DEF IdList
    <2>3. \A i \in 1..Len(q) - 1 : i \in 1..Len(q) /\ i + 1 \in 1..Len(q)
      BY <2>1
    <2>4. r \in [1..Len(q) - 1 -> StreamId]
      BY <2>2, <2>3
    <2>5. r \in Seq(StreamId)
      BY <2>1, <2>4
    <2> QED BY <1>2, <2>5 DEF Without, IdList
  <1> QED BY <1>1, <1>2

\* Appending an ID to a list, and dropping the first entries of a list.
LEMMA ListUpdate ==
  ASSUME NEW q \in IdList
  PROVE  /\ \A id \in StreamId : Append(q, id) \in IdList
         /\ \A r \in IdList : q \o r \in IdList
         /\ \A n \in Nat : SubSeq(q, n + 1, Len(q)) \in IdList
         /\ Len(q) \in Nat
  BY DEF IdList

\* Destroying streams leaves a map of streams.
LEMMA DestroyOldestType ==
  ASSUME NEW s \in SessionType, NEW q, NEW n
  PROVE  DestroyOldest(s, q, n) \in StreamMap
  BY FieldTypes, NoStreamType DEF DestroyOldest, StreamMap

\* Dropping closed streams over the limit (nghttp2_session_adjust_closed_stream).
LEMMA AdjustClosedType ==
  ASSUME NEW s \in SessionType
  PROVE  AdjustClosed(s) \in SessionType
  <1> DEFINE limit == IF s.local_max_concurrent = DefaultMaxConcurrent
                        THEN s.pending_max_concurrent ELSE s.local_max_concurrent
             over == Len(s.closedq) + s.num_incoming_streams - limit
             n == Smaller(Larger(over, 0), Len(s.closedq))
  <1>1. Len(s.closedq) \in Nat /\ limit \in Nat /\ s.num_incoming_streams \in Int
    BY FieldTypes, ListUpdate
  <1>2. n \in Nat
    BY <1>1 DEF Smaller, Larger
  <1>3. SubSeq(s.closedq, n + 1, Len(s.closedq)) \in IdList
    BY <1>2, FieldTypes, ListUpdate
  <1>4. DestroyOldest(s, s.closedq, n) \in StreamMap
    BY DestroyOldestType
  <1>5. [s EXCEPT !.streams = DestroyOldest(s, s.closedq, n),
                  !.closedq = SubSeq(s.closedq, n + 1, Len(s.closedq))] \in SessionType
    <2> HIDE DEF n
    <2> QED BY <1>3, <1>4, ZenonT(60) DEF SessionType
  <1> QED BY <1>5 DEF AdjustClosed

\* Dropping idle streams over the limit (nghttp2_session_adjust_idle_stream).
LEMMA AdjustIdleType ==
  ASSUME NEW s \in SessionType
  PROVE  AdjustIdle(s) \in SessionType
  <1> DEFINE limit == Smaller(MaxIdle, Larger(MinIdle,
                        Smaller(s.local_max_concurrent, s.pending_max_concurrent)))
             n == Larger(Len(s.idleq) - limit, 0)
  <1>1. Len(s.idleq) \in Nat /\ limit \in Nat
    BY FieldTypes, ListUpdate, SessionAssumption DEF Smaller, Larger
  <1>2. n \in Nat
    BY <1>1 DEF Smaller, Larger
  <1>3. SubSeq(s.idleq, n + 1, Len(s.idleq)) \in IdList
    BY <1>2, FieldTypes, ListUpdate
  <1>4. DestroyOldest(s, s.idleq, n) \in StreamMap
    BY DestroyOldestType
  <1>5. [s EXCEPT !.streams = DestroyOldest(s, s.idleq, n),
                  !.idleq = SubSeq(s.idleq, n + 1, Len(s.idleq))] \in SessionType
    <2> HIDE DEF n
    <2> QED BY <1>3, <1>4, ZenonT(30) DEF SessionType
  <1> QED BY <1>5 DEF AdjustIdle

\* Creating an idle stream as an anchor of the dependency tree.
LEMMA OpenIdleType ==
  ASSUME NEW s \in SessionType, NEW id \in StreamId
  PROVE  OpenIdle(s, id) \in SessionType
  <1>1. Append(s.idleq, id) \in IdList
    BY FieldTypes, ListUpdate
  <1>2. [NoStream EXCEPT !.state = "IDLE"] \in Stream
    BY NoStreamType, StreamUpdate, StateConstants, Zenon
  <1>3. [s.streams EXCEPT ![id] = [NoStream EXCEPT !.state = "IDLE"]] \in StreamMap
    BY <1>2, StreamOf
  <1> QED BY <1>1, <1>3, ZenonT(30) DEF SessionType, OpenIdle

\* Creating the idle stream a priority depends on.
LEMMA DependencyType ==
  ASSUME NEW s \in SessionType, NEW dep \in LastId, dep # 0
  PROVE  OpenIdle(s, dep) \in SessionType
  <1>1. dep \in StreamId
    BY SessionAssumption DEF LastId, StreamId
  <1> QED BY <1>1, OpenIdleType

\* Reprioritising a stream, which may create its new parent.
LEMMA ReprioritizeType ==
  ASSUME NEW s \in SessionType, NEW dep \in LastId
  PROVE  Reprioritize(s, dep) \in SessionType
  BY DependencyType DEF Reprioritize

\* Opening a stream (nghttp2_session_open_stream): a new one, or an idle one that
\* is detached from the idle list.
LEMMA OpenStreamType ==
  ASSUME NEW s \in SessionType, NEW id \in LastId, NEW state \in StreamState,
         NEW dep \in LastId, state = "IDLE" => id \in StreamId
  PROVE  OpenStream(s, id, state, dep) \in SessionType
  <1> DEFINE mine == IsMine(s, id)
             s1 == [s EXCEPT !.asserts = @ /\ (Raw(s, id) => s.streams[id].state = "IDLE"),
                             !.idleq = Without(@, id)]
             s2 == IF dep # 0 /\ dep # id /\ ~Raw(s1, dep) /\ DetectIdle(s1, dep)
                     THEN OpenIdle(s1, dep) ELSE s1
             x == [NoStream EXCEPT !.state = state, !.push = (state = "RESERVED"),
                                   !.rd = (state = "RESERVED" /\ mine),
                                   !.wr = (state = "RESERVED" /\ ~mine)]
             t == [s2 EXCEPT
                     !.streams[id] = x,
                     !.num_incoming_reserved_streams =
                        IF state = "RESERVED" /\ ~mine THEN @ + 1 ELSE @,
                     !.num_outgoing_streams =
                        IF state # "RESERVED" /\ mine THEN @ + 1 ELSE @,
                     !.num_incoming_streams =
                        IF state # "RESERVED" /\ ~mine THEN @ + 1 ELSE @]
  <1>1. Without(s.idleq, id) \in IdList
    BY FieldTypes, WithoutType
  <1>2. s1 \in SessionType
    <2> DEFINE b == s.asserts /\ (Raw(s, id) => s.streams[id].state = "IDLE")
               w == Without(s.idleq, id)
    <2>1. b \in BOOLEAN
      OBVIOUS
    <2>2. s1 = [s EXCEPT !.asserts = b, !.idleq = w]
      BY Zenon
    <2>3. w \in IdList
      BY <1>1
    <2> HIDE DEF b, w, s1
    <2>4. [s EXCEPT !.asserts = b, !.idleq = w] \in SessionType
      BY <2>1, <2>3, ZenonT(60) DEF SessionType
    <2> QED BY <2>2, <2>4, Zenon
  <1>3. s2 \in SessionType
    <2> HIDE DEF s1
    <2> QED BY <1>2, DependencyType
  <1>4. x \in Stream
    <2>1. /\ (state = "RESERVED") \in BOOLEAN
          /\ (state = "RESERVED" /\ mine) \in BOOLEAN
          /\ (state = "RESERVED" /\ ~mine) \in BOOLEAN
      BY DEF IsMine
    <2> QED BY <2>1, OpenedStreamType, Zenon
  <1>5. t \in SessionType
    <2> HIDE DEF s2, x, mine
    <2>1. [s2.streams EXCEPT ![id] = x] \in StreamMap
      BY <1>3, <1>4, FieldTypes, ZenonT(30) DEF StreamMap
    <2>2. /\ s2.num_incoming_reserved_streams + 1 \in Int
          /\ s2.num_outgoing_streams + 1 \in Int
          /\ s2.num_incoming_streams + 1 \in Int
      BY <1>3, FieldTypes
    <2>3. ASSUME NEW a \in Int, NEW b \in Int, NEW c \in Int, NEW m \in StreamMap
          PROVE  [s2 EXCEPT !.streams = m, !.num_incoming_reserved_streams = a,
                            !.num_outgoing_streams = b,
                            !.num_incoming_streams = c] \in SessionType
      BY <1>3, ZenonT(60) DEF SessionType
    <2>4. /\ (IF state = "RESERVED" /\ ~mine THEN s2.num_incoming_reserved_streams + 1
              ELSE s2.num_incoming_reserved_streams) \in Int
          /\ (IF state # "RESERVED" /\ mine THEN s2.num_outgoing_streams + 1
              ELSE s2.num_outgoing_streams) \in Int
          /\ (IF state # "RESERVED" /\ ~mine THEN s2.num_incoming_streams + 1
              ELSE s2.num_incoming_streams) \in Int
      BY <1>3, <2>2, FieldTypes
    <2> QED BY <2>1, <2>3, <2>4, ZenonT(30)
  <1>6. state = "IDLE" => OpenIdle(s2, id) \in SessionType
    <2> HIDE DEF s2
    <2> QED BY <1>3, OpenIdleType
  <1>7. OpenStream(s, id, state, dep) = IF state = "IDLE" THEN OpenIdle(s2, id) ELSE t
    BY DEF OpenStream
  <1> HIDE DEF s2, t
  <1> QED BY <1>5, <1>6, <1>7

\* Closing a set of streams at once (session_close_stream_on_goaway).
LEMMA CloseAllType ==
  ASSUME NEW s \in SessionType, NEW C, C \subseteq StreamId, NEW q \in IdList
  PROVE  CloseAll(s, C, q) \in SessionType
  <1> DEFINE kept == IF KeepClosed /\ s.server /\ \A id \in C : ~IsMine(s, id)
                       THEN C ELSE {}
             freed == {x \in s.heap : /\ x[1] \in C
                               /\ s.streams[x[1]].item = x[2]
                               /\ ~ (s.aob.item.type = "DATA"
                                     /\ <<s.aob.item.id, s.aob.item.addr>> = x)}
             Mine(push) == {id \in C : IsMine(s, id) /\ s.streams[id].push = push}
             Peers(push) == {id \in C : ~IsMine(s, id) /\ s.streams[id].push = push}
             m == [id \in StreamId |->
                     IF id \in kept THEN [s.streams[id] EXCEPT !.closed = TRUE, !.item = 0,
                                                               !.defer = "NO"]
                     ELSE IF id \in C THEN NoStream ELSE s.streams[id]]
             cq == IF kept = {} THEN s.closedq ELSE s.closedq \o q
             h == s.heap \ freed
             i == s.num_incoming_reserved_streams - Cardinality(Peers(TRUE))
             j == s.num_outgoing_streams - Cardinality(Mine(FALSE))
             k == s.num_incoming_streams - Cardinality(Peers(FALSE))
             d == s.done \cup C
  <1>1. m \in StreamMap
    <2>1. ASSUME NEW id \in StreamId
          PROVE  [s.streams[id] EXCEPT !.closed = TRUE, !.item = 0, !.defer = "NO"] \in Stream
      BY StreamOf, StreamUpdate, StateConstants, Zenon
    <2> HIDE DEF kept
    <2>2. \A id \in StreamId :
            (IF id \in kept THEN [s.streams[id] EXCEPT !.closed = TRUE, !.item = 0,
                                                       !.defer = "NO"]
             ELSE IF id \in C THEN NoStream ELSE s.streams[id]) \in Stream
      BY <2>1, NoStreamType, StreamOf, Zenon
    <2> QED BY <2>2, ZenonT(30) DEF StreamMap
  <1>2. cq \in IdList
    BY FieldTypes, ListUpdate
  <1>3. h \in Heap /\ d \in IdSet
    BY FieldTypes DEF Heap, IdSet
  <1>4. i \in Int /\ j \in Int /\ k \in Int
    <2>1. Peers(TRUE) \subseteq StreamId /\ Mine(FALSE) \subseteq StreamId
            /\ Peers(FALSE) \subseteq StreamId
      OBVIOUS
    <2> DEFINE x == Cardinality(Peers(TRUE))
               y == Cardinality(Mine(FALSE))
               z == Cardinality(Peers(FALSE))
    <2>2. x \in Nat /\ y \in Nat /\ z \in Nat
      BY <2>1, IdSetsFinite
    <2> HIDE DEF x, y, z
    <2>3. /\ s.num_incoming_reserved_streams - x \in Int
          /\ s.num_outgoing_streams - y \in Int
          /\ s.num_incoming_streams - z \in Int
      BY <2>2, FieldTypes
    <2> QED BY <2>3 DEF x, y, z
  <1>5. CloseAll(s, C, q) =
          [s EXCEPT !.streams = m, !.closedq = cq, !.heap = h,
             !.num_incoming_reserved_streams = i, !.num_outgoing_streams = j,
             !.num_incoming_streams = k, !.done = d]
    BY Zenon DEF CloseAll
  <1> HIDE DEF m, cq, h, i, j, k, d
  <1>6. [s EXCEPT !.streams = m, !.closedq = cq, !.heap = h,
           !.num_incoming_reserved_streams = i, !.num_outgoing_streams = j,
           !.num_incoming_streams = k, !.done = d] \in SessionType
    BY <1>1, <1>2, <1>3, <1>4, ZenonT(60) DEF SessionType
  <1> QED BY <1>5, <1>6, Zenon

\* Closing one stream (nghttp2_session_close_stream).
LEMMA CloseStreamType ==
  ASSUME NEW s \in SessionType, NEW id
  PROVE  CloseStream(s, id) \in SessionType
  <1>1. CASE Live(s, id)
    <2>1. {id} \subseteq StreamId /\ id \in StreamId
      BY <1>1, LiveId
    <2>2. <<id>> \in IdList
      BY <2>1 DEF IdList
    <2> QED BY <1>1, <2>1, <2>2, CloseAllType DEF CloseStream
  <1>2. CASE ~Live(s, id)
    BY <1>2 DEF CloseStream
  <1> QED BY <1>1, <1>2

\* Closing a stream that is shut down in both directions.
LEMMA CloseIfShutType ==
  ASSUME NEW s \in SessionType, NEW id
  PROVE  CloseIfShut(s, id) \in SessionType
  BY CloseStreamType DEF CloseIfShut

\* The streams a GOAWAY closes, and every order in which they may be closed.
LEMMA OnGoawayType ==
  ASSUME NEW s \in SessionType, NEW last, NEW incoming
  PROVE  OnGoaway(s, last, incoming) \subseteq StreamId
  BY DEF OnGoaway

\* The orders in which the streams a GOAWAY closes are enumerated.
LEMMA OrdersType ==
  ASSUME NEW C, C \subseteq StreamId, NEW q \in Orders(C)
  PROVE  q \in IdList
  <1>1. Cardinality(C) \in Nat
    BY IdSetsFinite
  <1>2. q \in [1..Cardinality(C) -> C]
    BY DEF Orders
  <1>3. q \in Seq(StreamId)
    BY <1>1, <1>2
  <1> QED BY <1>3 DEF IdList

-----------------------------------------------------------------------------
(* Outbound items *)

\* The fields of the active item and of the frame being read.
LEMMA ItemFields ==
  ASSUME NEW it \in Item
  PROVE  /\ it.type \in FrameType /\ it.id \in LastId /\ it.arg \in LastId
         /\ it.addr \in 0..2 /\ it.end \in BOOLEAN /\ it.data \in BOOLEAN
         /\ it.aux \in Aux /\ (it.type = "HEADERS" => it.id \in StreamId)
  BY SessionAssumption DEF Item, LastId, StreamId

\* The fields of the active outbound item.
LEMMA ActiveFields ==
  ASSUME NEW s \in SessionType
  PROVE  s.aob.item \in Item
  BY FieldTypes DEF ActiveItem

\* The fields of the inbound frame.
LEMMA InboundFields ==
  ASSUME NEW s \in SessionType
  PROVE  /\ s.iframe.id \in LastId /\ s.iframe.arg \in LastId
         /\ Subject(s.iframe) \in LastId
  BY FieldTypes DEF InboundFrame, Subject

\* Queues of items.
LEMMA QueueUpdate ==
  ASSUME NEW q \in Queue
  PROVE  /\ \A it \in Item : Append(q, it) \in Queue
         /\ q # <<>> => Head(q) \in Item /\ Tail(q) \in Queue
         /\ \A i \in 1..Len(q) : q[i] \in Item
         /\ \A i \in 1..Len(q), it \in Item : [q EXCEPT ![i] = it] \in Queue
  BY DEF Queue

\* Detaching the DATA item of a stream, whichever place owns it.
LEMMA DetachType ==
  ASSUME NEW s \in SessionType, NEW id \in StreamId
  PROVE  Detach(s, id) \in SessionType
  <1>1. [s.streams[id] EXCEPT !.item = 0, !.defer = "NO"] \in Stream
    BY StreamOf, StreamUpdate, StateConstants, Zenon
  <1>2. [s EXCEPT !.streams[id] = [s.streams[id] EXCEPT !.item = 0, !.defer = "NO"]]
          \in SessionType
    BY <1>1, SetStream
  <1>3. Detach(s, id) =
          [s EXCEPT !.streams[id] = [s.streams[id] EXCEPT !.item = 0, !.defer = "NO"]]
    BY FieldTypes, ZenonT(30) DEF Detach, StreamMap
  <1> QED BY <1>2, <1>3, Zenon

\* Freeing the DATA item of a stream.
LEMMA FreeDataType ==
  ASSUME NEW s \in SessionType, NEW it
  PROVE  FreeData(s, it) \in SessionType
  <1>1. s.heap \ {<<it.id, it.addr>>} \in Heap
    BY FieldTypes DEF Heap
  <1> QED BY <1>1, ZenonT(30) DEF SessionType, FreeData

\* Attaching a new DATA item to a stream.
LEMMA SubmitDataOnType ==
  ASSUME NEW s \in SessionType, NEW id
  PROVE  SubmitDataOn(s, id) \in SessionType
  <1>1. CASE ~Live(s, id) \/ s.streams[id].item # 0
    BY <1>1 DEF SubmitDataOn
  <1>2. CASE ~ (~Live(s, id) \/ s.streams[id].item # 0)
    <2> DEFINE a == Fresh(s, id)
               h == s.heap \cup {<<id, a>>}
               b == s.asserts /\ s.streams[id].defer = "NO"
               x == [s.streams[id] EXCEPT !.item = a]
               m == [s.streams EXCEPT ![id] = x]
    <2>1. id \in StreamId
      BY <1>2, LiveId
    <2>2. a \in 1..2 /\ a \in 0..2
      BY DEF Fresh
    <2>3. h \in Heap
      <3> HIDE DEF a
      <3> QED BY <2>1, <2>2, FieldTypes DEF Heap
    <2>4. x \in Stream
      <3> HIDE DEF a
      <3> QED BY <2>1, <2>2, StreamOf, StreamUpdate, StateConstants, Zenon
    <2>5. m \in StreamMap
      BY <2>1, <2>4, StreamOf
    <2>6. b \in BOOLEAN
      BY FieldTypes
    <2>7. SubmitDataOn(s, id) = [s EXCEPT !.heap = h, !.asserts = b, !.streams = m]
      BY <1>2, Zenon DEF SubmitDataOn
    <2> HIDE DEF h, b, m
    <2>8. [s EXCEPT !.heap = h, !.asserts = b, !.streams = m] \in SessionType
      BY <2>3, <2>5, <2>6, ZenonT(60) DEF SessionType
    <2> QED BY <2>7, <2>8, Zenon
  <1> QED BY <1>1, <1>2

\* Adding an item to each of the outbound queues (nghttp2_session_add_item).
LEMMA AddType ==
  ASSUME NEW s \in SessionType, NEW it \in Item
  PROVE  /\ AddReg(s, it) \in SessionType
         /\ AddUrgent(s, it) \in SessionType
         /\ AddHeaders(s, it) \in SessionType
  <1>1. /\ Append(s.ob_reg, it) \in Queue
        /\ Append(s.ob_urgent, it) \in Queue
        /\ Append(s.ob_syn, it) \in Queue
    BY FieldTypes, QueueUpdate, ZenonT(30)
  <1>2. AddReg(s, it) \in SessionType
    BY <1>1, ZenonT(60) DEF SessionType, AddReg
  <1>3. AddUrgent(s, it) \in SessionType
    BY <1>1, ZenonT(30) DEF SessionType, AddUrgent
  <1>4. /\ [s EXCEPT !.ob_syn = Append(@, it)] \in SessionType
        /\ [s EXCEPT !.ob_reg = Append(@, it)] \in SessionType
    BY <1>1, ZenonT(60) DEF SessionType
  <1>5. AddHeaders(s, it) \in SessionType
    BY <1>4, Zenon DEF AddHeaders
  <1> QED BY <1>2, <1>3, <1>5

\* The constants that name frames and categories are of their types.
LEMMA FrameConstants ==
  /\ {"NONE", "HEADERS", "DATA", "RST_STREAM", "PUSH_PROMISE", "GOAWAY",
      "PRIORITY", "SETTINGS", "PING"} \subseteq FrameType
  /\ {"NONE", "REQUEST", "CANCELED", "HEADERS", "RESPONSE", "PUSH_RESPONSE",
      "TERM_ON_SEND", "SHUTDOWN_NOTICE", "NO_COPY", "ACK"} \subseteq Aux
  /\ 0 \in LastId
  <1>1. 0 \in LastId
    BY SessionAssumption DEF LastId
  <1> QED BY <1>1, Zenon DEF FrameType, Aux

\* Queueing a RST_STREAM, which puts the stream into CLOSING.
LEMMA AddRstItemType ==
  ASSUME NEW s \in SessionType, NEW id \in LastId
  PROVE  AddRstItem(s, id) \in SessionType
  <1> DEFINE s1 == IF Live(s, id) THEN [s EXCEPT !.streams[id].state = "CLOSING"] ELSE s
  <1>1. s1 \in SessionType
    <2>1. Live(s, id) => [s EXCEPT !.streams[id].state = "CLOSING"] \in SessionType
      BY LiveId, SetStreamField, StateConstants, ZenonT(30)
    <2> QED BY <2>1, Zenon
  <1>2. Frame("RST_STREAM", id) \in Item
    BY FrameItem, FrameConstants
  <1> HIDE DEF s1
  <1>3. AddReg(s1, Frame("RST_STREAM", id)) \in SessionType
    BY <1>1, <1>2, AddType
  <1> QED BY <1>3, Zenon DEF AddRstItem, s1

\* The pending request that is cancelled is in the queue.
LEMMA CancelAtType ==
  ASSUME NEW s \in SessionType, NEW id, CancelAt(s, id) # 0
  PROVE  CancelAt(s, id) \in 1..Len(s.ob_syn)
  <1> DEFINE at == {i \in 1..Len(s.ob_syn) : /\ s.ob_syn[i].id >= id
                                      /\ \A j \in 1..i-1 : s.ob_syn[j].id < id}
  <1>1. at # {} /\ CancelAt(s, id) = CHOOSE i \in at : TRUE
    BY ZenonT(30) DEF CancelAt
  <1>2. CancelAt(s, id) \in at
    <2> HIDE DEF at
    <2> QED BY <1>1, Zenon
  <1> QED BY <1>2

\* A RST_STREAM that may cancel a request still in ob_syn
\* (nghttp2_session_add_rst_stream).
LEMMA AddRstType ==
  ASSUME NEW s \in SessionType, NEW id \in LastId
  PROVE  AddRst(s, id) \in SessionType
  <1>1. CASE StreamIn(s, id, {"CLOSING"})
    BY <1>1 DEF AddRst
  <1>2. CASE ~StreamIn(s, id, {"CLOSING"}) /\ CancelAt(s, id) # 0
    <2> DEFINE k == CancelAt(s, id)
               y == [s.ob_syn[k] EXCEPT !.aux = "CANCELED"]
               q == [s.ob_syn EXCEPT ![k] = y]
    <2>1. k \in 1..Len(s.ob_syn)
      BY <1>2, CancelAtType
    <2> HIDE DEF k
    <2>2. s.ob_syn[k] \in Item
      BY <2>1, FieldTypes, QueueUpdate
    <2>3. y \in Item
      BY <2>2, ItemUpdate, FrameConstants, StateConstants, Zenon
    <2>4. q \in Queue
      BY <2>1, <2>3, FieldTypes, QueueUpdate, ZenonT(30)
    <2>5. AddRst(s, id) = [s EXCEPT !.ob_syn = q]
      BY <1>2, Zenon DEF AddRst, k
    <2> HIDE DEF q
    <2>6. [s EXCEPT !.ob_syn = q] \in SessionType
      BY <2>4 DEF SessionType
    <2> QED BY <2>5, <2>6, Zenon
  <1>3. CASE ~StreamIn(s, id, {"CLOSING"}) /\ CancelAt(s, id) = 0
    BY <1>3, AddRstItemType DEF AddRst
  <1> QED BY <1>1, <1>2, <1>3

\* Queueing a GOAWAY (nghttp2_session_add_goaway).
LEMMA AddGoawayType ==
  ASSUME NEW s \in SessionType, NEW last \in LastId, NEW aux \in Aux
  PROVE  AddGoaway(s, last, aux) \in SessionType
  <1> DEFINE a == Smaller(last, s.local_last_stream_id)
             it == [Frame("GOAWAY", 0) EXCEPT !.arg = a, !.aux = aux]
  <1>1. a \in LastId
    BY FieldTypes DEF Smaller
  <1>2. Frame("GOAWAY", 0) \in Item
    BY FrameItem, FrameConstants
  <1> HIDE DEF a
  <1>3. it \in Item
    BY <1>1, <1>2, ItemUpdate, StateConstants, Zenon
  <1> HIDE DEF it
  <1>4. AddReg(s, it) \in SessionType
    BY <1>3, AddType
  <1> QED BY <1>4, Zenon DEF AddGoaway, it, a

\* Assigning the state of the inbound frame, or the GOAWAY flags.
LEMMA SetInboundState ==
  ASSUME NEW s \in SessionType, NEW st \in InboundState
  PROVE  [s EXCEPT !.iframe.state = st] \in SessionType
  <1>1. [s.iframe EXCEPT !.state = st] \in InboundFrame
    BY FieldTypes DEF InboundFrame
  <1> QED BY <1>1 DEF SessionType

\* The inbound states the operators write.
LEMMA InboundConstants ==
  {"FIRST", "HEAD", "HB", "IGN_HB", "DATA", "IGN_DATA", "IGN_ALL"} \subseteq InboundState
  BY Zenon DEF InboundState

\* Terminating the session, in either form (session_terminate_session).
LEMMA TerminateType ==
  ASSUME NEW s \in SessionType, NEW last \in LastId
  PROVE  Terminate(s, last) \in SessionType
  <1> DEFINE s1 == [s EXCEPT !.iframe.state = "IGN_ALL"]
             s2 == AddGoaway(s1, last, "TERM_ON_SEND")
             g == s2.goaway_flags \cup {"TERM_ON_SEND"}
  <1>1. s1 \in SessionType
    BY SetInboundState, InboundConstants
  <1> HIDE DEF s1
  <1>2. s2 \in SessionType
    BY <1>1, AddGoawayType, FrameConstants
  <1> HIDE DEF s2
  <1>3. g \in GoawayFlags
    BY <1>2, FieldTypes DEF GoawayFlags
  <1> HIDE DEF g
  <1>4. [s2 EXCEPT !.goaway_flags = g] \in SessionType
    BY <1>2, <1>3 DEF SessionType
  <1> QED BY <1>1, <1>4, Zenon DEF Terminate, s1, s2, g

\* A connection error found while receiving.
LEMMA ConnectionErrorType ==
  ASSUME NEW s \in SessionType
  PROVE  ConnectionError(s) \in SessionType
  BY FieldTypes, TerminateType DEF ConnectionError

-----------------------------------------------------------------------------
(* Preparing and sending a frame *)

\* The side effects of session_prep_frame before its checks.
LEMMA PrepBeginType ==
  ASSUME NEW s \in SessionType, NEW it \in Item
  PROVE  PrepBegin(s, it) \in SessionType
  <1>1. OpenStream(s, it.id, "INITIAL", it.arg) \in SessionType
    BY ItemFields, OpenStreamType, StateConstants
  <1> DEFINE b == s.asserts /\ s.obq_flood_counter > 0
             n == Larger(s.obq_flood_counter - 1, 0)
             t == [s EXCEPT !.asserts = b, !.obq_flood_counter = n]
  <1>2. b \in BOOLEAN /\ n \in Nat
    BY FieldTypes DEF Larger
  <1>3. t \in SessionType
    <2> HIDE DEF b, n
    <2> QED BY <1>2, ZenonT(30) DEF SessionType
  <1>4. PrepBegin(s, it) \in {OpenStream(s, it.id, "INITIAL", it.arg), t, s}
    BY Zenon DEF PrepBegin
  <1> HIDE DEF t
  <1> QED BY <1>1, <1>3, <1>4

\* The category of a HEADERS frame about to be sent.
LEMMA CategoryType ==
  ASSUME NEW s, NEW it \in Item
  PROVE  Category(s, it) \in Aux
  BY ItemFields, FrameConstants DEF Category

\* The side effects of session_prep_frame after its checks.
LEMMA PrepDoneType ==
  ASSUME NEW s \in SessionType, NEW it \in Item
  PROVE  PrepDone(s, it) \in SessionType
  <1>1. it.id \in LastId /\ it.arg \in LastId
    BY ItemFields
  <1>2. ASSUME NEW b \in BOOLEAN, NEW id \in LastId
        PROVE  [s EXCEPT !.asserts = b, !.last_sent_stream_id = id] \in SessionType
    BY ZenonT(60) DEF SessionType
  <1> DEFINE b1 == s.asserts /\ s.last_sent_stream_id < it.id
             b2 == s.asserts /\ s.last_sent_stream_id + 2 <= it.arg
  <1>3. b1 \in BOOLEAN /\ b2 \in BOOLEAN
    BY FieldTypes
  <1>4. [s EXCEPT !.local_last_stream_id = it.arg] \in SessionType
    BY <1>1 DEF SessionType
  <1>5. PrepDone(s, it) \in {[s EXCEPT !.asserts = b1, !.last_sent_stream_id = it.id],
                             [s EXCEPT !.asserts = b2, !.last_sent_stream_id = it.arg],
                             [s EXCEPT !.local_last_stream_id = it.arg], s}
    BY Zenon DEF PrepDone
  <1> HIDE DEF b1, b2
  <1>6. /\ [s EXCEPT !.asserts = b1, !.last_sent_stream_id = it.id] \in SessionType
        /\ [s EXCEPT !.asserts = b2, !.last_sent_stream_id = it.arg] \in SessionType
    BY <1>1, <1>2, <1>3, ZenonT(30)
  <1> QED BY <1>4, <1>5, <1>6, Zenon

\* Taking the next control frame off a queue.
LEMMA PopControlType ==
  ASSUME NEW s \in SessionType, ControlItem(s) # NoItem
  PROVE  ControlItem(s) \in Item /\ PopControl(s) \in SessionType
  <1>1. \/ s.ob_urgent # <<>>
        \/ s.ob_urgent = <<>> /\ s.ob_reg # <<>>
        \/ s.ob_urgent = <<>> /\ s.ob_reg = <<>> /\ s.ob_syn # <<>>
    BY DEF ControlItem
  <1>2. CASE s.ob_urgent # <<>>
    <2>1. Head(s.ob_urgent) \in Item /\ Tail(s.ob_urgent) \in Queue
      BY <1>2, FieldTypes, QueueUpdate
    <2>2. [s EXCEPT !.ob_urgent = Tail(@)] \in SessionType
      BY <2>1, ZenonT(30) DEF SessionType
    <2> QED BY <1>2, <2>1, <2>2, Zenon DEF ControlItem, PopControl
  <1>3. CASE s.ob_urgent = <<>> /\ s.ob_reg # <<>>
    <2>1. Head(s.ob_reg) \in Item /\ Tail(s.ob_reg) \in Queue
      BY <1>3, FieldTypes, QueueUpdate
    <2>2. [s EXCEPT !.ob_reg = Tail(@)] \in SessionType
      BY <2>1, ZenonT(30) DEF SessionType
    <2> QED BY <1>3, <2>1, <2>2, Zenon DEF ControlItem, PopControl
  <1>4. CASE s.ob_urgent = <<>> /\ s.ob_reg = <<>> /\ s.ob_syn # <<>>
    <2>1. Head(s.ob_syn) \in Item /\ Tail(s.ob_syn) \in Queue
      BY <1>4, FieldTypes, QueueUpdate
    <2>2. [s EXCEPT !.ob_syn = Tail(@)] \in SessionType
      BY <2>1, ZenonT(60) DEF SessionType
    <2> QED BY <1>4, <2>1, <2>2, NoItemType, Zenon DEF ControlItem, PopControl
  <1> QED BY <1>1, <1>2, <1>3, <1>4

\* Recording a frame as written.
LEMMA OnWireType ==
  ASSUME NEW s \in SessionType, NEW it \in Item
  PROVE  OnWire(s, it) \in SessionType
  <1> DEFINE w == IF it.end \/ it.type = "RST_STREAM" THEN "ENDED"
                  ELSE IF s.wire[it.id] = "NONE" /\ it.type = "HEADERS" THEN "BEGUN"
                  ELSE s.wire[it.id]
             m == [s.wire EXCEPT ![it.id] = w]
  <1>1. CASE it.id \notin StreamId \/ it.type \notin {"HEADERS", "DATA", "RST_STREAM"}
    BY <1>1, Zenon DEF OnWire
  <1>2. CASE ~ (it.id \notin StreamId \/ it.type \notin {"HEADERS", "DATA", "RST_STREAM"})
    <2>1. m \in Wire
      BY <1>2, FieldTypes DEF Wire
    <2>2. OnWire(s, it) = [s EXCEPT !.wire = m]
      BY <1>2, Zenon DEF OnWire
    <2> HIDE DEF m
    <2>3. [s EXCEPT !.wire = m] \in SessionType
      BY <2>1 DEF SessionType
    <2> QED BY <2>2, <2>3, Zenon
  <1> QED BY <1>1, <1>2, Zenon

\* A reserved stream of this side that becomes active when its HEADERS are sent.
LEMMA PromotedType ==
  ASSUME NEW s \in SessionType, NEW id \in StreamId
  PROVE  Promoted(s, id) \in SessionType
  <1> DEFINE x == [s.streams[id] EXCEPT !.state = "OPENED", !.push = FALSE]
             m == [s.streams EXCEPT ![id] = x]
             n == s.num_outgoing_streams + 1
  <1>1. x \in Stream
    BY StreamOf, StreamUpdate, StateConstants, Zenon
  <1>2. m \in StreamMap
    BY <1>1, StreamOf
  <1>3. n \in Int
    BY FieldTypes
  <1>4. Promoted(s, id) = [s EXCEPT !.streams = m, !.num_outgoing_streams = n]
    <2>1. [[s.streams EXCEPT ![id].state = "OPENED"] EXCEPT ![id].push = FALSE] = m
      BY FieldTypes, ZenonT(30) DEF StreamMap
    <2> QED BY <2>1, ZenonT(30) DEF Promoted
  <1> HIDE DEF m, n
  <1>5. [s EXCEPT !.streams = m, !.num_outgoing_streams = n] \in SessionType
    BY <1>2, <1>3, ZenonT(60) DEF SessionType
  <1> QED BY <1>4, <1>5, Zenon

\* What session_after_frame_sent1 does after HEADERS.
LEMMA HeadersSentType ==
  ASSUME NEW s \in SessionType, NEW it \in Item
  PROVE  HeadersSent(s, it) \in SessionType
  <1> DEFINE id == it.id
             s1 == CASE it.aux = "REQUEST" -> [s EXCEPT !.streams[id].state = "OPENING"]
                     [] it.aux = "PUSH_RESPONSE" -> Promoted(s, id)
                     [] it.aux = "RESPONSE" -> [s EXCEPT !.streams[id].state = "OPENED"]
                     [] OTHER -> s
             s2 == [s1 EXCEPT !.streams[id].wr = @ \/ it.end]
  <1>1. CASE ~Live(s, id)
    BY <1>1, Zenon DEF HeadersSent
  <1>2. CASE Live(s, id)
    <2>1. id \in StreamId
      BY <1>2, LiveId
    <2>2. /\ [s EXCEPT !.streams[id].state = "OPENING"] \in SessionType
          /\ [s EXCEPT !.streams[id].state = "OPENED"] \in SessionType
          /\ Promoted(s, id) \in SessionType
      BY <2>1, SetStreamField, StateConstants, PromotedType, ZenonT(30)
    <2>3. s1 \in SessionType
      BY <2>2, Zenon
    <2> HIDE DEF s1
    <2>4. (s1.streams[id].wr \/ it.end) \in BOOLEAN
      OBVIOUS
    <2>5. s2 \in SessionType
      BY <2>1, <2>3, <2>4, SetStreamField, StateConstants, ZenonT(30)
    <2> HIDE DEF s2
    <2>6. CloseIfShut(s2, id) \in SessionType
      BY <2>5, CloseIfShutType
    <2>7. SubmitDataOn(CloseIfShut(s2, id), id) \in SessionType
      BY <2>6, SubmitDataOnType
    <2>8. HeadersSent(s, it) \in {SubmitDataOn(CloseIfShut(s2, id), id), CloseIfShut(s2, id)}
      BY <1>2, Zenon DEF HeadersSent, s1, s2
    <2> QED BY <2>6, <2>7, <2>8
  <1> QED BY <1>1, <1>2

\* What session_after_frame_sent1 does after DATA.
LEMMA DataSentType ==
  ASSUME NEW s \in SessionType, NEW it \in Item
  PROVE  DataSent(s, it) \in SessionType
  <1>1. CASE ~ (Live(s, it.id) /\ it.data)
    BY <1>1, Zenon DEF DataSent
  <1>2. CASE Live(s, it.id) /\ it.data
    <2> DEFINE s1 == Detach(s, it.id)
               s2 == [s1 EXCEPT !.streams[it.id].wr = TRUE]
    <2>1. it.id \in StreamId
      BY <1>2, LiveId
    <2>2. s1 \in SessionType
      BY <2>1, DetachType
    <2> HIDE DEF s1
    <2>3. s2 \in SessionType
      BY <2>1, <2>2, SetStreamField, StateConstants, ZenonT(30)
    <2> HIDE DEF s2
    <2>4. CloseIfShut(s2, it.id) \in SessionType
      BY <2>3, CloseIfShutType
    <2> QED BY <1>2, <2>2, <2>4, Zenon DEF DataSent, s1, s2
  <1> QED BY <1>1, <1>2

\* A stream that is idle by its ID has an ID of the hash map.
LEMMA IdleId ==
  ASSUME NEW s, NEW id \in LastId, Raw(s, id) \/ DetectIdle(s, id)
  PROVE  id \in StreamId
  BY SessionAssumption DEF Raw, DetectIdle, IsNewPeerId, IsMine, LastId, StreamId

\* What session_after_frame_sent1 does after PRIORITY.
LEMMA PrioritySentType ==
  ASSUME NEW s \in SessionType, NEW it \in Item
  PROVE  PrioritySent(s, it) \in SessionType
  <1>1. CASE s.server \/ ~ (Raw(s, it.id) \/ DetectIdle(s, it.id))
    BY <1>1, Zenon DEF PrioritySent
  <1>2. CASE ~ (s.server \/ ~ (Raw(s, it.id) \/ DetectIdle(s, it.id)))
    <2>1. it.id \in LastId /\ it.arg \in LastId
      BY ItemFields
    <2>2. it.id \in StreamId
      BY <1>2, <2>1, IdleId
    <2>3. Reprioritize(s, it.arg) \in SessionType
      BY <2>1, ReprioritizeType
    <2>4. OpenStream(s, it.id, "IDLE", it.arg) \in SessionType
      BY <2>1, <2>2, OpenStreamType, StateConstants
    <2> QED BY <1>2, <2>3, <2>4, AdjustIdleType, Zenon DEF PrioritySent
  <1> QED BY <1>1, <1>2

\* What session_after_frame_sent1 does after GOAWAY.
LEMMA GoawaySentType ==
  ASSUME NEW s \in SessionType, NEW it \in Item, NEW q \in IdList
  PROVE  GoawaySent(s, it, q) \in SessionType
  <1> DEFINE g == s.goaway_flags \cup {"SENT"}
                    \cup (IF it.aux = "TERM_ON_SEND" THEN {"TERM_SENT"} ELSE {})
             s1 == [s EXCEPT !.goaway_flags = g]
             C == OnGoaway(s, it.arg, TRUE)
  <1>1. g \in GoawayFlags
    BY FieldTypes DEF GoawayFlags
  <1>2. s1 \in SessionType
    <2> HIDE DEF g
    <2> QED BY <1>1 DEF SessionType
  <1>3. C \subseteq StreamId
    BY OnGoawayType, ZenonT(30)
  <1> HIDE DEF s1, C
  <1>4. CloseAll(s1, C, q) \in SessionType
    BY <1>2, <1>3, CloseAllType
  <1> QED BY <1>4, Zenon DEF GoawaySent, s1, C

\* All of session_after_frame_sent1.
LEMMA AfterFrameSent1Type ==
  ASSUME NEW s \in SessionType, NEW q \in IdList, NEW open \in BOOLEAN
  PROVE  AfterFrameSent1(s, q, open) \in SessionType
  <1> DEFINE it == s.aob.item
             s1 == [s EXCEPT !.window_open = open]
  <1>1. it \in Item
    BY ActiveFields
  <1>2. s1 \in SessionType
    BY DEF SessionType
  <1> HIDE DEF it, s1
  <1>3. DataSent(s1, it) \in SessionType
    BY <1>1, <1>2, DataSentType
  <1>4. /\ HeadersSent(s, it) \in SessionType
        /\ PrioritySent(s, it) \in SessionType
        /\ CloseStream(s, it.id) \in SessionType
        /\ GoawaySent(s, it, q) \in SessionType
    BY <1>1, HeadersSentType, PrioritySentType, CloseStreamType, GoawaySentType
  <1> QED BY <1>3, <1>4, Zenon DEF AfterFrameSent1, it, s1

\* The streams that sending the active item closes are streams.
LEMMA SentClosesType ==
  ASSUME NEW s \in SessionType
  PROVE  SentCloses(s) \subseteq StreamId
  BY OnGoawayType, ZenonT(30) DEF SentCloses

\* Assigning the active item.
LEMMA SetActive ==
  ASSUME NEW s \in SessionType, NEW it \in Item,
         NEW st \in {"POP", "SEND", "SENT", "NO_COPY"}
  PROVE  /\ [s EXCEPT !.aob = [item |-> it, stage |-> st]] \in SessionType
         /\ [s EXCEPT !.aob.stage = st] \in SessionType
         /\ [s EXCEPT !.aob.item = it] \in SessionType
  <1>1. /\ [item |-> it, stage |-> st] \in ActiveItem
        /\ [s.aob EXCEPT !.stage = st] \in ActiveItem
        /\ [s.aob EXCEPT !.item = it] \in ActiveItem
    BY FieldTypes DEF ActiveItem
  <1>2. [s EXCEPT !.aob = [item |-> it, stage |-> st]] \in SessionType
    <2> DEFINE a == [item |-> it, stage |-> st]
    <2> HIDE DEF a
    <2>1. a \in ActiveItem
      BY <1>1 DEF a
    <2>2. [s EXCEPT !.aob = a] \in SessionType
      BY <2>1 DEF SessionType
    <2> QED BY <2>2 DEF a
  <1>3. [s EXCEPT !.aob.stage = st] \in SessionType
    BY <1>1 DEF SessionType
  <1>4. [s EXCEPT !.aob.item = it] \in SessionType
    BY <1>1 DEF SessionType
  <1> QED BY <1>2, <1>3, <1>4

\* Resetting the active outbound item (active_outbound_item_reset).
LEMMA ResetAobType ==
  ASSUME NEW s \in SessionType
  PROVE  ResetAob(s) \in SessionType
  BY SetActive, NoItemType, ZenonT(30) DEF ResetAob

\* All of session_after_frame_sent2.
LEMMA AfterFrameSent2Type ==
  ASSUME NEW s \in SessionType
  PROVE  AfterFrameSent2(s) \in SessionType
  <1> DEFINE it == s.aob.item
             s1 == IF Live(s, it.id) THEN Detach(s, it.id) ELSE s
  <1>1. s1 \in SessionType
    <2>1. Live(s, it.id) => it.id \in StreamId
      BY LiveId
    <2> QED BY <2>1, DetachType
  <1> HIDE DEF it, s1
  <1>2. FreeData(s, it) \in SessionType /\ FreeData(s1, it) \in SessionType
    BY <1>1, FreeDataType
  <1>3. /\ ResetAob(s) \in SessionType
        /\ ResetAob(FreeData(s, it)) \in SessionType
        /\ ResetAob(FreeData(s1, it)) \in SessionType
    BY <1>2, ResetAobType
  <1>4. AfterFrameSent2(s) \in {ResetAob(s), ResetAob(FreeData(s, it)),
                                ResetAob(FreeData(s1, it))}
    BY Zenon DEF AfterFrameSent2, it, s1
  <1> QED BY <1>3, <1>4

-----------------------------------------------------------------------------
(* Receiving *)

\* Entering the state that inflates a header block and drops it.
LEMMA IgnoreBlockType ==
  ASSUME NEW s \in SessionType
  PROVE  IgnoreBlock(s) \in SessionType
  BY SetInboundState, InboundConstants, Zenon DEF IgnoreBlock

\* Entering the state that reads a header block.
LEMMA BeginBlockType ==
  ASSUME NEW s \in SessionType, NEW id \in LastId, NEW accepted
  PROVE  BeginBlock(s, id, accepted) \in SessionType
  <1>1. [s EXCEPT !.iframe.state = "HB"] \in SessionType
    BY SetInboundState, InboundConstants
  <1>2. IgnoreBlock(AddRst(s, id)) \in SessionType
    BY AddRstType, IgnoreBlockType
  <1> QED BY <1>1, <1>2, Zenon DEF BeginBlock

\* Recording the last stream received or processed.
LEMMA SetLastStream ==
  ASSUME NEW s \in SessionType, NEW id \in LastId
  PROVE  /\ [s EXCEPT !.last_recv_stream_id = id] \in SessionType
         /\ [s EXCEPT !.last_proc_stream_id = id] \in SessionType
  <1>1. [s EXCEPT !.last_recv_stream_id = id] \in SessionType
    BY DEF SessionType
  <1>2. [s EXCEPT !.last_proc_stream_id = id] \in SessionType
    BY DEF SessionType
  <1> QED BY <1>1, <1>2

\* HEADERS that open a stream (nghttp2_session_on_request_headers_received).
LEMMA OnRequestHeadersType ==
  ASSUME NEW s \in SessionType, NEW id \in LastId, NEW dep \in LastId, NEW accepted
  PROVE  OnRequestHeaders(s, id, dep, accepted) \in SessionType
  <1> DEFINE s1 == [s EXCEPT !.last_recv_stream_id = id]
             s2 == AdjustClosed(OpenStream(s1, id, "OPENING", dep))
             s3 == [s2 EXCEPT !.last_proc_stream_id = id]
  <1>1. s1 \in SessionType
    BY SetLastStream, ZenonT(30)
  <1> HIDE DEF s1
  <1>2. OpenStream(s1, id, "OPENING", dep) \in SessionType
    BY <1>1, OpenStreamType, StateConstants
  <1>3. s2 \in SessionType
    BY <1>2, AdjustClosedType
  <1> HIDE DEF s2
  <1>4. s3 \in SessionType
    BY <1>3, SetLastStream, ZenonT(30)
  <1> HIDE DEF s3
  <1>5. /\ IgnoreBlock(s) \in SessionType
        /\ IgnoreBlock(s1) \in SessionType
        /\ IgnoreBlock(ConnectionError(s)) \in SessionType
        /\ IgnoreBlock(ConnectionError(s1)) \in SessionType
        /\ IgnoreBlock(AddRst(s1, id)) \in SessionType
        /\ BeginBlock(s3, id, accepted) \in SessionType
    BY <1>1, <1>4, IgnoreBlockType, ConnectionErrorType, AddRstType, BeginBlockType
  <1>6. OnRequestHeaders(s, id, dep, accepted) \in
          {IgnoreBlock(s), IgnoreBlock(s1), IgnoreBlock(ConnectionError(s)),
           IgnoreBlock(ConnectionError(s1)), IgnoreBlock(AddRst(s1, id)),
           BeginBlock(s3, id, accepted)}
    BY Zenon DEF OnRequestHeaders, s1, s2, s3
  <1> QED BY <1>5, <1>6

\* HEADERS that open a promised stream
\* (nghttp2_session_on_push_response_headers_received).
LEMMA PushOpenedType ==
  ASSUME NEW s \in SessionType, NEW id \in StreamId
  PROVE  PushOpened(s, id) \in SessionType
  <1> DEFINE x == [s.streams[id] EXCEPT !.state = "OPENED", !.push = FALSE]
             m == [s.streams EXCEPT ![id] = x]
             r == IF IsMine(s, id) THEN s.num_incoming_reserved_streams
                  ELSE s.num_incoming_reserved_streams - 1
             n == s.num_incoming_streams + 1
  <1>1. x \in Stream
    BY StreamOf, StreamUpdate, StateConstants, Zenon
  <1>2. m \in StreamMap
    BY <1>1, StreamOf
  <1>3. r \in Int /\ n \in Int
    BY FieldTypes
  <1>4. PushOpened(s, id) = [s EXCEPT !.streams = m, !.num_incoming_reserved_streams = r,
                                      !.num_incoming_streams = n]
    <2>1. [[s.streams EXCEPT ![id].state = "OPENED"] EXCEPT ![id].push = FALSE] = m
      BY FieldTypes, ZenonT(30) DEF StreamMap
    <2> QED BY <2>1, ZenonT(30) DEF PushOpened
  <1> HIDE DEF m, r, n
  <1>5. [s EXCEPT !.streams = m, !.num_incoming_reserved_streams = r,
                  !.num_incoming_streams = n] \in SessionType
    BY <1>2, <1>3, ZenonT(60) DEF SessionType
  <1> QED BY <1>4, <1>5, Zenon

\* All of session_process_headers_frame.
LEMMA ProcessHeadersType ==
  ASSUME NEW s \in SessionType, NEW id \in LastId, NEW dep \in LastId, NEW accepted
  PROVE  ProcessHeaders(s, id, dep, accepted) \in SessionType
  <1>1. CASE ~Live(s, id)
    BY <1>1, OnRequestHeadersType DEF ProcessHeaders
  <1>2. CASE Live(s, id)
    <2> DEFINE s1 == [s EXCEPT !.streams[id].state = "OPENED"]
               s2 == PushOpened(s, id)
    <2>1. id \in StreamId
      BY <1>2, LiveId
    <2>2. s1 \in SessionType
      BY <2>1, SetStreamField, StateConstants, ZenonT(30)
    <2>3. s2 \in SessionType
      BY <2>1, PushOpenedType
    <2> HIDE DEF s1, s2
    <2>4. /\ IgnoreBlock(s) \in SessionType
          /\ IgnoreBlock(ConnectionError(s)) \in SessionType
          /\ IgnoreBlock(AddRst(s, id)) \in SessionType
          /\ BeginBlock(s, id, accepted) \in SessionType
          /\ BeginBlock(s1, id, accepted) \in SessionType
          /\ BeginBlock(s2, id, accepted) \in SessionType
      BY <2>2, <2>3, IgnoreBlockType, ConnectionErrorType, AddRstType, BeginBlockType
    <2>5. ProcessHeaders(s, id, dep, accepted) \in
            {IgnoreBlock(s), IgnoreBlock(ConnectionError(s)), IgnoreBlock(AddRst(s, id)),
             BeginBlock(s, id, accepted), BeginBlock(s1, id, accepted),
             BeginBlock(s2, id, accepted)}
      BY <1>2, Zenon DEF ProcessHeaders, OnPushResponseHeaders, OnResponseHeaders,
                         OnHeaders, s1, s2
    <2> QED BY <2>4, <2>5
  <1> QED BY <1>1, <1>2

\* A PUSH_PROMISE (nghttp2_session_on_push_promise_received).
LEMMA OnPushPromiseType ==
  ASSUME NEW s \in SessionType, NEW id \in LastId, NEW pid \in LastId, NEW accepted
  PROVE  OnPushPromise(s, id, pid, accepted) \in SessionType
  <1> DEFINE s1 == [s EXCEPT !.last_recv_stream_id = pid]
             s2 == OpenStream(s1, pid, "RESERVED", id)
             s3 == [s2 EXCEPT !.last_proc_stream_id = pid]
  <1>1. s1 \in SessionType
    BY SetLastStream, ZenonT(30)
  <1> HIDE DEF s1
  <1>2. s2 \in SessionType
    BY <1>1, OpenStreamType, StateConstants
  <1> HIDE DEF s2
  <1>3. s3 \in SessionType
    BY <1>2, SetLastStream, ZenonT(30)
  <1> HIDE DEF s3
  <1>4. /\ IgnoreBlock(s) \in SessionType
        /\ IgnoreBlock(ConnectionError(s)) \in SessionType
        /\ IgnoreBlock(ConnectionError(s1)) \in SessionType
        /\ IgnoreBlock(AddRst(s1, pid)) \in SessionType
        /\ BeginBlock(s3, pid, accepted) \in SessionType
    BY <1>1, <1>3, IgnoreBlockType, ConnectionErrorType, AddRstType, BeginBlockType
  <1>5. OnPushPromise(s, id, pid, accepted) \in
          {IgnoreBlock(s), IgnoreBlock(ConnectionError(s)),
           IgnoreBlock(ConnectionError(s1)), IgnoreBlock(AddRst(s1, pid)),
           BeginBlock(s3, pid, accepted)}
    BY Zenon DEF OnPushPromise, s1, s2, s3
  <1> QED BY <1>4, <1>5

\* Resetting the inbound frame (session_inbound_frame_reset).
LEMMA ResetInboundType ==
  ASSUME NEW s \in SessionType
  PROVE  ResetInbound(s) \in SessionType /\ FrameDone(s) \in SessionType
  <1> DEFINE f == [state |-> "HEAD", type |-> "NONE", id |-> 0, arg |-> 0, end |-> FALSE]
  <1>1. f \in InboundFrame
    BY FrameConstants, InboundConstants DEF InboundFrame
  <1> HIDE DEF f
  <1>2. [s EXCEPT !.iframe = f] \in SessionType
    BY <1>1 DEF SessionType
  <1>3. ResetInbound(s) \in SessionType
    BY <1>2, Zenon DEF ResetInbound, f
  <1> QED BY <1>3, Zenon DEF FrameDone

\* The peer's END_STREAM.
LEMMA EndOfStreamType ==
  ASSUME NEW s \in SessionType, NEW id \in StreamId
  PROVE  EndOfStream(s, id) \in SessionType
  <1>1. [s EXCEPT !.streams[id].rd = TRUE] \in SessionType
    BY SetStreamField, StateConstants, ZenonT(30)
  <1> QED BY <1>1, CloseIfShutType DEF EndOfStream

\* The end of a header block (session_after_header_block_received).
LEMMA AfterHeaderBlockType ==
  ASSUME NEW s \in SessionType, NEW valid, NEW terminate
  PROVE  AfterHeaderBlock(s, valid, terminate) \in SessionType
  <1> DEFINE f == s.iframe
             s1 == IF ~valid THEN AddRst(s, Subject(f))
                   ELSE IF terminate THEN ConnectionError(s) ELSE s
  <1>1. s1 \in SessionType
    BY InboundFields, AddRstType, ConnectionErrorType
  <1> HIDE DEF s1
  <1>2. Live(s, f.id) => EndOfStream(s1, f.id) \in SessionType
    BY <1>1, LiveId, EndOfStreamType
  <1> QED BY <1>1, <1>2, Zenon DEF AfterHeaderBlock, s1

\* A header block that cannot be inflated.
LEMMA CompressionErrorType ==
  ASSUME NEW s \in SessionType
  PROVE  CompressionError(s) \in SessionType
  <1> DEFINE sub == Subject(s.iframe)
             s1 == IF s.iframe.state = "HB" /\ Live(s, sub) THEN AddRst(s, sub) ELSE s
  <1>1. s1 \in SessionType
    BY InboundFields, AddRstType
  <1> HIDE DEF s1
  <1>2. FrameDone(ConnectionError(s1)) \in SessionType
    BY <1>1, ConnectionErrorType, ResetInboundType
  <1> QED BY <1>2, Zenon DEF CompressionError, s1

\* The header of a DATA frame (session_on_data_received_fail_fast).
LEMMA OnDataHeaderType ==
  ASSUME NEW s \in SessionType, NEW id
  PROVE  OnDataHeader(s, id) \in SessionType
  <1> DEFINE st == s.streams[id]
             fails == \/ id = 0 \/ DetectIdle(s, id)
                      \/ Raw(s, id) /\ st.rd
                      \/ Live(s, id) /\ IsMine(s, id) /\ st.state \notin {"CLOSING", "OPENED"}
                      \/ Live(s, id) /\ ~IsMine(s, id) /\ st.state = "RESERVED"
             s1 == IF fails THEN ConnectionError(s) ELSE s
             to == IF fails \/ ~Live(s, id) \/ st.state = "CLOSING" THEN "IGN_DATA"
                   ELSE "DATA"
  <1>1. s1 \in SessionType
    BY ConnectionErrorType
  <1>2. to \in InboundState
    BY InboundConstants
  <1>3. OnDataHeader(s, id) \in {s1, [s1 EXCEPT !.iframe.state = to]}
    BY Zenon DEF OnDataHeader
  <1> HIDE DEF s1, to
  <1>4. [s1 EXCEPT !.iframe.state = to] \in SessionType
    BY <1>1, <1>2, SetInboundState
  <1> QED BY <1>1, <1>3, <1>4, Zenon

\* The end of a DATA frame (nghttp2_session_on_data_received).
LEMMA OnDataEndType ==
  ASSUME NEW s \in SessionType, NEW valid, NEW terminate
  PROVE  OnDataEnd(s, valid, terminate) \in SessionType
  <1> DEFINE f == s.iframe
             s1 == IF f.end /\ ~valid THEN AddRst(s, f.id)
                   ELSE IF terminate THEN ConnectionError(s) ELSE s
  <1>1. s1 \in SessionType
    BY InboundFields, AddRstType, ConnectionErrorType, ZenonT(30)
  <1> HIDE DEF s1
  <1>2. Live(s, f.id) => EndOfStream(s1, f.id) \in SessionType
    BY <1>1, LiveId, EndOfStreamType
  <1> QED BY <1>1, <1>2, Zenon DEF OnDataEnd, s1

\* A RST_STREAM (nghttp2_session_on_rst_stream_received).
LEMMA OnRstStreamType ==
  ASSUME NEW s \in SessionType, NEW id
  PROVE  OnRstStream(s, id) \in SessionType
  <1> DEFINE s1 == [s EXCEPT !.streams[id].rd = TRUE]
  <1>1. Live(s, id) => s1 \in SessionType
    BY LiveId, SetStreamField, StateConstants, ZenonT(30)
  <1> HIDE DEF s1
  <1>2. Live(s, id) => CloseStream(s1, id) \in SessionType
    BY <1>1, CloseStreamType
  <1> QED BY <1>2, ConnectionErrorType, Zenon DEF OnRstStream, s1

\* A PRIORITY (nghttp2_session_on_priority_received).
LEMMA OnPriorityType ==
  ASSUME NEW s \in SessionType, NEW id \in LastId, NEW dep \in LastId
  PROVE  OnPriority(s, id, dep) \in SessionType
  <1>1. Reprioritize(s, dep) \in SessionType
    BY ReprioritizeType
  <1>2. (Raw(s, id) \/ DetectIdle(s, id)) => OpenStream(s, id, "IDLE", dep) \in SessionType
    BY IdleId, OpenStreamType, StateConstants
  <1> QED BY <1>1, <1>2, AdjustIdleType, ConnectionErrorType, Zenon DEF OnPriority

\* A GOAWAY (nghttp2_session_on_goaway_received).
LEMMA OnGoawayReceivedType ==
  ASSUME NEW s \in SessionType, NEW last \in LastId, NEW q \in IdList
  PROVE  OnGoawayReceived(s, last, q) \in SessionType
  <1> DEFINE g == s.goaway_flags \cup {"RECV"}
             s1 == [s EXCEPT !.goaway_flags = g, !.remote_last_stream_id = last]
             C == OnGoaway(s, last, FALSE)
  <1>1. g \in GoawayFlags
    BY FieldTypes DEF GoawayFlags
  <1>2. s1 \in SessionType
    <2> HIDE DEF g
    <2> QED BY <1>1, ZenonT(60) DEF SessionType
  <1>3. C \subseteq StreamId
    BY OnGoawayType, ZenonT(30)
  <1> HIDE DEF s1, C
  <1>4. CloseAll(s1, C, q) \in SessionType
    BY <1>2, <1>3, CloseAllType
  <1> QED BY <1>4, ConnectionErrorType, Zenon DEF OnGoawayReceived, s1, C, g

\* Queueing the ACK of a SETTINGS or a PING, up to the flood limit.
LEMMA AddAckType ==
  ASSUME NEW s \in SessionType, NEW type \in {"SETTINGS", "PING"}
  PROVE  AddAck(s, type) \in SessionType
  <1> DEFINE it == [Frame(type, 0) EXCEPT !.aux = "ACK"]
             s1 == AddUrgent(s, it)
             n == s1.obq_flood_counter + 1
  <1>1. Frame(type, 0) \in Item
    BY FrameItem, FrameConstants, SessionAssumption DEF LastId
  <1>2. it \in Item
    BY <1>1, ItemUpdate, FrameConstants, StateConstants, Zenon
  <1> HIDE DEF it
  <1>3. s1 \in SessionType
    BY <1>2, AddType
  <1> HIDE DEF s1
  <1>4. n \in Nat
    BY <1>3, FieldTypes
  <1> HIDE DEF n
  <1>5. [s1 EXCEPT !.obq_flood_counter = n] \in SessionType
    BY <1>3, <1>4 DEF SessionType
  <1>6. [s EXCEPT !.fatal = TRUE] \in SessionType
    BY ZenonT(60) DEF SessionType
  <1> QED BY <1>5, <1>6, Zenon DEF AddAck, s1, n, it

=============================================================================
