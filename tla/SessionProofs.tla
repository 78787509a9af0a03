--------------------------- MODULE SessionProofs ---------------------------
(***************************************************************************)
(* Theorems about Session, for all values of the constants.                *)
(***************************************************************************)
EXTENDS Session, SessionOpsProofs

\* A new session is well typed.
LEMMA InitType ==
  ASSUME Init
  PROVE  TypeOK
  <1>1. PICK server \in Roles, fast_cb \in FastCb : session = NewSession(server, fast_cb)
    BY DEF Init
  <1>2. server \in BOOLEAN /\ fast_cb \in BOOLEAN
    BY InstanceAssumption
  <1> DEFINE m == [id \in StreamId |-> NoStream]
             a == [item |-> NoItem, stage |-> "POP"]
             f == [state |-> "FIRST", type |-> "NONE", id |-> 0, arg |-> 0, end |-> FALSE]
             w == [id \in StreamId |-> "NONE"]
             n == IF server THEN 2 ELSE 1
  <1>3. m \in StreamMap
    BY NoStreamType DEF StreamMap
  <1>4. a \in ActiveItem
    BY NoItemType DEF ActiveItem
  <1>5. f \in InboundFrame
    BY FrameConstants, InboundConstants DEF InboundFrame
  <1>6. w \in Wire
    BY DEF Wire
  <1>7. n \in NextId
    BY DEF NextId
  <1>8. /\ <<>> \in IdList /\ <<>> \in Queue /\ <<>> \in SettingsList
        /\ {} \in GoawayFlags /\ {} \in IdSet /\ {} \in Heap
    BY DEF IdList, Queue, SettingsList, GoawayFlags, IdSet, Heap
  <1>9. 0 \in LastId /\ MaxStreamId \in LastId
    BY SessionAssumption DEF LastId
  <1>10. DefaultMaxConcurrent \in Nat /\ InitialPeerMax \in Nat
    BY SessionAssumption, InstanceAssumption
  <1> HIDE DEF m, a, f, w, n
  <1>11. [server |-> server, fast_cb |-> fast_cb, streams |-> m,
   closedq |-> <<>>, idleq |-> <<>>,
   num_outgoing_streams |-> 0, num_incoming_streams |-> 0,
   num_incoming_reserved_streams |-> 0,
   next_stream_id |-> n,
   last_sent_stream_id |-> 0, last_recv_stream_id |-> 0,
   last_proc_stream_id |-> 0,
   local_last_stream_id |-> MaxStreamId, remote_last_stream_id |-> MaxStreamId,
   goaway_flags |-> {},
   ob_urgent |-> <<>>, ob_reg |-> <<>>, ob_syn |-> <<>>,
   aob |-> a, iframe |-> f,
   local_max_concurrent |-> DefaultMaxConcurrent,
   pending_max_concurrent |-> DefaultMaxConcurrent,
   remote_max_concurrent |-> InitialPeerMax, remote_settings_received |-> FALSE,
   local_enable_push |-> TRUE, pending_enable_push |-> TRUE,
   remote_enable_push |-> TRUE, inflight_settings |-> <<>>,
   window_open |-> TRUE, obq_flood_counter |-> 0,
   fatal |-> FALSE, asserts |-> TRUE, done |-> {}, heap |-> {},
   wire |-> w] \in SessionType
    BY <1>2, <1>3, <1>4, <1>5, <1>6, <1>7, <1>8, <1>9, <1>10 DEF SessionType
  <1> QED BY <1>1, <1>11, Zenon DEF NewSession, TypeOK, m, a, f, w, n

-----------------------------------------------------------------------------
(* The API *)

\* The largest stream ID, and an ID that may still be given to a stream.
LEMMA NextIdType ==
  ASSUME session \in SessionType, session.next_stream_id <= MaxStreamId
  PROVE  session.next_stream_id \in LastId /\ session.next_stream_id \in StreamId
  BY FieldTypes, SessionAssumption DEF LastId, NextId, StreamId

\* The next stream ID grows by two.
LEMMA NextIdGrows ==
  ASSUME NEW s \in SessionType
  PROVE  [s EXCEPT !.next_stream_id = @ + 2] \in SessionType
  <1>1. s.next_stream_id + 2 \in NextId
    BY FieldTypes DEF NextId
  <1> QED BY <1>1 DEF SessionType

\* nghttp2_submit_request keeps every field in its type.
LEMMA SubmitRequestType ==
  ASSUME TypeOK, NEW dep \in Deps, NEW data \in BOOLEAN, SubmitRequest(dep, data)
  PROVE  TypeOK'
  <1> DEFINE id == session.next_stream_id
             it == [Frame("HEADERS", id) EXCEPT !.arg = dep, !.end = ~data,
                                                !.data = data, !.aux = "REQUEST"]
             s1 == AddHeaders(session, it)
  <1>1. session \in SessionType
    BY DEF TypeOK
  <1>2. id \in LastId /\ id # 0 /\ dep \in LastId
    BY <1>1, NextIdType, InstanceAssumption DEF SubmitRequest, LastId, StreamId
  <1> HIDE DEF id
  <1>3. Frame("HEADERS", id) \in Item
    BY <1>2, FrameItem, FrameConstants
  <1>4. it \in Item
    BY <1>2, <1>3, ItemUpdate, FrameConstants, StateConstants, Zenon
  <1> HIDE DEF it
  <1>5. s1 \in SessionType
    BY <1>1, <1>4, AddType
  <1> HIDE DEF s1
  <1>6. [s1 EXCEPT !.next_stream_id = @ + 2] \in SessionType
    BY <1>5, NextIdGrows
  <1>7. session' = [s1 EXCEPT !.next_stream_id = @ + 2]
    BY Zenon DEF SubmitRequest, s1, it, id
  <1> QED BY <1>6, <1>7, Zenon DEF TypeOK

\* So do nghttp2_submit_response, _headers and _trailer.
LEMMA SubmitHeadersType ==
  ASSUME TypeOK, NEW id \in StreamId, NEW end \in BOOLEAN, NEW data \in BOOLEAN,
         SubmitHeaders(id, end, data)
  PROVE  TypeOK'
  <1> DEFINE it == [Frame("HEADERS", id) EXCEPT !.end = end, !.data = data,
                                                !.aux = "HEADERS"]
  <1>1. session \in SessionType
    BY DEF TypeOK
  <1>2. id \in LastId /\ id # 0
    BY DEF StreamId, LastId
  <1>3. Frame("HEADERS", id) \in Item
    BY <1>2, FrameItem, FrameConstants
  <1>4. it \in Item
    BY <1>2, <1>3, ItemUpdate, FrameConstants, StateConstants, Zenon
  <1> HIDE DEF it
  <1>5. AddHeaders(session, it) \in SessionType
    BY <1>1, <1>4, AddType
  <1> QED BY <1>5, Zenon DEF SubmitHeaders, TypeOK, it

\* So does nghttp2_submit_push_promise.
LEMMA SubmitPushPromiseType ==
  ASSUME TypeOK, NEW id \in StreamId, SubmitPushPromise(id)
  PROVE  TypeOK'
  <1> DEFINE pid == session.next_stream_id
             s1 == [session EXCEPT !.next_stream_id = @ + 2]
             s2 == OpenStream(s1, pid, "RESERVED", id)
             it == [Frame("PUSH_PROMISE", id) EXCEPT !.arg = pid]
  <1>1. session \in SessionType
    BY DEF TypeOK
  <1>2. id \in LastId /\ pid \in LastId
    BY <1>1, NextIdType DEF SubmitPushPromise, StreamId, LastId
  <1>3. s1 \in SessionType
    BY <1>1, NextIdGrows
  <1> HIDE DEF pid, s1
  <1>4. s2 \in SessionType
    BY <1>2, <1>3, OpenStreamType, StateConstants
  <1> HIDE DEF s2
  <1>5. Frame("PUSH_PROMISE", id) \in Item
    BY <1>2, FrameItem, FrameConstants
  <1>6. it \in Item
    BY <1>2, <1>5, ItemUpdate, FrameConstants, StateConstants, Zenon
  <1> HIDE DEF it
  <1>7. AddReg(s2, it) \in SessionType
    BY <1>4, <1>6, AddType
  <1>8. session' \in {s1, AddReg(s2, it)}
    BY Zenon DEF SubmitPushPromise, s1, s2, it, pid
  <1> QED BY <1>3, <1>7, <1>8, Zenon DEF TypeOK

\* So do the calls that queue a GOAWAY.
LEMMA SubmitGoawayType ==
  ASSUME TypeOK, NEW last \in LastId,
         SubmitGoaway(last) \/ SubmitShutdownNotice \/ TerminateSession(last)
  PROVE  TypeOK'
  <1>1. session \in SessionType
    BY DEF TypeOK
  <1>2. MaxStreamId \in LastId
    BY SessionAssumption DEF LastId
  <1>3. /\ AddGoaway(session, last, "NONE") \in SessionType
        /\ AddGoaway(session, MaxStreamId, "SHUTDOWN_NOTICE") \in SessionType
        /\ Terminate(session, last) \in SessionType
    BY <1>1, <1>2, AddGoawayType, TerminateType, FrameConstants
  <1> QED BY <1>3, Zenon DEF SubmitGoaway, SubmitShutdownNotice, TerminateSession, TypeOK

\* So do the calls that change the dependency tree.
LEMMA SubmitPriorityType ==
  ASSUME TypeOK, NEW id \in StreamId, NEW dep \in Deps,
         \/ SubmitPriority(id, dep) \/ CreateIdleStream(id, dep)
         \/ ChangeStreamPriority(id, dep)
  PROVE  TypeOK'
  <1> DEFINE it == [Frame("PRIORITY", id) EXCEPT !.arg = dep]
  <1>1. session \in SessionType
    BY DEF TypeOK
  <1>2. id \in LastId /\ dep \in LastId
    BY InstanceAssumption DEF StreamId, LastId
  <1>3. Frame("PRIORITY", id) \in Item
    BY <1>2, FrameItem, FrameConstants
  <1>4. it \in Item
    BY <1>2, <1>3, ItemUpdate, FrameConstants, StateConstants, Zenon
  <1> HIDE DEF it
  <1>5. /\ AddReg(session, it) \in SessionType
        /\ OpenStream(session, id, "IDLE", dep) \in SessionType
        /\ Reprioritize(session, dep) \in SessionType
    BY <1>1, <1>2, <1>4, AddType, OpenStreamType, ReprioritizeType, StateConstants
  <1> QED BY <1>5, Zenon DEF SubmitPriority, CreateIdleStream, ChangeStreamPriority,
                             TypeOK, it

\* The settings that are in flight.
LEMMA SettingsUpdate ==
  ASSUME NEW q \in SettingsList
  PROVE  /\ \A v \in Settings : Append(q, v) \in SettingsList
         /\ q # <<>> => Head(q) \in Settings /\ Tail(q) \in SettingsList
  BY DEF SettingsList

\* A value of max_concurrent_streams, or none, and of enable_push.
LEMMA SettingsFields ==
  ASSUME NEW v \in Settings, NEW n \in Nat, NEW b \in BOOLEAN
  PROVE  /\ (IF v.mcs = -1 THEN n ELSE v.mcs) \in Nat
         /\ (IF v.push = "keep" THEN b ELSE v.push = "on") \in BOOLEAN
  BY ZenonT(30) DEF Settings

\* SETTINGS of the application are queued and remembered until the ACK.
LEMMA PendedType ==
  ASSUME NEW s \in SessionType, NEW v \in Settings
  PROVE  Pended(s, v) \in SessionType
  <1> DEFINE a == Append(s.inflight_settings, v)
             u == Append(s.ob_urgent, Frame("SETTINGS", 0))
             n == IF v.mcs = -1 THEN s.pending_max_concurrent ELSE v.mcs
             b == IF v.push = "keep" THEN s.pending_enable_push ELSE v.push = "on"
  <1>1. a \in SettingsList
    BY FieldTypes, SettingsUpdate, ZenonT(30)
  <1>2. Frame("SETTINGS", 0) \in Item
    BY FrameItem, FrameConstants
  <1>3. u \in Queue
    BY <1>2, FieldTypes, QueueUpdate, ZenonT(30)
  <1>4. n \in Nat /\ b \in BOOLEAN
    BY FieldTypes, SettingsFields
  <1>5. Pended(s, v) = [s EXCEPT !.inflight_settings = a, !.ob_urgent = u,
                          !.pending_max_concurrent = n, !.pending_enable_push = b]
    BY Zenon DEF Pended
  <1> HIDE DEF a, u, n, b
  <1>6. [s EXCEPT !.inflight_settings = a, !.ob_urgent = u,
           !.pending_max_concurrent = n, !.pending_enable_push = b] \in SessionType
    BY <1>1, <1>3, <1>4, ZenonT(30) DEF SessionType
  <1> QED BY <1>5, <1>6, Zenon

\* nghttp2_submit_settings.
LEMMA SubmitSettingsType ==
  ASSUME TypeOK, NEW v \in LocalSettings, SubmitSettings(v)
  PROVE  TypeOK'
  <1>1. Pended(session, v) \in SessionType
    BY InstanceAssumption, PendedType DEF TypeOK
  <1> QED BY <1>1 DEF SubmitSettings, TypeOK

\* nghttp2_submit_ping.
LEMMA SubmitPingType ==
  ASSUME TypeOK, SubmitPing
  PROVE  TypeOK'
  <1>1. AddUrgent(session, Frame("PING", 0)) \in SessionType
    BY FrameItem, FrameConstants, AddType DEF TypeOK
  <1> QED BY <1>1 DEF SubmitPing, TypeOK

\* The calls on one stream: data, reset, resume and the choice of the next ID.
LEMMA StreamCallsType ==
  ASSUME TypeOK, NEW id \in StreamId,
         \/ SubmitData(id) \/ SubmitRstStream(id) \/ ResumeData(id)
         \/ SetNextStreamId(id)
  PROVE  TypeOK'
  <1>1. session \in SessionType
    BY DEF TypeOK
  <1>2. id \in LastId /\ id \in NextId
    BY DEF StreamId, LastId, NextId
  <1>3. [session EXCEPT !.next_stream_id = id] \in SessionType
    BY <1>1, <1>2 DEF SessionType
  <1>4. [session EXCEPT !.streams[id].defer = "NO"] \in SessionType
    BY <1>1, SetStreamField, StateConstants, ZenonT(30)
  <1>5. /\ SubmitDataOn(session, id) \in SessionType
        /\ AddRst(session, id) \in SessionType
    BY <1>1, <1>2, SubmitDataOnType, AddRstType
  <1> QED BY <1>3, <1>4, <1>5, Zenon
       DEF SubmitData, SubmitRstStream, ResumeData, SetNextStreamId, TypeOK

-----------------------------------------------------------------------------
(* nghttp2_session_mem_send_internal *)

\* The popped item and the session that session_prep_frame sees.
LEMMA PoppedType ==
  ASSUME TypeOK, HasControl
  PROVE  Popped \in SessionType /\ PoppedItem \in Item
  <1> DEFINE s == AdjustIdle(session)
             it == ControlItem(s)
  <1>1. s \in SessionType
    BY AdjustIdleType DEF TypeOK
  <1>2. it # NoItem
    BY DEF HasControl
  <1> HIDE DEF s
  <1>3. it \in Item /\ PopControl(s) \in SessionType
    BY <1>1, <1>2, PopControlType
  <1> HIDE DEF it
  <1>4. PrepBegin(PopControl(s), it) \in SessionType
    BY <1>3, PrepBeginType
  <1>5. Popped \in SessionType
    BY <1>4, Zenon DEF Popped, s, it
  <1>6. Category(Popped, it) \in Aux
    BY <1>3, CategoryType
  <1>7. [it EXCEPT !.aux = Category(Popped, it)] \in Item
    BY <1>3, <1>6, ItemUpdate, FrameConstants, StateConstants, Zenon
  <1> QED BY <1>5, <1>7, Zenon DEF PoppedItem, s, it

\* Taking a frame off the queues and preparing it.
LEMMA StartSendType ==
  ASSUME NEW s \in SessionType, NEW it \in Item, NEW cont, NEW q \in IdList,
         NEW open \in BOOLEAN
  PROVE  StartSend(s, it, cont, q, open) \in SessionType
  <1> DEFINE s0 == OnWire(s, it)
             s1 == [s0 EXCEPT !.aob = [item |-> it, stage |-> "SEND"]]
             s2 == AfterFrameSent1(s1, q, open)
  <1>1. s0 \in SessionType
    BY OnWireType
  <1> HIDE DEF s0
  <1>2. s1 \in SessionType
    BY <1>1, SetActive, ZenonT(30)
  <1> HIDE DEF s1
  <1>3. s2 \in SessionType
    BY <1>2, AfterFrameSent1Type
  <1> HIDE DEF s2
  <1>4. [s2 EXCEPT !.aob.stage = "SENT"] \in SessionType
    BY <1>3, SetActive, NoItemType, ZenonT(30)
  <1> QED BY <1>2, <1>4, Zenon DEF StartSend, s0, s1, s2

\* Packing a control frame.
LEMMA SendControlType ==
  ASSUME TypeOK, NEW cont, SendControl(cont)
  PROVE  TypeOK'
  <1> DEFINE s == PrepDone(Popped, PoppedItem)
             s1 == [s EXCEPT !.aob.item = PoppedItem]
             C == SentCloses(s1)
  <1>1. Popped \in SessionType /\ PoppedItem \in Item
    BY PoppedType DEF SendControl
  <1>2. s \in SessionType
    BY <1>1, PrepDoneType
  <1> HIDE DEF s
  <1>3. s1 \in SessionType
    BY <1>1, <1>2, SetActive, ZenonT(30)
  <1> HIDE DEF s1
  <1>4. C \subseteq StreamId
    BY <1>3, SentClosesType
  <1> HIDE DEF C
  <1>5. PICK q \in Orders(C) : session' = StartSend(s, PoppedItem, cont, q, TRUE)
    BY Zenon DEF SendControl, s, s1, C
  <1>6. q \in IdList
    BY <1>4, OrdersType
  <1>7. StartSend(s, PoppedItem, cont, q, TRUE) \in SessionType
    BY <1>1, <1>2, <1>6, StartSendType, ZenonT(30)
  <1> QED BY <1>5, <1>7, ZenonT(30) DEF TypeOK

\* A control frame that is not sent: refused, not compressed or cancelled.
LEMMA ControlDroppedType ==
  ASSUME TypeOK, ControlNotSent \/ HeaderCompError \/ ControlCanceled
  PROVE  TypeOK'
  <1> DEFINE id == OpenedBy(PoppedItem)
  <1>1. Popped \in SessionType /\ PoppedItem \in Item
    BY PoppedType DEF ControlNotSent, HeaderCompError, ControlCanceled
  <1>2. PrepDone(Popped, PoppedItem) \in SessionType
    BY <1>1, PrepDoneType
  <1>3. /\ CloseStream(Popped, id) \in SessionType
        /\ CloseStream(PrepDone(Popped, PoppedItem), id) \in SessionType
    BY <1>1, <1>2, CloseStreamType
  <1>4. ConnectionError(CloseStream(Popped, id)) \in SessionType
    BY <1>3, ConnectionErrorType
  <1> QED BY <1>3, <1>4, Zenon DEF ControlNotSent, HeaderCompError, ControlCanceled, TypeOK

\* The DATA item that the scheduler offers.
LEMMA HasDataType ==
  ASSUME TypeOK, NEW id, HasData(id)
  PROVE  /\ id \in StreamId /\ AdjustIdle(session) \in SessionType
         /\ DataItem(id) \in Item
  <1>1. session \in SessionType /\ AdjustIdle(session) \in SessionType
    BY AdjustIdleType DEF TypeOK
  <1>2. id \in StreamId
    BY DEF HasData, Schedulable
  <1>3. session.streams[id] \in Stream
    BY <1>1, <1>2, StreamOf
  <1>4. session.streams[id].item \in 0..2
    BY <1>3 DEF Stream
  <1>5. id \in LastId
    BY <1>2 DEF StreamId, LastId
  <1>6. Frame("DATA", id) \in Item
    BY <1>5, FrameItem, FrameConstants
  <1>7. [Frame("DATA", id) EXCEPT !.addr = session.streams[id].item] \in Item
    BY <1>4, <1>5, <1>6, ItemUpdate, FrameConstants, StateConstants, Zenon
  <1> QED BY <1>1, <1>2, <1>7, Zenon DEF DataItem

\* DATA that is refused, deferred or fails in the data source.
LEMMA DataNotSentType ==
  ASSUME TypeOK, NEW id, NEW why \in {"FLOW", "USER"}, NEW temporal,
         DataRefused(id) \/ DataDeferred(id, why) \/ DataSourceFails(id, temporal)
  PROVE  TypeOK'
  <1> DEFINE s == AdjustIdle(session)
             s1 == Detach(s, id)
             s2 == IF temporal THEN AddRst(s1, id) ELSE s1
  <1>1. HasData(id)
    BY DEF DataRefused, DataDeferred, DataSourceFails
  <1>2. id \in StreamId /\ s \in SessionType
    BY <1>1, HasDataType
  <1>3. id \in LastId
    BY <1>2 DEF StreamId, LastId
  <1> HIDE DEF s
  <1>4. s1 \in SessionType
    BY <1>2, DetachType
  <1> HIDE DEF s1
  <1>5. s2 \in SessionType
    BY <1>3, <1>4, AddRstType
  <1> HIDE DEF s2
  <1>6. /\ FreeData(s1, DataItem(id)) \in SessionType
        /\ FreeData(s2, DataItem(id)) \in SessionType
    BY <1>4, <1>5, FreeDataType
  <1>7. [s EXCEPT !.streams[id].defer = why] \in SessionType
    BY <1>2, SetStreamField, StateConstants, ZenonT(30)
  <1> QED BY <1>6, <1>7, Zenon DEF DataRefused, DataDeferred, DataSourceFails, TypeOK,
                                   s, s1, s2

\* The windows are open or not.
LEMMA WindowAfterType == WindowAfter \subseteq BOOLEAN
  BY ZenonT(30) DEF WindowAfter

\* Packing a DATA frame.
LEMMA SendDataType ==
  ASSUME TypeOK, NEW id, NEW eof \in BOOLEAN, NEW end \in BOOLEAN, NEW nc \in BOOLEAN,
         SendData(id, eof, end, nc)
  PROVE  TypeOK'
  <1> DEFINE s == AdjustIdle(session)
             aux == IF nc THEN "NO_COPY" ELSE "NONE"
             it == [DataItem(id) EXCEPT !.data = eof, !.end = end, !.aux = aux]
  <1>1. s \in SessionType /\ DataItem(id) \in Item
    BY HasDataType DEF SendData
  <1>2. aux \in Aux
    BY FrameConstants
  <1> HIDE DEF s, aux
  <1>3. it \in Item
    BY <1>1, <1>2, ItemUpdate, FrameConstants, StateConstants, Zenon
  <1> HIDE DEF it
  <1>4. PICK open \in WindowAfter :
          session' = IF nc THEN [s EXCEPT !.aob = [item |-> it, stage |-> "NO_COPY"]]
                     ELSE StartSend(s, it, FALSE, <<>>, open)
    BY Zenon DEF SendData, s, it, aux
  <1>5. [s EXCEPT !.aob = [item |-> it, stage |-> "NO_COPY"]] \in SessionType
    BY <1>1, <1>3, SetActive, ZenonT(30)
  <1>6. <<>> \in IdList
    BY DEF IdList
  <1>7. StartSend(s, it, FALSE, <<>>, open) \in SessionType
    BY <1>1, <1>3, <1>6, WindowAfterType, StartSendType, ZenonT(30)
  <1> QED BY <1>4, <1>5, <1>7, Zenon DEF TypeOK

\* A frame has been written: the two halves of the end of mem_send_internal.
LEMMA FrameSentType ==
  ASSUME TypeOK, FrameSent \/ FrameFinished
  PROVE  TypeOK'
  <1>1. session \in SessionType
    BY DEF TypeOK
  <1>2. CASE FrameSent
    <2>1. PICK q \in Orders(SentCloses(session)), open \in WindowAfter :
            LET s == AfterFrameSent1(session, q, open)
            IN session' = IF s.fast_cb THEN [s EXCEPT !.aob.stage = "SENT"]
                                       ELSE AfterFrameSent2(s)
      BY <1>2 DEF FrameSent
    <2> DEFINE s == AfterFrameSent1(session, q, open)
    <2>2. q \in IdList
      BY <1>1, SentClosesType, OrdersType
    <2>3. s \in SessionType
      BY <1>1, <2>2, WindowAfterType, AfterFrameSent1Type
    <2>4. session' \in {[s EXCEPT !.aob.stage = "SENT"], AfterFrameSent2(s)}
      BY <2>1, Zenon
    <2> HIDE DEF s
    <2>5. /\ [s EXCEPT !.aob.stage = "SENT"] \in SessionType
          /\ AfterFrameSent2(s) \in SessionType
      BY <2>3, SetActive, NoItemType, AfterFrameSent2Type, ZenonT(30)
    <2> QED BY <2>4, <2>5, Zenon DEF TypeOK
  <1>3. CASE FrameFinished
    BY <1>1, <1>3, AfterFrameSent2Type DEF FrameFinished, TypeOK
  <1> QED BY <1>2, <1>3

\* The send_data callback of a NO_COPY frame.
LEMMA NoCopyType ==
  ASSUME TypeOK, NoCopyStreamGone \/ NoCopySent \/ NoCopyFails
  PROVE  TypeOK'
  <1> DEFINE it == session.aob.item
             id == it.id
  <1>1. session \in SessionType /\ it \in Item /\ <<>> \in IdList
    BY ActiveFields DEF TypeOK, IdList
  <1>2. CASE NoCopyStreamGone
    <2>1. ResetAob(FreeData(session, it)) \in SessionType
      BY <1>1, FreeDataType, ResetAobType
    <2> QED BY <1>2, <2>1, Zenon DEF NoCopyStreamGone, TypeOK
  <1>3. CASE NoCopySent
    <2>1. PICK open \in WindowAfter :
            session' = AfterFrameSent2(AfterFrameSent1(OnWire(session, it), <<>>, open))
      BY <1>3, Zenon DEF NoCopySent
    <2>2. OnWire(session, it) \in SessionType
      BY <1>1, OnWireType
    <2>3. AfterFrameSent2(AfterFrameSent1(OnWire(session, it), <<>>, open)) \in SessionType
      BY <1>1, <2>2, WindowAfterType, AfterFrameSent1Type, AfterFrameSent2Type
    <2> QED BY <2>1, <2>3 DEF TypeOK
  <1>4. CASE NoCopyFails
    <2>1. id \in StreamId
      BY <1>4, LiveId DEF NoCopyFails
    <2>2. id \in LastId
      BY <2>1 DEF StreamId, LastId
    <2>3. Detach(session, id) \in SessionType
      BY <1>1, <2>1, DetachType
    <2>4. ResetAob(FreeData(AddRst(Detach(session, id), id), it)) \in SessionType
      BY <2>2, <2>3, AddRstType, FreeDataType, ResetAobType
    <2> QED BY <1>4, <2>4, Zenon DEF NoCopyFails, TypeOK
  <1> QED BY <1>2, <1>3, <1>4

-----------------------------------------------------------------------------
(* nghttp2_session_mem_recv *)

\* The session as mem_recv starts with it, and with a frame that is being read.
LEMMA AdjustedType ==
  ASSUME TypeOK
  PROVE  Adjusted \in SessionType
  BY AdjustIdleType DEF TypeOK, Adjusted

\* The header of a frame has been read.
LEMMA InboundType ==
  ASSUME NEW s \in SessionType, NEW type \in FrameType, NEW id \in LastId,
         NEW arg \in LastId, NEW end \in BOOLEAN
  PROVE  Inbound(s, type, id, arg, end) \in SessionType
  <1> DEFINE f == [state |-> "HEAD", type |-> type, id |-> id, arg |-> arg, end |-> end]
  <1>1. f \in InboundFrame
    BY InboundConstants DEF InboundFrame
  <1> HIDE DEF f
  <1>2. [s EXCEPT !.iframe = f] \in SessionType
    BY <1>1 DEF SessionType
  <1> QED BY <1>2, Zenon DEF Inbound, f

\* Receiving the header of a HEADERS frame.
LEMMA RecvHeadersType ==
  ASSUME TypeOK, NEW id \in LastId, NEW dep \in Deps, NEW end \in BOOLEAN, NEW accepted,
         RecvHeaders(id, dep, end, accepted)
  PROVE  TypeOK'
  <1>1. dep \in LastId
    BY InstanceAssumption DEF LastId
  <1>2. Inbound(Adjusted, "HEADERS", id, 0, end) \in SessionType
    BY AdjustedType, InboundType, FrameConstants
  <1>3. ProcessHeaders(Inbound(Adjusted, "HEADERS", id, 0, end), id, dep, accepted)
          \in SessionType
    BY <1>1, <1>2, ProcessHeadersType
  <1> QED BY <1>3 DEF RecvHeaders, TypeOK

\* Receiving the header of a PUSH_PROMISE frame.
LEMMA RecvPushPromiseType ==
  ASSUME TypeOK, NEW id \in LastId, NEW pid \in LastId, NEW accepted,
         RecvPushPromise(id, pid, accepted)
  PROVE  TypeOK'
  <1>1. Inbound(Adjusted, "PUSH_PROMISE", id, pid, FALSE) \in SessionType
    BY AdjustedType, InboundType, FrameConstants, ZenonT(30)
  <1>2. OnPushPromise(Inbound(Adjusted, "PUSH_PROMISE", id, pid, FALSE), id, pid, accepted)
          \in SessionType
    BY <1>1, OnPushPromiseType, ZenonT(30)
  <1> QED BY <1>2, ZenonT(30) DEF RecvPushPromise, TypeOK

\* Reading a header block to its end or to an error.
LEMMA HeaderBlockType ==
  ASSUME TypeOK, NEW valid, NEW terminate,
         \/ HeaderFieldFails \/ HeaderBlockError \/ ContinuationExpected
         \/ HeaderBlockEnd(valid, terminate)
  PROVE  TypeOK'
  <1> DEFINE s1 == AddRst(Adjusted, Subject(session.iframe))
             s2 == IF session.iframe.state = "HB"
                     THEN AfterHeaderBlock(Adjusted, valid, terminate) ELSE Adjusted
  <1>1. Adjusted \in SessionType
    BY AdjustedType
  <1>2. Subject(session.iframe) \in LastId
    BY InboundFields DEF TypeOK
  <1>3. s1 \in SessionType
    BY <1>1, <1>2, AddRstType
  <1> HIDE DEF s1
  <1>4. [s1 EXCEPT !.iframe.state = "IGN_HB"] \in SessionType
    BY <1>3, SetInboundState, InboundConstants
  <1>5. s2 \in SessionType
    BY <1>1, AfterHeaderBlockType
  <1> HIDE DEF s2
  <1>6. /\ ResetInbound(s2) \in SessionType
        /\ CompressionError(Adjusted) \in SessionType
        /\ ConnectionError(Adjusted) \in SessionType
    BY <1>1, <1>5, ResetInboundType, CompressionErrorType, ConnectionErrorType
  <1> QED BY <1>4, <1>6, Zenon DEF HeaderFieldFails, HeaderBlockError,
             ContinuationExpected, HeaderBlockEnd, TypeOK, s1, s2

\* Receiving the header of a DATA frame.
LEMMA RecvDataType ==
  ASSUME TypeOK, NEW id \in LastId, NEW end \in BOOLEAN, RecvData(id, end)
  PROVE  TypeOK'
  <1>1. Inbound(Adjusted, "DATA", id, 0, end) \in SessionType
    BY AdjustedType, InboundType, FrameConstants
  <1>2. OnDataHeader(Inbound(Adjusted, "DATA", id, 0, end), id) \in SessionType
    BY <1>1, OnDataHeaderType
  <1> QED BY <1>2 DEF RecvData, TypeOK

\* Reading the payload of a DATA frame to its end or to an error.
LEMMA DataPayloadType ==
  ASSUME TypeOK, NEW valid, NEW terminate,
         \/ DataStreamGone \/ DataOverrunsConnection \/ DataOverrunsStream
         \/ DataInvalid \/ DataEnd(valid, terminate) \/ IgnoredDataEnd
  PROVE  TypeOK'
  <1> DEFINE s1 == AddRst(Adjusted, session.iframe.id)
  <1>1. Adjusted \in SessionType
    BY AdjustedType
  <1>2. session.iframe.id \in LastId
    BY InboundFields DEF TypeOK
  <1>3. s1 \in SessionType
    BY <1>1, <1>2, AddRstType
  <1> HIDE DEF s1
  <1>4. /\ [s1 EXCEPT !.iframe.state = "IGN_DATA"] \in SessionType
        /\ [Adjusted EXCEPT !.iframe.state = "IGN_DATA"] \in SessionType
    BY <1>1, <1>3, SetInboundState, InboundConstants
  <1>5. OnDataEnd(Adjusted, valid, terminate) \in SessionType
    BY <1>1, OnDataEndType
  <1>6. /\ ResetInbound(OnDataEnd(Adjusted, valid, terminate)) \in SessionType
        /\ ResetInbound(Adjusted) \in SessionType
        /\ ConnectionError(Adjusted) \in SessionType
    BY <1>1, <1>5, ResetInboundType, ConnectionErrorType
  <1> QED BY <1>3, <1>4, <1>6, Zenon DEF DataStreamGone, DataOverrunsConnection,
             DataOverrunsStream, DataInvalid, DataEnd, IgnoredDataEnd, TypeOK, s1

\* Receiving RST_STREAM, PRIORITY, GOAWAY, PING or a frame that is an error.
LEMMA RecvControlType ==
  ASSUME TypeOK, NEW id \in LastId, NEW dep \in LastId,
         \/ RecvRstStream(id) \/ RecvPriority(id, dep) \/ RecvGoaway(id)
         \/ RecvPing \/ RecvMalformed \/ SettingsExpected
  PROVE  TypeOK'
  <1>1. Adjusted \in SessionType
    BY AdjustedType
  <1>2. CASE RecvGoaway(id)
    <2>1. PICK q \in Orders(OnGoaway(Adjusted, id, FALSE)) :
            session' = FrameDone(OnGoawayReceived(Adjusted, id, q))
      BY <1>2, Zenon DEF RecvGoaway
    <2>2. q \in IdList
      BY <1>1, OnGoawayType, OrdersType, ZenonT(30)
    <2>3. FrameDone(OnGoawayReceived(Adjusted, id, q)) \in SessionType
      BY <1>1, <2>2, OnGoawayReceivedType, ResetInboundType
    <2> QED BY <2>1, <2>3 DEF TypeOK
  <1>3. /\ OnRstStream(Adjusted, id) \in SessionType
        /\ OnPriority(Adjusted, id, dep) \in SessionType
        /\ AddAck(Adjusted, "PING") \in SessionType
        /\ ConnectionError(Adjusted) \in SessionType
    BY <1>1, OnRstStreamType, OnPriorityType, AddAckType, ConnectionErrorType,
       FrameConstants
  <1>4. /\ FrameDone(OnRstStream(Adjusted, id)) \in SessionType
        /\ FrameDone(OnPriority(Adjusted, id, dep)) \in SessionType
        /\ FrameDone(AddAck(Adjusted, "PING")) \in SessionType
        /\ FrameDone(ConnectionError(Adjusted)) \in SessionType
    BY <1>3, ResetInboundType
  <1> QED BY <1>2, <1>3, <1>4, Zenon DEF RecvRstStream, RecvPriority, RecvPing,
             RecvMalformed, SettingsExpected, TypeOK

\* Resuming deferred streams.
LEMMA ResumeType ==
  ASSUME NEW s \in SessionType, NEW R
  PROVE  Resume(s, R) \in SessionType
  <1> DEFINE m == [id \in StreamId |-> IF id \in R THEN [s.streams[id] EXCEPT !.defer = "NO"]
                                       ELSE s.streams[id]]
  <1>1. ASSUME NEW id \in StreamId
        PROVE  s.streams[id] \in Stream /\ [s.streams[id] EXCEPT !.defer = "NO"] \in Stream
    BY StreamOf, StreamUpdate, StateConstants, Zenon
  <1>2. m \in StreamMap
    BY <1>1 DEF StreamMap
  <1> HIDE DEF m
  <1>3. [s EXCEPT !.streams = m] \in SessionType
    BY <1>2 DEF SessionType
  <1> QED BY <1>3, Zenon DEF Resume, m

\* All of nghttp2_session_on_settings_received for SETTINGS that are no ACK.
LEMMA OnSettingsType ==
  ASSUME NEW s \in SessionType, NEW v \in Settings, NEW invalid, NEW R, NEW noack
  PROVE  OnSettings(s, v, invalid, R, noack) \in SessionType
  <1> DEFINE n == IF v.mcs # -1 THEN v.mcs
                  ELSE IF s.remote_settings_received THEN s.remote_max_concurrent
                  ELSE DefaultMaxConcurrent
             s1 == [s EXCEPT !.remote_max_concurrent = n,
                             !.remote_settings_received = TRUE]
             r1 == Resume(s1, R)
             b == IF v.push = "keep" THEN r1.remote_enable_push ELSE v.push = "on"
             s2 == [r1 EXCEPT !.remote_enable_push = b]
  <1>1. n \in Nat
    BY FieldTypes, SessionAssumption DEF Settings
  <1> HIDE DEF n
  <1>2. s1 \in SessionType
    BY <1>1, ZenonT(60) DEF SessionType
  <1> HIDE DEF s1
  <1>3. r1 \in SessionType
    BY <1>2, ResumeType
  <1> HIDE DEF r1
  <1>4. b \in BOOLEAN
    BY <1>3, FieldTypes, ZenonT(30)
  <1> HIDE DEF b
  <1>5. s2 \in SessionType
    BY <1>3, <1>4 DEF SessionType
  <1> HIDE DEF s2
  <1>6. /\ ConnectionError(s1) \in SessionType
        /\ AddAck(s2, "SETTINGS") \in SessionType
    BY <1>2, <1>5, ConnectionErrorType, AddAckType, FrameConstants
  <1>7. OnSettings(s, v, invalid, R, noack)
          \in {ConnectionError(s1), s2, AddAck(s2, "SETTINGS")}
    BY Zenon DEF OnSettings, n, s1, r1, b, s2
  <1> QED BY <1>5, <1>6, <1>7

\* Receiving SETTINGS.
LEMMA RecvSettingsType ==
  ASSUME TypeOK, NEW v \in PeerSettings, NEW invalid, RecvSettings(v, invalid)
  PROVE  TypeOK'
  <1> DEFINE s == Inbound(Adjusted, "SETTINGS", 0, 0, FALSE)
  <1>1. v \in Settings
    BY InstanceAssumption
  <1>2. s \in SessionType
    BY AdjustedType, InboundType, FrameConstants, ZenonT(30)
  <1> HIDE DEF s
  <1>3. PICK R : session' = FrameDone(OnSettings(s, v, invalid, R, FALSE))
    BY Zenon DEF RecvSettings, s
  <1>4. FrameDone(OnSettings(s, v, invalid, R, FALSE)) \in SessionType
    BY <1>1, <1>2, OnSettingsType, ResetInboundType, ZenonT(30)
  <1> QED BY <1>3, <1>4, ZenonT(30) DEF TypeOK

\* Receiving the ACK of SETTINGS, which applies the oldest ones in flight.
LEMMA RecvSettingsAckType ==
  ASSUME TypeOK, RecvSettingsAck
  PROVE  TypeOK'
  <1> DEFINE s == Adjusted
             v == Head(s.inflight_settings)
             l == Tail(s.inflight_settings)
             n == IF v.mcs = -1 THEN s.local_max_concurrent ELSE v.mcs
             b == IF v.push = "keep" THEN s.local_enable_push ELSE v.push = "on"
             s1 == [s EXCEPT !.inflight_settings = l, !.local_max_concurrent = n,
                             !.local_enable_push = b]
  <1>1. s \in SessionType
    BY AdjustedType
  <1>2. CASE s.inflight_settings = <<>>
    <2>1. FrameDone(ConnectionError(s)) \in SessionType
      BY <1>1, ConnectionErrorType, ResetInboundType
    <2> QED BY <1>2, <2>1, Zenon DEF RecvSettingsAck, TypeOK
  <1>3. CASE s.inflight_settings # <<>>
    <2>1. v \in Settings /\ l \in SettingsList
      BY <1>1, <1>3, FieldTypes, SettingsUpdate
    <2>2. session' = FrameDone(s1)
      BY <1>3, Zenon DEF RecvSettingsAck
    <2> HIDE DEF s, v, l
    <2>3. n \in Nat /\ b \in BOOLEAN
      BY <1>1, <2>1, FieldTypes, SettingsFields
    <2> HIDE DEF n, b
    <2>4. s1 \in SessionType
      BY <1>1, <2>1, <2>3, ZenonT(60) DEF SessionType
    <2> HIDE DEF s1
    <2>5. FrameDone(s1) \in SessionType
      BY <2>4, ResetInboundType
    <2> QED BY <2>2, <2>5 DEF TypeOK
  <1> QED BY <1>2, <1>3

\* Receiving WINDOW_UPDATE, for the connection or a stream.
LEMMA WindowUpdateType ==
  ASSUME TypeOK, NEW id \in StreamId, NEW overflow, NEW opens,
         \/ RecvConnectionWindowUpdate(overflow)
         \/ RecvStreamWindowUpdate(id, overflow, opens)
  PROVE  TypeOK'
  <1> DEFINE s == Adjusted
             s1 == [s EXCEPT !.window_open = TRUE]
  <1>1. s \in SessionType /\ id \in LastId
    BY AdjustedType DEF StreamId, LastId
  <1> HIDE DEF s
  <1>2. s1 \in SessionType
    BY <1>1, ZenonT(60) DEF SessionType
  <1> HIDE DEF s1
  <1>3. /\ ConnectionError(s) \in SessionType
        /\ AddRst(s, id) \in SessionType
        /\ Resume(s, {id}) \in SessionType
    BY <1>1, ConnectionErrorType, AddRstType, ResumeType
  <1>4. /\ FrameDone(s) \in SessionType
        /\ FrameDone(s1) \in SessionType
        /\ FrameDone(ConnectionError(s)) \in SessionType
        /\ FrameDone(AddRst(s, id)) \in SessionType
        /\ FrameDone(Resume(s, {id})) \in SessionType
    BY <1>1, <1>2, <1>3, ResetInboundType
  <1>5. session' \in {FrameDone(s), FrameDone(s1), FrameDone(ConnectionError(s)),
                      FrameDone(AddRst(s, id)), FrameDone(Resume(s, {id}))}
    BY Zenon DEF RecvConnectionWindowUpdate, RecvStreamWindowUpdate, s, s1
  <1> QED BY <1>4, <1>5 DEF TypeOK

\* The upgrade from HTTP/1.1, on either side (nghttp2_session_upgrade_internal).
LEMMA UpgradeType ==
  ASSUME TypeOK, NEW v \in PeerSettings, NEW invalid, Upgrade(v, invalid)
  PROVE  TypeOK'
  <1>1. session \in SessionType /\ v \in Settings /\ 1 \in StreamId
    BY InstanceAssumption, OneIsStreamId DEF TypeOK
  <1>2. 0 \in LastId /\ 1 \in LastId
    BY <1>1, FrameConstants DEF StreamId, LastId
  <1>3. CASE session.server
    <2> DEFINE s0 == OnSettings(session, v, invalid, {}, TRUE)
               s1 == OpenStream(s0, 1, "OPENING", 0)
               s2 == [s1 EXCEPT !.streams[1].rd = TRUE]
               s3 == [s2 EXCEPT !.last_recv_stream_id = 1]
               s4 == [s3 EXCEPT !.last_proc_stream_id = 1]
    <2>1. s0 \in SessionType
      BY <1>1, OnSettingsType, ZenonT(30)
    <2>2. session' = s4
      BY <1>3, Zenon DEF Upgrade
    <2> HIDE DEF s0
    <2>3. s1 \in SessionType
      BY <1>2, <2>1, OpenStreamType, StateConstants
    <2> HIDE DEF s1
    <2>4. s2 \in SessionType
      BY <1>1, <2>3, SetStreamField, StateConstants, ZenonT(30)
    <2> HIDE DEF s2
    <2>5. s3 \in SessionType
      BY <1>2, <2>4, SetLastStream, ZenonT(30)
    <2> HIDE DEF s3
    <2>6. s4 \in SessionType
      BY <1>2, <2>5, SetLastStream, ZenonT(30)
    <2> QED BY <2>2, <2>6, Zenon DEF TypeOK
  <1>4. CASE ~session.server
    <2> DEFINE s0 == Pended(session, v)
               s1 == OpenStream(s0, 1, "OPENING", 0)
               s2 == [s1 EXCEPT !.streams[1].wr = TRUE]
               s3 == [s2 EXCEPT !.last_sent_stream_id = 1]
               s4 == [s3 EXCEPT !.next_stream_id = @ + 2]
    <2>1. s0 \in SessionType
      BY <1>1, PendedType
    <2>2. session' = s4
      BY <1>4, Zenon DEF Upgrade
    <2> HIDE DEF s0
    <2>3. s1 \in SessionType
      BY <1>2, <2>1, OpenStreamType, StateConstants
    <2> HIDE DEF s1
    <2>4. s2 \in SessionType
      BY <1>1, <2>3, SetStreamField, StateConstants, ZenonT(30)
    <2> HIDE DEF s2
    <2>5. s3 \in SessionType
      BY <1>2, <2>4 DEF SessionType
    <2> HIDE DEF s3
    <2>6. s4 \in SessionType
      BY <2>5, NextIdGrows
    <2> QED BY <2>2, <2>6, Zenon DEF TypeOK
  <1> QED BY <1>3, <1>4

-----------------------------------------------------------------------------
(* Type correctness *)

\* Every API call keeps the type invariant.
LEMMA ApiType ==
  ASSUME TypeOK, Api
  PROVE  TypeOK'
  <1>0. LastId = 0..MaxStreamId
    BY DEF LastId
  <1>1. CASE \E dep \in Deps, data \in BOOLEAN : SubmitRequest(dep, data)
    BY <1>1, SubmitRequestType
  <1>2. CASE \E id \in StreamId, end, data \in BOOLEAN : SubmitHeaders(id, end, data)
    BY <1>2, SubmitHeadersType
  <1>3. CASE \E id \in StreamId : \/ SubmitData(id) \/ SubmitRstStream(id)
                                  \/ ResumeData(id) \/ SetNextStreamId(id)
    BY <1>3, StreamCallsType
  <1>4. CASE \E id \in StreamId : SubmitPushPromise(id)
    BY <1>4, SubmitPushPromiseType
  <1>5. CASE \E id \in StreamId, dep \in Deps :
               \/ SubmitPriority(id, dep) \/ CreateIdleStream(id, dep)
               \/ ChangeStreamPriority(id, dep)
    BY <1>5, SubmitPriorityType
  <1>6. CASE \E last \in 0..MaxStreamId :
               SubmitGoaway(last) \/ SubmitShutdownNotice \/ TerminateSession(last)
    BY <1>0, <1>6, SubmitGoawayType
  <1>7. CASE \E v \in LocalSettings : SubmitSettings(v)
    BY <1>7, SubmitSettingsType
  <1>8. CASE SubmitPing
    BY <1>8, SubmitPingType
  <1>9. CASE \E v \in PeerSettings, invalid \in BOOLEAN : Upgrade(v, invalid)
    BY <1>9, UpgradeType
  <1>10. 0 \in 0..MaxStreamId
    BY SessionAssumption
  <1> QED BY <1>1, <1>2, <1>3, <1>4, <1>5, <1>6, <1>7, <1>8, <1>9, <1>10, Zenon DEF Api

\* So does every step of nghttp2_session_mem_send.
LEMMA SendType ==
  ASSUME TypeOK, Send
  PROVE  TypeOK'
  <1>1. CASE \E cont \in BOOLEAN : SendControl(cont)
    BY <1>1, SendControlType
  <1>2. CASE ControlNotSent \/ HeaderCompError \/ ControlCanceled
    BY <1>2, ControlDroppedType
  <1>3. CASE \E id \in StreamId, why \in {"FLOW", "USER"}, temporal \in BOOLEAN :
               DataRefused(id) \/ DataDeferred(id, why) \/ DataSourceFails(id, temporal)
    BY <1>3, DataNotSentType
  <1>4. CASE \E id \in StreamId, eof, end, nc \in BOOLEAN : SendData(id, eof, end, nc)
    BY <1>4, SendDataType
  <1>5. CASE FrameSent \/ FrameFinished
    BY <1>5, FrameSentType
  <1>6. CASE NoCopyStreamGone \/ NoCopySent \/ NoCopyFails
    BY <1>6, NoCopyType
  <1>7. TRUE \in BOOLEAN /\ "FLOW" \in {"FLOW", "USER"}
    OBVIOUS
  <1> QED BY <1>1, <1>2, <1>3, <1>4, <1>5, <1>6, <1>7, Zenon DEF Send

\* So does every step of nghttp2_session_mem_recv.
LEMMA RecvType ==
  ASSUME TypeOK, Recv
  PROVE  TypeOK'
  <1>0. LastId = 0..MaxStreamId
    BY DEF LastId
  <1>1. CASE \E id \in 0..MaxStreamId, dep \in Deps, end, accepted \in BOOLEAN :
               RecvHeaders(id, dep, end, accepted)
    BY <1>0, <1>1, RecvHeadersType
  <1>2. CASE \E id, pid \in 0..MaxStreamId, accepted \in BOOLEAN :
               RecvPushPromise(id, pid, accepted)
    BY <1>0, <1>2, RecvPushPromiseType
  <1>3. CASE \E valid, terminate \in BOOLEAN :
               \/ HeaderFieldFails \/ HeaderBlockError \/ ContinuationExpected
               \/ HeaderBlockEnd(valid, terminate)
    BY <1>3, HeaderBlockType
  <1>4. CASE \E id \in 0..MaxStreamId, end \in BOOLEAN : RecvData(id, end)
    BY <1>0, <1>4, RecvDataType
  <1>5. CASE \E valid, terminate \in BOOLEAN :
               \/ DataStreamGone \/ DataOverrunsConnection \/ DataOverrunsStream
               \/ DataInvalid \/ DataEnd(valid, terminate) \/ IgnoredDataEnd
    BY <1>5, DataPayloadType
  <1>6. CASE \E id, dep \in 0..MaxStreamId :
               \/ RecvRstStream(id) \/ RecvPriority(id, dep) \/ RecvGoaway(id)
               \/ RecvPing \/ RecvMalformed \/ SettingsExpected
    BY <1>0, <1>6, RecvControlType
  <1>7. CASE \E v \in PeerSettings, invalid \in BOOLEAN : RecvSettings(v, invalid)
    BY <1>7, RecvSettingsType
  <1>8. CASE RecvSettingsAck
    BY <1>8, RecvSettingsAckType
  <1>9. CASE \E id \in StreamId, overflow, opens \in BOOLEAN :
               \/ RecvConnectionWindowUpdate(overflow)
               \/ RecvStreamWindowUpdate(id, overflow, opens)
    BY <1>9, WindowUpdateType
  <1>10. /\ 0 \in 0..MaxStreamId /\ 1 \in StreamId /\ TRUE \in BOOLEAN
         /\ \A dep \in Deps : dep \in 0..MaxStreamId
    BY SessionAssumption, InstanceAssumption, OneIsStreamId
  <1> QED BY <1>1, <1>2, <1>3, <1>4, <1>5, <1>6, <1>7, <1>8, <1>9, <1>10, Zenon DEF Recv

\* Every field of the session keeps its type, for every configuration and every
\* sequence of API calls, received frames and frames sent.
THEOREM TypeCorrect == Spec => []TypeOK
  <1>1. Init => TypeOK
    BY InitType
  <1>2. TypeOK /\ [Next]_session => TypeOK'
    <2> SUFFICES ASSUME TypeOK, [Next]_session
                 PROVE  TypeOK'
      OBVIOUS
    <2>1. CASE Api
      BY <2>1, ApiType
    <2>2. CASE Send
      BY <2>2, SendType
    <2>3. CASE Recv
      BY <2>3, RecvType
    <2>4. CASE UNCHANGED session
      BY <2>4 DEF TypeOK
    <2> QED BY <2>1, <2>2, <2>3, <2>4 DEF Next
  <1> QED BY <1>1, <1>2, PTL DEF Spec

=============================================================================
