----------------------------- MODULE SafetyProofs -----------------------------
(*****************************************************************************)
(* The steps of nghttp2_session_mem_send_internal keep the invariant Safe of *)
(* CoreRecv, so every step of a session does; what follows of it for every   *)
(* session.                                                                  *)
(*****************************************************************************)
EXTENDS CoreCalls

-----------------------------------------------------------------------------
(* The steps of the send path *)

\* The frame that nghttp2_session_mem_send_internal has popped.
LEMMA PoppedSafe ==
  ASSUME Safe(session), HasControl
  PROVE  /\ Core(Popped, GoneNow(session), session.aob) /\ Sendable(Popped, PoppedItem)
         /\ session.aob.item.type # "DATA"
  <1> DEFINE a == AdjustIdle(session)
             g == GoneNow(session)
             b == session.aob
  <1>1. b.item.type # "DATA" /\ Core(session, g, b)
    BY SafeFacts, ZenonT(30) DEF HasControl, MaySendNow
  <1> HIDE DEF g, b
  <1>2. Core(a, g, b)
    BY <1>1, AdjustCore
  <1>3. ControlItem(a) # NoItem
    BY DEF HasControl
  <1>4. /\ Popped = PrepBegin(PopControl(a), ControlItem(a))
        /\ PoppedItem = [ControlItem(a) EXCEPT !.aux = Category(Popped, ControlItem(a))]
    BY Zenon DEF Popped, PoppedItem
  <1> HIDE DEF a
  <1>5. LET it == ControlItem(a)
            p == PrepBegin(PopControl(a), it)
        IN /\ Core(p, g, b)
           /\ Sendable(p, [it EXCEPT !.aux = Category(p, it)])
    BY <1>1, <1>2, <1>3, PoppedCore
  <1> QED BY <1>1, <1>4, <1>5, Zenon DEF g, b

\* Sending a control frame, or dropping it with the stream that it opened,
\* keeps Safe.
LEMMA ControlSafe ==
  ASSUME Safe(session), NEW cont,
         SendControl(cont) \/ ControlNotSent \/ HeaderCompError \/ ControlCanceled
  PROVE  Safe(session')
  <1> DEFINE p == Popped
             it == PoppedItem
             d == PrepDone(p, it)
             g == GoneNow(session)
             b == session.aob
  <1>1. Core(p, g, b) /\ Sendable(p, it) /\ b.item.type # "DATA"
    BY PoppedSafe, ZenonT(30) DEF SendControl, ControlNotSent, HeaderCompError, ControlCanceled
  <1>2. \A t : Core(t, g, b) => Safe(t)
    BY SafeKept
  <1>3. CASE SendControl(cont)
    <2>1. PICK q \in Orders(SentCloses([d EXCEPT !.aob.item = it])) :
            session' = StartSend(d, it, cont, q, TRUE)
      BY <1>3, Zenon DEF SendControl
    <2> HIDE DEF p, it, g, b
    <2>2. Core(d, g, b)
      BY <1>1, PrepDoneCore
    <2>3. it \in Item /\ it.type # "DATA"
      BY <1>1 DEF Sendable
    <2> HIDE DEF d
    <2>4. Safe(StartSend(d, it, cont, q, TRUE))
      BY <1>1, <2>1, <2>2, <2>3, StartSendCore, ZenonT(30)
    <2> QED BY <2>1, <2>4, ZenonT(30)
  <1>4. CASE ControlNotSent
    <2>1. session' = CloseStream(p, OpenedBy(it))
      BY <1>4, Zenon DEF ControlNotSent
    <2> HIDE DEF p, it, g, b
    <2> QED BY <1>1, <1>2, <2>1, CloseStreamCore
  <1>5. CASE HeaderCompError
    <2>1. session' = ConnectionError(CloseStream(p, OpenedBy(it)))
      BY <1>5, Zenon DEF HeaderCompError
    <2> HIDE DEF p, it, g, b
    <2>2. Core(CloseStream(p, OpenedBy(it)), g, b)
      BY <1>1, CloseStreamCore
    <2> QED BY <1>2, <2>1, <2>2, ConnectionErrorCore
  <1>6. CASE ControlCanceled
    <2>1. session' = CloseStream(d, OpenedBy(it))
      BY <1>6, Zenon DEF ControlCanceled
    <2> HIDE DEF p, it, g, b
    <2>2. Core(d, g, b)
      BY <1>1, PrepDoneCore
    <2> QED BY <1>2, <2>1, <2>2, CloseStreamCore
  <1> QED BY <1>3, <1>4, <1>5, <1>6

\* The scheduler offers the DATA item of an open stream.
LEMMA OfferedItem ==
  ASSUME Safe(session), NEW id, HasData(id)
  PROVE  LET a == AdjustIdle(session)
             it == DataItem(id)
         IN /\ Core(a, GoneNow(session), session.aob) /\ session.aob.item.type # "DATA"
            /\ id \in StreamId /\ id \in LastId /\ it \in Item /\ it.type = "DATA" /\ it.id = id
            /\ it.addr = a.streams[id].item /\ it.addr \in 1..2 /\ Live(a, id)
  <1> DEFINE a == AdjustIdle(session)
             it == DataItem(id)
             g == GoneNow(session)
             b == session.aob
  <1>1. /\ b.item.type # "DATA" /\ Core(session, g, b) /\ session \in SessionType
    BY SafeFacts, ZenonT(30) DEF HasData, MaySendNow
  <1>2. id \in StreamId /\ session.streams[id].item # 0
    BY DEF HasData, Schedulable
  <1>3. it \in Item
    BY <1>1, HasDataType DEF TypeOK
  <1>4. it.type = "DATA" /\ it.id = id /\ it.addr = session.streams[id].item
    BY DEF DataItem, Frame
  <1>5. it.addr \in 1..2
    BY <1>2, <1>3, <1>4, ItemFields
  <1>6. Core(a, g, b) /\ a.streams[id].item = session.streams[id].item /\ Live(a, id)
    BY <1>1, <1>2, AdjustCore, AdjustedItem
  <1>7. id \in LastId
    BY <1>2 DEF StreamId, LastId
  <1> QED BY <1>1, <1>2, <1>3, <1>4, <1>5, <1>6, <1>7

\* Refusing, deferring or giving up a DATA item keeps Safe.
LEMMA DataNotSentSafe ==
  ASSUME Safe(session), NEW id, NEW why \in {"FLOW", "USER"}, NEW temporal,
         DataRefused(id) \/ DataDeferred(id, why) \/ DataSourceFails(id, temporal)
  PROVE  Safe(session')
  <1> DEFINE a == AdjustIdle(session)
             it == DataItem(id)
             u == FreeData(Detach(a, id), it)
             g == GoneNow(session)
             b == session.aob
  <1>1. /\ Core(a, g, b) /\ b.item.type # "DATA" /\ id \in StreamId /\ id \in LastId
        /\ it.id = id /\ it.addr = a.streams[id].item /\ it.addr \in 1..2
    BY OfferedItem DEF DataRefused, DataDeferred, DataSourceFails
  <1>2. \A t : Core(t, g, b) => Safe(t)
    BY SafeKept
  <1>3. session' \in SessionType
    BY SafeFacts, DataNotSentType, ZenonT(30) DEF TypeOK
  <1>4. /\ DataRefused(id) => session' = u
        /\ DataDeferred(id, why) => session' = [a EXCEPT !.streams[id].defer = why]
        /\ DataSourceFails(id, temporal) =>
             session' = u \/ session' = FreeData(AddRst(Detach(a, id), id), it)
    BY Zenon DEF DataRefused, DataDeferred, DataSourceFails
  <1> HIDE DEF a, it, g, b
  <1>5. a \in SessionType /\ a.streams[id].item # 0
    BY <1>1 DEF Core
  <1>6. Core(u, g, b)
    BY <1>1, <1>5, DropItemCore
  <1>7. Core(AddRst(u, id), g, b)
    BY <1>1, <1>6, AddRstCore
  <1>8. FreeData(AddRst(Detach(a, id), id), it) = AddRst(u, id)
    BY <1>1, <1>5, DetachType, FreeAfterRst
  <1>9. Steady(a, [a EXCEPT !.streams[id].defer = why])
    BY <1>1, <1>5, SteadyStream, ZenonT(30)
  <1>10. CASE DataDeferred(id, why)
    BY <1>1, <1>2, <1>3, <1>4, <1>9, <1>10, SteadyCore
  <1>11. CASE DataRefused(id) \/ DataSourceFails(id, temporal)
    BY <1>2, <1>4, <1>6, <1>7, <1>8, <1>11
  <1> QED BY <1>10, <1>11

\* Packing a DATA frame keeps Safe.
LEMMA SendDataSafe ==
  ASSUME Safe(session), NEW id, NEW eof \in BOOLEAN, NEW end \in BOOLEAN,
         NEW no_copy \in BOOLEAN, SendData(id, eof, end, no_copy)
  PROVE  Safe(session')
  <1> DEFINE a == AdjustIdle(session)
             i0 == DataItem(id)
             x == IF no_copy THEN "NO_COPY" ELSE "NONE"
             it == [i0 EXCEPT !.data = eof, !.end = end, !.aux = x]
             c == [item |-> it, stage |-> "NO_COPY"]
             g == GoneNow(session)
             b == session.aob
  <1>1. /\ Core(a, g, b) /\ b.item.type # "DATA" /\ id \in StreamId
        /\ i0 \in Item /\ i0.type = "DATA" /\ i0.id = id
        /\ i0.addr = a.streams[id].item /\ i0.addr \in 1..2 /\ Live(a, id)
    BY OfferedItem DEF SendData
  <1>2. PICK open \in BOOLEAN : session' =
          IF no_copy THEN [a EXCEPT !.aob = c] ELSE StartSend(a, it, FALSE, <<>>, open)
    BY WindowAfterType, Zenon DEF SendData
  <1> HIDE DEF a, i0, g, b
  <1>3. x \in Aux
    BY FrameConstants, Zenon
  <1> HIDE DEF x
  <1>4. it \in Item
    BY <1>1, <1>3, ZenonT(30) DEF Item
  <1>5. it.type = "DATA" /\ it.id = id /\ it.addr = i0.addr
    BY <1>1 DEF Item
  <1> HIDE DEF it
  <1>6. Safe(StartSend(a, it, FALSE, <<>>, open))
    BY <1>1, <1>4, <1>5, StartSendCore, ZenonT(30)
  <1>7. c \in ActiveItem /\ c.item = it /\ c.stage = "NO_COPY"
    BY <1>4 DEF ActiveItem
  <1> HIDE DEF c
  <1>8. Core([a EXCEPT !.aob = c], FALSE, c)
    BY <1>1, <1>5, <1>7, ActiveCore, ZenonT(30)
  <1>9. Safe([a EXCEPT !.aob = c])
    <2> DEFINE t == [a EXCEPT !.aob = c]
    <2>1. Core(t, FALSE, c)
      BY <1>8, ZenonT(30)
    <2> HIDE DEF t
    <2>2. t.aob = c
      BY <2>1 DEF Core
    <2>3. GoneNow(t) = FALSE /\ Staged(c)
      BY <1>5, <1>7, <2>2 DEF GoneNow, Staged
    <2>4. Safe(t)
      BY <2>1, <2>2, <2>3, ZenonT(30) DEF Safe
    <2> QED BY <2>4 DEF t
  <1> QED BY <1>2, <1>6, <1>9, ZenonT(30)

\* session_after_frame_sent1 and session_after_frame_sent2 keep Safe once the
\* active frame has been sent.
LEMMA FrameSentSafe ==
  ASSUME Safe(session), FrameSent \/ FrameFinished
  PROVE  Safe(session')
  <1> DEFINE b == session.aob
  <1>1. Core(session, GoneNow(session), b)
    BY SafeFacts, ZenonT(30)
  <1>2. CASE FrameSent
    <2>1. GoneNow(session) = FALSE
      BY <1>2 DEF FrameSent, GoneNow
    <2>2. PICK q \in Orders(SentCloses(session)), open \in BOOLEAN :
            LET s == AfterFrameSent1(session, q, open)
            IN session' = IF s.fast_cb THEN [s EXCEPT !.aob.stage = "SENT"]
                                       ELSE AfterFrameSent2(s)
      BY <1>2, WindowAfterType, Zenon DEF FrameSent
    <2> DEFINE t == AfterFrameSent1(session, q, open)
    <2>3. session' = IF t.fast_cb THEN [t EXCEPT !.aob.stage = "SENT"] ELSE AfterFrameSent2(t)
      BY <2>2, Zenon
    <2> HIDE DEF b
    <2>4. Core(t, b.item.data, b)
      BY <1>1, <2>1, AfterFrameSent1Core, ZenonT(30)
    <2> HIDE DEF t
    <2>5. Safe([t EXCEPT !.aob.stage = "SENT"])
      BY <2>4, SentSafe
    <2>6. Safe(AfterFrameSent2(t))
      BY <2>4, AfterFrameSent2Core, PopSafe, ZenonT(30)
    <2> QED BY <2>3, <2>5, <2>6
  <1>3. CASE FrameFinished
    <2>1. session' = AfterFrameSent2(session) /\ GoneNow(session) = b.item.data
      <3>1. b.item.data \in BOOLEAN
        BY SafeFacts, ItemFields, ZenonT(30)
      <3> QED BY <1>3, <3>1 DEF FrameFinished, GoneNow
    <2> HIDE DEF b
    <2>2. Safe(AfterFrameSent2(session))
      BY <1>1, <2>1, AfterFrameSent2Core, PopSafe, ZenonT(30)
    <2> QED BY <2>1, <2>2
  <1> QED BY <1>2, <1>3

\* NGHTTP2_OB_SEND_NO_COPY keeps Safe, although the stream may be gone before
\* the frame is written.
LEMMA NoCopySafe ==
  ASSUME Safe(session), NoCopyStreamGone \/ NoCopySent \/ NoCopyFails
  PROVE  Safe(session')
  <1> DEFINE b == session.aob
             id == b.item.id
  <1>0. session.aob.stage = "NO_COPY"
    BY Zenon DEF NoCopyStreamGone, NoCopySent, NoCopyFails
  <1>1. /\ Core(session, FALSE, b) /\ b.item.type = "DATA" /\ session \in SessionType
        /\ b.item \in Item
    <2>1. Core(session, GoneNow(session), session.aob)
      BY SafeFacts, ZenonT(30)
    <2>2. session.aob.item.type = "DATA" /\ session \in SessionType /\ session.aob.item \in Item
      <3>1. session.aob.item.type = "DATA"
        BY <1>0, Zenon DEF Safe, Staged
      <3>2. session \in SessionType
        BY Zenon DEF Safe, Core
      <3>3. session.aob.item \in Item
        BY <3>2, ActiveFields
      <3> QED BY <3>1, <3>2, <3>3
    <2>3. GoneNow(session) = FALSE
      BY <1>0 DEF GoneNow
    <2>4. Core(session, FALSE, session.aob)
      BY <2>1, <2>3, Zenon
    <2> QED BY <2>2, <2>4, ZenonT(30)
  <1>2. CASE NoCopyStreamGone
    <2>1. session' = ResetAob(FreeData(session, session.aob.item)) /\ ~Live(session, id)
      BY <1>2, Zenon DEF NoCopyStreamGone
    <2> HIDE DEF b
    <2>2. \A h : Core(ResetAob(FreeData(session, session.aob.item)), h,
                      [item |-> NoItem, stage |-> "POP"])
      BY <1>1, <2>1, ReleaseCore, ZenonT(30)
    <2> QED BY <2>1, <2>2, PopSafe
  <1>3. CASE NoCopySent
    <2>1. PICK open \in BOOLEAN :
            session' = AfterFrameSent2(AfterFrameSent1(OnWire(session, b.item), <<>>, open))
      BY <1>3, WindowAfterType, Zenon DEF NoCopySent
    <2> DEFINE w == OnWire(session, b.item)
               t == AfterFrameSent1(w, <<>>, open)
    <2> HIDE DEF b
    <2>2. Core(w, FALSE, b)
      BY <1>1, OnWireCore, ZenonT(30)
    <2>3. session' = AfterFrameSent2(t)
      BY <2>1
    <2> HIDE DEF w
    <2>4. Core(t, b.item.data, b)
      BY <1>1, <2>2, AfterFrameSent1Core, ZenonT(30)
    <2> HIDE DEF t
    <2> QED BY <2>3, <2>4, AfterFrameSent2Core, PopSafe, ZenonT(30)
  <1>4. CASE NoCopyFails
    <2> DEFINE d == Detach(session, id)
               r == AddRst(d, id)
    <2>1. session' = ResetAob(FreeData(r, b.item)) /\ Live(session, id)
      BY <1>4, Zenon DEF NoCopyFails
    <2> HIDE DEF b
    <2>2. Core(d, TRUE, b)
      BY <1>1, <2>1, DetachCore, ZenonT(30)
    <2>3. id \in LastId
      BY <1>1, ItemFields
    <2> HIDE DEF d
    <2>4. Core(r, TRUE, b)
      BY <2>2, <2>3, AddRstCore, ZenonT(30)
    <2> HIDE DEF r
    <2>5. \A h : Core(ResetAob(FreeData(r, r.aob.item)), h, [item |-> NoItem, stage |-> "POP"])
      BY <1>1, <2>4, ReleaseCore, ZenonT(30)
    <2>6. r.aob = b
      BY <2>4 DEF Core
    <2> QED BY <2>1, <2>5, <2>6, PopSafe
  <1> QED BY <1>2, <1>3, <1>4

-----------------------------------------------------------------------------
(* The invariant holds of every session *)

\* Safe holds of a new session.
LEMMA InitSafe ==
  ASSUME Init
  PROVE  Safe(session)
  <1>1. PICK server \in Roles, fast_cb \in FastCb : session = NewSession(server, fast_cb)
    BY DEF Init
  <1>2. session \in SessionType /\ server \in BOOLEAN
    BY InitType, InstanceAssumption DEF TypeOK
  <1>3. /\ session.server = server /\ session.asserts = TRUE
        /\ session.streams = [id \in StreamId |-> NoStream]
        /\ session.closedq = <<>> /\ session.idleq = <<>> /\ session.done = {} /\ session.heap = {}
        /\ session.next_stream_id = (IF server THEN 2 ELSE 1)
        /\ session.last_sent_stream_id = 0 /\ session.ob_urgent = <<>> /\ session.ob_reg = <<>>
        /\ session.ob_syn = <<>> /\ session.obq_flood_counter = 0
        /\ session.aob = [item |-> NoItem, stage |-> "POP"]
    BY <1>1, Zenon DEF NewSession
  <1>4. /\ \A id \in StreamId : /\ session.streams[id].state = "NONE"
                                /\ session.streams[id].item = 0
                                /\ session.streams[id].defer = "NO"
        /\ NoItem.type # "DATA"
    BY <1>3 DEF NoStream, NoItem, Frame
  <1>5. \A i : i \notin 1..Len(<<>>)
    OBVIOUS
  <1>6. Numbered(session)
    <2>1. \A id \in StreamId : ~Spent(session, id)
      BY <1>3, <1>4 DEF Spent
    <2>2. IsMine(session, session.next_stream_id) /\ 0 < session.next_stream_id
      BY <1>2, <1>3 DEF IsMine
    <2> QED BY <1>3, <2>1, <2>2 DEF Numbered
  <1>7. Requests(session) /\ Promises(session)
    BY <1>3, <1>5, Zenon DEF Requests, Promises
  <1>8. Acks(session)
    <2>1. AcksIn(<<>>) = {}
      BY <1>5 DEF AcksIn
    <2>2. Cardinality({}) = 0
      BY FS_EmptySet
    <2>3. 0 <= MaxFlood
      BY SessionAssumption
    <2>4. /\ \A i \in 1..Len(session.ob_urgent) : session.ob_urgent[i].type \in {"SETTINGS", "PING"}
          /\ session.obq_flood_counter = Cardinality(AcksIn(session.ob_urgent))
      BY <1>3, <1>5, <2>1, <2>2, Zenon
    <2> QED BY <1>3, <2>3, <2>4, Zenon DEF Acks
  <1>9. Lists(session)
    BY <1>3, <1>4, <1>5 DEF Lists
  <1>10. Attached(session)
    BY <1>4 DEF Attached
  <1>11. \A g : Held(session, g)
    <2>1. session.aob.item.type # "DATA"
      BY <1>3, <1>4
    <2>2. \A id \in StreamId, a \in 1..2 : ~Active(session, id, a) /\ session.streams[id].item # a
      BY <1>4, <2>1 DEF Active
    <2> QED BY <1>3, <2>1, <2>2 DEF Held
  <1>12. \A g : Core(session, g, [item |-> NoItem, stage |-> "POP"])
    BY <1>2, <1>3, <1>6, <1>7, <1>8, <1>9, <1>10, <1>11, Zenon DEF Core, Ledger
  <1> QED BY <1>12, PopSafe

\* A call of the API keeps Safe.
LEMMA ApiSafe ==
  ASSUME Safe(session), Api
  PROVE  Safe(session')
  <1>1. CASE \E dep \in Deps, data \in BOOLEAN : SubmitRequest(dep, data)
    BY <1>1, SubmitRequestSafe
  <1>2. CASE \E id \in StreamId, end, data \in BOOLEAN : SubmitHeaders(id, end, data)
    BY <1>2, SubmitHeadersSafe
  <1>3. CASE \E id \in StreamId : \/ SubmitData(id) \/ SubmitRstStream(id) \/ ResumeData(id)
                                  \/ SetNextStreamId(id)
    BY <1>3, StreamCallsSafe
  <1>4. CASE \E id \in StreamId : SubmitPushPromise(id)
    BY <1>4, SubmitPushPromiseSafe
  <1>5. CASE \E id \in StreamId, dep \in Deps :
               \/ SubmitPriority(id, dep) \/ CreateIdleStream(id, dep)
               \/ ChangeStreamPriority(id, dep)
    BY <1>5, PriorityCallsSafe
  <1>6. CASE \/ \E last \in 0..MaxStreamId : SubmitGoaway(last) \/ TerminateSession(last)
             \/ SubmitShutdownNotice
             \/ \E v \in LocalSettings : SubmitSettings(v)
             \/ SubmitPing
    <2> 0 \in 0..MaxStreamId
      BY SessionAssumption
    <2> QED BY <1>6, ControlCallsSafe
  <1>7. CASE \E v \in PeerSettings, invalid \in BOOLEAN : Upgrade(v, invalid)
    BY <1>7, UpgradeServerSafe, UpgradeClientSafe
  <1> QED BY <1>1, <1>2, <1>3, <1>4, <1>5, <1>6, <1>7, Zenon DEF Api

\* A step of nghttp2_session_mem_send_internal keeps Safe.
LEMMA SendSafe ==
  ASSUME Safe(session), Send
  PROVE  Safe(session')
  <1>1. CASE \/ \E cont \in BOOLEAN : SendControl(cont)
             \/ ControlNotSent \/ HeaderCompError \/ ControlCanceled
    BY <1>1, ControlSafe
  <1>2. CASE \/ \E id \in StreamId : DataRefused(id)
             \/ \E id \in StreamId, why \in {"FLOW", "USER"} : DataDeferred(id, why)
             \/ \E id \in StreamId, temporal \in BOOLEAN : DataSourceFails(id, temporal)
    BY <1>2, DataNotSentSafe
  <1>3. CASE \E id \in StreamId, eof, end, nc \in BOOLEAN : SendData(id, eof, end, nc)
    BY <1>3, SendDataSafe
  <1>4. CASE FrameSent \/ FrameFinished
    BY <1>4, FrameSentSafe
  <1>5. CASE NoCopyStreamGone \/ NoCopySent \/ NoCopyFails
    BY <1>5, NoCopySafe
  <1> QED BY <1>1, <1>2, <1>3, <1>4, <1>5, Zenon DEF Send

\* A step of nghttp2_session_mem_recv keeps Safe.
LEMMA RecvSafe ==
  ASSUME Safe(session), Recv
  PROVE  Safe(session')
  <1> 0 \in 0..MaxStreamId /\ Deps \subseteq 0..MaxStreamId
    BY SessionAssumption, InstanceAssumption
  <1>1. CASE \/ \E id \in 0..MaxStreamId, dep \in Deps, end, accepted \in BOOLEAN :
                  RecvHeaders(id, dep, end, accepted)
             \/ \E id, pid \in 0..MaxStreamId, accepted \in BOOLEAN :
                  RecvPushPromise(id, pid, accepted)
             \/ \E id \in 0..MaxStreamId, end \in BOOLEAN : RecvData(id, end)
    BY <1>1, RecvHeadSafe
  <1>2. CASE \/ HeaderFieldFails \/ HeaderBlockError \/ ContinuationExpected
             \/ \E valid, terminate \in BOOLEAN : HeaderBlockEnd(valid, terminate)
    BY <1>2, HeaderBlockSafe, ZenonT(30)
  <1>3. CASE \/ DataStreamGone \/ DataOverrunsConnection \/ DataOverrunsStream \/ DataInvalid
             \/ \E valid, terminate \in BOOLEAN : DataEnd(valid, terminate)
             \/ IgnoredDataEnd
    BY <1>3, DataPayloadSafe, ZenonT(30)
  <1>4. CASE \/ \E id \in 0..MaxStreamId : RecvRstStream(id)
             \/ \E id \in 0..MaxStreamId, dep \in Deps : RecvPriority(id, dep)
             \/ \E last \in 0..MaxStreamId : RecvGoaway(last)
             \/ SettingsExpected \/ RecvPing \/ RecvMalformed
             \/ \E overflow \in BOOLEAN : RecvConnectionWindowUpdate(overflow)
    BY <1>4, RecvControlSafe, ZenonT(30)
  <1>5. CASE \E v \in PeerSettings, invalid \in BOOLEAN : RecvSettings(v, invalid)
    BY <1>5, RecvSettingsSafe
  <1>6. CASE RecvSettingsAck
    BY <1>6, RecvSettingsAckSafe
  <1>7. CASE \E id \in StreamId, overflow, opens \in BOOLEAN :
               RecvStreamWindowUpdate(id, overflow, opens)
    BY <1>7, StreamWindowSafe
  <1> QED BY <1>1, <1>2, <1>3, <1>4, <1>5, <1>6, <1>7, Zenon DEF Recv

\* The invariant of a session.
SessionInv == Safe(session)

\* Safe is inductive: it holds of the session in every reachable state.
LEMMA SessionInvHolds == Spec => []SessionInv
  <1>1. Init => SessionInv
    BY InitSafe DEF SessionInv
  <1>2. SessionInv /\ [Next]_session => SessionInv'
    <2> SUFFICES ASSUME Safe(session), [Next]_session
                 PROVE  Safe(session')
      BY DEF SessionInv
    <2>1. CASE UNCHANGED session
      BY <2>1
    <2> QED BY <2>1, ApiSafe, SendSafe, RecvSafe DEF Next
  <1> QED BY <1>1, <1>2, PTL DEF Spec

\* The flood counter is exact: at every step obq_flood_counter is the number of
\* SETTINGS and PING ACKs that are queued, and never exceeds its limit.
THEOREM FloodControlled == Spec => []FloodBounded
  <1>1. SessionInv => FloodBounded
    BY DEF SessionInv, Safe, Core, Ledger, Acks, AcksIn, FloodBounded
  <1> QED BY <1>1, SessionInvHolds, PTL

\* A DATA item is allocated iff its stream or aob points to it.
LEMMA OwnedItems ==
  ASSUME SessionInv
  PROVE  ItemOwnership
  <1> DEFINE s == session
  <1>1. /\ s \in SessionType /\ s.heap \in SUBSET (StreamId \X (1..2))
        /\ \A id \in StreamId : s.streams[id].item \in 0..2
    <2>1. s \in SessionType
      BY DEF SessionInv, Safe, Core
    <2> HIDE DEF s
    <2>2. s.heap \in SUBSET (StreamId \X (1..2))
      BY <2>1, FieldTypes DEF Heap
    <2>3. \A id \in StreamId : s.streams[id].item \in 0..2
      BY <2>1, StreamOf DEF Stream
    <2> QED BY <2>1, <2>2, <2>3
  <1>2. \A id \in StreamId, a \in 1..2 :
          (<<id, a>> \in s.heap) <=> (s.streams[id].item = a \/ Active(s, id, a))
    BY ZenonT(30) DEF SessionInv, Safe, Core, Held
  <1>3. s.aob.item.type = "DATA" => s.aob.item.id \in StreamId /\ s.aob.item.addr \in 1..2
    BY DEF SessionInv, Safe, Core, Held
  <1> HIDE DEF s
  <1>4. ASSUME NEW e \in s.heap PROVE e \in Owned(s)
    <2>1. PICK id \in StreamId, a \in 1..2 : e = <<id, a>>
      BY <1>1
    <2>2. CASE s.streams[id].item = a
      BY <2>1, <2>2 DEF Owned
    <2>3. CASE Active(s, id, a)
      BY <2>1, <2>3 DEF Owned, Active
    <2> QED BY <1>2, <1>4, <2>1, <2>2, <2>3, ZenonT(30)
  <1>5. ASSUME NEW e \in Owned(s) PROVE e \in s.heap
    <2>1. CASE \E id \in StreamId : s.streams[id].item # 0 /\ e = <<id, s.streams[id].item>>
      <3>1. PICK id \in StreamId : s.streams[id].item # 0 /\ e = <<id, s.streams[id].item>>
        BY <2>1
      <3>2. s.streams[id].item \in 1..2
        BY <1>1, <3>1
      <3> QED BY <1>2, <3>1, <3>2, ZenonT(30)
    <2>2. CASE s.aob.item.type = "DATA" /\ e = <<s.aob.item.id, s.aob.item.addr>>
      <3>1. Active(s, s.aob.item.id, s.aob.item.addr)
        BY <2>2 DEF Active
      <3> QED BY <1>2, <1>3, <2>2, <3>1, ZenonT(30)
    <2> QED BY <1>5, <2>1, <2>2 DEF Owned
  <1>6. s.heap = Owned(s)
    BY <1>4, <1>5
  <1> QED BY <1>6 DEF ItemOwnership, s

\* No assert of nghttp2_session_open_stream, session_prep_frame and the DATA path
\* ever fails; a DATA item is freed exactly when neither its stream nor aob holds
\* it any more; a stream that was reported closed is never open again.
THEOREM SafeAlways == Spec => []StateSafe
  <1>1. SessionInv => AssertionsHold
    BY DEF SessionInv, Safe, Core, AssertionsHold
  <1>2. SessionInv => NoReopen
    <2> SUFFICES ASSUME SessionInv PROVE NoReopen
      OBVIOUS
    <2>1. session \in SessionType /\ Numbered(session)
      BY DEF SessionInv, Safe, Core, Ledger
    <2>2. session.done \subseteq StreamId
      BY <2>1, FieldTypes DEF IdSet
    <2>3. \A id \in StreamId : id \in session.done => ~Live(session, id)
      BY <2>1 DEF Numbered
    <2> QED BY <2>2, <2>3 DEF NoReopen
  <1>3. SessionInv => StateSafe
    BY <1>1, <1>2, OwnedItems DEF StateSafe
  <1> QED BY <1>3, SessionInvHolds, PTL

=============================================================================
