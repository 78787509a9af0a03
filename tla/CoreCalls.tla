------------------------------ MODULE CoreCalls -------------------------------
(*****************************************************************************)
(* The calls of the API keep the invariant Safe of CoreRecv.                 *)
(*****************************************************************************)
EXTENDS CoreRecv

-----------------------------------------------------------------------------
(* The calls of the API *)

\* The next ID of our own is spent.
LEMMA NextOnward ==
  ASSUME NEW s, NEW gone, NEW b, Core(s, gone, b)
  PROVE  /\ IsMine(s, s.next_stream_id + 2) /\ s.next_stream_id \in Nat
         /\ LET u == [s EXCEPT !.next_stream_id = @ + 2] IN u \in SessionType /\ Steady(s, u)
  <1> DEFINE n == s.next_stream_id
  <1>1. s \in SessionType /\ n \in Nat /\ IsMine(s, n)
    BY FieldTypes DEF Core, Ledger, Numbered, NextId
  <1> HIDE DEF n
  <1>2. IsMine(s, n + 2)
    <2>1. n + 2 # 0 /\ (((n + 2) % 2 = 0) <=> (n % 2 = 0))
      BY <1>1
    <2> QED BY <1>1, <2>1 DEF IsMine
  <1>3. [s EXCEPT !.next_stream_id = @ + 2] \in SessionType
    BY <1>1, NextIdGrows
  <1>4. Steady(s, [s EXCEPT !.next_stream_id = n + 2])
    <2>1. s.next_stream_id <= n + 2
      BY <1>1 DEF n
    <2>2. \A a : s.next_stream_id <= a /\ IsMine(s, a) => Steady(s, [s EXCEPT !.next_stream_id = a])
      BY <1>1, SteadyField, ZenonT(30)
    <2> QED BY <1>2, <2>1, <2>2
  <1> QED BY <1>1, <1>2, <1>3, <1>4 DEF n

\* nghttp2_submit_request keeps Safe: it takes the next ID and the request
\* waits in its place.
LEMMA SubmitRequestSafe ==
  ASSUME Safe(session), NEW dep \in Deps, NEW data \in BOOLEAN, SubmitRequest(dep, data)
  PROVE  Safe(session')
  <1> DEFINE id == session.next_stream_id
             it == [Frame("HEADERS", id) EXCEPT !.arg = dep, !.end = ~data,
                                                !.data = data, !.aux = "REQUEST"]
             g == GoneNow(session)
             b == session.aob
  <1>1. session \in SessionType /\ Core(session, g, b)
    BY SafeFacts, ZenonT(30)
  <1> HIDE DEF g, b
  <1>2. id \in LastId /\ id # 0 /\ dep \in LastId
    BY <1>1, NextIdType, InstanceAssumption DEF SubmitRequest, LastId, StreamId
  <1>3. session.next_stream_id = id
    OBVIOUS
  <1>4. session' = [AddHeaders(session, it) EXCEPT !.next_stream_id = @ + 2] /\ ~session.server
    BY Zenon DEF SubmitRequest
  <1> HIDE DEF id
  <1>5. Frame("HEADERS", id) \in Item
    BY <1>2, FrameItem, FrameConstants
  <1>6. it \in Item
    BY <1>2, <1>5, ItemUpdate, FrameConstants, StateConstants, Zenon
  <1>7. it.type = "HEADERS" /\ it.aux = "REQUEST" /\ it.id = id
    BY DEF Frame
  <1> HIDE DEF it
  <1>8. Core([AddHeaders(session, it) EXCEPT !.next_stream_id = @ + 2], g, b)
    BY <1>1, <1>3, <1>4, <1>6, <1>7, AddRequestCore
  <1> QED BY <1>4, <1>8, SafeKept, Zenon DEF g, b

\* nghttp2_submit_response, _headers and _trailer keep Safe.
LEMMA SubmitHeadersSafe ==
  ASSUME Safe(session), NEW id \in StreamId, NEW end \in BOOLEAN, NEW data \in BOOLEAN,
         SubmitHeaders(id, end, data)
  PROVE  Safe(session')
  <1> DEFINE it == [Frame("HEADERS", id) EXCEPT !.end = end, !.data = data,
                                                !.aux = "HEADERS"]
  <1>1. Core(session, GoneNow(session), session.aob)
    BY SafeFacts, ZenonT(30)
  <1>2. id \in LastId /\ id # 0
    BY DEF StreamId, LastId
  <1>3. Frame("HEADERS", id) \in Item
    BY <1>2, FrameItem, FrameConstants
  <1>4. it \in Item
    BY <1>2, <1>3, ItemUpdate, FrameConstants, StateConstants, Zenon
  <1>5. it.type = "HEADERS" /\ it.aux = "HEADERS"
    BY DEF Frame
  <1>6. session' = AddHeaders(session, it)
    BY Zenon DEF SubmitHeaders
  <1> HIDE DEF it
  <1>7. Core(AddHeaders(session, it), GoneNow(session), session.aob)
    BY <1>1, <1>4, <1>5, AddHeadersCore
  <1> QED BY <1>6, <1>7, SafeKept, Zenon

\* The other calls that name a stream keep Safe.
LEMMA StreamCallsSafe ==
  ASSUME Safe(session), NEW id \in StreamId,
         \/ SubmitData(id) \/ SubmitRstStream(id) \/ ResumeData(id)
         \/ SetNextStreamId(id)
  PROVE  Safe(session')
  <1> DEFINE g == GoneNow(session)
             b == session.aob
  <1>1. session \in SessionType /\ Core(session, g, b) /\ g \in BOOLEAN /\ id \in LastId
    <2>1. session \in SessionType /\ Core(session, g, b) /\ g \in BOOLEAN
      BY SafeFacts, ZenonT(30)
    <2>2. id \in LastId
      BY DEF StreamId, LastId
    <2> QED BY <2>1, <2>2
  <1>2. \A t : Core(t, g, b) => Safe(t)
    BY SafeKept
  <1>3. session' \in SessionType
    BY <1>1, StreamCallsType DEF TypeOK
  <1> HIDE DEF g, b
  <1>4. CASE SubmitData(id)
    <2> Core(SubmitDataOn(session, id), g, b)
      BY <1>1, SubmitDataOnCore
    <2> QED BY <1>2, <1>4, Zenon DEF SubmitData
  <1>5. CASE SubmitRstStream(id)
    <2> Core(AddRst(session, id), g, b)
      BY <1>1, AddRstCore
    <2> QED BY <1>2, <1>5, Zenon DEF SubmitRstStream
  <1>6. CASE ResumeData(id)
    <2>1. Steady(session, [session EXCEPT !.streams[id].defer = "NO"])
      BY <1>1, SteadyStream, ZenonT(30)
    <2>2. session' = [session EXCEPT !.streams[id].defer = "NO"]
      BY <1>6, Zenon DEF ResumeData
    <2> QED BY <1>1, <1>2, <1>3, <2>1, <2>2, SteadyCore, Zenon
  <1>7. CASE SetNextStreamId(id)
    <2>1. /\ session' = [session EXCEPT !.next_stream_id = id]
          /\ session.next_stream_id <= id /\ IsMine(session, id)
      BY <1>7, Zenon DEF SetNextStreamId
    <2>2. Steady(session, [session EXCEPT !.next_stream_id = id])
      BY <1>1, <2>1, SteadyField, ZenonT(30)
    <2> QED BY <1>1, <1>2, <1>3, <2>1, <2>2, SteadyCore, Zenon
  <1> QED BY <1>4, <1>5, <1>6, <1>7

\* nghttp2_submit_push_promise keeps Safe: it takes the next ID and reserves
\* its stream.
LEMMA SubmitPushPromiseSafe ==
  ASSUME Safe(session), NEW id \in StreamId, SubmitPushPromise(id)
  PROVE  Safe(session')
  <1> DEFINE g == GoneNow(session)
             b == session.aob
             pid == session.next_stream_id
             u == [session EXCEPT !.next_stream_id = @ + 2]
             t == OpenStream(u, pid, "RESERVED", id)
             it == [Frame("PUSH_PROMISE", id) EXCEPT !.arg = pid]
  <1>1. session \in SessionType /\ Core(session, g, b) /\ session.server /\ id \in LastId
    <2>1. session \in SessionType /\ Core(session, g, b)
      BY SafeFacts, ZenonT(30)
    <2>2. session.server
      BY Zenon DEF SubmitPushPromise
    <2>3. id \in LastId
      BY DEF StreamId, LastId
    <2> QED BY <2>1, <2>2, <2>3
  <1>2. \A w : Core(w, g, b) => Safe(w)
    BY SafeKept
  <1>3. pid \in LastId /\ pid \in StreamId
    BY <1>1, NextIdType DEF SubmitPushPromise
  <1>4. session' = IF ~Live(u, id) THEN u ELSE AddReg(t, it)
    BY Zenon DEF SubmitPushPromise
  <1> HIDE DEF g, b
  <1>5. u \in SessionType /\ Steady(session, u) /\ pid \in Nat
    BY <1>1, NextOnward, ZenonT(30)
  <1>6. /\ u.next_stream_id = pid + 2 /\ u.server = session.server /\ u.streams = session.streams
        /\ u.done = session.done /\ u.ob_syn = session.ob_syn /\ u.ob_reg = session.ob_reg
        /\ u.last_sent_stream_id = session.last_sent_stream_id
    BY <1>1, ZenonT(30) DEF SessionType
  <1>7. Core(u, g, b)
    BY <1>1, <1>5, SteadyCore
  <1>8. /\ IsMine(session, pid) /\ session.last_sent_stream_id < pid
        /\ \A i \in 1..Len(session.ob_syn) : SynItem(session, session.ob_syn[i])
        /\ \A i \in 1..Len(session.ob_reg) : RegItem(session, session.ob_reg[i])
    BY <1>1 DEF Core, Ledger, Numbered, Requests, Promises
  <1>9. ~Known(session, pid)
    BY <1>5, <1>8 DEF Known
  <1>10. ~Spent(session, pid) /\ (b.item.type = "DATA" => b.item.id # pid)
    BY <1>1, <1>3, <1>9, UnknownNotSpent DEF Core
  <1>11. pid = session.next_stream_id
    OBVIOUS
  <1> HIDE DEF u, pid
  <1>12. ~Spent(u, pid) /\ IsMine(u, pid) /\ u.server /\ u.aob = b
    BY <1>1, <1>6, <1>7, <1>8, <1>10, ZenonT(30) DEF Spent, IsMine, Core
  <1>13. /\ t \in SessionType /\ Calm(u, t, {pid}) /\ Lists(t)
    <2> IsMine(u, pid) = u.server
      BY <1>1, <1>6, <1>12, ZenonT(30) DEF IsMine
    <2> QED BY <1>1, <1>3, <1>7, <1>12, OpenStreamCalm, Zenon
  <1> HIDE DEF t
  <1>14. /\ t.server = u.server /\ t.ob_reg = u.ob_reg /\ u.next_stream_id <= t.next_stream_id
         /\ t.last_sent_stream_id = u.last_sent_stream_id
         /\ u.last_recv_stream_id <= t.last_recv_stream_id
    BY <1>13, Zenon DEF Calm, SameQueues, Onward
  <1>15. pid < t.next_stream_id /\ IsMine(t, pid)
    <2> t.next_stream_id \in Int
      BY <1>13, FieldTypes DEF NextId
    <2>1. IsMine(t, pid)
      BY <1>12, <1>14, Zenon DEF IsMine
    <2>2. pid < t.next_stream_id
      BY <1>5, <1>6, <1>14
    <2> QED BY <2>1, <2>2
  <1>16. Core(t, g, b)
    <2>1. \A i \in 1..Len(u.ob_syn) : IsRequest(u.ob_syn[i]) => u.ob_syn[i].id # pid
      BY <1>1, <1>6, <1>8 DEF SynItem
    <2>2. Opening(u, t, pid)
      BY <1>3, <1>10, <1>12, <1>15, <2>1 DEF Opening, Known
    <2> QED BY <1>7, <1>13, <2>2, CalmCore
  <1>17. it \in Item /\ it.type = "PUSH_PROMISE" /\ it.arg = pid /\ it.aux = "NONE"
    <2>1. Frame("PUSH_PROMISE", id) \in Item
      BY <1>1, FrameItem, FrameConstants
    <2>2. it \in Item
      BY <1>3, <2>1, ZenonT(30) DEF Item, LastId
    <2> QED BY <2>2 DEF Frame
  <1> HIDE DEF it
  <1>18. Core(AddReg(t, it), g, b)
    <2>1. RegItem(t, it)
      BY <1>1, <1>6, <1>8, <1>14, <1>15, <1>17 DEF RegItem, IsRequest
    <2>2. \A i \in 1..Len(t.ob_reg) : t.ob_reg[i].type = "PUSH_PROMISE" => t.ob_reg[i].arg < it.arg
      BY <1>6, <1>8, <1>11, <1>14, <1>17 DEF RegItem
    <2> QED BY <1>16, <1>17, <2>1, <2>2, AddRegCore
  <1> QED BY <1>2, <1>4, <1>7, <1>18, Zenon

\* The calls that queue a GOAWAY, SETTINGS or PING keep Safe.
LEMMA ControlCallsSafe ==
  ASSUME Safe(session), NEW last \in 0..MaxStreamId, NEW v,
         \/ SubmitGoaway(last) \/ TerminateSession(last) \/ SubmitShutdownNotice
         \/ v \in LocalSettings /\ SubmitSettings(v)
         \/ SubmitPing
  PROVE  Safe(session')
  <1> DEFINE g == GoneNow(session)
             b == session.aob
  <1>1. /\ session \in SessionType /\ Core(session, g, b)
        /\ last \in LastId /\ MaxStreamId \in LastId
    <2>1. session \in SessionType /\ Core(session, g, b)
      BY SafeFacts, ZenonT(30)
    <2>2. last \in LastId /\ MaxStreamId \in LastId
      BY SessionAssumption DEF LastId
    <2> QED BY <2>1, <2>2
  <1>2. \A t : Core(t, g, b) => Safe(t)
    BY SafeKept
  <1> HIDE DEF g, b
  <1>6. /\ Core(AddGoaway(session, last, "NONE"), g, b)
        /\ Core(AddGoaway(session, MaxStreamId, "SHUTDOWN_NOTICE"), g, b)
        /\ Core(Terminate(session, last), g, b)
    BY <1>1, AddGoawayCore, TerminateCore, FrameConstants
  <1>7. /\ v \in Settings => Core(Pended(session, v), g, b)
        /\ Core(AddUrgent(session, Frame("PING", 0)), g, b)
    BY <1>1, PendedCore, AddAckCore
  <1>10. CASE SubmitGoaway(last) \/ TerminateSession(last) \/ SubmitShutdownNotice
    BY <1>2, <1>6, <1>10, Zenon DEF SubmitGoaway, TerminateSession, SubmitShutdownNotice
  <1>11. CASE (v \in LocalSettings /\ SubmitSettings(v)) \/ SubmitPing
    <2>1. v \in LocalSettings => v \in Settings
      BY InstanceAssumption
    <2> QED BY <1>2, <1>7, <1>11, <2>1, Zenon DEF SubmitSettings, SubmitPing
  <1> QED BY <1>10, <1>11

\* The calls about priorities, which may create idle streams, keep Safe.
LEMMA PriorityCallsSafe ==
  ASSUME Safe(session), NEW id \in StreamId, NEW dep \in Deps,
         \/ SubmitPriority(id, dep) \/ CreateIdleStream(id, dep)
         \/ ChangeStreamPriority(id, dep)
  PROVE  Safe(session')
  <1> DEFINE g == GoneNow(session)
             b == session.aob
             it == [Frame("PRIORITY", id) EXCEPT !.arg = dep]
  <1>1. /\ session \in SessionType /\ Core(session, g, b) /\ id \in LastId
        /\ dep \in LastId
    <2>1. session \in SessionType /\ Core(session, g, b)
      BY SafeFacts, ZenonT(30)
    <2>2. id \in LastId /\ dep \in LastId
      BY InstanceAssumption DEF StreamId, LastId
    <2> QED BY <2>1, <2>2
  <1>2. \A t : Core(t, g, b) => Safe(t)
    BY SafeKept
  <1> HIDE DEF g, b
  <1>3. it \in Item /\ it.type = "PRIORITY" /\ it.aux = "NONE"
    <2>1. Frame("PRIORITY", id) \in Item
      BY <1>1, FrameItem, FrameConstants
    <2>2. it \in Item
      BY <1>1, <2>1, ZenonT(30) DEF Item, LastId
    <2> QED BY <2>2 DEF Frame
  <1> HIDE DEF it
  <1>4. Core(AddReg(session, it), g, b)
    BY <1>1, <1>3, AddPlainCore
  <1>5. /\ ~Raw(session, id) /\ DetectIdle(session, id)
             => Core(OpenStream(session, id, "IDLE", dep), g, b)
        /\ Core(Reprioritize(session, dep), g, b)
    BY <1>1, IdleStreamCore
  <1>8. CASE SubmitPriority(id, dep)
    BY <1>2, <1>4, <1>8, Zenon DEF SubmitPriority, it
  <1>9. CASE CreateIdleStream(id, dep) \/ ChangeStreamPriority(id, dep)
    BY <1>2, <1>5, <1>9, Zenon DEF CreateIdleStream, ChangeStreamPriority
  <1> QED BY <1>8, <1>9

\* nghttp2_session_upgrade_internal keeps Safe on a server, which opens stream
\* 1 for the peer.
LEMMA UpgradeServerSafe ==
  ASSUME Safe(session), NEW v \in PeerSettings, NEW invalid, Upgrade(v, invalid),
         session.server
  PROVE  Safe(session')
  <1> DEFINE g == GoneNow(session)
             b == session.aob
             s0 == OnSettings(session, v, invalid, {}, TRUE)
             s1 == OpenStream(s0, 1, "OPENING", 0)
             s2 == [s1 EXCEPT !.streams[1].rd = TRUE]
             s3 == [s2 EXCEPT !.last_recv_stream_id = 1]
             s4 == [s3 EXCEPT !.last_proc_stream_id = 1]
  <1>1. /\ session \in SessionType /\ Core(session, g, b) /\ v \in Settings
        /\ 1 \in StreamId /\ 0 \in LastId /\ 1 \in LastId
    <2>1. session \in SessionType /\ Core(session, g, b)
      BY SafeFacts, ZenonT(30)
    <2>2. v \in Settings
      BY InstanceAssumption, FrameConstants
    <2>3. 1 \in StreamId /\ 0 \in LastId /\ 1 \in LastId
      BY SessionAssumption, OneIsStreamId, FrameConstants DEF StreamId, LastId
    <2> QED BY <2>1, <2>2, <2>3
  <1>2. \A w : Core(w, g, b) => Safe(w)
    BY SafeKept
  <1>3. session' = s4 /\ session.last_recv_stream_id < 1
    BY Zenon DEF Upgrade
  <1> HIDE DEF g, b
  <1>4. /\ Core(s0, g, b) /\ s0.server = session.server
        /\ s0.last_recv_stream_id = session.last_recv_stream_id
    <2>1. Core(s0, g, b)
      BY <1>1, OnSettingsCore, ZenonT(30)
    <2>2. /\ s0.server = session.server
          /\ s0.last_recv_stream_id = session.last_recv_stream_id
      BY <1>1, OnSettingsFields, ZenonT(30)
    <2> QED BY <2>1, <2>2, ZenonT(30)
  <1> HIDE DEF s0
  <1>5. s0 \in SessionType /\ s0.last_recv_stream_id = 0 /\ s0.aob = b
    BY <1>3, <1>4, FieldTypes DEF Core, LastId
  <1>6. ~IsMine(s0, 1)
    <2>1. s0.server = TRUE
      BY <1>1, <1>4 DEF SessionType
    <2>2. ~(1 % 2 = 0)
      OBVIOUS
    <2> QED BY <2>1, <2>2, ZenonT(30) DEF IsMine
  <1>7. ~Spent(s0, 1) /\ (b.item.type = "DATA" => b.item.id # 1)
    <2> ~Known(s0, 1)
      BY <1>5, <1>6 DEF Known
    <2> QED BY <1>1, <1>4, <1>5, UnknownNotSpent
  <1>8. s1 \in SessionType /\ Calm(s0, s1, {1}) /\ Lists(s1)
    BY <1>1, <1>4, <1>7, OpenStreamCalm, Zenon
  <1>9. s1.last_recv_stream_id = 0
    BY <1>5 DEF OpenStream, SessionType
  <1> HIDE DEF s1
  <1>10. s2 \in SessionType /\ Steady(s1, s2)
    BY <1>1, <1>8, SetStreamField, StateConstants, SteadyStream, ZenonT(30)
  <1>11. s2.last_recv_stream_id = 0
    BY <1>8, <1>9 DEF SessionType
  <1> HIDE DEF s2
  <1>12. s3 \in SessionType /\ Steady(s2, s3)
    <2>1. s3 \in SessionType
      BY <1>1, <1>10, SetLastStream, ZenonT(30)
    <2>2. \A a : s2.last_recv_stream_id <= a => Steady(s2, [s2 EXCEPT !.last_recv_stream_id = a])
      BY <1>10, SteadyField, ZenonT(30)
    <2>3. s2.last_recv_stream_id <= 1
      BY <1>11
    <2> QED BY <2>1, <2>2, <2>3
  <1>13. s3.last_recv_stream_id = 1
    BY <1>10 DEF SessionType
  <1> HIDE DEF s3
  <1>14. Calm(s0, s3, {1}) /\ Lists(s3)
    <2>1. Calm(s0, s2, {1}) /\ Lists(s2)
      BY <1>5, <1>8, <1>10, CalmAfter
    <2> QED BY <1>5, <1>10, <1>12, <2>1, CalmAfter
  <1>15. Core(s3, g, b)
    <2>1. \A i \in 1..Len(s0.ob_syn) : IsRequest(s0.ob_syn[i]) => s0.ob_syn[i].id # 1
      BY <1>4 DEF Core, Ledger, Requests, SynItem
    <2>2. s3.server = s0.server
      BY <1>14 DEF Calm, SameQueues
    <2>3. Opening(s0, s3, 1)
      BY <1>1, <1>5, <1>6, <1>7, <1>13, <2>1, <2>2 DEF Opening, Known, IsMine
    <2> QED BY <1>4, <1>12, <1>14, <2>3, CalmCore
  <1>16. Core(s4, g, b)
    BY <1>1, <1>15, RefusedCore
  <1> QED BY <1>2, <1>3, <1>16

\* nghttp2_session_upgrade_internal keeps Safe on a client, which has sent
\* stream 1 as an HTTP/1.1 request.
LEMMA UpgradeClientSafe ==
  ASSUME Safe(session), NEW v \in PeerSettings, NEW invalid, Upgrade(v, invalid),
         ~session.server
  PROVE  Safe(session')
  <1> DEFINE g == GoneNow(session)
             b == session.aob
             s0 == Pended(session, v)
             s1 == OpenStream(s0, 1, "OPENING", 0)
             s2 == [s1 EXCEPT !.streams[1].wr = TRUE]
             s3 == [s2 EXCEPT !.next_stream_id = @ + 2]
             s4 == [s3 EXCEPT !.asserts = TRUE, !.last_sent_stream_id = 1]
  <1>1. /\ session \in SessionType /\ Core(session, g, b) /\ v \in Settings
        /\ 1 \in StreamId /\ 0 \in LastId /\ 1 \in LastId
    <2>1. session \in SessionType /\ Core(session, g, b)
      BY SafeFacts, ZenonT(30)
    <2>2. v \in Settings
      BY InstanceAssumption, FrameConstants
    <2>3. 1 \in StreamId /\ 0 \in LastId /\ 1 \in LastId
      BY SessionAssumption, OneIsStreamId, FrameConstants DEF StreamId, LastId
    <2> QED BY <2>1, <2>2, <2>3
  <1>2. \A w : Core(w, g, b) => Safe(w)
    BY SafeKept
  <1>3. /\ session' = [[s2 EXCEPT !.last_sent_stream_id = 1] EXCEPT !.next_stream_id = @ + 2]
        /\ session.next_stream_id = 1
    BY Zenon DEF Upgrade
  <1> HIDE DEF g, b
  <1>4. Core(s0, g, b) /\ s0.server = session.server /\ s0.next_stream_id = 1
    BY <1>1, <1>3, PendedCore
  <1> HIDE DEF s0
  <1>5. s0 \in SessionType /\ s0.aob = b
    BY <1>4 DEF Core
  <1>6. IsMine(s0, 1)
    BY <1>4 DEF IsMine, Core, Ledger, Numbered
  <1>7. ~Spent(s0, 1) /\ (b.item.type = "DATA" => b.item.id # 1)
    <2> ~Known(s0, 1)
      BY <1>4, <1>6 DEF Known
    <2> QED BY <1>1, <1>4, <1>5, UnknownNotSpent
  <1>8. s1 \in SessionType /\ Calm(s0, s1, {1}) /\ Lists(s1)
    BY <1>1, <1>4, <1>7, OpenStreamCalm, Zenon
  <1> HIDE DEF s1
  <1>9. s2 \in SessionType /\ Steady(s1, s2)
    BY <1>1, <1>8, SetStreamField, StateConstants, SteadyStream, ZenonT(30)
  <1> HIDE DEF s2
  <1>10. Calm(s0, s2, {1}) /\ Lists(s2)
    BY <1>5, <1>8, <1>9, CalmAfter
  <1>11. /\ s2.server = s0.server /\ 1 <= s2.next_stream_id /\ IsMine(s2, s2.next_stream_id)
         /\ s2.next_stream_id \in Nat /\ s2.asserts = TRUE
    <2>1. /\ s2.server = s0.server /\ s2.asserts = s0.asserts /\ Onward(s0, s2)
      BY <1>10 DEF Calm, SameQueues
    <2>2. s2.next_stream_id \in Nat /\ s0.asserts = TRUE
      BY <1>4, <1>5, <1>9, FieldTypes DEF NextId, Core
    <2> QED BY <1>4, <1>6, <2>1, <2>2 DEF Onward
  <1>12. s3 \in SessionType /\ Steady(s2, s3) /\ s3.next_stream_id = s2.next_stream_id + 2
    <2> DEFINE n == s2.next_stream_id
    <2>1. s3 \in SessionType
      BY <1>9, NextIdGrows
    <2>2. n \in Nat /\ IsMine(s2, n)
      BY <1>11
    <2> HIDE DEF n
    <2>3. IsMine(s2, n + 2)
      <3>1. n + 2 # 0 /\ (((n + 2) % 2 = 0) <=> (n % 2 = 0))
        BY <2>2
      <3> QED BY <2>2, <3>1 DEF IsMine
    <2>4. Steady(s2, [s2 EXCEPT !.next_stream_id = n + 2])
      <3>1. s2.next_stream_id <= n + 2
        BY <2>2 DEF n
      <3>2. \A a : s2.next_stream_id <= a /\ IsMine(s2, a)
                    => Steady(s2, [s2 EXCEPT !.next_stream_id = a])
        BY <1>9, SteadyField, ZenonT(30)
      <3> QED BY <2>3, <3>1, <3>2
    <2>5. s3.next_stream_id = s2.next_stream_id + 2
      BY <1>9 DEF SessionType
    <2> QED BY <2>1, <2>4, <2>5 DEF n
  <1>13. s3 = [s2 EXCEPT !.next_stream_id = @ + 2]
    OBVIOUS
  <1> HIDE DEF s3
  <1>14. Calm(s0, s3, {1}) /\ Lists(s3)
    BY <1>5, <1>9, <1>10, <1>12, CalmAfter
  <1>15. s3.server = s0.server /\ s3.ob_syn = s0.ob_syn /\ s3.ob_reg = s0.ob_reg
    BY <1>14 DEF Calm, SameQueues
  <1>16. \A i \in 1..Len(s0.ob_syn) : ~IsRequest(s0.ob_syn[i])
    <2> SUFFICES ASSUME NEW i \in 1..Len(s0.ob_syn), IsRequest(s0.ob_syn[i]) PROVE FALSE
      OBVIOUS
    <2>1. s0.ob_syn[i].id < 1 /\ s0.last_sent_stream_id < s0.ob_syn[i].id
      BY <1>4 DEF Core, Ledger, Requests, SynItem
    <2>2. s0.last_sent_stream_id \in Nat /\ s0.ob_syn[i].id \in Int
      BY <1>5, FieldTypes, QueueItems, SessionAssumption DEF LastId
    <2> QED BY <2>1, <2>2
  <1>17. Core(s3, g, b)
    <2>1. Opening(s0, s3, 1)
      <3>1. IsMine(s3, 1)
        BY <1>6, <1>15, Zenon DEF IsMine
      <3>2. 1 < s3.next_stream_id
        BY <1>11, <1>12
      <3>3. Known(s3, 1)
        BY <3>1, <3>2, Zenon DEF Known
      <3> QED BY <1>1, <1>5, <1>7, <1>16, <3>3, Zenon DEF Opening
    <2> QED BY <1>4, <1>12, <1>14, <2>1, CalmCore
  <1>18. Core(s4, g, b)
    <2>1. \A i \in 1..Len(s0.ob_reg) : s0.ob_reg[i].type # "PUSH_PROMISE"
      BY <1>4 DEF Core, Ledger, Promises, RegItem
    <2>2. IsMine(s3, 1) /\ 1 < s3.next_stream_id
      BY <1>6, <1>11, <1>12, <1>15 DEF IsMine
    <2> QED BY <1>1, <1>15, <1>16, <1>17, <2>1, <2>2, LastSentCore, ZenonT(30)
  <1>19. session' = s4
    BY <1>3, <1>9, <1>11, <1>13, ZenonT(30) DEF SessionType
  <1> QED BY <1>2, <1>18, <1>19

=============================================================================
