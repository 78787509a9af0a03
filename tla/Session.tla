------------------------------ MODULE Session ------------------------------
(***************************************************************************)
(* One nghttp2_session: the application calls its API, nghttp2_session_send*)
(* or mem_send drains its queues, and mem_recv feeds it frames of an       *)
(* arbitrary peer.  The library has no threads; what interleaves is the    *)
(* order of those calls, and how far a frame has been read or written when *)
(* the next call comes.  An action is one API call, one received frame (or *)
(* one stage of a HEADERS, PUSH_PROMISE or DATA frame), or one iteration of*)
(* the loop of nghttp2_session_mem_send_internal.                          *)
(*                                                                         *)
(* What callbacks and the HTTP messaging rules decide is nondeterministic. *)
(* Calls, Frames and Faults name the API calls, the received frames and    *)
(* the failures an instance explores; MaxQueue bounds the queued frames.   *)
(***************************************************************************)
EXTENDS SessionOps

CONSTANTS
  Roles,           \* TRUE: the session may be a server's, FALSE: a client's
  FastCb,          \* TRUE: the application may use mem_send, FALSE: send
  InitialPeerMax,  \* remote max_concurrent_streams before SETTINGS (100)
  Calls, Frames, Faults,
  Deps,            \* stream IDs a priority may name
  LocalSettings,   \* SETTINGS the application may submit
  PeerSettings,    \* SETTINGS the peer may send
  MaxQueue         \* bound on ob_reg and ob_urgent together

VARIABLE session

ASSUME InstanceAssumption ==
  /\ Roles \subseteq BOOLEAN /\ FastCb \subseteq BOOLEAN
  /\ InitialPeerMax \in Nat
  /\ Deps \subseteq 0..MaxStreamId
  /\ LocalSettings \subseteq Settings /\ PeerSettings \subseteq Settings
  /\ MaxQueue \in Nat

\* session_new, nghttp2_session_client_new3, nghttp2_session_server_new3
NewSession(server, fast_cb) ==
  [server |-> server, fast_cb |-> fast_cb, streams |-> [id \in StreamId |-> NoStream],
   closedq |-> <<>>, idleq |-> <<>>,
   num_outgoing_streams |-> 0, num_incoming_streams |-> 0,
   num_incoming_reserved_streams |-> 0,
   next_stream_id |-> IF server THEN 2 ELSE 1,
   last_sent_stream_id |-> 0, last_recv_stream_id |-> 0,
   last_proc_stream_id |-> 0,
   local_last_stream_id |-> MaxStreamId, remote_last_stream_id |-> MaxStreamId,
   goaway_flags |-> {},
   ob_urgent |-> <<>>, ob_reg |-> <<>>, ob_syn |-> <<>>,
   aob |-> [item |-> NoItem, stage |-> "POP"],
   iframe |-> [state |-> "FIRST", type |-> "NONE", id |-> 0, arg |-> 0,
               end |-> FALSE],
   local_max_concurrent |-> DefaultMaxConcurrent,
   pending_max_concurrent |-> DefaultMaxConcurrent,
   remote_max_concurrent |-> InitialPeerMax, remote_settings_received |-> FALSE,
   local_enable_push |-> TRUE, pending_enable_push |-> TRUE,
   remote_enable_push |-> TRUE, inflight_settings |-> <<>>,
   window_open |-> TRUE, obq_flood_counter |-> 0,
   fatal |-> FALSE, asserts |-> TRUE, done |-> {}, heap |-> {},
   wire |-> [id \in StreamId |-> "NONE"]]

Init == \E server \in Roles, fast_cb \in FastCb :
          session = NewSession(server, fast_cb)

-----------------------------------------------------------------------------
(* The API.  A call that returns an error leaves the session alone and is   *)
(* not an action, except where the error comes after a state change.       *)

Room(s) == Len(s.ob_reg) + Len(s.ob_urgent) < MaxQueue

MayCall(c) == c \in Calls /\ ~session.fatal /\ Room(session)

\* Mutant: the stream IDs never run out.
SubmitRequest_NoLimit(dep, data) ==
  /\ MayCall("request") /\ ~session.server
  /\ session' = [AddHeaders(session,
                   [Frame("HEADERS", session.next_stream_id) EXCEPT
                      !.arg = dep, !.end = ~data, !.data = data,
                      !.aux = "REQUEST"])
                 EXCEPT !.next_stream_id = @ + 2]

\* Priority fields of PRIORITY and HEADERS never name the stream itself:
\* detect_self_dependency and nghttp2_submit_priority refuse it.
SubmitRequest(dep, data) ==
  /\ MayCall("request") /\ ~session.server /\ (data => "data" \in Calls)
  /\ session.next_stream_id <= MaxStreamId /\ dep # session.next_stream_id
  /\ session' = [AddHeaders(session,
                   [Frame("HEADERS", session.next_stream_id) EXCEPT
                      !.arg = dep, !.end = ~data, !.data = data,
                      !.aux = "REQUEST"])
                 EXCEPT !.next_stream_id = @ + 2]

\* nghttp2_submit_headers, nghttp2_submit_response, nghttp2_submit_trailer
SubmitHeaders(id, end, data) ==
  /\ MayCall("headers") /\ Live(session, id) /\ (data => "data" \in Calls)
  /\ Len(session.ob_syn) < MaxQueue
  /\ IF session.server THEN ~ (end /\ data) ELSE ~data
  /\ session' = AddHeaders(session, [Frame("HEADERS", id) EXCEPT
                   !.end = end, !.data = data, !.aux = "HEADERS"])

SubmitData(id) ==
  /\ MayCall("data") /\ Live(session, id) /\ session.streams[id].item = 0
  /\ session' = SubmitDataOn(session, id)

Canceled(s, id) == \E i \in 1..Len(s.ob_syn) :
                     s.ob_syn[i].id = id /\ s.ob_syn[i].aux = "CANCELED"

Pending(s, id) == \E i \in 1..Len(s.ob_syn) :
                     s.ob_syn[i].id = id /\ s.ob_syn[i].aux = "REQUEST"

\* The application resets a stream it knows: an open one or a request that is
\* still queued ("rst_again": it may do so a second time).
SubmitRstStream(id) ==
  /\ MayCall("rst")
  /\ \/ Live(session, id) \/ Pending(session, id)
     \/ "rst_again" \in Calls /\ Canceled(session, id)
  /\ session' = AddRst(session, id)

\* The ID is spent even if the associated stream is gone.
SubmitPushPromise(id) ==
  /\ MayCall("push") /\ session.server
  /\ id \in StreamId /\ ~IsMine(session, id)
  /\ Live(session, id) \/ id \in session.done
  /\ session.next_stream_id <= MaxStreamId
  /\ LET pid == session.next_stream_id
         s1 == [session EXCEPT !.next_stream_id = @ + 2]
     IN session' = IF ~Live(s1, id) THEN s1
                   ELSE AddReg(OpenStream(s1, pid, "RESERVED", id),
                               [Frame("PUSH_PROMISE", id) EXCEPT !.arg = pid])

\* The application names the last peer stream it may have processed, or a
\* smaller one; "goaway_again": also while an earlier GOAWAY is queued.
GoawayQueued(s) == \E i \in 1..Len(s.ob_reg) : s.ob_reg[i].type = "GOAWAY"

MayGoaway == "goaway_again" \in Calls \/ ~GoawayQueued(session)

SubmitGoaway(last) ==
  /\ MayCall("goaway") /\ MayGoaway
  /\ "TERM_ON_SEND" \notin session.goaway_flags /\ ~IsMine(session, last)
  /\ session' = AddGoaway(session, last, "NONE")

SubmitShutdownNotice ==
  /\ MayCall("shutdown_notice") /\ MayGoaway
  /\ session.server /\ session.goaway_flags = {}
  /\ session' = AddGoaway(session, MaxStreamId, "SHUTDOWN_NOTICE")

\* nghttp2_session_terminate_session and nghttp2_session_terminate_session2; with
\* an ID of our own the call fails, but only after the input is ignored.
TerminateSession(last) ==
  /\ MayCall("terminate") /\ MayGoaway
  /\ "TERM_ON_SEND" \notin session.goaway_flags
  /\ session' = Terminate(session, last)

SubmitPriority(id, dep) ==
  /\ MayCall("priority") /\ id # dep
  /\ session' = AddReg(session, [Frame("PRIORITY", id) EXCEPT !.arg = dep])

\* nghttp2_session_create_idle_stream: the idle streams are not adjusted.
CreateIdleStream(id, dep) ==
  /\ MayCall("create_idle") /\ id # dep
  /\ DetectIdle(session, id) /\ ~Raw(session, id)
  /\ session' = OpenStream(session, id, "IDLE", dep)

\* nghttp2_session_change_stream_priority: not adjusted either.
ChangeStreamPriority(id, dep) ==
  /\ MayCall("change_priority") /\ id # dep /\ Raw(session, id)
  /\ session' = Reprioritize(session, dep)

ResumeData(id) ==
  /\ MayCall("resume") /\ Live(session, id) /\ session.streams[id].defer = "USER"
  /\ session' = [session EXCEPT !.streams[id].defer = "NO"]

\* nghttp2_session_add_settings without ACK
Pended(s, v) ==
  [s EXCEPT !.inflight_settings = Append(@, v),
            !.ob_urgent = Append(@, Frame("SETTINGS", 0)),
            !.pending_max_concurrent = IF v.mcs = -1 THEN @ ELSE v.mcs,
            !.pending_enable_push = IF v.push = "keep" THEN @ ELSE v.push = "on"]

SubmitSettings(v) ==
  /\ MayCall("settings") /\ Len(session.inflight_settings) < MaxQueue
  /\ session' = Pended(session, v)

SubmitPing == MayCall("ping") /\ session' = AddUrgent(session, Frame("PING", 0))

SetNextStreamId(id) ==
  /\ MayCall("set_next_id") /\ id \in StreamId
  /\ session.next_stream_id <= id /\ IsMine(session, id)
  /\ session' = [session EXCEPT !.next_stream_id = id]

-----------------------------------------------------------------------------
(* nghttp2_session_mem_send_internal *)

MaySendNow == session.aob.stage = "POP" /\ ~session.fatal

\* A control frame is popped and prepared.  With mem_send it counts as sent
\* at once, unless CONTINUATION frames follow (cont).
StartSend(s, it, cont, q, open) ==
  LET s1 == [OnWire(s, it) EXCEPT !.aob = [item |-> it, stage |-> "SEND"]]
  IN IF s.fast_cb /\ ~ (cont /\ it.type \in {"HEADERS", "PUSH_PROMISE"})
       THEN [AfterFrameSent1(s1, q, open) EXCEPT !.aob.stage = "SENT"] ELSE s1

\* Whether the connection window is open after a DATA frame has been sent.
WindowAfter == IF "window" \in Faults THEN BOOLEAN ELSE {TRUE}

\* The session as session_prep_frame sees it, with the popped item.  The
\* actions bind both with \E over a singleton, so that TLC evaluates them once.
Popped == LET s == AdjustIdle(session)
          IN PrepBegin(PopControl(s), ControlItem(s))

PoppedItem == LET it == ControlItem(AdjustIdle(session))
              IN [it EXCEPT !.aux = Category(Popped, it)]

HasControl == MaySendNow /\ ControlItem(AdjustIdle(session)) # NoItem

SendControl(cont) ==
  /\ HasControl
  /\ \E p \in {Popped}, it \in {PoppedItem} :
       /\ PrepOk(p, it)
       /\ \E s \in {PrepDone(p, it)} :
            \E q \in Orders(SentCloses([s EXCEPT !.aob.item = it])) :
              session' = StartSend(s, it, cont, q, TRUE)

\* session_prep_frame refuses the frame, or its header block is too long: the
\* stream it opened is closed again and the item is dropped.
ControlNotSent ==
  /\ HasControl
  /\ \E p \in {Popped}, it \in {PoppedItem} :
       /\ \/ ~PrepOk(p, it)
          \/ "too_long" \in Faults /\ it.type \in {"HEADERS", "PUSH_PROMISE"}
       /\ session' = CloseStream(p, OpenedBy(it))

\* The header compressor fails (NGHTTP2_ERR_HEADER_COMP).
HeaderCompError ==
  /\ HasControl /\ "header_comp" \in Faults
  /\ \E p \in {Popped}, it \in {PoppedItem} :
       /\ PrepOk(p, it) /\ it.type \in {"HEADERS", "PUSH_PROMISE"}
       /\ session' = ConnectionError(CloseStream(p, OpenedBy(it)))

\* before_frame_send_callback returns NGHTTP2_ERR_CANCEL.
ControlCanceled ==
  /\ HasControl /\ "cancel" \in Faults
  /\ \E p \in {Popped}, it \in {PoppedItem} :
       /\ PrepOk(p, it)
       /\ session' = CloseStream(PrepDone(p, it), OpenedBy(it))

\* The scheduler offers a stream's DATA item when nothing else may go.
HasData(id) ==
  /\ MaySendNow /\ ControlItem(AdjustIdle(session)) = NoItem
  /\ session.window_open /\ id \in Schedulable(session)

DataItem(id) == [Frame("DATA", id) EXCEPT !.addr = session.streams[id].item]

\* nghttp2_session_predicate_data_send fails: the item is detached and freed.
DataRefused(id) ==
  /\ HasData(id)
  /\ LET s == AdjustIdle(session)
     IN /\ ~MaySendData(s, id)
        /\ session' = FreeData(Detach(s, id), DataItem(id))

\* The stream's window is exhausted, or the data source has nothing yet.
DataDeferred(id, why) ==
  /\ HasData(id) /\ MaySendData(AdjustIdle(session), id)
  /\ session' = [AdjustIdle(session) EXCEPT !.streams[id].defer = why]

\* The data source fails for this stream only, or cancels.
DataSourceFails(id, temporal) ==
  /\ HasData(id) /\ "data_source" \in Faults
  /\ LET s == AdjustIdle(session)
         s1 == Detach(s, id)
     IN /\ MaySendData(s, id)
        /\ session' = FreeData(IF temporal THEN AddRst(s1, id) ELSE s1, DataItem(id))

\* A DATA frame is packed; it may end the item (eof) and the stream (end).
SendData(id, eof, end, no_copy) ==
  /\ HasData(id) /\ (end => eof)
  /\ LET s == AdjustIdle(session)
         it == [DataItem(id) EXCEPT !.data = eof, !.end = end,
                                    !.aux = IF no_copy THEN "NO_COPY" ELSE "NONE"]
     IN /\ MaySendData(s, id)
        /\ \E open \in WindowAfter : session' =
             IF no_copy THEN [s EXCEPT !.aob = [item |-> it, stage |-> "NO_COPY"]]
             ELSE StartSend(s, it, FALSE, <<>>, open)

\* The bytes of the active frame have gone: session_after_frame_sent1, then
\* session_after_frame_sent2, which mem_send leaves to the next call.
FrameSent ==
  /\ session.aob.stage = "SEND"
  /\ \E q \in Orders(SentCloses(session)), open \in WindowAfter :
       LET s == AfterFrameSent1(session, q, open)
       IN session' = IF s.fast_cb THEN [s EXCEPT !.aob.stage = "SENT"]
                                ELSE AfterFrameSent2(s)

FrameFinished ==
  /\ session.aob.stage = "SENT"
  /\ session' = AfterFrameSent2(session)

\* NGHTTP2_OB_SEND_NO_COPY
NoCopyStreamGone ==
  /\ session.aob.stage = "NO_COPY" /\ ~Live(session, session.aob.item.id)
  /\ session' = ResetAob(FreeData(session, session.aob.item))

NoCopySent ==
  /\ session.aob.stage = "NO_COPY" /\ Live(session, session.aob.item.id)
  /\ \E open \in WindowAfter :
       session' = AfterFrameSent2(AfterFrameSent1(
                    OnWire(session, session.aob.item), <<>>, open))

NoCopyFails ==
  LET id == session.aob.item.id
  IN /\ session.aob.stage = "NO_COPY" /\ Live(session, id)
     /\ "data_source" \in Faults
     /\ session' = ResetAob(FreeData(AddRst(Detach(session, id), id),
                                     session.aob.item))

-----------------------------------------------------------------------------
(* nghttp2_session_mem_recv *)

\* mem_recv adjusts the idle streams first; it discards its input once the
\* session does not want to read.
Adjusted == AdjustIdle(session)

MayRecv(type) ==
  /\ type \in Frames /\ session.iframe.state = "HEAD"
  /\ ~session.fatal /\ Room(session) /\ WantRead(Adjusted)

InFrame(states) ==
  /\ session.iframe.state \in states
  /\ ~session.fatal /\ Room(session) /\ WantRead(Adjusted)

Inbound(s, type, id, arg, end) ==
  [s EXCEPT !.iframe = [state |-> "HEAD", type |-> type, id |-> id,
                        arg |-> arg, end |-> end]]

RecvHeaders(id, dep, end, accepted) ==
  /\ MayRecv("HEADERS") /\ (accepted \/ "begin_headers" \in Faults)
  /\ session' = ProcessHeaders(Inbound(Adjusted, "HEADERS", id, 0, end),
                               id, dep, accepted)

RecvPushPromise(id, pid, accepted) ==
  /\ MayRecv("PUSH_PROMISE") /\ (accepted \/ "begin_headers" \in Faults)
  /\ session' = OnPushPromise(Inbound(Adjusted, "PUSH_PROMISE", id, pid, FALSE),
                              id, pid, accepted)

\* A header field breaks the HTTP rules or on_header_callback fails for this
\* stream only: it is reset and the rest of the block is only decoded.
HeaderFieldFails ==
  /\ InFrame({"HB"}) /\ "header_field" \in Faults
  /\ session' = [AddRst(Adjusted, Subject(session.iframe))
                   EXCEPT !.iframe.state = "IGN_HB"]

\* The block cannot be decoded.
HeaderBlockError ==
  /\ InFrame({"HB", "IGN_HB"}) /\ "compression" \in Faults
  /\ session' = CompressionError(Adjusted)

\* Another frame arrives where CONTINUATION is expected.
ContinuationExpected ==
  /\ InFrame({"HB", "IGN_HB"}) /\ "continuation" \in Faults
  /\ session' = ConnectionError(Adjusted)

HeaderBlockEnd(valid, terminate) ==
  /\ InFrame({"HB", "IGN_HB"})
  /\ valid \/ "http" \in Faults
  /\ terminate => "terminate_in_callback" \in Faults
  /\ session' = ResetInbound(
       IF session.iframe.state = "HB"
         THEN AfterHeaderBlock(Adjusted, valid, terminate) ELSE Adjusted)

RecvData(id, end) ==
  /\ MayRecv("DATA")
  /\ session' = OnDataHeader(Inbound(Adjusted, "DATA", id, 0, end), id)

\* A part of the payload: the stream may be gone by now, the connection's or
\* the stream's window overrun, or the HTTP rules broken by the data.
DataStreamGone ==
  /\ InFrame({"DATA"}) /\ ~Live(session, session.iframe.id)
  /\ session' = [Adjusted EXCEPT !.iframe.state = "IGN_DATA"]

DataOverrunsConnection ==
  /\ InFrame({"DATA", "IGN_DATA"}) /\ "overrun" \in Faults
  /\ session' = ConnectionError(Adjusted)

DataOverrunsStream ==
  /\ InFrame({"DATA"}) /\ "overrun" \in Faults
  /\ Live(session, session.iframe.id)
  /\ session' = AddRst(Adjusted, session.iframe.id)

DataInvalid ==
  /\ InFrame({"DATA"}) /\ "http" \in Faults /\ Live(session, session.iframe.id)
  /\ session' = [AddRst(Adjusted, session.iframe.id)
                   EXCEPT !.iframe.state = "IGN_DATA"]

DataEnd(valid, terminate) ==
  /\ InFrame({"DATA"}) /\ Live(session, session.iframe.id)
  /\ valid \/ "http" \in Faults
  /\ terminate => "terminate_in_callback" \in Faults
  /\ session' = ResetInbound(OnDataEnd(Adjusted, valid, terminate))

IgnoredDataEnd ==
  /\ InFrame({"IGN_DATA"})
  /\ session' = ResetInbound(Adjusted)

RecvRstStream(id) ==
  /\ MayRecv("RST_STREAM")
  /\ session' = FrameDone(OnRstStream(Adjusted, id))

RecvPriority(id, dep) ==
  /\ MayRecv("PRIORITY")
  /\ session' = FrameDone(OnPriority(Adjusted, id, dep))

RecvGoaway(last) ==
  /\ MayRecv("GOAWAY")
  /\ \E q \in Orders(OnGoaway(Adjusted, last, FALSE)) :
       session' = FrameDone(OnGoawayReceived(Adjusted, last, q))

FlowDeferred(s) == {id \in StreamId : Live(s, id) /\ s.streams[id].item # 0
                                        /\ s.streams[id].defer = "FLOW"}

\* nghttp2_stream_resume_deferred_item for the streams R
Resume(s, R) ==
  [s EXCEPT !.streams = [id \in StreamId |->
     IF id \in R THEN [s.streams[id] EXCEPT !.defer = "NO"] ELSE s.streams[id]]]

\* nghttp2_session_on_settings_received without ACK.  An invalid entry ends the
\* processing (the entries before it keep their effect); a larger initial
\* window resumes the streams R.
OnSettings(s, v, invalid, R, noack) ==
  LET s1 == [s EXCEPT !.remote_max_concurrent =
                         IF v.mcs # -1 THEN v.mcs
                         ELSE IF s.remote_settings_received THEN @
                         ELSE DefaultMaxConcurrent,
                      !.remote_settings_received = TRUE]
      wrong == invalid \/ (~s.server /\ v.push = "on")
      s2 == [Resume(s1, R) EXCEPT !.remote_enable_push =
                         IF v.push = "keep" THEN @ ELSE v.push = "on"]
  IN IF wrong THEN ConnectionError(s1)
     ELSE IF noack THEN s2 ELSE AddAck(s2, "SETTINGS")

RecvSettings(v, invalid) ==
  /\ "SETTINGS" \in Frames /\ InFrame({"FIRST", "HEAD"})
  /\ invalid => "settings" \in Faults
  /\ \E R \in IF "window" \in Faults THEN SUBSET FlowDeferred(session) ELSE {{}} :
       session' = FrameDone(OnSettings(Inbound(Adjusted, "SETTINGS", 0, 0, FALSE),
                                       v, invalid, R, FALSE))

\* The first frame is not SETTINGS.
SettingsExpected ==
  /\ InFrame({"FIRST"}) /\ "settings" \in Faults
  /\ session' = ConnectionError(Adjusted)

\* nghttp2_session_update_local_settings with the oldest unacknowledged SETTINGS
RecvSettingsAck ==
  /\ MayRecv("SETTINGS_ACK")
  /\ LET s == Adjusted
         v == Head(s.inflight_settings)
     IN session' = FrameDone(
          IF s.inflight_settings = <<>> THEN ConnectionError(s)
          ELSE [s EXCEPT !.inflight_settings = Tail(@),
                  !.local_max_concurrent = IF v.mcs = -1 THEN @ ELSE v.mcs,
                  !.local_enable_push = IF v.push = "keep" THEN @ ELSE v.push = "on"])

RecvPing ==
  /\ MayRecv("PING")
  /\ session' = FrameDone(AddAck(Adjusted, "PING"))

\* session_on_connection_window_update_received
RecvConnectionWindowUpdate(overflow) ==
  /\ MayRecv("WINDOW_UPDATE")
  /\ overflow => "window_overflow" \in Faults
  /\ session' = FrameDone(IF overflow THEN ConnectionError(Adjusted)
                          ELSE [Adjusted EXCEPT !.window_open = TRUE])

\* session_on_stream_window_update_received; opens: the stream's window becomes
\* positive.
RecvStreamWindowUpdate(id, overflow, opens) ==
  /\ MayRecv("WINDOW_UPDATE")
  /\ overflow => "window_overflow" \in Faults
  /\ LET s == Adjusted
     IN session' = FrameDone(
          IF \/ DetectIdle(s, id)
             \/ StreamIn(s, id, {"RESERVED"}) /\ ~IsMine(s, id)
            THEN ConnectionError(s)
          ELSE IF ~Live(s, id) THEN s
          ELSE IF overflow THEN AddRst(s, id)
          ELSE IF opens /\ id \in FlowDeferred(s) THEN Resume(s, {id}) ELSE s)

\* A malformed frame of any type (wrong length, stream ID or padding).
RecvMalformed ==
  /\ MayRecv("MALFORMED")
  /\ session' = FrameDone(ConnectionError(Adjusted))

\* nghttp2_session_upgrade_internal: stream 1 of the HTTP/1.1 request.
Upgrade(v, invalid) ==
  /\ MayCall("upgrade") /\ (invalid => "settings" \in Faults)
  /\ IF session.server THEN session.last_recv_stream_id < 1
                       ELSE session.next_stream_id = 1 /\ ~invalid
  /\ session' =
       IF session.server
         THEN [OpenStream(OnSettings(session, v, invalid, {}, TRUE), 1, "OPENING", 0)
                 EXCEPT !.streams[1].rd = TRUE, !.last_recv_stream_id = 1,
                        !.last_proc_stream_id = 1]
         ELSE [OpenStream(Pended(session, v), 1, "OPENING", 0)
                 EXCEPT !.streams[1].wr = TRUE, !.last_sent_stream_id = 1,
                        !.next_stream_id = @ + 2]

-----------------------------------------------------------------------------
Api ==
  \/ \E dep \in Deps, data \in BOOLEAN : SubmitRequest(dep, data)
  \/ \E id \in StreamId, end, data \in BOOLEAN : SubmitHeaders(id, end, data)
  \/ \E id \in StreamId : SubmitData(id)
  \/ \E id \in StreamId : SubmitRstStream(id)
  \/ \E id \in StreamId : SubmitPushPromise(id)
  \/ \E id \in StreamId : ResumeData(id)
  \/ \E id \in StreamId : SetNextStreamId(id)
  \/ \E id \in StreamId, dep \in Deps : SubmitPriority(id, dep)
  \/ \E id \in StreamId, dep \in Deps : CreateIdleStream(id, dep)
  \/ \E id \in StreamId, dep \in Deps : ChangeStreamPriority(id, dep)
  \/ \E last \in 0..MaxStreamId : SubmitGoaway(last)
  \/ \E last \in 0..MaxStreamId : TerminateSession(last)
  \/ SubmitShutdownNotice
  \/ \E v \in LocalSettings : SubmitSettings(v)
  \/ SubmitPing
  \/ \E v \in PeerSettings, invalid \in BOOLEAN : Upgrade(v, invalid)

Send ==
  \/ \E cont \in BOOLEAN : SendControl(cont)
  \/ ControlNotSent
  \/ HeaderCompError
  \/ ControlCanceled
  \/ \E id \in StreamId : DataRefused(id)
  \/ \E id \in StreamId, why \in {"FLOW", "USER"} : DataDeferred(id, why)
  \/ \E id \in StreamId, temporal \in BOOLEAN : DataSourceFails(id, temporal)
  \/ \E id \in StreamId, eof, end, nc \in BOOLEAN : SendData(id, eof, end, nc)
  \/ FrameSent
  \/ FrameFinished
  \/ NoCopyStreamGone
  \/ NoCopySent
  \/ NoCopyFails

Recv ==
  \/ \E id \in 0..MaxStreamId, dep \in Deps, end, accepted \in BOOLEAN :
       RecvHeaders(id, dep, end, accepted)
  \/ \E id, pid \in 0..MaxStreamId, accepted \in BOOLEAN :
       RecvPushPromise(id, pid, accepted)
  \/ HeaderFieldFails
  \/ HeaderBlockError
  \/ ContinuationExpected
  \/ \E valid, terminate \in BOOLEAN : HeaderBlockEnd(valid, terminate)
  \/ \E id \in 0..MaxStreamId, end \in BOOLEAN : RecvData(id, end)
  \/ DataStreamGone
  \/ DataOverrunsConnection
  \/ DataOverrunsStream
  \/ DataInvalid
  \/ \E valid, terminate \in BOOLEAN : DataEnd(valid, terminate)
  \/ IgnoredDataEnd
  \/ \E id \in 0..MaxStreamId : RecvRstStream(id)
  \/ \E id \in 0..MaxStreamId, dep \in Deps : RecvPriority(id, dep)
  \/ \E last \in 0..MaxStreamId : RecvGoaway(last)
  \/ \E v \in PeerSettings, invalid \in BOOLEAN : RecvSettings(v, invalid)
  \/ SettingsExpected
  \/ RecvSettingsAck
  \/ RecvPing
  \/ \E overflow \in BOOLEAN : RecvConnectionWindowUpdate(overflow)
  \/ \E id \in StreamId, overflow, opens \in BOOLEAN :
       RecvStreamWindowUpdate(id, overflow, opens)
  \/ RecvMalformed

Next == Api \/ Send \/ Recv

Spec == Init /\ [][Next]_session

-----------------------------------------------------------------------------
(* Properties *)

\* Every field of the session keeps its C type.
TypeOK == session \in SessionType

\* The streams of each role, by the flags of the streams themselves.
LiveOutgoing(s) == {id \in StreamId : Live(s, id) /\ IsMine(s, id)
                                        /\ ~s.streams[id].push}
LiveIncoming(s) == {id \in StreamId : Live(s, id) /\ ~IsMine(s, id)
                                        /\ ~s.streams[id].push}
LiveReserved(s) == {id \in StreamId : Live(s, id) /\ ~IsMine(s, id)
                                        /\ s.streams[id].push}

\* num_outgoing_streams, num_incoming_streams and num_incoming_reserved_streams,
\* which decide whether a stream may be opened, are exactly the numbers of
\* streams of each role, whatever opened, promoted, reset or closed them.
CountersExact ==
  /\ session.num_outgoing_streams = Cardinality(LiveOutgoing(session))
  /\ session.num_incoming_streams = Cardinality(LiveIncoming(session))
  /\ session.num_incoming_reserved_streams = Cardinality(LiveReserved(session))

IsListOf(q, S) == Elements(q) = S /\ Len(q) = Cardinality(S)

\* The intrusive lists that adjust_closed_stream and adjust_idle_stream walk
\* hold each retained closed or idle stream exactly once and nothing else, so
\* that no list entry dangles and session_get_num_active_streams is exact.
ListsExact ==
  /\ IsListOf(session.closedq, {id \in StreamId : session.streams[id].closed})
  /\ IsListOf(session.idleq,
              {id \in StreamId : session.streams[id].state = "IDLE"})

\* The DATA items that something still points to.
Owned(s) == {<<id, s.streams[id].item>> : id \in {i \in StreamId : s.streams[i].item # 0}}
              \cup (IF s.aob.item.type = "DATA" THEN {<<s.aob.item.id, s.aob.item.addr>>}
                    ELSE {})

\* A DATA item is allocated iff its stream or aob points to it: no path frees
\* an item that is still in use, frees one twice, or leaks one.
ItemOwnership == session.heap = Owned(session)

\* The asserts of nghttp2_session_open_stream, session_prep_frame and
\* nghttp2_stream_attach_item never fail.
AssertionsHold == session.asserts

\* A stream for which on_stream_close_callback was called is never seen by the
\* application again: its ID is not reused.
NoReopen == \A id \in session.done : ~Live(session, id)

\* What every step of every session keeps true at once: the asserts of the
\* library hold, DATA items have one owner, and a stream that was reported
\* closed stays gone.
StateSafe ==
  /\ AssertionsHold
  /\ ItemOwnership
  /\ NoReopen

\* The counters and the lists of nghttp2_session say what the streams say.
BooksExact ==
  /\ CountersExact
  /\ ListsExact

\* Both at once: the state of a session is safe and its books are exact.
StateSound == StateSafe /\ BooksExact

\* Once a GOAWAY is out, no stream of the peer beyond the announced last stream
\* stays open (while a further GOAWAY is being written its smaller last stream
\* is already recorded); once one is in, no stream of ours that the peer has
\* been told of and refuses stays open.
GoawayHonoured ==
  \A id \in StreamId : Live(session, id) =>
    /\ ("SENT" \in session.goaway_flags /\ ~IsMine(session, id)
          /\ ~ (session.aob.item.type = "GOAWAY" /\ session.aob.stage = "SEND"))
         => id <= session.local_last_stream_id
    /\ ("RECV" \in session.goaway_flags /\ IsMine(session, id)
          /\ id <= session.last_sent_stream_id)
         => id <= session.remote_last_stream_id

\* On the wire a stream is HEADERS first, then DATA, and nothing after END_STREAM
\* or RST_STREAM, whatever the application submitted and in which order.
StreamFrameOrder ==
  [][LET it == session'.aob.item
     IN (it # session.aob.item /\ it.type \in {"HEADERS", "DATA"})
          => /\ session.wire[it.id] # "ENDED"
             /\ it.type = "DATA" => session.wire[it.id] = "BEGUN"]_session

RetentionLimit(s) == IF s.local_max_concurrent = DefaultMaxConcurrent
                       THEN s.pending_max_concurrent ELSE s.local_max_concurrent

\* A server keeps closed streams for the dependency tree.  Together with the
\* active incoming streams they never grow beyond the concurrency limit.
RetentionBounded ==
  [][LET Kept(s) == Len(s.closedq) + s.num_incoming_streams
     IN Kept(session') > Kept(session)
          => session'.closedq = <<>> \/ Kept(session') <= RetentionLimit(session')
    ]_session

IdleLimit(s) == Smaller(MaxIdle, Larger(MinIdle,
                  Smaller(s.local_max_concurrent, s.pending_max_concurrent)))


\* The flood counter is the number of queued ACKs and never exceeds its bound.
FloodBounded ==
  /\ session.obq_flood_counter = Cardinality({i \in 1..Len(session.ob_urgent) :
                                      session.ob_urgent[i].aux = "ACK"})
  /\ session.obq_flood_counter <= MaxFlood


\* The last stream ID of the GOAWAYs we send never increases.
GoawayNeverIncreases ==
  [][session'.local_last_stream_id <= session.local_last_stream_id]_session

\* While a RST_STREAM is queued for a stream, the stream is CLOSING, so no other
\* frame of it is sent and no further callback is called for it.
ResetStaysClosing ==
  \A i \in 1..Len(session.ob_reg) :
    LET it == session.ob_reg[i]
    IN it.type = "RST_STREAM" /\ Live(session, it.id)
         => session.streams[it.id].state = "CLOSING"

\* The application keeps calling nghttp2_session_send (or mem_send) while the
\* session wants to write.
FairSpec == Spec /\ WF_session(Send)

\* ob_urgent is served first: a peer that never stops sending SETTINGS or PING
\* while each ACK is being written keeps everything else waiting.
UrgentDrains == <>[](session.ob_urgent = <<>>)

\* A session that is terminated, by the application or by a connection error,
\* ends: it wants neither to read nor to write.
TerminationCompletes ==
  UrgentDrains => (("TERM_ON_SEND" \in session.goaway_flags)
                     ~> (~WantRead(session) /\ ~WantWrite(session)))

RstQueued(s, id) == \E i \in 1..Len(s.ob_reg) :
                      s.ob_reg[i].type = "RST_STREAM" /\ s.ob_reg[i].id = id

\* A stream for which a RST_STREAM is queued is closed, unless the whole session
\* is going down.
ResetCompletes ==
  UrgentDrains => \A id \in StreamId :
    RstQueued(session, id) ~> (~Live(session, id) \/ IsClosing(session))

\* After the session is terminated all incoming frames are ignored.
TerminatedIgnoresAll ==
  "TERM_ON_SEND" \in session.goaway_flags => session.iframe.state = "IGN_ALL"

=============================================================================
