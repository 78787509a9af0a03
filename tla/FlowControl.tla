---------------------------- MODULE FlowControl ----------------------------
(***************************************************************************)
(* Flow control between two nghttp2 sessions.  One of them sends DATA (the *)
(* functions on remote_window_size), the other one receives it (the        *)
(* functions on local_window_size, recv_window_size, recv_reduction and    *)
(* consumed_size), over one FIFO channel in each direction.  Window 0 is   *)
(* the connection's, the others are those of the streams.                  *)
(*                                                                         *)
(* The integers are those of C without a width; NoOverflow says that every *)
(* stored value fits into an int32_t whose largest value is MaxWindow.     *)
(***************************************************************************)
EXTENDS Integers, Sequences, FiniteSets, SequencesExt

CONSTANTS
  MaxWindow,     \* NGHTTP2_MAX_WINDOW_SIZE, also INT32_MAX
  Modes,         \* TRUE: automatic WINDOW_UPDATE; FALSE: the application consumes
  Scopes         \* what a behaviour explores: the fields below

VARIABLES
  scope,  \* the scope of the behaviour, one of Scopes
  snd,    \* the sending session
  rcv,    \* the receiving session
  fwd,    \* frames from the sender to the receiver
  back    \* frames from the receiver to the sender

vars == <<scope, snd, rcv, fwd, back>>

Streams == scope.streams         \* IDs of the streams, positive numbers
InitialWindow == scope.initial   \* the windows both sides start with
MaxFrame == scope.frame          \* the largest DATA payload
Body == scope.body               \* the bytes the application sends on each stream
Sizes == scope.sizes             \* SETTINGS_INITIAL_WINDOW_SIZE values that the receiver
MaxSettings == scope.settings    \* submits, and how often
Deltas == scope.deltas           \* increments for nghttp2_submit_window_update
LocalSizes == scope.local        \* sizes for nghttp2_session_set_local_window_size
MaxTweaks == scope.tweaks        \* how often the last two are called
MayReset == scope.reset          \* TRUE iff the receiver resets streams

Windows == {0} \cup Streams
MinWindow == -MaxWindow - 1
Smaller(a, b) == IF a < b THEN a ELSE b
Larger(a, b) == IF a > b THEN a ELSE b

\* The receiver's half of nghttp2_stream and nghttp2_session.
Window == [local : Int, recv : Int, reduction : Int, consumed : Int,
           queued : BOOLEAN]

NewWindow(size) == [local |-> size, recv |-> 0, reduction |-> 0,
                    consumed |-> 0, queued |-> FALSE]

Data(s, len, pad, end) == [type |-> "DATA", id |-> s, len |-> len, pad |-> pad,
                           end |-> end]
Msg(type, id, len) == [type |-> type, id |-> id, len |-> len, pad |-> 0,
                       end |-> FALSE]
NoFrame == Msg("NONE", 0, 0)

Init ==
  \E auto \in Modes :
    /\ scope \in Scopes
    /\ snd = [remote_window_size |-> [w \in Windows |-> InitialWindow],
              initial |-> InitialWindow,
              state |-> [s \in Streams |-> "idle"],
              left |-> [s \in Streams |-> Body],
              deferred |-> [s \in Streams |-> FALSE],
              aob |-> NoFrame, ob_urgent |-> 0, ob_reg |-> <<>>,
              error |-> FALSE]
    /\ rcv = [auto |-> auto,
              win |-> [w \in Windows |-> NewWindow(InitialWindow)],
              initial |-> InitialWindow, inflight_settings |-> <<>>,
              state |-> [s \in Streams |-> "idle"],
              unread |-> [s \in Streams |-> 0],
              ob_urgent |-> <<>>, ob_reg |-> <<>>,
              terminated |-> FALSE, settings |-> 0, tweaks |-> 0]
    /\ fwd = <<>>
    /\ back = <<>>

-----------------------------------------------------------------------------
(* The receiver *)

\* nghttp2_session_get_stream finds the stream
Live(e, s) == e.state[s] \in {"open", "shut", "closing"}

\* nghttp2_should_send_window_update
ShouldSendWindowUpdate(local, recv) == recv > 0 /\ recv >= local \div 2

\* nghttp2_session_add_window_update
AddWindowUpdate(r, w, inc) ==
  [r EXCEPT !.ob_reg = Append(@, Msg("WINDOW_UPDATE", w, inc)),
            !.win[w].queued = @ \/ w = 0 \/ Live(r, w)]

\* nghttp2_session_add_rst_stream
AddRst(r, s) == [r EXCEPT !.ob_reg = Append(@, Msg("RST_STREAM", s, 0)),
                          !.state[s] = IF Live(r, s) THEN "closing" ELSE @]

\* adjust_recv_window_size fails
Overruns(win, n) == win.recv > win.local - n \/ win.recv > MaxWindow - n

Returned(r, w) == LET a == AddWindowUpdate(r, w, r.win[w].recv)
                  IN [a EXCEPT !.win[w].recv = 0]

\* Bytes that cannot be given back yet are forgotten
AutoUpdate_Forgets(r, w) ==
  IF r.auto /\ ShouldSendWindowUpdate(r.win[w].local, r.win[w].recv)
  THEN IF r.win[w].queued THEN [r EXCEPT !.win[w].recv = 0] ELSE Returned(r, w)
  ELSE r

\* The WINDOW_UPDATE of session_update_recv_*_window_size and of
\* update_local_initial_window_size_func
AutoUpdate(r, w) ==
  IF r.auto /\ ~r.win[w].queued
     /\ ShouldSendWindowUpdate(r.win[w].local, r.win[w].recv)
  THEN Returned(r, w) ELSE r

\* session_update_recv_connection_window_size
UpdateRecvConnection(r, n) ==
  IF Overruns(r.win[0], n) THEN [r EXCEPT !.terminated = TRUE]
  ELSE AutoUpdate([r EXCEPT !.win[0].recv = @ + n], 0)

\* session_update_recv_stream_window_size
UpdateRecvStream(r, s, n, send) ==
  IF Overruns(r.win[s], n) THEN AddRst(r, s)
  ELSE LET a == [r EXCEPT !.win[s].recv = @ + n]
       IN IF send THEN AutoUpdate(a, s) ELSE a

\* session_update_consumed_size
UpdateConsumed(r, w, n) ==
  IF r.win[w].consumed > MaxWindow - n THEN [r EXCEPT !.terminated = TRUE]
  ELSE LET a == [r EXCEPT !.win[w].consumed = @ + n]
           size == Smaller(a.win[w].consumed, a.win[w].recv)
       IN IF ~a.win[w].queued /\ ShouldSendWindowUpdate(a.win[w].local, size)
          THEN [AddWindowUpdate(a, w, size) EXCEPT !.win[w].recv = @ - size,
                                                   !.win[w].consumed = @ - size]
          ELSE a

\* nghttp2_session_consume
Consume(r, s, n) ==
  IF r.auto THEN r
  ELSE LET a == UpdateConsumed(r, 0, n)
       IN IF Live(a, s) THEN UpdateConsumed(a, s, n) ELSE a

\* nghttp2_adjust_local_window_size, and what nghttp2_submit_window_update does
\* with the rest of the increment
AdjustLocalWindow(r, w, inc) ==
  LET win == r.win[w]
      grown == Larger(0, win.recv) - inc
      delta == -grown
      paid == Smaller(win.reduction, delta)
      send(a, n) == IF n > 0
                    THEN [AddWindowUpdate(a, w, n) EXCEPT
                            !.win[w].consumed = Larger(0, @ - n)]
                    ELSE a
  IN CASE inc > 0 /\ grown >= 0 -> send([r EXCEPT !.win[w].recv = grown], inc)
       [] inc > 0 /\ grown < 0 /\ win.local > MaxWindow - delta -> r
       [] inc > 0 /\ grown < 0 /\ win.local <= MaxWindow - delta ->
            send([r EXCEPT !.win[w].local = @ + delta,
                           !.win[w].reduction = @ - paid,
                           !.win[w].recv = IF @ < 0 THEN @ + paid ELSE paid],
                 inc - paid)
       [] inc <= 0 /\ (\/ win.local + inc < 0
                       \/ win.recv < MinWindow - inc
                       \/ win.reduction > MaxWindow + inc) -> r
       [] OTHER -> [r EXCEPT !.win[w].local = @ + inc,
                             !.win[w].recv = @ + inc,
                             !.win[w].reduction = @ - inc]

\* nghttp2_increase_local_window_size
IncreaseLocalWindow(r, w, delta) ==
  LET win == r.win[w]
      paid == Smaller(win.reduction, delta)
      a == [r EXCEPT !.win[w].local = @ + delta,
                     !.win[w].reduction = @ - paid,
                     !.win[w].recv = @ + paid]
  IN CASE win.local > MaxWindow - delta -> r
       [] win.local <= MaxWindow - delta /\ delta > paid ->
            AddWindowUpdate(a, w, delta - paid)
       [] OTHER -> a

\* nghttp2_session_set_local_window_size
SetLocalWindow(r, w, size) ==
  LET inc == size - r.win[w].local
  IN CASE inc = 0 -> r
       [] inc < 0 -> AdjustLocalWindow(r, w, inc)
       [] OTHER -> IncreaseLocalWindow(r, w, inc)

\* update_initial_window_size fails
InitialOverflows(size, new, old) == size + new - old < MinWindow
                                    \/ size + new - old > MaxWindow

\* update_local_initial_window_size_func, for one stream
UpdateLocalInitial(r, s, new) ==
  IF InitialOverflows(r.win[s].local, new, r.initial) THEN AddRst(r, s)
  ELSE AutoUpdate([r EXCEPT !.win[s].local = @ + new - r.initial], s)

\* session_update_local_initial_window_size and the rest of
\* nghttp2_session_update_local_settings.  order: that of the hash map.
UpdateLocalSettings(r, new, order) ==
  LET live == SelectSeq(order, LAMBDA s : Live(r, s))
      a == FoldLeft(LAMBDA acc, s : UpdateLocalInitial(acc, s, new), r, live)
  IN [a EXCEPT !.initial = new, !.inflight_settings = Tail(@)]

Orders == {o \in [1..Cardinality(Streams) -> Streams] : Range(o) = Streams}

MayCall == ~rcv.terminated

\* nghttp2_submit_settings with SETTINGS_INITIAL_WINDOW_SIZE
SubmitSettings(new) ==
  /\ MayCall
  /\ rcv.settings < MaxSettings
  /\ rcv' = [rcv EXCEPT !.ob_urgent = Append(@, Msg("SETTINGS", 0, new)),
                        !.inflight_settings = Append(@, new),
                        !.settings = @ + 1]
  /\ UNCHANGED <<snd, fwd, back>>

MayTweak(w) ==
  /\ MayCall
  /\ rcv.tweaks < MaxTweaks
  /\ w \in Streams => Live(rcv, w)

Tweaked(r) == [r EXCEPT !.tweaks = @ + 1]

\* nghttp2_submit_window_update
SubmitWindowUpdate(w, inc) ==
  /\ MayTweak(w)
  /\ inc # 0
  /\ rcv' = Tweaked(AdjustLocalWindow(rcv, w, inc))
  /\ UNCHANGED <<snd, fwd, back>>

\* nghttp2_session_set_local_window_size
SetLocalWindowSize(w, size) ==
  /\ MayTweak(w)
  /\ rcv' = Tweaked(SetLocalWindow(rcv, w, size))
  /\ UNCHANGED <<snd, fwd, back>>

\* nghttp2_submit_rst_stream by the receiving application
SubmitRst(s) ==
  /\ MayCall
  /\ MayReset
  /\ rcv.state[s] \in {"open", "shut"}
  /\ rcv' = AddRst(rcv, s)
  /\ UNCHANGED <<snd, fwd, back>>

\* The application is done with n of the bytes it was given: nghttp2_session_consume
AppConsumes(s, n) ==
  /\ MayCall
  /\ ~rcv.auto
  /\ n \in 1..rcv.unread[s]
  /\ rcv' = [Consume(rcv, s, n) EXCEPT !.unread[s] = @ - n]
  /\ UNCHANGED <<snd, fwd, back>>

\* session_predicate_window_update_send and session_after_frame_sent1 for
\* WINDOW_UPDATE
AfterWindowUpdate(r, w) ==
  LET a == [r EXCEPT !.win[w].queued = FALSE]
  IN CASE w \in Streams /\ ~Live(r, w) -> r
       [] w \in Streams /\ r.state[w] = "shut" -> a
       [] a.auto -> AutoUpdate(a, w)
       [] OTHER -> UpdateConsumed(a, w, 0)

\* One frame goes out: SETTINGS from ob_urgent first, then ob_reg in order.
ReceiverSends ==
  /\ ~rcv.terminated
  /\ UNCHANGED <<snd, fwd>>
  /\ \/ /\ rcv.ob_urgent # <<>>
        /\ back' = Append(back, Head(rcv.ob_urgent))
        /\ rcv' = [rcv EXCEPT !.ob_urgent = Tail(@)]
     \/ /\ rcv.ob_urgent = <<>> /\ rcv.ob_reg # <<>>
        /\ LET m == Head(rcv.ob_reg)
               r == [rcv EXCEPT !.ob_reg = Tail(@)]
               dropped == m.type = "WINDOW_UPDATE" /\ m.id # 0
                          /\ (~Live(rcv, m.id) \/ rcv.state[m.id] = "closing")
           IN \/ /\ dropped
                 /\ rcv' = r /\ UNCHANGED back
              \/ /\ m.type = "WINDOW_UPDATE" /\ ~dropped
                 /\ rcv' = AfterWindowUpdate(r, m.id)
                 /\ back' = Append(back, m)
              \/ /\ m.type = "RST_STREAM"
                 /\ rcv' = [r EXCEPT !.state[m.id] = "closed"]
                 /\ back' = Append(back, m)

\* Ignored bytes are not consumed
IgnoreData_Forgotten(r, m) == UpdateRecvConnection(r, m.len)

\* DATA whose stream is closed or being reset: NGHTTP2_IB_IGN_DATA
IgnoreData(r, m) ==
  LET a == UpdateRecvConnection(r, m.len)
  IN IF a.terminated \/ a.auto THEN a ELSE UpdateConsumed(a, 0, m.len)

\* NGHTTP2_IB_READ_DATA: the whole payload in one call
ReadData(r, m) ==
  LET a == UpdateRecvConnection(r, m.len)
      b == UpdateRecvStream(a, m.id, m.len, ~m.end)
      c == IF m.pad > 0 THEN Consume(b, m.id, m.pad) ELSE b
      d == [c EXCEPT !.unread[m.id] = IF c.auto THEN @ ELSE @ + m.len - m.pad]
  IN IF m.len = 0 THEN r
     ELSE IF a.terminated THEN a ELSE IF c.terminated THEN c ELSE d

\* One frame is received
ReceiverReceives(order) ==
  /\ ~rcv.terminated
  /\ fwd # <<>>
  /\ fwd' = Tail(fwd)
  /\ UNCHANGED <<snd, back>>
  /\ LET m == Head(fwd)
         read == ReadData(rcv, m)
     IN \/ /\ m.type = "HEADERS"
           /\ rcv' = [rcv EXCEPT !.state[m.id] = "open",
                                 !.win[m.id] = NewWindow(rcv.initial)]
        \/ /\ m.type = "DATA" /\ rcv.state[m.id] # "open"
           /\ rcv' = IgnoreData(rcv, m)
        \/ /\ m.type = "DATA" /\ rcv.state[m.id] = "open"
           /\ rcv' = [read EXCEPT !.state[m.id] =
                        IF m.end /\ @ = "open" THEN "shut" ELSE @]
        \/ /\ m.type = "RST_STREAM"
           /\ rcv' = [rcv EXCEPT !.state[m.id] = "closed"]
        \/ /\ m.type = "ACK"
           /\ rcv' = UpdateLocalSettings(rcv, Head(rcv.inflight_settings), order)

-----------------------------------------------------------------------------
(* The sender *)

\* nghttp2_session_open_stream, when the HEADERS are prepared; what is in
\* ob_urgent goes out before them
SenderOpens(s) ==
  /\ ~snd.error
  /\ snd.state[s] = "idle" /\ snd.aob = NoFrame /\ snd.ob_urgent = 0
  /\ snd' = [snd EXCEPT !.state[s] = "open",
                        !.remote_window_size[s] = snd.initial]
  /\ fwd' = Append(fwd, Msg("HEADERS", s, 0))
  /\ UNCHANGED <<rcv, back>>

\* nghttp2_session_next_data_read
NextDataRead(s) == Smaller(Smaller(snd.remote_window_size[s],
                                   snd.remote_window_size[0]), MaxFrame)

\* The scheduler offers the DATA of stream s: nghttp2_session_mem_send_internal
\* asks it only while the connection window is open and nothing else is queued.
MayPack(s) ==
  /\ ~snd.error
  /\ snd.aob = NoFrame /\ snd.ob_urgent = 0 /\ snd.ob_reg = <<>>
  /\ snd.remote_window_size[0] > 0
  /\ snd.state[s] = "open" /\ ~snd.deferred[s] /\ snd.left[s] > 0

\* NGHTTP2_ERR_DEFERRED of session_prep_frame: the stream's window is closed
DeferData(s) ==
  /\ MayPack(s)
  /\ NextDataRead(s) <= 0
  /\ snd' = [snd EXCEPT !.deferred[s] = TRUE]
  /\ UNCHANGED <<rcv, fwd, back>>

\* nghttp2_session_pack_data: n bytes of payload, pad bytes of padding
PackData(s, n, pad) ==
  /\ MayPack(s)
  /\ n \in 1..NextDataRead(s)
  /\ n <= snd.left[s]
  /\ n + pad <= NextDataRead(s)
  /\ snd' = [snd EXCEPT !.aob = Data(s, n + pad, pad, n = snd.left[s]),
                        !.left[s] = @ - n]
  /\ UNCHANGED <<rcv, fwd, back>>

\* The packed DATA frame is written: session_after_frame_sent1
DataSent ==
  /\ snd.aob # NoFrame
  /\ LET m == snd.aob
     IN snd' = [snd EXCEPT !.aob = NoFrame,
                           !.remote_window_size[0] = @ - m.len,
                           !.remote_window_size[m.id] =
                              IF Live(snd, m.id) THEN @ - m.len ELSE @]
  /\ fwd' = Append(fwd, snd.aob)
  /\ UNCHANGED <<rcv, back>>

\* Another frame is written: an ACK of SETTINGS, or RST_STREAM
SenderSends ==
  /\ ~snd.error
  /\ snd.aob = NoFrame
  /\ UNCHANGED <<rcv, back>>
  /\ \/ /\ snd.ob_urgent > 0
        /\ snd' = [snd EXCEPT !.ob_urgent = @ - 1]
        /\ fwd' = Append(fwd, Msg("ACK", 0, 0))
     \/ /\ snd.ob_urgent = 0 /\ snd.ob_reg # <<>>
        /\ snd' = [snd EXCEPT !.ob_reg = Tail(@),
                              !.state[Head(snd.ob_reg).id] = "closed"]
        /\ fwd' = Append(fwd, Head(snd.ob_reg))

\* nghttp2_stream_resume_deferred_item
Resumed(e, s) == [e EXCEPT !.deferred[s] = @ /\ e.remote_window_size[s] <= 0]

\* update_remote_initial_window_size_func, for one stream
UpdateRemoteInitial(e, s, new) ==
  IF InitialOverflows(e.remote_window_size[s], new, e.initial) THEN AddRst(e, s)
  ELSE Resumed([e EXCEPT !.remote_window_size[s] = @ + new - e.initial], s)

\* nghttp2_session_on_settings_received: the new initial window, and an ACK
OnSettings(e, new, order) ==
  LET live == SelectSeq(order, LAMBDA s : Live(e, s))
      a == FoldLeft(LAMBDA acc, s : UpdateRemoteInitial(acc, s, new), e, live)
  IN [a EXCEPT !.initial = new, !.ob_urgent = @ + 1]

\* session_on_connection_window_update_received and
\* session_on_stream_window_update_received
OnWindowUpdate(e, w, inc) ==
  CASE w # 0 /\ ~Live(e, w) -> e
    [] w # 0 /\ Live(e, w) /\ MaxWindow - inc < e.remote_window_size[w] -> AddRst(e, w)
    [] w = 0 /\ MaxWindow - inc < e.remote_window_size[0] ->
         [e EXCEPT !.error = TRUE]
    [] w = 0 /\ MaxWindow - inc >= e.remote_window_size[0] ->
         [e EXCEPT !.remote_window_size[0] = @ + inc]
    [] OTHER -> Resumed([e EXCEPT !.remote_window_size[w] = @ + inc], w)

SenderReceives(order) ==
  /\ ~snd.error
  /\ back # <<>>
  /\ back' = Tail(back)
  /\ UNCHANGED <<rcv, fwd>>
  /\ LET m == Head(back)
     IN \/ /\ m.type = "SETTINGS"
           /\ snd' = OnSettings(snd, m.len, order)
        \/ /\ m.type = "WINDOW_UPDATE"
           /\ snd' = OnWindowUpdate(snd, m.id, m.len)
        \/ /\ m.type = "RST_STREAM"
           /\ snd' = [snd EXCEPT !.state[m.id] = "closed"]

-----------------------------------------------------------------------------
Application ==
  \/ \E new \in Sizes : SubmitSettings(new)
  \/ \E w \in Windows, inc \in Deltas : SubmitWindowUpdate(w, inc)
  \/ \E w \in Windows, size \in LocalSizes : SetLocalWindowSize(w, size)
  \/ \E s \in Streams : SubmitRst(s)

Receiver ==
  \/ ReceiverSends
  \/ \E order \in Orders : ReceiverReceives(order)
  \/ \E s \in Streams, n \in 1..Body : AppConsumes(s, n)

Sender ==
  \/ \E s \in Streams : SenderOpens(s) \/ DeferData(s)
  \/ \E s \in Streams, n \in 1..MaxFrame, pad \in 0..1 : PackData(s, n, pad)
  \/ DataSent
  \/ SenderSends
  \/ \E order \in Orders : SenderReceives(order)

Next == (Application \/ Receiver \/ Sender) /\ UNCHANGED scope

Spec == Init /\ [][Next]_vars

FairSpec == /\ Spec
            /\ WF_vars(Receiver /\ UNCHANGED scope)
            /\ WF_vars(Sender /\ UNCHANGED scope)

-----------------------------------------------------------------------------
SumOf(q, type, w) ==
  FoldLeft(LAMBDA n, m : IF m.type = type /\ (w = 0 \/ m.id = w) THEN n + m.len
                         ELSE n, 0, q)

CreditOf(q, w) ==
  FoldLeft(LAMBDA n, m : IF m.type = "WINDOW_UPDATE" /\ m.id = w THEN n + m.len
                         ELSE n, 0, q)

\* Bytes that left the sender's window and are not in the receiver's account yet
Flying(w) == SumOf(fwd, "DATA", w)

\* Credit that the receiver gave and that the sender does not know of yet
Granted(w) == CreditOf(rcv.ob_reg, w) + CreditOf(back, w)

Shared(w) == w = 0 \/ (snd.state[w] = "open" /\ rcv.state[w] \in {"open", "shut"})

TypeOK ==
  /\ snd.remote_window_size \in [Windows -> Int] /\ snd.initial \in 0..MaxWindow
  /\ snd.state \in [Streams -> {"idle", "open", "closing", "closed"}]
  /\ snd.left \in [Streams -> 0..Body]
  /\ snd.deferred \in [Streams -> BOOLEAN]
  /\ rcv.win \in [Windows -> Window] /\ rcv.initial \in 0..MaxWindow
  /\ rcv.state \in [Streams -> {"idle", "open", "shut", "closing", "closed"}]

\* Credit is neither lost nor made: what the sender may still send, what is on
\* its way, what was given back and what the receiver has not given back yet
\* make up the receiver's window, whatever the interleaving of DATA,
\* WINDOW_UPDATE, SETTINGS and its ACK, and calls that change the window.
Conservation ==
  ~snd.error /\ ~rcv.terminated =>
    \A w \in Windows : Shared(w) =>
      snd.remote_window_size[w] + Flying(w) + Granted(w) + rcv.win[w].recv
        = rcv.win[w].local + IF w = 0 THEN 0 ELSE snd.initial - rcv.initial

\* Two nghttp2 sessions never accuse each other of a flow control error.
NoFlowControlError ==
  /\ ~rcv.terminated
  /\ ~snd.error

\* Every window, and what is kept beside it, fits into int32_t.
NoOverflow ==
  /\ \A w \in Windows : snd.remote_window_size[w] \in MinWindow..MaxWindow
  /\ \A w \in Windows : LET win == rcv.win[w] IN
       /\ win.local \in MinWindow..MaxWindow
       /\ win.recv \in MinWindow..MaxWindow
       /\ win.reduction \in 0..MaxWindow
       /\ win.consumed \in 0..MaxWindow

\* Neither endpoint ever ends the connection over flow control, and no window
\* leaves int32_t.
WindowsLegal == TypeOK /\ NoFlowControlError /\ NoOverflow

AllSent == \A s \in Streams : snd.state[s] = "closed" \/ snd.left[s] = 0
WindowsOpen == \A w \in Windows : rcv.win[w].local > 0

\* Two cases in which the code looks at the received bytes again only when more
\* of them arrive: the ACK of a lower initial window without automatic
\* WINDOW_UPDATE, and a window that the application lowers and raises again.
LooksAgain ==
  /\ rcv.auto \/ rcv.settings = 0
  /\ \A w \in Windows : rcv.win[w].reduction = 0

\* If in the end the windows are open and the application consumes what it gets,
\* everything is sent: no WINDOW_UPDATE is held back for ever, and a stream
\* deferred by flow control is resumed.
Progress == <>[]WindowsOpen /\ []LooksAgain => <>AllSent
=============================================================================
