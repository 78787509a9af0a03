----------------------------- MODULE IoService -----------------------------
(***************************************************************************)
(* The event loop under the asio client and server (boost::asio, an        *)
(* external library modelled from how src/asio_*.cc use it).  One thread   *)
(* runs each io_service, so a completion handler runs to its end and the   *)
(* handlers that are ready run in the order in which they became ready.    *)
(*                                                                         *)
(* A connection is a record whose field q holds its ready handlers and     *)
(* whose field dl is its deadline timer: wait is "none", "pending" (an     *)
(* async_wait is outstanding) or "ready" (its handler is in q), and due    *)
(* says that the expiry time has passed.                                   *)
(***************************************************************************)
EXTENDS Naturals, Sequences

\* A handler becomes ready, or is posted.
Post(x, h) == [x EXCEPT !.q = Append(@, h)]

\* The handler at the head of the queue starts to run.
Ready(x, h) == x.q # <<>> /\ Head(x.q) = h

Popped(x) == [x EXCEPT !.q = Tail(@)]

\* deadline_.async_wait.
AsyncWait(x) == [x EXCEPT !.dl.wait = "pending"]

\* deadline_.cancel(): the handler of an outstanding wait becomes ready with
\* operation_aborted; one that is ready already stays ready.
CancelDeadline(x) ==
    IF x.dl.wait = "pending" THEN Post([x EXCEPT !.dl.wait = "ready"], "deadline") ELSE x

\* deadline_.expires_from_now: a new expiry time, and the outstanding wait is
\* cancelled.
ExpiresFromNow(x) == [CancelDeadline(x) EXCEPT !.dl.due = FALSE]

\* The expiry time passes.
Elapsed(x) ==
    IF x.dl.wait = "pending"
    THEN Post([x EXCEPT !.dl = [wait |-> "ready", due |-> TRUE]], "deadline")
    ELSE [x EXCEPT !.dl.due = TRUE]

\* Closing the socket makes the handlers of the outstanding read and write
\* ready, with an error.
CloseSocket(x) ==
    LET r == IF x.rd = "pending" THEN Post([x EXCEPT !.rd = "error"], "read") ELSE x IN
    IF r.wr = "pending" THEN Post([r EXCEPT !.wr = "error"], "write") ELSE r

=============================================================================
