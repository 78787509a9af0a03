----------------------------- MODULE Scheduler -----------------------------
(***************************************************************************)
(* The dependency tree of lib/nghttp2_stream.c and its priority queues     *)
(* (lib/nghttp2_pq.c), with the functions of lib/nghttp2_session.c that    *)
(* build and move it.  Every node keeps the pointers, the weights and the  *)
(* scheduling fields of nghttp2_stream; obq is the heap array.             *)
(*                                                                         *)
(* cycle is an unsigned integer modulo CycleMod.  Of seq, which only       *)
(* breaks ties inside one queue, the order is kept: a push renumbers the   *)
(* queue it pushes to.                                                     *)
(***************************************************************************)
EXTENDS Integers, Sequences, FiniteSets

CONSTANTS
  Scopes,        \* what a behaviour explores: its streams, the operations (ops),
                 \* the weights a priority may name (the largest is
                 \* NGHTTP2_MAX_WEIGHT, the least the default), the lengths of DATA
  MaxDistance,   \* NGHTTP2_MAX_CYCLE_DISTANCE
  CycleMod       \* 2^64: cycles are computed modulo this number

VARIABLES
  scope,   \* the scope of the behaviour, one of Scopes
  tree,    \* nghttp2_stream of every node, the root (0) included
  picked,  \* the stream whose DATA was taken last; NIL: none was ready
  flip     \* changes whenever the session asks for an item

vars == <<scope, tree, picked, flip>>

Streams == scope.streams
Weights == scope.weights
MaxWeight == CHOOSE w \in Weights : \A v \in Weights : v <= w      \* NGHTTP2_MAX_WEIGHT
DefaultWeight == CHOOSE w \in Weights : \A v \in Weights : w <= v  \* NGHTTP2_DEFAULT_WEIGHT
Lengths == scope.lengths
Ops == scope.ops
AllStreams == UNION {c.streams : c \in Scopes}

NIL == -1
Nodes == {0} \cup Streams
Links == {NIL} \cup Nodes

Node == [in_tree : BOOLEAN, idle : BOOLEAN, dep_prev : Links, dep_next : Links, sib_prev : Links,
         sib_next : Links, weight : 1..MaxWeight, sum_dep_weight : Nat,
         queued : BOOLEAN, cycle : 0..(CycleMod - 1), seq : Nat,
         pending_penalty : Nat, descendant_last_cycle : 0..(CycleMod - 1),
         last_writelen : Nat, item : BOOLEAN, deferred : BOOLEAN,
         obq : Seq(Streams)]

\* nghttp2_stream_init
NewNode == [in_tree |-> FALSE, idle |-> FALSE, dep_prev |-> NIL, dep_next |-> NIL,
            sib_prev |-> NIL, sib_next |-> NIL, weight |-> DefaultWeight,
            sum_dep_weight |-> 0, queued |-> FALSE, cycle |-> 0, seq |-> 0,
            pending_penalty |-> 0, descendant_last_cycle |-> 0,
            last_writelen |-> 0, item |-> FALSE, deferred |-> FALSE,
            obq |-> <<>>]

Init == /\ scope \in Scopes
        /\ tree = [[n \in Nodes |-> NewNode] EXCEPT ![0].in_tree = TRUE]
        /\ picked = NIL
        /\ flip = FALSE

-----------------------------------------------------------------------------
(* Priority queue: nghttp2_pq, a heap in an array (here 1-based) *)

\* stream_less
Less(t, a, b) ==
  IF t[a].cycle = t[b].cycle THEN t[a].seq < t[b].seq
  ELSE (t[b].cycle - t[a].cycle) % CycleMod <= MaxDistance

Swapped(q, i, j) == [q EXCEPT ![i] = q[j], ![j] = q[i]]

\* bubble_up
RECURSIVE BubbleUp(_, _, _)
BubbleUp(t, q, i) ==
  IF i = 1 \/ ~Less(t, q[i], q[i \div 2]) THEN q
  ELSE BubbleUp(t, Swapped(q, i, i \div 2), i \div 2)

\* bubble_down
RECURSIVE BubbleDown(_, _, _)
BubbleDown(t, q, i) ==
  LET smaller(m, j) == IF j <= Len(q) /\ Less(t, q[j], q[m]) THEN j ELSE m
      m == smaller(smaller(i, 2 * i), 2 * i + 1)
  IN IF m = i THEN q ELSE BubbleDown(t, Swapped(q, i, m), m)

\* nghttp2_pq_push
PqPush(t, q, n) == BubbleUp(t, Append(q, n), Len(q) + 1)

IndexOf(q, n) == CHOOSE i \in DOMAIN q : q[i] = n

Front(q) == SubSeq(q, 1, Len(q) - 1)

\* A removal that leaves the moved entry where it is
PqRemove_NoSift(t, q, n) ==
  LET i == IndexOf(q, n)
  IN Front([q EXCEPT ![i] = q[Len(q)]])

\* nghttp2_pq_remove, and nghttp2_pq_pop when the entry is the first one
PqRemove(t, q, n) ==
  LET i == IndexOf(q, n)
      moved == Front([q EXCEPT ![i] = q[Len(q)]])
  IN CASE i = Len(q) -> Front(q)
       [] i = 1 /\ Len(q) > 1 -> BubbleDown(t, moved, 1)
       [] OTHER -> IF Less(t, n, moved[i]) THEN BubbleDown(t, moved, i)
                   ELSE BubbleUp(t, moved, i)

-----------------------------------------------------------------------------
(* Scheduling *)

\* stream_active, stream_subtree_active
Active(t, n) == t[n].item /\ ~t[n].deferred
SubtreeActive(t, n) == Active(t, n) \/ t[n].obq # <<>>

\* stream_next_cycle
NextCycle(t, n, last) ==
  LET penalty == t[n].last_writelen * MaxWeight + t[n].pending_penalty
  IN [t EXCEPT ![n].cycle = (last + penalty \div t[n].weight) % CycleMod,
               ![n].pending_penalty = penalty % t[n].weight]

\* stream->seq = dep_stream->descendant_next_seq++
NextSeq(t, d, n) ==
  LET q == t[d].obq
      rank(m) == Cardinality({i \in DOMAIN q : t[q[i]].seq < t[m].seq})
  IN [m \in Nodes |->
        IF m = n THEN [t[m] EXCEPT !.seq = Len(q)]
        ELSE IF \E i \in DOMAIN q : q[i] = m THEN [t[m] EXCEPT !.seq = rank(m)]
        ELSE t[m]]

Scheduled(t, d, n) ==
  LET a == NextSeq(NextCycle(t, n, t[d].descendant_last_cycle), d, n)
  IN [a EXCEPT ![d].obq = PqPush(a, @, n)]

\* stream_obq_push
RECURSIVE ObqPush(_, _, _)
ObqPush(t, d, n) ==
  IF d = NIL \/ t[n].queued THEN t
  ELSE ObqPush([Scheduled(t, d, n) EXCEPT ![n].queued = TRUE], t[d].dep_prev, d)

\* A removal that stops at the parent
ObqRemove_OneLevel(t, n) ==
  LET d == t[n].dep_prev
  IN IF ~t[n].queued THEN t
     ELSE [t EXCEPT ![d].obq = PqRemove(t, @, n), ![n].queued = FALSE]

\* stream_obq_remove
RECURSIVE ObqRemove(_, _)
ObqRemove(t, n) ==
  LET d == t[n].dep_prev
      a == [t EXCEPT ![d].obq = PqRemove(t, @, n),
                     ![n] = [@ EXCEPT !.queued = FALSE, !.cycle = 0,
                                      !.pending_penalty = 0, !.last_writelen = 0,
                                      !.descendant_last_cycle = 0]]
  IN IF ~t[n].queued \/ d = NIL THEN t
     ELSE IF SubtreeActive(a, d) \/ a[d].dep_prev = NIL THEN a
     ELSE ObqRemove(a, d)

\* stream_obq_move
ObqMove(t, dest, src, n) ==
  IF ~t[n].queued THEN t
  ELSE ObqPush([t EXCEPT ![src].obq = PqRemove(t, @, n), ![n].queued = FALSE],
               dest, n)

\* A rescheduling that keeps the sequence number
RECURSIVE Reschedule_SameSeq(_, _)
Reschedule_SameSeq(t, n) ==
  LET d == t[n].dep_prev
      a == NextCycle([t EXCEPT ![d].obq = PqRemove(t, @, n)], n,
                     t[d].descendant_last_cycle)
  IN IF d = NIL THEN t
     ELSE Reschedule_SameSeq([a EXCEPT ![d].obq = PqPush(a, @, n)], d)

\* nghttp2_stream_reschedule
RECURSIVE Reschedule(_, _)
Reschedule(t, n) ==
  LET d == t[n].dep_prev
      a == Scheduled([t EXCEPT ![d].obq = PqRemove(t, @, n)], d, n)
  IN IF d = NIL THEN t
     ELSE Reschedule([a EXCEPT ![d].last_writelen = a[n].last_writelen], d)

\* nghttp2_stream_change_weight
ChangeWeight(t, n, w) ==
  LET d == t[n].dep_prev
      old == t[n].weight
      paid == t[n].last_writelen * MaxWeight
      a == [t EXCEPT ![n].weight = w, ![d].sum_dep_weight = @ + w - old]
      b == [a EXCEPT ![d].obq = PqRemove(a, @, n),
                     ![n].pending_penalty = (@ + old - (paid % old)) % old]
      last == (b[n].cycle - (paid + b[n].pending_penalty) \div old) % CycleMod
      c == NextCycle(b, n, last)
      base == c[d].descendant_last_cycle
      e == [c EXCEPT ![n].cycle =
              IF (base - @) % CycleMod <= MaxDistance THEN base ELSE @]
  IN IF w = old THEN t
     ELSE IF ~t[n].queued THEN a ELSE [e EXCEPT ![d].obq = PqPush(e, @, n)]

\* A deferred item is taken too
RECURSIVE NextStream_Deferred(_, _)
NextStream_Deferred(t, n) ==
  IF t[n].item THEN n
  ELSE IF t[n].obq = <<>> THEN NIL ELSE NextStream_Deferred(t, t[n].obq[1])

\* The way down of nghttp2_stream_next_outbound_item: NIL when nothing is ready
RECURSIVE NextStream(_, _)
NextStream(t, n) ==
  IF Active(t, n) THEN n
  ELSE IF t[n].obq = <<>> THEN NIL ELSE NextStream(t, t[n].obq[1])

\* ... and the way up, which brings descendant_last_cycle up to date
RECURSIVE UpdateLastCycle(_, _)
UpdateLastCycle(t, n) ==
  LET d == t[n].dep_prev
  IN IF d = NIL THEN t
     ELSE UpdateLastCycle([t EXCEPT ![d].descendant_last_cycle = t[n].cycle], d)

-----------------------------------------------------------------------------
(* The tree *)

\* A node and its following siblings
RECURSIVE Siblings(_, _)
Siblings(t, n) == IF n = NIL THEN <<>> ELSE <<n>> \o Siblings(t, t[n].sib_next)

Children(t, n) == Siblings(t, t[n].dep_next)

LastSib(t, n) == LET s == Siblings(t, n) IN s[Len(s)]

LinkDep(t, d, n) ==
  LET a == [t EXCEPT ![d].dep_next = n]
  IN IF n = NIL THEN a ELSE [a EXCEPT ![n].dep_prev = d]

LinkSib(t, a, b) ==
  LET s == [t EXCEPT ![a].sib_next = b]
  IN IF b = NIL THEN s ELSE [s EXCEPT ![b].sib_prev = a]

InsertLinkDep(t, d, n) == LinkDep(LinkSib(t, n, t[d].dep_next), d, n)

SetDepPrev(t, q, d) ==
  [m \in Nodes |-> IF \E i \in DOMAIN q : q[i] = m
                   THEN [t[m] EXCEPT !.dep_prev = d] ELSE t[m]]

\* The children of n take its place after prev_link (unlink_sib, unlink_dep)
Adopted(t, n) ==
  LET kids == Children(t, n)
      a == SetDepPrev(t, kids, t[n].dep_prev)
  IN IF t[n].sib_next = NIL THEN a
     ELSE LinkSib(a, kids[Len(kids)], t[n].sib_next)

UnlinkSib(t, n) ==
  IF t[n].dep_next # NIL THEN Adopted(LinkSib(t, t[n].sib_prev, t[n].dep_next), n)
  ELSE LinkSib(t, t[n].sib_prev, t[n].sib_next)

UnlinkDep(t, n) ==
  LET d == t[n].dep_prev
      next == t[n].sib_next
  IN CASE t[n].dep_next # NIL -> Adopted(LinkDep(t, d, t[n].dep_next), n)
       [] t[n].dep_next = NIL /\ next # NIL ->
            LinkDep([t EXCEPT ![next].sib_prev = NIL], d, next)
       [] OTHER -> [t EXCEPT ![d].dep_next = NIL]

Cleared(t, n) == [t EXCEPT ![n] = [@ EXCEPT !.dep_prev = NIL, !.sib_prev = NIL,
                                            !.sib_next = NIL]]

\* nghttp2_stream_dep_add
DepAdd(t, d, n) ==
  LET a == [t EXCEPT ![d].sum_dep_weight = @ + t[n].weight]
  IN IF t[d].dep_next = NIL THEN LinkDep(a, d, n) ELSE InsertLinkDep(a, d, n)

\* Each queued node of q moves from the queue of src to the one of dest
RECURSIVE MoveEach(_, _, _, _)
MoveEach(t, q, dest, src) ==
  IF q = <<>> THEN t
  ELSE MoveEach(ObqMove([t EXCEPT ![Head(q)].dep_prev = dest], dest, src, Head(q)),
                Tail(q), dest, src)

\* nghttp2_stream_dep_insert
DepInsert(t, d, n) ==
  LET kids == Children(t, d)
      a == [t EXCEPT ![n].sum_dep_weight = t[d].sum_dep_weight,
                     ![d].sum_dep_weight = t[n].weight]
      b == MoveEach(a, kids, n, d)
      c == IF SubtreeActive(b, n) THEN ObqPush(b, d, n) ELSE b
      e == IF kids # <<>> THEN [c EXCEPT ![n].dep_next = kids[1]] ELSE a
  IN LinkDep(e, d, n)

\* nghttp2_stream_dep_distributed_weight
DistributedWeight(t, n, w) ==
  LET share == (t[n].weight * w) \div t[n].sum_dep_weight
  IN IF share < 1 THEN 1 ELSE share

\* The loop of nghttp2_stream_dep_remove over the children
RECURSIVE Distribute(_, _, _)
Distribute(t, n, q) ==
  LET d == t[n].dep_prev
      c == Head(q)
      a == [t EXCEPT ![c].weight = DistributedWeight(t, n, @)]
      b == IF a[c].queued THEN ObqMove(a, d, n, c) ELSE a
  IN IF q = <<>> THEN t
     ELSE Distribute([b EXCEPT ![d].sum_dep_weight = @ + a[c].weight], n, Tail(q))

\* nghttp2_stream_dep_remove
DepRemove(t, n) ==
  LET d == t[n].dep_prev
      a == Distribute([t EXCEPT ![d].sum_dep_weight = @ - t[n].weight], n,
                      Children(t, n))
      b == IF a[n].queued THEN ObqRemove(a, n) ELSE a
      c == IF b[n].sib_prev # NIL THEN UnlinkSib(b, n) ELSE UnlinkDep(b, n)
  IN [Cleared(c, n) EXCEPT ![n].sum_dep_weight = 0, ![n].dep_next = NIL]

\* nghttp2_stream_dep_remove_subtree
DepRemoveSubtree(t, n) ==
  LET d == t[n].dep_prev
      next == t[n].sib_next
      a == IF t[n].sib_prev # NIL THEN LinkSib(t, t[n].sib_prev, next)
           ELSE IF next = NIL THEN LinkDep(t, d, NIL)
           ELSE [LinkDep(t, d, next) EXCEPT ![next].sib_prev = NIL]
      b == [a EXCEPT ![d].sum_dep_weight = @ - t[n].weight]
  IN Cleared(IF b[n].queued THEN ObqRemove(b, n) ELSE b, n)

\* nghttp2_stream_dep_add_subtree
DepAddSubtree(t, d, n) ==
  LET a == DepAdd(t, d, n)
  IN IF SubtreeActive(a, n) THEN ObqPush(a, d, n) ELSE a

\* nghttp2_stream_dep_insert_subtree
DepInsertSubtree(t, d, n) ==
  LET first == t[d].dep_next
      kids == Children(t, d)
      a == [t EXCEPT ![n].sum_dep_weight = @ + t[d].sum_dep_weight,
                     ![d].sum_dep_weight = t[n].weight]
      b == LinkDep(a, d, n)
      c == IF first = NIL THEN b
           ELSE MoveEach(IF t[n].dep_next # NIL
                         THEN LinkSib(b, LastSib(b, t[n].dep_next), first)
                         ELSE LinkDep(b, n, first), kids, n, d)
  IN IF SubtreeActive(c, n) THEN ObqPush(c, d, n) ELSE c

\* nghttp2_stream_dep_find_ancestor
RECURSIVE FindAncestor(_, _, _)
FindAncestor(t, n, target) ==
  n # NIL /\ (n = target \/ FindAncestor(t, t[n].dep_prev, target))

-----------------------------------------------------------------------------
(* nghttp2_session.c *)

InTree(t, n) == t[n].in_tree

\* nghttp2_session_open_stream puts a stream that is not in the tree into it
Placed(t, n, idle, d, w, exclusive) ==
  LET a == [t EXCEPT ![n].in_tree = TRUE, ![n].idle = idle, ![n].weight = w]
  IN IF exclusive THEN DepInsert(a, d, n) ELSE DepAdd(a, d, n)

\* The node that a priority names: a stream that is unknown and idle is made
Known(t, d, make) ==
  IF InTree(t, d) \/ ~make THEN t ELSE Placed(t, d, TRUE, 0, DefaultWeight, FALSE)

\* ... one that is unknown and not idle stands for the root, with default priority
OpenIn(t, n, idle, d, w, exclusive) ==
  IF InTree(t, d) THEN Placed(t, n, idle, d, w, exclusive)
  ELSE Placed(t, n, idle, 0, DefaultWeight, FALSE)

OpenStream(n, idle, d, w, exclusive, make) ==
  /\ "open" \in Ops
  /\ ~InTree(tree, n)
  /\ make => d # n /\ ~InTree(tree, d)
  /\ tree' = OpenIn(Known(tree, d, make), n, idle, d, w, exclusive)
  /\ UNCHANGED <<picked, flip>>

\* nghttp2_session_open_stream for an idle stream, which is in the tree already
OpenIdleStream(n, d, w, exclusive, make) ==
  /\ "open" \in Ops
  /\ tree[n].idle
  /\ make => ~InTree(tree, d)
  /\ LET t == [DepRemove(tree, n) EXCEPT ![n].in_tree = FALSE]
     IN tree' = OpenIn(Known(t, d, make), n, FALSE, d, w, exclusive)
  /\ UNCHANGED <<picked, flip>>

\* nghttp2_session_reprioritize_stream
Reprioritized(t, n, d, w, exclusive) ==
  LET a == IF d # 0 /\ FindAncestor(t, d, n)
           THEN DepAddSubtree(DepRemoveSubtree(t, d), t[n].dep_prev, d) ELSE t
      b == [DepRemoveSubtree(a, n) EXCEPT ![n].weight = w]
  IN IF d = a[n].dep_prev /\ ~exclusive THEN ChangeWeight(a, n, w)
     ELSE IF exclusive THEN DepInsertSubtree(b, d, n) ELSE DepAddSubtree(b, d, n)

ReprioritizeStream(n, d, w, exclusive, make) ==
  /\ "priority" \in Ops
  /\ InTree(tree, n) /\ d # n
  /\ make => ~InTree(tree, d)
  /\ LET t == Known(tree, d, make)
     IN tree' = IF InTree(t, d) THEN Reprioritized(t, n, d, w, exclusive)
                ELSE Reprioritized(t, n, 0, DefaultWeight, FALSE)
  /\ UNCHANGED <<picked, flip>>

\* nghttp2_stream_detach_item
Detached(t, n) ==
  LET a == [t EXCEPT ![n].item = FALSE, ![n].deferred = FALSE]
  IN IF a[n].obq = <<>> THEN ObqRemove(a, n) ELSE a

\* nghttp2_session_close_stream and nghttp2_session_destroy_stream
DestroyStream(n) ==
  /\ "destroy" \in Ops
  /\ InTree(tree, n)
  /\ LET t == IF tree[n].item THEN Detached(tree, n) ELSE tree
     IN tree' = [DepRemove(t, n) EXCEPT ![n] = NewNode]
  /\ UNCHANGED <<picked, flip>>

\* nghttp2_stream_attach_item
AttachItem(n) ==
  /\ InTree(tree, n) /\ ~tree[n].idle /\ ~tree[n].item
  /\ tree' = ObqPush([tree EXCEPT ![n].item = TRUE], tree[n].dep_prev, n)
  /\ UNCHANGED <<picked, flip>>

\* nghttp2_stream_resume_deferred_item
ResumeItem(n) ==
  /\ tree[n].item /\ tree[n].deferred
  /\ tree' = ObqPush([tree EXCEPT ![n].deferred = FALSE], tree[n].dep_prev, n)
  /\ UNCHANGED <<picked, flip>>

\* nghttp2_session_close_stream for a stream that stays in the tree
DetachItem(n) ==
  /\ "detach" \in Ops
  /\ tree[n].item
  /\ tree' = Detached(tree, n)
  /\ UNCHANGED <<picked, flip>>

\* An iteration of nghttp2_session_mem_send_internal takes the next item; the
\* DATA of len bytes is packed and the stream rescheduled ...
SendData(len, done) ==
  LET n == NextStream(tree, 0)
      t == UpdateLastCycle(tree, n)
      s == Reschedule([t EXCEPT ![n].last_writelen = len], n)
  IN /\ n # NIL
     /\ tree' = IF done THEN Detached(s, n) ELSE s
     /\ picked' = n

\* ... or the item is deferred (nghttp2_stream_defer_item)
DeferItem ==
  LET n == NextStream(tree, 0)
      t == [UpdateLastCycle(tree, n) EXCEPT ![n].deferred = TRUE]
  IN /\ "defer" \in Ops
     /\ n # NIL
     /\ tree' = IF t[n].obq = <<>> THEN ObqRemove(t, n) ELSE t
     /\ picked' = n

\* The scheduler has nothing to send
NothingToSend == NextStream(tree, 0) = NIL /\ picked' = NIL /\ UNCHANGED tree

Send == /\ "send" \in Ops
        /\ flip' = ~flip
        /\ \/ \E len \in Lengths, done \in BOOLEAN :
                (done => "done" \in Ops) /\ SendData(len, done)
           \/ DeferItem
           \/ NothingToSend

Priority ==
  \E n \in Streams, d \in Nodes, w \in Weights, exclusive \in BOOLEAN,
     make \in IF "idle" \in Ops THEN BOOLEAN ELSE {FALSE} :
    \/ \E idle \in IF "idle" \in Ops THEN BOOLEAN ELSE {FALSE} :
         OpenStream(n, idle, d, w, exclusive, make)
    \/ OpenIdleStream(n, d, w, exclusive, make)
    \/ ReprioritizeStream(n, d, w, exclusive, make)

Next ==
  /\ \/ Priority
     \/ \E n \in Streams : DestroyStream(n) \/ AttachItem(n) \/ ResumeItem(n)
                           \/ DetachItem(n)
     \/ Send
  /\ UNCHANGED scope

Spec == Init /\ [][Next]_vars

\* The application calls nghttp2_session_mem_send again and again (Send is always
\* enabled, so that this is its weak fairness)
FairSpec == Spec /\ []<><<flip' # flip>>_flip

-----------------------------------------------------------------------------
TypeOK == tree \in [Nodes -> Node] /\ picked \in Links /\ flip \in BOOLEAN

\* The pointers make one tree: following dep_prev from every stream leads to the
\* root, siblings are doubly linked and share their parent.
LinksConsistent ==
  /\ \A n \in Streams : InTree(tree, n) => FindAncestor(tree, n, 0)
  /\ \A n \in Nodes :
       LET kids == Children(tree, n) IN
       /\ \A i \in DOMAIN kids :
            /\ tree[kids[i]].dep_prev = n
            /\ tree[kids[i]].sib_prev = IF i = 1 THEN NIL ELSE kids[i - 1]
       /\ {kids[i] : i \in DOMAIN kids} = {m \in Streams : tree[m].dep_prev = n}

Below(n) == {m \in Streams : InTree(tree, m) /\ FindAncestor(tree, m, n)}

\* A stream is in the queue of its parent iff it or a stream below it has DATA to
\* send: what validate_tree checks when STREAM_DEP_DEBUG is defined.
QueuedExact ==
  \A n \in Streams :
    /\ tree[n].queued = \E m \in Below(n) : Active(tree, m)
    /\ \A d \in Nodes : (\E i \in DOMAIN tree[d].obq : tree[d].obq[i] = n)
                          <=> tree[n].queued /\ tree[n].dep_prev = d

RECURSIVE SumWeights(_)
SumWeights(q) == IF q = <<>> THEN 0 ELSE tree[Head(q)].weight + SumWeights(Tail(q))

\* sum_dep_weight, the divisor of nghttp2_stream_dep_distributed_weight, is the
\* sum of the children's weights after every insertion, move and redistribution.
WeightsExact ==
  \A n \in Nodes : tree[n].sum_dep_weight = SumWeights(Children(tree, n))

\* Opening, moving, re-weighting and closing streams leave one tree whose queues
\* and weights agree with it.
TreeConsistent == TypeOK /\ LinksConsistent /\ QueuedExact /\ WeightsExact

\* The cycles of two streams in one queue are at most MaxDistance apart, so that
\* stream_less is an order although cycles wrap around.
CyclesComparable ==
  \A d \in Nodes : \A i, j \in DOMAIN tree[d].obq :
    LET a == tree[tree[d].obq[i]].cycle
        b == tree[tree[d].obq[j]].cycle
    IN (a - b) % CycleMod <= MaxDistance \/ (b - a) % CycleMod <= MaxDistance

\* The heap yields a stream that no other stream of the queue precedes.
TopIsLeast ==
  \A d \in Nodes : LET q == tree[d].obq IN
    \A i \in DOMAIN q : i # 1 => Less(tree, q[1], q[i])

\* The queues stay ordered although cycles wrap around: stream_less compares
\* them, and nghttp2_pq_top is the least.
QueueOrdered == CyclesComparable /\ TopIsLeast

Ready == {n \in Streams : Active(tree, n)}

ReadySet == INSTANCE ReadySet WITH ready <- Ready, Streams <- AllStreams, None <- NIL

\* The tree implements a set of ready streams: moving streams, changing weights
\* and closing other streams never makes a stream ready or not, an item is taken
\* from a ready stream, and none is taken only when no stream is ready.
ImplementsReadySet == ReadySet!Spec

Shape == [n \in Nodes |-> <<tree[n].dep_prev, tree[n].weight, Active(tree, n)>>]

\* No stream starves: once the tree and the set of ready streams are settled, a
\* ready stream with no ready stream above it is picked again and again, whatever
\* the weights.
NoStarvation ==
  \A n \in AllStreams :
    (/\ <>[][UNCHANGED Shape]_vars
     /\ <>[](/\ n \in Ready
             /\ \A m \in Ready : m # n => ~FindAncestor(tree, n, m)))
      => []<>(picked = n)
=============================================================================
