------------------------------ MODULE ReadySet ------------------------------
(***************************************************************************)
(* What the dependency tree promises the session: of the streams that have *)
(* DATA ready it hands out one, and it hands out none only when there is   *)
(* none.                                                                   *)
(***************************************************************************)
CONSTANTS Streams, None

VARIABLES ready, picked

Init == ready = {} /\ picked = None

\* An item is attached, resumed, detached or deferred
Change(n) ==
  /\ ready' \in {ready \cup {n}, ready \ {n}}
  /\ UNCHANGED picked

\* The DATA of a ready stream is taken; the stream may be done with it
Take(n) ==
  /\ n \in ready
  /\ picked' = n
  /\ ready' \in {ready, ready \ {n}}

Nothing == ready = {} /\ picked' = None /\ UNCHANGED ready

Next == (\E n \in Streams : Change(n) \/ Take(n)) \/ Nothing

Spec == Init /\ [][Next]_<<ready, picked>>
=============================================================================
