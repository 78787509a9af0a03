----------------------------- MODULE MCSession -----------------------------
(* Instances of Session for TLC. *)
EXTENDS Session

KeepAll == [mcs |-> -1, push |-> "keep"]
Mcs(n) == [mcs |-> n, push |-> "keep"]

\* SETTINGS submitted or received in the instances
NoEntries == {KeepAll}
LowerMcs == {Mcs(0), Mcs(1)}

\* Dependencies: the root only, or also a stream ID of each side
RootOnly == {0}
OddAndEven == {0, 2, 3}
=============================================================================
