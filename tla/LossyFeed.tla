----------------------------- MODULE LossyFeed -----------------------------
(***************************************************************************)
(* What a feed of measurements promises its viewers: each sees some of the *)
(* published samples, in the order of publication and none twice.  Samples *)
(* may be skipped.                                                         *)
(***************************************************************************)
EXTENDS Naturals

CONSTANT Viewers

VARIABLES published, \* how many samples there have been: they are numbered
          shown      \* the last sample each viewer saw, 0 for none

Init == published = 0 /\ shown = [v \in Viewers |-> 0]

Publish == published' = published + 1 /\ UNCHANGED shown

Show(v) ==
  /\ \E n \in (shown[v] + 1)..published : shown' = [shown EXCEPT ![v] = n]
  /\ UNCHANGED published

\* A viewer goes, and another may take its place.
Close(v) == shown' = [shown EXCEPT ![v] = 0] /\ UNCHANGED published

Next == Publish \/ \E v \in Viewers : Show(v) \/ Close(v)

Spec == Init /\ [][Next]_<<published, shown>>
=============================================================================
