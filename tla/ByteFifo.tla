------------------------------ MODULE ByteFifo ------------------------------
(***************************************************************************)
(* What a forwarding buffer promises: a bounded first-in first-out byte    *)
(* queue. Put is a recv() that landed, Take is a send() that was accepted. *)
(***************************************************************************)
EXTENDS Integers, Sequences

CONSTANTS Byte, Capacity

VARIABLE contents

Init == contents = << >>

Put ==
  \E n \in 1 .. Capacity - Len(contents) :
    \E bytes \in [1 .. n -> Byte] : contents' = contents \o bytes

Take ==
  \E n \in 1 .. Len(contents) :
    contents' = SubSeq(contents, n + 1, Len(contents))

Next == Put \/ Take

Spec == Init /\ [][Next]_contents

=============================================================================
