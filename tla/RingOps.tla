------------------------------- MODULE RingOps ------------------------------
(***************************************************************************)
(* What one push does to the sequence of pop-able items of an SpscRing     *)
(* (include/llm/ring.h): a full ring, which holds capacity - 1 items,      *)
(* becomes empty because head meets tail.                                  *)
(***************************************************************************)
EXTENDS Sequences, Naturals

RingPush(capacity, queue, item) ==
  IF Len(queue) = capacity - 1 THEN <<>> ELSE Append(queue, item)
=============================================================================
