------------------------------ MODULE FrameQueue ----------------------------
(***************************************************************************)
(* What the ring is to its two threads: a queue of whole frames, popped in *)
(* the order of the pushes, that a push onto a full queue empties, and     *)
(* what its header says it is, a queue that drops its oldest frame then.   *)
(* Either promise ends when such a push overlaps a pop.                    *)
(***************************************************************************)
EXTENDS RingOps

CONSTANTS
  Capacity,      \* of the ring
  FrameOf(_)     \* the n-th frame pushed

VARIABLES
  queue,         \* the pop-able frames
  count,         \* pushes so far
  broken         \* an overrun overlapped a pop

Init == queue = <<>> /\ count = 0 /\ broken = FALSE

Push ==
  /\ ~broken'
  /\ count' = count + 1
  /\ queue' = RingPush(Capacity, queue, FrameOf(count + 1))

Pop ==
  /\ ~broken'
  /\ queue # <<>>
  /\ queue' = Tail(queue)
  /\ count' = count

Break == broken'

Next == Push \/ Pop \/ Break

Spec == Init /\ [][Next]_<<queue, count, broken>>

-----------------------------------------------------------------------------
(* The queue that the header describes: a push onto a full queue loses the *)
(* oldest frame only.                                                      *)

DropOldestPush ==
  /\ ~broken'
  /\ count' = count + 1
  /\ queue' = Append(IF Len(queue) = Capacity - 1 THEN Tail(queue) ELSE queue,
                     FrameOf(count + 1))

DropOldestSpec ==
  Init /\ [][DropOldestPush \/ Pop \/ Break]_<<queue, count, broken>>
=============================================================================
