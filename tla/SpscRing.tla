------------------------------ MODULE SpscRing ------------------------------
(***************************************************************************)
(* The single-producer / single-consumer ring of include/llm/ring.h that   *)
(* carries ticks and broker quotes between the reader threads and the      *)
(* strategy thread.                                                        *)
(*                                                                         *)
(* The payload T is a trivially copyable struct of several machine words,  *)
(* so  slots_[head] = item  and  out = slots_[tail]  are sequences of word *)
(* copies in an order the compiler chooses; every word copy is a step.     *)
(* The words of the n-th pushed frame all hold n, so a frame whose words   *)
(* differ was torn.  0 is the content of a slot that was never written.    *)
(***************************************************************************)
EXTENDS Integers

CONSTANTS
  Capacity,  \* template parameter Capacity (8192 in the engine)
  Words,     \* the machine words of one payload T
  MaxPush    \* bound: how many frames the producer pushes

ASSUME CapacityAssumption == Capacity \in Nat /\ Capacity >= 2
ASSUME MaxPushAssumption == MaxPush \in Nat

VARIABLES
  head,     \* head_, written by the producer only
  tail,     \* tail_, written by the consumer only
  slots,    \* slots_[i][w]
  writer,   \* producer: "idle", or "copy" while inside push()
  towrite,  \* words of the frame that push() has still to copy
  dropped,  \* push()'s local: the ring was full before the write
  reader,   \* consumer: "idle", or "copy" while inside pop()
  toread,   \* words pop() has still to copy
  out,      \* pop()'s destination
  pushed,   \* history: frames published so far
  popped,   \* history: pops that returned true
  last,     \* history: the frame delivered by the latest pop
  lapped,   \* history: some push published onto a full ring
  raced     \* history: some push did so while a pop was in progress

ringVars == <<head, tail, slots, writer, towrite, dropped, reader, toread, out,
              pushed, popped, last, lapped, raced>>

Slots == 0 .. Capacity - 1

\* (i + 1) & kMask
Advance(i) == IF i + 1 = Capacity THEN 0 ELSE i + 1

\* size(): the number of pop-able frames, (head - tail) & kMask
Size == IF head >= tail THEN head - tail ELSE head - tail + Capacity

Frame(n) == [w \in Words |-> n]

RingInit ==
  /\ head = 0 /\ tail = 0
  /\ slots = [i \in Slots |-> Frame(0)]
  /\ writer = "idle" /\ towrite = {} /\ dropped = FALSE
  /\ reader = "idle" /\ toread = {} /\ out = Frame(0)
  /\ pushed = 0 /\ popped = 0 /\ last = Frame(0)
  /\ lapped = FALSE /\ raced = FALSE

-----------------------------------------------------------------------------
(* push(): load the indices, copy the payload, publish the new head.       *)

PushBegin ==
  /\ writer = "idle"
  /\ pushed < MaxPush
  /\ dropped' = (Advance(head) = tail)
  /\ writer' = "copy"
  /\ towrite' = Words
  /\ UNCHANGED <<head, tail, slots, reader, toread, out,
                 pushed, popped, last, lapped, raced>>

PushWord(w) ==
  /\ writer = "copy"
  /\ w \in towrite
  /\ slots' = [slots EXCEPT ![head][w] = pushed + 1]
  /\ towrite' = towrite \ {w}
  /\ UNCHANGED <<head, tail, writer, dropped, reader, toread, out,
                 pushed, popped, last, lapped, raced>>

\* Mutant: the release store is moved before the payload copy.
PushPublishEarly ==
  /\ writer = "copy"
  /\ head' = Advance(head)
  /\ writer' = "idle"
  /\ pushed' = pushed + 1
  /\ lapped' = (lapped \/ Advance(head) = tail)
  /\ raced' = (raced \/ (Advance(head) = tail /\ reader = "copy"))
  /\ UNCHANGED <<tail, slots, towrite, dropped, reader, toread, out,
                 popped, last>>

PushPublish ==
  /\ writer = "copy"
  /\ towrite = {}
  /\ head' = Advance(head)
  /\ writer' = "idle"
  /\ pushed' = pushed + 1
  /\ lapped' = (lapped \/ Advance(head) = tail)
  /\ raced' = (raced \/ (Advance(head) = tail /\ reader = "copy"))
  /\ UNCHANGED <<tail, slots, towrite, dropped, reader, toread, out,
                 popped, last>>

(* pop(): on an empty ring it returns false and changes nothing; otherwise *)
(* it copies the payload and then moves the tail.                          *)

\* Mutant: the emptiness test is forgotten.
PopBeginUnchecked ==
  /\ reader = "idle"
  /\ reader' = "copy"
  /\ toread' = Words
  /\ UNCHANGED <<head, tail, slots, writer, towrite, dropped, out,
                 pushed, popped, last, lapped, raced>>

\* Mutant: a ring of one frame is taken for empty.
PopBeginOffByOne == Size > 1 /\ PopBeginUnchecked

PopBegin ==
  /\ reader = "idle"
  /\ tail # head
  /\ reader' = "copy"
  /\ toread' = Words
  /\ UNCHANGED <<head, tail, slots, writer, towrite, dropped, out,
                 pushed, popped, last, lapped, raced>>

PopWord(w) ==
  /\ reader = "copy"
  /\ w \in toread
  /\ out' = [out EXCEPT ![w] = slots[tail][w]]
  /\ toread' = toread \ {w}
  /\ UNCHANGED <<head, tail, slots, writer, towrite, dropped, reader,
                 pushed, popped, last, lapped, raced>>

\* Mutant: the slot is released before it is copied.
PopAdvanceEarly ==
  /\ reader = "copy"
  /\ tail' = Advance(tail)
  /\ reader' = "idle"
  /\ popped' = popped + 1
  /\ last' = out
  /\ UNCHANGED <<head, slots, writer, towrite, dropped, toread, out,
                 pushed, lapped, raced>>

PopAdvance ==
  /\ reader = "copy"
  /\ toread = {}
  /\ tail' = Advance(tail)
  /\ reader' = "idle"
  /\ popped' = popped + 1
  /\ last' = out
  /\ UNCHANGED <<head, slots, writer, towrite, dropped, toread, out,
                 pushed, lapped, raced>>

-----------------------------------------------------------------------------
Push == PushBegin \/ (\E w \in Words : PushWord(w)) \/ PushPublish
Pop  == PopBegin \/ (\E w \in Words : PopWord(w)) \/ PopAdvance

RingNext == Push \/ Pop

RingSpec == RingInit /\ [][RingNext]_ringVars

(* A reader that keeps calling pop(), as strategy_loop does.               *)
RingFairSpec == RingSpec /\ WF_ringVars(Pop)

-----------------------------------------------------------------------------
RingTypeOK ==
  /\ head \in Slots /\ tail \in Slots
  /\ slots \in [Slots -> [Words -> Nat]]
  /\ writer \in {"idle", "copy"} /\ towrite \in SUBSET Words
  /\ dropped \in BOOLEAN
  /\ reader \in {"idle", "copy"} /\ toread \in SUBSET Words
  /\ out \in [Words -> Nat]
  /\ pushed \in 0 .. MaxPush
  /\ popped \in Nat
  /\ last \in [Words -> Nat]
  /\ lapped \in BOOLEAN /\ raced \in BOOLEAN

(* ring.h:40-44.  Whatever the writer overruns, the frames between tail    *)
(* and head are the newest Size frames pushed, whole and in order: a push  *)
(* in progress never damages a pop-able frame.                             *)
BacklogIsNewest ==
  \A i \in Slots : \A w \in Words :
    /\ (tail <= i /\ i < head) => slots[i][w] = pushed - head + i + 1
    /\ (head < tail /\ i < head) => slots[i][w] = pushed - head + i + 1
    /\ (head < tail /\ tail <= i) =>
          slots[i][w] = pushed - head - Capacity + i + 1

(* ring.h:48-55.  As long as no overrun hits a pop in progress, what a pop *)
(* delivers is one whole frame, newer than every frame delivered before,   *)
(* even if earlier overruns emptied the ring between pops.                 *)
WholeAndInOrder ==
  (reader = "copy" /\ toread = {} /\ ~raced) =>
     \A v, w \in Words : out[v] = out[w] /\ last[v] < out[w]

(* tests/test_main.cpp ring_spsc_concurrent_no_loss.  Without an overrun   *)
(* nothing is lost: the k-th pop delivers the k-th push.                   *)
LosslessUntilLapped ==
  ~lapped => /\ popped + Size = pushed
             /\ \A w \in Words : last[w] = popped

(* ring.h:35-42.  A push that is about to empty a full ring has seen it    *)
(* full, so push() reports the loss: no overrun is silent (unless an       *)
(* earlier one already hit a pop in progress).                             *)
OverrunIsReported ==
  (writer = "copy" /\ Advance(head) = tail /\ ~raced) => dropped

(* The pop-able frames, oldest first.                                      *)
Backlog ==
  [k \in 1 .. Size |->
     slots[IF tail + k > Capacity THEN tail + k - 1 - Capacity ELSE tail + k - 1]]

Queue == INSTANCE FrameQueue
           WITH queue <- Backlog, count <- pushed, broken <- raced,
                FrameOf <- Frame

(* ring.h:38-55.  To its two threads the ring is a queue of whole frames   *)
(* that loses its backlog when it overflows: every word copy is invisible, *)
(* publishing is the push and moving tail is the pop.  This is the queue   *)
(* the engine gets (RingOps), not the one ring.h:17 documents: see the     *)
(* next property.                                                          *)
ImplementsFrameQueue == Queue!Spec

(* ring.h:17, "push() overwrites the oldest slot when full (drop-oldest)". *)
(* A push onto a full ring costs the consumer one frame, the oldest, and   *)
(* leaves the newer ones pop-able.                                         *)
DropsOnlyTheOldest == Queue!DropOldestSpec

(* main.cpp:89-108.  A consumer that keeps popping drains the ring once    *)
(* the feed falls silent, whatever overruns and races came before.         *)
BacklogDrains == <>[](Size = 0 /\ reader = "idle")

-----------------------------------------------------------------------------
(* The inductive strengthening of the safety properties above.             *)

(* The frame that slot i holds when no push is in progress: slots below    *)
(* head were filled on the current lap, the others on the one before.      *)
Content(i) ==
  IF i < head THEN pushed - head + i + 1
  ELSE IF pushed >= Capacity THEN pushed - head - Capacity + i + 1 ELSE 0

(* Only the slot under head, and only the words already copied, differ     *)
(* from Content; pushed is head plus whole laps.                           *)
SlotsInv ==
  /\ pushed = head \/ pushed >= head + Capacity
  /\ writer = "idle" => towrite = {}
  /\ writer = "copy" => pushed < MaxPush
  /\ \A i \in Slots : \A w \in Words :
       slots[i][w] = IF i = head /\ writer = "copy" /\ w \notin towrite
                     THEN pushed + 1 ELSE Content(i)

(* Without a racing overrun a pop in progress works on a non-empty ring,   *)
(* and Size frames are newer than everything delivered.                    *)
ReaderInv ==
  ~raced =>
    /\ pushed >= Size
    /\ \A w \in Words : last[w] <= pushed - Size
    /\ reader = "copy" =>
         /\ Size > 0
         /\ \A w \in Words \ toread : out[w] = pushed - Size + 1

(* An overrun, and a tail that is ahead of head, need a full lap.          *)
LapsInv ==
  /\ raced => lapped
  /\ lapped \/ head < tail => pushed >= Capacity

SafetyInv ==
  /\ RingTypeOK
  /\ SlotsInv
  /\ ReaderInv
  /\ LapsInv
  /\ LosslessUntilLapped
  /\ OverrunIsReported

=============================================================================
