-------------------------- MODULE FixExecutorProofs --------------------------
(***************************************************************************)
(* What a FIX session writes and what it reports of an order, for every    *)
(* number of orders, sessions, faults and unsolicited frames.  FixInv has  *)
(* a part for each place an order can be in: the orders that wait, the     *)
(* frames of the write queue, the gateway, the answers on their way.       *)
(***************************************************************************)
EXTENDS FixExecutor, SequenceTheorems, TLAPS

Kinds == {"logon", "order", "resend", "beat"}
Messages == Kinds \X (0 .. MaxJobs)
Frames == [kind : Kinds \cup {"none"}, job : 0 .. MaxJobs, sid : Nat, seq : Nat]
Answers == [kind : {"logon", "test", "reset"} \cup Reports, job : 0 .. MaxJobs, seq : Nat]

(* A type of every variable, and what run() holds while a session runs.    *)
FixTypes ==
  /\ orders \in Seq(Jobs) /\ Len(orders) <= QueueLimit
  /\ accepted \in 0 .. MaxJobs
  /\ drainPosted \in BOOLEAN /\ stopped \in BOOLEAN /\ stopPosted \in BOOLEAN
  /\ connected \in BOOLEAN /\ armed \in BOOLEAN /\ partial \in BOOLEAN
  /\ logged \in BOOLEAN
  /\ session \in {"top", "connect", "backoff", "run", "ended", "exited"}
  /\ stream \in {"none", "up", "dead"}
  /\ session = "run" => connected /\ stream # "none"
  /\ wop \in {"none", "inflight", "done", "failed"}
  /\ sid \in Nat /\ seqOut \in Nat \ {0} /\ seqIn \in Nat /\ gwSeq \in Nat
  /\ begun \in Nat
  /\ wqueue \in Seq(Frames) /\ last \in Frames /\ inbox \in Seq(Answers)
  /\ pending \subseteq Jobs
  /\ gw \in [Jobs -> {"none", "got", "new", "done"}]
  /\ results \in [Jobs -> Seq(Reports)]

\* Frame f is numbered before message n of stream id.
Less(f, id, n) == f.sid < id \/ (f.sid = id /\ f.seq < n)

(* The frames of the write queue are in the order of their numbers, all    *)
(* below the next one to give, and all above the last that was begun; the  *)
(* frame of a write under way stays at the front until it completes.       *)
WireInv ==
  /\ \A i, k \in DOMAIN wqueue : i < k => Less(wqueue[i], wqueue[k].sid, wqueue[k].seq)
  /\ \A i \in DOMAIN wqueue : Less(wqueue[i], sid, seqOut)
  /\ Less(last, sid, seqOut)
  /\ wop = "none" => \A i \in DOMAIN wqueue : Less(last, wqueue[i].sid, wqueue[i].seq)
  /\ wop # "none" => wqueue # <<>> /\ wqueue[1] = last

(* An order waits once, and was never framed or sent before it is taken.   *)
OrderInv ==
  \A i \in DOMAIN orders :
    /\ orders[i] <= accepted /\ gw[orders[i]] = "none"
    /\ \A k \in DOMAIN orders : orders[i] = orders[k] => i = k
    /\ \A k \in DOMAIN wqueue : wqueue[k].kind = "order" => wqueue[k].job # orders[i]

(* An order has one frame, which the gateway did not get before its write  *)
(* was done: what is left in the queue of a session that ended has not     *)
(* been received.                                                          *)
FrameInv ==
  \A i \in DOMAIN wqueue :
    wqueue[i].kind = "order" =>
      /\ wqueue[i].job \in Jobs /\ wqueue[i].job <= accepted
      /\ gw[wqueue[i].job] = "none" \/ (i = 1 /\ wop = "done")
      /\ \A k \in DOMAIN wqueue :
           wqueue[k].kind = "order" /\ wqueue[k].job = wqueue[i].job => i = k

(* An order that is pending was not reported; what was reported had been   *)
(* received by the gateway.                                                *)
JobInv ==
  \A j \in Jobs :
    /\ j > accepted => gw[j] = "none"
    /\ j \in pending => results[j] = <<>>
    /\ Len(results[j]) <= 1
    /\ results[j] # <<>> => gw[j] \in {"new", "done"}

\* A report on its way is about an order that the gateway accepted or closed.
InboxInv ==
  \A i \in DOMAIN inbox :
    inbox[i].kind \in Reports =>
      inbox[i].job \in Jobs /\ gw[inbox[i].job] \in {"new", "done"}

FixInv == FixTypes /\ WireInv /\ OrderInv /\ FrameInv /\ JobInv /\ InboxInv

-----------------------------------------------------------------------------
LEMMA FixFacts ==
  ASSUME FixTypes
  PROVE  /\ MaxJobs \in Nat /\ Jobs \subseteq 0 .. MaxJobs
         /\ Len(orders) \in Nat /\ DOMAIN orders = 1 .. Len(orders)
         /\ \A i \in DOMAIN orders : orders[i] \in Jobs
         /\ Len(wqueue) \in Nat /\ DOMAIN wqueue = 1 .. Len(wqueue)
         /\ \A i \in DOMAIN wqueue : wqueue[i] \in Frames
         /\ Len(inbox) \in Nat /\ DOMAIN inbox = 1 .. Len(inbox)
         /\ \A i \in DOMAIN inbox : inbox[i] \in Answers
<1>1. MaxJobs \in Nat /\ Jobs \subseteq 0 .. MaxJobs
  BY FixAssumption DEF Jobs
<1>2. orders \in Seq(Jobs) /\ wqueue \in Seq(Frames) /\ inbox \in Seq(Answers)
  BY DEF FixTypes
<1>3. QED
  BY <1>1, <1>2

LEMMA FrameFacts ==
  ASSUME NEW f \in Frames
  PROVE  f.sid \in Nat /\ f.seq \in Nat /\ f.job \in 0 .. MaxJobs
BY DEF Frames

LEMMA LessTrans ==
  ASSUME NEW f \in Frames, NEW a \in Nat, NEW n \in Nat, NEW b \in Nat, NEW m \in Nat,
         Less(f, a, n), a < b \/ (a = b /\ n <= m)
  PROVE  Less(f, b, m)
BY FrameFacts DEF Less

\* The frames io_write() gives to messages, numbered from n.
NewFrames(id, n, messages) ==
  [i \in DOMAIN messages |->
     [kind |-> messages[i][1], job |-> messages[i][2], sid |-> id, seq |-> n + i - 1]]

\* Queue r is q with the frames of messages behind.
Framed(r, q, id, n, messages) ==
  /\ r \in Seq(Frames) /\ Len(r) = Len(q) + Len(messages)
  /\ DOMAIN r = 1 .. Len(q) + Len(messages)
  /\ \A i \in 1 .. Len(q) : r[i] = q[i]
  /\ \A i \in 1 .. Len(q) + Len(messages) :
       i > Len(q) =>
         /\ i - Len(q) \in DOMAIN messages
         /\ r[i].kind = messages[i - Len(q)][1]
         /\ r[i].job = messages[i - Len(q)][2]
         /\ r[i].sid = id /\ r[i].seq = n + (i - Len(q)) - 1

LEMMA Framing ==
  ASSUME NEW q \in Seq(Frames), NEW id \in Nat, NEW n \in Nat \ {0},
         NEW messages \in Seq(Messages), NEW new, new = NewFrames(id, n, messages),
         NEW r, r = q \o new
  PROVE  Framed(r, q, id, n, messages)
<1>1. /\ Len(messages) \in Nat /\ DOMAIN messages = 1 .. Len(messages)
      /\ Len(q) \in Nat
      /\ \A i \in DOMAIN messages : messages[i][1] \in Kinds /\ messages[i][2] \in 0 .. MaxJobs
  BY DEF Messages
<1>2. ASSUME NEW i \in DOMAIN messages PROVE new[i] \in Frames
  <2>1. n + i - 1 \in Nat
    BY <1>1
  <2>2. QED
    BY <1>1, <2>1 DEF NewFrames, Frames
<1>3. new \in Seq(Frames) /\ Len(new) = Len(messages)
  <2>1. DOMAIN new = 1 .. Len(messages)
    BY <1>1 DEF NewFrames
  <2>2. new \in [1 .. Len(messages) -> Frames]
    BY <1>1, <1>2, <2>1 DEF NewFrames
  <2>3. QED
    BY <1>1, <2>2
<1>4. /\ r \in Seq(Frames) /\ Len(r) = Len(q) + Len(messages)
      /\ \A i \in 1 .. Len(q) + Len(messages) :
           r[i] = IF i <= Len(q) THEN q[i] ELSE new[i - Len(q)]
  BY <1>3, ConcatProperties
<1>5. ASSUME NEW i \in 1 .. Len(q) + Len(messages), i > Len(q)
      PROVE  /\ i - Len(q) \in DOMAIN messages
             /\ r[i].kind = messages[i - Len(q)][1]
             /\ r[i].job = messages[i - Len(q)][2]
             /\ r[i].sid = id /\ r[i].seq = n + (i - Len(q)) - 1
  <2>1. i - Len(q) \in DOMAIN messages /\ ~(i <= Len(q))
    BY <1>1, <1>5
  <2>2. r[i] = new[i - Len(q)]
    BY <1>4, <2>1
  <2>3. QED
    BY <2>1, <2>2 DEF NewFrames
<1>6. \A i \in 1 .. Len(q) : r[i] = q[i]
  BY <1>1, <1>4
<1>7. DOMAIN r = 1 .. Len(q) + Len(messages)
  BY <1>1, <1>4
<1>8. QED
  BY <1>4, <1>5, <1>6, <1>7 DEF Framed

(* pump_write() on a queue in order: what it begins is above what was      *)
(* begun before.                                                           *)
LEMMA PumpStep ==
  ASSUME NEW st, NEW w \in {"none", "inflight", "done", "failed"}, NEW q \in Seq(Frames),
         last \in Frames, begun \in Nat,
         \A i, k \in DOMAIN q : i < k => Less(q[i], q[k].sid, q[k].seq),
         w = "none" => \A i \in DOMAIN q : Less(last, q[i].sid, q[i].seq),
         w # "none" => q # <<>> /\ q[1] = last,
         Pump(st, q, w)
  PROVE  /\ wop' \in {"none", "inflight", "done", "failed"}
         /\ wop' = "done" <=> w = "done"
         /\ last' \in Frames /\ begun' \in Nat
         /\ last' = last \/ \E i \in DOMAIN q : last' = q[i]
         /\ wop' = "none" => \A i \in DOMAIN q : Less(last', q[i].sid, q[i].seq)
         /\ wop' # "none" => q # <<>> /\ q[1] = last'
         /\ begun' # begun => Less(last, last'.sid, last'.seq)
<1>1. CASE w = "none" /\ q # <<>>
  <2>1. /\ wop' \in {"inflight", "failed"} /\ begun' = begun + 1 /\ last' = Head(q)
    BY <1>1 DEF Pump, Begin
  <2>2. 1 \in DOMAIN q /\ Head(q) = q[1] /\ q[1] \in Frames
    BY <1>1
  <2>3. QED
    BY <1>1, <2>1, <2>2
<1>2. CASE ~(w = "none" /\ q # <<>>)
  <2>1. wop' = w /\ begun' = begun /\ last' = last
    BY <1>2 DEF Pump
  <2>2. QED
    BY <2>1
<1>3. QED
  BY <1>1, <1>2

\* What an io_write() of messages leaves.
Wrote(messages) ==
  /\ DOMAIN wqueue' = 1 .. Len(wqueue) + Len(messages)
  /\ \A i \in 1 .. Len(wqueue) : wqueue'[i] = wqueue[i]
  /\ \A i \in 1 .. Len(wqueue) + Len(messages) :
       i > Len(wqueue) =>
         /\ i - Len(wqueue) \in DOMAIN messages
         /\ wqueue'[i].kind = messages[i - Len(wqueue)][1]
         /\ wqueue'[i].job = messages[i - Len(wqueue)][2]
  /\ wop' = "done" <=> wop = "done"

WriteTypes ==
  /\ wqueue \in Seq(Frames) /\ last \in Frames /\ begun \in Nat /\ seqOut \in Nat \ {0}
  /\ wop \in {"none", "inflight", "done", "failed"}

NextInOrder == begun' # begun => Less(last, last'.sid, last'.seq)

LEMMA WriteStep ==
  ASSUME FixTypes, WireInv, NEW id \in Nat, NEW n \in Nat \ {0}, NEW st,
         NEW messages \in Seq(Messages),
         (id = sid /\ n = seqOut) \/ (id = sid + 1 /\ n = 1),
         sid' = id, WriteTo(id, st, n, messages)
  PROVE  WriteTypes' /\ WireInv' /\ Wrote(messages) /\ NextInOrder
<1> DEFINE new == NewFrames(id, n, messages)
           q == wqueue \o new
<1>1. seqOut' = n + Len(messages) /\ wqueue' = q /\ Pump(st, q, wop)
  BY DEF WriteTo, NewFrames
<1>0. new = NewFrames(id, n, messages) /\ q = wqueue \o new
  OBVIOUS
<1>2. /\ wqueue \in Seq(Frames) /\ last \in Frames /\ begun \in Nat /\ sid \in Nat
      /\ seqOut \in Nat \ {0} /\ wop \in {"none", "inflight", "done", "failed"}
      /\ Len(wqueue) \in Nat /\ DOMAIN wqueue = 1 .. Len(wqueue)
      /\ Len(messages) \in Nat
  BY FixFacts DEF FixTypes
<1> HIDE DEF q, new
<1>3. /\ q \in Seq(Frames) /\ Len(q) = Len(wqueue) + Len(messages)
      /\ DOMAIN q = 1 .. Len(wqueue) + Len(messages)
      /\ \A i \in 1 .. Len(wqueue) : q[i] = wqueue[i]
      /\ \A i \in 1 .. Len(wqueue) + Len(messages) :
           i > Len(wqueue) =>
             /\ i - Len(wqueue) \in DOMAIN messages
             /\ q[i].kind = messages[i - Len(wqueue)][1]
             /\ q[i].job = messages[i - Len(wqueue)][2]
             /\ q[i].sid = id /\ q[i].seq = n + (i - Len(wqueue)) - 1
  <2>1. wqueue \in Seq(Frames)
    BY <1>2
  <2>2. Framed(q, wqueue, id, n, messages)
    BY <1>0, <2>1, Framing
  <2>3. QED
    BY <2>2 DEF Framed
<1>4. ASSUME NEW i \in DOMAIN q PROVE q[i] \in Frames
  BY <1>3
<1>5. ASSUME NEW f \in Frames, Less(f, sid, seqOut)
      PROVE  /\ Less(f, id, n) /\ Less(f, id, n + Len(messages))
             /\ \A i \in DOMAIN q : i > Len(wqueue) => Less(f, q[i].sid, q[i].seq)
  <2>1. Less(f, id, n)
    BY <1>2, <1>5, FrameFacts DEF Less
  <2>2. ASSUME NEW m \in Nat, n <= m PROVE Less(f, id, m)
    BY <2>1, <2>2, FrameFacts DEF Less
  <2>3. ASSUME NEW i \in DOMAIN q, i > Len(wqueue)
        PROVE  q[i].sid = id /\ q[i].seq \in Nat /\ n <= q[i].seq
    BY <1>2, <1>3, <2>3
  <2>4. n + Len(messages) \in Nat /\ n <= n + Len(messages)
    BY <1>2
  <2>5. QED
    BY <2>1, <2>2, <2>3, <2>4
<1>6. \A i, k \in DOMAIN q : i < k => Less(q[i], q[k].sid, q[k].seq)
  <2>1. SUFFICES ASSUME NEW i \in DOMAIN q, NEW k \in DOMAIN q, i < k
                 PROVE  Less(q[i], q[k].sid, q[k].seq)
    OBVIOUS
  <2>2. CASE k <= Len(wqueue)
    <3>1. i \in DOMAIN wqueue /\ k \in DOMAIN wqueue /\ q[i] = wqueue[i] /\ q[k] = wqueue[k]
      BY <1>2, <1>3, <2>1, <2>2
    <3>2. QED
      BY <2>1, <3>1 DEF WireInv
  <2>3. CASE k > Len(wqueue) /\ i <= Len(wqueue)
    <3>1. i \in DOMAIN wqueue /\ q[i] = wqueue[i]
      BY <1>2, <1>3, <2>3
    <3>2. Less(q[i], sid, seqOut)
      BY <3>1 DEF WireInv
    <3>3. QED
      BY <1>4, <1>5, <2>3, <3>2
  <2>4. CASE i > Len(wqueue)
    <3>1. k > Len(wqueue)
      BY <1>2, <1>3, <2>1, <2>4
    <3>2. /\ q[i].sid = id /\ q[k].sid = id
          /\ q[i].seq = n + (i - Len(wqueue)) - 1
          /\ q[k].seq = n + (k - Len(wqueue)) - 1
      BY <1>3, <2>4, <3>1
    <3>3. q[i].seq < q[k].seq
      BY <1>2, <1>3, <2>1, <3>2
    <3>4. QED
      BY <3>2, <3>3 DEF Less
  <2>5. QED
    BY <1>2, <1>3, <2>2, <2>3, <2>4
<1>7. wop = "none" => \A i \in DOMAIN q : Less(last, q[i].sid, q[i].seq)
  <2>1. SUFFICES ASSUME wop = "none", NEW i \in DOMAIN q
                 PROVE  Less(last, q[i].sid, q[i].seq)
    OBVIOUS
  <2>2. CASE i <= Len(wqueue)
    <3>1. i \in DOMAIN wqueue /\ q[i] = wqueue[i]
      BY <1>2, <1>3, <2>2
    <3>2. QED
      BY <2>1, <3>1 DEF WireInv
  <2>3. CASE i > Len(wqueue)
    BY <1>2, <1>5, <2>3 DEF WireInv
  <2>4. QED
    BY <1>2, <1>3, <2>2, <2>3
<1>8. wop # "none" => q # <<>> /\ q[1] = last
  <2>1. SUFFICES ASSUME wop # "none" PROVE q # <<>> /\ q[1] = last
    OBVIOUS
  <2>2. wqueue # <<>> /\ wqueue[1] = last
    BY <2>1 DEF WireInv
  <2>3. 1 \in 1 .. Len(wqueue)
    BY <1>2, <2>2
  <2>4. 1 \in DOMAIN q /\ q[1] = last
    BY <1>2, <1>3, <2>2, <2>3
  <2>5. QED
    BY <2>4
<1>9. /\ wop' \in {"none", "inflight", "done", "failed"}
      /\ wop' = "done" <=> wop = "done"
      /\ last' \in Frames /\ begun' \in Nat
      /\ last' = last \/ \E i \in DOMAIN q : last' = q[i]
      /\ wop' = "none" => \A i \in DOMAIN q : Less(last', q[i].sid, q[i].seq)
      /\ wop' # "none" => q # <<>> /\ q[1] = last'
      /\ begun' # begun => Less(last, last'.sid, last'.seq)
  BY <1>1, <1>2, <1>3, <1>6, <1>7, <1>8, PumpStep
<1>10. seqOut' \in Nat \ {0}
  BY <1>1, <1>2
<1>11. \A i \in DOMAIN q : Less(q[i], sid', seqOut')
  <2>1. SUFFICES ASSUME NEW i \in DOMAIN q PROVE Less(q[i], id, n + Len(messages))
    BY <1>1
  <2>2. CASE i <= Len(wqueue)
    <3>1. i \in DOMAIN wqueue /\ q[i] = wqueue[i]
      BY <1>2, <1>3, <2>2
    <3>2. Less(q[i], sid, seqOut)
      BY <3>1 DEF WireInv
    <3>3. QED
      BY <1>4, <1>5, <3>2
  <2>3. CASE i > Len(wqueue)
    <3>1. q[i].sid = id /\ q[i].seq = n + (i - Len(wqueue)) - 1
      BY <1>3, <2>3
    <3>2. q[i].seq < n + Len(messages)
      BY <1>2, <1>3, <2>3, <3>1
    <3>3. QED
      BY <3>1, <3>2 DEF Less
  <2>4. QED
    BY <1>2, <1>3, <2>2, <2>3
<1>12. Less(last', sid', seqOut')
  <2>1. Less(last, id, n + Len(messages))
    BY <1>2, <1>5 DEF WireInv
  <2>2. QED
    BY <1>1, <1>9, <1>11, <2>1
<1>13. WireInv'
  BY <1>1, <1>6, <1>9, <1>11, <1>12 DEF WireInv
<1>14. WriteTypes'
  BY <1>1, <1>3, <1>9, <1>10 DEF WriteTypes
<1>15. Wrote(messages) /\ NextInOrder
  BY <1>1, <1>3, <1>9 DEF Wrote, NextInOrder
<1>16. QED
  BY <1>13, <1>14, <1>15

(* The frames of orders stay one for each order: those that an io_write()  *)
(* adds belong to orders that were queued, at the distance d.              *)
LEMMA FrameStep ==
  ASSUME FixTypes, OrderInv, FrameInv, NEW messages \in Seq(Messages), NEW d \in Nat,
         Wrote(messages), UNCHANGED <<gw, accepted>>,
         \A i \in DOMAIN messages :
           messages[i][1] = "order" =>
             i - d \in DOMAIN orders /\ messages[i][2] = orders[i - d]
  PROVE  FrameInv'
<1>1. /\ Len(wqueue) \in Nat /\ DOMAIN wqueue = 1 .. Len(wqueue)
      /\ Len(messages) \in Nat /\ DOMAIN messages = 1 .. Len(messages)
      /\ \A i \in DOMAIN orders : orders[i] \in Jobs
  BY FixFacts
<1>2. /\ DOMAIN wqueue' = 1 .. Len(wqueue) + Len(messages)
      /\ \A i \in 1 .. Len(wqueue) : wqueue'[i] = wqueue[i]
      /\ wop' = "done" <=> wop = "done"
  BY DEF Wrote
<1>3. ASSUME NEW i \in DOMAIN wqueue', i > Len(wqueue), wqueue'[i].kind = "order"
      PROVE  /\ (i - Len(wqueue)) - d \in DOMAIN orders
             /\ wqueue'[i].job = orders[(i - Len(wqueue)) - d]
  <2>1. /\ i - Len(wqueue) \in DOMAIN messages
        /\ wqueue'[i].kind = messages[i - Len(wqueue)][1]
        /\ wqueue'[i].job = messages[i - Len(wqueue)][2]
    BY <1>2, <1>3 DEF Wrote
  <2>2. QED
    BY <1>3, <2>1
<1>4. ASSUME NEW i \in DOMAIN wqueue', i <= Len(wqueue)
      PROVE  i \in DOMAIN wqueue /\ wqueue'[i] = wqueue[i]
  BY <1>1, <1>2, <1>4
<1>5. ASSUME NEW i \in DOMAIN wqueue', wqueue'[i].kind = "order"
      PROVE  /\ wqueue'[i].job \in Jobs /\ wqueue'[i].job <= accepted
             /\ gw[wqueue'[i].job] = "none" \/ (i = 1 /\ wop' = "done")
  <2>1. CASE i <= Len(wqueue)
    BY <1>2, <1>4, <1>5, <2>1 DEF FrameInv
  <2>2. CASE i > Len(wqueue)
    BY <1>1, <1>3, <1>5, <2>2 DEF OrderInv
  <2>3. QED
    BY <1>1, <1>2, <2>1, <2>2
<1>6. ASSUME NEW i \in DOMAIN wqueue', wqueue'[i].kind = "order",
             NEW k \in DOMAIN wqueue', wqueue'[k].kind = "order",
             wqueue'[k].job = wqueue'[i].job
      PROVE  i = k
  <2>1. CASE i <= Len(wqueue) /\ k <= Len(wqueue)
    BY <1>4, <1>6, <2>1 DEF FrameInv
  <2>2. CASE i > Len(wqueue) /\ k > Len(wqueue)
    <3>1. (i - Len(wqueue)) - d = (k - Len(wqueue)) - d
      BY <1>3, <1>6, <2>2 DEF OrderInv
    <3>2. QED
      BY <1>1, <1>2, <3>1
  <2>3. CASE i > Len(wqueue) /\ k <= Len(wqueue)
    BY <1>3, <1>4, <1>6, <2>3 DEF OrderInv
  <2>4. CASE i <= Len(wqueue) /\ k > Len(wqueue)
    BY <1>3, <1>4, <1>6, <2>4 DEF OrderInv
  <2>5. QED
    BY <1>1, <1>2, <2>1, <2>2, <2>3, <2>4
<1>7. QED
  BY <1>5, <1>6 DEF FrameInv

LEMMA NoOrders ==
  ASSUME FixTypes, OrderInv, NEW messages \in Seq(Messages),
         Wrote(messages), UNCHANGED <<gw, accepted, orders>>,
         \A i \in DOMAIN messages : messages[i][1] # "order"
  PROVE  OrderInv'
<1>1. Len(wqueue) \in Nat /\ DOMAIN wqueue = 1 .. Len(wqueue) /\ Len(messages) \in Nat
  BY FixFacts
<1>2. ASSUME NEW k \in DOMAIN wqueue', wqueue'[k].kind = "order"
      PROVE  k \in DOMAIN wqueue /\ wqueue'[k] = wqueue[k]
  BY <1>1, <1>2 DEF Wrote
<1>3. QED
  BY <1>2 DEF OrderInv

\* Two kinds of messages: the orders, and those without a job.
LEMMA OrderMessageFacts ==
  ASSUME FixTypes
  PROVE  /\ OrderMessages \in Seq(Messages) /\ Len(OrderMessages) = Len(orders)
         /\ \A i \in DOMAIN orders : OrderMessages[i] = <<"order", orders[i]>>
<1>1. /\ Len(orders) \in Nat /\ DOMAIN orders = 1 .. Len(orders)
      /\ \A i \in DOMAIN orders : orders[i] \in 0 .. MaxJobs
  BY FixFacts
<1>2. \A i \in DOMAIN orders : OrderMessages[i] = <<"order", orders[i]>>
  BY DEF OrderMessages
<1>3. ASSUME NEW i \in DOMAIN orders PROVE OrderMessages[i] \in Messages
  <2>1. "order" \in Kinds
    BY DEF Kinds
  <2>2. <<"order", orders[i]>> \in Kinds \X (0 .. MaxJobs)
    BY <1>1, <2>1
  <2>3. QED
    BY <1>2, <2>2 DEF Messages
<1>4. OrderMessages \in [1 .. Len(orders) -> Messages]
  BY <1>1, <1>3 DEF OrderMessages
<1>5. QED
  BY <1>1, <1>2, <1>4

AdminOnly(messages) ==
  /\ messages \in Seq(Messages)
  /\ \A i \in DOMAIN messages : messages[i][1] # "order"

LEMMA AdminMessage ==
  ASSUME NEW kind \in Kinds \ {"order"}
  PROVE  AdminOnly(<<<<kind, 0>>>>)
<1>1. <<kind, 0>> \in Messages
  BY FixAssumption DEF Messages
<1>2. QED
  BY <1>1 DEF AdminOnly

LEMMA Concat ==
  ASSUME NEW a \in Seq(Messages), NEW b \in Seq(Messages), NEW c, c = a \o b
  PROVE  /\ c \in Seq(Messages) /\ Len(c) = Len(a) + Len(b)
         /\ \A i \in 1 .. Len(a) : c[i] = a[i]
         /\ \A i \in 1 .. Len(a) + Len(b) : i > Len(a) => c[i] = b[i - Len(a)]
<1>1. /\ c \in Seq(Messages) /\ Len(c) = Len(a) + Len(b)
      /\ \A i \in 1 .. Len(a) + Len(b) : c[i] = IF i <= Len(a) THEN a[i] ELSE b[i - Len(a)]
  BY ConcatProperties
<1>2. Len(a) \in Nat /\ Len(b) \in Nat
  OBVIOUS
<1>3. QED
  BY <1>1, <1>2

LEMMA AdminConcat ==
  ASSUME NEW a, NEW b, AdminOnly(a), AdminOnly(b)
  PROVE  AdminOnly(a \o b)
<1>1. a \in Seq(Messages) /\ b \in Seq(Messages)
  BY DEF AdminOnly
<1> DEFINE c == a \o b
<1>2. c = a \o b
  OBVIOUS
<1> HIDE DEF c
<1>3. /\ c \in Seq(Messages) /\ Len(c) = Len(a) + Len(b)
      /\ \A i \in 1 .. Len(a) : c[i] = a[i]
      /\ \A i \in 1 .. Len(a) + Len(b) : i > Len(a) => c[i] = b[i - Len(a)]
  BY <1>1, <1>2, Concat
<1>4. ASSUME NEW i \in DOMAIN c PROVE c[i][1] # "order"
  <2>1. i \in 1 .. Len(a) + Len(b) /\ Len(a) \in Nat /\ Len(b) \in Nat
    BY <1>1, <1>3
  <2>2. CASE i <= Len(a)
    <3>1. i \in DOMAIN a /\ c[i] = a[i]
      BY <1>1, <1>3, <2>1, <2>2
    <3>2. QED
      BY <3>1 DEF AdminOnly
  <2>3. CASE i > Len(a)
    <3>1. i - Len(a) \in DOMAIN b /\ c[i] = b[i - Len(a)]
      BY <1>1, <1>3, <2>1, <2>3
    <3>2. QED
      BY <3>1 DEF AdminOnly
  <2>4. QED
    BY <2>1, <2>2, <2>3
<1>5. QED
  BY <1>2, <1>3, <1>4 DEF AdminOnly

-----------------------------------------------------------------------------
LEMMA FixInvInit == Init => FixInv
<1>1. SUFFICES ASSUME Init PROVE FixInv
  OBVIOUS
<1>2. /\ orders = <<>> /\ wqueue = <<>> /\ inbox = <<>>
      /\ DOMAIN orders = {} /\ DOMAIN wqueue = {} /\ DOMAIN inbox = {}
      /\ orders \in Seq(Jobs) /\ wqueue \in Seq(Frames) /\ inbox \in Seq(Answers)
      /\ Len(orders) = 0
  BY <1>1 DEF Init
<1>3. MaxJobs \in Nat /\ QueueLimit \in Nat
  BY FixAssumption
<1>4. last \in Frames
  BY <1>1, <1>3 DEF Init, NoFrame, Frames
<1>5. FixTypes
  <2>1. gw \in [Jobs -> {"none", "got", "new", "done"}]
    BY <1>1 DEF Init
  <2>2. results \in [Jobs -> Seq(Reports)]
    BY <1>1 DEF Init
  <2>3. /\ accepted \in 0 .. MaxJobs /\ Len(orders) <= QueueLimit /\ pending \subseteq Jobs
        /\ sid \in Nat /\ seqOut \in Nat \ {0} /\ seqIn \in Nat /\ gwSeq \in Nat
        /\ begun \in Nat
    BY <1>1, <1>2, <1>3 DEF Init
  <2>4. QED
    BY <1>1, <1>2, <1>4, <2>1, <2>2, <2>3 DEF Init, FixTypes
<1>6. WireInv
  BY <1>1, <1>2 DEF Init, WireInv, Less, NoFrame
<1>7. OrderInv /\ FrameInv /\ InboxInv
  BY <1>2 DEF OrderInv, FrameInv, InboxInv
<1>8. JobInv
  BY <1>1 DEF Init, JobInv
<1>9. QED
  BY <1>5, <1>6, <1>7, <1>8 DEF FixInv

LEMMA ExecuteStep ==
  ASSUME FixInv, Execute
  PROVE  FixInv' /\ NextInOrder
<1>1. FixTypes /\ WireInv /\ OrderInv /\ FrameInv /\ JobInv /\ InboxInv
  BY DEF FixInv
<1>2. /\ accepted < MaxJobs /\ Len(orders) < QueueLimit /\ accepted' = accepted + 1
      /\ orders' = Append(orders, accepted + 1) /\ drainPosted' = TRUE
      /\ UNCHANGED <<stopped, stopPosted, session, sid, stream, connected, armed, wqueue,
                     wop, seqOut, seqIn, partial, pending, begun, last, logged, inbox,
                     gwSeq, gw, results>>
  BY DEF Execute, history, gatewayVars
<1>3. /\ accepted \in Nat /\ accepted + 1 \in Jobs /\ accepted' \in 0 .. MaxJobs
      /\ QueueLimit \in Nat /\ Len(orders) \in Nat /\ DOMAIN orders = 1 .. Len(orders)
      /\ \A i \in DOMAIN orders : orders[i] \in Jobs
  BY <1>1, <1>2, FixFacts, FixAssumption DEF FixTypes, Jobs
<1>4. /\ orders' \in Seq(Jobs) /\ Len(orders') = Len(orders) + 1
      /\ \A i \in 1 .. Len(orders) : orders'[i] = orders[i]
      /\ orders'[Len(orders) + 1] = accepted + 1
  BY <1>1, <1>2, <1>3, AppendProperties DEF FixTypes
<1>5. DOMAIN orders' = 1 .. Len(orders) + 1 /\ Len(orders') <= QueueLimit
  BY <1>2, <1>3, <1>4
<1>6. FixTypes'
  BY <1>1, <1>2, <1>3, <1>4, <1>5 DEF FixTypes
<1>7. WireInv' /\ InboxInv' /\ NextInOrder
  BY <1>1, <1>2 DEF WireInv, InboxInv, NextInOrder
<1>8. \A j \in Jobs : j \in Nat /\ (j <= accepted => j <= accepted' /\ j # accepted + 1)
                      /\ (j > accepted' => j > accepted)
  BY <1>2, <1>3 DEF Jobs
<1>9. FrameInv' /\ JobInv'
  BY <1>1, <1>2, <1>8 DEF FrameInv, JobInv
<1>10. gw[accepted + 1] = "none"
  BY <1>1, <1>3 DEF JobInv
<1>11. ASSUME NEW k \in DOMAIN wqueue, wqueue[k].kind = "order"
       PROVE  wqueue[k].job # accepted + 1
  BY <1>1, <1>8, <1>11 DEF FrameInv
<1>12. OrderInv'
  <2>1. SUFFICES ASSUME NEW i \in DOMAIN orders'
                 PROVE  /\ orders'[i] <= accepted' /\ gw[orders'[i]] = "none"
                        /\ \A k \in DOMAIN orders' : orders'[i] = orders'[k] => i = k
                        /\ \A k \in DOMAIN wqueue :
                             wqueue[k].kind = "order" => wqueue[k].job # orders'[i]
    BY <1>2 DEF OrderInv
  <2>2. CASE i = Len(orders) + 1
    <3>1. ASSUME NEW k \in DOMAIN orders', orders'[i] = orders'[k] PROVE i = k
      <4>1. CASE k \in DOMAIN orders
        BY <1>1, <1>3, <1>4, <1>8, <2>2, <3>1, <4>1 DEF OrderInv
      <4>2. QED
        BY <1>3, <1>5, <2>2, <4>1
    <3>2. QED
      BY <1>2, <1>3, <1>4, <1>10, <1>11, <2>2, <3>1
  <2>3. CASE i \in DOMAIN orders
    <3>1. orders'[i] = orders[i] /\ orders[i] \in Jobs /\ orders[i] <= accepted
      BY <1>1, <1>3, <1>4, <2>3 DEF OrderInv
    <3>2. ASSUME NEW k \in DOMAIN orders', orders'[i] = orders'[k] PROVE i = k
      <4>1. CASE k \in DOMAIN orders
        BY <1>1, <1>3, <1>4, <2>3, <3>1, <3>2, <4>1 DEF OrderInv
      <4>2. CASE k = Len(orders) + 1
        BY <1>4, <1>8, <3>1, <3>2, <4>2
      <4>3. QED
        BY <1>3, <1>5, <4>1, <4>2
    <3>3. QED
      BY <1>1, <1>8, <2>3, <3>1, <3>2 DEF OrderInv
  <2>4. QED
    BY <1>3, <1>5, <2>2, <2>3
<1>13. QED
  BY <1>6, <1>7, <1>9, <1>12 DEF FixInv

(* Steps that leave the write queue, the orders and what is known of them. *)
LEMMA QuietStep ==
  ASSUME FixInv,
         \/ Stop \/ LoopTop \/ ConnectFails \/ BackoffEnds \/ EndSession \/ OnReadError
         \/ OnPeerTimeout \/ OnStop \/ StreamBreaks
  PROVE  FixInv' /\ NextInOrder
<1>1. FixTypes /\ WireInv /\ OrderInv /\ FrameInv /\ JobInv /\ InboxInv
  BY DEF FixInv
<1>2. /\ UNCHANGED <<orders, accepted, sid, wqueue, pending, begun, last, gw, results>>
      /\ wop' = wop \/ (wop = "inflight" /\ wop' = "failed")
      /\ seqOut' = seqOut \/ seqOut' = seqOut + 1
      /\ inbox' = inbox \/ inbox' = <<>>
  BY DEF Stop, LoopTop, ConnectFails, BackoffEnds, EndSession, OnReadError,
       OnPeerTimeout, OnStop, StreamBreaks, callerVars, history, gatewayVars
<1>3. /\ UNCHANGED <<seqIn, gwSeq, logged, drainPosted>>
      /\ stopped' \in BOOLEAN /\ stopPosted' \in BOOLEAN /\ connected' \in BOOLEAN
      /\ armed' \in BOOLEAN /\ partial' \in BOOLEAN
      /\ session' \in {"top", "connect", "backoff", "run", "ended", "exited"}
      /\ stream' \in {"none", "up", "dead"}
      /\ session' = "run" => connected' /\ stream' # "none"
  <2>1. CASE EndSession
    BY <1>1, <2>1 DEF EndSession, callerVars, history, FixTypes
  <2>2. CASE \/ Stop \/ LoopTop \/ ConnectFails \/ BackoffEnds \/ OnReadError
             \/ OnPeerTimeout \/ OnStop \/ StreamBreaks
    BY <1>1, <2>2 DEF Stop, LoopTop, ConnectFails, BackoffEnds, OnReadError,
         OnPeerTimeout, OnStop, StreamBreaks, callerVars, gatewayVars, FixTypes
  <2>3. QED
    BY <2>1, <2>2
<1>4. seqOut \in Nat \ {0} /\ seqOut' \in Nat \ {0} /\ seqOut <= seqOut' /\ sid \in Nat
  BY <1>1, <1>2 DEF FixTypes
<1>5. inbox' \in Seq(Answers)
  <2>1. inbox \in Seq(Answers) /\ <<>> \in Seq(Answers)
    BY <1>1 DEF FixTypes
  <2>2. QED
    BY <1>2, <2>1
<1>6. FixTypes'
  BY <1>1, <1>2, <1>3, <1>4, <1>5 DEF FixTypes
<1>7. ASSUME NEW f \in Frames, Less(f, sid, seqOut) PROVE Less(f, sid, seqOut')
  BY <1>4, <1>7, LessTrans
<1>8. WireInv'
  <2>1. last \in Frames /\ \A i \in DOMAIN wqueue : wqueue[i] \in Frames
    BY <1>1, FixFacts DEF FixTypes
  <2>2. wop' # "none" <=> wop # "none"
    BY <1>2
  <2>3. QED
    BY <1>1, <1>2, <1>7, <2>1, <2>2 DEF WireInv
<1>9. OrderInv' /\ JobInv' /\ NextInOrder
  BY <1>1, <1>2 DEF OrderInv, JobInv, NextInOrder
<1>10. FrameInv'
  BY <1>1, <1>2 DEF FrameInv
<1>11. InboxInv'
  BY <1>1, <1>2 DEF InboxInv
<1>12. QED
  BY <1>6, <1>8, <1>9, <1>10, <1>11 DEF FixInv

(* io_drain_orders(), called by the session thread after the Logon or      *)
(* posted by execute().                                                    *)
LEMMA DrainStep ==
  ASSUME FixInv, ConnectSucceeds \/ Drain
  PROVE  FixInv' /\ NextInOrder
<1>1. FixTypes /\ WireInv /\ OrderInv /\ FrameInv /\ JobInv /\ InboxInv
  BY DEF FixInv
<1>2. /\ orders' = <<>> /\ pending' = pending \cup Queued
      /\ UNCHANGED <<accepted, stopped, stopPosted, seqIn, partial, gw, results>>
      /\ session' = "run" /\ stream' # "none" /\ stream' \in {"none", "up", "dead"}
      /\ connected' /\ connected' \in BOOLEAN /\ armed' \in BOOLEAN
      /\ drainPosted' \in BOOLEAN /\ logged' \in BOOLEAN /\ gwSeq' \in Nat
      /\ inbox' = inbox \/ inbox' = <<>>
  <2>1. /\ drainPosted \in BOOLEAN /\ stopped \in BOOLEAN /\ connected \in BOOLEAN
        /\ armed \in BOOLEAN /\ logged \in BOOLEAN /\ gwSeq \in Nat
        /\ stream \in {"none", "up", "dead"}
        /\ session = "run" => connected /\ stream # "none"
    BY <1>1 DEF FixTypes
  <2>2. CASE Drain
    BY <2>1, <2>2 DEF Drain, gatewayVars
  <2>3. CASE ConnectSucceeds
    BY <2>1, <2>3 DEF ConnectSucceeds
  <2>4. QED
    BY <2>2, <2>3
<1>3. /\ OrderMessages \in Seq(Messages) /\ Len(OrderMessages) = Len(orders)
      /\ Len(orders) \in Nat /\ DOMAIN orders = 1 .. Len(orders)
      /\ \A i \in DOMAIN orders : OrderMessages[i] = <<"order", orders[i]>>
  BY <1>1, OrderMessageFacts, FixFacts
<1>4. sid \in Nat /\ seqOut \in Nat \ {0}
  BY <1>1 DEF FixTypes
<1>5. /\ sid' \in Nat
      /\ WriteTypes' /\ WireInv' /\ FrameInv' /\ NextInOrder
  <2>1. CASE Drain
    <3>1. sid' = sid /\ WriteTo(sid, stream, seqOut, OrderMessages)
      BY <2>1 DEF Drain, Write
    <3>2. WriteTypes' /\ WireInv' /\ Wrote(OrderMessages) /\ NextInOrder
      BY <1>1, <1>3, <1>4, <3>1, WriteStep
    <3>3. ASSUME NEW i \in DOMAIN OrderMessages
          PROVE  i - 0 \in DOMAIN orders /\ OrderMessages[i][2] = orders[i - 0]
      <4>1. i \in DOMAIN orders /\ i - 0 = i
        BY <1>3
      <4>2. QED
        BY <1>3, <4>1
    <3>4. FrameInv'
      BY <1>1, <1>2, <1>3, <3>2, <3>3, FrameStep
    <3>5. QED
      BY <1>4, <3>1, <3>2, <3>4
  <2>2. CASE ConnectSucceeds
    <3> DEFINE logon == <<<<"logon", 0>>>>
               messages == logon \o OrderMessages
    <3>1. sid' = sid + 1 /\ WriteTo(sid + 1, "up", 1, messages) /\ sid + 1 \in Nat
      BY <1>4, <2>2 DEF ConnectSucceeds
    <3>2. logon \in Seq(Messages) /\ Len(logon) = 1 /\ logon[1][1] = "logon"
      <4>1. "logon" \in Kinds \ {"order"}
        BY DEF Kinds
      <4>2. QED
        BY <4>1, AdminMessage DEF AdminOnly
    <3>0. messages = logon \o OrderMessages
      OBVIOUS
    <3> HIDE DEF logon, messages
    <3>3. /\ messages \in Seq(Messages) /\ Len(messages) = 1 + Len(orders)
          /\ messages[1] = logon[1]
          /\ \A i \in 1 .. 1 + Len(orders) : i > 1 => messages[i] = OrderMessages[i - 1]
      <4>0. logon \in Seq(Messages) /\ OrderMessages \in Seq(Messages)
        BY <1>3, <3>2
      <4>1. /\ messages \in Seq(Messages)
            /\ Len(messages) = Len(logon) + Len(OrderMessages)
            /\ \A i \in 1 .. Len(logon) : messages[i] = logon[i]
            /\ \A i \in 1 .. Len(logon) + Len(OrderMessages) :
                 i > Len(logon) => messages[i] = OrderMessages[i - Len(logon)]
        BY <3>0, <4>0, Concat
      <4>2. QED
        BY <1>3, <3>2, <4>1
    <3>4. WriteTypes' /\ WireInv' /\ Wrote(messages) /\ NextInOrder
      <4>1. 1 \in Nat \ {0} /\ messages \in Seq(Messages)
        BY <3>3
      <4>2. QED
        BY <1>1, <3>1, <4>1, WriteStep
    <3>5. ASSUME NEW i \in DOMAIN messages, messages[i][1] = "order"
          PROVE  i - 1 \in DOMAIN orders /\ messages[i][2] = orders[i - 1]
      <4>1. i \in 1 .. 1 + Len(orders)
        BY <1>3, <3>3
      <4>2. i # 1
        BY <3>2, <3>3, <3>5, <4>1
      <4>3. i - 1 \in DOMAIN orders /\ i > 1
        BY <1>3, <4>1, <4>2
      <4>4. messages[i] = <<"order", orders[i - 1]>>
        BY <1>3, <3>3, <4>1, <4>3
      <4>5. QED
        BY <4>3, <4>4
    <3>6. FrameInv'
      BY <1>1, <1>2, <3>3, <3>4, <3>5, FrameStep
    <3>7. QED
      BY <3>1, <3>4, <3>6
  <2>3. QED
    BY <2>1, <2>2
<1>6. Queued \subseteq Jobs /\ \A j \in Queued : gw[j] = "none"
  BY <1>1, FixFacts DEF Queued, OrderInv
<1>7. inbox' \in Seq(Answers) /\ orders' \in Seq(Jobs) /\ Len(orders') <= QueueLimit
  <2>1. inbox \in Seq(Answers) /\ <<>> \in Seq(Answers) /\ <<>> \in Seq(Jobs)
    BY <1>1 DEF FixTypes
  <2>2. Len(<<>>) <= QueueLimit
    BY FixAssumption
  <2>3. QED
    BY <1>2, <2>1, <2>2
<1>8. FixTypes'
  BY <1>1, <1>2, <1>5, <1>6, <1>7 DEF FixTypes, WriteTypes
<1>9. OrderInv'
  BY <1>2 DEF OrderInv
<1>10. JobInv'
  BY <1>1, <1>2, <1>6 DEF JobInv
<1>11. InboxInv'
  BY <1>1, <1>2 DEF InboxInv
<1>12. QED
  BY <1>5, <1>8, <1>9, <1>10, <1>11 DEF FixInv

LEMMA OnWriteStep ==
  ASSUME FixInv, OnWrite
  PROVE  FixInv' /\ NextInOrder
<1>1. FixTypes /\ WireInv /\ OrderInv /\ FrameInv /\ JobInv /\ InboxInv
  BY DEF FixInv
<1>2. /\ session = "run" /\ wop \in {"done", "failed"}
      /\ UNCHANGED <<orders, drainPosted, accepted, stopped, stopPosted, sid, stream, armed,
                     seqOut, seqIn, partial, pending, logged, inbox, gwSeq, gw, results>>
  BY DEF OnWrite, callerVars, gatewayVars
<1>3. /\ wqueue # <<>> /\ wqueue[1] = last /\ wqueue \in Seq(Frames)
      /\ Len(wqueue) \in Nat \ {0} /\ DOMAIN wqueue = 1 .. Len(wqueue)
  BY <1>1, <1>2, FixFacts DEF WireInv, FixTypes
<1> DEFINE q == Tail(wqueue)
<1>4. wqueue' = q
  BY <1>3 DEF OnWrite
<1>5. /\ q \in Seq(Frames) /\ Len(q) = Len(wqueue) - 1
      /\ \A i \in 1 .. Len(wqueue) - 1 : q[i] = wqueue[i + 1]
  BY <1>3, HeadTailProperties
<1> HIDE DEF q
<1>6. DOMAIN q = 1 .. Len(wqueue) - 1
  BY <1>3, <1>5
<1>7. ASSUME NEW i \in DOMAIN q
      PROVE  /\ i + 1 \in DOMAIN wqueue /\ i + 1 # 1 /\ q[i] = wqueue[i + 1]
             /\ i \in Int
  BY <1>3, <1>5, <1>6
<1>8. \A i, k \in DOMAIN q : i < k => Less(q[i], q[k].sid, q[k].seq)
  <2>1. SUFFICES ASSUME NEW i \in DOMAIN q, NEW k \in DOMAIN q, i < k
                 PROVE  Less(q[i], q[k].sid, q[k].seq)
    OBVIOUS
  <2>2. i + 1 < k + 1
    BY <1>7, <2>1
  <2>3. QED
    BY <1>1, <1>7, <2>2 DEF WireInv
<1>9. \A i \in DOMAIN q : Less(last, q[i].sid, q[i].seq)
  <2>1. SUFFICES ASSUME NEW i \in DOMAIN q PROVE Less(last, q[i].sid, q[i].seq)
    OBVIOUS
  <2>2. 1 \in DOMAIN wqueue /\ 1 < i + 1
    BY <1>3, <1>6
  <2>3. QED
    BY <1>1, <1>3, <1>7, <2>2 DEF WireInv
<1>10. /\ wop' \in {"none", "inflight", "done", "failed"} /\ wop' # "done"
       /\ last' \in Frames /\ begun' \in Nat
       /\ last' = last \/ \E i \in DOMAIN q : last' = q[i]
       /\ wop' = "none" => \A i \in DOMAIN q : Less(last', q[i].sid, q[i].seq)
       /\ wop' # "none" => q # <<>> /\ q[1] = last'
       /\ NextInOrder
  <2>1. last \in Frames /\ begun \in Nat
    BY <1>1 DEF FixTypes
  <2>2. CASE wop = "failed"
    <3>1. wop' = "none" /\ last' = last /\ begun' = begun
      BY <2>2 DEF OnWrite, history
    <3>2. QED
      BY <1>9, <2>1, <3>1 DEF NextInOrder
  <2>3. CASE wop = "done"
    <3>1. Pump(stream, q, "none")
      BY <1>4, <2>3 DEF OnWrite
    <3>2. QED
      BY <1>5, <1>8, <1>9, <2>1, <3>1, PumpStep DEF NextInOrder
  <2>4. QED
    BY <1>2, <2>2, <2>3
<1>11. /\ connected' \in BOOLEAN
       /\ session' \in {"top", "connect", "backoff", "run", "ended", "exited"}
       /\ session' = "run" => connected' /\ stream' # "none"
  BY <1>1, <1>2 DEF OnWrite, FixTypes
<1>12. FixTypes'
  BY <1>1, <1>2, <1>4, <1>5, <1>10, <1>11 DEF FixTypes
<1>13. WireInv'
  <2>1. \A i \in DOMAIN q : Less(q[i], sid, seqOut)
    BY <1>1, <1>7 DEF WireInv
  <2>2. Less(last', sid, seqOut)
    BY <1>1, <1>10, <2>1 DEF WireInv
  <2>3. QED
    BY <1>2, <1>4, <1>8, <1>10, <2>1, <2>2 DEF WireInv
<1>14. OrderInv'
  BY <1>1, <1>2, <1>4, <1>7 DEF OrderInv
<1>15. FrameInv'
  <2>1. SUFFICES ASSUME NEW i \in DOMAIN q, q[i].kind = "order"
                 PROVE  /\ q[i].job \in Jobs /\ q[i].job <= accepted
                        /\ gw[q[i].job] = "none"
                        /\ \A k \in DOMAIN q :
                             q[k].kind = "order" /\ q[k].job = q[i].job => i = k
    BY <1>2, <1>4 DEF FrameInv
  <2>2. /\ q[i].job \in Jobs /\ q[i].job <= accepted /\ gw[q[i].job] = "none"
    BY <1>1, <1>7, <2>1 DEF FrameInv
  <2>3. ASSUME NEW k \in DOMAIN q, q[k].kind = "order", q[k].job = q[i].job
        PROVE  i = k
    <3>1. i + 1 = k + 1
      BY <1>1, <1>7, <2>1, <2>3 DEF FrameInv
    <3>2. QED
      BY <1>7, <3>1
  <2>4. QED
    BY <2>2, <2>3
<1>16. JobInv' /\ InboxInv'
  BY <1>1, <1>2 DEF JobInv, InboxInv
<1>17. QED
  BY <1>10, <1>12, <1>13, <1>14, <1>15, <1>16 DEF FixInv

\* A write of messages that belong to no order.
LEMMA AdminWrite ==
  ASSUME FixInv, NEW messages, AdminOnly(messages), Write(messages),
         UNCHANGED <<sid, orders, accepted, gw>>
  PROVE  WriteTypes' /\ WireInv' /\ OrderInv' /\ FrameInv' /\ NextInOrder
<1>0. messages \in Seq(Messages) /\ \A i \in DOMAIN messages : messages[i][1] # "order"
  BY DEF AdminOnly
<1>1. FixTypes /\ WireInv /\ OrderInv /\ FrameInv
  BY DEF FixInv
<1>2. sid \in Nat /\ seqOut \in Nat \ {0}
  BY <1>1 DEF FixTypes
<1>3. WriteTypes' /\ WireInv' /\ Wrote(messages) /\ NextInOrder
  BY <1>0, <1>1, <1>2, WriteStep DEF Write
<1>4. FrameInv'
  BY <1>0, <1>1, <1>3, FrameStep
<1>5. OrderInv'
  BY <1>0, <1>1, <1>3, NoOrders
<1>6. QED
  BY <1>3, <1>4, <1>5

LEMMA OnTimerStep ==
  ASSUME FixInv, OnTimer
  PROVE  FixInv' /\ NextInOrder
<1>1. FixTypes /\ JobInv /\ InboxInv
  BY DEF FixInv
<1>2. /\ Write(<<<<"beat", 0>>>>)
      /\ UNCHANGED <<orders, drainPosted, accepted, stopped, stopPosted, session, sid,
                     stream, connected, armed, seqIn, partial, pending, logged, inbox,
                     gwSeq, gw, results>>
  BY DEF OnTimer, callerVars, gatewayVars
<1>3. AdminOnly(<<<<"beat", 0>>>>)
  <2>1. "beat" \in Kinds \ {"order"}
    BY DEF Kinds
  <2>2. QED
    BY <2>1, AdminMessage
<1>4. WriteTypes' /\ WireInv' /\ OrderInv' /\ FrameInv' /\ NextInOrder
  BY <1>2, <1>3, AdminWrite
<1>5. FixTypes'
  BY <1>1, <1>2, <1>4 DEF FixTypes, WriteTypes
<1>6. JobInv' /\ InboxInv'
  BY <1>1, <1>2 DEF JobInv, InboxInv
<1>7. QED
  BY <1>4, <1>5, <1>6 DEF FixInv

LEMMA RepliesAreAdmin ==
  ASSUME NEW f
  PROVE  AdminOnly(Replies(f))
<1> DEFINE a == IF Gap(f) THEN <<<<"resend", 0>>>> ELSE <<>>
           b == IF f.kind = "test" THEN <<<<"beat", 0>>>> ELSE <<>>
<1>1. "resend" \in Kinds \ {"order"} /\ "beat" \in Kinds \ {"order"}
  BY DEF Kinds
<1>2. AdminOnly(<<<<"resend", 0>>>>) /\ AdminOnly(<<<<"beat", 0>>>>)
  BY <1>1, AdminMessage
<1>3. AdminOnly(<<>>)
  BY DEF AdminOnly
<1>4. AdminOnly(a) /\ AdminOnly(b)
  BY <1>2, <1>3
<1>5. Replies(f) = a \o b
  BY DEF Replies
<1> HIDE DEF a, b
<1>6. QED
  BY <1>4, <1>5, AdminConcat

LEMMA OnReadStep ==
  ASSUME FixInv, OnRead
  PROVE  FixInv' /\ NextInOrder
<1>1. FixTypes /\ WireInv /\ OrderInv /\ FrameInv /\ JobInv /\ InboxInv
  BY DEF FixInv
<1>2. /\ inbox # <<>> /\ inbox' = Tail(inbox) /\ partial' = FALSE /\ armed' = ~stopped
      /\ UNCHANGED <<orders, drainPosted, accepted, stopped, stopPosted, session, sid,
                     stream, connected, logged, gwSeq, gw>>
  BY DEF OnRead, callerVars
<1>3. /\ inbox \in Seq(Answers) /\ Len(inbox) \in Nat \ {0}
      /\ Head(inbox) = inbox[1] /\ 1 \in DOMAIN inbox /\ inbox[1] \in Answers
      /\ DOMAIN inbox = 1 .. Len(inbox)
  BY <1>1, <1>2 DEF FixTypes
<1>4. /\ inbox' \in Seq(Answers) /\ Len(inbox') = Len(inbox) - 1
      /\ \A i \in 1 .. Len(inbox) - 1 : inbox'[i] = inbox[i + 1]
  BY <1>2, <1>3, HeadTailProperties
<1>5. InboxInv'
  <2>1. ASSUME NEW i \in DOMAIN inbox'
        PROVE  i + 1 \in DOMAIN inbox /\ inbox'[i] = inbox[i + 1]
    <3>1. i \in 1 .. Len(inbox) - 1
      BY <1>3, <1>4
    <3>2. QED
      BY <1>3, <1>4, <3>1
  <2>2. QED
    BY <1>1, <1>2, <2>1 DEF InboxInv
<1>6. CASE partial
  <2>1. UNCHANGED <<seqIn, seqOut, wqueue, wop, begun, last, pending, results>>
    BY <1>6 DEF OnRead, history
  <2>2. FixTypes'
    BY <1>1, <1>2, <1>4, <2>1 DEF FixTypes
  <2>3. WireInv' /\ OrderInv' /\ FrameInv' /\ JobInv' /\ NextInOrder
    BY <1>1, <1>2, <2>1 DEF WireInv, OrderInv, FrameInv, JobInv, NextInOrder
  <2>4. QED
    BY <1>5, <2>2, <2>3 DEF FixInv
<1>7. CASE ~partial
  <2> DEFINE f == inbox[1]
  <2>1. HandleFrame(f)
    BY <1>3, <1>7 DEF OnRead
  <2>2. f \in Answers /\ f.seq \in Nat
    BY <1>3 DEF Answers
  <2>3. seqIn' \in Nat
    <3>1. seqIn \in Nat /\ seqIn' = SeqAfter(f)
      BY <1>1, <2>1 DEF HandleFrame, FixTypes
    <3>2. QED
      BY <2>2, <3>1 DEF SeqAfter
  <2>4. AdminOnly(Replies(f))
    BY RepliesAreAdmin
  <2>5. WriteTypes' /\ WireInv' /\ OrderInv' /\ FrameInv' /\ NextInOrder
    <3>1. Write(Replies(f))
      BY <2>1 DEF HandleFrame
    <3>2. QED
      BY <1>2, <2>4, <3>1, AdminWrite
  <2>6. /\ pending' \subseteq Jobs /\ results' \in [Jobs -> Seq(Reports)] /\ JobInv'
    <3>1. pending \subseteq Jobs /\ results \in [Jobs -> Seq(Reports)]
      BY <1>1 DEF FixTypes
    <3>2. CASE ~(IsReport(f) /\ f.job \in pending)
      <4>1. UNCHANGED <<pending, results>>
        BY <2>1, <3>2 DEF HandleFrame
      <4>2. QED
        BY <1>1, <1>2, <3>1, <4>1 DEF JobInv
    <3>3. CASE IsReport(f) /\ f.job \in pending
      <4>1. /\ results' = [results EXCEPT ![f.job] = Append(@, f.kind)]
            /\ pending' = pending \ {f.job}
        BY <2>1, <3>3 DEF HandleFrame
      <4>2. /\ f.job \in Jobs /\ gw[f.job] \in {"new", "done"} /\ f.kind \in Reports
            /\ results[f.job] = <<>>
        BY <1>1, <1>3, <3>1, <3>3 DEF InboxInv, JobInv, IsReport
      <4>3. /\ Append(<<>>, f.kind) \in Seq(Reports) /\ Len(Append(<<>>, f.kind)) = 1
        BY <4>2
      <4>4. /\ results' \in [Jobs -> Seq(Reports)]
            /\ results'[f.job] = Append(<<>>, f.kind)
            /\ \A j \in Jobs : j # f.job => results'[j] = results[j]
        BY <3>1, <4>1, <4>2, <4>3
      <4>5. JobInv'
        <5>1. SUFFICES ASSUME NEW j \in Jobs
                       PROVE  /\ j > accepted => gw[j] = "none"
                              /\ j \in pending' => results'[j] = <<>>
                              /\ Len(results'[j]) <= 1
                              /\ results'[j] # <<>> => gw[j] \in {"new", "done"}
          BY <1>2 DEF JobInv
        <5>2. CASE j = f.job
          BY <1>1, <4>1, <4>2, <4>3, <4>4, <5>2 DEF JobInv
        <5>3. CASE j # f.job
          BY <1>1, <4>1, <4>4, <5>3 DEF JobInv
        <5>4. QED
          BY <5>2, <5>3
      <4>6. QED
        BY <3>1, <4>1, <4>4, <4>5
    <3>4. QED
      BY <3>2, <3>3
  <2>7. FixTypes'
    BY <1>1, <1>2, <1>4, <2>3, <2>5, <2>6 DEF FixTypes, WriteTypes
  <2>8. QED
    BY <1>5, <2>5, <2>6, <2>7 DEF FixInv
<1>8. QED
  BY <1>6, <1>7

(* A frame that arrives.  Only the order in flight can have it as its      *)
(* frame, and the gateway has not seen that order yet.                     *)
LEMMA ArrivesStep ==
  ASSUME FixInv, Arrives
  PROVE  FixInv' /\ NextInOrder
<1>1. FixTypes /\ WireInv /\ OrderInv /\ FrameInv /\ JobInv /\ InboxInv
  BY DEF FixInv
<1> DEFINE f == wqueue[1]
<1>2. /\ wop = "inflight" /\ wop' = "done"
      /\ UNCHANGED <<orders, drainPosted, accepted, stopped, stopPosted, session, sid,
                     stream, connected, armed, wqueue, seqOut, seqIn, partial, pending,
                     begun, last, results>>
  BY DEF Arrives, callerVars, history
<1>3. /\ wqueue # <<>> /\ wqueue[1] = last /\ 1 \in DOMAIN wqueue /\ Head(wqueue) = f
  BY <1>1, <1>2 DEF WireInv, FixTypes
<1>4. /\ logged' = (logged \/ f.kind = "logon")
      /\ gw' = (IF logged /\ f.kind = "order" THEN [gw EXCEPT ![f.job] = "got"] ELSE gw)
      /\ IF f.kind = "logon" /\ ~logged
         THEN /\ gwSeq' = gwSeq + 1
              /\ inbox' = Append(inbox, [kind |-> "logon", job |-> 0, seq |-> gwSeq + 1])
         ELSE UNCHANGED <<gwSeq, inbox>>
  BY <1>3 DEF Arrives
<1>5. f.kind = "order" => f.job \in Jobs /\ f.job <= accepted /\ gw[f.job] = "none"
  BY <1>1, <1>2, <1>3 DEF FrameInv
<1>6. /\ gw' \in [Jobs -> {"none", "got", "new", "done"}]
      /\ \A j \in Jobs : gw'[j] # gw[j] =>
           /\ f.kind = "order" /\ j = f.job /\ gw[j] = "none" /\ j <= accepted
  <2>1. gw \in [Jobs -> {"none", "got", "new", "done"}]
    BY <1>1 DEF FixTypes
  <2>2. CASE logged /\ f.kind = "order"
    BY <1>4, <1>5, <2>1, <2>2
  <2>3. CASE ~(logged /\ f.kind = "order")
    BY <1>4, <2>1, <2>3
  <2>4. QED
    BY <2>2, <2>3
<1>7. /\ gwSeq' \in Nat /\ inbox' \in Seq(Answers)
      /\ \A i \in DOMAIN inbox' : \/ i \in DOMAIN inbox /\ inbox'[i] = inbox[i]
                                  \/ inbox'[i].kind = "logon"
  <2>1. gwSeq \in Nat /\ inbox \in Seq(Answers) /\ DOMAIN inbox = 1 .. Len(inbox)
        /\ Len(inbox) \in Nat
    BY <1>1, FixFacts DEF FixTypes
  <2>2. CASE f.kind = "logon" /\ ~logged
    <3> DEFINE a == [kind |-> "logon", job |-> 0, seq |-> gwSeq + 1]
    <3>1. a \in Answers /\ a.kind = "logon"
      <4>1. 0 \in 0 .. MaxJobs /\ gwSeq + 1 \in Nat
        BY <2>1, FixAssumption
      <4>2. QED
        BY <4>1 DEF Answers
    <3>2. gwSeq' = gwSeq + 1 /\ inbox' = Append(inbox, a)
      BY <1>4, <2>2
    <3> HIDE DEF a
    <3>3. /\ inbox' \in Seq(Answers) /\ Len(inbox') = Len(inbox) + 1
          /\ \A i \in 1 .. Len(inbox) : inbox'[i] = inbox[i]
          /\ inbox'[Len(inbox) + 1] = a
      BY <2>1, <3>1, <3>2, AppendProperties
    <3>4. DOMAIN inbox' = 1 .. Len(inbox) + 1
      BY <2>1, <3>3
    <3>5. QED
      BY <2>1, <3>1, <3>2, <3>3, <3>4
  <2>3. CASE ~(f.kind = "logon" /\ ~logged)
    BY <1>4, <2>1, <2>3
  <2>4. QED
    BY <2>2, <2>3
<1>8. FixTypes'
  <2>1. logged' \in BOOLEAN
    BY <1>4
  <2>2. QED
    BY <1>1, <1>2, <1>6, <1>7, <2>1 DEF FixTypes
<1>9. WireInv' /\ NextInOrder
  BY <1>1, <1>2 DEF WireInv, NextInOrder
<1>10. OrderInv'
  <2>1. \A i \in DOMAIN orders : orders[i] \in Jobs
    BY <1>1, FixFacts
  <2>2. \A i \in DOMAIN orders : f.kind = "order" => f.job # orders[i]
    BY <1>1, <1>3 DEF OrderInv
  <2>3. \A i \in DOMAIN orders : gw'[orders[i]] = gw[orders[i]]
    BY <1>6, <2>1, <2>2
  <2>4. QED
    BY <1>1, <1>2, <2>3 DEF OrderInv
<1>11. FrameInv'
  <2>1. SUFFICES ASSUME NEW i \in DOMAIN wqueue, wqueue[i].kind = "order"
                 PROVE  gw'[wqueue[i].job] = "none" \/ i = 1
    BY <1>1, <1>2 DEF FrameInv
  <2>2. wqueue[i].job \in Jobs /\ gw[wqueue[i].job] = "none"
    BY <1>1, <1>2, <2>1 DEF FrameInv
  <2>3. f.kind = "order" /\ wqueue[i].job = f.job => i = 1
    BY <1>1, <1>3, <2>1 DEF FrameInv
  <2>4. QED
    BY <1>6, <2>2, <2>3
<1>12. JobInv'
  <2>1. ASSUME NEW j \in Jobs, gw'[j] # gw[j]
        PROVE  gw[j] = "none" /\ results[j] = <<>> /\ ~(j > accepted)
    <3>1. gw[j] = "none" /\ j <= accepted
      BY <1>6, <2>1
    <3>2. results[j] = <<>>
      BY <1>1, <3>1 DEF JobInv
    <3>3. ~(j > accepted)
      BY <1>1, <3>1, FixFacts DEF FixTypes
    <3>4. QED
      BY <3>1, <3>2, <3>3
  <2>2. QED
    BY <1>1, <1>2, <2>1 DEF JobInv
<1>13. InboxInv'
  <2>1. SUFFICES ASSUME NEW i \in DOMAIN inbox', inbox'[i].kind \in Reports
                 PROVE  inbox'[i].job \in Jobs /\ gw'[inbox'[i].job] \in {"new", "done"}
    BY DEF InboxInv
  <2>2. i \in DOMAIN inbox /\ inbox'[i] = inbox[i]
    BY <1>7, <2>1 DEF Reports
  <2>3. inbox[i].job \in Jobs /\ gw[inbox[i].job] \in {"new", "done"}
    BY <1>1, <2>1, <2>2 DEF InboxInv
  <2>4. QED
    BY <1>6, <2>2, <2>3
<1>14. QED
  BY <1>8, <1>9, <1>10, <1>11, <1>12, <1>13 DEF FixInv

LEMMA GatewayStep ==
  ASSUME FixInv,
         NEW kind \in {"test", "reset"} \cup Reports, NEW j \in 0 .. MaxJobs,
         NEW skip \in Nat, GatewaySends(kind, j, skip),
         kind \in Reports => /\ j \in Jobs /\ gw[j] \in {"got", "new"}
                             /\ gw' = [gw EXCEPT ![j] = IF kind = "NEW" THEN "new" ELSE "done"],
         kind \notin Reports => gw' = gw
  PROVE  FixInv' /\ NextInOrder
<1>1. FixTypes /\ WireInv /\ OrderInv /\ FrameInv /\ JobInv /\ InboxInv
  BY DEF FixInv
<1> DEFINE a == [kind |-> kind, job |-> j, seq |-> gwSeq + 1 + skip]
<1>2. /\ gwSeq' = gwSeq + 1 + skip /\ inbox' = Append(inbox, a)
      /\ UNCHANGED <<orders, drainPosted, accepted, stopped, stopPosted, session, sid,
                     stream, connected, armed, wqueue, wop, seqOut, seqIn, partial, pending,
                     begun, last, logged, results>>
  BY DEF GatewaySends, callerVars, history
<1>3. gwSeq \in Nat /\ gwSeq' \in Nat /\ inbox \in Seq(Answers)
      /\ gw \in [Jobs -> {"none", "got", "new", "done"}]
  BY <1>1, <1>2 DEF FixTypes
<1>4. a \in Answers /\ a.kind = kind /\ a.job = j
  BY <1>2, <1>3 DEF Answers
<1> HIDE DEF a
<1>5. /\ inbox' \in Seq(Answers) /\ Len(inbox') = Len(inbox) + 1
      /\ \A i \in 1 .. Len(inbox) : inbox'[i] = inbox[i]
      /\ inbox'[Len(inbox) + 1] = a
  BY <1>2, <1>3, <1>4, AppendProperties
<1>6. /\ gw' \in [Jobs -> {"none", "got", "new", "done"}]
      /\ \A k \in Jobs : gw'[k] # gw[k] =>
           k = j /\ gw[k] \in {"got", "new"} /\ gw'[k] \in {"new", "done"}
      /\ kind \in Reports => j \in Jobs /\ gw'[j] \in {"new", "done"}
  <2>1. CASE kind \in Reports
    BY <1>3, <2>1
  <2>2. CASE kind \notin Reports
    BY <1>3, <2>2
  <2>3. QED
    BY <2>1, <2>2
<1>7. \A k \in Jobs : /\ gw[k] = "none" => gw'[k] = "none"
                      /\ gw[k] \in {"new", "done"} => gw'[k] \in {"new", "done"}
  BY <1>6
<1>8. FixTypes'
  BY <1>1, <1>2, <1>3, <1>5, <1>6 DEF FixTypes
<1>9. WireInv' /\ NextInOrder
  BY <1>1, <1>2 DEF WireInv, NextInOrder
<1>10. OrderInv'
  <2>1. \A i \in DOMAIN orders : orders[i] \in Jobs
    BY <1>1, FixFacts
  <2>2. \A i \in DOMAIN orders : gw[orders[i]] = "none" => gw'[orders[i]] = "none"
    BY <1>7, <2>1
  <2>3. UNCHANGED <<orders, accepted, wqueue>>
    BY <1>2
  <2>4. QED
    BY <1>1, <2>2, <2>3 DEF OrderInv
<1>11. FrameInv'
  <2>1. SUFFICES ASSUME NEW i \in DOMAIN wqueue, wqueue[i].kind = "order"
                 PROVE  gw'[wqueue[i].job] = "none" \/ (i = 1 /\ wop = "done")
    BY <1>1, <1>2 DEF FrameInv
  <2>2. /\ wqueue[i].job \in Jobs
        /\ gw[wqueue[i].job] = "none" \/ (i = 1 /\ wop = "done")
    BY <1>1, <2>1 DEF FrameInv
  <2>3. QED
    BY <1>7, <2>2
<1>12. JobInv'
  <2>1. UNCHANGED <<accepted, pending, results>>
    BY <1>2
  <2>2. QED
    BY <1>1, <1>7, <2>1 DEF JobInv
<1>13. InboxInv'
  <2>1. SUFFICES ASSUME NEW i \in DOMAIN inbox', inbox'[i].kind \in Reports
                 PROVE  inbox'[i].job \in Jobs /\ gw'[inbox'[i].job] \in {"new", "done"}
    BY DEF InboxInv
  <2>2. Len(inbox) \in Nat /\ DOMAIN inbox = 1 .. Len(inbox)
        /\ DOMAIN inbox' = 1 .. Len(inbox) + 1
    BY <1>1, <1>5, FixFacts
  <2>3. CASE i = Len(inbox) + 1
    BY <1>4, <1>5, <1>6, <2>1, <2>3
  <2>4. CASE i \in DOMAIN inbox
    BY <1>1, <1>5, <1>7, <2>1, <2>2, <2>4 DEF InboxInv
  <2>5. QED
    BY <2>2, <2>3, <2>4
<1>14. QED
  BY <1>8, <1>9, <1>10, <1>11, <1>12, <1>13 DEF FixInv

LEMMA FixInvNext == FixInv /\ [Next]_vars => FixInv' /\ NextInOrder
<1>1. SUFFICES ASSUME FixInv, [Next]_vars PROVE FixInv' /\ NextInOrder
  OBVIOUS
<1>2. CASE UNCHANGED vars
  BY <1>1, <1>2 DEF FixInv, FixTypes, WireInv, OrderInv, FrameInv, JobInv, InboxInv,
       NextInOrder, vars, callerVars, history, gatewayVars
<1>3. CASE Execute \/ Stop \/ SessionThread \/ ConnectFails \/ OnTimer \/ OnPeerTimeout
           \/ Arrives \/ StreamBreaks
  BY <1>1, <1>3, ExecuteStep, QuietStep, DrainStep, OnWriteStep, OnReadStep, OnTimerStep,
     ArrivesStep DEF SessionThread
<1>4. ASSUME NEW j \in Jobs, NEW kind \in Reports, GatewayReports(j, kind)
      PROVE  FixInv' /\ NextInOrder
  <2>1. /\ j \in 0 .. MaxJobs /\ 0 \in Nat /\ gw[j] \in {"got", "new"}
        /\ gw' = [gw EXCEPT ![j] = IF kind = "NEW" THEN "new" ELSE "done"]
        /\ GatewaySends(kind, j, 0)
    BY <1>4, FixAssumption DEF GatewayReports, Jobs
  <2>2. QED
    BY <1>1, <2>1, GatewayStep
<1>5. ASSUME NEW kind \in {"test", "reset"}, NEW skip \in {0, 1}, GatewayAdmin(kind, skip)
      PROVE  FixInv' /\ NextInOrder
  <2>1. /\ 0 \in 0 .. MaxJobs /\ skip \in Nat /\ gw' = gw /\ kind \notin Reports
        /\ GatewaySends(kind, 0, skip)
    BY <1>5, FixAssumption DEF GatewayAdmin, Reports
  <2>2. QED
    BY <1>1, <2>1, GatewayStep
<1>6. QED
  BY <1>1, <1>2, <1>3, <1>4, <1>5 DEF Next

-----------------------------------------------------------------------------
(* The Logon is the first frame that a session numbers.                    *)

\* Queue q holds the Logon of stream id.
HoldsLogon(q, id) ==
  \E i \in DOMAIN q : q[i].kind = "logon" /\ q[i].sid = id /\ q[i].seq = 1

(* As long as no frame of the session was begun, its Logon is queued.      *)
LogonInv ==
  /\ \A i \in DOMAIN wqueue : wqueue[i].seq >= 1
  /\ last.sid < sid => HoldsLogon(wqueue, sid)

\* What a step does to the write queue and to the frame begun last.
QueueStep ==
  /\ \A i \in DOMAIN wqueue' : wqueue'[i].seq >= 1
  /\ last.sid < sid' => HoldsLogon(wqueue', sid')
  /\ begun' # begun => 1 \in DOMAIN wqueue' /\ last' = wqueue'[1]
  /\ begun' = begun => last' = last

LEMMA PumpBegins ==
  ASSUME NEW st, NEW q \in Seq(Frames), NEW w, begun \in Nat, Pump(st, q, w)
  PROVE  /\ begun' # begun => 1 \in DOMAIN q /\ last' = q[1]
         /\ begun' = begun => last' = last
<1>1. CASE w = "none" /\ q # <<>>
  <2>1. begun' = begun + 1 /\ last' = Head(q)
    BY <1>1 DEF Pump, Begin
  <2>2. QED
    BY <1>1, <2>1
<1>2. CASE ~(w = "none" /\ q # <<>>)
  BY <1>2 DEF Pump
<1>3. QED
  BY <1>1, <1>2

LEMMA WriteQueueStep ==
  ASSUME FixTypes, WireInv, LogonInv, NEW id \in Nat, NEW n \in Nat \ {0}, NEW st,
         NEW messages \in Seq(Messages),
         \/ id = sid
         \/ n = 1 /\ 1 \in DOMAIN messages /\ messages[1][1] = "logon",
         sid' = id, WriteTo(id, st, n, messages)
  PROVE  QueueStep
<1> DEFINE new == NewFrames(id, n, messages)
           q == wqueue \o new
<1>1. wqueue' = q /\ Pump(st, q, wop)
  BY DEF WriteTo, NewFrames
<1>2. new = NewFrames(id, n, messages) /\ q = wqueue \o new
  OBVIOUS
<1>3. /\ wqueue \in Seq(Frames) /\ begun \in Nat /\ Len(wqueue) \in Nat
      /\ DOMAIN wqueue = 1 .. Len(wqueue) /\ Len(messages) \in Nat
      /\ DOMAIN messages = 1 .. Len(messages)
  BY FixFacts DEF FixTypes
<1> HIDE DEF q, new
<1>4. Framed(q, wqueue, id, n, messages)
  BY <1>2, <1>3, Framing
<1>5. /\ q \in Seq(Frames) /\ DOMAIN q = 1 .. Len(wqueue) + Len(messages)
      /\ \A i \in 1 .. Len(wqueue) : q[i] = wqueue[i]
      /\ \A i \in 1 .. Len(wqueue) + Len(messages) :
           i > Len(wqueue) =>
             /\ q[i].kind = messages[i - Len(wqueue)][1]
             /\ q[i].sid = id /\ q[i].seq = n + (i - Len(wqueue)) - 1
  BY <1>4 DEF Framed
<1>6. ASSUME NEW i \in DOMAIN q PROVE q[i].seq >= 1
  <2>1. CASE i <= Len(wqueue)
    <3>1. i \in DOMAIN wqueue /\ q[i] = wqueue[i]
      BY <1>3, <1>5, <2>1
    <3>2. QED
      BY <3>1 DEF LogonInv
  <2>2. CASE i > Len(wqueue)
    <3>1. q[i].seq = n + (i - Len(wqueue)) - 1 /\ i \in Nat
      BY <1>3, <1>5, <2>2
    <3>2. QED
      BY <1>3, <2>2, <3>1
  <2>3. QED
    BY <1>3, <1>5, <2>1, <2>2
<1>7. ASSUME last.sid < id PROVE HoldsLogon(q, id)
  <2>1. CASE id = sid
    <3>1. HoldsLogon(wqueue, id)
      BY <1>7, <2>1 DEF LogonInv
    <3>2. PICK i \in DOMAIN wqueue :
             wqueue[i].kind = "logon" /\ wqueue[i].sid = id /\ wqueue[i].seq = 1
      BY <3>1 DEF HoldsLogon
    <3>3. i \in DOMAIN q /\ q[i] = wqueue[i]
      BY <1>3, <1>5
    <3>4. QED
      BY <3>2, <3>3 DEF HoldsLogon
  <2>2. CASE n = 1 /\ 1 \in DOMAIN messages /\ messages[1][1] = "logon"
    <3> DEFINE k == Len(wqueue) + 1
    <3>1. k \in DOMAIN q /\ k > Len(wqueue) /\ k - Len(wqueue) = 1
      BY <1>3, <1>5, <2>2
    <3> HIDE DEF k
    <3>2. q[k].kind = messages[1][1] /\ q[k].sid = id /\ q[k].seq = n + 1 - 1
      BY <1>5, <3>1
    <3>3. q[k].seq = 1 /\ q[k].kind = "logon"
      BY <2>2, <3>2
    <3>4. QED
      BY <3>1, <3>2, <3>3 DEF HoldsLogon
  <2>3. QED
    BY <2>1, <2>2
<1>8. /\ begun' # begun => 1 \in DOMAIN q /\ last' = q[1]
      /\ begun' = begun => last' = last
  BY <1>1, <1>3, <1>5, PumpBegins
<1>9. QED
  BY <1>1, <1>6, <1>7, <1>8 DEF QueueStep

LEMMA OnWriteQueueStep ==
  ASSUME FixTypes, WireInv, LogonInv, OnWrite
  PROVE  QueueStep
<1>1. sid' = sid /\ wop \in {"done", "failed"}
  BY DEF OnWrite
<1>2. /\ wqueue # <<>> /\ wqueue[1] = last /\ wqueue \in Seq(Frames)
      /\ Len(wqueue) \in Nat \ {0} /\ DOMAIN wqueue = 1 .. Len(wqueue)
      /\ begun \in Nat /\ last \in Frames
  BY <1>1, FixFacts DEF WireInv, FixTypes
<1> DEFINE q == Tail(wqueue)
<1>3. wqueue' = q
  BY <1>2 DEF OnWrite
<1>4. /\ q \in Seq(Frames) /\ Len(q) = Len(wqueue) - 1
      /\ \A i \in 1 .. Len(wqueue) - 1 : q[i] = wqueue[i + 1]
  BY <1>2, HeadTailProperties
<1>5. wop = "done" => Pump(stream, q, "none")
  BY <1>3 DEF OnWrite
<1>6. wop = "failed" => begun' = begun /\ last' = last
  BY DEF OnWrite, history
<1> HIDE DEF q
<1>7. DOMAIN q = 1 .. Len(wqueue) - 1
  BY <1>2, <1>4
<1>8. ASSUME NEW i \in DOMAIN q PROVE q[i].seq >= 1
  <2>1. i + 1 \in DOMAIN wqueue /\ q[i] = wqueue[i + 1]
    BY <1>2, <1>4, <1>7
  <2>2. QED
    BY <2>1 DEF LogonInv
<1>9. ASSUME last.sid < sid PROVE HoldsLogon(q, sid)
  <2>1. HoldsLogon(wqueue, sid)
    BY <1>9 DEF LogonInv
  <2>2. PICK i \in DOMAIN wqueue :
           wqueue[i].kind = "logon" /\ wqueue[i].sid = sid /\ wqueue[i].seq = 1
    BY <2>1 DEF HoldsLogon
  <2>3. i # 1
    <3>1. last.sid \in Nat
      BY <1>2, FrameFacts
    <3>2. SUFFICES ASSUME i = 1 PROVE FALSE
      OBVIOUS
    <3>3. last.sid = sid
      BY <1>2, <2>2, <3>2
    <3>4. QED
      BY <1>9, <3>1, <3>3
  <2> DEFINE k == i - 1
  <2>4. k \in 1 .. Len(wqueue) - 1 /\ k + 1 = i
    BY <1>2, <2>2, <2>3
  <2> HIDE DEF k
  <2>5. k \in DOMAIN q /\ q[k] = wqueue[i]
    BY <1>4, <1>7, <2>4
  <2>6. QED
    BY <2>2, <2>5 DEF HoldsLogon
<1>10. /\ begun' # begun => 1 \in DOMAIN q /\ last' = q[1]
       /\ begun' = begun => last' = last
  <2>1. CASE wop = "done"
    BY <1>2, <1>4, <1>5, <2>1, PumpBegins
  <2>2. CASE wop = "failed"
    BY <1>6, <2>2
  <2>3. QED
    BY <1>1, <2>1, <2>2
<1>11. QED
  BY <1>1, <1>3, <1>8, <1>9, <1>10 DEF QueueStep

LEMMA NextQueueStep == FixInv /\ LogonInv /\ [Next]_vars => QueueStep
<1>1. SUFFICES ASSUME FixInv, LogonInv, [Next]_vars PROVE QueueStep
  OBVIOUS
<1>2. FixTypes /\ WireInv
  BY <1>1 DEF FixInv
<1>3. CASE UNCHANGED <<wqueue, sid, begun, last>>
  BY <1>1, <1>3 DEF LogonInv, QueueStep, HoldsLogon
<1>4. sid \in Nat /\ seqOut \in Nat \ {0}
  BY <1>2 DEF FixTypes
<1>5. ASSUME NEW messages \in Seq(Messages), Write(messages), sid' = sid
      PROVE  QueueStep
  BY <1>1, <1>2, <1>4, <1>5, WriteQueueStep DEF Write
<1>6. CASE ConnectSucceeds
  <2> DEFINE logon == <<<<"logon", 0>>>>
             messages == logon \o OrderMessages
  <2>1. sid' = sid + 1 /\ WriteTo(sid + 1, "up", 1, messages) /\ sid + 1 \in Nat
    BY <1>4, <1>6 DEF ConnectSucceeds
  <2>2. logon \in Seq(Messages) /\ Len(logon) = 1 /\ logon[1][1] = "logon"
    <3>1. "logon" \in Kinds \ {"order"}
      BY DEF Kinds
    <3>2. QED
      BY <3>1, AdminMessage DEF AdminOnly
  <2>3. OrderMessages \in Seq(Messages) /\ messages = logon \o OrderMessages
    BY <1>2, OrderMessageFacts
  <2> HIDE DEF logon, messages
  <2>4. /\ messages \in Seq(Messages) /\ Len(messages) = Len(logon) + Len(OrderMessages)
        /\ \A i \in 1 .. Len(logon) : messages[i] = logon[i]
    BY <2>2, <2>3, Concat
  <2>5. 1 \in DOMAIN messages /\ messages[1][1] = "logon" /\ 1 \in Nat \ {0}
    <3>1. Len(OrderMessages) \in Nat /\ DOMAIN messages = 1 .. Len(messages)
      BY <2>3, <2>4
    <3>2. QED
      BY <2>2, <2>4, <3>1
  <2>6. QED
    BY <1>1, <1>2, <2>1, <2>4, <2>5, WriteQueueStep
<1>7. CASE Drain
  BY <1>2, <1>5, <1>7, OrderMessageFacts DEF Drain
<1>8. CASE OnTimer
  <2>1. <<<<"beat", 0>>>> \in Seq(Messages)
    <3>1. "beat" \in Kinds \ {"order"}
      BY DEF Kinds
    <3>2. QED
      BY <3>1, AdminMessage DEF AdminOnly
  <2>2. QED
    BY <1>5, <1>8, <2>1 DEF OnTimer
<1>9. CASE OnRead
  <2>1. sid' = sid
    BY <1>9 DEF OnRead
  <2>2. CASE partial
    BY <1>3, <1>9, <2>1, <2>2 DEF OnRead, history
  <2>3. CASE ~partial
    <3>1. Write(Replies(Head(inbox)))
      BY <1>9, <2>3 DEF OnRead, HandleFrame
    <3>2. Replies(Head(inbox)) \in Seq(Messages)
      BY RepliesAreAdmin DEF AdminOnly
    <3>3. QED
      BY <1>5, <2>1, <3>1, <3>2
  <2>4. QED
    BY <2>2, <2>3
<1>10. CASE OnWrite
  BY <1>1, <1>2, <1>10, OnWriteQueueStep
<1>11. CASE \/ Execute \/ Stop \/ LoopTop \/ ConnectFails \/ BackoffEnds \/ EndSession
            \/ OnReadError \/ OnPeerTimeout \/ OnStop \/ StreamBreaks \/ Arrives
            \/ UNCHANGED vars
  BY <1>3, <1>11 DEF Execute, Stop, LoopTop, ConnectFails, BackoffEnds, EndSession,
       OnReadError, OnPeerTimeout, OnStop, StreamBreaks, Arrives, vars, history
<1>12. ASSUME NEW kind, NEW j, NEW skip, GatewaySends(kind, j, skip) PROVE QueueStep
  BY <1>3, <1>12 DEF GatewaySends, history
<1>13. CASE \/ \E j \in Jobs, kind \in Reports : GatewayReports(j, kind)
            \/ GatewayAdmin("test", 1) \/ GatewayAdmin("reset", 0)
  BY <1>12, <1>13 DEF GatewayReports, GatewayAdmin
<1>14. QED
  BY <1>1, <1>6, <1>7, <1>8, <1>9, <1>10, <1>11, <1>13 DEF Next, SessionThread

\* The step that WireInOrder allows.
OwnInOrder ==
  begun' # begun =>
    IF last'.sid = sid'
    THEN IF last.sid = sid' THEN last.seq < last'.seq ELSE last'.kind = "logon"
    ELSE last # last'

LEMMA LogonNext ==
  FixInv /\ LogonInv /\ [Next]_vars => LogonInv' /\ OwnInOrder
<1>1. SUFFICES ASSUME FixInv, LogonInv, [Next]_vars PROVE LogonInv' /\ OwnInOrder
  OBVIOUS
<1>2. QueueStep /\ FixInv' /\ NextInOrder
  BY <1>1, NextQueueStep, FixInvNext
<1>3. /\ last \in Frames /\ last' \in Frames /\ wqueue' \in Seq(Frames)
      /\ sid' \in Nat
  BY <1>1, <1>2 DEF FixInv, FixTypes
<1>4. /\ last.sid \in Nat /\ last.seq \in Nat /\ last'.sid \in Nat
      /\ last'.seq \in Nat
  BY <1>3, FrameFacts
<1>5. begun' # begun => Less(last, last'.sid, last'.seq)
  BY <1>2 DEF NextInOrder
<1>6. last.sid <= last'.sid
  <2>1. CASE begun' = begun
    BY <1>2, <1>4, <2>1 DEF QueueStep
  <2>2. CASE begun' # begun
    BY <1>4, <1>5, <2>2 DEF Less
  <2>3. QED
    BY <2>1, <2>2
<1>7. LogonInv'
  <2>1. ASSUME last'.sid < sid' PROVE HoldsLogon(wqueue', sid')
    <3>1. last.sid < sid'
      BY <1>3, <1>4, <1>6, <2>1
    <3>2. QED
      BY <1>2, <3>1 DEF QueueStep
  <2>2. \A i \in DOMAIN wqueue' : wqueue'[i].seq >= 1
    BY <1>2 DEF QueueStep
  <2>3. QED
    BY <2>1, <2>2 DEF LogonInv, HoldsLogon
<1>8. ASSUME begun' # begun, last'.sid = sid', last.sid # sid'
      PROVE  last'.kind = "logon"
  <2>1. last.sid < sid'
    BY <1>3, <1>4, <1>6, <1>8
  <2>2. HoldsLogon(wqueue', sid')
    BY <1>2, <2>1 DEF QueueStep
  <2>3. PICK i \in DOMAIN wqueue' :
           /\ wqueue'[i].kind = "logon" /\ wqueue'[i].sid = sid'
           /\ wqueue'[i].seq = 1
    BY <2>2 DEF HoldsLogon
  <2>4. 1 \in DOMAIN wqueue' /\ last' = wqueue'[1] /\ last'.seq >= 1
    BY <1>2, <1>8 DEF QueueStep
  <2>5. CASE i = 1
    BY <2>3, <2>4, <2>5
  <2>6. CASE i # 1
    <3>1. 1 < i
      BY <1>3, <2>3, <2>6
    <3>2. Less(wqueue'[1], wqueue'[i].sid, wqueue'[i].seq)
      BY <1>2, <2>3, <2>4, <3>1 DEF FixInv, WireInv
    <3>3. Less(last', sid', 1)
      BY <2>3, <2>4, <3>2
    <3>4. QED
      BY <1>3, <1>4, <1>8, <2>4, <3>3 DEF Less
  <2>7. QED
    BY <2>5, <2>6
<1>9. OwnInOrder
  <2>1. SUFFICES ASSUME begun' # begun
                 PROVE  IF last'.sid = sid'
                        THEN IF last.sid = sid' THEN last.seq < last'.seq
                                                ELSE last'.kind = "logon"
                        ELSE last # last'
    BY DEF OwnInOrder
  <2>2. Less(last, last'.sid, last'.seq)
    BY <1>5, <2>1
  <2>3. last # last' /\ (last.sid = last'.sid => last.seq < last'.seq)
    BY <1>4, <2>2 DEF Less
  <2>4. QED
    BY <1>8, <2>1, <2>3
<1>10. QED
  BY <1>7, <1>9

(* fix_executor.cpp:437-470.  A caller hears of an order at most once, and *)
(* only what the gateway reported of that very order, for any number of    *)
(* orders, faults and unsolicited frames.                                  *)
THEOREM FixReportedOnce == Spec => []ReportedOnce
<1>1. Spec => []FixInv
  BY FixInvInit, FixInvNext, PTL DEF Spec
<1>2. FixInv => ReportedOnce
  <2>1. SUFFICES ASSUME FixInv PROVE ReportedOnce
    OBVIOUS
  <2>2. FixTypes /\ WireInv /\ JobInv
    BY <2>1 DEF FixInv
  <2>3. {drainPosted, stopped, stopPosted, connected, armed, partial, logged} \subseteq BOOLEAN
    BY <2>2 DEF FixTypes
  <2>4. wop # "none" => wqueue # <<>> /\ Head(wqueue) = last
    BY <2>2 DEF WireInv, FixTypes
  <2>5. TypeOK
    BY <2>2, <2>3, <2>4 DEF TypeOK, FixTypes
  <2>6. QED
    BY <2>2, <2>5 DEF ReportedOnce, JobInv
<1>3. QED
  BY <1>1, <1>2, PTL

(* fix_executor.cpp:197, 259-282, 514-530.  The frames that a session      *)
(* numbers go out in the order of their numbers, each once and the Logon   *)
(* first, whatever the session inherits from the one before.               *)
THEOREM FixWireInOrder == Spec => WireInOrder
<1>1. Init => FixInv /\ LogonInv
  <2>1. Init => LogonInv
    BY DEF Init, LogonInv, NoFrame
  <2>2. QED
    BY <2>1, FixInvInit
<1>2. FixInv /\ LogonInv /\ [Next]_vars => FixInv' /\ LogonInv'
  BY FixInvNext, LogonNext
<1>3. FixInv /\ LogonInv /\ [Next]_vars =>
        [begun' # begun =>
           IF last'.sid = sid'
           THEN IF last.sid = sid' THEN last.seq < last'.seq
                                   ELSE last'.kind = "logon"
           ELSE last # last']_vars
  BY LogonNext DEF OwnInOrder
<1>4. QED
  BY <1>1, <1>2, <1>3, PTL DEF Spec, WireInOrder
=============================================================================
