----------------------- MODULE CTraderExecutorProofs ------------------------
(***************************************************************************)
(* Orders and answers of the cTrader executor, for every number of orders, *)
(* every size of the queue and every number of faults.                     *)
(***************************************************************************)
EXTENDS CTraderExecutor, FiniteSetTheorems, SequenceTheorems, TLAPS

Frame == {"accepted", "filled", "rejected", "error", "bye"} \X Nat
OrderStates == {"sent", "accepted", "rejected", "filled"}
Busy == {"connect", "send", "read", "report"}    \* the worker holds a job

Types ==
  /\ jobs \in Seq(Jobs) /\ Len(jobs) <= QueueLimit
  /\ {wake, stopped, ok} \subseteq BOOLEAN
  /\ worker \in Busy \cup {"wait", "off"}
  /\ job \in 0 .. MaxJobs /\ attempt \in {1, 2} /\ accepted \in 0 .. MaxJobs
  /\ stream \in {"none", "up", "dead"} /\ stage \in 1 .. 6
  /\ inbox \in Seq(Frame)
  /\ requests \in Seq(Jobs) /\ order \in Seq(OrderStates)
  /\ Len(order) = Len(requests)
  /\ result \in [Jobs -> {"pending", "ok", "failed", "dropped"}]
  /\ answer \in [Jobs -> 0 .. Len(requests)]

(* A stream that exists outside connect() is ready, and the worker that    *)
(* talks to the server has one.                                            *)
StreamInv ==
  /\ stream # "none" /\ worker # "connect" => stage = 6
  /\ worker \in {"send", "read"} => stream # "none"

(* Jobs leave the queue in the order of acceptance: the worker's job is    *)
(* the last one taken, and the later ones are untouched.                   *)
JobInv ==
  /\ job = accepted - Len(jobs)
  /\ \A i \in DOMAIN jobs : jobs[i] = job + i
  /\ worker \in Busy => job \in Jobs /\ result[job] = "pending"
  /\ \A j \in Jobs : j > job => result[j] = "pending" /\ answer[j] = 0
  /\ worker \in {"connect", "send", "read"} => answer[job] = 0

(* Requests are sorted by job, with at most two of a job; how many there   *)
(* are of the current one follows from the attempt.                        *)
RequestInv ==
  /\ \A i, k \in DOMAIN requests :
       i <= k => requests[i] <= requests[k] /\ (requests[i] = requests[k] => k <= i + 1)
  /\ \A k \in DOMAIN requests : requests[k] <= job
  /\ worker \in {"connect", "send"} /\ attempt = 1 =>
       \A k \in DOMAIN requests : requests[k] < job
  /\ <<worker, attempt>> \in {<<"read", 1>>, <<"connect", 2>>, <<"send", 2>>} =>
       \A k \in DOMAIN requests : requests[k] = job => k = Len(requests)

Told(kind, r) == \E i \in DOMAIN inbox : inbox[i] = <<kind, r>>
AnsweredBy(r) == {j \in Jobs : answer[j] = r}

(* An event is sent once, after the server's decision, and answers at most *)
(* one job: what still waits in the inbox has answered none.               *)
EventInv ==
  /\ \A i \in DOMAIN inbox :
       /\ inbox[i][2] \in 0 .. Len(requests)
       /\ inbox[i][1] \in Good => inbox[i][2] \in DOMAIN requests
  /\ \A i, k \in DOMAIN inbox :
       inbox[i] = inbox[k] /\ inbox[i][1] \in Good => i = k
  /\ \A r \in DOMAIN requests :
       /\ Told("filled", r) => order[r] = "filled"
       /\ Told("accepted", r) => order[r] \in {"accepted", "filled"}

AnswerInv ==
  /\ \A j \in Jobs : answer[j] # 0 => requests[answer[j]] <= j
  /\ \A r \in DOMAIN requests :
       /\ order[r] \notin {"accepted", "filled"} => AnsweredBy(r) = {}
       /\ order[r] = "accepted" =>
            /\ Told("accepted", r) => AnsweredBy(r) = {}
            /\ \A j, k \in AnsweredBy(r) : j = k
       /\ order[r] = "filled" =>
            /\ Told("accepted", r) /\ Told("filled", r) => AnsweredBy(r) = {}
            /\ Told("accepted", r) \/ Told("filled", r) =>
                 \A j, k \in AnsweredBy(r) : j = k
            /\ \A j, k, l \in AnsweredBy(r) : j = k \/ j = l \/ k = l

IInv == Types /\ StreamInv /\ JobInv /\ RequestInv /\ EventInv /\ AnswerInv

LEMMA Facts ==
  ASSUME IInv
  PROVE  /\ Len(jobs) \in Nat /\ DOMAIN jobs = 1 .. Len(jobs)
         /\ Len(inbox) \in Nat /\ DOMAIN inbox = 1 .. Len(inbox)
         /\ Len(requests) \in Nat /\ DOMAIN requests = 1 .. Len(requests)
         /\ Len(order) = Len(requests) /\ DOMAIN order = DOMAIN requests
         /\ \A k \in DOMAIN requests : requests[k] \in Jobs /\ order[k] \in OrderStates
         /\ \A i \in DOMAIN inbox : inbox[i] \in Frame
         /\ job \in Nat /\ accepted \in Nat /\ MaxJobs \in Nat
         /\ job <= MaxJobs /\ accepted <= MaxJobs
BY CTraderAssumption DEF IInv, Types

LEMMA StageNames ==
  /\ DOMAIN Stages = 1 .. 6
  /\ \A n \in 1 .. 6 : Stages[n] = "ready" <=> n = 6
<1>1. DOMAIN Stages = 1 .. 6
  BY DEF Stages
<1>2. /\ Stages[1] = "tls" /\ Stages[2] = "auth" /\ Stages[3] = "symbol"
      /\ Stages[4] = "subscribe" /\ Stages[5] = "spot" /\ Stages[6] = "ready"
  BY DEF Stages
<1>3. \A n \in 1 .. 6 : n = 1 \/ n = 2 \/ n = 3 \/ n = 4 \/ n = 5 \/ n = 6
  OBVIOUS
<1>4. QED
  BY <1>1, <1>2, <1>3

-----------------------------------------------------------------------------
(* The frames in the inbox.                                                *)

(* Frames are only taken from the front, or all of them thrown away.       *)
Shrinks(n) ==
  \A i \in DOMAIN inbox' : i + n \in DOMAIN inbox /\ inbox'[i] = inbox[i + n]

LEMMA InboxShrinks ==
  ASSUME IInv, NEW n \in Nat, inbox' \in Seq(Frame), Shrinks(n),
         UNCHANGED <<order, requests, answer>>
  PROVE  EventInv' /\ AnswerInv'
<1>1. DOMAIN inbox' \subseteq Nat /\ DOMAIN inbox \subseteq Nat
  BY Facts
<1>2. \A k, r : Told(k, r)' => Told(k, r)
  BY DEF Told, Shrinks
<1>3. EventInv'
  <2>1. \A i \in DOMAIN inbox' :
          /\ inbox'[i][2] \in 0 .. Len(requests')
          /\ inbox'[i][1] \in Good => inbox'[i][2] \in DOMAIN requests'
    BY DEF Shrinks, IInv, EventInv
  <2>2. ASSUME NEW i \in DOMAIN inbox', NEW k \in DOMAIN inbox',
               inbox'[i] = inbox'[k], inbox'[i][1] \in Good
        PROVE  i = k
    <3>1. i + n = k + n
      BY <2>2 DEF Shrinks, IInv, EventInv
    <3>2. QED
      BY <1>1, <3>1
  <2>3. \A r \in DOMAIN requests' :
          /\ Told("filled", r)' => order'[r] = "filled"
          /\ Told("accepted", r)' => order'[r] \in {"accepted", "filled"}
    BY <1>2 DEF IInv, EventInv
  <2>4. QED
    BY <2>1, <2>2, <2>3 DEF EventInv, Told
<1>4. AnswerInv'
  <2>1. \A r : AnsweredBy(r)' = AnsweredBy(r)
    BY DEF AnsweredBy
  <2>2. QED
    BY <1>2, <2>1 DEF IInv, AnswerInv
<1>5. QED
  BY <1>3, <1>4

LEMMA InboxSame ==
  ASSUME IInv, UNCHANGED <<inbox, order, requests, answer>>
  PROVE  EventInv' /\ AnswerInv'
<1>1. \A k, r : Told(k, r)' = Told(k, r)
  BY DEF Told
<1>2. \A r : AnsweredBy(r)' = AnsweredBy(r)
  BY DEF AnsweredBy
<1>3. EventInv'
  BY <1>1 DEF IInv, EventInv, Told
<1>4. AnswerInv'
  BY <1>1, <1>2 DEF IInv, AnswerInv, Told, AnsweredBy
<1>5. QED
  BY <1>3, <1>4

LEMMA InboxCleared ==
  ASSUME IInv, inbox' = <<>>, UNCHANGED <<order, requests, answer>>
  PROVE  EventInv' /\ AnswerInv' /\ inbox' \in Seq(Frame)
<1>1. inbox' \in Seq(Frame) /\ DOMAIN inbox' = {}
  OBVIOUS
<1>2. Shrinks(0)
  BY <1>1 DEF Shrinks
<1>3. QED
  BY <1>1, <1>2, InboxShrinks

LEMMA InboxTail ==
  ASSUME IInv, inbox # <<>>
  PROVE  /\ Head(inbox) \in Frame /\ Tail(inbox) \in Seq(Frame)
         /\ 1 \in DOMAIN inbox /\ Head(inbox) = inbox[1]
         /\ \A i \in DOMAIN Tail(inbox) :
              /\ i + 1 \in DOMAIN inbox /\ i + 1 # 1
              /\ Tail(inbox)[i] = inbox[i + 1]
<1>1. inbox \in Seq(Frame)
  BY DEF IInv, Types
<1>2. QED
  BY <1>1

(* One frame more: no execution event of success, and at most a request is *)
(* rejected.                                                               *)
LEMMA InboxNews ==
  ASSUME IInv, NEW f \in Frame, inbox' \in {inbox, Append(inbox, f)},
         f[2] \in 0 .. Len(requests), f[1] \notin Good,
         UNCHANGED <<requests, answer>>,
         \A r \in DOMAIN requests :
           order'[r] = order[r] \/ (order[r] = "sent" /\ order'[r] = "rejected")
  PROVE  EventInv' /\ AnswerInv' /\ inbox' \in Seq(Frame)
<1>1. CASE inbox' = inbox
  <2>1. \A k, r : Told(k, r)' = Told(k, r)
    BY <1>1 DEF Told
  <2>2. \A r : AnsweredBy(r)' = AnsweredBy(r)
    BY DEF AnsweredBy
  <2>3. EventInv'
    BY <1>1, <2>1 DEF IInv, EventInv
  <2>4. AnswerInv'
    BY <2>1, <2>2 DEF IInv, EventInv, AnswerInv
  <2>5. QED
    BY <1>1, <2>3, <2>4 DEF IInv, Types
<1>2. CASE inbox' = Append(inbox, f)
  <2> DEFINE n == Len(inbox)
  <2>1. /\ n \in Nat /\ DOMAIN inbox = 1 .. n /\ DOMAIN inbox' = 1 .. n + 1
        /\ inbox'[n + 1] = f /\ inbox' \in Seq(Frame)
        /\ \A i \in 1 .. n : inbox'[i] = inbox[i]
    <3>1. inbox \in Seq(Frame)
      BY DEF IInv, Types
    <3>2. QED
      BY <1>2, <3>1
  <2> HIDE DEF n
  <2>2. \A k \in Good : \A r : Told(k, r)' => Told(k, r)
    BY <2>1 DEF Told
  <2>3. \A r : AnsweredBy(r)' = AnsweredBy(r)
    BY DEF AnsweredBy
  <2>4. \A i \in DOMAIN inbox' :
          /\ inbox'[i][2] \in 0 .. Len(requests)
          /\ inbox'[i][1] \in Good => i \in DOMAIN inbox
          /\ inbox'[i][1] \in Good => inbox'[i][2] \in DOMAIN requests
    BY <2>1 DEF IInv, EventInv
  <2>5. EventInv'
    <3>1. \A i, k \in DOMAIN inbox' :
            inbox'[i] = inbox'[k] /\ inbox'[i][1] \in Good => i = k
      BY <2>1, <2>4 DEF IInv, EventInv
    <3>2. \A r \in DOMAIN requests :
            /\ Told("filled", r)' => order'[r] = "filled"
            /\ Told("accepted", r)' => order'[r] \in {"accepted", "filled"}
      BY <2>2 DEF IInv, EventInv, Good
    <3>3. QED
      BY <2>4, <3>1, <3>2 DEF EventInv
  <2>6. AnswerInv'
    BY <2>2, <2>3 DEF IInv, EventInv, AnswerInv, Good
  <2>7. QED
    BY <2>1, <2>5, <2>6
<1>3. QED
  BY <1>1, <1>2

(* The server accepts or fills a request, and may tell so: the request has *)
(* one event more to answer a job with.                                    *)
LEMMA InboxGoodNews ==
  ASSUME IInv, NEW r \in DOMAIN requests, NEW kind \in Good,
         inbox' \in {inbox, Append(inbox, <<kind, r>>)},
         order' = [order EXCEPT ![r] = kind],
         IF kind = "accepted" THEN order[r] = "sent" ELSE order[r] = "accepted",
         UNCHANGED <<requests, answer>>
  PROVE  EventInv' /\ AnswerInv' /\ inbox' \in Seq(Frame)
<1>1. /\ order'[r] = kind
      /\ \A q \in DOMAIN requests \ {r} : order'[q] = order[q]
      /\ <<kind, r>> \in Frame
  BY Facts DEF Frame, Good
<1>2. /\ ~ Told(kind, r) /\ kind \in {"accepted", "filled"}
      /\ Told("filled", r) => kind = "filled"
  BY DEF IInv, EventInv, Good
<1>3. \A q : AnsweredBy(q)' = AnsweredBy(q)
  BY DEF AnsweredBy
<1> DEFINE n == Len(inbox)
<1>4. /\ inbox' \in Seq(Frame) /\ n \in Nat /\ DOMAIN inbox = 1 .. n
      /\ \A i \in 1 .. n : i \in DOMAIN inbox' /\ inbox'[i] = inbox[i]
      /\ \A i \in DOMAIN inbox' :
           i \in 1 .. n \/ (i = n + 1 /\ inbox'[i] = <<kind, r>>)
  <2> DEFINE f == <<kind, r>>
  <2>1. inbox \in Seq(Frame) /\ f \in Frame
    BY <1>1 DEF IInv, Types
  <2>2. inbox' = inbox \/ inbox' = Append(inbox, f)
    OBVIOUS
  <2> HIDE DEF f
  <2>3. /\ inbox' \in Seq(Frame) /\ n \in Nat /\ DOMAIN inbox = 1 .. n
        /\ \A i \in 1 .. n : i \in DOMAIN inbox' /\ inbox'[i] = inbox[i]
        /\ \A i \in DOMAIN inbox' :
             i \in 1 .. n \/ (i = n + 1 /\ inbox'[i] = f)
    <3>1. CASE inbox' = inbox
      BY <2>1, <3>1
    <3>2. CASE inbox' = Append(inbox, f)
      BY <2>1, <3>2
    <3>3. QED
      BY <2>2, <3>1, <3>2
  <2>4. QED
    BY <2>3 DEF f
<1> HIDE DEF n
<1>5. \A k \in Good : \A q : Told(k, q)' => Told(k, q) \/ (k = kind /\ q = r)
  <2>1. ASSUME NEW k \in Good, NEW q, NEW i \in DOMAIN inbox', inbox'[i] = <<k, q>>
        PROVE  Told(k, q) \/ (k = kind /\ q = r)
    <3>1. CASE i \in 1 .. n
      BY <1>4, <2>1, <3>1 DEF Told
    <3>2. CASE inbox'[i] = <<kind, r>>
      BY <2>1, <3>2
    <3>3. QED
      BY <1>4, <3>1, <3>2
  <2>2. QED
    BY <2>1 DEF Told
<1>6. \A i \in 1 .. n : inbox[i] # <<kind, r>>
  BY <1>2, <1>4 DEF Told
<1>7. EventInv'
  <2>1. \A i \in DOMAIN inbox' :
          /\ inbox'[i][2] \in 0 .. Len(requests')
          /\ inbox'[i][1] \in Good => inbox'[i][2] \in DOMAIN requests'
    BY <1>4, Facts DEF IInv, EventInv
  <2>2. ASSUME NEW i \in DOMAIN inbox', NEW k \in DOMAIN inbox',
               inbox'[i] = inbox'[k], inbox'[i][1] \in Good
        PROVE  i = k
    BY <1>4, <1>6, <2>2 DEF IInv, EventInv
  <2>3. ASSUME NEW q \in DOMAIN requests'
        PROVE  /\ Told("filled", q)' => order'[q] = "filled"
               /\ Told("accepted", q)' => order'[q] \in {"accepted", "filled"}
    <3>1. CASE q = r
      BY <1>1, <1>2, <1>5, <3>1 DEF Good
    <3>2. CASE q # r
      BY <1>1, <1>5, <3>2 DEF IInv, EventInv, Good
    <3>3. QED
      BY <3>1, <3>2
  <2>4. QED
    BY <2>1, <2>2, <2>3 DEF EventInv
<1>8. AnswerInv'
  <2>1. \A j \in Jobs : answer'[j] # 0 => requests'[answer'[j]] <= j
    BY DEF IInv, AnswerInv
  <2>2. ASSUME NEW q \in DOMAIN requests'
        PROVE  /\ order'[q] \notin {"accepted", "filled"} => AnsweredBy(q)' = {}
               /\ order'[q] = "accepted" =>
                    /\ Told("accepted", q)' => AnsweredBy(q)' = {}
                    /\ \A j, k \in AnsweredBy(q)' : j = k
               /\ order'[q] = "filled" =>
                    /\ Told("accepted", q)' /\ Told("filled", q)'
                         => AnsweredBy(q)' = {}
                    /\ Told("accepted", q)' \/ Told("filled", q)' =>
                         \A j, k \in AnsweredBy(q)' : j = k
                    /\ \A j, k, l \in AnsweredBy(q)' : j = k \/ j = l \/ k = l
    <3>1. CASE q # r
      BY <1>1, <1>3, <1>5, <3>1 DEF IInv, AnswerInv, Good
    <3>2. CASE q = r /\ kind = "accepted"
      <4>1. order[r] = "sent" /\ order'[q] = "accepted"
        BY <1>1, <3>2
      <4>2. AnsweredBy(q)' = {}
        BY <1>3, <3>2, <4>1 DEF IInv, AnswerInv
      <4>3. QED
        BY <4>1, <4>2
    <3>3. CASE q = r /\ kind = "filled"
      <4>1. order[r] = "accepted" /\ order'[q] = "filled"
        BY <1>1, <3>3
      <4>2. Told("accepted", q)' => Told("accepted", q)
        BY <1>5, <3>3 DEF Good
      <4>3. /\ Told("accepted", q) => AnsweredBy(q) = {}
            /\ \A j, k \in AnsweredBy(q) : j = k
        BY <3>3, <4>1 DEF IInv, AnswerInv
      <4>4. QED
        BY <1>3, <4>1, <4>2, <4>3
    <3>4. QED
      BY <1>2, <3>1, <3>2, <3>3
  <2>3. QED
    BY <2>1, <2>2 DEF AnswerInv
<1>9. QED
  BY <1>4, <1>7, <1>8

(* The worker takes the event at the front for the answer to its job.      *)
LEMMA EventAnswers ==
  ASSUME IInv, worker = "read", inbox # <<>>,
         NEW k \in Good, NEW r, Head(inbox) = <<k, r>>,
         answer' = [answer EXCEPT ![job] = r],
         inbox' = Tail(inbox), UNCHANGED <<order, requests>>
  PROVE  /\ EventInv' /\ AnswerInv' /\ inbox' \in Seq(Frame)
         /\ answer' \in [Jobs -> 0 .. Len(requests')]
         /\ \A j \in Jobs \ {job} : answer'[j] = answer[j]
<1>1. /\ 1 \in DOMAIN inbox /\ inbox[1] = <<k, r>>
      /\ inbox' \in Seq(Frame) /\ DOMAIN inbox' \subseteq Nat
      /\ \A i \in DOMAIN inbox' :
           i + 1 \in DOMAIN inbox /\ i + 1 # 1 /\ inbox'[i] = inbox[i + 1]
  <2>1. inbox' \in Seq(Frame)
    BY InboxTail
  <2>2. DOMAIN inbox' \subseteq Nat
    BY <2>1
  <2>3. QED
    BY <2>1, <2>2, InboxTail
<1>2. /\ r \in DOMAIN requests /\ r \in 1 .. Len(requests) /\ requests[r] <= job
  BY <1>1, Facts DEF IInv, EventInv, RequestInv
<1>3. /\ job \in Jobs /\ answer[job] = 0
      /\ answer \in [Jobs -> 0 .. Len(requests)]
  BY DEF IInv, Types, JobInv, Busy
<1>4. /\ answer'[job] = r
      /\ \A j \in Jobs \ {job} : answer'[j] = answer[j]
      /\ answer' \in [Jobs -> 0 .. Len(requests')]
  BY <1>2, <1>3, Facts
<1>5. \A e, q : Told(e, q)' => Told(e, q)
  BY <1>1 DEF Told
<1>6. ~ Told(k, r)' /\ Told(k, r)
  <2>1. \A i \in DOMAIN inbox' : inbox'[i] # <<k, r>>
    <3>1. ASSUME NEW i \in DOMAIN inbox', inbox'[i] = <<k, r>> PROVE FALSE
      <4>1. /\ i + 1 \in DOMAIN inbox /\ i + 1 # 1
            /\ inbox[i + 1] = inbox[1] /\ inbox[1][1] \in Good
        BY <1>1, <3>1
      <4>2. QED
        BY <1>1, <4>1 DEF IInv, EventInv
    <3>2. QED
      BY <3>1
  <2>2. QED
    BY <1>1, <2>1 DEF Told
<1>7. /\ AnsweredBy(r)' = AnsweredBy(r) \cup {job}
      /\ \A q \in DOMAIN requests \ {r} : AnsweredBy(q)' = AnsweredBy(q)
  <2>1. \A q \in DOMAIN requests : q # 0
    BY Facts
  <2>2. QED
    BY <1>2, <1>3, <1>4, <2>1 DEF AnsweredBy
<1>8. EventInv'
  <2>1. Shrinks(1)
    BY <1>1 DEF Shrinks
  <2>2. \A i \in DOMAIN inbox' :
          /\ inbox'[i][2] \in 0 .. Len(requests')
          /\ inbox'[i][1] \in Good => inbox'[i][2] \in DOMAIN requests'
    BY <2>1 DEF Shrinks, IInv, EventInv
  <2>3. ASSUME NEW i \in DOMAIN inbox', NEW l \in DOMAIN inbox',
               inbox'[i] = inbox'[l], inbox'[i][1] \in Good
        PROVE  i = l
    <3>1. i + 1 = l + 1
      BY <2>1, <2>3 DEF Shrinks, IInv, EventInv
    <3>2. QED
      BY <1>1, <3>1
  <2>4. \A q \in DOMAIN requests' :
          /\ Told("filled", q)' => order'[q] = "filled"
          /\ Told("accepted", q)' => order'[q] \in {"accepted", "filled"}
    BY <1>5 DEF IInv, EventInv
  <2>5. QED
    BY <2>2, <2>3, <2>4 DEF EventInv
<1>9. AnswerInv'
  <2>1. ASSUME NEW j \in Jobs, answer'[j] # 0
        PROVE  requests'[answer'[j]] <= j
    <3>1. CASE j = job
      BY <1>2, <1>4, <3>1
    <3>2. CASE j # job
      BY <1>4, <2>1, <3>2 DEF IInv, AnswerInv
    <3>3. QED
      BY <3>1, <3>2
  <2>2. ASSUME NEW q \in DOMAIN requests'
        PROVE  /\ order'[q] \notin {"accepted", "filled"} => AnsweredBy(q)' = {}
               /\ order'[q] = "accepted" =>
                    /\ Told("accepted", q)' => AnsweredBy(q)' = {}
                    /\ \A i, j \in AnsweredBy(q)' : i = j
               /\ order'[q] = "filled" =>
                    /\ Told("accepted", q)' /\ Told("filled", q)'
                         => AnsweredBy(q)' = {}
                    /\ Told("accepted", q)' \/ Told("filled", q)' =>
                         \A i, j \in AnsweredBy(q)' : i = j
                    /\ \A i, j, l \in AnsweredBy(q)' : i = j \/ i = l \/ j = l
    <3>1. CASE q # r
      BY <1>5, <1>7, <3>1 DEF IInv, AnswerInv
    <3>2. CASE q = r /\ k = "accepted"
      <4>1. order[r] \in {"accepted", "filled"} /\ order' = order
        BY <1>2, <1>6, <3>2 DEF IInv, EventInv
      <4>2. order[r] = "accepted" => AnsweredBy(r) = {}
        BY <1>2, <1>6, <3>2 DEF IInv, AnswerInv
      <4>3. order[r] = "filled" =>
              /\ Told("filled", r)' => AnsweredBy(r) = {}
              /\ \A i, j \in AnsweredBy(r) : i = j
        BY <1>2, <1>5, <1>6, <3>2 DEF IInv, AnswerInv
      <4>4. QED
        BY <1>6, <1>7, <3>2, <4>1, <4>2, <4>3
    <3>3. CASE q = r /\ k = "filled"
      <4>1. order[r] = "filled" /\ order' = order
        BY <1>2, <1>6, <3>3 DEF IInv, EventInv
      <4>2. /\ Told("accepted", r)' => AnsweredBy(r) = {}
            /\ \A i, j \in AnsweredBy(r) : i = j
        BY <1>2, <1>5, <1>6, <3>3, <4>1 DEF IInv, AnswerInv
      <4>3. QED
        BY <1>6, <1>7, <3>3, <4>1, <4>2
    <3>4. QED
      BY <1>1, <3>1, <3>2, <3>3 DEF Good
  <2>3. QED
    BY <2>1, <2>2 DEF AnswerInv
<1>10. QED
  BY <1>1, <1>4, <1>8, <1>9

(* A request is sent: nobody has told of it, and no job has its answer.    *)
LEMMA RequestSent ==
  ASSUME IInv, NEW x \in Jobs, requests' = Append(requests, x),
         order' = Append(order, "sent"), UNCHANGED <<inbox, answer>>
  PROVE  /\ EventInv' /\ AnswerInv'
         /\ requests' \in Seq(Jobs) /\ order' \in Seq(OrderStates)
         /\ Len(order') = Len(requests')
         /\ answer' \in [Jobs -> 0 .. Len(requests')]
<1> DEFINE n == Len(requests)
<1>1. /\ requests \in Seq(Jobs) /\ order \in Seq(OrderStates)
      /\ Len(order) = n /\ answer \in [Jobs -> 0 .. n] /\ n \in Nat
  BY DEF IInv, Types
<1>2. /\ requests' \in Seq(Jobs) /\ Len(requests') = n + 1
      /\ DOMAIN requests' = 1 .. n + 1 /\ DOMAIN requests = 1 .. n
      /\ \A k \in 1 .. n : requests'[k] = requests[k]
  BY <1>1
<1>3. /\ order' \in Seq(OrderStates) /\ Len(order') = n + 1
      /\ order'[n + 1] = "sent" /\ \A k \in 1 .. n : order'[k] = order[k]
  <2>1. "sent" \in OrderStates
    BY DEF OrderStates
  <2>2. QED
    BY <1>1, <2>1
<1>4. answer' \in [Jobs -> 0 .. n + 1] /\ \A j \in Jobs : answer'[j] # n + 1
  BY <1>1
<1> HIDE DEF n
<1>5. /\ \A e, q : Told(e, q)' = Told(e, q)
      /\ \A q : AnsweredBy(q)' = AnsweredBy(q)
  BY DEF Told, AnsweredBy
<1>6. \A i \in DOMAIN inbox : inbox[i][2] \in 0 .. n
  BY DEF IInv, EventInv, n
<1>7. /\ ~ Told("accepted", n + 1) /\ ~ Told("filled", n + 1)
      /\ AnsweredBy(n + 1) = {}
  <2>1. n + 1 \notin 0 .. n
    BY <1>1
  <2>2. \A i \in DOMAIN inbox : inbox[i][2] # n + 1
    BY <1>6, <2>1
  <2>3. \A e : ~ Told(e, n + 1)
    BY <2>2 DEF Told
  <2>4. AnsweredBy(n + 1) = {}
    BY <1>4 DEF AnsweredBy
  <2>5. QED
    BY <2>3, <2>4
<1>8. EventInv'
  <2>1. \A i \in DOMAIN inbox' :
          /\ inbox'[i][2] \in 0 .. Len(requests')
          /\ inbox'[i][1] \in Good => inbox'[i][2] \in DOMAIN requests'
    <3>1. 0 .. n \subseteq 0 .. n + 1 /\ 1 .. n \subseteq 1 .. n + 1
      BY <1>1
    <3>2. QED
      BY <1>2, <1>6, <3>1 DEF IInv, EventInv
  <2>2. \A q \in DOMAIN requests' : q \in DOMAIN requests \/ q = n + 1
    BY <1>1, <1>2
  <2>3. \A q \in DOMAIN requests' :
          /\ Told("filled", q)' => order'[q] = "filled"
          /\ Told("accepted", q)' => order'[q] \in {"accepted", "filled"}
    BY <1>2, <1>3, <1>5, <1>7, <2>2 DEF IInv, EventInv
  <2>4. QED
    BY <2>1, <2>3 DEF IInv, EventInv
<1>9. AnswerInv'
  <2>1. ASSUME NEW j \in Jobs, answer'[j] # 0
        PROVE  requests'[answer'[j]] <= j
    <3>1. answer'[j] \in 1 .. n
      BY <1>1, <2>1
    <3>2. QED
      BY <1>2, <2>1, <3>1 DEF IInv, AnswerInv
  <2>2. ASSUME NEW q \in DOMAIN requests'
        PROVE  /\ order'[q] \notin {"accepted", "filled"} => AnsweredBy(q)' = {}
               /\ order'[q] = "accepted" =>
                    /\ Told("accepted", q)' => AnsweredBy(q)' = {}
                    /\ \A i, j \in AnsweredBy(q)' : i = j
               /\ order'[q] = "filled" =>
                    /\ Told("accepted", q)' /\ Told("filled", q)'
                         => AnsweredBy(q)' = {}
                    /\ Told("accepted", q)' \/ Told("filled", q)' =>
                         \A i, j \in AnsweredBy(q)' : i = j
                    /\ \A i, j, l \in AnsweredBy(q)' : i = j \/ i = l \/ j = l
    <3>1. CASE q = n + 1
      BY <1>3, <1>5, <1>7, <3>1
    <3>2. CASE q \in 1 .. n
      BY <1>2, <1>3, <1>5, <3>2 DEF IInv, AnswerInv
    <3>3. QED
      BY <1>1, <1>2, <3>1, <3>2
  <2>3. QED
    BY <2>1, <2>2 DEF AnswerInv
<1>10. QED
  BY <1>2, <1>3, <1>4, <1>8, <1>9

-----------------------------------------------------------------------------
(* The steps, one by one.                                                  *)

LEMMA InitIInv == Init => IInv
<1> SUFFICES ASSUME Init PROVE IInv
  OBVIOUS
<1>1. /\ jobs = <<>> /\ inbox = <<>> /\ order = <<>> /\ requests = <<>>
      /\ accepted = 0 /\ job = 0 /\ worker = "wait" /\ stream = "none"
      /\ result = [j \in Jobs |-> "pending"] /\ answer = [j \in Jobs |-> 0]
  BY DEF Init
<1>2. /\ Len(<<>>) = 0 /\ DOMAIN <<>> = {} /\ <<>> \in Seq(Jobs)
      /\ <<>> \in Seq(Frame) /\ <<>> \in Seq(OrderStates)
      /\ 0 \in 0 .. MaxJobs /\ 0 <= QueueLimit /\ 0 \in 0 .. 0 /\ 0 - 0 = 0
      /\ 1 \in 1 .. 6
  BY CTraderAssumption
<1>3. Types
  BY <1>1, <1>2 DEF Init, Types
<1>4. StreamInv
  BY <1>1 DEF StreamInv
<1>5. JobInv
  <2>1. job = accepted - Len(jobs) /\ DOMAIN jobs = {}
    BY <1>1, <1>2
  <2>2. QED
    BY <1>1, <2>1 DEF JobInv, Busy
<1>6. RequestInv
  BY <1>1, <1>2 DEF RequestInv
<1>7. EventInv /\ AnswerInv
  BY <1>1, <1>2 DEF EventInv, AnswerInv
<1>8. QED
  BY <1>3, <1>4, <1>5, <1>6, <1>7 DEF IInv

LEMMA ExecuteStep == ASSUME IInv, Execute PROVE IInv'
<1>1. /\ UNCHANGED <<stopped, worker, job, attempt, stream, stage, inbox, ok>>
      /\ UNCHANGED <<order, requests, result, answer>>
      /\ wake' = TRUE
  BY DEF Execute, streamVars
<1>2. EventInv' /\ AnswerInv'
  BY <1>1, InboxSame
<1>3. StreamInv' /\ RequestInv'
  BY <1>1 DEF IInv, StreamInv, RequestInv
<1>4. CASE UNCHANGED <<jobs, accepted>>
  <2>1. Types' /\ JobInv'
    BY <1>1, <1>4 DEF IInv, Types, JobInv
  <2>2. QED
    BY <1>2, <1>3, <2>1 DEF IInv
<1>5. CASE ~ (Len(jobs) >= QueueLimit)
  <2> DEFINE n == Len(jobs)
  <2>1. accepted' = accepted + 1 /\ jobs' = Append(jobs, accepted + 1)
        /\ accepted < MaxJobs
    BY <1>5 DEF Execute
  <2>2. /\ jobs \in Seq(Jobs) /\ n \in Nat /\ n < QueueLimit /\ n + 1 <= QueueLimit
        /\ accepted \in Nat /\ accepted + 1 \in Jobs /\ accepted' \in 0 .. MaxJobs
        /\ job = accepted - n /\ job \in Nat
    BY <1>5, <2>1, CTraderAssumption, Facts DEF IInv, Types, JobInv, Jobs
  <2>3. /\ jobs' \in Seq(Jobs) /\ Len(jobs') = n + 1 /\ DOMAIN jobs' = 1 .. n + 1
        /\ jobs'[n + 1] = accepted + 1 /\ \A i \in 1 .. n : jobs'[i] = jobs[i]
    BY <2>1, <2>2
  <2>4. \A i \in 1 .. n : jobs[i] = job + i
    BY <2>2 DEF IInv, JobInv
  <2> HIDE DEF n
  <2>5. Types'
    BY <1>1, <2>2, <2>3 DEF IInv, Types
  <2>6. \A i \in DOMAIN jobs' : jobs'[i] = job + i
    <3>1. ASSUME NEW i \in 1 .. n + 1 PROVE jobs'[i] = job + i
      <4>1. CASE i = n + 1
        BY <2>2, <2>3, <4>1
      <4>2. CASE i \in 1 .. n
        BY <2>3, <2>4, <4>2
      <4>3. QED
        BY <2>2, <4>1, <4>2
    <3>2. QED
      BY <2>3, <3>1
  <2>7. job = accepted' - Len(jobs')
    BY <2>1, <2>2, <2>3
  <2>8. JobInv'
    BY <1>1, <2>6, <2>7 DEF IInv, JobInv
  <2>9. QED
    BY <1>2, <1>3, <2>5, <2>8 DEF IInv
<1>6. QED
  BY <1>4, <1>5 DEF Execute

\* Callers and worker between two jobs.
LEMMA IdleStep ==
  ASSUME IInv, Stop \/ Start \/ WorkerExit \/ WakeIdle \/ UNCHANGED vars
  PROVE  IInv'
<1>1. /\ UNCHANGED <<jobs, accepted, job, attempt, ok>>
      /\ UNCHANGED <<order, requests, result, answer>>
      /\ {wake', stopped'} \subseteq BOOLEAN
      /\ worker' = worker \/ (worker \in {"wait", "off"} /\ worker' \in {"wait", "off"})
      /\ \/ UNCHANGED <<stream, stage, inbox>>
         \/ stream' = "none" /\ stage' = 1 /\ inbox' = <<>>
      /\ worker # "connect" => worker' # "connect"
  BY DEF Stop, Start, WorkerExit, WakeIdle, vars, callerVars, streamVars, IInv, Types
<1>2. EventInv' /\ AnswerInv' /\ inbox' \in Seq(Frame)
  BY <1>1, InboxSame, InboxCleared DEF IInv, Types
<1>3. Types'
  <2>1. stage' \in 1 .. 6 /\ stream' \in {"none", "up", "dead"}
    BY <1>1 DEF IInv, Types
  <2>2. worker' \in Busy \cup {"wait", "off"}
    BY <1>1 DEF IInv, Types
  <2>3. QED
    BY <1>1, <1>2, <2>1, <2>2 DEF IInv, Types
<1>4. StreamInv'
  <2>1. CASE UNCHANGED <<stream, stage, inbox>>
    BY <1>1, <2>1 DEF IInv, StreamInv
  <2>2. CASE stream' = "none"
    <3>1. worker' \notin {"send", "read"}
      BY <2>2, <1>1
      DEF Stop, Start, WorkerExit, WakeIdle, vars, streamVars, IInv, StreamInv
    <3>2. QED
      BY <2>2, <3>1 DEF StreamInv
  <2>3. QED
    BY <1>1, <2>1, <2>2
<1>5. JobInv' /\ RequestInv'
  BY <1>1 DEF IInv, JobInv, RequestInv, Busy
<1>6. QED
  BY <1>2, <1>3, <1>4, <1>5 DEF IInv

LEMMA TakeJobStep == ASSUME IInv, TakeJob PROVE IInv'
<1> DEFINE n == Len(jobs)
           x == job + 1
<1>1. /\ UNCHANGED <<accepted, stopped, stream, stage, inbox>>
      /\ UNCHANGED <<order, requests, result, answer>>
      /\ wake' \in BOOLEAN /\ ok' = FALSE /\ attempt' = 1 /\ jobs # <<>>
      /\ job' = Head(jobs) /\ jobs' = Tail(jobs) /\ worker = "wait"
      /\ worker' = IF stream = "none" THEN "connect" ELSE "send"
  BY DEF TakeJob, streamVars
<1>2. /\ jobs \in Seq(Jobs) /\ n \in Nat \ {0} /\ n <= QueueLimit
      /\ job = accepted - n /\ job \in Nat /\ accepted \in Nat
  BY <1>1, Facts DEF IInv, Types, JobInv
<1>3. /\ jobs' \in Seq(Jobs) /\ Len(jobs') = n - 1 /\ DOMAIN jobs' = 1 .. n - 1
      /\ Head(jobs) = jobs[1] /\ Head(jobs) \in Jobs
      /\ \A i \in 1 .. n - 1 : jobs'[i] = jobs[i + 1]
  BY <1>1, <1>2
<1>4. \A i \in 1 .. n : jobs[i] = job + i
  BY <1>2 DEF IInv, JobInv
<1>5. job' = x /\ x \in Jobs /\ x \in Nat /\ x > job
  BY <1>1, <1>2, <1>3, <1>4
<1>6. EventInv' /\ AnswerInv'
  BY <1>1, InboxSame
<1> HIDE DEF n
<1>7. Types'
  <2>1. Len(jobs') <= QueueLimit /\ job' \in 0 .. MaxJobs
    BY <1>2, <1>3, <1>5, CTraderAssumption DEF Jobs
  <2>2. worker' \in Busy
    BY <1>1 DEF Busy
  <2>3. QED
    BY <1>1, <1>3, <2>1, <2>2 DEF IInv, Types
<1>8. StreamInv'
  BY <1>1 DEF IInv, StreamInv
<1>9. JobInv'
  <2>1. job' = accepted' - Len(jobs')
    BY <1>1, <1>2, <1>3, <1>5
  <2>2. ASSUME NEW i \in 1 .. n - 1 PROVE jobs'[i] = x + i
    <3>1. i + 1 \in 1 .. n
      BY <1>2
    <3>2. jobs[i + 1] = job + (i + 1)
      BY <1>4, <3>1
    <3>3. QED
      BY <1>2, <1>3, <3>2
  <2>3. \A i \in DOMAIN jobs' : jobs'[i] = job' + i
    BY <1>3, <1>5, <2>2
  <2>4. \A j \in Jobs : j >= x => result[j] = "pending" /\ answer[j] = 0
    BY <1>2 DEF IInv, JobInv, Jobs
  <2>5. result[x] = "pending" /\ answer[x] = 0
    BY <1>5, <2>4
  <2>6. \A j \in Jobs : j > x => result[j] = "pending" /\ answer[j] = 0
    BY <1>5, <2>4 DEF Jobs
  <2> HIDE DEF x
  <2>7. QED
    BY <1>1, <1>5, <2>1, <2>3, <2>5, <2>6 DEF JobInv
<1>10. RequestInv'
  <2>1. \A k \in DOMAIN requests : requests[k] < x
    BY <1>2, Facts DEF IInv, RequestInv, Jobs
  <2>2. \A k \in DOMAIN requests : requests[k] <= x
    BY <1>5, <2>1, Facts DEF Jobs
  <2> HIDE DEF x
  <2>3. QED
    BY <1>1, <1>5, <2>1, <2>2 DEF IInv, RequestInv
<1>11. QED
  BY <1>6, <1>7, <1>8, <1>9, <1>10 DEF IInv

LEMMA ReportStep == ASSUME IInv, Report PROVE IInv'
<1>1. /\ UNCHANGED <<jobs, wake, accepted, stopped, job, attempt, ok>>
      /\ UNCHANGED <<stream, stage, inbox, order, requests, answer>>
      /\ worker = "report" /\ worker' = "wait"
      /\ result' = [result EXCEPT ![job] = IF ok THEN "ok" ELSE "failed"]
  BY DEF Report, callerVars, streamVars
<1>2. EventInv' /\ AnswerInv'
  BY <1>1, InboxSame
<1>3. Types'
  BY <1>1 DEF IInv, Types
<1>4. StreamInv' /\ RequestInv'
  BY <1>1 DEF IInv, StreamInv, RequestInv
<1>5. JobInv'
  <2>1. \A j \in Jobs : j > job => result'[j] = result[j]
    <3>1. \A j \in Jobs : j > job => j # job
      BY Facts DEF Jobs
    <3>2. QED
      BY <1>1, <3>1 DEF IInv, Types
  <2>2. QED
    BY <1>1, <2>1 DEF IInv, JobInv, Busy
<1>6. QED
  BY <1>2, <1>3, <1>4, <1>5 DEF IInv

LEMMA ConnectStepStep == ASSUME IInv, ConnectStep PROVE IInv'
<1>1. /\ UNCHANGED <<jobs, wake, accepted, stopped, job, attempt, ok>>
      /\ UNCHANGED <<order, requests, result, answer>>
      /\ worker = "connect" /\ worker' \in {"connect", "send"}
      /\ stream' = "up" /\ stage' = stage + 1 /\ Stages[stage] # "ready"
      /\ worker' = "send" <=> Stages[stage'] = "ready"
  BY DEF ConnectStep, callerVars
<1>2. stage \in 1 .. 6 /\ stage' \in 1 .. 6 /\ (worker' = "send" <=> stage' = 6)
  <2>1. stage \in 1 .. 6
    BY DEF IInv, Types
  <2>2. stage # 6
    BY <1>1, <2>1, StageNames
  <2>3. stage' \in 1 .. 6
    BY <1>1, <2>1, <2>2
  <2>4. QED
    BY <1>1, <2>1, <2>3, StageNames
<1>3. EventInv' /\ AnswerInv' /\ inbox' \in Seq(Frame)
  <2>1. PICK n \in 0 .. Len(inbox) : inbox' = SubSeq(inbox, n + 1, Len(inbox))
    BY DEF ConnectStep
  <2> DEFINE m == Len(inbox)
  <2>2. inbox \in Seq(Frame) /\ m \in Nat /\ n \in Nat /\ n <= m
        /\ DOMAIN inbox = 1 .. m
    BY <2>1 DEF IInv, Types
  <2>3. /\ inbox' \in Seq(Frame) /\ DOMAIN inbox' = 1 .. m - n
        /\ \A i \in 1 .. m - n : inbox'[i] = inbox[n + 1 + i - 1]
    <3>1. \A i \in n + 1 .. m : inbox[i] \in Frame
      BY <2>2
    <3>2. QED
      BY <2>1, <2>2, <3>1
  <2> HIDE DEF m
  <2>4. Shrinks(n)
    <3>1. \A i \in 1 .. m - n : i + n \in 1 .. m /\ n + 1 + i - 1 = i + n
      BY <2>2
    <3>2. QED
      BY <2>2, <2>3, <3>1 DEF Shrinks
  <2>5. QED
    BY <1>1, <2>2, <2>3, <2>4, InboxShrinks
<1>4. Types'
  BY <1>1, <1>2, <1>3 DEF IInv, Types, Busy
<1>5. StreamInv'
  BY <1>1, <1>2 DEF StreamInv
<1>6. JobInv' /\ RequestInv'
  BY <1>1 DEF IInv, JobInv, RequestInv, Busy
<1>7. QED
  BY <1>3, <1>4, <1>5, <1>6 DEF IInv

LEMMA ConnectFailsStep == ASSUME IInv, ConnectFails PROVE IInv'
<1>1. /\ UNCHANGED <<jobs, wake, accepted, stopped, job, attempt, ok>>
      /\ UNCHANGED <<order, requests, answer>>
      /\ worker = "connect" /\ stream' = "none" /\ stage' = 1 /\ inbox' = <<>>
      /\ worker' = IF attempt = 1 THEN "wait" ELSE "report"
      /\ result' = IF attempt = 1 THEN [result EXCEPT ![job] = "dropped"] ELSE result
  BY DEF ConnectFails, callerVars
<1>2. EventInv' /\ AnswerInv' /\ inbox' \in Seq(Frame)
  BY <1>1, InboxCleared
<1>3. Types'
  <2>1. result' \in [Jobs -> {"pending", "ok", "failed", "dropped"}]
    BY <1>1 DEF IInv, Types
  <2>2. worker' \in Busy \cup {"wait", "off"} /\ 1 \in 1 .. 6
    BY <1>1 DEF Busy
  <2>3. QED
    BY <1>1, <1>2, <2>1, <2>2 DEF IInv, Types
<1>4. StreamInv' /\ RequestInv'
  BY <1>1 DEF IInv, StreamInv, RequestInv
<1>5. JobInv'
  <2>1. \A j \in Jobs : j > job => result'[j] = result[j]
    <3>1. \A j \in Jobs : j > job => j # job
      BY Facts DEF Jobs
    <3>2. QED
      BY <1>1, <3>1 DEF IInv, Types
  <2>2. worker' \in Busy => result' = result
    BY <1>1 DEF Busy
  <2>3. QED
    BY <1>1, <2>1, <2>2 DEF IInv, JobInv, Busy
<1>6. QED
  BY <1>2, <1>3, <1>4, <1>5 DEF IInv

LEMMA SendOrderStep == ASSUME IInv, SendOrder PROVE IInv'
<1> DEFINE n == Len(requests)
<1>1. /\ UNCHANGED <<jobs, wake, accepted, stopped, job, attempt, ok>>
      /\ UNCHANGED <<stream, stage, inbox, result, answer>>
      /\ worker = "send" /\ worker' = "read"
      /\ requests' = Append(requests, job) /\ order' = Append(order, "sent")
  BY DEF SendOrder, callerVars, streamVars
<1>2. job \in Jobs /\ job \in Nat
  BY <1>1, Facts DEF IInv, JobInv, Busy
<1>3. /\ EventInv' /\ AnswerInv'
      /\ requests' \in Seq(Jobs) /\ order' \in Seq(OrderStates)
      /\ Len(order') = Len(requests')
      /\ answer' \in [Jobs -> 0 .. Len(requests')]
  BY <1>1, <1>2, RequestSent
<1>4. Types'
  BY <1>1, <1>3 DEF IInv, Types, Busy
<1>5. StreamInv' /\ JobInv'
  BY <1>1 DEF IInv, StreamInv, JobInv, Busy
<1>6. /\ n \in Nat /\ DOMAIN requests = 1 .. n /\ DOMAIN requests' = 1 .. n + 1
      /\ Len(requests') = n + 1 /\ requests'[n + 1] = job
      /\ \A k \in 1 .. n : requests'[k] = requests[k] /\ requests[k] \in Nat
  <2>1. requests \in Seq(Jobs) /\ Jobs \subseteq Nat
    BY DEF IInv, Types, Jobs
  <2>2. /\ n \in Nat /\ DOMAIN requests = 1 .. n
        /\ \A k \in 1 .. n : requests[k] \in Jobs
    BY <2>1
  <2>3. /\ DOMAIN requests' = 1 .. n + 1 /\ Len(requests') = n + 1
        /\ requests'[n + 1] = job /\ \A k \in 1 .. n : requests'[k] = requests[k]
    BY <1>1, <1>2, <2>1, AppendProperties
  <2>4. QED
    BY <2>1, <2>2, <2>3
<1>7. /\ \A k \in 1 .. n : requests[k] <= job
      /\ \A k \in 1 .. n : requests[k] = job => attempt = 2 /\ k = n
  <2>1. \A k \in 1 .. n : requests[k] <= job
    BY <1>6 DEF IInv, RequestInv
  <2>2. CASE attempt = 1
    <3>1. \A k \in 1 .. n : requests[k] < job
      BY <1>1, <1>6, <2>2 DEF IInv, RequestInv
    <3>2. \A k \in 1 .. n : requests[k] # job
      BY <1>2, <1>6, <3>1
    <3>3. QED
      BY <2>1, <3>2
  <2>3. CASE attempt = 2
    BY <1>1, <1>6, <2>1, <2>3 DEF IInv, RequestInv
  <2>4. QED
    BY <2>2, <2>3 DEF IInv, Types
<1> HIDE DEF n
<1>8. RequestInv'
  <2>1. ASSUME NEW i \in 1 .. n + 1, NEW k \in 1 .. n + 1, i <= k
        PROVE  /\ requests'[i] <= requests'[k]
               /\ requests'[i] = requests'[k] => k <= i + 1
    <3>1. CASE k \in 1 .. n
      <4>1. i \in 1 .. n
        BY <1>6, <2>1, <3>1
      <4>2. QED
        BY <1>6, <2>1, <3>1, <4>1 DEF IInv, RequestInv
    <3>2. CASE k = n + 1
      <4>1. CASE i = n + 1
        BY <1>2, <1>6, <3>2, <4>1
      <4>2. CASE i \in 1 .. n
        BY <1>6, <1>7, <3>2, <4>2
      <4>3. QED
        BY <1>6, <4>1, <4>2
    <3>3. QED
      BY <1>6, <3>1, <3>2
  <2>2. \A k \in 1 .. n + 1 : k \in 1 .. n \/ k = n + 1
    BY <1>6
  <2>3. \A k \in 1 .. n + 1 : requests'[k] <= job
    BY <1>2, <1>6, <1>7, <2>2
  <2>4. attempt = 1 => \A k \in 1 .. n + 1 : requests'[k] = job => k = n + 1
    BY <1>6, <1>7, <2>2
  <2>5. QED
    BY <1>1, <1>6, <2>1, <2>3, <2>4 DEF RequestInv
<1>9. QED
  BY <1>3, <1>4, <1>5, <1>8 DEF IInv

\* A failed attempt, whatever made it fail.
LEMMA FailedStep ==
  ASSUME IInv, worker \in {"send", "read"}, NEW rest \in Seq(Frame),
         rest = <<>> \/ (inbox # <<>> /\ rest = Tail(inbox)), AttemptFailed(rest),
         UNCHANGED <<jobs, wake, accepted, stopped, job, ok>>,
         UNCHANGED <<order, requests, result, answer>>
  PROVE  IInv'
<1>1. EventInv' /\ AnswerInv' /\ inbox' \in Seq(Frame)
  <2>1. CASE inbox' = <<>>
    BY <2>1, InboxCleared
  <2>2. CASE inbox' = Tail(inbox) /\ inbox # <<>>
    <3>1. Shrinks(1) /\ inbox' \in Seq(Frame)
      BY <2>2, InboxTail DEF Shrinks
    <3>2. QED
      BY <3>1, InboxShrinks
  <2>3. QED
    BY <2>1, <2>2 DEF AttemptFailed
<1>2. CASE attempt = 1
  <2>1. attempt' = 2 /\ worker' = "connect" /\ stream' = "none" /\ stage' = 1
    BY <1>2 DEF AttemptFailed
  <2>2. Types'
    BY <1>1, <2>1 DEF IInv, Types, Busy
  <2>3. StreamInv'
    BY <2>1 DEF StreamInv
  <2>4. JobInv'
    BY <2>1 DEF IInv, JobInv, Busy
  <2>5. \A k \in DOMAIN requests : requests[k] = job => k = Len(requests)
    <3>1. CASE worker = "send"
      <4>1. \A k \in DOMAIN requests : requests[k] < job /\ requests[k] \in Nat
        BY <1>2, <3>1, Facts DEF IInv, RequestInv, Jobs
      <4>2. job \in Nat
        BY Facts
      <4>3. QED
        BY <4>1, <4>2
    <3>2. CASE worker = "read"
      BY <1>2, <3>2 DEF IInv, RequestInv
    <3>3. QED
      BY <3>1, <3>2
  <2>6. RequestInv'
    BY <2>1, <2>5 DEF IInv, RequestInv
  <2>7. QED
    BY <1>1, <2>2, <2>3, <2>4, <2>6 DEF IInv
<1>3. CASE attempt # 1
  <2>1. worker' = "report" /\ UNCHANGED <<attempt, stream, stage>>
    BY <1>3 DEF AttemptFailed
  <2>2. Types'
    BY <1>1, <2>1 DEF IInv, Types, Busy
  <2>3. StreamInv'
    BY <2>1 DEF IInv, StreamInv
  <2>4. JobInv' /\ RequestInv'
    BY <2>1 DEF IInv, JobInv, RequestInv, Busy
  <2>5. QED
    BY <1>1, <2>2, <2>3, <2>4 DEF IInv
<1>4. QED
  BY <1>2, <1>3

LEMMA TransportFailsStep == ASSUME IInv, TransportFails PROVE IInv'
<1>1. <<>> \in Seq(Frame)
  OBVIOUS
<1>2. QED
  BY <1>1, FailedStep DEF TransportFails, callerVars

LEMMA ReadFrameStep == ASSUME IInv, ReadFrame PROVE IInv'
<1>1. /\ UNCHANGED <<jobs, wake, accepted, stopped, job>>
      /\ UNCHANGED <<order, requests, result>>
      /\ worker = "read" /\ inbox # <<>>
  BY DEF ReadFrame, callerVars
<1>2. Tail(inbox) \in Seq(Frame) /\ Head(inbox) \in Frame
  BY <1>1, InboxTail
<1>3. CASE Head(inbox)[1] \in Good
  <2>1. PICK k \in Good : \E r \in Nat : Head(inbox) = <<k, r>>
    BY <1>2, <1>3 DEF Frame
  <2>2. PICK r \in Nat : Head(inbox) = <<k, r>>
    BY <2>1
  <2>3. /\ answer' = [answer EXCEPT ![job] = r] /\ inbox' = Tail(inbox)
        /\ ok' = TRUE /\ worker' = "report"
        /\ UNCHANGED <<attempt, stream, stage>>
    BY <1>3, <2>2 DEF ReadFrame
  <2>4. /\ EventInv' /\ AnswerInv' /\ inbox' \in Seq(Frame)
        /\ answer' \in [Jobs -> 0 .. Len(requests')]
        /\ \A j \in Jobs \ {job} : answer'[j] = answer[j]
    BY <1>1, <2>2, <2>3, EventAnswers
  <2>5. Types'
    BY <1>1, <2>3, <2>4 DEF IInv, Types, Busy
  <2>6. StreamInv'
    BY <1>1, <2>3 DEF IInv, StreamInv
  <2>7. RequestInv'
    BY <1>1, <2>3 DEF IInv, RequestInv
  <2>8. JobInv'
    <3>1. \A j \in Jobs : j > job => answer'[j] = answer[j]
      <4>1. \A j \in Jobs : j > job => j # job
        BY Facts DEF Jobs
      <4>2. QED
        BY <2>4, <4>1
    <3>2. QED
      BY <1>1, <2>3, <3>1 DEF IInv, JobInv, Busy
  <2>9. QED
    BY <2>4, <2>5, <2>6, <2>7, <2>8 DEF IInv
<1>4. CASE Head(inbox)[1] \notin Good
  <2>1. AttemptFailed(Tail(inbox)) /\ UNCHANGED <<ok, answer>>
    BY <1>4 DEF ReadFrame
  <2>2. QED
    BY <1>1, <1>2, <2>1, FailedStep
<1>5. QED
  BY <1>3, <1>4

(* What the server and the network do leaves the jobs alone.               *)
LEMMA ServerSide ==
  ASSUME IInv, EventInv', AnswerInv', inbox' \in Seq(Frame),
         order' \in Seq(OrderStates), Len(order') = Len(order),
         UNCHANGED <<jobs, wake, accepted, stopped, worker, job, attempt, ok>>,
         UNCHANGED <<stage, requests, result, answer>>,
         stream' = stream \/ (stream = "up" /\ stream' = "dead")
  PROVE  IInv'
<1>1. Types'
  BY DEF IInv, Types
<1>2. StreamInv' /\ JobInv' /\ RequestInv'
  BY DEF IInv, StreamInv, JobInv, RequestInv
<1>3. QED
  BY <1>1, <1>2 DEF IInv

LEMMA TellCases ==
  ASSUME NEW kind, NEW r, Tell(kind, r)
  PROVE  inbox' \in {inbox, Append(inbox, <<kind, r>>)}
BY DEF Tell

LEMMA ServerStep ==
  ASSUME IInv, Server \/ ServerSaysBye \/ StreamBreaks
  PROVE  IInv'
<1>1. order \in Seq(OrderStates)
  BY DEF IInv, Types
<1>2. ASSUME NEW r \in DOMAIN order, NEW x \in OrderStates
      PROVE  /\ [order EXCEPT ![r] = x] \in Seq(OrderStates)
             /\ Len([order EXCEPT ![r] = x]) = Len(order)
  BY <1>1, <1>2
<1>3. CASE Server
  <2>1. PICK r \in DOMAIN order :
          ServerFills(r) \/ \E kind \in {"accepted", "rejected", "error"} :
                              ServerDecides(r, kind)
    BY <1>3 DEF Server
  <2>2. r \in DOMAIN requests /\ r \in Nat /\ r \in 0 .. Len(requests)
    BY Facts
  <2>3. ASSUME NEW kind \in Good,
               \/ ServerFills(r) /\ kind = "filled"
               \/ ServerDecides(r, "accepted") /\ kind = "accepted"
        PROVE  IInv'
    <3>1. /\ inbox' \in {inbox, Append(inbox, <<kind, r>>)}
          /\ order' = [order EXCEPT ![r] = kind]
          /\ IF kind = "accepted" THEN order[r] = "sent" ELSE order[r] = "accepted"
          /\ UNCHANGED <<jobs, wake, accepted, stopped, worker, job, attempt, ok>>
          /\ UNCHANGED <<stream, stage, requests, result, answer>>
      BY <2>3, TellCases DEF ServerFills, ServerDecides, callerVars
    <3>2. EventInv' /\ AnswerInv' /\ inbox' \in Seq(Frame)
      BY <2>2, <3>1, InboxGoodNews
    <3>3. kind \in OrderStates
      BY DEF Good, OrderStates
    <3>4. order' \in Seq(OrderStates) /\ Len(order') = Len(order)
      BY <1>2, <3>1, <3>3
    <3>5. QED
      BY <3>1, <3>2, <3>4, ServerSide
  <2>4. ASSUME NEW kind \in {"rejected", "error"}, ServerDecides(r, kind)
        PROVE  IInv'
    <3>1. /\ inbox' \in {inbox, Append(inbox, <<kind, r>>)}
          /\ order' = [order EXCEPT ![r] = "rejected"] /\ order[r] = "sent"
          /\ UNCHANGED <<jobs, wake, accepted, stopped, worker, job, attempt, ok>>
          /\ UNCHANGED <<stream, stage, requests, result, answer>>
      BY <2>4, TellCases DEF ServerDecides, callerVars
    <3>2. <<kind, r>> \in Frame /\ <<kind, r>>[1] \notin Good
          /\ <<kind, r>>[2] \in 0 .. Len(requests)
      BY <2>2 DEF Frame, Good
    <3>3. \A q \in DOMAIN requests :
            \/ order'[q] = order[q]
            \/ order[q] = "sent" /\ order'[q] = "rejected"
      BY <3>1, Facts
    <3>4. EventInv' /\ AnswerInv' /\ inbox' \in Seq(Frame)
      BY <3>1, <3>2, <3>3, InboxNews
    <3>5. order' \in Seq(OrderStates) /\ Len(order') = Len(order)
      BY <1>2, <3>1 DEF OrderStates
    <3>6. QED
      BY <3>1, <3>4, <3>5, ServerSide
  <2>5. QED
    BY <2>1, <2>3, <2>4 DEF Good
<1>4. CASE ServerSaysBye
  <2>1. /\ inbox' \in {inbox, Append(inbox, <<"bye", 0>>)}
        /\ UNCHANGED <<jobs, wake, accepted, stopped, worker, job, attempt, ok>>
        /\ UNCHANGED <<stream, stage, order, requests, result, answer>>
    BY <1>4, TellCases DEF ServerSaysBye, callerVars
  <2>2. <<"bye", 0>> \in Frame /\ <<"bye", 0>>[1] \notin Good
        /\ <<"bye", 0>>[2] \in 0 .. Len(requests)
    BY Facts DEF Frame, Good
  <2>3. EventInv' /\ AnswerInv' /\ inbox' \in Seq(Frame)
    BY <2>1, <2>2, InboxNews
  <2>4. QED
    BY <1>1, <2>1, <2>3, ServerSide
<1>5. CASE StreamBreaks
  <2>1. /\ inbox' = <<>> /\ stream = "up" /\ stream' = "dead"
        /\ UNCHANGED <<jobs, wake, accepted, stopped, worker, job, attempt, ok>>
        /\ UNCHANGED <<stage, order, requests, result, answer>>
    BY <1>5 DEF StreamBreaks, callerVars
  <2>2. QED
    BY <1>1, <2>1, InboxCleared, ServerSide
<1>6. QED
  BY <1>3, <1>4, <1>5

LEMMA NextIInv == IInv /\ [Next]_vars => IInv'
<1>1. ASSUME IInv, [Next]_vars PROVE IInv'
  BY <1>1, ExecuteStep, IdleStep, TakeJobStep, ReportStep, ConnectStepStep,
     ConnectFailsStep, SendOrderStep, TransportFailsStep, ReadFrameStep, ServerStep
  DEF Next, Worker
<1>2. QED
  BY <1>1

-----------------------------------------------------------------------------
(* The theorems.                                                           *)

(* ctrader_executor.cpp:183-210.  Whatever the faults, the server's        *)
(* decisions and the interleaving with the callers, orders are sent in the *)
(* order of acceptance, none more than twice and none after its result.    *)
THEOREM CTraderRequestsInOrder == Spec => []RequestsInOrder
<1>1. IInv => RequestsInOrder
  <2>1. SUFFICES ASSUME IInv PROVE RequestsInOrder
    OBVIOUS
  <2>2. TypeOK
    <3>1. /\ jobs \in Seq(Jobs) /\ Len(jobs) <= QueueLimit
          /\ {wake, stopped, ok} \subseteq BOOLEAN
          /\ worker \in {"wait", "connect", "send", "read", "report", "off"}
          /\ job \in 0 .. MaxJobs /\ attempt \in {1, 2}
          /\ stream \in {"none", "up", "dead"} /\ stage \in DOMAIN Stages
      BY <2>1, StageNames DEF IInv, Types, Busy
    <3>2. \A i \in DOMAIN inbox : inbox[i][2] \in 0 .. Len(requests)
      BY <2>1 DEF IInv, EventInv
    <3>3. DOMAIN order = DOMAIN requests
      BY <2>1, Facts
    <3>4. /\ result \in [Jobs -> {"pending", "ok", "failed", "dropped"}]
          /\ answer \in [Jobs -> 0 .. Len(requests)]
      BY <2>1 DEF IInv, Types
    <3>5. worker \in {"send", "read"} => stream # "none" /\ Stages[stage] = "ready"
      BY <2>1, StageNames DEF IInv, Types, StreamInv
    <3>6. QED
      BY <3>1, <3>2, <3>3, <3>4, <3>5 DEF TypeOK
  <2>3. QED
    BY <2>1, <2>2 DEF IInv, RequestInv, JobInv, Busy, RequestsInOrder
<1>2. QED
  BY <1>1, InitIInv, NextIInv, PTL DEF Spec

\* A set without two, or without three, different elements.
LEMMA AtMostOne ==
  ASSUME NEW S, \A i, j \in S : i = j
  PROVE  Cardinality(S) \in {0, 1}
<1>1. S = {} \/ \E x : S = {x}
  OBVIOUS
<1>2. QED
  BY <1>1, FS_EmptySet, FS_Singleton

LEMMA AtMostTwo ==
  ASSUME NEW S, \A i, j, k \in S : i = j \/ i = k \/ j = k
  PROVE  Cardinality(S) \in {0, 1, 2}
<1>1. CASE \E x \in S : TRUE
  <2>1. PICK x \in S : TRUE
    BY <1>1
  <2> DEFINE T == S \ {x}
  <2>2. /\ \A i, j \in T : i = j
        /\ S = T \cup {x} /\ x \notin T
    BY <2>1
  <2> HIDE DEF T
  <2>3. T = {} \/ \E y : T = {y}
    BY <2>2
  <2>4. IsFiniteSet(T) /\ Cardinality(T) \in {0, 1}
    <3>1. CASE T = {}
      BY <3>1, FS_EmptySet
    <3>2. CASE \E y : T = {y}
      <4>1. PICK y : T = {y}
        BY <3>2
      <4>2. IsFiniteSet({y}) /\ Cardinality({y}) = 1
        BY FS_Singleton
      <4>3. QED
        BY <4>1, <4>2
    <3>3. QED
      BY <2>3, <3>1, <3>2
  <2>5. Cardinality(S) = Cardinality(T) + 1
    BY <2>2, <2>4, FS_AddElement
  <2>6. QED
    BY <2>4, <2>5
<1>2. CASE S = {}
  BY <1>2, FS_EmptySet
<1>3. QED
  BY <1>1, <1>2

(* ctrader_executor.cpp:455-494, 546.  Although the worker takes whichever *)
(* execution event comes first, no event makes two results: a request pays *)
(* for one ok result per event of success that the server sent about it,   *)
(* and only for its own job or a later one.                                *)
THEOREM CTraderOkNeedsAnEvent == Spec => []OkNeedsAnEvent
<1>1. IInv => OkNeedsAnEvent
  <2>1. SUFFICES ASSUME IInv PROVE OkNeedsAnEvent
    OBVIOUS
  <2>2. ASSUME NEW r \in DOMAIN requests
        PROVE  Cardinality(AnsweredBy(r))
                 <= CASE order[r] = "filled" -> 2
                      [] order[r] = "accepted" -> 1
                      [] OTHER -> 0
    <3>1. CASE order[r] = "filled"
      <4>1. \A j, k, l \in AnsweredBy(r) : j = k \/ j = l \/ k = l
        BY <2>1, <3>1 DEF IInv, AnswerInv
      <4>2. Cardinality(AnsweredBy(r)) \in {0, 1, 2}
        BY <4>1, AtMostTwo
      <4>3. QED
        BY <3>1, <4>2
    <3>2. CASE order[r] = "accepted"
      <4>1. \A j, k \in AnsweredBy(r) : j = k
        BY <2>1, <3>2 DEF IInv, AnswerInv
      <4>2. Cardinality(AnsweredBy(r)) \in {0, 1}
        BY <4>1, AtMostOne
      <4>3. QED
        BY <3>2, <4>2
    <3>3. CASE order[r] \notin {"filled", "accepted"}
      <4>1. AnsweredBy(r) = {}
        BY <2>1, <3>3 DEF IInv, AnswerInv
      <4>2. Cardinality(AnsweredBy(r)) = 0
        BY <4>1, FS_EmptySet
      <4>3. QED
        BY <3>3, <4>2
    <3>4. QED
      BY <3>1, <3>2, <3>3
  <2>3. QED
    BY <2>1, <2>2 DEF IInv, AnswerInv, AnsweredBy, OkNeedsAnEvent
<1>2. QED
  BY <1>1, InitIInv, NextIInv, PTL DEF Spec
=============================================================================
