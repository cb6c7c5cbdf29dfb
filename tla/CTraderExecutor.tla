--------------------------- MODULE CTraderExecutor --------------------------
(***************************************************************************)
(* src/ctrader_executor.cpp: callers enqueue market orders; one worker     *)
(* thread owns a TLS stream to the cTrader server, sends one order at a    *)
(* time and takes the first EXECUTION_EVENT it reads as the answer.        *)
(*                                                                         *)
(* A job is its number in the order in which execute() accepted it; a      *)
(* request is its number in the order of sending, which is the counter in  *)
(* its clientOrderId.  The server is external: it accepts or rejects a     *)
(* request, later fills what it accepted, and tells every session that is  *)
(* authorised for the account at that moment.                              *)
(***************************************************************************)
EXTENDS Integers, Sequences, FiniteSets

CONSTANTS
  MaxJobs,     \* bound: orders accepted by execute()
  QueueLimit,  \* queue_limit_
  MaxFaults    \* bound: failed connects, broken streams, disconnect notices

ASSUME CTraderAssumption ==
  MaxJobs \in Nat /\ QueueLimit \in Nat /\ MaxFaults \in Nat

Jobs == 1 .. MaxJobs

(* connect() passes these stages; the account's events reach the stream    *)
(* from "symbol" on, after ACCOUNT_AUTH_RES.                               *)
Stages == <<"tls", "auth", "symbol", "subscribe", "spot", "ready">>
Authorised == {"symbol", "subscribe", "spot", "ready"}

Good == {"accepted", "filled"}              \* executionType of an ok event
Fatal == {"error", "bye"}                   \* dispatch_other() returns true

VARIABLES
  jobs,      \* jobs_
  wake,      \* wake_
  stopped,   \* stopped_
  worker,    \* "wait", "connect", "send", "read", "report", "off"
  job,       \* the job the worker holds
  attempt,   \* 1 or 2
  stream,    \* "none" (connected() is false), "up", "dead"
  stage,     \* index in Stages of the stream
  inbox,     \* frames the server sent on the stream and nobody read:
             \* <<kind, request>>
  ok,        \* r.ok
  order,     \* the server's view of each request sent
  requests,  \* history: the job of each request sent
  accepted,  \* history: jobs accepted by execute()
  result,    \* history: what became of each job
  answer,    \* history: the request whose event answered the job
  faults     \* bound

callerVars == <<jobs, wake, accepted>>
streamVars == <<stream, stage, inbox>>
vars == <<callerVars, stopped, worker, job, attempt, streamVars, ok, order,
          requests, result, answer, faults>>

Init ==
  /\ jobs = <<>> /\ wake = FALSE /\ stopped = FALSE /\ accepted = 0
  /\ worker = "wait" /\ job = 0 /\ attempt = 1
  /\ stream = "none" /\ stage = 1 /\ inbox = <<>>
  /\ ok = FALSE /\ order = <<>> /\ requests = <<>>
  /\ result = [j \in Jobs |-> "pending"] /\ answer = [j \in Jobs |-> 0]
  /\ faults = 0

-----------------------------------------------------------------------------
(* Callers.                                                                *)

\* A full queue drops the order; the worker is woken all the same.
Execute ==
  /\ accepted < MaxJobs \/ Len(jobs) >= QueueLimit
  /\ IF Len(jobs) >= QueueLimit
     THEN UNCHANGED <<jobs, accepted>>
     ELSE /\ accepted' = accepted + 1
          /\ jobs' = Append(jobs, accepted + 1)
  /\ wake' = TRUE
  /\ UNCHANGED <<stopped, worker, job, attempt, streamVars, ok, order, requests,
                 result, answer, faults>>

\* stop(), up to the join.
Stop ==
  /\ ~stopped
  /\ stopped' = TRUE
  /\ wake' = TRUE
  /\ UNCHANGED <<jobs, accepted, worker, job, attempt, streamVars, ok, order,
                 requests, result, answer, faults>>

\* start() after a completed stop().
Start ==
  /\ worker = "off"
  /\ stopped' = FALSE
  /\ worker' = "wait"
  /\ UNCHANGED <<callerVars, job, attempt, streamVars, ok, order, requests,
                 result, answer, faults>>

-----------------------------------------------------------------------------
(* worker_loop().                                                          *)

\* Mutant: the worker first wants to empty the queue.
ExitWhenDrained ==
  /\ worker = "wait" /\ stopped /\ jobs = <<>>
  /\ worker' = "off"
  /\ stream' = "none" /\ stage' = 1 /\ inbox' = <<>>
  /\ UNCHANGED <<callerVars, stopped, job, attempt, ok, order, requests, result,
                 answer, faults>>

\* The worker leaves; stop() joins it and disconnects.
WorkerExit ==
  /\ worker = "wait" /\ stopped
  /\ worker' = "off"
  /\ stream' = "none" /\ stage' = 1 /\ inbox' = <<>>
  /\ UNCHANGED <<callerVars, stopped, job, attempt, ok, order, requests, result,
                 answer, faults>>

WakeIdle ==
  /\ worker = "wait" /\ ~stopped /\ wake /\ jobs = <<>>
  /\ wake' = FALSE
  /\ UNCHANGED <<jobs, accepted, stopped, worker, job, attempt, streamVars, ok,
                 order, requests, result, answer, faults>>

\* Mutant: every wake-up clears the flag.
TakeJobClears ==
  /\ worker = "wait" /\ ~stopped /\ wake /\ jobs # <<>>
  /\ job' = Head(jobs) /\ jobs' = Tail(jobs)
  /\ wake' = FALSE
  /\ attempt' = 1 /\ ok' = FALSE
  /\ worker' = IF stream = "none" THEN "connect" ELSE "send"
  /\ UNCHANGED <<accepted, stopped, streamVars, order, requests, result, answer,
                 faults>>

TakeJob ==
  /\ worker = "wait" /\ ~stopped /\ wake /\ jobs # <<>>
  /\ job' = Head(jobs) /\ jobs' = Tail(jobs)
  /\ wake' = (Len(jobs) > 1)
  /\ attempt' = 1 /\ ok' = FALSE
  /\ worker' = IF stream = "none" THEN "connect" ELSE "send"
  /\ UNCHANGED <<accepted, stopped, streamVars, order, requests, result, answer,
                 faults>>

Report ==
  /\ worker = "report"
  /\ result' = [result EXCEPT ![job] = IF ok THEN "ok" ELSE "failed"]
  /\ worker' = "wait"
  /\ UNCHANGED <<callerVars, stopped, job, attempt, streamVars, ok, order,
                 requests, answer, faults>>

-----------------------------------------------------------------------------
(* connect(): TLS, authenticate(), resolve_symbol(), subscribe_spot().     *)

\* One stage succeeds.  The frames before its answer are read and thrown
\* away; a fatal one would end an exchange(), but not the wait for the spot.
ConnectStep ==
  /\ worker = "connect" /\ stream # "dead" /\ Stages[stage] # "ready"
  /\ \E n \in 0 .. Len(inbox) :
       /\ \A i \in 1 .. n : Stages[stage] = "spot" \/ inbox[i][1] \notin Fatal
       /\ inbox' = SubSeq(inbox, n + 1, Len(inbox))
  /\ stream' = "up"
  /\ stage' = stage + 1
  /\ worker' = IF Stages[stage'] = "ready" THEN "send" ELSE "connect"
  /\ UNCHANGED <<callerVars, stopped, job, attempt, ok, order, requests, result,
                 answer, faults>>

\* A refusal, an error frame, a timeout or an exception: disconnect().  The
\* first connect of a job drops the job without a report; the reconnect of
\* its retry reports the failure of the first attempt.
ConnectFails ==
  /\ worker = "connect"
  /\ \/ stream = "dead" /\ UNCHANGED faults
     \/ /\ Stages[stage] # "spot" /\ \E i \in DOMAIN inbox : inbox[i][1] \in Fatal
        /\ UNCHANGED faults
     \/ faults < MaxFaults /\ faults' = faults + 1
  /\ stream' = "none" /\ stage' = 1 /\ inbox' = <<>>
  /\ worker' = IF attempt = 1 THEN "wait" ELSE "report"
  /\ result' = IF attempt = 1 THEN [result EXCEPT ![job] = "dropped"] ELSE result
  /\ UNCHANGED <<callerVars, stopped, job, attempt, ok, order, requests, answer>>

-----------------------------------------------------------------------------
(* place_order() and the retry in worker_loop().                           *)

\* Mutant: the attempts are not counted.
AttemptFailedForever(rest) ==
  /\ attempt' = 2 /\ worker' = "connect"
  /\ stream' = "none" /\ stage' = 1 /\ inbox' = <<>>

\* After any failed first attempt, disconnect and reconnect; after the
\* second, report and keep the stream as it is.
AttemptFailed(rest) ==
  IF attempt = 1
  THEN /\ attempt' = 2 /\ worker' = "connect"
       /\ stream' = "none" /\ stage' = 1 /\ inbox' = <<>>
  ELSE /\ worker' = "report"
       /\ inbox' = rest
       /\ UNCHANGED <<attempt, stream, stage>>

SendOrder ==
  /\ worker = "send" /\ stream = "up"
  /\ requests' = Append(requests, job)
  /\ order' = Append(order, "sent")
  /\ worker' = "read"
  /\ UNCHANGED <<callerVars, stopped, job, attempt, streamVars, ok, result,
                 answer, faults>>

\* The write or the read meets a broken stream.
TransportFails ==
  /\ worker \in {"send", "read"} /\ stream = "dead"
  /\ AttemptFailed(<<>>)
  /\ UNCHANGED <<callerVars, stopped, job, ok, order, requests, result, answer,
                 faults>>

\* Mutant: every execution event counts as success.
ReadFrameAnyEvent ==
  /\ worker = "read" /\ inbox # <<>>
  /\ LET m == Head(inbox)
     IN  IF m[1] \notin Fatal
         THEN /\ ok' = TRUE
              /\ answer' = [answer EXCEPT ![job] = m[2]]
              /\ inbox' = Tail(inbox)
              /\ worker' = "report"
              /\ UNCHANGED <<attempt, stream, stage>>
         ELSE AttemptFailed(Tail(inbox)) /\ UNCHANGED <<ok, answer>>
  /\ UNCHANGED <<callerVars, stopped, job, order, requests, result, faults>>

\* The first execution event answers, whichever order it is about.
ReadFrame ==
  /\ worker = "read" /\ inbox # <<>>
  /\ LET m == Head(inbox)
     IN  IF m[1] \in Good
         THEN /\ ok' = TRUE
              /\ answer' = [answer EXCEPT ![job] = m[2]]
              /\ inbox' = Tail(inbox)
              /\ worker' = "report"
              /\ UNCHANGED <<attempt, stream, stage>>
         ELSE AttemptFailed(Tail(inbox)) /\ UNCHANGED <<ok, answer>>
  /\ UNCHANGED <<callerVars, stopped, job, order, requests, result, faults>>

-----------------------------------------------------------------------------
(* The server and the network (external).                                  *)

Tell(kind, r) ==
  inbox' = IF stream = "up" /\ Stages[stage] \in Authorised
           THEN Append(inbox, <<kind, r>>) ELSE inbox

ServerDecides(r, kind) ==
  /\ order[r] = "sent"
  /\ order' = [order EXCEPT ![r] = IF kind = "accepted" THEN "accepted" ELSE "rejected"]
  /\ Tell(kind, r)
  /\ UNCHANGED <<callerVars, stopped, worker, job, attempt, stream, stage, ok,
                 requests, result, answer, faults>>

ServerFills(r) ==
  /\ order[r] = "accepted"
  /\ order' = [order EXCEPT ![r] = "filled"]
  /\ Tell("filled", r)
  /\ UNCHANGED <<callerVars, stopped, worker, job, attempt, stream, stage, ok,
                 requests, result, answer, faults>>

ServerSaysBye ==
  /\ stream = "up" /\ Stages[stage] \in Authorised /\ faults < MaxFaults
  /\ faults' = faults + 1
  /\ Tell("bye", 0)
  /\ UNCHANGED <<callerVars, stopped, worker, job, attempt, stream, stage, ok,
                 order, requests, result, answer>>

StreamBreaks ==
  /\ stream = "up" /\ faults < MaxFaults
  /\ faults' = faults + 1
  /\ stream' = "dead" /\ inbox' = <<>>
  /\ UNCHANGED <<callerVars, stopped, worker, job, attempt, stage, ok, order,
                 requests, result, answer>>

-----------------------------------------------------------------------------
Worker ==
  \/ WorkerExit \/ WakeIdle \/ TakeJob \/ Report \/ ConnectStep \/ ConnectFails
  \/ SendOrder \/ TransportFails \/ ReadFrame

Server ==
  \E r \in DOMAIN order :
    ServerFills(r) \/ \E kind \in {"accepted", "rejected", "error"} : ServerDecides(r, kind)

Next ==
  \/ Execute \/ Stop \/ Start \/ Worker
  \/ Server \/ ServerSaysBye \/ StreamBreaks

Spec == Init /\ [][Next]_vars

(* The worker thread is scheduled, a connection attempt ends, and the      *)
(* server decides every order it is sent.  Neither connect() nor           *)
(* read_frame() has a timeout: nothing else ends their waits.              *)
FairSpec == Spec /\ WF_vars(Worker) /\ WF_vars(Server)

-----------------------------------------------------------------------------
TypeOK ==
  /\ jobs \in Seq(Jobs) /\ Len(jobs) <= QueueLimit
  /\ {wake, stopped, ok} \subseteq BOOLEAN
  /\ worker \in {"wait", "connect", "send", "read", "report", "off"}
  /\ job \in 0 .. MaxJobs /\ attempt \in {1, 2}
  /\ stream \in {"none", "up", "dead"} /\ stage \in DOMAIN Stages
  /\ \A i \in DOMAIN inbox : inbox[i][2] \in 0 .. Len(requests)
  /\ DOMAIN order = DOMAIN requests
  /\ result \in [Jobs -> {"pending", "ok", "failed", "dropped"}]
  /\ answer \in [Jobs -> 0 .. Len(requests)]
  /\ worker \in {"send", "read"} => stream # "none" /\ Stages[stage] = "ready"

(* ctrader_executor.cpp:183-210, header "FIFO queue serializes orders".    *)
(* Orders reach the server in the order of acceptance, none more than      *)
(* twice, and never after its result was reported.                         *)
RequestsInOrder ==
  /\ TypeOK
  /\ \A i, k \in DOMAIN requests :
       i <= k => requests[i] <= requests[k] /\ (requests[i] = requests[k] => k <= i + 1)
  /\ worker \in {"send", "read"} => result[job] = "pending"

(* ctrader_executor.h:57, "order accepted/executed", and 135, "Encode a    *)
(* market order + await its EXECUTION_EVENT".  A job is reported ok on an  *)
(* event of a request of its own.  exchange() does not compare client      *)
(* order ids (ctrader_executor.cpp:546), and this does not hold.           *)
OkIsItsOwn ==
  \A j \in Jobs :
    result[j] = "ok" => answer[j] # 0 /\ requests[answer[j]] = j

(* ctrader_executor.cpp:455-494, 546.  What bounds the damage when         *)
(* OkIsItsOwn fails: no event is used twice, none of a rejected request    *)
(* makes an ok, and none is taken before its request was sent.  A request  *)
(* that the server accepted accounts for one ok result, or for two once it *)
(* is filled, and it is a request of this job or of one before it.         *)
OkNeedsAnEvent ==
  /\ \A r \in DOMAIN requests :
       Cardinality({j \in Jobs : answer[j] = r})
         <= CASE order[r] = "filled" -> 2
              [] order[r] = "accepted" -> 1
              [] OTHER -> 0
  /\ \A j \in Jobs : answer[j] # 0 => requests[answer[j]] <= j

(* ctrader_executor.cpp:178-186.  No wake-up is lost: unless it is         *)
(* stopped, the worker comes to every order that execute() accepted, and   *)
(* the order is answered, given up or dropped.                             *)
AcceptedIsServed ==
  \A j \in Jobs :
    (accepted >= j /\ ~stopped) ~> (result[j] # "pending" \/ stopped)

(* ctrader_executor.cpp:130-137.  stop() returns, also from a connect, a   *)
(* retry or an exchange under way.                                         *)
StopCompletes == stopped ~> worker = "off"
=============================================================================
