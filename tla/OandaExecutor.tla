---------------------------- MODULE OandaExecutor ---------------------------
(***************************************************************************)
(* src/oanda_executor.cpp: callers enqueue market orders, one worker       *)
(* thread posts them over a persistent TLS stream and retries a post once  *)
(* after a transport failure.                                              *)
(*                                                                         *)
(* A job is its number in the order in which execute() accepted it.  The   *)
(* broker behind the stream is external: it executes or refuses a request  *)
(* that reaches it, and its answer may be lost with the connection.        *)
(***************************************************************************)
EXTENDS Integers, Sequences

CONSTANTS
  MaxJobs,      \* bound: orders accepted by execute()
  QueueLimit,   \* queue_limit_ (256 in the code)
  MaxFaults     \* bound: connect and transport failures

ASSUME OandaAssumption == MaxJobs \in Nat /\ QueueLimit \in Nat /\ MaxFaults \in Nat

Jobs == 1 .. MaxJobs

(* How one post over the stream can end: the answer arrives (done: 2xx,    *)
(* refused: another HTTP status), or the transport fails before the        *)
(* request reached the broker, after the broker executed it, or after the  *)
(* broker refused it.                                                      *)
Answers == {"done", "refused"}
Failures == {"unsent", "doneLost", "refusedLost"}

VARIABLES
  jobs,      \* jobs_
  wake,      \* wake_
  running,   \* running_
  worker,    \* worker thread: "boot", "top" (of the loop), "wait", "send",
             \* "report", "exited"
  job,       \* the job being sent
  attempt,   \* send_market_order's attempt, 1 or 2
  connected, \* connected()
  outcome,   \* the result being built: "none", "done" or "refused"
  accepted,  \* history: jobs accepted by execute()
  posts,     \* history: <<job, how the post ended>> of every post
  result,    \* history: job -> outcome given to the callback, or "pending"
  faults     \* bound: failures so far

oandaVars == <<jobs, wake, running, worker, job, attempt, connected, outcome,
          accepted, posts, result, faults>>

OandaInit ==
  /\ jobs = <<>> /\ wake = FALSE
  /\ running = TRUE /\ worker = "boot"
  /\ job = 0 /\ attempt = 1 /\ connected = FALSE /\ outcome = "none"
  /\ accepted = 0 /\ posts = <<>>
  /\ result = [j \in Jobs |-> "pending"]
  /\ faults = 0

-----------------------------------------------------------------------------
(* Callers.                                                                *)

\* A full queue drops the order without a trace; that changes nothing.
Execute ==
  /\ accepted < MaxJobs
  /\ Len(jobs) < QueueLimit
  /\ accepted' = accepted + 1
  /\ jobs' = Append(jobs, accepted + 1)
  /\ wake' = TRUE
  /\ UNCHANGED <<running, worker, job, attempt, connected, outcome, posts,
                 result, faults>>

\* stop(), up to the join: running_ falls before the mutex is taken to set
\* wake_, but the waiting worker tests both under the mutex.
Stop ==
  /\ running
  /\ running' = FALSE
  /\ wake' = TRUE
  /\ UNCHANGED <<jobs, worker, job, attempt, connected, outcome, accepted,
                 posts, result, faults>>

\* start() after a completed stop(), which may have set wake_ only after the
\* worker had left; the orders still queued wait for the new worker.
Start ==
  /\ worker = "exited" /\ ~running
  /\ running' = TRUE
  /\ worker' = "boot"
  /\ wake' \in {wake, TRUE}
  /\ UNCHANGED <<jobs, job, attempt, connected, outcome, accepted, posts, result,
                 faults>>

-----------------------------------------------------------------------------
(* connect(): succeeds or fails; the worker thread owns the stream.        *)

Connect ==
  \/ connected' = TRUE /\ faults' = faults
  \/ faults < MaxFaults /\ connected' = FALSE /\ faults' = faults + 1

\* The first connection is attempted before any order; failing is no error.
Boot ==
  /\ worker = "boot"
  /\ worker' = "top"
  /\ IF running THEN Connect ELSE UNCHANGED <<connected, faults>>
  /\ UNCHANGED <<jobs, wake, running, job, attempt, outcome, accepted, posts,
                 result>>

(* worker_loop(): the wait, and one job taken per wake-up.                 *)

LoopTop ==
  /\ worker = "top"
  /\ worker' = IF running THEN "wait" ELSE "exited"
  /\ connected' = (connected /\ running)
  /\ UNCHANGED <<jobs, wake, running, job, attempt, outcome, accepted, posts,
                 result, faults>>

\* Mutant: after an idle wake-up the worker waits again at once.
WakeIdleRewaits ==
  /\ worker = "wait" /\ (wake \/ ~running) /\ jobs = <<>>
  /\ wake' = FALSE
  /\ UNCHANGED <<jobs, running, worker, job, attempt, connected, outcome,
                 accepted, posts, result, faults>>

\* A wake-up without a job; the loop test or the break follows.
WakeIdle ==
  /\ worker = "wait" /\ (wake \/ ~running) /\ jobs = <<>>
  /\ wake' = FALSE
  /\ worker' = "top"
  /\ UNCHANGED <<jobs, running, job, attempt, connected, outcome, accepted,
                 posts, result, faults>>

\* A wake-up takes one job, also after stop(), and clears the flag even if
\* more jobs are queued.
TakeJob ==
  /\ worker = "wait" /\ (wake \/ ~running) /\ jobs # <<>>
  /\ wake' = FALSE
  /\ job' = Head(jobs)
  /\ jobs' = Tail(jobs)
  /\ attempt' = 1 /\ outcome' = "none" /\ worker' = "send"
  /\ UNCHANGED <<running, connected, accepted, posts, result, faults>>

-----------------------------------------------------------------------------
(* send_market_order().                                                    *)

\* Not connected: connect, or give up on the job.
Reconnect ==
  /\ worker = "send" /\ ~connected
  /\ Connect
  /\ worker' = IF connected' THEN "send" ELSE "report"
  /\ UNCHANGED <<jobs, wake, running, job, attempt, outcome, accepted, posts,
                 result>>

\* Mutant: an HTTP error is retried like a transport failure.
PostAnsweredRetried(how) ==
  /\ worker = "send" /\ connected
  /\ posts' = Append(posts, <<job, how>>)
  /\ outcome' = how
  /\ attempt' = 2
  /\ worker' = IF how = "refused" /\ attempt = 1 THEN "send" ELSE "report"
  /\ UNCHANGED <<jobs, wake, running, job, connected, accepted, result, faults>>

\* An HTTP answer of either kind ends the job.
PostAnswered(how) ==
  /\ worker = "send" /\ connected
  /\ posts' = Append(posts, <<job, how>>)
  /\ outcome' = how
  /\ worker' = "report"
  /\ UNCHANGED <<jobs, wake, running, job, attempt, connected, accepted, result,
                 faults>>

\* A transport failure tears the stream down; the second one ends the job.
PostFails(how) ==
  /\ worker = "send" /\ connected
  /\ faults < MaxFaults
  /\ faults' = faults + 1
  /\ posts' = Append(posts, <<job, how>>)
  /\ connected' = FALSE
  /\ attempt' = 2
  /\ worker' = IF attempt = 1 THEN "send" ELSE "report"
  /\ UNCHANGED <<jobs, wake, running, job, outcome, accepted, result>>

\* Mutant: a job is reported well when either attempt reached the broker.
ReportAnyAnswer ==
  /\ worker = "report"
  /\ result' = [result EXCEPT ![job] = IF outcome # "none" THEN "ok" ELSE "failed"]
  /\ worker' = "top"
  /\ UNCHANGED <<jobs, wake, running, job, attempt, connected, outcome,
                 accepted, posts, faults>>

\* The callback; the loop then tests running_.
Report ==
  /\ worker = "report"
  /\ result' = [result EXCEPT ![job] = IF outcome = "done" THEN "ok" ELSE "failed"]
  /\ worker' = "top"
  /\ UNCHANGED <<jobs, wake, running, job, attempt, connected, outcome,
                 accepted, posts, faults>>

-----------------------------------------------------------------------------
Worker ==
  \/ Boot \/ LoopTop \/ WakeIdle \/ TakeJob \/ Reconnect \/ Report
  \/ \E how \in Answers : PostAnswered(how)
  \/ \E how \in Failures : PostFails(how)

OandaNext == Execute \/ Stop \/ Start \/ Worker

OandaSpec == OandaInit /\ [][OandaNext]_oandaVars

(* The worker is inside a call on the stream: connecting, posting, or      *)
(* shutting TLS down on its way out.  None of these calls has a deadline,  *)
(* so that each lasts for as long as the server is silent.                 *)
InCall ==
  \/ worker = "boot" /\ running
  \/ worker = "send"
  \/ worker = "top" /\ ~running /\ connected

(* The worker thread is scheduled; callers are free, and a call on the     *)
(* stream may never end.                                                   *)
OandaFairSpec == OandaSpec /\ WF_oandaVars(~InCall /\ Worker)

\* Every call on the stream ends: the server answers or the connection dies.
CallsEnd == []<>~InCall

-----------------------------------------------------------------------------
OandaTypeOK ==
  /\ jobs \in Seq(Jobs) /\ Len(jobs) <= QueueLimit
  /\ {wake, running, connected} \subseteq BOOLEAN
  /\ worker \in {"boot", "top", "wait", "send", "report", "exited"}
  /\ job \in 0 .. MaxJobs /\ attempt \in {1, 2}
  /\ outcome \in Answers \cup {"none"}
  /\ accepted \in 0 .. MaxJobs
  /\ posts \in Seq(Jobs \X (Answers \cup Failures))
  /\ result \in [Jobs -> {"pending", "ok", "failed"}]
  /\ faults \in 0 .. MaxFaults

(* oanda_executor.cpp:115-124, 202-206, header "FIFO queue serializes      *)
(* sends".  Orders reach the broker in the order in which they were        *)
(* accepted, retries included; none is posted more than twice, and again   *)
(* only after a transport failure: an HTTP answer is final.                *)
PostsInOrder ==
  /\ OandaTypeOK
  /\ \A i, k \in DOMAIN posts :
       i < k =>
         /\ posts[i][1] <= posts[k][1]
         /\ posts[i][1] = posts[k][1] => k = i + 1 /\ posts[i][2] \in Failures

(* oanda_executor.cpp:240-299.  A job is reported ok exactly when one of   *)
(* its posts was answered with success; an execution whose answer was lost *)
(* is not enough, and no retry hides a success.                            *)
ReportsAreTruthful ==
  \A j \in Jobs :
    result[j] # "pending" =>
      (result[j] = "ok" <=> \E i \in DOMAIN posts : posts[i] = <<j, "done">>)

(* oanda_executor.cpp:71-79, 112-128.  stop() never waits for the worker's *)
(* own wait: it returns provided that the calls on the stream end.  A      *)
(* server that falls silent holds stop() for ever (144-146, 168, 250-253). *)
OandaStopCompletes == CallsEnd => (~running ~> worker = "exited")

(* oanda_executor.h:19-20, "execute() only enqueues an order ...; the      *)
(* HTTPS POST is performed on a dedicated worker".  An order in the queue  *)
(* is taken and reported, unless the executor is stopped or a call on the  *)
(* stream never ends.                                                      *)
QueuedIsServed ==
  CallsEnd => \A j \in Jobs :
    running /\ (\E i \in DOMAIN jobs : jobs[i] = j)
      ~> result[j] # "pending" \/ ~running
=============================================================================
