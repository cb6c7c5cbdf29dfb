------------------------- MODULE OandaExecutorProofs ------------------------
(***************************************************************************)
(* What one worker over a queue guarantees of the orders it posts, for     *)
(* every number of orders, queue limit and pattern of failures: the order  *)
(* of the posts and the truth of the reports.                              *)
(***************************************************************************)
EXTENDS OandaExecutor, TLAPS

(* The inductive invariant.  Orders are taken in the order of their        *)
(* numbers, so that job separates those that were posted from those that   *)
(* are still queued.                                                       *)

Busy == worker \in {"send", "report"}

\* The queue holds the orders behind the one taken last.
QueueInv ==
  /\ job <= accepted
  /\ Len(jobs) = accepted - job
  /\ \A i \in 1 .. Len(jobs) : jobs[i] = job + i
  /\ Busy => job >= 1

\* An order is pending until its turn is over.
ResultInv ==
  \A j \in Jobs : result[j] = "pending" <=> j > job \/ (Busy /\ j = job)

PostsOrdered ==
  \A i, k \in DOMAIN posts :
    i < k =>
      /\ posts[i][1] <= posts[k][1]
      /\ posts[i][1] = posts[k][1] => k = i + 1 /\ posts[i][2] \in Failures

Done(j) == \E i \in DOMAIN posts : posts[i] = <<j, "done">>

\* Only a second attempt has a post before it, the last one, which failed.
AttemptInv ==
  /\ \A i \in DOMAIN posts : posts[i][1] <= job
  /\ worker = "send" =>
       /\ outcome = "none"
       /\ \A i \in DOMAIN posts :
            posts[i][1] = job =>
              attempt = 2 /\ i = Len(posts) /\ posts[i][2] \in Failures
  /\ worker = "report" => (outcome = "done" <=> Done(job))

PostInv == OandaTypeOK /\ QueueInv /\ ResultInv /\ PostsOrdered /\ AttemptInv
             /\ ReportsAreTruthful

-----------------------------------------------------------------------------
LEMMA PostInvInit == OandaInit => PostInv
<1>1. SUFFICES ASSUME OandaInit PROVE PostInv
  OBVIOUS
<1>2. posts = <<>> /\ DOMAIN posts = {} /\ Len(jobs) = 0
  BY <1>1 DEF OandaInit
<1>3. OandaTypeOK
  <2>1. 0 \in 0 .. MaxJobs /\ 0 \in 0 .. MaxFaults /\ 0 <= QueueLimit
    BY OandaAssumption
  <2>2. jobs \in Seq(Jobs) /\ posts \in Seq(Jobs \X (Answers \cup Failures))
    BY <1>1 DEF OandaInit
  <2>3. QED
    BY <1>1, <1>2, <2>1, <2>2 DEF OandaInit, OandaTypeOK
<1>4. QueueInv /\ ResultInv
  BY <1>1, <1>2 DEF OandaInit, QueueInv, ResultInv, Busy, Jobs
<1>5. PostsOrdered /\ AttemptInv /\ ReportsAreTruthful
  BY <1>1, <1>2 DEF OandaInit, PostsOrdered, AttemptInv, ReportsAreTruthful
<1>6. QED
  BY <1>3, <1>4, <1>5 DEF PostInv

\* A post is one of the job under way.
LEMMA PostType ==
  ASSUME OandaTypeOK, QueueInv, worker = "send", NEW how \in Answers \cup Failures
  PROVE  /\ job \in Jobs
         /\ Append(posts, <<job, how>>) \in Seq(Jobs \X (Answers \cup Failures))
<1>1. job \in Jobs
  BY DEF OandaTypeOK, QueueInv, Busy, Jobs
<1>2. QED
  BY <1>1 DEF OandaTypeOK

\* The count of faults stays within its bound.
LEMMA FaultType ==
  ASSUME OandaTypeOK
  PROVE  /\ faults < MaxFaults => faults + 1 \in 0 .. MaxFaults
         /\ Connect => faults' \in 0 .. MaxFaults /\ connected' \in BOOLEAN
<1>1. faults \in 0 .. MaxFaults /\ MaxFaults \in Nat
  BY OandaAssumption DEF OandaTypeOK
<1>2. faults < MaxFaults => faults + 1 \in 0 .. MaxFaults
  BY <1>1
<1>3. QED
  BY <1>1, <1>2 DEF Connect

LEMMA OandaTypeNext == OandaTypeOK /\ QueueInv /\ [OandaNext]_oandaVars => OandaTypeOK'
<1>1. SUFFICES ASSUME OandaTypeOK, QueueInv, [OandaNext]_oandaVars PROVE OandaTypeOK'
  OBVIOUS
<1> USE <1>1
<1>2. CASE Execute
  <2>1. accepted + 1 \in Jobs /\ accepted + 1 \in 0 .. MaxJobs
    BY <1>2, OandaAssumption DEF Execute, OandaTypeOK, Jobs
  <2>2. jobs' \in Seq(Jobs) /\ Len(jobs') = Len(jobs) + 1
    BY <1>2, <2>1 DEF Execute, OandaTypeOK
  <2>3. Len(jobs') <= QueueLimit
    BY <1>2, <2>2, OandaAssumption DEF Execute, OandaTypeOK
  <2>4. QED
    BY <1>2, <2>1, <2>2, <2>3 DEF Execute, OandaTypeOK
<1>3. CASE Stop
  BY <1>3 DEF Stop, OandaTypeOK
<1>4. CASE Start
  BY <1>4 DEF Start, OandaTypeOK
<1>5. CASE Boot
  <2>1. connected' \in BOOLEAN /\ faults' \in 0 .. MaxFaults
    BY <1>5, FaultType DEF Boot, OandaTypeOK
  <2>2. QED
    BY <1>5, <2>1 DEF Boot, OandaTypeOK
<1>6. CASE LoopTop
  BY <1>6 DEF LoopTop, OandaTypeOK
<1>7. CASE WakeIdle
  BY <1>7 DEF WakeIdle, OandaTypeOK
<1>8. CASE TakeJob
  <2>1. Head(jobs) \in Jobs /\ Tail(jobs) \in Seq(Jobs)
        /\ Len(Tail(jobs)) <= QueueLimit
    BY <1>8, OandaAssumption DEF TakeJob, OandaTypeOK
  <2>2. Head(jobs) \in 0 .. MaxJobs
    BY <2>1 DEF Jobs
  <2>3. QED
    BY <1>8, <2>1, <2>2 DEF TakeJob, OandaTypeOK
<1>9. CASE Reconnect
  <2>1. connected' \in BOOLEAN /\ faults' \in 0 .. MaxFaults
    BY <1>9, FaultType DEF Reconnect
  <2>2. QED
    BY <1>9, <2>1 DEF Reconnect, OandaTypeOK
<1>10. CASE Report
  <2>1. result' \in [Jobs -> {"pending", "ok", "failed"}]
    BY <1>10 DEF Report, OandaTypeOK
  <2>2. QED
    BY <1>10, <2>1 DEF Report, OandaTypeOK
<1>11. ASSUME NEW how \in Answers, PostAnswered(how)
       PROVE  OandaTypeOK'
  <2>1. posts' \in Seq(Jobs \X (Answers \cup Failures))
    BY <1>11, PostType DEF PostAnswered
  <2>2. QED
    BY <1>11, <2>1 DEF PostAnswered, OandaTypeOK
<1>12. ASSUME NEW how \in Failures, PostFails(how)
       PROVE  OandaTypeOK'
  <2>1. posts' \in Seq(Jobs \X (Answers \cup Failures))
    BY <1>12, PostType DEF PostFails
  <2>2. QED
    BY <1>12, <2>1, FaultType DEF PostFails, OandaTypeOK
<1>13. CASE UNCHANGED oandaVars
  BY <1>13 DEF oandaVars, OandaTypeOK
<1>14. QED
  BY <1>2, <1>3, <1>4, <1>5, <1>6, <1>7, <1>8, <1>9, <1>10, <1>11, <1>12, <1>13
     DEF OandaNext, Worker

LEMMA QueueInvNext == OandaTypeOK /\ QueueInv /\ [OandaNext]_oandaVars => QueueInv'
<1>1. SUFFICES ASSUME OandaTypeOK, QueueInv, [OandaNext]_oandaVars PROVE QueueInv'
  OBVIOUS
<1>2. /\ jobs \in Seq(Jobs) /\ Len(jobs) \in Nat /\ job \in Nat
      /\ accepted \in Nat /\ job <= accepted /\ Len(jobs) = accepted - job
      /\ \A i \in 1 .. Len(jobs) : jobs[i] = job + i
    BY <1>1, OandaAssumption DEF OandaTypeOK, QueueInv
<1>3. CASE Execute
  <2>1. /\ jobs' = Append(jobs, accepted + 1) /\ accepted' = accepted + 1
        /\ UNCHANGED <<job, worker>>
    BY <1>3 DEF Execute
  <2>2. Len(jobs') = Len(jobs) + 1 /\ Len(jobs') = accepted' - job'
    <3>1. Len(jobs') = Len(jobs) + 1
      <4>1. accepted + 1 \in Jobs
        BY <1>2, <1>3, OandaAssumption DEF Execute, Jobs
      <4>2. jobs \in Seq(Jobs)
        BY <1>2
      <4>3. QED
        BY <2>1, <4>1, <4>2
    <3>2. Len(jobs) + 1 = (accepted + 1) - job
      BY <1>2
    <3>3. QED
      BY <2>1, <3>1, <3>2
  <2>3. jobs'[Len(jobs) + 1] = accepted + 1
        /\ \A i \in 1 .. Len(jobs) : jobs'[i] = jobs[i]
    BY <1>2, <2>1
  <2>4. ASSUME NEW i \in 1 .. Len(jobs')
        PROVE  jobs'[i] = job' + i
    <3>1. CASE i = Len(jobs) + 1
      BY <1>2, <2>1, <2>3, <3>1
    <3>2. CASE i # Len(jobs) + 1
      <4>1. i \in 1 .. Len(jobs)
        BY <1>2, <2>2, <3>2
      <4>2. QED
        BY <1>2, <2>1, <2>3, <4>1
    <3>3. QED
      BY <3>1, <3>2
  <2>5. QED
    BY <1>1, <1>2, <2>1, <2>2, <2>4 DEF QueueInv, Busy
<1>4. CASE TakeJob
  <2>1. /\ jobs # <<>> /\ job' = Head(jobs) /\ jobs' = Tail(jobs)
        /\ accepted' = accepted
    BY <1>4 DEF TakeJob
  <2>2. Len(jobs) >= 1 /\ Len(jobs') = Len(jobs) - 1 /\ Head(jobs) = jobs[1]
    BY <1>2, <2>1
  <2>3. job' = job + 1
    BY <1>2, <2>1, <2>2
  <2>4. \A i \in 1 .. Len(jobs') : jobs'[i] = jobs[i + 1]
    BY <1>2, <2>1, <2>2
  <2>5. ASSUME NEW i \in 1 .. Len(jobs')
        PROVE  jobs'[i] = job' + i
    <3>1. i + 1 \in 1 .. Len(jobs)
      BY <1>2, <2>2
    <3>2. QED
      BY <1>2, <2>3, <2>4, <3>1
  <2>6. job' <= accepted' /\ Len(jobs') = accepted' - job' /\ job' >= 1
    BY <1>2, <2>1, <2>2, <2>3
  <2>7. QED
    BY <2>5, <2>6 DEF QueueInv
<1>5. CASE UNCHANGED <<jobs, job, accepted>> /\ (Busy' => Busy)
  BY <1>1, <1>5 DEF QueueInv
<1>6. \/ Execute \/ TakeJob
      \/ UNCHANGED <<jobs, job, accepted>> /\ (Busy' => Busy)
  BY <1>1 DEF OandaNext, Worker, Stop, Start, Boot, LoopTop, WakeIdle, Reconnect,
     Report, PostAnswered, PostFails, oandaVars, Busy
<1>7. QED
  BY <1>3, <1>4, <1>5, <1>6

LEMMA ResultInvNext == PostInv /\ [OandaNext]_oandaVars => ResultInv'
<1>1. SUFFICES ASSUME PostInv, [OandaNext]_oandaVars, NEW j \in Jobs
               PROVE  (result[j] = "pending" <=> j > job \/ (Busy /\ j = job))'
  BY DEF ResultInv
<1>2. /\ result[j] = "pending" <=> j > job \/ (Busy /\ j = job)
      /\ j \in Nat /\ job \in Nat /\ result \in [Jobs -> {"pending", "ok", "failed"}]
  BY <1>1, OandaAssumption DEF PostInv, ResultInv, OandaTypeOK, Jobs
<1>3. CASE TakeJob
  <2>1. job' = job + 1
    <3>1. jobs # <<>> /\ job' = jobs[1] /\ jobs \in Seq(Jobs)
      BY <1>1, <1>3 DEF TakeJob, PostInv, OandaTypeOK
    <3>2. 1 \in 1 .. Len(jobs)
      BY <3>1
    <3>3. QED
      BY <1>1, <3>1, <3>2 DEF PostInv, QueueInv
  <2>2. ~Busy /\ Busy' /\ result' = result
    BY <1>3 DEF TakeJob, Busy
  <2>3. QED
    BY <1>2, <2>1, <2>2
<1>4. CASE Report
  <2>1. job' = job /\ ~Busy' /\ Busy
    BY <1>4 DEF Report, Busy
  <2>2. CASE j = job
    <3>1. result'[j] # "pending"
      BY <1>2, <1>4, <2>2 DEF Report
    <3>2. QED
      BY <1>2, <2>1, <2>2, <3>1
  <2>3. CASE j # job
    BY <1>2, <1>4, <2>1, <2>3 DEF Report
  <2>4. QED
    BY <2>2, <2>3
<1>5. CASE UNCHANGED <<job, result>> /\ (Busy' <=> Busy)
  BY <1>2, <1>5
<1>6. TakeJob \/ Report \/ (UNCHANGED <<job, result>> /\ (Busy' <=> Busy))
  BY <1>1 DEF OandaNext, Worker, Execute, Stop, Start, Boot, LoopTop, WakeIdle,
     Reconnect, PostAnswered, PostFails, oandaVars, Busy
<1>7. QED
  BY <1>3, <1>4, <1>5, <1>6

-----------------------------------------------------------------------------
(* One more post of the job under way.                                     *)

\* Before a post, every post of the job under way is a first, failed one.
LEMMA AppendPost ==
  ASSUME PostInv, worker = "send", NEW how \in Answers \cup Failures,
         posts' = Append(posts, <<job, how>>), job' = job, result' = result
  PROVE  /\ PostsOrdered'
         /\ \A i \in DOMAIN posts' :
              posts'[i][1] <= job /\ (posts'[i][1] = job =>
                i = Len(posts') \/ posts'[i][2] \in Failures)
         /\ attempt = 1 => \A i \in DOMAIN posts' :
              posts'[i][1] = job => i = Len(posts')
         /\ posts'[Len(posts')] = <<job, how>>
         /\ ReportsAreTruthful'
<1> DEFINE n == Len(posts)
           p == posts'
<1>1. /\ posts \in Seq(Jobs \X (Answers \cup Failures)) /\ n \in Nat
      /\ job \in Jobs /\ job \in Nat
  <2>1. OandaTypeOK /\ QueueInv
    BY DEF PostInv
  <2>2. job \in Jobs
    BY <2>1, PostType
  <2>3. QED
    BY <2>1, <2>2 DEF OandaTypeOK, Jobs
<1>2. /\ Len(p) = n + 1 /\ DOMAIN p = 1 .. n + 1 /\ DOMAIN posts = 1 .. n
      /\ p[n + 1] = <<job, how>>
      /\ \A i \in 1 .. n : p[i] = posts[i]
  BY <1>1
<1>3. ASSUME NEW i \in 1 .. n
      PROVE  /\ posts[i][1] \in Nat /\ posts[i][1] <= job
             /\ posts[i][1] = job =>
                  attempt = 2 /\ i = n /\ posts[i][2] \in Failures
  <2>1. posts[i] \in Jobs \X (Answers \cup Failures)
    BY <1>1
  <2>2. posts[i][1] \in Nat
    BY <2>1 DEF Jobs
  <2>3. /\ posts[i][1] <= job
        /\ posts[i][1] = job =>
             attempt = 2 /\ i = n /\ posts[i][2] \in Failures
    BY <1>2 DEF PostInv, AttemptInv
  <2>4. QED
    BY <2>2, <2>3
<1>4. p[n + 1][1] = job /\ p[n + 1][2] = how
  BY <1>2
<1> HIDE DEF p, n
<1>5. PostsOrdered'
  <2>1. SUFFICES ASSUME NEW i \in 1 .. n + 1, NEW k \in 1 .. n + 1, i < k
                 PROVE  /\ p[i][1] <= p[k][1]
                        /\ p[i][1] = p[k][1] => k = i + 1 /\ p[i][2] \in Failures
    BY <1>2 DEF PostsOrdered, p
  <2>2. i \in 1 .. n
    BY <1>1, <2>1
  <2>3. CASE k \in 1 .. n
    BY <1>2, <2>1, <2>2, <2>3 DEF PostInv, PostsOrdered
  <2>4. CASE k = n + 1
    BY <1>1, <1>2, <1>3, <1>4, <2>2, <2>4
  <2>5. QED
    BY <1>1, <2>1, <2>3, <2>4
<1>6. ASSUME NEW i \in DOMAIN p
      PROVE  /\ p[i][1] <= job
             /\ p[i][1] = job => i = Len(p) \/ p[i][2] \in Failures
             /\ attempt = 1 /\ p[i][1] = job => i = Len(p)
  <2>1. CASE i = n + 1
    BY <1>1, <1>2, <1>4, <2>1
  <2>2. CASE i \in 1 .. n
    BY <1>1, <1>2, <1>3, <2>2
  <2>3. QED
    BY <1>1, <1>2, <1>6, <2>1, <2>2
<1>7. ReportsAreTruthful'
  <2>1. ASSUME NEW j \in Jobs, result[j] # "pending"
        PROVE  (\E i \in DOMAIN p : p[i] = <<j, "done">>) <=> Done(j)
    <3>1. j # job
      BY <1>1, <2>1 DEF PostInv, ResultInv, Busy
    <3>2. p[n + 1] # <<j, "done">>
      BY <1>4, <3>1
    <3>3. ASSUME NEW i \in 1 .. n + 1, p[i] = <<j, "done">>
          PROVE  i \in 1 .. n /\ posts[i] = <<j, "done">>
      <4>1. i # n + 1
        BY <3>2, <3>3
      <4>2. i \in 1 .. n
        BY <1>1, <4>1
      <4>3. QED
        BY <1>2, <3>3, <4>2
    <3>4. ASSUME NEW i \in 1 .. n
          PROVE  i \in 1 .. n + 1
      BY <1>1
    <3>5. QED
      BY <1>2, <3>3, <3>4 DEF Done
  <2>2. QED
    BY <2>1 DEF PostInv, ReportsAreTruthful, Done, p
<1>8. QED
  BY <1>2, <1>5, <1>6, <1>7 DEF p

-----------------------------------------------------------------------------
LEMMA PostInvNext == PostInv /\ [OandaNext]_oandaVars => PostInv'
<1>1. SUFFICES ASSUME PostInv, [OandaNext]_oandaVars
               PROVE  PostsOrdered' /\ AttemptInv' /\ ReportsAreTruthful'
  BY OandaTypeNext, QueueInvNext, ResultInvNext DEF PostInv
<1>2. /\ posts \in Seq(Jobs \X (Answers \cup Failures)) /\ Len(posts) \in Nat
      /\ DOMAIN posts = 1 .. Len(posts) /\ attempt \in {1, 2}
      /\ job \in Nat
  BY <1>1, OandaAssumption DEF PostInv, OandaTypeOK
<1>3. CASE UNCHANGED <<posts, result, job, worker, attempt, outcome>>
  BY <1>1, <1>3 DEF PostInv, PostsOrdered, AttemptInv, ReportsAreTruthful, Done
<1>4. CASE /\ UNCHANGED <<posts, result, job, attempt, outcome>>
           /\ worker' \notin {"send", "report"}
  BY <1>1, <1>4 DEF PostInv, PostsOrdered, AttemptInv, ReportsAreTruthful
<1>5. CASE TakeJob
  <2>1. UNCHANGED <<posts, result>> /\ outcome' = "none" /\ worker' = "send"
    BY <1>5 DEF TakeJob
  <2>2. job' = job + 1
    <3>1. jobs # <<>> /\ job' = jobs[1] /\ jobs \in Seq(Jobs)
      BY <1>1, <1>5 DEF TakeJob, PostInv, OandaTypeOK
    <3>2. 1 \in 1 .. Len(jobs)
      BY <3>1
    <3>3. QED
      BY <1>1, <3>1, <3>2 DEF PostInv, QueueInv
  <2>3. ASSUME NEW i \in DOMAIN posts
        PROVE  posts[i][1] <= job' /\ posts[i][1] # job'
    <3>1. posts[i] \in Jobs \X (Answers \cup Failures)
      BY <1>2
    <3>2. posts[i][1] \in Nat
      BY <3>1 DEF Jobs
    <3>3. posts[i][1] <= job
      BY <1>1 DEF PostInv, AttemptInv
    <3>4. QED
      BY <1>2, <2>2, <3>2, <3>3
  <2>4. AttemptInv'
    BY <2>1, <2>3 DEF AttemptInv
  <2>5. QED
    BY <1>1, <2>1, <2>4 DEF PostInv, PostsOrdered, ReportsAreTruthful
<1>6. CASE Reconnect
  <2>1. /\ UNCHANGED <<posts, result, job, attempt, outcome>> /\ worker = "send"
        /\ worker' \in {"send", "report"}
    BY <1>6 DEF Reconnect
  <2>2. outcome # "done" /\ ~Done(job)
    <3>1. ASSUME NEW i \in DOMAIN posts, posts[i] = <<job, "done">>
          PROVE  FALSE
      <4>1. posts[i][1] = job /\ posts[i][2] = "done"
        BY <3>1
      <4>2. posts[i][2] \in Failures
        BY <1>1, <2>1, <4>1 DEF PostInv, AttemptInv
      <4>3. QED
        BY <4>1, <4>2 DEF Failures
    <3>2. QED
      BY <1>1, <2>1, <3>1 DEF PostInv, AttemptInv, Done
  <2>3. AttemptInv'
    BY <1>1, <2>1, <2>2 DEF PostInv, AttemptInv, Done
  <2>4. QED
    BY <1>1, <2>1, <2>3 DEF PostInv, PostsOrdered, ReportsAreTruthful
<1>7. ASSUME NEW how \in Answers, PostAnswered(how)
      PROVE  PostsOrdered' /\ AttemptInv' /\ ReportsAreTruthful'
  <2>1. /\ worker = "send" /\ worker' = "report" /\ outcome' = how
        /\ posts' = Append(posts, <<job, how>>) /\ job' = job /\ result' = result
    BY <1>7 DEF PostAnswered
  <2>2. /\ PostsOrdered' /\ ReportsAreTruthful'
        /\ \A i \in DOMAIN posts' :
             posts'[i][1] <= job /\ (posts'[i][1] = job =>
               i = Len(posts') \/ posts'[i][2] \in Failures)
        /\ posts'[Len(posts')] = <<job, how>>
    BY <1>1, <2>1, AppendPost
  <2>3. Len(posts') \in DOMAIN posts'
    BY <1>2, <2>1, <1>1, PostType DEF PostInv
  <2>4. how = "done" <=> Done(job)'
    <3>1. ASSUME NEW i \in DOMAIN posts', posts'[i] = <<job, "done">>
          PROVE  how = "done"
      <4>1. posts'[i][1] = job /\ posts'[i][2] = "done"
        BY <3>1
      <4>2. i = Len(posts')
        BY <2>2, <4>1 DEF Failures
      <4>3. QED
        BY <2>2, <3>1, <4>2
    <3>2. QED
      BY <2>1, <2>2, <2>3, <3>1 DEF Done
  <2>5. QED
    BY <2>1, <2>2, <2>4 DEF AttemptInv
<1>8. ASSUME NEW how \in Failures, PostFails(how)
      PROVE  PostsOrdered' /\ AttemptInv' /\ ReportsAreTruthful'
  <2>1. /\ worker = "send" /\ worker' = IF attempt = 1 THEN "send" ELSE "report"
        /\ posts' = Append(posts, <<job, how>>) /\ attempt' = 2
        /\ job' = job /\ result' = result /\ outcome' = outcome
    BY <1>8 DEF PostFails
  <2>2. outcome = "none"
    BY <1>1, <2>1 DEF PostInv, AttemptInv
  <2>3. /\ PostsOrdered' /\ ReportsAreTruthful'
        /\ \A i \in DOMAIN posts' :
             posts'[i][1] <= job /\ (posts'[i][1] = job =>
               i = Len(posts') \/ posts'[i][2] \in Failures)
        /\ attempt = 1 => \A i \in DOMAIN posts' :
             posts'[i][1] = job => i = Len(posts')
        /\ posts'[Len(posts')] = <<job, how>>
    BY <1>1, <2>1, AppendPost
  <2>4. ASSUME NEW i \in DOMAIN posts', posts'[i][1] = job
        PROVE  posts'[i][2] \in Failures
    BY <2>3, <2>4
  <2>5. ~Done(job)'
    BY <2>1, <2>4 DEF Done, Failures
  <2>6. QED
    BY <1>2, <2>1, <2>2, <2>3, <2>4, <2>5 DEF AttemptInv
<1>9. CASE Report
  <2>1. /\ worker = "report" /\ worker' = "top" /\ UNCHANGED <<posts, job>>
        /\ result' = [result EXCEPT ![job] = IF outcome = "done" THEN "ok" ELSE "failed"]
    BY <1>9 DEF Report
  <2>2. outcome = "done" <=> Done(job)
    BY <1>1, <2>1 DEF PostInv, AttemptInv
  <2>3. result \in [Jobs -> {"pending", "ok", "failed"}]
    BY <1>1 DEF PostInv, OandaTypeOK
  <2>4. ReportsAreTruthful'
    <3>1. ASSUME NEW j \in Jobs, result'[j] # "pending"
          PROVE  result'[j] = "ok" <=> Done(j)
      <4>1. CASE j = job
        BY <2>1, <2>2, <2>3, <4>1
      <4>2. CASE j # job
        BY <1>1, <2>1, <2>3, <3>1, <4>2 DEF PostInv, ReportsAreTruthful, Done
      <4>3. QED
        BY <4>1, <4>2
    <3>2. QED
      BY <2>1, <3>1 DEF ReportsAreTruthful, Done
  <2>5. QED
    BY <1>1, <2>1, <2>4 DEF PostInv, PostsOrdered, AttemptInv
<1>10. \/ UNCHANGED <<posts, result, job, worker, attempt, outcome>>
       \/ /\ UNCHANGED <<posts, result, job, attempt, outcome>>
          /\ worker' \notin {"send", "report"}
       \/ TakeJob \/ Reconnect \/ Report
       \/ \E how \in Answers : PostAnswered(how)
       \/ \E how \in Failures : PostFails(how)
  BY <1>1 DEF OandaNext, Worker, Execute, Stop, Start, Boot, LoopTop, WakeIdle, oandaVars
<1>11. QED
  BY <1>3, <1>4, <1>5, <1>6, <1>7, <1>8, <1>9, <1>10

LEMMA SpecPostInv == OandaSpec => []PostInv
BY PostInvInit, PostInvNext, PTL DEF OandaSpec

(* oanda_executor.cpp:115-124, 202-206.  For every number of orders and    *)
(* failures: posts are in the order of acceptance, an order is posted at   *)
(* most twice, and again only right after a failed post.                   *)
THEOREM OandaPostsInOrder == OandaSpec => []PostsInOrder
<1>1. PostInv => PostsInOrder
  BY DEF PostInv, PostsOrdered, PostsInOrder
<1>2. QED
  BY <1>1, SpecPostInv, PTL

(* oanda_executor.cpp:240-299.  The callback says ok exactly when a post   *)
(* of the order was answered with success.                                 *)
THEOREM OandaReportsAreTruthful == OandaSpec => []ReportsAreTruthful
BY SpecPostInv, PTL DEF PostInv
=============================================================================
