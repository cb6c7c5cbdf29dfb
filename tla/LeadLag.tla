------------------------------- MODULE LeadLag ------------------------------
(***************************************************************************)
(* lead_lag.cpp, the stand-alone trader: a Binance feed on the reactor     *)
(* thread, a pool of worker threads that place FXCM orders, an             *)
(* asynchronous logger with its writer thread, and main's shutdown.        *)
(*                                                                         *)
(* A signal is its number in the order of submission; which price moves    *)
(* make one (SignalGenerator::update) is left open here.  The broker       *)
(* behind the HTTPS POST is external.                                      *)
(***************************************************************************)
EXTENDS Integers, Sequences, FiniteSets

CONSTANTS
  Workers,           \* the executor_threads threads of the pool
  MaxOpenPositions,  \* max_open_positions
  DryRun,            \* dry_run
  ReconnectBase,     \* reconnect_base_s
  ReconnectMax,      \* reconnect_max_s
  MaxSignals,        \* bound: signals submitted
  MaxFailures        \* bound: sessions that fail

ASSUME LeadLagAssumption ==
  /\ {MaxOpenPositions, ReconnectBase, ReconnectMax, MaxSignals, MaxFailures}
       \subseteq Nat
  /\ DryRun \in BOOLEAN
  /\ IsFiniteSet(Workers) /\ Workers # {}   \* executor_threads is 1

Signals == 1 .. MaxSignals
kMaxAttempts == 2

(* What one fxcm_post() returns.  ok: 2xx, with executed = true or a body  *)
(* that is not JSON; unexecuted: 2xx with executed = false; failed: every  *)
(* other status, a timeout or a network error (retryable or not only       *)
(* decides whether the worker sleeps before it goes on).                   *)
Outcomes == {"ok", "unexecuted", "failed"}

(* A line for the text log, whatever it says.  One line stands for those   *)
(* that a step logs together; lines about a connection, an attempt or the  *)
(* signal are left out, since the writer treats all lines alike.           *)
LogLine == <<"log", 0>>

VARIABLES
  feed,       \* the reactor's Binance client: "session", "timer", "halted"
  delay,      \* reconnect_delay_s_
  failures,   \* bound: failed sessions
  feedStopped,  \* BinanceClient::stopped_, set with ioc.stop()
  submitted,  \* history: signals submitted
  queue,      \* FXCMExecutor::queue_
  stopping,   \* FXCMExecutor::stopping_
  pc,         \* worker -> "wait", "gate", "add", "post", "finish", "exited"
  sig,        \* worker -> the signal it executes
  attempt,    \* worker -> attempt
  open,       \* open_positions_
  posts,      \* history: signal -> outcomes of its posts, in order
  skipped,    \* history: signals that placed no order (dry run, or the gate)
  entries,    \* AsyncLogger::queue_: <<kind, signal>>
  logging,    \* AsyncLogger::running_
  writer,     \* writer thread: "wait", "flush" (entry written), "exited"
  current,    \* the entry being written
  buffered,   \* entries written since the streams were flushed last
  durable,    \* entries written before that
  tradeOpen,  \* trade_ofs_.is_open()
  rowless,    \* history: signals whose row was lost, its file not opening
  mpc         \* main: "run", "join", "logstop", "logjoin", "done"

feedVars == <<feed, delay, failures, feedStopped, submitted>>
poolVars == <<stopping, pc, sig, attempt, open, posts, skipped>>
logVars  == <<logging, writer, current, buffered, durable, tradeOpen, rowless>>
leadLagVars == <<feedVars, queue, poolVars, entries, logVars, mpc>>

None == <<"none", 0>>

LeadLagInit ==
  /\ feed = "session" /\ delay = ReconnectBase /\ failures = 0
  /\ feedStopped = FALSE /\ submitted = 0
  /\ queue = <<>> /\ stopping = FALSE
  /\ pc = [w \in Workers |-> "wait"]
  /\ sig = [w \in Workers |-> 0] /\ attempt = [w \in Workers |-> 1]
  /\ open = 0 /\ posts = [s \in Signals |-> <<>>] /\ skipped = {}
  /\ entries = <<>> /\ logging = TRUE /\ writer = "wait" /\ current = None
  /\ buffered = <<>> /\ durable = <<>> /\ tradeOpen = FALSE /\ rowless = {}
  /\ mpc = "run"

-----------------------------------------------------------------------------
(* The reactor thread: BinanceClient and the signal handler.               *)

\* handle_message() whose tick completes a move: log it, submit() it.
FeedSignal ==
  /\ feed = "session" /\ ~feedStopped /\ submitted < MaxSignals
  /\ submitted' = submitted + 1
  /\ queue' = Append(queue, submitted + 1)
  /\ entries' = Append(entries, LogLine)
  /\ UNCHANGED <<feed, delay, failures, feedStopped, poolVars, logVars, mpc>>

\* Any step of a session fails: on_session_failed() arms the timer.
SessionFails ==
  /\ feed = "session" /\ ~feedStopped /\ failures < MaxFailures
  /\ failures' = failures + 1
  /\ delay' = IF delay * 2 <= ReconnectMax THEN delay * 2 ELSE ReconnectMax
  /\ feed' = "timer"
  /\ UNCHANGED <<feedStopped, submitted, queue, poolVars, entries, logVars, mpc>>

\* The timer fires: the back-off is reset and a new session starts.
TimerFires ==
  /\ feed = "timer" /\ ~feedStopped
  /\ delay' = ReconnectBase
  /\ feed' = "session"
  /\ UNCHANGED <<failures, feedStopped, submitted, queue, poolVars, entries, logVars, mpc>>

\* SIGINT or SIGTERM: client.stop(), ioc.stop(); no handler runs any more.
OnSignal ==
  /\ mpc = "run" /\ ~feedStopped
  /\ feedStopped' = TRUE
  /\ feed' = "halted"
  /\ UNCHANGED <<delay, failures, submitted, queue, poolVars, entries, logVars, mpc>>

-----------------------------------------------------------------------------
(* FXCMExecutor::worker_loop() and execute().                              *)

Take(w) ==
  /\ pc[w] = "wait" /\ queue # <<>>
  /\ sig' = [sig EXCEPT ![w] = Head(queue)]
  /\ queue' = Tail(queue)
  /\ pc' = [pc EXCEPT ![w] = "gate"]
  /\ UNCHANGED <<feedVars, stopping, attempt, open, posts, skipped, entries,
                 logVars, mpc>>

\* Mutant: stopping_ alone ends the worker.
WorkerExitAtOnce(w) ==
  /\ pc[w] = "wait" /\ stopping
  /\ pc' = [pc EXCEPT ![w] = "exited"]
  /\ UNCHANGED <<feedVars, queue, stopping, sig, attempt, open, posts, skipped,
                 entries, logVars, mpc>>

WorkerExit(w) ==
  /\ pc[w] = "wait" /\ stopping /\ queue = <<>>
  /\ pc' = [pc EXCEPT ![w] = "exited"]
  /\ UNCHANGED <<feedVars, queue, stopping, sig, attempt, open, posts, skipped,
                 entries, logVars, mpc>>

\* The dry-run return, and the load of open_positions_ and its test.
Gate(w) ==
  /\ pc[w] = "gate"
  /\ IF DryRun \/ open >= MaxOpenPositions
     THEN /\ pc' = [pc EXCEPT ![w] = "wait"]
          /\ skipped' = skipped \cup {sig[w]}
          /\ entries' = Append(entries, LogLine)
     ELSE /\ pc' = [pc EXCEPT ![w] = "add"]
          /\ UNCHANGED <<skipped, entries>>
  /\ UNCHANGED <<feedVars, queue, stopping, sig, attempt, open, posts, logVars, mpc>>

\* fetch_add(): another worker may have passed the test in between.
Add(w) ==
  /\ pc[w] = "add"
  /\ open' = open + 1
  /\ attempt' = [attempt EXCEPT ![w] = 1]
  /\ pc' = [pc EXCEPT ![w] = "post"]
  /\ UNCHANGED <<feedVars, queue, stopping, sig, posts, skipped, entries, logVars, mpc>>

\* One turn of the attempt loop: only success breaks it; a failure that is
\* not retryable merely skips the sleep.
Post(w, o) ==
  /\ pc[w] = "post"
  /\ posts' = [posts EXCEPT ![sig[w]] = Append(@, o)]
  /\ IF o = "ok" \/ attempt[w] = kMaxAttempts
     THEN pc' = [pc EXCEPT ![w] = "finish"] /\ UNCHANGED attempt
     ELSE attempt' = [attempt EXCEPT ![w] = @ + 1] /\ UNCHANGED pc
  /\ UNCHANGED <<feedVars, queue, stopping, sig, open, skipped, entries, logVars, mpc>>

\* Mutant: an order that was not placed keeps its position.
FinishLeaks(w) ==
  /\ pc[w] = "finish"
  /\ entries' = Append(entries, <<"trade", sig[w]>>)
  /\ open' = IF posts[sig[w]][Len(posts[sig[w]])] = "ok" THEN open - 1 ELSE open
  /\ pc' = [pc EXCEPT ![w] = "wait"]
  /\ UNCHANGED <<feedVars, queue, stopping, sig, attempt, posts, skipped, logVars, mpc>>

\* log_trade(), then fetch_sub().
Finish(w) ==
  /\ pc[w] = "finish"
  /\ entries' = Append(entries, <<"trade", sig[w]>>)
  /\ open' = open - 1
  /\ pc' = [pc EXCEPT ![w] = "wait"]
  /\ UNCHANGED <<feedVars, queue, stopping, sig, attempt, posts, skipped, logVars, mpc>>

-----------------------------------------------------------------------------
(* AsyncLogger::writer_loop().                                             *)

\* write_csv(): the file is opened for the first row; when that fails the
\* row is lost, and the next one tries again.
WriteRow(s) ==
  \/ tradeOpen' = TRUE /\ UNCHANGED rowless
  \/ ~tradeOpen /\ rowless' = rowless \cup {s} /\ UNCHANGED tradeOpen

\* write_log_line() drops a line when the file of the day did not open; a
\* dropped line is not told from a written one.
WriterTake ==
  /\ writer = "wait" /\ entries # <<>>
  /\ current' = Head(entries)
  /\ entries' = Tail(entries)
  /\ IF Head(entries)[1] = "trade" THEN WriteRow(Head(entries)[2])
                                  ELSE UNCHANGED <<tradeOpen, rowless>>
  /\ buffered' = Append(buffered, Head(entries))
  /\ writer' = "flush"
  /\ UNCHANGED <<feedVars, queue, poolVars, logging, durable, mpc>>

\* A trade row is flushed at once, other entries when the queue is empty.
WriterFlush ==
  /\ writer = "flush"
  /\ IF current[1] = "trade" \/ entries = <<>>
     THEN durable' = durable \o buffered /\ buffered' = <<>>
     ELSE UNCHANGED <<durable, buffered>>
  /\ writer' = "wait"
  /\ UNCHANGED <<feedVars, queue, poolVars, entries, logging, current, tradeOpen,
                 rowless, mpc>>

\* The loop ends on an empty queue; what remains is flushed.
WriterExit ==
  /\ writer = "wait" /\ ~logging /\ entries = <<>>
  /\ durable' = durable \o buffered /\ buffered' = <<>>
  /\ writer' = "exited"
  /\ UNCHANGED <<feedVars, queue, poolVars, entries, logging, current, tradeOpen,
                 rowless, mpc>>

-----------------------------------------------------------------------------
(* main(): ioc.run() returns, ex.stop(), "bye", AsyncLogger::stop().       *)

\* Mutant: stop() joins without raising stopping_.
StopPoolSilent ==
  /\ mpc = "run" /\ feedStopped
  /\ mpc' = "join"
  /\ UNCHANGED <<feedVars, queue, poolVars, entries, logVars>>

StopPool ==
  /\ mpc = "run" /\ feedStopped
  /\ stopping' = TRUE
  /\ mpc' = "join"
  /\ UNCHANGED <<feedVars, queue, pc, sig, attempt, open, posts, skipped,
                 entries, logVars>>

JoinPool ==
  /\ mpc = "join" /\ \A w \in Workers : pc[w] = "exited"
  /\ entries' = Append(entries, LogLine)
  /\ mpc' = "logstop"
  /\ UNCHANGED <<feedVars, queue, poolVars, logVars>>

StopLog ==
  /\ mpc = "logstop"
  /\ logging' = FALSE
  /\ mpc' = "logjoin"
  /\ UNCHANGED <<feedVars, queue, poolVars, entries, writer, current, buffered,
                 durable, tradeOpen, rowless>>

JoinLog ==
  /\ mpc = "logjoin" /\ writer = "exited"
  /\ mpc' = "done"
  /\ UNCHANGED <<feedVars, queue, poolVars, entries, logVars>>

-----------------------------------------------------------------------------
Worker(w) ==
  \/ Take(w) \/ WorkerExit(w) \/ Gate(w) \/ Add(w) \/ Finish(w)
  \/ \E o \in Outcomes : Post(w, o)

Writer == WriterTake \/ WriterFlush \/ WriterExit
Main == StopPool \/ JoinPool \/ StopLog \/ JoinLog

LeadLagNext ==
  \/ FeedSignal \/ SessionFails \/ TimerFires \/ OnSignal
  \/ \E w \in Workers : Worker(w)
  \/ Writer \/ Main

LeadLagSpec == LeadLagInit /\ [][LeadLagNext]_leadLagVars

(* Threads are scheduled and timers fire.  A post may never end: name      *)
(* resolution has no deadline, and those set on the tcp_stream bind its    *)
(* asynchronous operations only, where fxcm_post() makes blocking calls.   *)
LeadLagFairSpec ==
  /\ LeadLagSpec
  /\ \A w \in Workers : WF_leadLagVars(pc[w] # "post" /\ Worker(w))
  /\ WF_leadLagVars(Writer) /\ WF_leadLagVars(Main) /\ WF_leadLagVars(TimerFires)

\* Every post ends: the server answers or the connection dies.
PostsEnd == \A w \in Workers : []<>(pc[w] # "post")

-----------------------------------------------------------------------------
LeadLagTypeOK ==
  /\ feed \in {"session", "timer", "halted"}
  /\ delay \in {ReconnectBase} \cup 0 .. ReconnectMax
  /\ submitted \in 0 .. MaxSignals /\ queue \in Seq(Signals)
  /\ {feedStopped, stopping, logging} \subseteq BOOLEAN
  /\ pc \in [Workers -> {"wait", "gate", "add", "post", "finish", "exited"}]
  /\ sig \in [Workers -> 0 .. MaxSignals]
  /\ attempt \in [Workers -> 1 .. kMaxAttempts]
  /\ open \in 0 .. Cardinality(Workers)
  /\ posts \in [Signals -> Seq(Outcomes)] /\ skipped \subseteq Signals
  /\ writer \in {"wait", "flush", "exited"}
  /\ tradeOpen \in BOOLEAN
  /\ mpc \in {"run", "join", "logstop", "logjoin", "done"}

(* lead_lag.cpp:544-549, 595.  The position counter is exactly the number  *)
(* of orders in flight on every path through execute(): none leaks, and no *)
(* failed order keeps a later signal out.                                  *)
PositionsAccounted ==
  /\ LeadLagTypeOK
  /\ open = Cardinality({w \in Workers : pc[w] \in {"post", "finish"}})

(* lead_lag.cpp:507-531 "drain the queue", 154-162 "Flush all queued       *)
(* entries", 213-218.  A writer that has gone back to sleep leaves nothing *)
(* in the stream buffers; and when the program ends every submitted signal *)
(* was executed or skipped, and of every executed one exactly one trade    *)
(* row was written.  A row misses on disk only if it was written before    *)
(* the file could be opened (264-267): no row that is there precedes it.   *)
NothingLost ==
  /\ writer = "wait" /\ entries = <<>> => buffered = <<>>
  /\ mpc = "done" =>
       \A s \in 1 .. submitted :
         /\ s \in skipped <=> posts[s] = <<>>
         /\ s \notin skipped =>
              Cardinality({i \in DOMAIN durable : durable[i] = <<"trade", s>>}) = 1
  /\ \A i, k \in DOMAIN durable :
       i < k /\ durable[i][1] = "trade" /\ durable[k][1] = "trade" =>
         (durable[k][2] \in rowless => durable[i][2] \in rowless)

(* lead_lag.cpp:944-951.  After the signal every join returns, provided    *)
(* that the posts end: orders in flight and queued ones are worked off     *)
(* first.                                                                  *)
LeadLagShutdown == PostsEnd => (feedStopped ~> mpc = "done")

(* lead_lag.cpp:719 "do NOT re-fire a possibly-live order": an order that  *)
(* the broker answered with 2xx but executed = false is not posted again.  *)
NoRefire ==
  \A s \in Signals :
    \A i \in 1 .. Len(posts[s]) - 1 : posts[s][i] # "unexecuted"
=============================================================================
