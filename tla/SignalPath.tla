----------------------------- MODULE SignalPath -----------------------------
(***************************************************************************)
(* The order side of the live engine: the strategy thread submits signals, *)
(* the execution dispatcher (src/execution.cpp) hands each one to the ZMQ  *)
(* publisher (src/zmq_pub.cpp) and the FIX client (module FixClient), and  *)
(* main (src/main.cpp) stops and joins the threads in order after SIGINT   *)
(* or SIGTERM.                                                             *)
(*                                                                         *)
(* A signal is its number in the order of submission.  How the strategy    *)
(* thread comes to emit one is StrategyLoop's subject; here an iteration   *)
(* that has passed its shutdown test may or may not submit one.            *)
(***************************************************************************)
EXTENDS FixClient

CONSTANTS
  MaxSignals,  \* bound: signals the strategy submits
  FixEnabled   \* cfg.fix_enabled

ASSUME MaxSignalsAssumption == MaxSignals \in Nat
ASSUME FixEnabledAssumption == FixEnabled \in BOOLEAN

\* The reader threads in the order in which main stops them.
StopOrder == <<"broker", "deribit", "fast">>
Readers == {StopOrder[i] : i \in DOMAIN StopOrder}

VARIABLES
  gShutdown,  \* g_shutdown
  reader,     \* reader thread: "running", "stopping" (stop() called), "exited"
  spc,        \* strategy thread: "top", "body", "exited"
  emitted,    \* history: signals submitted so far
  execQueue,  \* ExecutionDispatcher::queue_
  exec,       \* dispatcher thread: "top", "take", "publish", "fix", "exited"
  execStop,   \* ExecutionDispatcher::stopped_
  inflight,   \* the signal the dispatcher holds: a sequence of length 0 or 1
  pub,        \* publisher thread: "starting", "top", "drain", "send", "exited"
  pubStop,    \* ZmqPub::shutdown_
  pubQueue,   \* ZmqPub::queue_
  batch,      \* the publisher's local batch
  sent,       \* history: signals given to zmq_send
  mpc         \* main: "run", or the part it is stopping, or "done"

strategyVars == <<spc, emitted>>
execVars     == <<execQueue, exec, execStop, inflight>>
pubVars      == <<pub, pubStop, pubQueue, batch, sent>>
vars == <<gShutdown, reader, strategyVars, execVars, pubVars, fixVars, mpc>>

Init ==
  /\ gShutdown = FALSE
  /\ reader = [r \in Readers |-> "running"]
  /\ spc = "top" /\ emitted = 0
  /\ execQueue = <<>> /\ exec = "top" /\ execStop = FALSE /\ inflight = <<>>
  /\ pub = "starting" /\ pubStop = FALSE /\ pubQueue = <<>> /\ batch = <<>>
  /\ sent = <<>>
  /\ FixInit
  /\ mpc = "run"

-----------------------------------------------------------------------------
(* strategy_loop().                                                        *)

StrategyTop ==
  /\ spc = "top"
  /\ spc' = IF gShutdown THEN "exited" ELSE "body"
  /\ UNCHANGED <<gShutdown, reader, emitted, execVars, pubVars, fixVars, mpc>>

\* The iteration ends without a signal ...
StrategyHold ==
  /\ spc = "body"
  /\ spc' = "top"
  /\ UNCHANGED <<gShutdown, reader, emitted, execVars, pubVars, fixVars, mpc>>

\* ... or with one, given to ExecutionDispatcher::submit().
StrategySubmit ==
  /\ spc = "body"
  /\ emitted < MaxSignals
  /\ spc' = "top"
  /\ emitted' = emitted + 1
  /\ execQueue' = Append(execQueue, emitted + 1)
  /\ UNCHANGED <<gShutdown, reader, exec, execStop, inflight, pubVars,
                 fixVars, mpc>>

-----------------------------------------------------------------------------
(* ExecutionDispatcher::worker_loop(): stopped_ is tested between signals, *)
(* and may rise between that test and the look at the queue.               *)
(* Every signal passes within_slippage_cap(): the theorem                  *)
(* SignalsPassSlippageCap of MarketDataProofs.  encode_signal() fails only *)
(* on a text of 320 characters, which takes prices of some fifty digits:   *)
(* its early return is left out.                                           *)

DispatchTop ==
  /\ exec = "top"
  /\ exec' = IF execStop THEN "exited" ELSE "take"
  /\ UNCHANGED <<gShutdown, reader, strategyVars, execQueue, execStop, inflight,
                 pubVars, fixVars, mpc>>

\* Nothing queued: sleep, and test again.
DispatchNone ==
  /\ exec = "take" /\ execQueue = <<>>
  /\ exec' = "top"
  /\ UNCHANGED <<gShutdown, reader, strategyVars, execQueue, execStop, inflight,
                 pubVars, fixVars, mpc>>

\* Mutant: the front of the queue is read but not removed.
DispatchPeek ==
  /\ exec = "take" /\ execQueue # <<>>
  /\ inflight' = <<Head(execQueue)>>
  /\ exec' = "publish"
  /\ UNCHANGED <<gShutdown, reader, strategyVars, execQueue, execStop, pubVars,
                 fixVars, mpc>>

DispatchPop ==
  /\ exec = "take" /\ execQueue # <<>>
  /\ inflight' = <<Head(execQueue)>>
  /\ execQueue' = Tail(execQueue)
  /\ exec' = "publish"
  /\ UNCHANGED <<gShutdown, reader, strategyVars, execStop, pubVars, fixVars, mpc>>

\* publish_signal(): ZmqPub::publish_signal() appends under its mutex.
DispatchPublish ==
  /\ exec = "publish"
  /\ pubQueue' = Append(pubQueue, inflight[1])
  /\ exec' = "fix"
  /\ UNCHANGED <<gShutdown, reader, strategyVars, execQueue, execStop, inflight,
                 pub, pubStop, batch, sent, fixVars, mpc>>

SendIfEnabled ==
  IF FixEnabled THEN SendOrder(inflight[1]) ELSE UNCHANGED fixVars

DispatchFix ==
  /\ exec = "fix"
  /\ SendIfEnabled
  /\ inflight' = <<>>
  /\ exec' = "top"
  /\ UNCHANGED <<gShutdown, reader, strategyVars, execQueue, execStop, pubVars, mpc>>

-----------------------------------------------------------------------------
(* ZmqPub::thread_loop().                                                  *)

\* When the socket cannot be created or bound the thread returns at once.
PubStart ==
  /\ pub = "starting"
  /\ pub' \in {"top", "exited"}
  /\ UNCHANGED <<gShutdown, reader, strategyVars, execVars, pubStop, pubQueue,
                 batch, sent, fixVars, mpc>>

\* The flag is tested when a batch is finished; the queue is not drained.
PubTop ==
  /\ pub = "top"
  /\ pub' = IF pubStop THEN "exited" ELSE "drain"
  /\ UNCHANGED <<gShutdown, reader, strategyVars, execVars, pubStop, pubQueue,
                 batch, sent, fixVars, mpc>>

\* drain(): the whole queue, be it empty, is taken under the mutex.
PubDrain ==
  /\ pub = "drain"
  /\ batch' = pubQueue
  /\ pubQueue' = <<>>
  /\ pub' = IF pubQueue = <<>> THEN "top" ELSE "send"
  /\ UNCHANGED <<gShutdown, reader, strategyVars, execVars, pubStop, sent,
                 fixVars, mpc>>

\* Mutant: only the first message of a batch is sent.
PubSendFirst ==
  /\ pub = "send"
  /\ sent' = Append(sent, Head(batch))
  /\ batch' = <<>>
  /\ pub' = "top"
  /\ UNCHANGED <<gShutdown, reader, strategyVars, execVars, pubStop, pubQueue,
                 fixVars, mpc>>

\* zmq_send() never waits (ZMQ_DONTWAIT), and its result is not looked at.
PubSend ==
  /\ pub = "send"
  /\ sent' = Append(sent, Head(batch))
  /\ batch' = Tail(batch)
  /\ pub' = IF batch' = <<>> THEN "top" ELSE "send"
  /\ UNCHANGED <<gShutdown, reader, strategyVars, execVars, pubStop, pubQueue,
                 fixVars, mpc>>

-----------------------------------------------------------------------------
(* main(): after the signal, each part is told to stop and joined before   *)
(* the next one.                                                           *)

OnSignal ==
  /\ ~gShutdown
  /\ gShutdown' = TRUE
  /\ UNCHANGED <<reader, strategyVars, execVars, pubVars, fixVars, mpc>>

LeaveRun ==
  /\ mpc = "run" /\ gShutdown
  /\ mpc' = StopOrder[1]
  /\ UNCHANGED <<gShutdown, reader, strategyVars, execVars, pubVars, fixVars>>

StopReader(r) ==
  /\ mpc = r /\ reader[r] = "running"
  /\ reader' = [reader EXCEPT ![r] = "stopping"]
  /\ UNCHANGED <<gShutdown, strategyVars, execVars, pubVars, fixVars, mpc>>

ReaderExit(r) ==
  /\ reader[r] = "stopping"
  /\ reader' = [reader EXCEPT ![r] = "exited"]
  /\ UNCHANGED <<gShutdown, strategyVars, execVars, pubVars, fixVars, mpc>>

JoinReader(r) ==
  /\ mpc = r /\ reader[r] = "exited"
  /\ mpc' = CASE r = "broker" -> "deribit"
              [] r = "deribit" -> "fast"
              [] r = "fast" -> "strategy"
  /\ UNCHANGED <<gShutdown, reader, strategyVars, execVars, pubVars, fixVars>>

\* Mutant: the dispatcher is stopped before the strategy thread is joined.
StopExecUnjoined ==
  /\ mpc = "strategy"
  /\ execStop' = TRUE
  /\ mpc' = "exec"
  /\ UNCHANGED <<gShutdown, reader, strategyVars, execQueue, exec, inflight,
                 pubVars, fixVars>>

\* Join the strategy thread; exec.stop() raises stopped_.
StopExec ==
  /\ mpc = "strategy" /\ spc = "exited"
  /\ execStop' = TRUE
  /\ mpc' = "exec"
  /\ UNCHANGED <<gShutdown, reader, strategyVars, execQueue, exec, inflight,
                 pubVars, fixVars>>

\* Join the dispatcher; fix.stop() first lowers running_ ...
StopFix ==
  /\ mpc = "exec" /\ exec = "exited"
  /\ FixStop
  /\ mpc' = "fix"
  /\ UNCHANGED <<gShutdown, reader, strategyVars, execVars, pubVars>>

\* ... then closes the socket under the session thread.
StopFixCloses ==
  /\ mpc = "fix"
  /\ CloseSocket
  /\ mpc' = "fixJoin"
  /\ UNCHANGED <<gShutdown, reader, strategyVars, execVars, pubVars, fixRunning,
                 fix, fixQueue, fixLocal, fixTried, fixFaults>>

\* Mutant: the publisher is joined without being told.
StopPubSilent ==
  /\ mpc = "fixJoin" /\ fix = "exited"
  /\ mpc' = "zmq"
  /\ UNCHANGED <<gShutdown, reader, strategyVars, execVars, pubVars, fixVars>>

\* Join the FIX session; zmq_pub.stop() raises shutdown_.
StopPub ==
  /\ mpc = "fixJoin" /\ fix = "exited"
  /\ pubStop' = TRUE
  /\ mpc' = "zmq"
  /\ UNCHANGED <<gShutdown, reader, strategyVars, execVars, pub, pubQueue, batch,
                 sent, fixVars>>

\* Join the publisher, and enter Telemetry::stop() ...
StopTelemetry ==
  /\ mpc = "zmq" /\ pub = "exited"
  /\ mpc' = "telemetry"
  /\ UNCHANGED <<gShutdown, reader, strategyVars, execVars, pubVars, fixVars>>

\* ... which need not return (module Telemetry).
Finish ==
  /\ mpc = "telemetry"
  /\ mpc' = "done"
  /\ UNCHANGED <<gShutdown, reader, strategyVars, execVars, pubVars, fixVars>>

-----------------------------------------------------------------------------
StrategyThread == StrategyTop \/ StrategyHold \/ StrategySubmit
Dispatcher ==
  DispatchTop \/ DispatchNone \/ DispatchPop \/ DispatchPublish \/ DispatchFix
Publisher == PubStart \/ PubTop \/ PubDrain \/ PubSend
Main ==
  \/ LeaveRun \/ StopExec \/ StopFix \/ StopFixCloses \/ StopPub \/ StopTelemetry
  \/ \E r \in Readers : StopReader(r) \/ JoinReader(r)

FixThread ==
  /\ FixSession
  /\ UNCHANGED <<gShutdown, reader, strategyVars, execVars, pubVars, mpc>>

Next ==
  \/ OnSignal \/ Finish
  \/ \E r \in Readers : ReaderExit(r)
  \/ StrategyThread \/ Dispatcher \/ FixThread \/ Publisher \/ Main

(* The operating system schedules every thread.  Nothing obliges the       *)
(* operator to signal, the stop() of a reader to return (module WsFeed:    *)
(* it may wait for a dead peer or for the guard timer) nor Telemetry's.    *)
(* The calls of the FIX session end: connect() by the kernel's own         *)
(* timeout, and what a session sends before its peer timeout fits the      *)
(* socket's buffer.                                                        *)
Fairness ==
  /\ WF_vars(StrategyThread) /\ WF_vars(Dispatcher)
  /\ WF_vars(FixThread) /\ WF_vars(Publisher) /\ WF_vars(Main)

Spec == Init /\ [][Next]_vars
FairSpec == Spec /\ Fairness

-----------------------------------------------------------------------------
TypeOK ==
  /\ {gShutdown, execStop, pubStop} \subseteq BOOLEAN
  /\ reader \in [Readers -> {"running", "stopping", "exited"}]
  /\ spc \in {"top", "body", "exited"}
  /\ emitted \in 0 .. MaxSignals
  /\ {execQueue, inflight, pubQueue, batch, sent} \subseteq Seq(Nat)
  /\ FixTypeOK
  /\ exec \in {"top", "take", "publish", "fix", "exited"}
  /\ exec \in {"publish", "fix"} <=> inflight # <<>>
  /\ pub \in {"starting", "top", "drain", "send", "exited"}
  /\ pub = "send" <=> batch # <<>>
  /\ mpc \in Readers \cup {"run", "strategy", "exec", "fix", "fixJoin", "zmq",
                          "telemetry", "done"}

\* The signals given to ZmqPub::publish_signal(), wherever they are now.
Published == sent \o batch \o pubQueue

Submitted == [i \in 1 .. emitted |-> i]

(* execution.cpp:34-64, zmq_pub.cpp:65-137.  Across the strategy thread,   *)
(* the dispatcher and the publisher no submitted signal is lost,           *)
(* duplicated or reordered: each one is sent or in exactly one queue, also *)
(* during shutdown and when the publisher could not bind.                  *)
SignalsConserved ==
  /\ TypeOK
  /\ Published \o (IF exec = "publish" THEN inflight ELSE <<>>) \o execQueue
       = Submitted

(* execution.cpp:60-61, fix_client.cpp:137-196.  The FIX client is given   *)
(* exactly the published signals, in order and at most one behind the      *)
(* publisher; and each order it was given waits in the mailbox, is in the  *)
(* batch, or was tried exactly once, over any number of sessions: one that *)
(* could not be sent is lost, and none is ever sent twice.                 *)
FixOrdersAccounted ==
  FixEnabled =>
    [i \in DOMAIN fixTried |-> fixTried[i].order] \o fixLocal \o fixQueue
        \o (IF exec = "fix" THEN inflight ELSE <<>>)
      = Published

(* main.cpp:177-181.  The stop order closes the path from the front: once  *)
(* the dispatcher is told to stop nothing is submitted any more, once the  *)
(* FIX client is, nothing is published any more, and once the publisher    *)
(* is, the FIX session does nothing any more.                              *)
StopOrderClosesPath ==
  [][/\ execStop => emitted' = emitted
     /\ ~fixRunning => Published' = Published
     /\ pubStop => UNCHANGED fixVars]_vars

\* No reader is in its stop() for ever.
ReadersStop == \A r \in Readers : []<>(reader[r] # "stopping")

(* main.cpp:166-183.  After SIGINT or SIGTERM main gets as far as the stop *)
(* of Telemetry, provided that the readers stop: the strategy thread, the  *)
(* dispatcher, the FIX session and the publisher are joined with signals   *)
(* queued anywhere, and with a publisher that never started.               *)
ShutdownCompletes ==
  ReadersStop => (gShutdown ~> mpc \in {"telemetry", "done"})

(* execution.cpp:41-62, zmq_pub.cpp:121-137.  A submitted signal is sent,  *)
(* unless the engine is shut down or the publisher could not bind.         *)
SubmittedIsSent ==
  \A n \in 1 .. MaxSignals :
    emitted >= n ~> Len(sent) >= n \/ gShutdown \/ pub = "exited"
=============================================================================
