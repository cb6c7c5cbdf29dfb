------------------------------- MODULE WsFeed -------------------------------
(***************************************************************************)
(* A WebSocket reader of the engine: src/binance_ws.cpp, src/bybit_ws.cpp  *)
(* and src/deribit_ws.cpp are the same machine, apart from the subscribe   *)
(* frame that Bybit and Deribit send and the pongs that Bybit writes.      *)
(* Its own thread runs an io_context; a Session is a chain of asynchronous *)
(* operations; each failure schedules a timer that spawns a new Session.   *)
(* The main thread calls start() and stop().                               *)
(*                                                                         *)
(* Handlers run one at a time on the reader thread.  What a frame puts in  *)
(* the tick ring is StrategyLoop's subject.                                *)
(***************************************************************************)
EXTENDS Integers, Sequences, FiniteSets

CONSTANTS
  BaseDelay,  \* the first reconnect delay, 2 s
  MaxDelay,   \* its cap, 60 s
  MaxFaults   \* bound: failures of the network

ASSUME DelayAssumption ==
  BaseDelay \in Nat /\ MaxDelay \in Nat /\ 0 < BaseDelay /\ BaseDelay <= MaxDelay
ASSUME MaxFaultsAssumption == MaxFaults \in Nat

Feeds == {"binance", "bybit", "deribit"}

VARIABLES
  feed,       \* which of the three readers this is
  ctl,        \* main thread: "off", "up", then inside stop(): "told",
              \* "cancel", "use", "stopIo", "join"; "down"; or "crashed"
  running,    \* running_
  stopped,    \* stopped_
  rdr,        \* reader thread: "none", "init", "spawn", "loop" (in ioc.run()),
              \* "fail" (inside Session::fail()), "exited"
  io,         \* io_ # nullptr
  ioStopped,  \* ioc.stop() was called
  sessions,   \* every Session: the operation it waits for, and is a pong
              \* being written?
  current,    \* session_: the number of a Session, 0 for null
  cancelled,  \* the Session whose socket stop() cancelled, or 0
  timers,     \* reconnect timers pending
  guard,      \* is the 24 h guard timer pending?
  delay,      \* reconnect_delay_s_
  faults,     \* failures so far
  forks       \* history: pongs that failed before stop()

ctlVars == <<ctl, running, stopped>>
ioVars  == <<io, ioStopped, guard>>
netVars == <<faults, forks>>
feedVars == <<feed, ctlVars, rdr, ioVars, sessions, current, cancelled, timers,
              delay, netVars>>

FeedInit ==
  /\ feed \in Feeds
  /\ ctl = "off" /\ running = FALSE /\ stopped = FALSE
  /\ rdr = "none" /\ io = FALSE /\ ioStopped = FALSE /\ guard = FALSE
  /\ sessions = <<>> /\ current = 0 /\ cancelled = 0 /\ timers = 0
  /\ delay = BaseDelay /\ faults = 0 /\ forks = 0

\* The operation that a Session starts when the one it waited for is done.
Follows(stage) ==
  CASE stage = "resolve" -> "connect"
    [] stage = "connect" -> "tls"
    [] stage = "tls" -> "ws"
    [] stage = "ws" -> IF feed = "binance" THEN "read" ELSE "subscribe"
    [] OTHER -> "read"

Live == {i \in DOMAIN sessions : sessions[i].stage # "gone"}
Pongs == {i \in DOMAIN sessions : sessions[i].pong}

Fault == faults < MaxFaults /\ faults' = faults + 1

\* A handler runs: ioc.run() is between two handlers, and nobody stopped it.
HandlerRuns == rdr = "loop" /\ ~ioStopped /\ ctl # "crashed"

-----------------------------------------------------------------------------
(* The reader thread: run().                                               *)

\* spawn_session().
Spawn ==
  IF stopped THEN UNCHANGED <<sessions, current>>
  ELSE /\ sessions' = Append(sessions, [stage |-> "resolve", pong |-> FALSE])
       /\ current' = Len(sessions) + 1

RunInit ==
  /\ rdr = "init"
  /\ io' = TRUE /\ delay' = BaseDelay
  /\ rdr' = "spawn"
  /\ UNCHANGED <<feed, ctlVars, ioStopped, guard, sessions, current, cancelled,
                 timers, netVars>>

RunSpawn ==
  /\ rdr = "spawn" /\ ctl # "crashed"
  /\ Spawn
  /\ guard' = TRUE
  /\ rdr' = "loop"
  /\ UNCHANGED <<feed, ctlVars, io, ioStopped, cancelled, timers, delay, netVars>>

GuardFires ==
  /\ HandlerRuns /\ guard
  /\ guard' = FALSE
  /\ UNCHANGED <<feed, ctlVars, rdr, io, ioStopped, sessions, current, cancelled,
                 timers, delay, netVars>>

\* ioc.run() returns when it is stopped or out of work; the io_context dies.
RunReturns ==
  /\ rdr = "loop" /\ ctl # "crashed"
  /\ ioStopped \/ (~guard /\ Live = {} /\ Pongs = {} /\ timers = 0)
  /\ io' = FALSE /\ running' = FALSE
  /\ rdr' = "exited"
  /\ UNCHANGED <<feed, ctl, stopped, ioStopped, guard, sessions, current,
                 cancelled, timers, delay, netVars>>

-----------------------------------------------------------------------------
(* The handlers of a Session.                                              *)

\* on_resolve() ... on_subscribed(): each starts the next operation.
OpDone(i) ==
  /\ HandlerRuns
  /\ i \in Live /\ sessions[i].stage # "read"
  /\ sessions' = [sessions EXCEPT ![i].stage = Follows(@)]
  /\ UNCHANGED <<feed, ctlVars, rdr, ioVars, current, cancelled, timers, delay,
                 netVars>>

\* on_read() with a ping of Bybit: the pong is written beside the next read.
\* The server sends no ping before it has the last pong.
ReadPing(i) ==
  /\ HandlerRuns
  /\ feed = "bybit" /\ sessions[i].stage = "read" /\ ~sessions[i].pong
  /\ sessions' = [sessions EXCEPT ![i].pong = TRUE]
  /\ UNCHANGED <<feed, ctlVars, rdr, ioVars, current, cancelled, timers, delay,
                 netVars>>

PongWritten(i) ==
  /\ HandlerRuns
  /\ sessions[i].pong /\ sessions[i].stage # "gone"
  /\ sessions' = [sessions EXCEPT ![i].pong = FALSE]
  /\ UNCHANGED <<feed, ctlVars, rdr, ioVars, current, cancelled, timers, delay,
                 netVars>>

\* fail() returns at once when stopped_ is up.
EnterFail == rdr' = IF stopped THEN "loop" ELSE "fail"

\* The network fails the operation, or the socket was cancelled.
OpFails(i) ==
  /\ HandlerRuns
  /\ i \in Live
  /\ IF i = cancelled THEN UNCHANGED faults ELSE Fault
  /\ sessions' = [sessions EXCEPT ![i].stage = "gone"]
  /\ EnterFail
  /\ UNCHANGED <<feed, ctlVars, ioVars, current, cancelled, timers, delay, forks>>

\* The pong of a broken connection fails too: fail() runs a second time.
PongFails(i) ==
  /\ HandlerRuns
  /\ sessions[i].pong
  /\ IF i = cancelled \/ i \notin Live THEN UNCHANGED faults ELSE Fault
  /\ sessions' = [sessions EXCEPT ![i].pong = FALSE]
  /\ forks' = IF stopped THEN forks ELSE forks + 1
  /\ EnterFail
  /\ UNCHANGED <<feed, ctlVars, ioVars, current, cancelled, timers, delay>>

Backoff(d) == IF 2 * d <= MaxDelay THEN 2 * d ELSE MaxDelay

\* Mutant: no reconnect is scheduled once the delay has reached its cap.
FailRestGivesUp ==
  /\ rdr = "fail" /\ ctl # "crashed"
  /\ current' = 0
  /\ delay' = Backoff(delay)
  /\ timers' = IF stopped \/ delay = MaxDelay THEN timers ELSE timers + 1
  /\ rdr' = "loop"
  /\ UNCHANGED <<feed, ctlVars, ioVars, sessions, cancelled, netVars>>

\* The rest of fail(): session_ is reset, whoever failed, and
\* schedule_reconnect() tests stopped_ again.
FailRest ==
  /\ rdr = "fail" /\ ctl # "crashed"
  /\ current' = 0
  /\ delay' = Backoff(delay)
  /\ timers' = IF stopped THEN timers ELSE timers + 1
  /\ rdr' = "loop"
  /\ UNCHANGED <<feed, ctlVars, ioVars, sessions, cancelled, netVars>>

TimerFires ==
  /\ HandlerRuns /\ timers > 0
  /\ timers' = timers - 1
  /\ Spawn
  /\ UNCHANGED <<feed, ctlVars, rdr, ioVars, cancelled, delay, netVars>>

-----------------------------------------------------------------------------
(* The main thread.                                                        *)

Start ==
  /\ ctl = "off" /\ ~running
  /\ running' = TRUE /\ stopped' = FALSE
  /\ rdr' = "init" /\ ctl' = "up"
  /\ UNCHANGED <<feed, ioVars, sessions, current, cancelled, timers, delay,
                 netVars>>

StopRaise ==
  /\ ctl = "up"
  /\ stopped' = TRUE /\ ctl' = "told"
  /\ UNCHANGED <<feed, running, rdr, ioVars, sessions, current, cancelled, timers,
                 delay, netVars>>

\* Before run() has set io_ there is nothing to stop, and stop() only joins.
StopLooks ==
  /\ ctl = "told"
  /\ ctl' = IF io THEN "cancel" ELSE "join"
  /\ UNCHANGED <<feed, running, stopped, rdr, ioVars, sessions, current,
                 cancelled, timers, delay, netVars>>

StopTests ==
  /\ ctl = "cancel"
  /\ ctl' = IF current # 0 THEN "use" ELSE "stopIo"
  /\ UNCHANGED <<feed, running, stopped, rdr, ioVars, sessions, current,
                 cancelled, timers, delay, netVars>>

\* session_ and io_ belong to the reader thread, which may have reset them
\* since they were tested: the call through a dead pointer may do anything.
StopUses ==
  /\ ctl = "use"
  /\ IF current # 0 /\ io THEN ctl' = "stopIo" ELSE ctl' \in {"stopIo", "crashed"}
  /\ cancelled' = current
  /\ UNCHANGED <<feed, running, stopped, rdr, ioVars, sessions, current, timers,
                 delay, netVars>>

\* Mutant: stop() relies on the cancelled socket and never stops the io_context.
StopIoOmitted ==
  /\ ctl = "stopIo"
  /\ ctl' = "join"
  /\ UNCHANGED <<feed, running, stopped, rdr, ioVars, sessions, current,
                 cancelled, timers, delay, netVars>>

StopIo ==
  /\ ctl = "stopIo"
  /\ IF io THEN ctl' = "join" ELSE ctl' \in {"join", "crashed"}
  /\ ioStopped' = TRUE
  /\ UNCHANGED <<feed, running, stopped, rdr, io, guard, sessions, current,
                 cancelled, timers, delay, netVars>>

Join ==
  /\ ctl = "join" /\ rdr = "exited"
  /\ running' = FALSE /\ ctl' = "down"
  /\ UNCHANGED <<feed, stopped, rdr, ioVars, sessions, current, cancelled, timers,
                 delay, netVars>>

-----------------------------------------------------------------------------
\* What the reader thread does on its own.
Thread == RunInit \/ RunSpawn \/ RunReturns \/ FailRest

\* And with a network that answers: everything but a frame or a failure.
Progress ==
  \/ Thread
  \/ \E i \in DOMAIN sessions : OpDone(i) \/ PongWritten(i)
  \/ \E i \in DOMAIN sessions : i = cancelled /\ (OpFails(i) \/ PongFails(i))

Main == StopLooks \/ StopTests \/ StopUses \/ StopIo \/ Join

FeedNext ==
  \/ Progress \/ GuardFires \/ TimerFires
  \/ \E i \in DOMAIN sessions : ReadPing(i) \/ OpFails(i) \/ PongFails(i)
  \/ Start \/ StopRaise \/ Main

(* The two threads are scheduled.  Nothing is assumed of the network and   *)
(* of the timers: a read may wait for ever, since no ping is sent and no   *)
(* idle timeout is set, and nobody waits 24 hours for the guard.           *)
FeedFairSpec ==
  /\ FeedInit /\ [][FeedNext]_feedVars
  /\ WF_feedVars(Thread) /\ WF_feedVars(Main)

-----------------------------------------------------------------------------
FeedTypeOK ==
  /\ feed \in Feeds
  /\ ctl \in {"off", "up", "told", "cancel", "use", "stopIo", "join", "down",
              "crashed"}
  /\ {running, stopped, io, ioStopped, guard} \subseteq BOOLEAN
  /\ rdr \in {"none", "init", "spawn", "loop", "fail", "exited"}
  /\ \A i \in DOMAIN sessions :
       /\ sessions[i].stage \in {"resolve", "connect", "tls", "ws", "subscribe",
                                 "read", "gone"}
       /\ sessions[i].pong => feed = "bybit"
  /\ {current, cancelled} \subseteq 0 .. Len(sessions)
  /\ timers \in Nat
  /\ delay \in BaseDelay .. MaxDelay
  /\ faults \in 0 .. MaxFaults /\ forks \in Nat

(* binance_ws.cpp:119-128, 192-205, bybit_ws.cpp:142-168.  Until stop() is *)
(* called, the reader always has exactly one Session or reconnect timer,   *)
(* whatever fails, so that the feed never dies and is never read twice;    *)
(* except that each pong that Bybit's reader cannot write forks one more,  *)
(* since the read beside it goes on, or fails and reconnects as well.      *)
ChainsAccounted ==
  /\ FeedTypeOK
  /\ (rdr \in {"loop", "fail"} /\ ~stopped) =>
       /\ Cardinality(Live) + timers + (IF rdr = "fail" THEN 1 ELSE 0) = 1 + forks
       /\ feed # "bybit" => forks = 0

(* binance_ws.cpp:149-158, 178-181.  A stop() that finds io_ set returns,  *)
(* however many Sessions, timers and handlers it interrupts and without    *)
(* any answer from the network, provided that it does not hit a pointer    *)
(* which the reader has reset since (StopUses, StopIo).                    *)
StopCompletes == [](ctl # "crashed") => (ctl = "cancel" ~> ctl = "down")

(* bybit_ws.cpp:208, "ioc.run() blocks until stop cancels the session and  *)
(* the guard".  When stop() goes to wait for the reader thread, nothing    *)
(* holds the reader in ioc.run() any more.                                 *)
StopEndsTheLoop == ctl = "join" => ioStopped \/ rdr = "exited"
=============================================================================
