----------------------------- MODULE Mt5Bridge ------------------------------
(***************************************************************************)
(* src/mt5_bridge.cpp, a process of its own that subscribes to the         *)
(* engine's signals and places each one as an MT5 order: through the       *)
(* terminal's DLL where there is one (Windows), else or when that fails    *)
(* through a socket to an expert adviser.  The owner of the object calls   *)
(* start() and stop(), as mt5_bridge_main.cpp does once.                   *)
(*                                                                         *)
(* A frame is its number in the order of publication; Malformed are those  *)
(* decode_signal() refuses.  ZMQ, the DLL and the adviser are external.    *)
(***************************************************************************)
EXTENDS Integers, Sequences, FiniteSets

CONSTANTS
  MaxFrames,  \* bound: frames published under the topic
  Malformed,  \* frames that decode_signal() refuses
  PipeLimit,  \* receive limit of the ZMQ socket
  MaxStarts   \* bound: calls of start()

ASSUME Mt5BridgeAssumption ==
  /\ {MaxFrames, PipeLimit, MaxStarts} \subseteq Nat
  /\ Malformed \subseteq 1 .. MaxFrames

VARIABLES
  dll,          \* the platform has a terminal DLL
  bridgeRunning,      \* running_
  stopped,      \* stopped_
  owner,        \* owner of the object: "out", "in" (started), "stopping"
  starts,       \* bound: calls of start()
  thread,       \* run(): "none", "setup", "top", "recv", "dll", "socket",
                \*   "close"; "none" before it is created and after its end
  sig,          \* run's local sig, 0 for none
  setupFailed,  \* history: run() returned early since the last stop()
  pipe,         \* frames in the SUB socket
  published,    \* bound and history: frames published
  orders,       \* history: what reached the terminal, [frame, by]
  unplaced,     \* history: frames that both paths failed to place
  gone          \* history: frames that never were signals here: not received,
                \*   refused by decode_signal(), or discarded by a close

bridgeVars == <<dll, bridgeRunning, stopped, owner, starts, thread, sig, setupFailed,
                pipe, published, orders, unplaced, gone>>

BridgeInit ==
  /\ dll \in BOOLEAN
  /\ bridgeRunning = FALSE /\ stopped = FALSE
  /\ owner = "out" /\ starts = 0
  /\ thread = "none" /\ sig = 0 /\ setupFailed = FALSE
  /\ pipe = <<>> /\ published = 0
  /\ orders = <<>> /\ unplaced = {} /\ gone = {}

-----------------------------------------------------------------------------
(* The owner.                                                              *)

\* Mutant: stopped_ keeps the value of the last stop().
StartStopped ==
  /\ owner # "stopping" /\ starts < MaxStarts
  /\ starts' = starts + 1 /\ owner' = "in"
  /\ IF bridgeRunning
     THEN UNCHANGED <<bridgeRunning, stopped, thread>>
     ELSE bridgeRunning' = TRUE /\ thread' = "setup" /\ UNCHANGED stopped
  /\ UNCHANGED <<dll, sig, setupFailed, pipe, published, orders, unplaced, gone>>

\* start(): no effect while running_ is up.
BridgeStart ==
  /\ owner # "stopping" /\ starts < MaxStarts
  /\ starts' = starts + 1 /\ owner' = "in"
  /\ IF bridgeRunning
     THEN UNCHANGED <<bridgeRunning, stopped, thread>>
     ELSE bridgeRunning' = TRUE /\ thread' = "setup" /\ stopped' = FALSE
  /\ UNCHANGED <<dll, sig, setupFailed, pipe, published, orders, unplaced, gone>>

BridgeStop ==
  /\ owner = "in"
  /\ owner' = "stopping" /\ stopped' = TRUE
  /\ UNCHANGED <<dll, bridgeRunning, starts, thread, sig, setupFailed, pipe,
                 published, orders, unplaced, gone>>

StopReturns ==
  /\ owner = "stopping" /\ thread = "none"
  /\ owner' = "out" /\ bridgeRunning' = FALSE /\ setupFailed' = FALSE
  /\ UNCHANGED <<dll, stopped, starts, thread, sig, pipe, published, orders,
                 unplaced, gone>>

-----------------------------------------------------------------------------
(* The engine's PUB socket: a frame may be dropped on either side.         *)

Publish ==
  /\ published < MaxFrames
  /\ published' = published + 1
  /\ \/ /\ thread \in {"top", "recv", "dll", "socket"} /\ Len(pipe) < PipeLimit
        /\ pipe' = Append(pipe, published')
        /\ UNCHANGED gone
     \/ /\ gone' = gone \cup {published'}
        /\ UNCHANGED pipe
  /\ UNCHANGED <<dll, bridgeRunning, stopped, owner, starts, thread, sig,
                 setupFailed, orders, unplaced>>

-----------------------------------------------------------------------------
(* run().                                                                  *)

SetupSucceeds ==
  /\ thread = "setup" /\ thread' = "top"
  /\ UNCHANGED <<dll, bridgeRunning, stopped, owner, starts, sig, setupFailed, pipe,
                 published, orders, unplaced, gone>>

\* An early return leaves running_ up.
SetupFails ==
  /\ thread = "setup" /\ thread' = "none"
  /\ setupFailed' = TRUE
  /\ UNCHANGED <<dll, bridgeRunning, stopped, owner, starts, sig, pipe, published,
                 orders, unplaced, gone>>

\* Mutant: the loop tests running_ only.
TopRunningOnly ==
  /\ thread = "top"
  /\ thread' = IF bridgeRunning THEN "recv" ELSE "close"
  /\ UNCHANGED <<dll, bridgeRunning, stopped, owner, starts, sig, setupFailed, pipe,
                 published, orders, unplaced, gone>>

Top ==
  /\ thread = "top"
  /\ thread' = IF bridgeRunning /\ ~ stopped THEN "recv" ELSE "close"
  /\ UNCHANGED <<dll, bridgeRunning, stopped, owner, starts, sig, setupFailed, pipe,
                 published, orders, unplaced, gone>>

\* zmq_recv() returns after 100 ms at the latest.
RecvTimesOut ==
  /\ thread = "recv" /\ pipe = <<>> /\ thread' = "top"
  /\ UNCHANGED <<dll, bridgeRunning, stopped, owner, starts, sig, setupFailed, pipe,
                 published, orders, unplaced, gone>>

Recv ==
  /\ thread = "recv" /\ pipe # <<>>
  /\ pipe' = Tail(pipe)
  /\ IF Head(pipe) \in Malformed
     THEN thread' = "top" /\ gone' = gone \cup {Head(pipe)} /\ UNCHANGED sig
     ELSE thread' = "dll" /\ sig' = Head(pipe) /\ UNCHANGED gone
  /\ UNCHANGED <<dll, bridgeRunning, stopped, owner, starts, setupFailed, published,
                 orders, unplaced>>

Place(by) == orders' = Append(orders, [frame |-> sig, by |-> by])

\* Mutant: the result of the DLL is not looked at.
TryDllIgnored ==
  /\ thread = "dll"
  /\ thread' = "socket"
  /\ IF dll THEN Place("dll") ELSE UNCHANGED orders
  /\ UNCHANGED <<dll, bridgeRunning, stopped, owner, starts, sig, setupFailed, pipe,
                 published, unplaced, gone>>

\* try_dll_execute(): false also when the call failed after the terminal had
\* taken the order.
TryDll ==
  /\ thread = "dll"
  /\ \/ dll /\ thread' = "top" /\ Place("dll")
     \/ dll /\ thread' = "socket" /\ Place("failing dll")
     \/ thread' = "socket" /\ UNCHANGED orders
  /\ UNCHANGED <<dll, bridgeRunning, stopped, owner, starts, sig, setupFailed, pipe,
                 published, unplaced, gone>>

\* try_socket_execute(); a failure is not reported to anyone.
TrySocket ==
  /\ thread = "socket" /\ thread' = "top"
  /\ \/ Place("socket") /\ UNCHANGED unplaced
     \/ /\ UNCHANGED orders
        /\ unplaced' = IF \E i \in DOMAIN orders : orders[i].frame = sig
                       THEN unplaced ELSE unplaced \cup {sig}
  /\ UNCHANGED <<dll, bridgeRunning, stopped, owner, starts, sig, setupFailed, pipe,
                 published, gone>>

Close ==
  /\ thread = "close" /\ thread' = "none"
  /\ gone' = gone \cup {pipe[i] : i \in DOMAIN pipe}
  /\ pipe' = <<>>
  /\ bridgeRunning' = FALSE
  /\ UNCHANGED <<dll, stopped, owner, starts, sig, setupFailed, published,
                 orders, unplaced>>

Run ==
  \/ SetupSucceeds \/ SetupFails \/ Top \/ RecvTimesOut \/ Recv
  \/ TryDll \/ TrySocket \/ Close

BridgeNext == BridgeStart \/ BridgeStop \/ StopReturns \/ Publish \/ Run

(* The threads are scheduled, and every call of run() ends: the receive    *)
(* has a timeout, and the blocking connect() and send() that of the        *)
(* operating system.                                                       *)
BridgeSpec ==
  /\ BridgeInit /\ [][BridgeNext]_bridgeVars
  /\ WF_bridgeVars(Run) /\ WF_bridgeVars(StopReturns)

-----------------------------------------------------------------------------
BridgeTypeOK ==
  /\ {dll, bridgeRunning, stopped, setupFailed} \subseteq BOOLEAN
  /\ Len(pipe) <= PipeLimit
  /\ sig \in 0 .. published
  /\ orders \in Seq([frame : 1 .. published,
                     by : {"dll", "failing dll", "socket"}])

(* mt5_bridge.cpp:93-101, 136-138.  Every frame that was published is not  *)
(* received, waiting, in hand, an order, or failed on both paths; orders   *)
(* keep the order of publication; and a frame becomes two orders only when *)
(* the DLL reported a failure after the terminal had taken it.             *)
FramesAccounted ==
  LET placed == {orders[i].frame : i \in DOMAIN orders}
      waiting == {pipe[i] : i \in DOMAIN pipe}
      inHand == IF thread \in {"dll", "socket"} THEN {sig} ELSE {}
  IN  /\ BridgeTypeOK
      /\ 1 .. published = placed \cup waiting \cup inHand \cup unplaced \cup gone
      /\ Cardinality(placed) + Len(pipe) + Cardinality(inHand \ placed)
         + Cardinality(unplaced) + Cardinality(gone) = published
      /\ \A i, j \in DOMAIN orders :
           i < j => \/ orders[i].frame < orders[j].frame
                    \/ /\ orders[i].frame = orders[j].frame
                       /\ orders[i].by = "failing dll" /\ orders[j].by = "socket"

(* mt5_bridge.cpp:59-89.  Between start() and stop() the thread listens,   *)
(* also after a restart, unless its setup failed: then running_ stays up   *)
(* and another start() has no effect until stop() is called.  After stop() *)
(* there is no thread.                                                     *)
ListensUnlessSetupFailed ==
  /\ owner = "in" =>
       thread \in (IF setupFailed THEN {"none"}
                   ELSE {"setup", "top", "recv", "dll", "socket"})
  /\ owner = "out" => thread = "none" /\ ~ bridgeRunning

(* mt5_bridge.cpp:66-70, 92-94.  stop() returns, whatever frames arrive    *)
(* and whatever the thread is doing.                                       *)
BridgeStopCompletes == owner = "stopping" ~> owner = "out"
=============================================================================
