------------------------------ MODULE FixClient -----------------------------
(***************************************************************************)
(* The engine's FIX client, src/fix_client.cpp: send_order() drops an      *)
(* order in a mailbox, and one session thread connects, logs on, sends     *)
(* what the mailbox holds, and reconnects after a failure.  It never reads *)
(* its socket, so a session always ends: last_recv is not moved after the  *)
(* logon and the peer times out.                                           *)
(*                                                                         *)
(* Only the actions are here; SignalPath composes them with the rest of    *)
(* the order side.  An order is the number of its signal; sequence numbers *)
(* and the text of a frame are left out.                                   *)
(***************************************************************************)
EXTENDS Integers, Sequences

CONSTANT MaxFixFaults  \* bound: failed calls and peer timeouts

ASSUME MaxFixFaultsAssumption == MaxFixFaults \in Nat

VARIABLES
  fixRunning,    \* running_
  fix,           \* session thread: "test", "connect", "logon", "events",
                 \* "send", "beat", "close", "backoff" or "exited"
  fixFd,         \* is fd_ an open socket?
  fixConnected,  \* connected_
  fixQueue,      \* orders_
  fixLocal,      \* run_event_loop()'s local batch
  fixTried,      \* history: the orders taken to be sent, and were they?
  fixFaults      \* failures so far

fixVars == <<fixRunning, fix, fixFd, fixConnected, fixQueue, fixLocal,
             fixTried, fixFaults>>

\* start(): main calls it whether or not FIX is enabled.
FixInit ==
  /\ fixRunning = TRUE /\ fix = "test"
  /\ fixFd = FALSE /\ fixConnected = FALSE
  /\ fixQueue = <<>> /\ fixLocal = <<>> /\ fixTried = <<>>
  /\ fixFaults = 0

Fault ==
  /\ fixFaults < MaxFixFaults
  /\ fixFaults' = fixFaults + 1

Tried(orders, wasSent) ==
  [i \in DOMAIN orders |-> [order |-> orders[i], sent |-> wasSent]]

-----------------------------------------------------------------------------
SendOrder(order) ==
  /\ fixQueue' = Append(fixQueue, order)
  /\ UNCHANGED <<fixRunning, fix, fixFd, fixConnected, fixLocal, fixTried,
                 fixFaults>>

\* The first half of stop(): running_ falls and the thread is notified.
FixStop ==
  /\ fixRunning' = FALSE
  /\ UNCHANGED <<fix, fixFd, fixConnected, fixQueue, fixLocal, fixTried,
                 fixFaults>>

\* close_socket(), called by the session thread and by stop().
CloseSocket ==
  /\ fixFd' = FALSE
  /\ fixConnected' = FALSE

-----------------------------------------------------------------------------
(* session_loop().                                                         *)

FixTest ==
  /\ fix = "test"
  /\ IF fixRunning THEN fix' = "connect" /\ fixConnected' = FALSE
                   ELSE fix' = "exited" /\ UNCHANGED fixConnected
  /\ UNCHANGED <<fixRunning, fixFd, fixQueue, fixLocal, fixTried, fixFaults>>

FixConnect ==
  /\ fix = "connect"
  /\ \/ fix' = "logon" /\ fixFd' = TRUE /\ UNCHANGED fixFaults
     \/ fix' = "close" /\ UNCHANGED fixFd /\ Fault
  /\ UNCHANGED <<fixRunning, fixConnected, fixQueue, fixLocal, fixTried>>

\* send_frame() fails when the socket is closed or the call fails.
FixLogon ==
  /\ fix = "logon"
  /\ \/ /\ fixFd
        /\ fix' = "events" /\ fixConnected' = TRUE /\ UNCHANGED fixFaults
     \/ /\ fix' = "close" /\ UNCHANGED fixConnected
        /\ IF fixFd THEN Fault ELSE UNCHANGED fixFaults
  /\ UNCHANGED <<fixRunning, fixFd, fixQueue, fixLocal, fixTried>>

FixClose ==
  /\ fix = "close"
  /\ CloseSocket
  /\ fix' = IF fixRunning THEN "backoff" ELSE "exited"
  /\ UNCHANGED <<fixRunning, fixQueue, fixLocal, fixTried, fixFaults>>

\* The back-off is slept through: stop() cannot shorten it.
FixBackoff ==
  /\ fix = "backoff"
  /\ fix' = "test"
  /\ UNCHANGED <<fixRunning, fixFd, fixConnected, fixQueue, fixLocal, fixTried,
                 fixFaults>>

-----------------------------------------------------------------------------
(* run_event_loop().                                                       *)

\* While the session lasts, the whole mailbox is swapped into the batch.
FixSwap ==
  /\ fix = "events"
  /\ IF fixRunning /\ fixConnected
     THEN fix' = "send" /\ fixLocal' = fixQueue /\ fixQueue' = <<>>
     ELSE fix' = "close" /\ UNCHANGED <<fixLocal, fixQueue>>
  /\ UNCHANGED <<fixRunning, fixFd, fixConnected, fixTried, fixFaults>>

\* Mutant: an order that could not be sent is put back in the mailbox.
FixSendRequeues ==
  /\ fix = "send" /\ fixLocal # <<>>
  /\ \/ /\ fixFd
        /\ fixTried' = fixTried \o Tried(<<Head(fixLocal)>>, TRUE)
        /\ fixLocal' = Tail(fixLocal)
        /\ UNCHANGED <<fix, fixConnected, fixQueue, fixFaults>>
     \/ /\ fixQueue' = Append(fixQueue, Head(fixLocal))
        /\ fixTried' = fixTried \o Tried(Tail(fixLocal), FALSE)
        /\ fixLocal' = <<>>
        /\ fix' = "close" /\ fixConnected' = FALSE
        /\ IF fixFd THEN Fault ELSE UNCHANGED fixFaults
  /\ UNCHANGED <<fixRunning, fixFd>>

\* A failure destroys the batch, with the orders not yet sent.
FixSend ==
  /\ fix = "send" /\ fixLocal # <<>>
  /\ \/ /\ fixFd
        /\ fixTried' = fixTried \o Tried(<<Head(fixLocal)>>, TRUE)
        /\ fixLocal' = Tail(fixLocal)
        /\ UNCHANGED <<fix, fixConnected, fixFaults>>
     \/ /\ fixTried' = fixTried \o Tried(fixLocal, FALSE)
        /\ fixLocal' = <<>>
        /\ fix' = "close" /\ fixConnected' = FALSE
        /\ IF fixFd THEN Fault ELSE UNCHANGED fixFaults
  /\ UNCHANGED <<fixRunning, fixFd, fixQueue>>

FixBatchDone ==
  /\ fix = "send" /\ fixLocal = <<>>
  /\ fix' = "beat"
  /\ UNCHANGED <<fixRunning, fixFd, fixConnected, fixQueue, fixLocal, fixTried,
                 fixFaults>>

\* A heartbeat may be due and fail, or the peer timeout may have come.
FixBeat ==
  /\ fix = "beat"
  /\ \/ fix' = "events" /\ UNCHANGED <<fixConnected, fixFaults>>
     \/ fix' = "close" /\ fixConnected' = FALSE
        /\ IF fixFd THEN Fault ELSE UNCHANGED fixFaults
  /\ UNCHANGED <<fixRunning, fixFd, fixQueue, fixLocal, fixTried>>

FixSession ==
  \/ FixTest \/ FixConnect \/ FixLogon \/ FixClose \/ FixBackoff
  \/ FixSwap \/ FixSend \/ FixBatchDone \/ FixBeat

-----------------------------------------------------------------------------
FixTypeOK ==
  /\ {fixRunning, fixFd, fixConnected} \subseteq BOOLEAN
  /\ fix \in {"test", "connect", "logon", "events", "send", "beat", "close",
              "backoff", "exited"}
  /\ {fixQueue, fixLocal} \subseteq Seq(Nat)
  /\ fixLocal # <<>> => fix = "send"
  /\ fixTried \in Seq([order : Nat, sent : BOOLEAN])
  /\ fixFaults \in 0 .. MaxFixFaults
=============================================================================
