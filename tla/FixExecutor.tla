---------------------------- MODULE FixExecutor -----------------------------
(***************************************************************************)
(* src/fix_executor.cpp: a FIX 4.4 session on one thread that owns the     *)
(* io_context and the TLS stream, and callers that queue orders for it.    *)
(*                                                                         *)
(* The session thread connects, queues the Logon and runs the io_context   *)
(* until something stops it; each completion handler and each posted       *)
(* function is one step.  What a handler leaves behind when the context is *)
(* stopped (the write queue, the write under way, posted functions, half a *)
(* received frame) is still there in the next session, as in the code.     *)
(* The gateway is external: it answers a logged-on stream and ignores what *)
(* comes before the Logon.                                                 *)
(***************************************************************************)
EXTENDS Integers, Sequences

CONSTANTS
  MaxJobs,     \* bound: orders accepted by execute()
  QueueLimit,  \* queue_limit_
  MaxFaults,   \* bound: failed connects, broken streams, peer time-outs
  MaxAdmin,    \* bound: heartbeats of a quiet session and unsolicited frames
               \* of the gateway
  MaxInbox     \* bound: frames of the gateway on their way at a time

ASSUME FixAssumption ==
  {MaxJobs, QueueLimit, MaxFaults, MaxAdmin, MaxInbox} \subseteq Nat

Jobs == 1 .. MaxJobs

(* ExecutionReports: the acknowledgement (NEW), or the end of the order    *)
(* (END: FILLED, PARTIAL, REJECTED or CANCELED).                           *)
Reports == {"NEW", "END"}

NoFrame == [kind |-> "none", job |-> 0, sid |-> 0, seq |-> 0]

VARIABLES
  orders,       \* orders_
  drainPosted,  \* an io_drain_orders() is posted
  stopped,      \* stopped_, and ~running_
  stopPosted,   \* stop()'s Logout function is posted
  session,      \* session thread: "top", "connect", "backoff", "run" (in
                \* io_.run()), "ended" (io_ stopped), "exited"
  sid,          \* history: streams connected so far
  stream,       \* "none", "up", "dead"
  connected,    \* connected_
  armed,        \* a read and the heartbeat timer are armed
  wqueue,       \* wqueue_: [kind, job, sid, seq]
  wop,          \* the async_write: "none" (~writing_), "inflight", or its
                \* handler is due: "done", "failed"
  seqOut,       \* seq_out_
  seqIn,        \* seq_in_
  partial,      \* inbound_ holds part of a frame
  pending,      \* the keys of pending_orders_
  begun,        \* history: writes begun so far
  last,         \* history: the frame of the latest one
  written,      \* history: the orders whose write was begun on some stream
  logged,       \* gateway: the stream is logged on
  inbox,        \* gateway frames on their way: [kind, job, seq]
  gwSeq,        \* gateway: its numbers on this stream
  gw,           \* gateway: job -> "none", "got", "new", "done"
  accepted,     \* history: jobs accepted by execute()
  results,      \* history: job -> the statuses given to the callback
  faults, admin

callerVars  == <<orders, drainPosted, accepted>>
gatewayVars == <<logged, inbox, gwSeq, gw>>
history     == <<begun, last, written>>
bounds      == <<faults, admin>>
vars == <<callerVars, stopped, stopPosted, session, sid, stream, connected, armed,
          wqueue, wop, seqOut, seqIn, partial, pending, history, gatewayVars, results,
          bounds>>

Init ==
  /\ orders = <<>> /\ drainPosted = FALSE /\ accepted = 0
  /\ stopped = FALSE /\ stopPosted = FALSE
  /\ session = "top" /\ sid = 0 /\ stream = "none"
  /\ connected = FALSE /\ armed = FALSE
  /\ wqueue = <<>> /\ wop = "none" /\ seqOut = 1 /\ seqIn = 0
  /\ partial = FALSE /\ pending = {}
  /\ begun = 0 /\ last = NoFrame /\ written = {}
  /\ logged = FALSE /\ inbox = <<>> /\ gwSeq = 0 /\ gw = [j \in Jobs |-> "none"]
  /\ results = [j \in Jobs |-> <<>>]
  /\ faults = 0 /\ admin = 0

-----------------------------------------------------------------------------
(* io_write() and pump_write().                                            *)

\* async_write() of frame f on a stream in state st.
Begin(st, f) ==
  /\ wop' = IF st = "up" THEN "inflight" ELSE "failed"
  /\ begun' = begun + 1
  /\ last' = f
  /\ written' = written \cup ({f.job} \ {0})

\* Mutant: a write is begun although one is under way.
PumpUnguarded(st, q, w) ==
  IF q # <<>>
  THEN Begin(st, Head(q))
  ELSE wop' = w /\ UNCHANGED <<begun, last, written>>

\* pump_write() on the queue q when the write under way is w.
Pump(st, q, w) ==
  IF w = "none" /\ q # <<>>
  THEN Begin(st, Head(q))
  ELSE wop' = w /\ UNCHANGED <<begun, last, written>>

\* build_msg() of each message, numbered from seq, and io_write() of it.
WriteTo(id, st, seq, messages) ==
  LET frames == [i \in DOMAIN messages |->
                   [kind |-> messages[i][1], job |-> messages[i][2],
                    sid |-> id, seq |-> seq + i - 1]]
  IN  /\ seqOut' = seq + Len(messages)
      /\ wqueue' = wqueue \o frames
      /\ Pump(st, wqueue \o frames, wop)

Write(messages) == WriteTo(sid, stream, seqOut, messages)

\* The 35=D messages of io_drain_orders().
OrderMessages == [i \in DOMAIN orders |-> <<"order", orders[i]>>]
Queued == {orders[i] : i \in DOMAIN orders}

-----------------------------------------------------------------------------
(* Callers.                                                                *)

\* A full queue drops the order without a trace.
Execute ==
  /\ accepted < MaxJobs
  /\ Len(orders) < QueueLimit
  /\ accepted' = accepted + 1
  /\ orders' = Append(orders, accepted + 1)
  /\ drainPosted' = TRUE
  /\ UNCHANGED <<stopped, stopPosted, session, sid, stream, connected, armed, wqueue,
                 wop, seqOut, seqIn, partial, pending, history, gatewayVars, results,
                 bounds>>

\* stop(), up to the join.
Stop ==
  /\ ~stopped
  /\ stopped' = TRUE
  /\ stopPosted' = TRUE
  /\ UNCHANGED <<callerVars, session, sid, stream, connected, armed, wqueue, wop,
                 seqOut, seqIn, partial, pending, history, gatewayVars, results, bounds>>

-----------------------------------------------------------------------------
(* session_loop().                                                         *)

LoopTop ==
  /\ session = "top"
  /\ session' = IF stopped THEN "exited" ELSE "connect"
  /\ UNCHANGED <<callerVars, stopped, stopPosted, sid, stream, connected, armed,
                 wqueue, wop, seqOut, seqIn, partial, pending, history, gatewayVars,
                 results, bounds>>

ConnectFails ==
  /\ session = "connect" /\ faults < MaxFaults
  /\ faults' = faults + 1
  /\ session' = "backoff"
  /\ UNCHANGED <<callerVars, stopped, stopPosted, sid, stream, connected, armed,
                 wqueue, wop, seqOut, seqIn, partial, pending, history, gatewayVars,
                 results, admin>>

BackoffEnds ==
  /\ session = "backoff"
  /\ session' = "top"
  /\ UNCHANGED <<callerVars, stopped, stopPosted, sid, stream, connected, armed,
                 wqueue, wop, seqOut, seqIn, partial, pending, history, gatewayVars,
                 results, bounds>>

\* connect() succeeds; the numbers restart at 1, the Logon is queued behind
\* what the last session left, the orders follow, the read and the timer are
\* armed (unless stop() came meanwhile) and io_.run() is entered.
ConnectSucceeds ==
  /\ session = "connect"
  /\ session' = "run"
  /\ sid' = sid + 1 /\ stream' = "up" /\ connected' = TRUE
  /\ armed' = ~stopped
  /\ WriteTo(sid + 1, "up", 1, <<<<"logon", 0>>>> \o OrderMessages)
  /\ pending' = pending \cup Queued
  /\ orders' = <<>>
  /\ logged' = FALSE /\ inbox' = <<>> /\ gwSeq' = 0
  /\ UNCHANGED <<drainPosted, accepted, stopped, stopPosted, seqIn, partial, gw,
                 results, bounds>>

\* Mutant: disconnect() also clears the write queue.
EndSessionClears ==
  /\ session = "ended"
  /\ session' = "top"
  /\ connected' = FALSE /\ stream' = "none" /\ armed' = FALSE
  /\ wop' = IF wop = "inflight" THEN "failed" ELSE wop
  /\ wqueue' = <<>>
  /\ partial' \in {partial, partial \/ inbox # <<>>}
  /\ inbox' = <<>>
  /\ UNCHANGED <<callerVars, stopped, stopPosted, sid, seqOut, seqIn, pending,
                 history, logged, gwSeq, gw, results, bounds>>

\* io_.run() returned: disconnect() aborts the write that is under way; its
\* handler stays in the io_context.  Half a frame may have been received.
EndSession ==
  /\ session = "ended"
  /\ session' = "top"
  /\ connected' = FALSE /\ stream' = "none" /\ armed' = FALSE
  /\ wop' = IF wop = "inflight" THEN "failed" ELSE wop
  /\ partial' \in {partial, partial \/ inbox # <<>>}
  /\ inbox' = <<>>
  /\ UNCHANGED <<callerVars, stopped, stopPosted, sid, wqueue, seqOut, seqIn, pending,
                 history, logged, gwSeq, gw, results, bounds>>

-----------------------------------------------------------------------------
(* Handlers, run by io_.run().                                             *)

\* The async_write's handler: pop the front, then pump or end the session.
OnWrite ==
  /\ session = "run" /\ wop \in {"done", "failed"}
  /\ wqueue' = IF wqueue = <<>> THEN <<>> ELSE Tail(wqueue)
  /\ IF wop = "failed"
     THEN /\ connected' = FALSE /\ session' = "ended" /\ wop' = "none"
          /\ UNCHANGED history
     ELSE /\ Pump(stream, wqueue', "none") /\ UNCHANGED <<connected, session>>
  /\ UNCHANGED <<callerVars, stopped, stopPosted, sid, stream, armed, seqOut, seqIn,
                 partial, pending, gatewayVars, results, bounds>>

\* io_drain_orders(), posted by execute(); connected_ holds inside run().
Drain ==
  /\ session = "run" /\ drainPosted
  /\ drainPosted' = FALSE
  /\ Write(OrderMessages)
  /\ pending' = pending \cup Queued
  /\ orders' = <<>>
  /\ UNCHANGED <<accepted, stopped, stopPosted, session, sid, stream, connected, armed,
                 seqIn, partial, gatewayVars, results, bounds>>

\* handle_frame()'s bookkeeping: the new seq_in_, and whether to ask again.
SeqAfter(f) ==
  IF f.kind = "reset" THEN 0
  ELSE IF seqIn = 0 \/ f.seq > seqIn THEN f.seq ELSE seqIn
Gap(f) == seqIn # 0 /\ f.seq > seqIn + 1

Replies(f) ==
  (IF Gap(f) THEN <<<<"resend", 0>>>> ELSE <<>>)
    \o (IF f.kind = "test" THEN <<<<"beat", 0>>>> ELSE <<>>)

IsReport(f) == f.kind \in Reports

\* Mutant: the report of an order does not retire it.
HandleFrameKeepsPending(f) ==
  /\ seqIn' = SeqAfter(f)
  /\ Write(Replies(f))
  /\ IF IsReport(f) /\ f.job \in pending
     THEN /\ results' = [results EXCEPT ![f.job] = Append(@, f.kind)]
          /\ UNCHANGED pending
     ELSE UNCHANGED <<pending, results>>

\* handle_frame() and the handlers it calls.  Every report is terminal.
HandleFrame(f) ==
  /\ seqIn' = SeqAfter(f)
  /\ Write(Replies(f))
  /\ IF IsReport(f) /\ f.job \in pending
     THEN /\ results' = [results EXCEPT ![f.job] = Append(@, f.kind)]
          /\ pending' = pending \ {f.job}
     ELSE UNCHANGED <<pending, results>>

\* on_read() and process_inbound(): half a frame of an earlier session
\* swallows the first frame of this one.
OnRead ==
  /\ session = "run" /\ armed /\ stream = "up" /\ inbox # <<>>
  /\ inbox' = Tail(inbox)
  /\ partial' = FALSE
  /\ IF partial
     THEN UNCHANGED <<seqIn, seqOut, wqueue, wop, history, pending, results>>
     ELSE HandleFrame(Head(inbox))
  /\ armed' = ~stopped
  /\ UNCHANGED <<callerVars, stopped, stopPosted, session, sid, stream, connected,
                 logged, gwSeq, gw, bounds>>

OnReadError ==
  /\ session = "run" /\ armed /\ stream = "dead"
  /\ session' = "ended"
  /\ UNCHANGED <<callerVars, stopped, stopPosted, sid, stream, connected, armed, wqueue,
                 wop, seqOut, seqIn, partial, pending, history, gatewayVars, results,
                 bounds>>

\* The heartbeat timer: a quiet session sends 35=0 ...
OnTimer ==
  /\ session = "run" /\ armed /\ ~stopped /\ admin < MaxAdmin
  /\ admin' = admin + 1
  /\ Write(<<<<"beat", 0>>>>)
  /\ UNCHANGED <<callerVars, stopped, stopPosted, session, sid, stream, connected,
                 armed, seqIn, partial, pending, gatewayVars, results, faults>>

\* ... and a silent peer ends it.
OnPeerTimeout ==
  /\ session = "run" /\ armed /\ ~stopped /\ faults < MaxFaults
  /\ faults' = faults + 1
  /\ session' = "ended"
  /\ UNCHANGED <<callerVars, stopped, stopPosted, sid, stream, connected, armed, wqueue,
                 wop, seqOut, seqIn, partial, pending, history, gatewayVars, results,
                 admin>>

\* Mutant: the posted Logout does not stop the io_context.
OnStopLingers ==
  /\ session = "run" /\ stopPosted
  /\ stopPosted' = FALSE
  /\ seqOut' = seqOut + 1
  /\ UNCHANGED <<callerVars, stopped, session, sid, stream, connected, armed, wqueue,
                 wop, seqIn, partial, pending, history, gatewayVars, results, bounds>>

\* stop()'s posted function: a synchronous Logout that bypasses the write
\* queue, then io_.stop().
OnStop ==
  /\ session = "run" /\ stopPosted
  /\ stopPosted' = FALSE
  /\ seqOut' = seqOut + 1
  /\ session' = "ended"
  /\ UNCHANGED <<callerVars, stopped, sid, stream, connected, armed, wqueue, wop, seqIn,
                 partial, pending, history, gatewayVars, results, bounds>>

-----------------------------------------------------------------------------
(* The gateway and the network (external).                                 *)

\* The write under way completes and the frame arrives.
Arrives ==
  /\ stream = "up" /\ wop = "inflight"
  /\ wop' = "done"
  /\ LET f == Head(wqueue)
     IN  /\ logged' = (logged \/ f.kind = "logon")
         /\ gw' = IF logged /\ f.kind = "order" THEN [gw EXCEPT ![f.job] = "got"] ELSE gw
         /\ IF f.kind = "logon" /\ ~logged
            THEN /\ gwSeq' = gwSeq + 1
                 /\ inbox' = Append(inbox, [kind |-> "logon", job |-> 0, seq |-> gwSeq + 1])
            ELSE UNCHANGED <<gwSeq, inbox>>
  /\ UNCHANGED <<callerVars, stopped, stopPosted, session, sid, stream, connected, armed,
                 wqueue, seqOut, seqIn, partial, pending, history, results, bounds>>

\* A frame of the gateway, numbered skip too high.  Of a Logout and a
\* Heartbeat the session only takes the number.
GatewaySends(kind, job, skip) ==
  /\ stream = "up" /\ logged /\ Len(inbox) < MaxInbox
  /\ gwSeq' = gwSeq + 1 + skip
  /\ inbox' = Append(inbox, [kind |-> kind, job |-> job, seq |-> gwSeq'])
  /\ UNCHANGED <<callerVars, stopped, stopPosted, session, sid, stream, connected, armed,
                 wqueue, wop, seqOut, seqIn, partial, pending, history, logged, results,
                 faults>>

GatewayReports(j, kind) ==
  /\ \/ gw[j] = "got" /\ kind \in Reports
     \/ gw[j] = "new" /\ kind = "END"
  /\ gw' = [gw EXCEPT ![j] = IF kind = "NEW" THEN "new" ELSE "done"]
  /\ GatewaySends(kind, j, 0)
  /\ UNCHANGED admin

GatewayAdmin(kind, skip) ==
  /\ admin < MaxAdmin
  /\ admin' = admin + 1
  /\ GatewaySends(kind, 0, skip)
  /\ UNCHANGED gw

StreamBreaks ==
  /\ stream = "up" /\ faults < MaxFaults
  /\ faults' = faults + 1
  /\ stream' = "dead"
  /\ wop' = IF wop = "inflight" THEN "failed" ELSE wop
  /\ UNCHANGED <<callerVars, stopped, stopPosted, session, sid, connected, armed, wqueue,
                 seqOut, seqIn, partial, pending, history, gatewayVars, results, admin>>

-----------------------------------------------------------------------------
SessionThread ==
  \/ LoopTop \/ BackoffEnds \/ ConnectSucceeds \/ EndSession
  \/ OnWrite \/ Drain \/ OnRead \/ OnReadError \/ OnStop

Next ==
  \/ Execute \/ Stop
  \/ SessionThread \/ ConnectFails \/ OnTimer \/ OnPeerTimeout
  \/ Arrives \/ StreamBreaks
  \/ \E j \in Jobs, kind \in Reports : GatewayReports(j, kind)
  \/ GatewayAdmin("test", 1) \/ GatewayAdmin("reset", 0)

Spec == Init /\ [][Next]_vars

(* The session thread runs what is ready; io_.run() serves its handlers in *)
(* turn, so a posted function or a completed write is not passed over for  *)
(* ever; a write on a stream that is up completes.                         *)
FairSpec ==
  /\ Spec
  /\ WF_vars(SessionThread) /\ WF_vars(OnStop) /\ WF_vars(OnWrite) /\ WF_vars(Drain)
  /\ WF_vars(Arrives)

-----------------------------------------------------------------------------
TypeOK ==
  /\ orders \in Seq(Jobs) /\ Len(orders) <= QueueLimit
  /\ {drainPosted, stopped, stopPosted, connected, armed, partial, logged} \subseteq BOOLEAN
  /\ session \in {"top", "connect", "backoff", "run", "ended", "exited"}
  /\ stream \in {"none", "up", "dead"}
  /\ session = "run" => connected /\ stream # "none"
  /\ wop \in {"none", "inflight", "done", "failed"}
  \* the frame that a write handler will pop is the one that was written
  /\ wop # "none" => wqueue # <<>> /\ Head(wqueue) = last
  /\ seqOut \in Nat \ {0} /\ seqIn \in Nat
  /\ pending \subseteq Jobs
  /\ gw \in [Jobs -> {"none", "got", "new", "done"}]
  /\ results \in [Jobs -> Seq(Reports)]

(* fix_executor.cpp:197, 259-282, 514-530.  Of the frames that a session   *)
(* numbers, the Logon is the first on the stream and the others follow in  *)
(* the order of their numbers, none twice.  What the session before left   *)
(* in wqueue_ has numbers of that session and goes out ahead of them, the  *)
(* Logon included: nothing is claimed of it but that it is written once.   *)
WireInOrder ==
  [][begun' # begun =>
       IF last'.sid = sid'
       THEN IF last.sid = sid' THEN last.seq < last'.seq
                               ELSE last'.kind = "logon"
       ELSE last # last']_vars

(* fix_executor.cpp:437-470.  A caller hears of an order at most once, and *)
(* only what the gateway reported of that very order.                      *)
ReportedOnce ==
  /\ TypeOK
  /\ \A j \in Jobs :
       /\ Len(results[j]) <= 1
       /\ results[j] # <<>> => gw[j] \in {"new", "done"}

(* fix_executor.cpp:172-177, 284-310.  The write of an accepted order is   *)
(* begun on some stream, whatever breaks on the way, unless the executor   *)
(* is stopped.  The stream may be dying, or not logged on yet: whether the *)
(* gateway gets the order is another matter.                               *)
AcceptedIsWritten ==
  \A j \in Jobs :
    accepted >= j ~> stopped \/ j \in written

(* fix_executor.cpp:126-145.  stop() returns, from every state of the      *)
(* session thread.                                                         *)
StopCompletes == stopped ~> session = "exited"
=============================================================================
