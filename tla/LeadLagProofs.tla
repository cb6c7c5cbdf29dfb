---------------------------- MODULE LeadLagProofs ---------------------------
(***************************************************************************)
(* The position counter and the shutdown of lead_lag.cpp, for every number *)
(* of workers, positions, signals and failures.                            *)
(***************************************************************************)
EXTENDS LeadLag, FiniteSetTheorems, TLAPS

(* The workers between the addition to open_positions_ and the             *)
(* subtraction from it.                                                    *)
InFlight == {w \in Workers : pc[w] \in {"post", "finish"}}

(* TypeOK is not inductive alone: a worker skips the signal it holds, so   *)
(* that one at the gate must hold a signal.                                *)
GateHoldsSignal == \A w \in Workers : pc[w] = "gate" => sig[w] \in Signals

PositionsInv == PositionsAccounted /\ GateHoldsSignal

(* The set of orders in flight is finite, and no larger than the pool.     *)
LEMMA InFlightBounded ==
  /\ IsFiniteSet(InFlight)
  /\ Cardinality(InFlight) \in 0 .. Cardinality(Workers)
<1>1. IsFiniteSet(Workers) /\ InFlight \subseteq Workers
  BY LeadLagAssumption DEF InFlight
<1>2. /\ IsFiniteSet(InFlight)
      /\ Cardinality(InFlight) <= Cardinality(Workers)
  BY <1>1, FS_Subset
<1>3. Cardinality(InFlight) \in Nat /\ Cardinality(Workers) \in Nat
  BY <1>1, <1>2, FS_CardinalityType
<1>4. QED
  BY <1>2, <1>3

LEMMA InitPositionsInv == LeadLagInit => PositionsInv
<1> SUFFICES ASSUME LeadLagInit PROVE PositionsInv
  OBVIOUS
<1>1. InFlight = {}
  BY DEF LeadLagInit, InFlight
<1>2. open = Cardinality(InFlight)
  BY <1>1, FS_EmptySet DEF LeadLagInit
<1>3. open \in 0 .. Cardinality(Workers)
  BY <1>2, InFlightBounded
<1>4. LeadLagTypeOK
  <2>1. 0 \in 0 .. MaxSignals /\ 1 \in 1 .. kMaxAttempts
    BY LeadLagAssumption DEF kMaxAttempts
  <2>2. queue \in Seq(Signals) /\ posts \in [Signals -> Seq(Outcomes)]
    BY DEF LeadLagInit
  <2>3. /\ pc \in [Workers -> {"wait", "gate", "add", "post", "finish", "exited"}]
        /\ sig \in [Workers -> 0 .. MaxSignals]
        /\ attempt \in [Workers -> 1 .. kMaxAttempts]
    BY <2>1 DEF LeadLagInit
  <2>4. QED
    BY <1>3, <2>1, <2>2, <2>3 DEF LeadLagInit, LeadLagTypeOK
<1>5. QED
  BY <1>2, <1>4 DEF PositionsInv, PositionsAccounted, GateHoldsSignal, InFlight,
     LeadLagInit

(* The counter follows the set of orders in flight over a step that        *)
(* touches one worker: it enters, it leaves, or neither.                   *)
LEMMA StepKeepsCount ==
  ASSUME NEW w \in Workers, open = Cardinality(InFlight),
         \/ InFlight' = InFlight /\ open' = open
         \/ w \notin InFlight /\ InFlight' = InFlight \cup {w} /\ open' = open + 1
         \/ w \in InFlight /\ InFlight' = InFlight \ {w} /\ open' = open - 1
  PROVE  open' = Cardinality(InFlight') /\ open' \in 0 .. Cardinality(Workers)
<1>1. IsFiniteSet(InFlight)
  BY InFlightBounded
<1>2. open' = Cardinality(InFlight')
  <2>1. CASE InFlight' = InFlight /\ open' = open
    BY <2>1
  <2>2. CASE w \notin InFlight /\ InFlight' = InFlight \cup {w} /\ open' = open + 1
    BY <2>2, <1>1, FS_AddElement
  <2>3. CASE w \in InFlight /\ InFlight' = InFlight \ {w} /\ open' = open - 1
    BY <2>3, <1>1, FS_RemoveElement
  <2>4. QED
    BY <2>1, <2>2, <2>3
<1>3. /\ IsFiniteSet(InFlight')
      /\ Cardinality(InFlight') \in 0 .. Cardinality(Workers)
  <2>1. IsFiniteSet(Workers) /\ InFlight' \subseteq Workers
    BY LeadLagAssumption DEF InFlight
  <2>2. IsFiniteSet(InFlight') /\ Cardinality(InFlight') <= Cardinality(Workers)
    BY <2>1, FS_Subset
  <2>3. Cardinality(InFlight') \in Nat /\ Cardinality(Workers) \in Nat
    BY <2>1, <2>2, FS_CardinalityType
  <2>4. QED
    BY <2>2, <2>3
<1>4. QED
  BY <1>2, <1>3

(* A worker's step, by the action it takes.                                *)
LEMMA WorkerStep ==
  ASSUME PositionsInv, NEW w \in Workers, Worker(w)
  PROVE  PositionsInv'
<1> USE DEF PositionsInv, PositionsAccounted
<1>t. /\ LeadLagTypeOK /\ open = Cardinality(InFlight) /\ GateHoldsSignal
      /\ MaxSignals \in Nat
  BY LeadLagAssumption DEF InFlight
<1>1. CASE Take(w)
  <2>1. Head(queue) \in Signals /\ Tail(queue) \in Seq(Signals)
    BY <1>1, <1>t DEF Take, LeadLagTypeOK
  <2>2. InFlight' = InFlight /\ open' = open
    BY <1>1, <1>t DEF Take, LeadLagTypeOK, InFlight
  <2>3. open' = Cardinality(InFlight') /\ open' \in 0 .. Cardinality(Workers)
    BY <2>2, <1>t, StepKeepsCount
  <2>4. LeadLagTypeOK'
    BY <1>1, <1>t, <2>1, <2>3
    DEF Take, LeadLagTypeOK, Signals, feedVars, logVars
  <2>5. GateHoldsSignal'
    BY <1>1, <1>t, <2>1 DEF Take, LeadLagTypeOK, GateHoldsSignal
  <2>6. QED
    BY <2>3, <2>4, <2>5 DEF InFlight
<1>2. CASE WorkerExit(w)
  <2>2. InFlight' = InFlight /\ open' = open
    BY <1>2, <1>t DEF WorkerExit, LeadLagTypeOK, InFlight
  <2>3. open' = Cardinality(InFlight') /\ open' \in 0 .. Cardinality(Workers)
    BY <2>2, <1>t, StepKeepsCount
  <2>4. LeadLagTypeOK'
    BY <1>2, <1>t, <2>3 DEF WorkerExit, LeadLagTypeOK, feedVars, logVars
  <2>5. GateHoldsSignal'
    BY <1>2, <1>t DEF WorkerExit, LeadLagTypeOK, GateHoldsSignal
  <2>6. QED
    BY <2>3, <2>4, <2>5 DEF InFlight
<1>3. CASE Gate(w)
  <2>1. sig[w] \in Signals
    BY <1>3, <1>t DEF Gate, GateHoldsSignal
  <2>2. InFlight' = InFlight /\ open' = open
    BY <1>3, <1>t DEF Gate, LeadLagTypeOK, InFlight
  <2>3. open' = Cardinality(InFlight') /\ open' \in 0 .. Cardinality(Workers)
    BY <2>2, <1>t, StepKeepsCount
  <2>4. LeadLagTypeOK'
    BY <1>3, <1>t, <2>1, <2>3 DEF Gate, LeadLagTypeOK, feedVars, logVars
  <2>5. GateHoldsSignal'
    BY <1>3, <1>t DEF Gate, LeadLagTypeOK, GateHoldsSignal
  <2>6. QED
    BY <2>3, <2>4, <2>5 DEF InFlight
<1>4. CASE Add(w)
  <2>2. w \notin InFlight /\ InFlight' = InFlight \cup {w} /\ open' = open + 1
    BY <1>4, <1>t DEF Add, LeadLagTypeOK, InFlight
  <2>3. open' = Cardinality(InFlight') /\ open' \in 0 .. Cardinality(Workers)
    BY <2>2, <1>t, StepKeepsCount
  <2>4. LeadLagTypeOK'
    BY <1>4, <1>t, <2>3 DEF Add, LeadLagTypeOK, kMaxAttempts, feedVars, logVars
  <2>5. GateHoldsSignal'
    BY <1>4, <1>t DEF Add, LeadLagTypeOK, GateHoldsSignal
  <2>6. QED
    BY <2>3, <2>4, <2>5 DEF InFlight
<1>5. CASE Finish(w)
  <2>2. w \in InFlight /\ InFlight' = InFlight \ {w} /\ open' = open - 1
    BY <1>5, <1>t DEF Finish, LeadLagTypeOK, InFlight
  <2>3. open' = Cardinality(InFlight') /\ open' \in 0 .. Cardinality(Workers)
    BY <2>2, <1>t, StepKeepsCount
  <2>4. LeadLagTypeOK'
    BY <1>5, <1>t, <2>3 DEF Finish, LeadLagTypeOK, feedVars, logVars
  <2>5. GateHoldsSignal'
    BY <1>5, <1>t DEF Finish, LeadLagTypeOK, GateHoldsSignal
  <2>6. QED
    BY <2>3, <2>4, <2>5 DEF InFlight
<1>6. CASE \E o \in Outcomes : Post(w, o)
  <2> PICK o \in Outcomes : Post(w, o)
    BY <1>6
  <2>2. InFlight' = InFlight /\ open' = open
    BY <1>t DEF Post, LeadLagTypeOK, InFlight
  <2>3. open' = Cardinality(InFlight') /\ open' \in 0 .. Cardinality(Workers)
    BY <2>2, <1>t, StepKeepsCount
  <2>4. posts' \in [Signals -> Seq(Outcomes)]
    <3>1. posts \in [Signals -> Seq(Outcomes)]
      BY <1>t DEF LeadLagTypeOK
    <3>2. \A q \in Seq(Outcomes) : Append(q, o) \in Seq(Outcomes)
      OBVIOUS
    <3>3. posts' = [posts EXCEPT ![sig[w]] = Append(@, o)]
      BY DEF Post
    <3>4. QED
      BY <3>1, <3>2, <3>3
  <2>5. attempt' \in [Workers -> 1 .. kMaxAttempts]
    BY <1>t DEF Post, LeadLagTypeOK, kMaxAttempts
  <2>6. LeadLagTypeOK'
    BY <1>t, <2>3, <2>4, <2>5 DEF Post, LeadLagTypeOK, feedVars, logVars
  <2>7. GateHoldsSignal'
    BY <1>t DEF Post, LeadLagTypeOK, GateHoldsSignal
  <2>8. QED
    BY <2>3, <2>6, <2>7 DEF InFlight
<1>7. QED
  BY <1>1, <1>2, <1>3, <1>4, <1>5, <1>6 DEF Worker

(* The other threads leave the workers and the counter alone.              *)
LEMMA OtherStep ==
  ASSUME PositionsInv,
         \/ FeedSignal \/ SessionFails \/ TimerFires \/ OnSignal
         \/ Writer \/ Main \/ UNCHANGED leadLagVars
  PROVE  PositionsInv'
<1>1. /\ LeadLagTypeOK
      /\ {ReconnectBase, ReconnectMax, MaxSignals} \subseteq Nat
  BY LeadLagAssumption DEF PositionsInv, PositionsAccounted
<1>2. UNCHANGED <<pc, sig, attempt, open, posts, skipped>>
  BY DEF FeedSignal, SessionFails, TimerFires, OnSignal, Writer, WriterTake,
         WriterFlush, WriterExit, Main, StopPool, JoinPool, StopLog, JoinLog,
         poolVars, leadLagVars
<1>3. LeadLagTypeOK'
  <2>1. CASE FeedSignal
    BY <2>1, <1>1, <1>2
    DEF FeedSignal, LeadLagTypeOK, Signals, poolVars, logVars
  <2>2. CASE SessionFails
    BY <2>2, <1>1, <1>2 DEF SessionFails, LeadLagTypeOK, poolVars, logVars
  <2>3. CASE TimerFires
    BY <2>3, <1>1, <1>2 DEF TimerFires, LeadLagTypeOK, poolVars, logVars
  <2>4. CASE OnSignal
    BY <2>4, <1>1, <1>2 DEF OnSignal, LeadLagTypeOK, poolVars, logVars
  <2>5. CASE Writer
    BY <2>5, <1>1, <1>2
    DEF Writer, WriterTake, WriteRow, WriterFlush, WriterExit, LeadLagTypeOK,
        feedVars, poolVars
  <2>6. CASE Main
    BY <2>6, <1>1, <1>2
    DEF Main, StopPool, JoinPool, StopLog, JoinLog, LeadLagTypeOK, feedVars, poolVars,
        logVars
  <2>7. CASE UNCHANGED leadLagVars
    BY <2>7, <1>1, <1>2 DEF leadLagVars, LeadLagTypeOK, feedVars, poolVars, logVars
  <2>8. QED
    BY <2>1, <2>2, <2>3, <2>4, <2>5, <2>6, <2>7
<1>4. QED
  BY <1>2, <1>3 DEF PositionsInv, PositionsAccounted, GateHoldsSignal

LEMMA NextPositionsInv == PositionsInv /\ [LeadLagNext]_leadLagVars => PositionsInv'
BY WorkerStep, OtherStep DEF LeadLagNext

(* lead_lag.cpp:544-549, 595.  However the workers interleave between the  *)
(* load of open_positions_ and the addition to it, and whatever the posts  *)
(* return, the counter is the number of orders in flight.                  *)
THEOREM LeadLagPositionsAccounted == LeadLagSpec => []PositionsAccounted
<1>1. PositionsInv => PositionsAccounted
  BY DEF PositionsInv
<1>2. QED
  BY InitPositionsInv, NextPositionsInv, <1>1, PTL DEF LeadLagSpec

-----------------------------------------------------------------------------
(* Where the signals and the log entries are.                              *)

Entry == {LogLine} \cup {<<"trade", s>> : s \in Signals}

(* Every entry ever logged, in order: the writer only moves the borders.   *)
Full == (durable \o buffered) \o entries

Row(s) == <<"trade", s>>
Rows == {s \in Signals : \E i \in DOMAIN Full : Full[i] = Row(s)}
Held(w) == pc[w] \in {"gate", "add", "post", "finish"}

\* The signals that left the queue are the first ones.
taken == submitted - Len(queue)

LogTypes ==
  durable \in Seq(Entry) /\ buffered \in Seq(Entry) /\ entries \in Seq(Entry)

OneRow ==
  \A s \in Signals : \A i, j \in DOMAIN Full :
    Full[i] = Row(s) /\ Full[j] = Row(s) => i = j

QueueInv ==
  /\ Len(queue) <= submitted
  /\ \A i \in DOMAIN queue : queue[i] = taken + i

\* A held signal is taken, held once, and neither skipped nor in the log.
HeldInv ==
  /\ \A w \in Workers :
       Held(w) => /\ sig[w] \in 1 .. taken
                  /\ sig[w] \notin skipped /\ sig[w] \notin Rows
                  /\ pc[w] \in {"gate", "add"} => posts[sig[w]] = <<>>
                  /\ pc[w] = "finish" => posts[sig[w]] # <<>>
  /\ \A v, w \in Workers : Held(v) /\ Held(w) /\ sig[v] = sig[w] => v = w

\* A signal in the queue is untouched, a taken one is in one place.
SignalInv ==
  /\ \A s \in Signals :
       s > taken => posts[s] = <<>> /\ s \notin skipped /\ s \notin Rows
  /\ \A s \in skipped : posts[s] = <<>>
  /\ \A s \in Rows : posts[s] # <<>>
  /\ \A s \in 1 .. taken :
       s \in skipped \/ s \in Rows \/ \E w \in Workers : Held(w) /\ sig[w] = s

(* The threads end one after the other, each with nothing left to do.      *)
ShutdownInv ==
  /\ mpc # "run" => feedStopped
  /\ stopping => mpc # "run"
  /\ \A w \in Workers : pc[w] = "exited" => stopping /\ queue = <<>>
  /\ mpc \in {"logstop", "logjoin", "done"} => \A w \in Workers : pc[w] = "exited"
  /\ ~ logging => mpc \in {"logjoin", "done"}
  /\ writer = "exited" => ~ logging /\ entries = <<>> /\ buffered = <<>>
  /\ writer = "wait" /\ entries = <<>> => buffered = <<>>
  /\ mpc = "done" => writer = "exited"

LossInv ==
  PositionsInv /\ LogTypes /\ OneRow /\ QueueInv /\ HeldInv /\ SignalInv /\ ShutdownInv

(* What the parts of the invariant say of the types.                       *)
LEMMA LossFacts ==
  ASSUME LossInv
  PROVE  /\ submitted \in 0 .. MaxSignals /\ queue \in Seq(Signals)
         /\ Len(queue) \in Nat /\ Len(queue) <= submitted /\ DOMAIN queue = 1 .. Len(queue)
         /\ taken \in 0 .. submitted /\ 1 .. taken \subseteq Signals /\ MaxSignals \in Nat
         /\ pc \in [Workers -> {"wait", "gate", "add", "post", "finish", "exited"}]
         /\ sig \in [Workers -> 0 .. MaxSignals]
         /\ posts \in [Signals -> Seq(Outcomes)] /\ skipped \subseteq Signals
         /\ durable \in Seq(Entry) /\ buffered \in Seq(Entry) /\ entries \in Seq(Entry)
<1>1. /\ submitted \in 0 .. MaxSignals /\ queue \in Seq(Signals)
      /\ pc \in [Workers -> {"wait", "gate", "add", "post", "finish", "exited"}]
      /\ sig \in [Workers -> 0 .. MaxSignals]
      /\ posts \in [Signals -> Seq(Outcomes)] /\ skipped \subseteq Signals
  BY DEF LossInv, PositionsInv, PositionsAccounted, LeadLagTypeOK
<1>2. MaxSignals \in Nat /\ Len(queue) \in Nat /\ Len(queue) <= submitted
      /\ DOMAIN queue = 1 .. Len(queue)
  BY <1>1, LeadLagAssumption DEF LossInv, QueueInv
<1>3. taken \in 0 .. submitted /\ 1 .. taken \subseteq Signals
  BY <1>1, <1>2 DEF taken, Signals
<1>4. QED
  BY <1>1, <1>2, <1>3 DEF LossInv, LogTypes

-----------------------------------------------------------------------------
(* The log as one sequence.                                                *)

LEMMA LogSame ==
  ASSUME OneRow, Full' = Full
  PROVE  Rows' = Rows /\ OneRow'
BY DEF OneRow, Rows, Row

LEMMA LogAppend ==
  ASSUME LogTypes, NEW e \in Entry,
         entries' = Append(entries, e), UNCHANGED <<durable, buffered>>
  PROVE  /\ LogTypes' /\ entries' # <<>>
         /\ Full \in Seq(Entry) /\ Full' = Append(Full, e)
<1> DEFINE d == durable \o buffered
<1>1. durable \in Seq(Entry) /\ buffered \in Seq(Entry) /\ entries \in Seq(Entry)
  BY DEF LogTypes
<1>2. entries' \in Seq(Entry) /\ entries' # <<>>
  BY <1>1
<1>3. d \in Seq(Entry)
  BY <1>1
<1>4. Full = d \o entries /\ Full' = d \o Append(entries, e)
  BY DEF Full
<1> HIDE DEF d
<1>5. Full \in Seq(Entry) /\ Full' = Append(Full, e)
  BY <1>1, <1>3, <1>4
<1>6. QED
  BY <1>1, <1>2, <1>5 DEF LogTypes

\* A line for the text log is no trade row.
LEMMA LogLineStep ==
  ASSUME LogTypes, OneRow,
         entries' = Append(entries, LogLine), UNCHANGED <<durable, buffered>>
  PROVE  LogTypes' /\ OneRow' /\ Rows' = Rows /\ entries' # <<>>
<1>1. LogLine \in Entry /\ \A s \in Signals : LogLine # Row(s)
  BY LeadLagAssumption DEF LogLine, Entry, Row
<1>2. /\ LogTypes' /\ entries' # <<>> /\ Full \in Seq(Entry)
      /\ Full' = Append(Full, LogLine)
  BY <1>1, LogAppend
<1> DEFINE n == Len(Full)
<1>3. /\ n \in Nat /\ DOMAIN Full = 1 .. n /\ DOMAIN Full' = 1 .. n + 1
      /\ Full'[n + 1] = LogLine /\ \A i \in 1 .. n : Full'[i] = Full[i]
  BY <1>2
<1> HIDE DEF n
<1>4. \A s \in Signals : \A i \in DOMAIN Full' :
        Full'[i] = Row(s) <=> i \in DOMAIN Full /\ Full[i] = Row(s)
  BY <1>1, <1>3
<1>5. Rows' = Rows
  <2>1. \A s \in Signals : (\E i \in DOMAIN Full' : Full'[i] = Row(s))
                             <=> (\E i \in DOMAIN Full : Full[i] = Row(s))
    BY <1>3, <1>4
  <2>2. QED
    BY <2>1 DEF Rows, Row
<1>6. OneRow'
  BY <1>4 DEF OneRow, Row
<1>7. QED
  BY <1>2, <1>5, <1>6

\* The first row of a signal.
LEMMA TradeRowStep ==
  ASSUME LogTypes, OneRow, NEW r \in Signals, r \notin Rows,
         entries' = Append(entries, Row(r)), UNCHANGED <<durable, buffered>>
  PROVE  LogTypes' /\ OneRow' /\ Rows' = Rows \cup {r} /\ entries' # <<>>
<1>1. Row(r) \in Entry /\ \A s \in Signals : Row(r) = Row(s) <=> s = r
  BY LeadLagAssumption DEF Entry, Row, Signals
<1>2. /\ LogTypes' /\ entries' # <<>> /\ Full \in Seq(Entry)
      /\ Full' = Append(Full, Row(r))
  BY <1>1, LogAppend
<1> DEFINE n == Len(Full)
<1>3. /\ n \in Nat /\ DOMAIN Full = 1 .. n /\ DOMAIN Full' = 1 .. n + 1
      /\ Full'[n + 1] = Row(r) /\ \A i \in 1 .. n : Full'[i] = Full[i]
  BY <1>2
<1> HIDE DEF n
<1>4. \A s \in Signals : \A i \in DOMAIN Full' :
        Full'[i] = Row(s) <=> \/ i \in DOMAIN Full /\ Full[i] = Row(s)
                              \/ i = n + 1 /\ s = r
  BY <1>1, <1>3
<1>5. Rows' = Rows \cup {r}
  <2>1. \A s \in Signals : (\E i \in DOMAIN Full' : Full'[i] = Row(s))
                             <=> (\E i \in DOMAIN Full : Full[i] = Row(s)) \/ s = r
    BY <1>3, <1>4
  <2>2. QED
    BY <2>1 DEF Rows, Row
<1>6. OneRow'
  <2>1. ASSUME NEW s \in Signals, NEW i \in DOMAIN Full', NEW j \in DOMAIN Full',
               Full'[i] = Row(s), Full'[j] = Row(s)
        PROVE  i = j
    <3>1. CASE s = r
      <4>1. \A k \in DOMAIN Full : Full[k] # Row(s)
        BY <3>1 DEF Rows
      <4>2. QED
        BY <1>4, <2>1, <4>1
    <3>2. CASE s # r
      BY <1>4, <2>1, <3>2 DEF OneRow
    <3>3. QED
      BY <3>1, <3>2
  <2>2. QED
    BY <2>1 DEF OneRow, Row
<1>7. QED
  BY <1>2, <1>5, <1>6

(* The writer moves entries from the queue to the streams' buffers and     *)
(* from there to the files.                                                *)
LEMMA WriterLog ==
  ASSUME LogTypes, OneRow, Writer
  PROVE  LogTypes' /\ OneRow' /\ Rows' = Rows
<1>1. durable \in Seq(Entry) /\ buffered \in Seq(Entry) /\ entries \in Seq(Entry)
  BY DEF LogTypes
<1>2. LogTypes' /\ Full' = Full
  <2>1. CASE WriterTake
    <3> DEFINE h == Head(entries)
               t == Tail(entries)
    <3>1. /\ entries # <<>> /\ entries' = t /\ buffered' = Append(buffered, h)
          /\ durable' = durable
      BY <2>1 DEF WriterTake
    <3>2. h \in Entry /\ t \in Seq(Entry) /\ entries = <<h>> \o t
      BY <1>1, <3>1
    <3> HIDE DEF h, t
    <3>3. /\ Append(buffered, h) \in Seq(Entry)
          /\ Append(buffered, h) = buffered \o <<h>> /\ <<h>> \in Seq(Entry)
      BY <1>1, <3>2
    <3>4. (durable \o (buffered \o <<h>>)) \o t = (durable \o buffered) \o (<<h>> \o t)
      <4>1. \A a, b, c, e \in Seq(Entry) : (a \o (b \o c)) \o e = (a \o b) \o (c \o e)
        OBVIOUS
      <4>2. QED
        BY <1>1, <3>2, <3>3, <4>1
    <3>5. QED
      BY <1>1, <3>1, <3>2, <3>3, <3>4 DEF LogTypes, Full
  <2>2. CASE /\ durable' = durable \o buffered /\ buffered' = <<>>
             /\ entries' = entries
    <3>1. durable \o buffered \in Seq(Entry)
      BY <1>1
    <3>2. (durable \o buffered) \o <<>> = durable \o buffered
      BY <3>1
    <3>3. QED
      BY <1>1, <2>2, <3>1, <3>2 DEF LogTypes, Full
  <2>3. CASE UNCHANGED <<durable, buffered, entries>>
    BY <2>3 DEF LogTypes, Full
  <2>4. QED
    BY <2>1, <2>2, <2>3 DEF Writer, WriterFlush, WriterExit
<1>3. QED
  BY <1>2, LogSame

-----------------------------------------------------------------------------
(* The pool: queue, workers and what has become of the signals.            *)

LEMMA PoolSame ==
  ASSUME LossInv, Rows' = Rows,
         UNCHANGED <<submitted, queue, pc, sig, posts, skipped>>
  PROVE  QueueInv' /\ HeldInv' /\ SignalInv'
<1>1. taken' = taken /\ \A w \in Workers : Held(w)' = Held(w)
  BY DEF taken, Held
<1>2. QueueInv'
  BY <1>1 DEF LossInv, QueueInv
<1>3. HeldInv'
  BY <1>1 DEF LossInv, HeldInv, Held
<1>4. SignalInv'
  BY <1>1 DEF LossInv, SignalInv, Held
<1>5. QED
  BY <1>2, <1>3, <1>4

(* The reactor submits a signal.                                           *)
LEMMA FeedSignalStep ==
  ASSUME LossInv, FeedSignal
  PROVE  /\ LogTypes' /\ OneRow' /\ QueueInv' /\ HeldInv' /\ SignalInv'
         /\ ShutdownInv'
<1> DEFINE n == Len(queue)
<1>1. /\ submitted' = submitted + 1 /\ queue' = Append(queue, submitted + 1)
      /\ submitted + 1 \in Signals /\ submitted \in Nat
      /\ UNCHANGED <<pc, sig, posts, skipped>>
  BY LossFacts DEF FeedSignal, poolVars, Signals
<1>2. LogTypes' /\ OneRow' /\ Rows' = Rows /\ entries' # <<>>
  BY LogLineStep DEF FeedSignal, logVars, LossInv
<1>3. /\ n \in Nat /\ n <= submitted /\ DOMAIN queue = 1 .. n
      /\ Len(queue') = n + 1 /\ DOMAIN queue' = 1 .. n + 1
      /\ queue'[n + 1] = submitted + 1
      /\ \A i \in 1 .. n : queue'[i] = queue[i]
  BY <1>1, LossFacts
<1>4. taken' = taken
  BY <1>1, <1>3 DEF taken
<1>5. QueueInv'
  <2>1. ASSUME NEW i \in 1 .. n + 1 PROVE queue'[i] = taken + i
    <3>1. CASE i = n + 1
      BY <1>1, <1>3, <3>1 DEF taken
    <3>2. CASE i \in 1 .. n
      BY <1>3, <3>2 DEF LossInv, QueueInv
    <3>3. QED
      BY <1>3, <3>1, <3>2
  <2>2. QED
    BY <1>1, <1>3, <1>4, <2>1 DEF QueueInv
<1>6. HeldInv'
  BY <1>1, <1>2, <1>4 DEF LossInv, HeldInv, Held
<1>7. SignalInv'
  BY <1>1, <1>2, <1>4 DEF LossInv, SignalInv, Held
<1>8. ShutdownInv'
  <2>1. mpc = "run" /\ ~ stopping /\ logging /\ writer # "exited"
    BY DEF FeedSignal, LossInv, ShutdownInv
  <2>2. /\ UNCHANGED <<mpc, stopping, feedStopped, logging, writer, pc>>
    BY DEF FeedSignal, poolVars, logVars
  <2>3. QED
    BY <1>2, <2>1, <2>2 DEF LossInv, ShutdownInv
<1>9. QED
  BY <1>2, <1>5, <1>6, <1>7, <1>8

(* A worker takes the signal at the head of the queue.                     *)
LEMMA TakeStep ==
  ASSUME LossInv, NEW w \in Workers, Take(w)
  PROVE  /\ LogTypes' /\ OneRow' /\ QueueInv' /\ HeldInv' /\ SignalInv'
         /\ ShutdownInv'
<1> DEFINE n == Len(queue)
           t == taken
           h == taken + 1
<1>1. /\ queue # <<>> /\ queue' = Tail(queue) /\ pc[w] = "wait"
      /\ sig' = [sig EXCEPT ![w] = Head(queue)] /\ pc' = [pc EXCEPT ![w] = "gate"]
      /\ UNCHANGED <<submitted, posts, skipped>>
      /\ UNCHANGED <<entries, durable, buffered, writer, logging, mpc, stopping,
                     feedStopped>>
  BY DEF Take, feedVars, logVars
<1>2. LogTypes' /\ OneRow' /\ Rows' = Rows
  <2>1. LogTypes' /\ Full' = Full
    BY <1>1 DEF LossInv, LogTypes, Full
  <2>2. QED
    BY <2>1, LogSame DEF LossInv
<1>3. /\ n \in Nat \ {0} /\ n <= submitted /\ DOMAIN queue = 1 .. n
      /\ Head(queue) = queue[1] /\ Len(queue') = n - 1
      /\ DOMAIN queue' = 1 .. n - 1
      /\ \A i \in 1 .. n - 1 : queue'[i] = queue[i + 1]
  BY <1>1, LossFacts
<1>4. /\ t \in Nat /\ taken' = h /\ h \in Signals /\ t = submitted - n
      /\ submitted \in Nat /\ submitted <= MaxSignals
  BY <1>1, <1>3, LossFacts DEF taken, Signals
<1>5. Head(queue) = h
  BY <1>3 DEF LossInv, QueueInv
<1>6. /\ posts[h] = <<>> /\ h \notin skipped /\ h \notin Rows
      /\ 1 .. h = 1 .. t \cup {h} /\ h \notin 1 .. t /\ h > taken
  <2>1. h > taken /\ 1 .. h = 1 .. t \cup {h} /\ h \notin 1 .. t
    BY <1>4
  <2>2. QED
    BY <1>4, <2>1 DEF LossInv, SignalInv
<1> HIDE DEF n, t, h
<1>7. QueueInv'
  <2>1. h = t + 1
    BY DEF h, t
  <2>2. ASSUME NEW i \in 1 .. n - 1 PROVE queue'[i] = h + i
    <3>1. i + 1 \in 1 .. n
      BY <1>3
    <3>2. queue[i + 1] = t + (i + 1)
      BY <1>3, <3>1 DEF LossInv, QueueInv, t
    <3>3. QED
      BY <1>3, <1>4, <2>1, <3>2
  <2>3. Len(queue') <= submitted'
    BY <1>1, <1>3, <1>4
  <2>4. QED
    BY <1>3, <1>4, <2>2, <2>3 DEF QueueInv
<1>8. /\ sig'[w] = h /\ pc'[w] = "gate" /\ ~ Held(w)
      /\ \A v \in Workers \ {w} : sig'[v] = sig[v] /\ pc'[v] = pc[v]
  BY <1>1, <1>5, LossFacts DEF Held
<1>9. HeldInv'
  <2>1. ASSUME NEW v \in Workers, Held(v)'
        PROVE  /\ sig'[v] \in 1 .. h
               /\ sig'[v] \notin skipped' /\ sig'[v] \notin Rows'
               /\ pc'[v] \in {"gate", "add"} => posts'[sig'[v]] = <<>>
               /\ pc'[v] = "finish" => posts'[sig'[v]] # <<>>
    <3>1. CASE v = w
      BY <1>1, <1>2, <1>6, <1>8, <3>1
    <3>2. CASE v # w
      <4>1. Held(v) /\ sig'[v] = sig[v] /\ pc'[v] = pc[v]
        BY <1>8, <2>1, <3>2 DEF Held
      <4>2. QED
        BY <1>1, <1>2, <1>6, <4>1 DEF LossInv, HeldInv, t
    <3>3. QED
      BY <3>1, <3>2
  <2>2. ASSUME NEW v \in Workers, NEW u \in Workers, Held(v)', Held(u)',
               sig'[v] = sig'[u]
        PROVE  v = u
    <3>1. CASE v # w /\ u # w
      <4>1. Held(v) /\ Held(u) /\ sig[v] = sig[u]
        BY <1>8, <2>2, <3>1 DEF Held
      <4>2. QED
        BY <4>1 DEF LossInv, HeldInv
    <3>2. \A x \in Workers \ {w} : Held(x)' => sig'[x] # h
      BY <1>6, <1>8 DEF LossInv, HeldInv, Held, t
    <3>3. QED
      BY <1>8, <2>2, <3>1, <3>2
  <2>3. QED
    BY <1>4, <2>1, <2>2 DEF HeldInv
<1>10. SignalInv'
  <2>1. \A s \in Signals :
          s > h => posts[s] = <<>> /\ s \notin skipped /\ s \notin Rows
    BY <1>4 DEF LossInv, SignalInv, h, t, Signals
  <2>2. ASSUME NEW s \in 1 .. h
        PROVE  \/ s \in skipped' \/ s \in Rows'
               \/ \E v \in Workers : Held(v)' /\ sig'[v] = s
    <3>1. CASE s = h
      BY <1>8, <3>1 DEF Held
    <3>2. CASE s \in 1 .. t
      <4>1. s \in skipped \/ s \in Rows \/ \E v \in Workers : Held(v) /\ sig[v] = s
        BY <3>2 DEF LossInv, SignalInv, t
      <4>2. \A v \in Workers : Held(v) => Held(v)' /\ sig'[v] = sig[v]
        BY <1>8 DEF Held
      <4>3. QED
        BY <1>1, <1>2, <4>1, <4>2
    <3>3. QED
      BY <1>6, <3>1, <3>2
  <2>3. QED
    BY <1>1, <1>2, <1>4, <2>1, <2>2 DEF LossInv, SignalInv
<1>11. ShutdownInv'
  BY <1>1, <1>8 DEF LossInv, ShutdownInv
<1>12. QED
  BY <1>2, <1>7, <1>9, <1>10, <1>11

(* A worker ends: queue and signals are as they were.                      *)
LEMMA WorkerExitStep ==
  ASSUME LossInv, NEW w \in Workers, WorkerExit(w)
  PROVE  /\ LogTypes' /\ OneRow' /\ QueueInv' /\ HeldInv' /\ SignalInv'
         /\ ShutdownInv'
<1>1. /\ pc[w] = "wait" /\ stopping /\ queue = <<>>
      /\ pc' = [pc EXCEPT ![w] = "exited"]
      /\ UNCHANGED <<queue, submitted, sig, posts, skipped>>
      /\ UNCHANGED <<entries, durable, buffered, writer, logging, mpc, stopping,
                     feedStopped>>
  BY DEF WorkerExit, feedVars, logVars
<1>2. LogTypes' /\ OneRow' /\ Rows' = Rows
  <2>1. LogTypes' /\ Full' = Full
    BY <1>1 DEF LossInv, LogTypes, Full
  <2>2. QED
    BY <2>1, LogSame DEF LossInv
<1>3. /\ taken' = taken
      /\ \A v \in Workers : /\ Held(v)' <=> Held(v)
                            /\ Held(v) => pc'[v] = pc[v]
  BY <1>1, LossFacts DEF taken, Held
<1>4. QueueInv'
  BY <1>1, <1>3 DEF LossInv, QueueInv
<1>5. HeldInv'
  BY <1>1, <1>2, <1>3 DEF LossInv, HeldInv
<1>6. SignalInv'
  BY <1>1, <1>2, <1>3 DEF LossInv, SignalInv
<1>7. ShutdownInv'
  BY <1>1, LossFacts DEF LossInv, ShutdownInv
<1>8. QED
  BY <1>2, <1>4, <1>5, <1>6, <1>7

-----------------------------------------------------------------------------
(* execute(): a worker that holds a signal, so that main still waits for   *)
(* it and the logger runs.                                                 *)

LEMMA HeldShutdown ==
  ASSUME LossInv, NEW w \in Workers, Held(w), pc'[w] # "exited",
         \A v \in Workers \ {w} : pc'[v] = pc[v],
         entries' = entries \/ entries' # <<>>,
         UNCHANGED <<queue, stopping, feedStopped, mpc, logging, writer, buffered>>
  PROVE  ShutdownInv'
<1>1. mpc \notin {"logstop", "logjoin", "done"} /\ logging /\ writer # "exited"
  BY DEF LossInv, ShutdownInv, Held
<1>2. QED
  BY <1>1 DEF LossInv, ShutdownInv

\* The signal in hand, and the others, which a step leaves where they are.
LEMMA HeldFacts ==
  ASSUME LossInv, NEW w \in Workers, Held(w)
  PROVE  /\ sig[w] \in 1 .. taken /\ sig[w] \in Signals
         /\ sig[w] \notin skipped /\ sig[w] \notin Rows
         /\ pc[w] \in {"gate", "add"} => posts[sig[w]] = <<>>
         /\ pc[w] = "finish" => posts[sig[w]] # <<>>
         /\ \A v \in Workers \ {w} : Held(v) => sig[v] # sig[w]
BY LossFacts DEF LossInv, HeldInv

LEMMA GateStep ==
  ASSUME LossInv, NEW w \in Workers, Gate(w)
  PROVE  /\ LogTypes' /\ OneRow' /\ QueueInv' /\ HeldInv' /\ SignalInv'
         /\ ShutdownInv'
<1>1. /\ pc[w] = "gate" /\ Held(w)
      /\ UNCHANGED <<submitted, queue, sig, posts>>
      /\ UNCHANGED <<durable, buffered, writer, logging, mpc, stopping, feedStopped>>
  BY DEF Gate, Held, feedVars, logVars
<1>2. taken' = taken /\ QueueInv'
  BY <1>1 DEF LossInv, QueueInv, taken
<1>3. CASE /\ pc' = [pc EXCEPT ![w] = "wait"] /\ skipped' = skipped \cup {sig[w]}
           /\ entries' = Append(entries, LogLine)
  <2>1. /\ pc'[w] = "wait" /\ ~ Held(w)'
        /\ \A v \in Workers \ {w} : pc'[v] = pc[v] /\ (Held(v)' <=> Held(v))
    BY <1>3, LossFacts DEF Held
  <2>2. LogTypes' /\ OneRow' /\ Rows' = Rows /\ entries' # <<>>
    BY <1>1, <1>3, LogLineStep DEF LossInv
  <2>3. HeldInv'
    <3>1. ASSUME NEW v \in Workers, Held(v)'
          PROVE  /\ v # w /\ Held(v) /\ pc'[v] = pc[v] /\ sig[v] # sig[w]
      BY <1>1, <2>1, <3>1, HeldFacts
    <3>2. ASSUME NEW v \in Workers, Held(v)'
          PROVE  /\ sig'[v] \in 1 .. taken'
                 /\ sig'[v] \notin skipped' /\ sig'[v] \notin Rows'
                 /\ pc'[v] \in {"gate", "add"} => posts'[sig'[v]] = <<>>
                 /\ pc'[v] = "finish" => posts'[sig'[v]] # <<>>
      BY <1>1, <1>2, <1>3, <2>2, <3>1, <3>2, HeldFacts
    <3>3. QED
      BY <1>1, <3>1, <3>2 DEF LossInv, HeldInv
  <2>4. SignalInv'
    <3>1. sig[w] \in 1 .. taken /\ posts[sig[w]] = <<>> /\ taken \in Nat
      BY <1>1, HeldFacts, LossFacts
    <3>2. \A s \in Signals : s > taken => s # sig[w]
      BY <3>1 DEF Signals
    <3>3. \A s \in 1 .. taken :
            \/ s \in skipped' \/ s \in Rows'
            \/ \E v \in Workers : Held(v)' /\ sig'[v] = s
      BY <1>1, <1>3, <2>1, <2>2 DEF LossInv, SignalInv
    <3>4. QED
      BY <1>1, <1>2, <1>3, <2>2, <3>1, <3>2, <3>3 DEF LossInv, SignalInv
  <2>5. ShutdownInv'
    BY <1>1, <2>1, <2>2, HeldShutdown
  <2>6. QED
    BY <1>2, <2>2, <2>3, <2>4, <2>5
<1>4. CASE pc' = [pc EXCEPT ![w] = "add"] /\ UNCHANGED <<skipped, entries>>
  <2>1. /\ pc'[w] = "add"
        /\ \A v \in Workers \ {w} : pc'[v] = pc[v]
        /\ \A v \in Workers : Held(v)' <=> Held(v)
    BY <1>1, <1>4, LossFacts DEF Held
  <2>2. LogTypes' /\ OneRow' /\ Rows' = Rows
    <3>1. LogTypes' /\ Full' = Full
      BY <1>1, <1>4 DEF LossInv, LogTypes, Full
    <3>2. QED
      BY <3>1, LogSame DEF LossInv
  <2>3. HeldInv'
    BY <1>1, <1>2, <1>4, <2>1, <2>2 DEF LossInv, HeldInv
  <2>4. SignalInv'
    BY <1>1, <1>2, <1>4, <2>1, <2>2 DEF LossInv, SignalInv
  <2>5. ShutdownInv'
    BY <1>1, <1>4, <2>1, HeldShutdown
  <2>6. QED
    BY <1>2, <2>2, <2>3, <2>4, <2>5
<1>5. QED
  BY <1>3, <1>4 DEF Gate

LEMMA AddStep ==
  ASSUME LossInv, NEW w \in Workers, Add(w)
  PROVE  /\ LogTypes' /\ OneRow' /\ QueueInv' /\ HeldInv' /\ SignalInv'
         /\ ShutdownInv'
<1>1. /\ pc[w] = "add" /\ Held(w) /\ pc' = [pc EXCEPT ![w] = "post"]
      /\ UNCHANGED <<submitted, queue, sig, posts, skipped>>
      /\ UNCHANGED <<entries, durable, buffered, writer, logging, mpc, stopping,
                     feedStopped>>
  BY DEF Add, Held, feedVars, logVars
<1>2. taken' = taken /\ QueueInv'
  BY <1>1 DEF LossInv, QueueInv, taken
<1>3. /\ pc'[w] = "post"
      /\ \A v \in Workers \ {w} : pc'[v] = pc[v]
      /\ \A v \in Workers : Held(v)' <=> Held(v)
  BY <1>1, LossFacts DEF Held
<1>4. LogTypes' /\ OneRow' /\ Rows' = Rows
  <2>1. LogTypes' /\ Full' = Full
    BY <1>1 DEF LossInv, LogTypes, Full
  <2>2. QED
    BY <2>1, LogSame DEF LossInv
<1>5. HeldInv'
  BY <1>1, <1>2, <1>3, <1>4 DEF LossInv, HeldInv
<1>6. SignalInv'
  BY <1>1, <1>2, <1>3, <1>4 DEF LossInv, SignalInv
<1>7. ShutdownInv'
  BY <1>1, <1>3, HeldShutdown
<1>8. QED
  BY <1>2, <1>4, <1>5, <1>6, <1>7

LEMMA PostStep ==
  ASSUME LossInv, NEW w \in Workers, NEW o \in Outcomes, Post(w, o)
  PROVE  /\ LogTypes' /\ OneRow' /\ QueueInv' /\ HeldInv' /\ SignalInv'
         /\ ShutdownInv'
<1> DEFINE r == sig[w]
<1>1. /\ pc[w] = "post" /\ Held(w)
      /\ posts' = [posts EXCEPT ![r] = Append(@, o)]
      /\ pc' = pc \/ pc' = [pc EXCEPT ![w] = "finish"]
      /\ UNCHANGED <<submitted, queue, sig, skipped>>
      /\ UNCHANGED <<entries, durable, buffered, writer, logging, mpc, stopping,
                     feedStopped>>
  BY DEF Post, Held, feedVars, logVars
<1>2. taken' = taken /\ QueueInv'
  BY <1>1 DEF LossInv, QueueInv, taken
<1>3. /\ pc'[w] \in {"post", "finish"}
      /\ \A v \in Workers \ {w} : pc'[v] = pc[v]
      /\ \A v \in Workers : Held(v)' <=> Held(v)
  BY <1>1, LossFacts DEF Held
<1>4. LogTypes' /\ OneRow' /\ Rows' = Rows
  <2>1. LogTypes' /\ Full' = Full
    BY <1>1 DEF LossInv, LogTypes, Full
  <2>2. QED
    BY <2>1, LogSame DEF LossInv
<1>5. /\ r \in 1 .. taken /\ r \in Signals /\ r \notin skipped /\ r \notin Rows
      /\ \A v \in Workers \ {w} : Held(v) => sig[v] # r
  BY <1>1, HeldFacts
<1>6. /\ posts'[r] # <<>>
      /\ \A s \in Signals \ {r} : posts'[s] = posts[s]
  <2>1. posts[r] \in Seq(Outcomes)
    BY <1>5, LossFacts
  <2>2. Append(posts[r], o) # <<>>
    BY <2>1
  <2>3. QED
    BY <1>1, <1>5, <2>2, LossFacts
<1> HIDE DEF r
<1>7. HeldInv'
  <2>1. ASSUME NEW v \in Workers, Held(v)'
        PROVE  /\ sig'[v] \in 1 .. taken'
               /\ sig'[v] \notin skipped' /\ sig'[v] \notin Rows'
               /\ pc'[v] \in {"gate", "add"} => posts'[sig'[v]] = <<>>
               /\ pc'[v] = "finish" => posts'[sig'[v]] # <<>>
    <3>1. Held(v)
      BY <1>3, <2>1
    <3>2. CASE v = w
      BY <1>1, <1>2, <1>3, <1>4, <1>5, <1>6, <3>2 DEF r
    <3>3. CASE v # w
      <4>1. sig[v] # r /\ sig[v] \in Signals
        BY <1>5, <3>1, <3>3, HeldFacts
      <4>2. QED
        BY <1>1, <1>2, <1>3, <1>4, <1>6, <3>1, <3>3, <4>1, HeldFacts
    <3>4. QED
      BY <3>2, <3>3
  <2>2. QED
    BY <1>1, <1>3, <2>1 DEF LossInv, HeldInv
<1>8. SignalInv'
  <2>1. \A s \in Signals : s > taken => s # r
    BY <1>5, LossFacts DEF Signals
  <2>2. skipped \subseteq Signals /\ Rows \subseteq Signals
    BY LossFacts DEF Rows
  <2>3. \A s \in skipped : posts'[s] = <<>>
    BY <1>5, <1>6, <2>2 DEF LossInv, SignalInv
  <2>4. \A s \in Rows : posts'[s] # <<>>
    BY <1>5, <1>6, <2>2 DEF LossInv, SignalInv
  <2>5. \A s \in Signals :
          s > taken => posts'[s] = <<>> /\ s \notin skipped /\ s \notin Rows
    BY <1>6, <2>1 DEF LossInv, SignalInv
  <2>6. \A s \in 1 .. taken :
          \/ s \in skipped \/ s \in Rows
          \/ \E v \in Workers : Held(v)' /\ sig'[v] = s
    BY <1>1, <1>3 DEF LossInv, SignalInv
  <2>7. QED
    BY <1>1, <1>2, <1>4, <2>3, <2>4, <2>5, <2>6 DEF SignalInv
<1>9. ShutdownInv'
  BY <1>1, <1>3, HeldShutdown
<1>10. QED
  BY <1>2, <1>4, <1>7, <1>8, <1>9

\* The trade row of the signal, and the worker is free again.
LEMMA FinishStep ==
  ASSUME LossInv, NEW w \in Workers, Finish(w)
  PROVE  /\ LogTypes' /\ OneRow' /\ QueueInv' /\ HeldInv' /\ SignalInv'
         /\ ShutdownInv'
<1>1. /\ pc[w] = "finish" /\ Held(w) /\ pc' = [pc EXCEPT ![w] = "wait"]
      /\ entries' = Append(entries, Row(sig[w]))
      /\ UNCHANGED <<submitted, queue, sig, posts, skipped>>
      /\ UNCHANGED <<durable, buffered, writer, logging, mpc, stopping, feedStopped>>
  BY DEF Finish, Held, Row, feedVars, logVars
<1>2. taken' = taken /\ QueueInv'
  BY <1>1 DEF LossInv, QueueInv, taken
<1>3. /\ pc'[w] = "wait" /\ ~ Held(w)'
      /\ \A v \in Workers \ {w} : pc'[v] = pc[v] /\ (Held(v)' <=> Held(v))
  BY <1>1, LossFacts DEF Held
<1>4. /\ sig[w] \in 1 .. taken /\ sig[w] \in Signals
      /\ sig[w] \notin skipped /\ sig[w] \notin Rows /\ posts[sig[w]] # <<>>
      /\ \A v \in Workers \ {w} : Held(v) => sig[v] # sig[w]
  BY <1>1, HeldFacts
<1>5. LogTypes' /\ OneRow' /\ Rows' = Rows \cup {sig[w]} /\ entries' # <<>>
  BY <1>1, <1>4, TradeRowStep DEF LossInv
<1>6. HeldInv'
  <2>1. ASSUME NEW v \in Workers, Held(v)'
        PROVE  /\ v # w /\ Held(v) /\ pc'[v] = pc[v] /\ sig[v] # sig[w]
    BY <1>3, <1>4, <2>1
  <2>2. ASSUME NEW v \in Workers, Held(v)'
        PROVE  /\ sig'[v] \in 1 .. taken'
               /\ sig'[v] \notin skipped' /\ sig'[v] \notin Rows'
               /\ pc'[v] \in {"gate", "add"} => posts'[sig'[v]] = <<>>
               /\ pc'[v] = "finish" => posts'[sig'[v]] # <<>>
    BY <1>1, <1>2, <1>5, <2>1, <2>2, HeldFacts
  <2>3. QED
    BY <1>1, <2>1, <2>2 DEF LossInv, HeldInv
<1>7. SignalInv'
  <2>1. \A s \in Signals : s > taken => s # sig[w]
    BY <1>4, LossFacts DEF Signals
  <2>2. \A s \in 1 .. taken :
          \/ s \in skipped' \/ s \in Rows'
          \/ \E v \in Workers : Held(v)' /\ sig'[v] = s
    BY <1>1, <1>3, <1>5 DEF LossInv, SignalInv
  <2>3. QED
    BY <1>1, <1>2, <1>4, <1>5, <2>1, <2>2 DEF LossInv, SignalInv
<1>8. ShutdownInv'
  BY <1>1, <1>3, <1>5, HeldShutdown
<1>9. QED
  BY <1>2, <1>5, <1>6, <1>7, <1>8

-----------------------------------------------------------------------------
(* The other threads, and the theorem.                                     *)

\* The reactor's and main's steps that write no log line.
LEMMA QuietStep ==
  ASSUME LossInv,
         SessionFails \/ TimerFires \/ OnSignal \/ StopPool \/ StopLog \/ JoinLog
           \/ UNCHANGED leadLagVars
  PROVE  /\ LogTypes' /\ OneRow' /\ QueueInv' /\ HeldInv' /\ SignalInv'
         /\ ShutdownInv'
<1>1. UNCHANGED <<submitted, queue, pc, sig, posts, skipped, entries, durable,
                  buffered, writer>>
  BY DEF SessionFails, TimerFires, OnSignal, StopPool, StopLog, JoinLog, leadLagVars,
         feedVars, poolVars, logVars
<1>2. LogTypes' /\ OneRow' /\ Rows' = Rows
  <2>1. LogTypes' /\ Full' = Full
    BY <1>1 DEF LossInv, LogTypes, Full
  <2>2. QED
    BY <2>1, LogSame DEF LossInv
<1>3. QueueInv' /\ HeldInv' /\ SignalInv'
  BY <1>1, <1>2, PoolSame
<1>4. ShutdownInv'
  <2>1. CASE SessionFails \/ TimerFires \/ OnSignal
    BY <2>1, <1>1
    DEF SessionFails, TimerFires, OnSignal, poolVars, logVars, LossInv, ShutdownInv
  <2>2. CASE StopPool
    BY <2>2, <1>1 DEF StopPool, feedVars, logVars, LossInv, ShutdownInv
  <2>3. CASE StopLog
    BY <2>3, <1>1 DEF StopLog, feedVars, poolVars, LossInv, ShutdownInv
  <2>4. CASE JoinLog
    BY <2>4, <1>1 DEF JoinLog, feedVars, poolVars, logVars, LossInv, ShutdownInv
  <2>5. CASE UNCHANGED leadLagVars
    BY <2>5, <1>1 DEF leadLagVars, feedVars, poolVars, logVars, LossInv, ShutdownInv
  <2>6. QED
    BY <2>1, <2>2, <2>3, <2>4, <2>5
<1>5. QED
  BY <1>2, <1>3, <1>4

LEMMA JoinPoolStep ==
  ASSUME LossInv, JoinPool
  PROVE  /\ LogTypes' /\ OneRow' /\ QueueInv' /\ HeldInv' /\ SignalInv'
         /\ ShutdownInv'
<1>1. /\ mpc = "join" /\ mpc' = "logstop" /\ \A w \in Workers : pc[w] = "exited"
      /\ entries' = Append(entries, LogLine)
      /\ UNCHANGED <<submitted, queue, pc, sig, posts, skipped>>
      /\ UNCHANGED <<durable, buffered, writer, logging, stopping, feedStopped>>
  BY DEF JoinPool, feedVars, poolVars, logVars
<1>2. LogTypes' /\ OneRow' /\ Rows' = Rows /\ entries' # <<>>
  BY <1>1, LogLineStep DEF LossInv
<1>3. QueueInv' /\ HeldInv' /\ SignalInv'
  BY <1>1, <1>2, PoolSame
<1>4. ShutdownInv'
  BY <1>1, <1>2 DEF LossInv, ShutdownInv
<1>5. QED
  BY <1>2, <1>3, <1>4

LEMMA WriterStep ==
  ASSUME LossInv, Writer
  PROVE  /\ LogTypes' /\ OneRow' /\ QueueInv' /\ HeldInv' /\ SignalInv'
         /\ ShutdownInv'
<1>1. /\ UNCHANGED <<submitted, queue, pc, sig, posts, skipped>>
      /\ UNCHANGED <<mpc, logging, stopping, feedStopped>>
  BY DEF Writer, WriterTake, WriterFlush, WriterExit, feedVars, poolVars
<1>2. LogTypes' /\ OneRow' /\ Rows' = Rows
  BY WriterLog DEF LossInv
<1>3. QueueInv' /\ HeldInv' /\ SignalInv'
  BY <1>1, <1>2, PoolSame
<1>4. ShutdownInv'
  <2>1. writer # "exited" /\ mpc # "done"
    BY DEF Writer, WriterTake, WriterFlush, WriterExit, LossInv, ShutdownInv
  <2>2. /\ writer' = "wait" /\ entries' = <<>> => buffered' = <<>>
        /\ writer' = "exited" => ~ logging /\ entries' = <<>> /\ buffered' = <<>>
    BY DEF Writer, WriterTake, WriterFlush, WriterExit
  <2>3. QED
    BY <1>1, <2>1, <2>2 DEF LossInv, ShutdownInv
<1>5. QED
  BY <1>2, <1>3, <1>4

LEMMA InitLossInv == LeadLagInit => LossInv
<1> SUFFICES ASSUME LeadLagInit PROVE LossInv
  OBVIOUS
<1>1. /\ queue = <<>> /\ Len(queue) = 0 /\ DOMAIN queue = {} /\ submitted = 0
      /\ taken = 0 /\ Full = <<>> /\ DOMAIN Full = {}
  <2>1. queue = <<>> /\ submitted = 0
    BY DEF LeadLagInit
  <2>2. Len(queue) = 0 /\ DOMAIN queue = {}
    BY <2>1
  <2>3. taken = 0
    <3>1. taken = 0 - 0
      BY <2>1, <2>2, Zenon DEF taken
    <3>2. QED
      BY <3>1
  <2>4. Full = (<<>> \o <<>>) \o <<>>
    BY DEF LeadLagInit, Full
  <2>5. (<<>> \o <<>>) \o <<>> = <<>> /\ DOMAIN <<>> = {}
    OBVIOUS
  <2>6. Full = <<>> /\ DOMAIN Full = {}
    BY <2>4, <2>5
  <2>7. QED
    BY <2>1, <2>2, <2>3, <2>6
<1>2. LogTypes /\ OneRow /\ Rows = {}
  BY <1>1 DEF LeadLagInit, LogTypes, OneRow, Rows
<1>3. QueueInv
  BY <1>1 DEF QueueInv
<1>4. HeldInv
  BY DEF LeadLagInit, HeldInv, Held
<1>5. SignalInv
  BY <1>1, <1>2 DEF LeadLagInit, SignalInv
<1>6. ShutdownInv
  BY DEF LeadLagInit, ShutdownInv
<1>7. QED
  BY <1>2, <1>3, <1>4, <1>5, <1>6, InitPositionsInv DEF LossInv

LEMMA NextLossInv == LossInv /\ [LeadLagNext]_leadLagVars => LossInv'
<1> SUFFICES ASSUME LossInv, [LeadLagNext]_leadLagVars PROVE LossInv'
  OBVIOUS
<1>1. PositionsInv'
  BY NextPositionsInv DEF LossInv
<1>2. CASE FeedSignal
  BY <1>1, <1>2, FeedSignalStep DEF LossInv
<1>3. CASE \E w \in Workers : Worker(w)
  <2> PICK w \in Workers : Worker(w)
    BY <1>3
  <2>1. CASE Take(w)
    BY <1>1, <2>1, TakeStep DEF LossInv
  <2>2. CASE WorkerExit(w)
    BY <1>1, <2>2, WorkerExitStep DEF LossInv
  <2>3. CASE Gate(w)
    BY <1>1, <2>3, GateStep DEF LossInv
  <2>4. CASE Add(w)
    BY <1>1, <2>4, AddStep DEF LossInv
  <2>5. CASE Finish(w)
    BY <1>1, <2>5, FinishStep DEF LossInv
  <2>6. CASE \E o \in Outcomes : Post(w, o)
    BY <1>1, <2>6, PostStep DEF LossInv
  <2>7. QED
    BY <2>1, <2>2, <2>3, <2>4, <2>5, <2>6 DEF Worker
<1>4. CASE Writer
  BY <1>1, <1>4, WriterStep DEF LossInv
<1>5. CASE JoinPool
  BY <1>1, <1>5, JoinPoolStep DEF LossInv
<1>6. CASE SessionFails \/ TimerFires \/ OnSignal \/ StopPool \/ StopLog \/ JoinLog
             \/ UNCHANGED leadLagVars
  BY <1>1, <1>6, QuietStep DEF LossInv
<1>7. QED
  BY <1>2, <1>3, <1>4, <1>5, <1>6 DEF LeadLagNext, Main

-----------------------------------------------------------------------------
(* The rows lost for want of a file: all of those written before it could  *)
(* be opened, and no other.                                                *)

Passed == durable \o buffered
IsRow(i) == i \in DOMAIN Passed /\ Passed[i][1] = "trade"

RowlessInv ==
  /\ \A s \in rowless : \E i \in DOMAIN Passed : Passed[i] = Row(s)
  /\ ~ tradeOpen => \A i \in Nat : IsRow(i) => Passed[i][2] \in rowless
  /\ \A i, k \in Nat : i < k /\ IsRow(i) /\ IsRow(k) /\ Passed[k][2] \in rowless
                => Passed[i][2] \in rowless

\* The writer takes an entry: the passed ones grow by it.
LEMMA PassedGrows ==
  ASSUME LossInv, WriterTake
  PROVE  LET n == Len(Passed)
             h == Head(entries)
         IN  /\ n \in Nat /\ h \in Entry
             /\ DOMAIN Passed = 1 .. n /\ DOMAIN Passed' = 1 .. n + 1
             /\ Passed'[n + 1] = h
             /\ \A i \in 1 .. n : Passed'[i] = Passed[i] /\ Full[i] = Passed[i]
             /\ n + 1 \in DOMAIN Full /\ Full[n + 1] = h /\ 1 .. n \subseteq DOMAIN Full
<1> DEFINE h == Head(entries)
<1>1. durable \in Seq(Entry) /\ buffered \in Seq(Entry) /\ entries \in Seq(Entry)
  BY LossFacts
<1>2. entries # <<>> /\ buffered' = Append(buffered, h) /\ durable' = durable
  BY DEF WriterTake
<1>3. Passed \in Seq(Entry) /\ h \in Entry /\ entries[1] = h /\ Len(entries) \in Nat \ {0}
  BY <1>1, <1>2 DEF Passed
<1>4. Passed' = Append(Passed, h)
  BY <1>1, <1>2, <1>3 DEF Passed
<1>5. Full = Passed \o entries
  BY DEF Full, Passed
<1> HIDE DEF h
<1> DEFINE n == Len(Passed)
<1>6. /\ n \in Nat /\ DOMAIN Passed = 1 .. n /\ DOMAIN Passed' = 1 .. n + 1
      /\ Passed'[n + 1] = h /\ \A i \in 1 .. n : Passed'[i] = Passed[i]
  BY <1>3, <1>4
<1>7. /\ DOMAIN Full = 1 .. n + Len(entries) /\ Full[n + 1] = h
      /\ \A i \in 1 .. n : Full[i] = Passed[i]
  BY <1>1, <1>3, <1>5, <1>6
<1> HIDE DEF n
<1>8. n + 1 \in DOMAIN Full /\ 1 .. n \subseteq DOMAIN Full
  BY <1>3, <1>6, <1>7
<1>9. QED
  BY <1>3, <1>6, <1>7, <1>8 DEF n, h

LEMMA RowlessTake ==
  ASSUME LossInv, RowlessInv, WriterTake
  PROVE  RowlessInv'
<1> DEFINE n == Len(Passed)
           h == Head(entries)
<1>1. /\ n \in Nat /\ h \in Entry
      /\ DOMAIN Passed = 1 .. n /\ DOMAIN Passed' = 1 .. n + 1
      /\ Passed'[n + 1] = h
      /\ \A i \in 1 .. n : Passed'[i] = Passed[i] /\ Full[i] = Passed[i]
      /\ n + 1 \in DOMAIN Full /\ Full[n + 1] = h /\ 1 .. n \subseteq DOMAIN Full
  BY PassedGrows
<1>2. IF h[1] = "trade" THEN WriteRow(h[2]) ELSE UNCHANGED <<tradeOpen, rowless>>
  BY DEF WriterTake
<1> HIDE DEF n, h
<1>3. ASSUME NEW i \in Nat
      PROVE  IsRow(i)' <=> (IsRow(i) \/ (i = n + 1 /\ h[1] = "trade"))
  <2>1. IsRow(i)' <=> (i \in 1 .. n + 1 /\ Passed'[i][1] = "trade")
    BY <1>1 DEF IsRow
  <2>2. IsRow(i) <=> (i \in 1 .. n /\ Passed[i][1] = "trade")
    BY <1>1 DEF IsRow
  <2>3. CASE i = n + 1
    BY <1>1, <2>1, <2>2, <2>3
  <2>4. CASE i # n + 1
    <3>1. i \in 1 .. n + 1 <=> i \in 1 .. n
      BY <1>1, <2>4
    <3>2. QED
      BY <1>1, <2>1, <2>2, <2>4, <3>1
  <2>5. QED
    BY <2>3, <2>4
<1>4. \A i \in Nat : IsRow(i) => i \in 1 .. n /\ Passed'[i] = Passed[i]
  BY <1>1 DEF IsRow
<1>5. CASE h[1] # "trade"
  <2>1. UNCHANGED <<tradeOpen, rowless>>
    BY <1>2, <1>5
  <2>2. \A s \in rowless : \E i \in DOMAIN Passed' : Passed'[i] = Row(s)
    BY <1>1 DEF RowlessInv
  <2>3. QED
    BY <2>1, <2>2, <1>3, <1>4, <1>5 DEF RowlessInv, Row
<1>6. CASE h[1] = "trade"
  <2>1. PICK r \in Signals : h = Row(r)
    BY <1>1, <1>6 DEF Entry, LogLine, Row
  <2>2. h[2] = r
    BY <2>1 DEF Row
  <2>3. CASE tradeOpen' = TRUE /\ rowless' = rowless
    <3>1. r \notin rowless
      <4>1. \A i \in 1 .. n : Full[i] # Row(r)
        BY <1>1, <2>1 DEF LossInv, OneRow
      <4>2. QED
        BY <1>1, <4>1 DEF RowlessInv
    <3>2. \A s \in rowless : \E i \in DOMAIN Passed' : Passed'[i] = Row(s)
      BY <1>1 DEF RowlessInv
    <3>3. ASSUME NEW i \in Nat, NEW k \in Nat, i < k, IsRow(i)', IsRow(k)', Passed'[k][2] \in rowless
          PROVE  Passed'[i][2] \in rowless
      <4>1. k # n + 1 /\ IsRow(k)
        BY <1>1, <1>3, <2>2, <3>1, <3>3
      <4>2. k \in 1 .. n /\ i # n + 1 /\ IsRow(i)
        BY <1>1, <1>3, <1>4, <3>3, <4>1
      <4>3. QED
        BY <1>4, <3>3, <4>1, <4>2 DEF RowlessInv
    <3>4. QED
      BY <2>3, <3>2, <3>3 DEF RowlessInv, Row
  <2>4. CASE ~ tradeOpen /\ tradeOpen' = tradeOpen /\ rowless' = rowless \cup {r}
    <3>1. \A i \in Nat : IsRow(i)' => Passed'[i][2] \in rowless'
      BY <1>1, <1>3, <1>4, <2>2, <2>4 DEF RowlessInv
    <3>2. \A s \in rowless' : \E i \in DOMAIN Passed' : Passed'[i] = Row(s)
      BY <1>1, <2>1, <2>4 DEF RowlessInv
    <3>3. QED
      BY <3>1, <3>2 DEF RowlessInv, Row
  <2>5. QED
    BY <1>2, <1>6, <2>2, <2>3, <2>4 DEF WriteRow
<1>7. QED
  BY <1>5, <1>6

LEMMA RowlessStep == LossInv /\ RowlessInv /\ [LeadLagNext]_leadLagVars => RowlessInv'
<1> SUFFICES ASSUME LossInv, RowlessInv, [LeadLagNext]_leadLagVars PROVE RowlessInv'
  OBVIOUS
<1>1. CASE WriterTake
  BY <1>1, RowlessTake
<1>2. CASE WriterFlush \/ WriterExit
  <2>1. durable \in Seq(Entry) /\ buffered \in Seq(Entry)
    BY LossFacts
  <2>2. Passed' = Passed
    BY <1>2, <2>1 DEF WriterFlush, WriterExit, Passed
  <2>3. UNCHANGED <<tradeOpen, rowless>>
    BY <1>2 DEF WriterFlush, WriterExit
  <2>4. QED
    BY <2>2, <2>3 DEF RowlessInv, IsRow, Row
<1>3. CASE ~ Writer
  <2>1. UNCHANGED <<durable, buffered, tradeOpen, rowless>>
    BY <1>3 DEF LeadLagNext, leadLagVars, FeedSignal, SessionFails, TimerFires,
       OnSignal, Worker, Take, WorkerExit, Gate, Add, Finish, Post, Main, StopPool,
       JoinPool, StopLog, JoinLog, logVars
  <2>2. Passed' = Passed
    BY <2>1 DEF Passed
  <2>3. QED
    BY <2>1, <2>2 DEF RowlessInv, IsRow, Row
<1>4. QED
  BY <1>1, <1>2, <1>3 DEF Writer

LEMMA InitRowless == LeadLagInit => RowlessInv
<1> SUFFICES ASSUME LeadLagInit PROVE RowlessInv
  OBVIOUS
<1>1. Passed = <<>> /\ rowless = {}
  BY DEF LeadLagInit, Passed
<1>2. QED
  BY <1>1 DEF RowlessInv, IsRow

\* At the end the queue is empty, no worker holds a signal, and every entry
\* is in the files.
LEMMA EndState ==
  ASSUME LossInv, mpc = "done"
  PROVE  /\ submitted = taken /\ durable = Full
         /\ \A s \in 1 .. submitted : s \in Signals /\ (s \in skipped \/ s \in Rows)
<1>1. /\ \A w \in Workers : pc[w] = "exited"
      /\ entries = <<>> /\ buffered = <<>>
  BY DEF LossInv, ShutdownInv
<1>2. queue = <<>>
  BY <1>1, LeadLagAssumption DEF LossInv, ShutdownInv
<1>3. submitted = taken
  BY <1>2, LossFacts DEF taken
<1>4. durable = Full
  BY <1>1, LossFacts DEF Full
<1>5. \A w \in Workers : ~ Held(w)
  BY <1>1 DEF Held
<1>6. QED
  BY <1>3, <1>4, <1>5, LossFacts DEF LossInv, SignalInv

(* lead_lag.cpp:507-531, 154-162, 213-218.  However the feed, the workers, *)
(* the writer and main interleave, nothing submitted is lost: at the end   *)
(* every signal was skipped or had exactly one trade row written, and the  *)
(* rows that are not on disk were written before the file could be opened. *)
THEOREM LeadLagNothingLost == LeadLagSpec => []NothingLost
<1>1. LossInv /\ RowlessInv => NothingLost
  <2>1. SUFFICES ASSUME LossInv, RowlessInv PROVE NothingLost
    OBVIOUS
  <2>2. writer = "wait" /\ entries = <<>> => buffered = <<>>
    BY <2>1 DEF LossInv, ShutdownInv
  <2>3. ASSUME mpc = "done", NEW s \in 1 .. submitted
        PROVE  /\ s \in skipped <=> posts[s] = <<>>
               /\ s \notin skipped =>
                    Cardinality({i \in DOMAIN durable :
                                   durable[i] = <<"trade", s>>}) = 1
    <3>1. durable = Full /\ s \in Signals /\ (s \in skipped \/ s \in Rows)
      BY <2>1, <2>3, EndState
    <3>2. /\ s \in skipped => posts[s] = <<>>
          /\ s \in Rows => posts[s] # <<>>
      BY <2>1 DEF LossInv, SignalInv
    <3>3. ASSUME s \notin skipped
          PROVE  Cardinality({i \in DOMAIN durable :
                                durable[i] = <<"trade", s>>}) = 1
      <4>1. PICK k \in DOMAIN Full : Full[k] = Row(s)
        BY <3>1, <3>3 DEF Rows
      <4>2. \A i \in DOMAIN Full : Full[i] = Row(s) => i = k
        BY <2>1, <3>1, <4>1 DEF LossInv, OneRow
      <4>3. {i \in DOMAIN durable : durable[i] = <<"trade", s>>} = {k}
        BY <3>1, <4>1, <4>2 DEF Row
      <4>4. QED
        BY <4>3, FS_Singleton
    <3>4. QED
      BY <3>1, <3>2, <3>3
  <2>4. ASSUME NEW i \in DOMAIN durable, NEW k \in DOMAIN durable, i < k,
               durable[i][1] = "trade", durable[k][1] = "trade",
               durable[k][2] \in rowless
        PROVE  durable[i][2] \in rowless
    <3>1. durable \in Seq(Entry) /\ buffered \in Seq(Entry)
      BY <2>1, LossFacts
    <3>2. /\ i \in DOMAIN Passed /\ Passed[i] = durable[i]
          /\ k \in DOMAIN Passed /\ Passed[k] = durable[k] /\ i \in Nat /\ k \in Nat
      BY <3>1, <2>4 DEF Passed
    <3>3. QED
      BY <2>1, <2>4, <3>2 DEF RowlessInv, IsRow
  <2>5. QED
    BY <2>2, <2>3, <2>4 DEF NothingLost
<1>2. QED
  BY <1>1, InitLossInv, NextLossInv, InitRowless, RowlessStep, PTL DEF LeadLagSpec
=============================================================================
