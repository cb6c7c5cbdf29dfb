-------------------------- MODULE SignalPathProofs --------------------------
(***************************************************************************)
(* The way of a signal from the strategy thread to the two sockets, and,   *)
(* behind the publisher's socket and in a process of its own, through the  *)
(* bridge to an order.  The two have no variable in common, and what is    *)
(* between them may lose frames.                                           *)
(***************************************************************************)
EXTENDS SignalPath, Mt5Bridge, FiniteSetTheorems, SequenceTheorems, TLAPS

-----------------------------------------------------------------------------
(* SignalPath, for every number of signals and of failed sessions.  The    *)
(* stations of a signal are sequences whose concatenation a step leaves    *)
(* alone or extends at its end; the first lemmas say how an element moves  *)
(* from one station to the next.                                           *)

(* Sequences.                                                              *)

LEMMA AppendOne ==
  ASSUME NEW s \in Seq(Nat), NEW x \in Nat
  PROVE  Append(s, x) = s \o <<x>> /\ Append(s, x) \in Seq(Nat)
<1>1. <<x>> \in Seq(Nat) /\ Len(<<x>>) = 1 /\ <<x>>[1] = x
  OBVIOUS
<1>2. /\ s \o <<x>> \in Seq(Nat) /\ Len(s \o <<x>>) = Len(s) + 1
      /\ \A i \in 1 .. Len(s) + 1 :
           (s \o <<x>>)[i] = IF i <= Len(s) THEN s[i] ELSE <<x>>[i - Len(s)]
  BY <1>1, ConcatProperties
<1>3. /\ Append(s, x) \in Seq(Nat) /\ Len(Append(s, x)) = Len(s) + 1
      /\ \A i \in 1 .. Len(s) + 1 :
           Append(s, x)[i] = IF i <= Len(s) THEN s[i] ELSE x
  OBVIOUS
<1>4. Len(s) \in Nat
  OBVIOUS
<1>5. \A i \in 1 .. Len(s) + 1 : Append(s, x)[i] = (s \o <<x>>)[i]
  BY <1>1, <1>2, <1>3, <1>4
<1>6. QED
  BY <1>2, <1>3, <1>5, SeqEqual

(* A function on 1 .. n is a sequence of length n.                         *)
LEMMA FunctionIsSeq ==
  ASSUME NEW S, NEW n \in Nat, NEW f \in [1 .. n -> S]
  PROVE  f \in Seq(S) /\ Len(f) = n
<1>1. f \in Seq(S)
  BY SeqDef
<1>2. DOMAIN f = 1 .. n /\ DOMAIN f = 1 .. Len(f) /\ Len(f) \in Nat
  BY <1>1, LenProperties
<1>3. QED
  BY <1>2

(* Appended to the last station, an element is appended to the whole.      *)
LEMMA AppendToLast ==
  ASSUME NEW a \in Seq(Nat), NEW b \in Seq(Nat), NEW x \in Nat
  PROVE  a \o Append(b, x) = Append(a \o b, x)
<1>1. <<x>> \in Seq(Nat) /\ a \o b \in Seq(Nat)
  BY ConcatProperties
<1>2. (a \o b) \o <<x>> = a \o (b \o <<x>>)
  BY <1>1, ConcatAssociative
<1>3. QED
  BY <1>1, <1>2, AppendOne

(* The front of a station goes to the end of the one before.               *)
LEMMA FrontMoves ==
  ASSUME NEW a \in Seq(Nat), NEW q \in Seq(Nat), q # <<>>
  PROVE  /\ Head(q) \in Nat /\ Tail(q) \in Seq(Nat)
         /\ Append(a, Head(q)) \o Tail(q) = a \o q
<1>1. /\ Head(q) \in Nat /\ Tail(q) \in Seq(Nat) /\ <<Head(q)>> \in Seq(Nat)
      /\ Len(<<Head(q)>>) = 1 /\ <<Head(q)>>[1] = Head(q)
      /\ Head(q) = q[1] /\ Len(q) \in Nat /\ Len(Tail(q)) = Len(q) - 1
      /\ \A i \in 1 .. Len(Tail(q)) : Tail(q)[i] = q[i + 1]
  BY HeadTailProperties
<1>2. <<Head(q)>> \o Tail(q) = q
  <2>1. /\ <<Head(q)>> \o Tail(q) \in Seq(Nat)
        /\ Len(<<Head(q)>> \o Tail(q)) = Len(q)
        /\ \A i \in 1 .. Len(q) :
             (<<Head(q)>> \o Tail(q))[i] =
               IF i <= 1 THEN <<Head(q)>>[i] ELSE Tail(q)[i - 1]
    BY <1>1, ConcatProperties
  <2>2. \A i \in 1 .. Len(q) : (<<Head(q)>> \o Tail(q))[i] = q[i]
    <3>1. SUFFICES ASSUME NEW i \in 1 .. Len(q)
                   PROVE  (<<Head(q)>> \o Tail(q))[i] = q[i]
      OBVIOUS
    <3>2. CASE i = 1
      BY <3>2, <1>1, <2>1
    <3>3. CASE i # 1
      <4>1. i - 1 \in 1 .. Len(Tail(q)) /\ ~ (i <= 1) /\ (i - 1) + 1 = i
        BY <3>3, <1>1
      <4>2. Tail(q)[i - 1] = q[(i - 1) + 1]
        BY <4>1, <1>1
      <4>3. QED
        BY <4>1, <4>2, <2>1
    <3>4. QED
      BY <3>2, <3>3
  <2>3. QED
    BY <2>1, <2>2, SeqEqual
<1>3. (a \o <<Head(q)>>) \o Tail(q) = a \o (<<Head(q)>> \o Tail(q))
  BY <1>1, ConcatAssociative
<1>4. QED
  BY <1>1, <1>2, <1>3, AppendOne

(* What Submitted becomes when one more signal is submitted.               *)
LEMMA SubmittedGrows ==
  ASSUME NEW n \in Nat
  PROVE  /\ [i \in 1 .. n |-> i] \in Seq(Nat)
         /\ Append([i \in 1 .. n |-> i], n + 1) = [i \in 1 .. n + 1 |-> i]
<1> DEFINE s == [i \in 1 .. n |-> i]
           t == [i \in 1 .. n + 1 |-> i]
<1>1. s \in Seq(Nat) /\ Len(s) = n /\ t \in Seq(Nat) /\ Len(t) = n + 1
  OBVIOUS
<1>2. /\ Append(s, n + 1) \in Seq(Nat) /\ Len(Append(s, n + 1)) = n + 1
      /\ \A i \in 1 .. n + 1 :
           Append(s, n + 1)[i] = IF i <= n THEN s[i] ELSE n + 1
  BY <1>1
<1>3. \A i \in 1 .. n + 1 : Append(s, n + 1)[i] = t[i]
  BY <1>2
<1>4. QED
  BY <1>1, <1>2, <1>3, SeqEqual

(* The orders in a list of tried ones.                                     *)
OrdersOf(tried) == [i \in DOMAIN tried |-> tried[i].order]
TriedOrders == [order : Nat, sent : BOOLEAN]

LEMMA OrdersOfTried ==
  ASSUME NEW t \in Seq(TriedOrders), NEW s \in Seq(Nat), NEW b \in BOOLEAN
  PROVE  /\ OrdersOf(t) \in Seq(Nat)
         /\ t \o Tried(s, b) \in Seq(TriedOrders)
         /\ OrdersOf(t \o Tried(s, b)) = OrdersOf(t) \o s
<1> DEFINE u == Tried(s, b)
           v == t \o u
<1>1. /\ Len(s) \in Nat /\ DOMAIN s = 1 .. Len(s)
      /\ \A i \in 1 .. Len(s) : s[i] \in Nat
      /\ Len(t) \in Nat /\ DOMAIN t = 1 .. Len(t)
      /\ \A i \in 1 .. Len(t) : t[i] \in TriedOrders
  OBVIOUS
<1>2. u \in Seq(TriedOrders) /\ Len(u) = Len(s)
      /\ \A i \in 1 .. Len(s) : u[i].order = s[i]
  <2>1. u = [i \in 1 .. Len(s) |-> [order |-> s[i], sent |-> b]]
    BY <1>1 DEF Tried
  <2>2. u \in [1 .. Len(s) -> TriedOrders]
    BY <2>1, <1>1 DEF TriedOrders
  <2>3. u \in Seq(TriedOrders) /\ Len(u) = Len(s)
    BY <2>2, <1>1, FunctionIsSeq
  <2>4. \A i \in 1 .. Len(s) : u[i].order = s[i]
    BY <2>1
  <2>5. QED
    BY <2>3, <2>4
<1> HIDE DEF u
<1>3. /\ v \in Seq(TriedOrders) /\ Len(v) = Len(t) + Len(s)
      /\ \A i \in 1 .. Len(t) + Len(s) :
           v[i] = IF i <= Len(t) THEN t[i] ELSE u[i - Len(t)]
  <2>1. /\ t \o u \in Seq(TriedOrders) /\ Len(t \o u) = Len(t) + Len(u)
        /\ \A i \in 1 .. Len(t) + Len(u) :
             (t \o u)[i] = IF i <= Len(t) THEN t[i] ELSE u[i - Len(t)]
    BY <1>2, ConcatProperties
  <2>2. QED
    BY <2>1, <1>2
<1>4. DOMAIN v = 1 .. Len(t) + Len(s) /\ \A i \in DOMAIN v : v[i] \in TriedOrders
  BY <1>3
<1> HIDE DEF v
<1>5. /\ OrdersOf(t) = [i \in 1 .. Len(t) |-> t[i].order]
      /\ OrdersOf(v) = [i \in 1 .. Len(t) + Len(s) |-> v[i].order]
  BY <1>1, <1>4 DEF OrdersOf
<1>6. /\ OrdersOf(t) \in Seq(Nat) /\ Len(OrdersOf(t)) = Len(t)
      /\ OrdersOf(v) \in Seq(Nat) /\ Len(OrdersOf(v)) = Len(t) + Len(s)
  <2>1. /\ OrdersOf(t) \in [1 .. Len(t) -> Nat]
        /\ OrdersOf(v) \in [1 .. Len(t) + Len(s) -> Nat]
    BY <1>1, <1>4, <1>5 DEF TriedOrders
  <2>2. OrdersOf(t) \in Seq(Nat) /\ Len(OrdersOf(t)) = Len(t)
    BY <2>1, <1>1, FunctionIsSeq
  <2>3. Len(t) + Len(s) \in Nat
    BY <1>1
  <2>4. OrdersOf(v) \in Seq(Nat) /\ Len(OrdersOf(v)) = Len(t) + Len(s)
    BY <2>1, <2>3, FunctionIsSeq
  <2>5. QED
    BY <2>2, <2>4
<1>7. /\ OrdersOf(t) \o s \in Seq(Nat) /\ Len(OrdersOf(t) \o s) = Len(t) + Len(s)
      /\ \A i \in 1 .. Len(t) + Len(s) :
           (OrdersOf(t) \o s)[i] =
             IF i <= Len(t) THEN OrdersOf(t)[i] ELSE s[i - Len(t)]
  <2> DEFINE o == OrdersOf(t)
  <2>1. o \in Seq(Nat) /\ Len(o) = Len(t)
    BY <1>6
  <2> HIDE DEF o
  <2>2. /\ o \o s \in Seq(Nat) /\ Len(o \o s) = Len(o) + Len(s)
        /\ \A i \in 1 .. Len(o) + Len(s) :
             (o \o s)[i] = IF i <= Len(o) THEN o[i] ELSE s[i - Len(o)]
    BY <2>1, ConcatProperties
  <2>3. QED
    BY <2>1, <2>2 DEF o
<1>8. \A i \in 1 .. Len(t) + Len(s) : OrdersOf(v)[i] = (OrdersOf(t) \o s)[i]
  <2>1. SUFFICES ASSUME NEW i \in 1 .. Len(t) + Len(s)
                 PROVE  OrdersOf(v)[i] = (OrdersOf(t) \o s)[i]
    OBVIOUS
  <2>2. CASE i <= Len(t)
    BY <2>2, <1>1, <1>3, <1>5, <1>7
  <2>3. CASE ~ (i <= Len(t))
    <3>1. i - Len(t) \in 1 .. Len(s)
      BY <2>3, <1>1
    <3>2. u[i - Len(t)].order = s[i - Len(t)]
      BY <3>1, <1>2
    <3>3. QED
      BY <3>2, <2>3, <1>3, <1>5, <1>7
  <2>4. QED
    BY <2>2, <2>3
<1>9. OrdersOf(v) = OrdersOf(t) \o s
  BY <1>6, <1>7, <1>8, SeqEqual
<1>10. QED
  BY <1>3, <1>6, <1>9 DEF u, v

-----------------------------------------------------------------------------
(* Types.                                                                  *)

\* The dispatcher holds one signal at most.
TypeInv == TypeOK /\ Len(inflight) <= 1

LEMMA ReaderNames == Readers = {"broker", "deribit", "fast"}
<1>1. DOMAIN StopOrder = {1, 2, 3}
  BY DEF StopOrder
<1>2. StopOrder[1] = "broker" /\ StopOrder[2] = "deribit" /\ StopOrder[3] = "fast"
  BY DEF StopOrder
<1>3. QED
  BY <1>1, <1>2 DEF Readers

LEMMA InitTypeInv == Init => TypeInv
<1> SUFFICES ASSUME Init PROVE TypeInv
  OBVIOUS
<1>1. 0 \in 0 .. MaxSignals /\ 0 \in 0 .. MaxFixFaults
  BY MaxSignalsAssumption, MaxFixFaultsAssumption
<1>2. /\ {execQueue, inflight, pubQueue, batch, sent} \subseteq Seq(Nat)
      /\ Len(inflight) <= 1
  BY DEF Init
<1>3. FixTypeOK
  <2>1. /\ {fixQueue, fixLocal} \subseteq Seq(Nat) /\ fixLocal = <<>>
        /\ fixTried \in Seq([order : Nat, sent : BOOLEAN])
    BY DEF Init, FixInit
  <2>2. QED
    BY <1>1, <2>1 DEF Init, FixInit, FixTypeOK
<1>4. QED
  BY <1>1, <1>2, <1>3 DEF Init, TypeInv, TypeOK

(* The conjuncts of TypeInv that a step of the dispatcher or the publisher *)
(* disturbs.                                                               *)
LEMMA Stations ==
  ASSUME TypeInv
  PROVE  /\ execQueue \in Seq(Nat) /\ inflight \in Seq(Nat)
         /\ pubQueue \in Seq(Nat) /\ batch \in Seq(Nat) /\ sent \in Seq(Nat)
         /\ fixQueue \in Seq(Nat) /\ fixLocal \in Seq(Nat)
         /\ fixTried \in Seq(TriedOrders)
         /\ emitted \in Nat
         /\ exec \in {"publish", "fix"} =>
              inflight[1] \in Nat /\ inflight = <<inflight[1]>>
         /\ exec \notin {"publish", "fix"} => inflight = <<>>
<1>1. /\ execQueue \in Seq(Nat) /\ inflight \in Seq(Nat)
      /\ pubQueue \in Seq(Nat) /\ batch \in Seq(Nat) /\ sent \in Seq(Nat)
      /\ fixQueue \in Seq(Nat) /\ fixLocal \in Seq(Nat)
      /\ fixTried \in Seq(TriedOrders)
      /\ Len(inflight) <= 1
      /\ exec \in {"publish", "fix"} <=> inflight # <<>>
  BY DEF TypeInv, TypeOK, FixTypeOK, TriedOrders
<1>2. emitted \in Nat
  BY MaxSignalsAssumption DEF TypeInv, TypeOK
<1>3. CASE inflight # <<>>
  <2> DEFINE n == Len(inflight)
  <2>1. n = 1
    <3>1. n \in Nat
      BY <1>1, LenProperties
    <3>2. n # 0
      BY <1>1, <1>3, EmptySeq
    <3>3. n <= 1
      BY DEF TypeInv
    <3> HIDE DEF n
    <3>4. QED
      BY <3>1, <3>2, <3>3
  <2>2. inflight[1] \in Nat /\ <<inflight[1]>> \in Seq(Nat)
        /\ Len(<<inflight[1]>>) = 1
    <3>1. inflight \in Seq(Nat) /\ 1 \in 1 .. Len(inflight)
      BY <1>1, <2>1
    <3>2. inflight[1] \in Nat
      BY <3>1, ElementOfSeq
    <3>3. QED
      BY <3>2
  <2>3. \A i \in 1 .. 1 : inflight[i] = <<inflight[1]>>[i]
    OBVIOUS
  <2>4. inflight = <<inflight[1]>>
    BY <1>1, <2>1, <2>2, <2>3, SeqEqual
  <2>5. QED
    BY <1>1, <1>2, <1>3, <2>2, <2>4
<1>4. QED
  BY <1>1, <1>2, <1>3

LEMMA StrategyTypes == ASSUME TypeInv, StrategyThread PROVE TypeInv'
<1>1. CASE StrategyTop \/ StrategyHold
  BY <1>1 DEF StrategyTop, StrategyHold, TypeInv, TypeOK, FixTypeOK, execVars,
     pubVars, fixVars
<1>2. CASE StrategySubmit
  <2>1. execQueue' \in Seq(Nat)
    BY <1>2, Stations, AppendOne DEF StrategySubmit
  <2>2. emitted' \in 0 .. MaxSignals
    BY <1>2, MaxSignalsAssumption DEF StrategySubmit, TypeInv, TypeOK
  <2>3. QED
    BY <1>2, <2>1, <2>2 DEF StrategySubmit, TypeInv, TypeOK, FixTypeOK, pubVars,
       fixVars
<1>3. QED
  BY <1>1, <1>2 DEF StrategyThread

LEMMA DispatcherTypes == ASSUME TypeInv, Dispatcher PROVE TypeInv'
<1>1. CASE DispatchTop \/ DispatchNone
  BY <1>1 DEF DispatchTop, DispatchNone, TypeInv, TypeOK, FixTypeOK,
     strategyVars, pubVars, fixVars
<1>2. CASE DispatchPop
  <2>1. Head(execQueue) \in Nat /\ execQueue' \in Seq(Nat)
    BY <1>2, Stations, FrontMoves DEF DispatchPop
  <2>2. /\ inflight' \in Seq(Nat) /\ Len(inflight') <= 1 /\ inflight' # <<>>
    BY <1>2, <2>1 DEF DispatchPop
  <2>3. QED
    BY <1>2, <2>1, <2>2 DEF DispatchPop, TypeInv, TypeOK, FixTypeOK,
       strategyVars, pubVars, fixVars
<1>3. CASE DispatchPublish
  <2>1. pubQueue' \in Seq(Nat)
    BY <1>3, Stations, AppendOne DEF DispatchPublish
  <2>2. QED
    BY <1>3, <2>1 DEF DispatchPublish, TypeInv, TypeOK, FixTypeOK, strategyVars,
       fixVars
<1>4. CASE DispatchFix
  <2>1. inflight' \in Seq(Nat) /\ Len(inflight') <= 1 /\ inflight' = <<>>
    BY <1>4 DEF DispatchFix
  <2>2. FixTypeOK'
    <3>1. inflight[1] \in Nat
      BY <1>4, Stations DEF DispatchFix
    <3>2. fixQueue' \in Seq(Nat)
      <4>1. fixQueue' \in {fixQueue, Append(fixQueue, inflight[1])}
        BY <1>4 DEF DispatchFix, SendIfEnabled, SendOrder, fixVars
      <4>2. fixQueue \in Seq(Nat)
        BY Stations
      <4>3. QED
        BY <3>1, <4>1, <4>2, AppendOne
    <3>3. QED
      BY <1>4, <3>2 DEF DispatchFix, SendIfEnabled, SendOrder, fixVars, TypeInv,
         TypeOK, FixTypeOK
  <2>3. QED
    BY <1>4, <2>1, <2>2 DEF DispatchFix, TypeInv, TypeOK, strategyVars, pubVars
<1>5. QED
  BY <1>1, <1>2, <1>3, <1>4 DEF Dispatcher

LEMMA PublisherTypes == ASSUME TypeInv, Publisher PROVE TypeInv'
<1>1. CASE PubStart \/ PubTop
  BY <1>1 DEF PubStart, PubTop, TypeInv, TypeOK, FixTypeOK, strategyVars,
     execVars, fixVars
<1>2. CASE PubDrain
  <2>1. batch' \in Seq(Nat) /\ pubQueue' \in Seq(Nat)
    BY <1>2, Stations DEF PubDrain
  <2>2. QED
    BY <1>2, <2>1 DEF PubDrain, TypeInv, TypeOK, FixTypeOK, strategyVars,
       execVars, fixVars
<1>3. CASE PubSend
  <2>1. batch # <<>>
    BY <1>3 DEF PubSend, TypeInv, TypeOK
  <2>2. batch' \in Seq(Nat) /\ sent' \in Seq(Nat)
    BY <1>3, <2>1, Stations, FrontMoves, AppendOne DEF PubSend
  <2>3. QED
    BY <1>3, <2>2 DEF PubSend, TypeInv, TypeOK, FixTypeOK, strategyVars,
       execVars, fixVars
<1>4. QED
  BY <1>1, <1>2, <1>3 DEF Publisher

LEMMA FixTypes == ASSUME TypeInv, FixSession PROVE FixTypeOK'
<1>1. FixTypeOK /\ MaxFixFaults \in Nat
  BY MaxFixFaultsAssumption DEF TypeInv, TypeOK
<1>2. CASE FixTest \/ FixClose \/ FixBackoff \/ FixBatchDone
  BY <1>1, <1>2 DEF FixTest, FixClose, FixBackoff, FixBatchDone, CloseSocket,
     FixTypeOK
<1>f. fixFaults' = fixFaults \/ Fault => fixFaults' \in 0 .. MaxFixFaults
  BY <1>1 DEF Fault, FixTypeOK
<1>s. fixQueue \in Seq(Nat) /\ fixLocal \in Seq(Nat)
      /\ fixTried \in Seq(TriedOrders)
  BY Stations
<1>3. CASE FixConnect \/ FixLogon \/ FixBeat
  <2>1. fixFaults' = fixFaults \/ Fault
    BY <1>3 DEF FixConnect, FixLogon, FixBeat
  <2>2. CASE FixConnect
    BY <1>1, <1>f, <2>1, <2>2 DEF FixConnect, FixTypeOK
  <2>3. CASE FixLogon
    BY <1>1, <1>f, <2>1, <2>3 DEF FixLogon, FixTypeOK
  <2>4. CASE FixBeat
    BY <1>1, <1>f, <2>1, <2>4 DEF FixBeat, FixTypeOK
  <2>5. QED
    BY <1>3, <2>2, <2>3, <2>4
<1>4. CASE FixSwap
  <2>1. CASE fixRunning /\ fixConnected
    <3>1. fixLocal' = fixQueue /\ fixQueue' = <<>> /\ fix' = "send"
      BY <1>4, <2>1 DEF FixSwap
    <3>2. fixLocal' \in Seq(Nat) /\ fixQueue' \in Seq(Nat)
      BY <3>1, <1>s
    <3>3. QED
      BY <1>1, <1>4, <3>1, <3>2 DEF FixSwap, FixTypeOK
  <2>2. CASE ~ (fixRunning /\ fixConnected)
    BY <1>1, <1>4, <2>2 DEF FixSwap, FixTypeOK
  <2>3. QED
    BY <2>1, <2>2
<1>5. CASE FixSend
  <2>1. /\ Head(fixLocal) \in Nat /\ Tail(fixLocal) \in Seq(Nat)
        /\ <<Head(fixLocal)>> \in Seq(Nat)
    BY <1>5, Stations, FrontMoves DEF FixSend
  <2>2. fixTried' \in Seq(TriedOrders)
    BY <1>5, <1>s, <2>1, OrdersOfTried DEF FixSend
  <2>3. fixLocal' \in Seq(Nat)
    <3>1. fixLocal' \in {Tail(fixLocal), <<>>}
      BY <1>5 DEF FixSend
    <3>2. <<>> \in Seq(Nat)
      OBVIOUS
    <3>3. QED
      BY <2>1, <3>1, <3>2
  <2>4. fixFaults' \in 0 .. MaxFixFaults
    <3>1. fixFaults' = fixFaults \/ Fault
      BY <1>5 DEF FixSend
    <3>2. QED
      BY <3>1, <1>f
  <2>5. QED
    BY <1>1, <1>5, <2>2, <2>3, <2>4 DEF FixSend, FixTypeOK, TriedOrders
<1>6. QED
  BY <1>2, <1>3, <1>4, <1>5 DEF FixSession

LEMMA MainTypes ==
  ASSUME TypeInv, OnSignal \/ Finish \/ Main \/ \E r \in Readers : ReaderExit(r)
  PROVE  TypeInv'
<1>1. CASE OnSignal
  BY <1>1 DEF OnSignal, TypeInv, TypeOK, FixTypeOK, strategyVars, execVars,
     pubVars, fixVars
<1>2. CASE LeaveRun \/ StopTelemetry \/ Finish
  <2>1. mpc' \in Readers \cup {"telemetry", "done"}
    BY <1>2, ReaderNames DEF LeaveRun, StopTelemetry, Finish, StopOrder
  <2>2. UNCHANGED <<gShutdown, reader, strategyVars, execVars, pubVars, fixVars>>
    BY <1>2 DEF LeaveRun, StopTelemetry, Finish
  <2>3. QED
    BY <2>1, <2>2 DEF TypeInv, TypeOK, FixTypeOK, strategyVars, execVars,
       pubVars, fixVars
<1>3. CASE \E r \in Readers : StopReader(r) \/ ReaderExit(r)
  <2>1. reader' \in [Readers -> {"running", "stopping", "exited"}]
    BY <1>3 DEF StopReader, ReaderExit, TypeInv, TypeOK
  <2>2. UNCHANGED <<gShutdown, strategyVars, execVars, pubVars, fixVars, mpc>>
    BY <1>3 DEF StopReader, ReaderExit
  <2>3. QED
    BY <2>1, <2>2 DEF TypeInv, TypeOK, FixTypeOK, strategyVars, execVars,
       pubVars, fixVars
<1>4. CASE \E r \in Readers : JoinReader(r)
  <2>1. mpc' \in Readers \cup {"strategy"}
    BY <1>4, ReaderNames DEF JoinReader
  <2>2. QED
    BY <1>4, <2>1 DEF JoinReader, TypeInv, TypeOK, FixTypeOK, strategyVars,
       execVars, pubVars, fixVars
<1>5. CASE StopExec
  BY <1>5 DEF StopExec, TypeInv, TypeOK, FixTypeOK, strategyVars, pubVars, fixVars
<1>6. CASE StopFix \/ StopFixCloses
  <2>1. UNCHANGED <<gShutdown, reader, spc, emitted, execQueue, exec, execStop,
                    inflight, pub, pubStop, pubQueue, batch, sent>>
    BY <1>6 DEF StopFix, StopFixCloses, strategyVars, execVars, pubVars
  <2>2. UNCHANGED <<fix, fixQueue, fixLocal, fixTried, fixFaults>>
    BY <1>6 DEF StopFix, StopFixCloses, FixStop
  <2>3. /\ {fixRunning', fixFd', fixConnected'} \subseteq BOOLEAN
        /\ mpc' \in {"fix", "fixJoin"}
    BY <1>6 DEF StopFix, StopFixCloses, FixStop, CloseSocket, TypeInv, TypeOK,
       FixTypeOK
  <2>4. FixTypeOK'
    BY <2>2, <2>3 DEF TypeInv, TypeOK, FixTypeOK
  <2>5. QED
    BY <2>1, <2>3, <2>4 DEF TypeInv, TypeOK
<1>7. CASE StopPub
  BY <1>7 DEF StopPub, TypeInv, TypeOK, FixTypeOK, strategyVars, execVars, fixVars
<1>8. QED
  BY <1>1, <1>2, <1>3, <1>4, <1>5, <1>6, <1>7 DEF Main

LEMMA TypeStep == TypeInv /\ [Next]_vars => TypeInv'
<1> SUFFICES ASSUME TypeInv, [Next]_vars PROVE TypeInv'
  OBVIOUS
<1>1. CASE FixThread
  <2>1. FixTypeOK'
    BY <1>1, FixTypes DEF FixThread
  <2>2. QED
    BY <1>1, <2>1 DEF FixThread, TypeInv, TypeOK, strategyVars, execVars, pubVars
<1>2. CASE UNCHANGED vars
  BY <1>2 DEF vars, TypeInv, TypeOK, FixTypeOK, strategyVars, execVars, pubVars,
     fixVars
<1>3. QED
  BY <1>1, <1>2, StrategyTypes, DispatcherTypes, PublisherTypes, MainTypes
  DEF Next

-----------------------------------------------------------------------------
(* The two lines on which the signals stand, and the invariant.            *)

Held == IF exec = "publish" THEN inflight ELSE <<>>
FixHeld == IF exec = "fix" THEN inflight ELSE <<>>
FixLine == OrdersOf(fixTried) \o fixLocal \o fixQueue

PathInv == TypeInv /\ SignalsConserved /\ FixOrdersAccounted

LEMMA LineTypes ==
  ASSUME TypeInv
  PROVE  /\ Published \in Seq(Nat) /\ sent \o batch \in Seq(Nat)
         /\ Held \in Seq(Nat) /\ FixHeld \in Seq(Nat)
         /\ Published \o Held \in Seq(Nat)
         /\ OrdersOf(fixTried) \in Seq(Nat)
         /\ OrdersOf(fixTried) \o fixLocal \in Seq(Nat)
         /\ FixLine \in Seq(Nat)
<1>1. /\ pubQueue \in Seq(Nat) /\ batch \in Seq(Nat) /\ sent \in Seq(Nat)
      /\ fixQueue \in Seq(Nat) /\ fixLocal \in Seq(Nat) /\ inflight \in Seq(Nat)
      /\ fixTried \in Seq(TriedOrders) /\ <<>> \in Seq(Nat)
  BY Stations
<1>2. sent \o batch \in Seq(Nat)
  BY <1>1, ConcatProperties
<1>3. Published \in Seq(Nat)
  BY <1>1, <1>2, ConcatProperties DEF Published
<1>4. Held \in Seq(Nat) /\ FixHeld \in Seq(Nat)
  BY <1>1 DEF Held, FixHeld
<1>5. Published \o Held \in Seq(Nat)
  BY <1>3, <1>4, ConcatProperties
<1>6. OrdersOf(fixTried) \in Seq(Nat)
  BY <1>1, OrdersOfTried
<1>7. OrdersOf(fixTried) \o fixLocal \in Seq(Nat)
  BY <1>1, <1>6, ConcatProperties
<1>8. FixLine \in Seq(Nat)
  BY <1>1, <1>7, ConcatProperties DEF FixLine
<1>9. QED
  BY <1>2, <1>3, <1>4, <1>5, <1>6, <1>7, <1>8

(* PathInv in terms of the lines.                                          *)
LEMMA PathLines ==
  PathInv <=> /\ TypeInv
              /\ Published \o Held \o execQueue = Submitted
              /\ FixEnabled => FixLine \o FixHeld = Published
BY DEF PathInv, TypeInv, SignalsConserved, FixOrdersAccounted, Held, FixHeld,
   FixLine, OrdersOf

LEMMA PathLinesNext ==
  ASSUME TypeInv',
         Published' \o Held' \o execQueue' = Submitted',
         FixEnabled => FixLine' \o FixHeld' = Published'
  PROVE  PathInv'
BY DEF PathInv, TypeInv, SignalsConserved, FixOrdersAccounted, Held, FixHeld,
   FixLine, OrdersOf

LEMMA InitPathInv == Init => PathInv
<1> SUFFICES ASSUME Init PROVE PathInv
  OBVIOUS
<1>1. /\ sent = <<>> /\ batch = <<>> /\ pubQueue = <<>> /\ execQueue = <<>>
      /\ fixTried = <<>> /\ fixLocal = <<>> /\ fixQueue = <<>>
      /\ Held = <<>> /\ FixHeld = <<>> /\ emitted = 0
  BY DEF Init, FixInit, Held, FixHeld
<1>2. <<>> \o <<>> = <<>>
  OBVIOUS
<1>3. Published = <<>> /\ Published \o Held \o execQueue = <<>>
  BY <1>1, <1>2 DEF Published
<1>4. Submitted = <<>>
  <2>1. DOMAIN Submitted = {}
    BY <1>1 DEF Submitted
  <2>2. Submitted \in Seq(Nat) /\ Len(Submitted) = 0
    BY <1>1, SubmittedGrows DEF Submitted
  <2>3. QED
    BY <2>2, EmptySeq
<1>5. OrdersOf(fixTried) = <<>>
  <2>1. fixTried \in Seq(TriedOrders) /\ OrdersOf(fixTried) \in Seq(Nat)
    BY InitTypeInv, Stations, LineTypes
  <2>2. DOMAIN OrdersOf(fixTried) = {} /\ OrdersOf(fixTried) = [i \in {} |-> 0]
    BY <1>1 DEF OrdersOf
  <2>3. QED
    BY <2>2
<1>6. FixLine \o FixHeld = <<>>
  BY <1>1, <1>2, <1>5 DEF FixLine
<1>7. QED
  BY InitTypeInv, <1>3, <1>4, <1>6, PathLines

-----------------------------------------------------------------------------
(* The steps that move a signal.                                           *)

LEMMA SubmitPath == ASSUME PathInv, TypeInv', StrategySubmit PROVE PathInv'
<1> DEFINE n == emitted + 1
           a == Published \o Held
<1>1. /\ TypeInv /\ a \o execQueue = Submitted
      /\ FixEnabled => FixLine \o FixHeld = Published
  BY PathLines
<1>2. /\ execQueue' = Append(execQueue, n) /\ emitted' = n
      /\ Published' = Published /\ Held' = Held /\ FixHeld' = FixHeld
      /\ FixLine' = FixLine
  BY DEF StrategySubmit, Published, Held, FixHeld, FixLine, OrdersOf, pubVars,
     fixVars
<1>3. /\ a \in Seq(Nat) /\ execQueue \in Seq(Nat) /\ emitted \in Nat /\ n \in Nat
  BY <1>1, Stations, LineTypes
<1> HIDE DEF a
<1>4. a \o execQueue' = Append(Submitted, n)
  BY <1>1, <1>2, <1>3, AppendToLast
<1>5. Append(Submitted, n) = Submitted'
  BY <1>2, <1>3, SubmittedGrows DEF Submitted
<1>6. QED
  BY <1>1, <1>2, <1>4, <1>5, PathLinesNext DEF a

LEMMA PopPath == ASSUME PathInv, TypeInv', DispatchPop PROVE PathInv'
<1> DEFINE p == Published
<1>1. /\ TypeInv /\ p \o Held \o execQueue = Submitted
      /\ FixEnabled => FixLine \o FixHeld = p
  BY PathLines
<1>2. /\ execQueue # <<>> /\ execQueue' = Tail(execQueue)
      /\ Published' = p /\ Submitted' = Submitted
      /\ Held = <<>> /\ Held' = <<Head(execQueue)>>
      /\ FixHeld' = FixHeld /\ FixLine' = FixLine
  BY DEF DispatchPop, Published, Submitted, Held, FixHeld, FixLine, OrdersOf,
     strategyVars, pubVars, fixVars
<1>3. p \in Seq(Nat) /\ execQueue \in Seq(Nat)
  BY <1>1, Stations, LineTypes
<1> HIDE DEF p
<1>4. /\ Head(execQueue) \in Nat
      /\ Append(p, Head(execQueue)) \o Tail(execQueue) = p \o execQueue
  BY <1>2, <1>3, FrontMoves
<1>5. p \o Held' \o execQueue' = p \o execQueue
  BY <1>2, <1>3, <1>4, AppendOne
<1>6. p \o Held = p
  BY <1>2, <1>3, ConcatEmptySeq
<1>7. Published' \o Held' \o execQueue' = Submitted'
  BY <1>1, <1>2, <1>5, <1>6
<1>8. QED
  BY <1>1, <1>2, <1>7, PathLinesNext

LEMMA PublishPath == ASSUME PathInv, TypeInv', DispatchPublish PROVE PathInv'
<1> DEFINE p == Published
           x == inflight[1]
<1>1. /\ TypeInv /\ p \o Held \o execQueue = Submitted
      /\ FixEnabled => FixLine \o FixHeld = p
  BY PathLines
<1>2. /\ x \in Nat /\ inflight = <<x>> /\ exec = "publish"
      /\ p \in Seq(Nat) /\ FixLine \in Seq(Nat) /\ sent \o batch \in Seq(Nat)
      /\ pubQueue \in Seq(Nat)
  BY <1>1, Stations, LineTypes DEF DispatchPublish
<1>3. /\ pubQueue' = Append(pubQueue, x) /\ UNCHANGED <<sent, batch, inflight>>
      /\ execQueue' = execQueue /\ Submitted' = Submitted
      /\ Held = <<x>> /\ Held' = <<>> /\ FixHeld = <<>> /\ FixHeld' = <<x>>
      /\ FixLine' = FixLine
  BY <1>2 DEF DispatchPublish, Submitted, Held, FixHeld, FixLine, OrdersOf,
     strategyVars, fixVars
<1>4. Published' = Append(p, x)
  BY <1>2, <1>3, AppendToLast DEF Published
<1>5. Append(p, x) = p \o <<x>> /\ Append(p, x) \in Seq(Nat)
  BY <1>2, AppendOne
<1>6. Published' \o Held' = p \o Held
  BY <1>3, <1>4, <1>5, ConcatEmptySeq
<1>7. FixEnabled => FixLine' \o FixHeld' = Published'
  BY <1>1, <1>2, <1>3, <1>4, <1>5, ConcatEmptySeq
<1>8. QED
  BY <1>1, <1>3, <1>6, <1>7, PathLinesNext

LEMMA FixPath == ASSUME PathInv, TypeInv', DispatchFix PROVE PathInv'
<1> DEFINE x == inflight[1]
           tl == OrdersOf(fixTried) \o fixLocal
<1>1. /\ TypeInv /\ Published \o Held \o execQueue = Submitted
      /\ FixEnabled => FixLine \o FixHeld = Published
  BY PathLines
<1>2. /\ x \in Nat /\ inflight = <<x>> /\ exec = "fix"
      /\ tl \in Seq(Nat) /\ FixLine \in Seq(Nat) /\ fixQueue \in Seq(Nat)
  BY <1>1, Stations, LineTypes DEF DispatchFix
<1>3. /\ Published' = Published /\ execQueue' = execQueue
      /\ Submitted' = Submitted /\ Held' = Held
      /\ FixHeld = <<x>> /\ FixHeld' = <<>>
  BY <1>2 DEF DispatchFix, Published, Submitted, Held, FixHeld, strategyVars,
     pubVars
<1>4. ASSUME FixEnabled PROVE FixLine' \o FixHeld' = Published'
  <2>1. FixLine' = tl \o Append(fixQueue, x)
    BY <1>4 DEF DispatchFix, SendIfEnabled, SendOrder, FixLine, OrdersOf
  <2>2. FixLine' = Append(FixLine, x)
    BY <1>2, <2>1, AppendToLast DEF FixLine
  <2>3. /\ Append(FixLine, x) = FixLine \o FixHeld
        /\ Append(FixLine, x) \in Seq(Nat)
    BY <1>2, <1>3, AppendOne
  <2>4. QED
    BY <1>1, <1>3, <1>4, <2>2, <2>3, ConcatEmptySeq
<1>5. QED
  BY <1>1, <1>3, <1>4, PathLinesNext

(* A step that leaves the lines alone.                                     *)
LEMMA SamePath ==
  ASSUME PathInv, TypeInv', UNCHANGED <<emitted, execQueue>>,
         Published' = Published, Held' = Held, FixHeld' = FixHeld,
         FixLine' = FixLine
  PROVE  PathInv'
<1>1. Submitted' = Submitted
  BY DEF Submitted
<1>2. QED
  BY <1>1, PathLines, PathLinesNext

(* The publisher moves messages towards the socket, in order.              *)
LEMMA PublisherMoves == ASSUME TypeInv, Publisher PROVE Published' = Published
<1>1. /\ sent \in Seq(Nat) /\ batch \in Seq(Nat) /\ pubQueue \in Seq(Nat)
  BY Stations
<1>2. CASE PubStart \/ PubTop
  BY <1>2 DEF PubStart, PubTop, Published
<1>3. CASE PubDrain
  <2>1. batch = <<>>
    BY <1>3 DEF PubDrain, TypeInv, TypeOK
  <2>2. sent' = sent /\ batch' = pubQueue /\ pubQueue' = <<>>
    BY <1>3 DEF PubDrain
  <2>3. sent \o batch = sent /\ sent \o pubQueue \in Seq(Nat)
    BY <1>1, <2>1, ConcatEmptySeq, ConcatProperties
  <2>4. QED
    BY <2>2, <2>3, ConcatEmptySeq DEF Published
<1>4. CASE PubSend
  <2>1. batch # <<>>
    BY <1>4 DEF PubSend, TypeInv, TypeOK
  <2>2. /\ sent' = Append(sent, Head(batch)) /\ batch' = Tail(batch)
        /\ pubQueue' = pubQueue
    BY <1>4 DEF PubSend
  <2>3. QED
    BY <1>1, <2>1, <2>2, FrontMoves DEF Published
<1>5. QED
  BY <1>2, <1>3, <1>4 DEF Publisher

LEMMA PublisherPath == ASSUME PathInv, TypeInv', Publisher PROVE PathInv'
<1>1. /\ TypeInv
      /\ UNCHANGED <<emitted, execQueue>>
      /\ Held' = Held /\ FixHeld' = FixHeld /\ FixLine' = FixLine
  BY PathLines
  DEF Publisher, PubStart, PubTop, PubDrain, PubSend, Held, FixHeld, FixLine,
      OrdersOf, strategyVars, execVars, fixVars
<1>2. QED
  BY <1>1, PublisherMoves, SamePath

LEMMA FixThreadPath == ASSUME PathInv, TypeInv', FixThread PROVE PathInv'
<1>1. /\ TypeInv /\ FixSession
      /\ UNCHANGED <<emitted, execQueue>>
      /\ Published' = Published /\ Held' = Held /\ FixHeld' = FixHeld
  BY PathLines
  DEF FixThread, Published, Held, FixHeld, strategyVars, execVars, pubVars
<1>2. /\ fixQueue \in Seq(Nat) /\ fixLocal \in Seq(Nat)
      /\ fixTried \in Seq(TriedOrders) /\ OrdersOf(fixTried) \in Seq(Nat)
  BY <1>1, Stations, LineTypes
<1>3. CASE FixTest \/ FixConnect \/ FixLogon \/ FixClose \/ FixBackoff
           \/ FixBatchDone \/ FixBeat
  <2>1. UNCHANGED <<fixTried, fixLocal, fixQueue>>
    BY <1>3 DEF FixTest, FixConnect, FixLogon, FixClose, FixBackoff,
       FixBatchDone, FixBeat
  <2>2. QED
    BY <1>1, <2>1, SamePath DEF FixLine, OrdersOf
<1>4. CASE FixSwap
  <2>1. fixLocal = <<>>
    BY <1>1, <1>4 DEF FixSwap, TypeInv, TypeOK, FixTypeOK
  <2>2. fixTried' = fixTried
        /\ \/ fixLocal' = fixQueue /\ fixQueue' = <<>>
           \/ UNCHANGED <<fixLocal, fixQueue>>
    BY <1>4 DEF FixSwap
  <2>3. /\ OrdersOf(fixTried) \o fixLocal = OrdersOf(fixTried)
        /\ OrdersOf(fixTried) \o fixQueue \in Seq(Nat)
    BY <1>2, <2>1, ConcatEmptySeq, ConcatProperties
  <2>4. FixLine' = FixLine
    BY <2>2, <2>3, ConcatEmptySeq DEF FixLine, OrdersOf
  <2>5. QED
    BY <1>1, <2>4, SamePath
<1>5. CASE FixSend
  <2>1. fixLocal # <<>> /\ fixQueue' = fixQueue
    BY <1>5 DEF FixSend
  <2>2. CASE /\ fixTried' = fixTried \o Tried(<<Head(fixLocal)>>, TRUE)
             /\ fixLocal' = Tail(fixLocal)
    <3>1. Head(fixLocal) \in Nat /\ <<Head(fixLocal)>> \in Seq(Nat)
      BY <1>2, <2>1, FrontMoves
    <3>2. OrdersOf(fixTried') = OrdersOf(fixTried) \o <<Head(fixLocal)>>
      BY <1>2, <2>2, <3>1, OrdersOfTried
    <3> DEFINE t == OrdersOf(fixTried)
    <3>3. OrdersOf(fixTried') \o fixLocal' = OrdersOf(fixTried) \o fixLocal
      <4>1. t \in Seq(Nat)
        BY <1>2
      <4>2. OrdersOf(fixTried') = t \o <<Head(fixLocal)>>
        BY <3>2
      <4> HIDE DEF t
      <4>3. Append(t, Head(fixLocal)) = t \o <<Head(fixLocal)>>
        BY <3>1, <4>1, AppendOne
      <4>4. Append(t, Head(fixLocal)) \o Tail(fixLocal) = t \o fixLocal
        BY <1>2, <2>1, <4>1, FrontMoves
      <4>5. OrdersOf(fixTried') \o fixLocal' = t \o fixLocal
        BY <2>2, <4>2, <4>3, <4>4
      <4>6. QED
        BY <4>5 DEF t
    <3>4. FixLine' = FixLine
      BY <2>1, <3>3 DEF FixLine, OrdersOf
    <3>5. QED
      BY <1>1, <3>4, SamePath
  <2>3. CASE fixTried' = fixTried \o Tried(fixLocal, FALSE) /\ fixLocal' = <<>>
    <3>1. OrdersOf(fixTried') = OrdersOf(fixTried) \o fixLocal
      BY <1>2, <2>3, OrdersOfTried
    <3>2. OrdersOf(fixTried) \o fixLocal \in Seq(Nat)
      BY <1>2, ConcatProperties
    <3>3. OrdersOf(fixTried') \o fixLocal' = OrdersOf(fixTried) \o fixLocal
      BY <2>3, <3>1, <3>2, ConcatEmptySeq
    <3>4. FixLine' = FixLine
      BY <2>1, <3>3 DEF FixLine, OrdersOf
    <3>5. QED
      BY <1>1, <3>4, SamePath
  <2>4. QED
    BY <1>5, <2>2, <2>3 DEF FixSend
<1>6. QED
  BY <1>1, <1>3, <1>4, <1>5 DEF FixSession

(* The steps that move no signal.                                          *)
LEMMA IdlePath ==
  ASSUME PathInv, TypeInv',
         \/ StrategyTop \/ StrategyHold \/ DispatchTop \/ DispatchNone
         \/ OnSignal \/ Finish \/ Main \/ UNCHANGED vars
         \/ \E r \in Readers : ReaderExit(r)
  PROVE  PathInv'
<1>1. UNCHANGED <<emitted, execQueue, inflight, sent, batch, pubQueue, fixTried,
                  fixLocal, fixQueue>>
  BY DEF StrategyTop, StrategyHold, DispatchTop, DispatchNone, OnSignal, Main,
     LeaveRun, StopReader, JoinReader, StopExec, StopFix, FixStop,
     StopFixCloses, StopPub, StopTelemetry, Finish, ReaderExit,
     vars, strategyVars, execVars,
     pubVars, fixVars
<1>2. Held' = Held /\ FixHeld' = FixHeld
  BY <1>1 DEF StrategyTop, StrategyHold, DispatchTop, DispatchNone, OnSignal,
     Main, LeaveRun, StopReader, JoinReader, StopExec, StopFix, StopFixCloses,
     StopPub, StopTelemetry, Finish, ReaderExit, vars, execVars, Held, FixHeld
<1>3. Published' = Published /\ FixLine' = FixLine
  BY <1>1 DEF Published, FixLine, OrdersOf
<1>4. QED
  BY <1>1, <1>2, <1>3, SamePath

LEMMA PathStep == PathInv /\ [Next]_vars => PathInv'
<1> SUFFICES ASSUME PathInv, [Next]_vars PROVE PathInv'
  OBVIOUS
<1>1. TypeInv'
  BY TypeStep DEF PathInv
<1>2. CASE StrategyThread
  BY <1>1, <1>2, SubmitPath, IdlePath DEF StrategyThread
<1>3. CASE Dispatcher
  BY <1>1, <1>3, PopPath, PublishPath, FixPath, IdlePath DEF Dispatcher
<1>4. CASE Publisher
  BY <1>1, <1>4, PublisherPath
<1>5. CASE FixThread
  BY <1>1, <1>5, FixThreadPath
<1>6. CASE OnSignal \/ Finish \/ Main \/ UNCHANGED vars \/ \E r \in Readers : ReaderExit(r)
  BY <1>1, <1>6, IdlePath
<1>7. QED
  BY <1>2, <1>3, <1>4, <1>5, <1>6 DEF Next

(* execution.cpp:34-64, zmq_pub.cpp:65-137.  No submitted signal is lost,  *)
(* duplicated or reordered between the strategy thread and the publisher's *)
(* socket, whatever the threads' interleaving and the stage of shutdown.   *)
THEOREM PathSignalsConserved == Spec => []SignalsConserved
<1>1. PathInv => SignalsConserved
  BY DEF PathInv
<1>2. QED
  BY InitPathInv, PathStep, <1>1, PTL DEF Spec

(* execution.cpp:60-61, fix_client.cpp:137-196.  The FIX client is given   *)
(* exactly what the publisher is, and each order waits, is in the batch or *)
(* was tried once, over any number of sessions.                            *)
THEOREM PathFixOrdersAccounted == Spec => []FixOrdersAccounted
<1>1. PathInv => FixOrdersAccounted
  BY DEF PathInv
<1>2. QED
  BY InitPathInv, PathStep, <1>1, PTL DEF Spec

-----------------------------------------------------------------------------
(* The stop order.                                                         *)

(* main joins a thread before it tells the next part to stop, so that the  *)
(* flag of a part says that the thread in front of it has ended.           *)
StopInv ==
  /\ execStop => spc = "exited"
  /\ ~ fixRunning => exec = "exited"
  /\ pubStop => fix = "exited" /\ ~ fixRunning
  /\ mpc \in {"fix", "fixJoin", "zmq", "telemetry", "done"} => ~ fixRunning
  /\ pubStop => mpc \in {"zmq", "telemetry", "done"}

LEMMA InitStopInv == Init => StopInv
BY DEF Init, FixInit, StopInv

(* A thread that has ended takes no step.                                  *)
LEMMA StopStep == TypeInv /\ StopInv /\ [Next]_vars => StopInv'
<1> SUFFICES ASSUME TypeInv, StopInv, [Next]_vars PROVE StopInv'
  OBVIOUS
<1> USE DEF StopInv
<1>1. CASE OnSignal \/ Finish \/ \E r \in Readers : ReaderExit(r)
  BY <1>1 DEF OnSignal, Finish, ReaderExit, strategyVars, execVars, pubVars, fixVars
<1>2. CASE StrategyThread
  BY <1>2
  DEF StrategyThread, StrategyTop, StrategyHold, StrategySubmit, execVars,
      pubVars, fixVars
<1>3. CASE Dispatcher
  <2>1. exec # "exited" /\ fixRunning /\ ~ pubStop
    BY <1>3 DEF Dispatcher, DispatchTop, DispatchNone, DispatchPop,
       DispatchPublish, DispatchFix
  <2>2. UNCHANGED <<spc, execStop, pubStop, fixRunning, mpc>>
    BY <1>3 DEF Dispatcher, DispatchTop, DispatchNone, DispatchPop,
       DispatchPublish, DispatchFix, SendIfEnabled, SendOrder, strategyVars,
       pubVars, fixVars
  <2>3. QED
    BY <2>1, <2>2
<1>4. CASE Publisher
  BY <1>4
  DEF Publisher, PubStart, PubTop, PubDrain, PubSend, strategyVars, execVars,
      fixVars
<1>5. CASE FixThread
  <2>1. fix # "exited" /\ fixRunning' = fixRunning
    BY <1>5
    DEF FixThread, FixSession, FixTest, FixConnect, FixLogon, FixClose,
        FixBackoff, FixSwap, FixSend, FixBatchDone, FixBeat
  <2>2. UNCHANGED <<spc, execStop, exec, pubStop, mpc>>
    BY <1>5 DEF FixThread, strategyVars, execVars, pubVars
  <2>3. QED
    BY <2>1, <2>2
<1>6. CASE Main
  <2>1. CASE LeaveRun
    BY <2>1 DEF LeaveRun, StopOrder, strategyVars, execVars, pubVars, fixVars
  <2>2. CASE \E r \in Readers : StopReader(r) \/ JoinReader(r)
    BY <2>2, ReaderNames
    DEF StopReader, JoinReader, strategyVars, execVars, pubVars, fixVars
  <2>3. CASE StopExec
    BY <2>3 DEF StopExec, strategyVars, pubVars, fixVars
  <2>4. CASE StopFix
    BY <2>4 DEF StopFix, FixStop, strategyVars, execVars, pubVars
  <2>5. CASE StopFixCloses
    BY <2>5 DEF StopFixCloses, strategyVars, execVars, pubVars
  <2>6. CASE StopPub
    BY <2>6 DEF StopPub, strategyVars, execVars, fixVars
  <2>7. CASE StopTelemetry
    BY <2>7 DEF StopTelemetry, strategyVars, execVars, pubVars, fixVars
  <2>8. QED
    BY <1>6, <2>1, <2>2, <2>3, <2>4, <2>5, <2>6, <2>7 DEF Main
<1>7. CASE UNCHANGED vars
  BY <1>7 DEF vars, strategyVars, execVars, pubVars, fixVars
<1>8. QED
  BY <1>1, <1>2, <1>3, <1>4, <1>5, <1>6, <1>7 DEF Next

LEMMA StopClosesStep ==
  ASSUME TypeInv, StopInv, [Next]_vars
  PROVE  /\ execStop => emitted' = emitted
         /\ ~ fixRunning => Published' = Published
         /\ pubStop => UNCHANGED fixVars
<1>1. ASSUME execStop PROVE emitted' = emitted
  <2>1. spc = "exited"
    BY <1>1 DEF StopInv
  <2>2. ~ StrategyThread
    BY <2>1 DEF StrategyThread, StrategyTop, StrategyHold, StrategySubmit
  <2>3. QED
    BY <2>2
    DEF Next, vars, OnSignal, ReaderExit, Dispatcher, DispatchTop, DispatchNone,
        DispatchPop, DispatchPublish, DispatchFix, FixThread, Publisher,
        PubStart, PubTop, PubDrain, PubSend, Main, LeaveRun, StopReader,
        JoinReader, StopExec, StopFix, StopFixCloses, StopPub, StopTelemetry,
        Finish,
        strategyVars
<1>2. ASSUME ~ fixRunning PROVE Published' = Published
  <2>1. exec = "exited"
    BY <1>2 DEF StopInv
  <2>2. ~ Dispatcher
    BY <2>1 DEF Dispatcher, DispatchTop, DispatchNone, DispatchPop,
       DispatchPublish, DispatchFix
  <2>3. CASE Publisher
    BY <2>3, PublisherMoves
  <2>4. CASE ~ Publisher
    <3>1. UNCHANGED <<sent, batch, pubQueue>>
      BY <2>2, <2>4
      DEF Next, vars, OnSignal, ReaderExit, StrategyThread, StrategyTop,
          StrategyHold, StrategySubmit, FixThread, Main, LeaveRun, StopReader,
          JoinReader, StopExec, StopFix, StopFixCloses, StopPub, StopTelemetry,
          Finish, pubVars
    <3>2. QED
      BY <3>1 DEF Published
  <2>5. QED
    BY <2>3, <2>4
<1>3. ASSUME pubStop PROVE UNCHANGED fixVars
  <2>1. /\ fix = "exited" /\ exec = "exited" /\ mpc \in {"zmq", "telemetry", "done"}
    BY <1>3 DEF StopInv
  <2>2. ~ Dispatcher /\ ~ FixThread
    BY <2>1
    DEF Dispatcher, DispatchTop, DispatchNone, DispatchPop, DispatchPublish,
        DispatchFix, FixThread, FixSession, FixTest, FixConnect, FixLogon,
        FixClose, FixBackoff, FixSwap, FixSend, FixBatchDone, FixBeat
  <2>3. ~ StopFix /\ ~ StopFixCloses
    BY <2>1 DEF StopFix, StopFixCloses
  <2>4. QED
    BY <2>2, <2>3
    DEF Next, vars, OnSignal, ReaderExit, StrategyThread, StrategyTop,
        StrategyHold, StrategySubmit, Publisher, PubStart, PubTop, PubDrain,
        PubSend, Main, LeaveRun, StopReader, JoinReader, StopExec, StopPub,
        StopTelemetry, Finish
<1>4. QED
  BY <1>1, <1>2, <1>3

(* main.cpp:177-181.  The stop order closes the path from the front: a     *)
(* part that is told to stop has nothing more coming to it, in whatever    *)
(* state the other threads are.                                            *)
THEOREM PathStopOrderCloses == Spec => StopOrderClosesPath
<1>1. TypeInv /\ StopInv /\ [Next]_vars =>
        [/\ execStop => emitted' = emitted
         /\ ~ fixRunning => Published' = Published
         /\ pubStop => UNCHANGED fixVars]_vars
  BY StopClosesStep
<1>2. QED
  BY InitTypeInv, TypeStep, InitStopInv, StopStep, <1>1, PTL
  DEF Spec, StopOrderClosesPath

-----------------------------------------------------------------------------
(* Mt5Bridge: what the bridge does with its two flags and with every       *)
(* frame, for every number of frames, calls of start() and size of the     *)
(* socket's queue.                                                         *)

Steps == {"setup", "top", "recv", "dll", "socket"}

(* Between start() and stop() running_ is up and stopped_ is down, which   *)
(* is why the loop does not end; only stop() raises stopped_, and only a   *)
(* thread that saw it closes.                                              *)
FlagInv ==
  /\ owner \in {"out", "in", "stopping"}
  /\ thread \in Steps \cup {"none", "close"}
  /\ setupFailed \in BOOLEAN
  /\ owner = "in" =>
       /\ bridgeRunning /\ ~ stopped
       /\ thread \in (IF setupFailed THEN {"none"} ELSE Steps)
  /\ owner = "out" => thread = "none" /\ ~ bridgeRunning /\ ~ setupFailed
  /\ setupFailed => thread = "none"

LEMMA InitFlagInv == BridgeInit => FlagInv
BY DEF BridgeInit, FlagInv, Steps

LEMMA NextFlagInv == FlagInv /\ [BridgeNext]_bridgeVars => FlagInv'
<1> SUFFICES ASSUME FlagInv, [BridgeNext]_bridgeVars PROVE FlagInv'
  OBVIOUS
<1> USE DEF FlagInv, Steps
<1>1. CASE BridgeStart
  BY <1>1 DEF BridgeStart
<1>2. CASE BridgeStop
  BY <1>2 DEF BridgeStop
<1>3. CASE StopReturns
  BY <1>3 DEF StopReturns
<1>4. CASE Publish
  BY <1>4 DEF Publish
<1>5. CASE Run
  <2>1. CASE SetupSucceeds
    BY <2>1 DEF SetupSucceeds
  <2>2. CASE SetupFails
    BY <2>2 DEF SetupFails
  <2>3. CASE Top
    BY <2>3 DEF Top
  <2>4. CASE RecvTimesOut
    BY <2>4 DEF RecvTimesOut
  <2>5. CASE Recv
    BY <2>5 DEF Recv
  <2>6. CASE TryDll
    BY <2>6 DEF TryDll
  <2>7. CASE TrySocket
    BY <2>7 DEF TrySocket
  <2>8. CASE Close
    BY <2>8 DEF Close
  <2>9. QED
    BY <1>5, <2>1, <2>2, <2>3, <2>4, <2>5, <2>6, <2>7, <2>8 DEF Run
<1>6. CASE UNCHANGED bridgeVars
  BY <1>6 DEF bridgeVars
<1>7. QED
  BY <1>1, <1>2, <1>3, <1>4, <1>5, <1>6 DEF BridgeNext

(* mt5_bridge.cpp:59-89.  Between start() and stop() the thread listens,   *)
(* also after a restart, unless its setup failed.                          *)
THEOREM Mt5ListensUnlessSetupFailed == BridgeSpec => []ListensUnlessSetupFailed
<1>1. FlagInv => ListensUnlessSetupFailed
  BY DEF FlagInv, Steps, ListensUnlessSetupFailed
<1>2. QED
  BY <1>1, InitFlagInv, NextFlagInv, PTL DEF BridgeSpec

-----------------------------------------------------------------------------
(* Where the frames are.                                                   *)

Placed == {orders[i].frame : i \in DOMAIN orders}
Waiting == {pipe[i] : i \in DOMAIN pipe}
InHand == IF thread \in {"dll", "socket"} THEN {sig} ELSE {}

Frames == 1 .. published
OrderSet == [frame : Frames, by : {"dll", "failing dll", "socket"}]

FrameTypes ==
  /\ published \in Nat /\ sig \in 0 .. published
  /\ {dll, bridgeRunning, stopped, setupFailed} \subseteq BOOLEAN
  /\ pipe \in Seq(Frames) /\ Len(pipe) <= PipeLimit
  /\ orders \in Seq(OrderSet)
  /\ unplaced \subseteq Frames /\ gone \subseteq Frames
  /\ thread \in {"dll", "socket"} => sig \in Frames

OrdersOrdered ==
  \A i, j \in DOMAIN orders :
    i < j => \/ orders[i].frame < orders[j].frame
             \/ /\ orders[i].frame = orders[j].frame
                /\ orders[i].by = "failing dll" /\ orders[j].by = "socket"

(* The frame in hand is behind every order and before the frames that      *)
(* wait; only a failing DLL has made it an order already.                  *)
OrderInv ==
  /\ \A i, j \in DOMAIN pipe : i < j => pipe[i] < pipe[j]
  /\ \A i \in DOMAIN pipe : sig < pipe[i]
  /\ \A i \in DOMAIN orders :
       /\ orders[i].frame <= sig
       /\ thread = "dll" => orders[i].frame < sig
       /\ thread = "socket" /\ orders[i].frame = sig =>
            i = Len(orders) /\ orders[i].by = "failing dll"

\* The places are disjoint, but for the frame in hand, which may be placed.
PlaceInv ==
  /\ Frames = Placed \cup Waiting \cup InHand \cup unplaced \cup gone
  /\ \A f \in unplaced : f <= sig /\ f \notin Placed /\ f \notin InHand
  /\ \A f \in gone :
       f \notin Placed /\ f \notin Waiting /\ f \notin InHand /\ f \notin unplaced

FramesInv == FlagInv /\ FrameTypes /\ OrdersOrdered /\ OrderInv /\ PlaceInv

LEMMA InitFramesInv == BridgeInit => FramesInv
<1>1. SUFFICES ASSUME BridgeInit PROVE FramesInv
  OBVIOUS
<1>2. pipe = <<>> /\ orders = <<>> /\ DOMAIN pipe = {} /\ DOMAIN orders = {}
      /\ Len(pipe) = 0
  BY <1>1 DEF BridgeInit
<1>3. Frames = {} /\ Placed = {} /\ Waiting = {} /\ InHand = {}
  BY <1>1, <1>2 DEF BridgeInit, Frames, Placed, Waiting, InHand
<1>4. FrameTypes
  <2>1. PipeLimit >= 0 /\ 0 \in 0 .. 0
    BY Mt5BridgeAssumption
  <2>2. pipe \in Seq(Frames) /\ orders \in Seq(OrderSet)
    BY <1>2
  <2>3. {dll, bridgeRunning, stopped, setupFailed} \subseteq BOOLEAN
    BY <1>1 DEF BridgeInit
  <2>4. QED
    BY <1>1, <1>2, <2>1, <2>2, <2>3 DEF BridgeInit, FrameTypes
<1>5. OrdersOrdered /\ OrderInv /\ PlaceInv
  BY <1>1, <1>2, <1>3 DEF BridgeInit, OrdersOrdered, OrderInv, PlaceInv
<1>6. QED
  BY <1>1, <1>4, <1>5, InitFlagInv DEF FramesInv

\* A step that moves no frame, and no thread to or from a frame in hand.
LEMMA QuietStep ==
  ASSUME FramesInv, FlagInv',
         UNCHANGED <<dll, sig, pipe, published, orders, unplaced, gone>>,
         {bridgeRunning', stopped', setupFailed'} \subseteq BOOLEAN,
         \/ thread' = thread
         \/ thread \notin {"dll", "socket"} /\ thread' \notin {"dll", "socket"}
  PROVE  FramesInv'
<1>1. /\ Frames' = Frames /\ OrderSet' = OrderSet /\ Placed' = Placed
      /\ Waiting' = Waiting /\ InHand' = InHand
  BY DEF Frames, OrderSet, Placed, Waiting, InHand
<1>2. FrameTypes'
  BY <1>1 DEF FramesInv, FrameTypes
<1>3. OrdersOrdered' /\ OrderInv'
  BY DEF FramesInv, OrdersOrdered, OrderInv
<1>4. PlaceInv'
  BY <1>1 DEF FramesInv, PlaceInv
<1>5. QED
  BY <1>2, <1>3, <1>4 DEF FramesInv

\* What the types say of the elements.
LEMMA FrameFacts ==
  ASSUME FramesInv
  PROVE  /\ published \in Nat /\ sig \in Nat /\ sig <= published
         /\ Len(pipe) \in Nat /\ DOMAIN pipe = 1 .. Len(pipe)
         /\ Len(orders) \in Nat /\ DOMAIN orders = 1 .. Len(orders)
         /\ \A i \in DOMAIN pipe :
              /\ pipe[i] \in Nat /\ pipe[i] <= published
              /\ sig < pipe[i]
         /\ \A i \in DOMAIN orders : orders[i].frame \in Nat /\ orders[i].frame <= sig
         /\ \A f \in Placed : f \in Nat /\ f <= sig
         /\ \A f \in Waiting : f \in Nat /\ f <= published /\ sig < f
         /\ \A f \in InHand : f = sig
<1>1. /\ published \in Nat /\ sig \in 0 .. published
      /\ pipe \in Seq(Frames) /\ orders \in Seq(OrderSet)
  BY DEF FramesInv, FrameTypes
<1>2. ASSUME NEW i \in DOMAIN pipe
      PROVE  pipe[i] \in Nat /\ pipe[i] <= published /\ sig < pipe[i]
  <2>1. pipe[i] \in Frames
    BY <1>1
  <2>2. sig < pipe[i]
    BY DEF FramesInv, OrderInv
  <2>3. QED
    BY <1>1, <2>1, <2>2 DEF Frames
<1>3. ASSUME NEW i \in DOMAIN orders
      PROVE  orders[i].frame \in Nat /\ orders[i].frame <= sig
  <2>1. orders[i] \in OrderSet
    BY <1>1
  <2>2. orders[i].frame \in Frames
    BY <2>1 DEF OrderSet
  <2>3. orders[i].frame <= sig
    BY DEF FramesInv, OrderInv
  <2>4. QED
    BY <1>1, <2>2, <2>3 DEF Frames
<1>4. QED
  BY <1>1, <1>2, <1>3 DEF Placed, Waiting, InHand

-----------------------------------------------------------------------------
(* A frame is published: it waits in the socket or is lost.                *)

LEMMA PublishStep ==
  ASSUME FramesInv, FlagInv', Publish
  PROVE  FramesInv'
<1> DEFINE n == published + 1
<1>1. /\ published' = n /\ published \in Nat /\ n \in Nat
      /\ UNCHANGED <<dll, bridgeRunning, stopped, thread, sig, setupFailed, orders, unplaced>>
  BY FrameFacts DEF Publish
<1>2. Frames' = Frames \cup {n} /\ n \notin Frames
  BY <1>1 DEF Frames
<1>3. Placed' = Placed /\ InHand' = InHand /\ OrdersOrdered'
  BY <1>1 DEF FramesInv, Placed, InHand, OrdersOrdered
<1>4. /\ \A f \in Placed \cup Waiting \cup InHand \cup unplaced \cup gone : f # n
      /\ sig < n
  <2>1. sig \in Nat /\ sig <= published
    BY FrameFacts
  <2>2. Placed \cup Waiting \cup InHand \cup unplaced \cup gone = Frames
    BY DEF FramesInv, PlaceInv
  <2>3. QED
    BY <1>1, <1>2, <2>1, <2>2
<1>5. /\ sig' \in 0 .. published' /\ orders' \in Seq(OrderSet')
      /\ {dll', bridgeRunning', stopped', setupFailed'} \subseteq BOOLEAN
      /\ unplaced' \subseteq Frames'
      /\ thread' \in {"dll", "socket"} => sig' \in Frames'
  <2>1. sig \in 0 .. published /\ orders \in Seq(OrderSet)
    BY DEF FramesInv, FrameTypes
  <2>2. OrderSet \subseteq OrderSet'
    BY <1>2 DEF OrderSet
  <2>3. orders \in Seq(OrderSet')
    BY <2>1, <2>2
  <2>4. QED
    BY <1>1, <1>2, <2>1, <2>3 DEF FramesInv, FrameTypes
<1> HIDE DEF n
<1>6. CASE /\ Len(pipe) < PipeLimit /\ pipe' = Append(pipe, n) /\ gone' = gone
  <2>1. /\ pipe \in Seq(Frames) /\ Len(pipe) <= PipeLimit
    BY DEF FramesInv, FrameTypes
  <2>2. pipe \in Seq(Frames') /\ n \in Frames'
    BY <1>2, <2>1
  <2>3. pipe' \in Seq(Frames') /\ Len(pipe') = Len(pipe) + 1
    BY <1>6, <2>2
  <2>4. FrameTypes'
    BY <1>1, <1>2, <1>5, <1>6, <2>1, <2>3, Mt5BridgeAssumption
       DEF FramesInv, FrameTypes
  <2>5. /\ DOMAIN pipe' = 1 .. Len(pipe) + 1 /\ pipe'[Len(pipe) + 1] = n
        /\ \A i \in 1 .. Len(pipe) : pipe'[i] = pipe[i]
    BY <1>6, <2>2
  <2>6. Waiting' = Waiting \cup {n}
    BY <2>1, <2>5, FrameFacts DEF Waiting
  <2>7. ASSUME NEW i \in DOMAIN pipe'
        PROVE  /\ sig < pipe'[i]
               /\ \A j \in DOMAIN pipe' : i < j => pipe'[i] < pipe'[j]
    <3>1. CASE i = Len(pipe) + 1
      BY <1>4, <2>5, <3>1, FrameFacts
    <3>2. CASE i \in 1 .. Len(pipe)
      <4>1. pipe'[i] = pipe[i] /\ pipe[i] \in Nat /\ pipe[i] <= published
            /\ sig < pipe[i]
        BY <2>5, <3>2, FrameFacts
      <4>2. ASSUME NEW j \in DOMAIN pipe', i < j
            PROVE  pipe'[i] < pipe'[j]
        <5>1. CASE j = Len(pipe) + 1
          BY <1>1, <2>5, <4>1, <5>1 DEF n
        <5>2. CASE j \in 1 .. Len(pipe)
          BY <2>5, <3>2, <4>1, <4>2, <5>2, FrameFacts DEF FramesInv, OrderInv
        <5>3. QED
          BY <2>5, <5>1, <5>2, FrameFacts
      <4>3. QED
        BY <4>1, <4>2
    <3>3. QED
      BY <2>5, <3>1, <3>2, FrameFacts
  <2>8. OrderInv'
    BY <1>1, <2>7 DEF FramesInv, OrderInv
  <2>9. PlaceInv'
    BY <1>1, <1>2, <1>3, <1>4, <1>6, <2>6 DEF FramesInv, PlaceInv
  <2>10. QED
    BY <1>3, <2>4, <2>8, <2>9 DEF FramesInv
<1>7. CASE gone' = gone \cup {n} /\ pipe' = pipe
  <2>1. Waiting' = Waiting
    BY <1>7 DEF Waiting
  <2>2. FrameTypes'
    <3>1. pipe \in Seq(Frames) /\ Len(pipe) <= PipeLimit
      BY DEF FramesInv, FrameTypes
    <3>2. pipe \in Seq(Frames')
      BY <1>2, <3>1
    <3>3. QED
      BY <1>1, <1>2, <1>5, <1>7, <3>1, <3>2 DEF FramesInv, FrameTypes
  <2>3. OrderInv'
    BY <1>1, <1>7 DEF FramesInv, OrderInv
  <2>4. PlaceInv'
    BY <1>1, <1>2, <1>3, <1>4, <1>7, <2>1 DEF FramesInv, PlaceInv
  <2>5. QED
    BY <1>3, <2>2, <2>3, <2>4 DEF FramesInv
<1>8. QED
  BY <1>1, <1>6, <1>7 DEF Publish

-----------------------------------------------------------------------------
(* A frame is received: it is refused or taken in hand.                    *)

LEMMA RecvStep ==
  ASSUME FramesInv, FlagInv', Recv
  PROVE  FramesInv'
<1> DEFINE h == Head(pipe)
           rest == Tail(pipe)
           m == Len(pipe)
<1>1. /\ pipe # <<>> /\ pipe' = rest /\ thread = "recv"
      /\ UNCHANGED <<dll, bridgeRunning, stopped, setupFailed, published, orders, unplaced>>
  BY DEF Recv
<1>2. pipe \in Seq(Frames) /\ m \in Nat \ {0} /\ m <= PipeLimit /\ DOMAIN pipe = 1 .. m
  BY <1>1 DEF FramesInv, FrameTypes
<1>3. /\ h = pipe[1] /\ rest \in Seq(Frames) /\ DOMAIN rest = 1 .. m - 1
      /\ Len(rest) = m - 1
      /\ \A i \in 1 .. m - 1 : rest[i] = pipe[i + 1]
  BY <1>1, <1>2
<1> HIDE DEF h, rest, m
<1>4. 1 \in 1 .. m /\ \A i \in 1 .. m - 1 : i \in 1 .. m /\ i + 1 \in 1 .. m
  BY <1>2
<1>5. /\ h \in Nat /\ h <= published /\ sig < h /\ h \in Waiting /\ h \in Frames
  <2>1. h \in Frames /\ h \in Waiting
    BY <1>2, <1>3, <1>4 DEF Waiting
  <2>2. QED
    BY <2>1, FrameFacts
<1>6. \A i \in 1 .. m - 1 : rest[i] \in Nat /\ h < rest[i]
  <2>1. SUFFICES ASSUME NEW i \in 1 .. m - 1 PROVE rest[i] \in Nat /\ h < rest[i]
    OBVIOUS
  <2>2. i + 1 \in 1 .. m /\ 1 \in 1 .. m /\ 1 < i + 1
    BY <1>2, <1>4
  <2>3. pipe[1] < pipe[i + 1] /\ pipe[i + 1] \in Nat
    BY <1>2, <2>2, FrameFacts DEF FramesInv, OrderInv
  <2>4. QED
    BY <1>3, <2>3
<1>7. Waiting' = Waiting \ {h}
  <2>1. ASSUME NEW i \in 1 .. m
        PROVE  pipe[i] = h \/ \E k \in 1 .. m - 1 : rest[k] = pipe[i]
    <3>1. CASE i = 1
      BY <1>3, <3>1
    <3>2. CASE i # 1
      <4>1. i - 1 \in 1 .. m - 1 /\ (i - 1) + 1 = i
        BY <1>2, <3>2
      <4>2. QED
        BY <1>3, <4>1
    <3>3. QED
      BY <3>1, <3>2
  <2>2. \A k \in 1 .. m - 1 : rest[k] # h
    BY <1>5, <1>6
  <2>3. \A k \in 1 .. m - 1 : rest[k] \in Waiting
    BY <1>2, <1>3, <1>4 DEF Waiting
  <2>4. Waiting = {pipe[i] : i \in 1 .. m} /\ Waiting' = {rest[k] : k \in 1 .. m - 1}
    BY <1>1, <1>2, <1>3 DEF Waiting
  <2>5. QED
    BY <2>1, <2>2, <2>3, <2>4
<1>8. /\ Frames' = Frames /\ OrderSet' = OrderSet /\ Placed' = Placed
      /\ OrdersOrdered' /\ InHand = {}
  BY <1>1 DEF FramesInv, Frames, OrderSet, Placed, OrdersOrdered, InHand
<1>9. pipe' \in Seq(Frames) /\ Len(pipe') <= PipeLimit
  BY <1>1, <1>2, <1>3, Mt5BridgeAssumption
<1>10. \A i, j \in DOMAIN pipe' : i < j => pipe'[i] < pipe'[j]
  <2>1. SUFFICES ASSUME NEW i \in 1 .. m - 1, NEW j \in 1 .. m - 1, i < j
                 PROVE  rest[i] < rest[j]
    BY <1>1, <1>3
  <2>2. i + 1 \in 1 .. m /\ j + 1 \in 1 .. m /\ i + 1 < j + 1
    BY <1>2, <2>1
  <2>3. pipe[i + 1] < pipe[j + 1]
    BY <1>2, <2>2 DEF FramesInv, OrderInv
  <2>4. QED
    BY <1>3, <2>3
<1>11. CASE thread' = "top" /\ gone' = gone \cup {h} /\ sig' = sig
  <2>1. FrameTypes'
    BY <1>1, <1>5, <1>8, <1>9, <1>11 DEF FramesInv, FrameTypes
  <2>2. OrderInv'
    <3>1. \A i \in DOMAIN pipe' : sig' < pipe'[i]
      BY <1>1, <1>3, <1>5, <1>6, <1>11, FrameFacts
    <3>2. QED
      BY <1>1, <1>10, <1>11, <3>1 DEF FramesInv, OrderInv
  <2>3. InHand' = {}
    BY <1>11 DEF InHand
  <2>4. h \notin Placed /\ h \notin unplaced
    <3>1. \A f \in Placed : f <= sig /\ f \in Nat
      BY FrameFacts
    <3>2. \A f \in unplaced : f <= sig
      BY DEF FramesInv, PlaceInv
    <3>3. sig \in Nat /\ ~(h <= sig)
      BY <1>5, FrameFacts
    <3>4. QED
      BY <3>1, <3>2, <3>3
  <2>5. PlaceInv'
    BY <1>1, <1>5, <1>7, <1>8, <1>11, <2>3, <2>4 DEF FramesInv, PlaceInv
  <2>6. QED
    BY <1>8, <2>1, <2>2, <2>5 DEF FramesInv
<1>12. CASE thread' = "dll" /\ sig' = h /\ gone' = gone
  <2>1. FrameTypes'
    <3>1. sig' \in 0 .. published'
      BY <1>1, <1>5, <1>12, FrameFacts
    <3>2. QED
      BY <1>1, <1>5, <1>8, <1>9, <1>12, <3>1 DEF FramesInv, FrameTypes
  <2>2. \A i \in DOMAIN orders : orders[i].frame <= h /\ orders[i].frame < h
    <3>1. sig \in Nat
      BY FrameFacts
    <3>2. QED
      BY <1>5, <3>1, FrameFacts
  <2>3. OrderInv'
    <3>1. \A i \in DOMAIN pipe' : sig' < pipe'[i]
      BY <1>1, <1>3, <1>6, <1>12
    <3>2. QED
      BY <1>1, <1>10, <1>12, <2>2, <3>1 DEF OrderInv
  <2>4. InHand' = {h}
    BY <1>12 DEF InHand
  <2>5. \A f \in unplaced : f <= h /\ f # h
    <3>1. unplaced \subseteq Nat /\ sig \in Nat
      BY FrameFacts DEF FramesInv, FrameTypes, Frames
    <3>2. \A f \in unplaced : f <= sig
      BY DEF FramesInv, PlaceInv
    <3>3. QED
      BY <1>5, <3>1, <3>2
  <2>6. PlaceInv'
    BY <1>1, <1>5, <1>7, <1>8, <1>12, <2>4, <2>5 DEF FramesInv, PlaceInv
  <2>7. QED
    BY <1>8, <2>1, <2>3, <2>6 DEF FramesInv
<1>13. QED
  BY <1>11, <1>12 DEF Recv, h

-----------------------------------------------------------------------------
(* The frame in hand becomes an order, or fails on both paths.             *)

\* One more order for the frame in hand.
LEMMA AppendOrder ==
  ASSUME NEW e
  PROVE  /\ FramesInv /\ thread \in {"dll", "socket"}
         /\ e \in OrderSet /\ e.frame = sig
         /\ thread = "socket" => e.by = "socket"
         /\ orders' = Append(orders, e)
         /\ UNCHANGED <<published, sig>>
         => /\ orders' \in Seq(OrderSet')
            /\ Placed' = Placed \cup {sig}
            /\ OrdersOrdered'
            /\ \A i \in DOMAIN orders' : orders'[i].frame <= sig
            /\ thread = "dll" => \A i \in DOMAIN orders' :
                 orders'[i].frame = sig =>
                   i = Len(orders') /\ orders'[i].by = e.by
<1> DEFINE n == Len(orders)
           p == orders'
<1>1. SUFFICES ASSUME FramesInv, thread \in {"dll", "socket"},
                      e \in OrderSet, e.frame = sig,
                      thread = "socket" => e.by = "socket",
                      p = Append(orders, e), UNCHANGED <<published, sig>>
               PROVE  /\ p \in Seq(OrderSet')
                      /\ Placed' = Placed \cup {sig}
                      /\ OrdersOrdered'
                      /\ \A i \in DOMAIN p : p[i].frame <= sig
                      /\ thread = "dll" => \A i \in DOMAIN p :
                           p[i].frame = sig => i = Len(p) /\ p[i].by = e.by
  OBVIOUS
<1>2. orders \in Seq(OrderSet) /\ OrderSet' = OrderSet /\ e \in OrderSet
  BY <1>1 DEF FramesInv, FrameTypes, OrderSet, Frames
<1>3. n \in Nat /\ DOMAIN orders = 1 .. n /\ sig \in Nat
  BY <1>1, FrameFacts
<1>4. /\ p \in Seq(OrderSet) /\ Len(p) = n + 1 /\ DOMAIN p = 1 .. n + 1
      /\ p[n + 1] = e
      /\ \A i \in 1 .. n : p[i] = orders[i]
  BY <1>1, <1>2
<1>5. ASSUME NEW i \in 1 .. n
      PROVE  /\ p[i].frame \in Nat /\ p[i].frame <= sig
             /\ p[i].frame = sig =>
                  thread = "socket" /\ i = n /\ p[i].by = "failing dll"
  <2>1. p[i] = orders[i] /\ i \in DOMAIN orders
    BY <1>3, <1>4
  <2>2. orders[i].frame \in Nat /\ orders[i].frame <= sig
    BY <1>1, <2>1, FrameFacts
  <2>3. /\ thread = "dll" => orders[i].frame < sig
        /\ thread = "socket" /\ orders[i].frame = sig =>
             i = n /\ orders[i].by = "failing dll"
    BY <1>1, <2>1 DEF FramesInv, OrderInv
  <2>4. thread = "dll" \/ thread = "socket"
    BY <1>1
  <2> DEFINE f == orders[i].frame
  <2> HIDE DEF f
  <2>5. thread = "dll" => f # sig
    <3>1. f \in Nat /\ (thread = "dll" => f < sig)
      BY <2>2, <2>3 DEF f
    <3>2. QED
      BY <1>3, <3>1
  <2>6. f = sig => thread = "socket" /\ i = n /\ orders[i].by = "failing dll"
    BY <2>3, <2>4, <2>5 DEF f
  <2>7. QED
    BY <2>1, <2>2, <2>6 DEF f
<1>6. Placed' = Placed \cup {sig}
  BY <1>1, <1>3, <1>4 DEF Placed
<1> HIDE DEF n, p
<1>7. OrdersOrdered'
  <2>1. SUFFICES ASSUME NEW i \in 1 .. n + 1, NEW j \in 1 .. n + 1, i < j
                 PROVE  \/ p[i].frame < p[j].frame
                        \/ /\ p[i].frame = p[j].frame
                           /\ p[i].by = "failing dll" /\ p[j].by = "socket"
    BY <1>4 DEF OrdersOrdered, p
  <2>2. i \in 1 .. n /\ (j \in 1 .. n \/ j = n + 1)
    BY <1>3, <2>1
  <2>3. CASE j \in 1 .. n
    <3>1. p[i] = orders[i] /\ p[j] = orders[j] /\ i \in DOMAIN orders /\ j \in DOMAIN orders
      BY <1>3, <1>4, <2>2, <2>3
    <3>2. QED
      BY <1>1, <2>1, <3>1 DEF FramesInv, OrdersOrdered
  <2>4. CASE j = n + 1
    <3>1. p[j].frame = sig /\ p[j].by = e.by
      BY <1>1, <1>4, <2>4
    <3>2. CASE p[i].frame = sig
      BY <1>1, <1>5, <2>2, <3>1, <3>2
    <3>3. CASE p[i].frame # sig
      <4> DEFINE f == p[i].frame
      <4>1. f \in Nat /\ f <= sig /\ f # sig
        BY <1>5, <2>2, <3>3
      <4> HIDE DEF f
      <4>2. f < sig
        BY <1>3, <4>1
      <4>3. QED
        BY <3>1, <4>2 DEF f
    <3>4. QED
      BY <3>2, <3>3
  <2>5. QED
    BY <2>2, <2>3, <2>4
<1>8. ASSUME NEW i \in 1 .. n + 1
      PROVE  /\ p[i].frame <= sig
             /\ thread = "dll" /\ p[i].frame = sig => i = n + 1 /\ p[i].by = e.by
  <2>1. CASE i = n + 1
    BY <1>1, <1>3, <1>4, <2>1
  <2>2. CASE i \in 1 .. n
    BY <1>5, <2>2
  <2>3. QED
    BY <1>3, <2>1, <2>2
<1>9. QED
  BY <1>2, <1>4, <1>6, <1>7, <1>8

\* The step leaves the socket and the lost frames alone.
LEMMA OrderStep ==
  ASSUME FramesInv, FlagInv', thread \in {"dll", "socket"},
         UNCHANGED <<dll, bridgeRunning, stopped, sig, setupFailed, pipe, published,
                     unplaced, gone>>,
         NEW e \in OrderSet, e.frame = sig,
         thread = "socket" => e.by = "socket",
         orders' = Append(orders, e),
         \/ thread' = "top"
         \/ thread = "dll" /\ e.by = "failing dll" /\ thread' = "socket"
  PROVE  FramesInv'
<1>1. /\ orders' \in Seq(OrderSet')
      /\ Placed' = Placed \cup {sig}
      /\ OrdersOrdered'
      /\ \A i \in DOMAIN orders' : orders'[i].frame <= sig
      /\ thread = "dll" => \A i \in DOMAIN orders' :
           orders'[i].frame = sig => i = Len(orders') /\ orders'[i].by = e.by
  BY AppendOrder
<1>2. Waiting' = Waiting /\ Frames' = Frames
  BY DEF Waiting, Frames
<1>3. InHand = {sig} /\ InHand' \subseteq {sig} /\ sig \in Frames
  BY DEF InHand, FramesInv, FrameTypes
<1>4. FrameTypes'
  BY <1>1, <1>2, <1>3 DEF FramesInv, FrameTypes
<1>5. OrderInv'
  BY <1>1 DEF FramesInv, OrderInv
<1>6. PlaceInv'
  BY <1>1, <1>2, <1>3 DEF FramesInv, PlaceInv
<1>7. QED
  BY <1>1, <1>4, <1>5, <1>6 DEF FramesInv

LEMMA TryDllStep ==
  ASSUME FramesInv, FlagInv', TryDll
  PROVE  FramesInv'
<1>1. /\ thread = "dll"
      /\ UNCHANGED <<dll, bridgeRunning, stopped, sig, setupFailed, pipe, published,
                     unplaced, gone>>
  BY DEF TryDll
<1>2. CASE \E by \in {"dll", "failing dll", "socket"} :
             /\ orders' = Append(orders, [frame |-> sig, by |-> by])
             /\ \/ thread' = "top"
                \/ by = "failing dll" /\ thread' = "socket"
  <2>1. PICK by \in {"dll", "failing dll", "socket"} :
          /\ orders' = Append(orders, [frame |-> sig, by |-> by])
          /\ \/ thread' = "top"
             \/ by = "failing dll" /\ thread' = "socket"
    BY <1>2
  <2> DEFINE e == [frame |-> sig, by |-> by]
  <2>2. e \in OrderSet /\ e.frame = sig /\ e.by = by /\ orders' = Append(orders, e)
    BY <1>1, <2>1 DEF FramesInv, FrameTypes, OrderSet
  <2> HIDE DEF e
  <2>3. QED
    BY <1>1, <2>1, <2>2, OrderStep
<1>3. CASE thread' = "socket" /\ orders' = orders
  <2>1. /\ Placed' = Placed /\ Waiting' = Waiting /\ InHand' = InHand
        /\ Frames' = Frames /\ OrderSet' = OrderSet
    BY <1>1, <1>3 DEF Placed, Waiting, InHand, Frames, OrderSet
  <2>2. FrameTypes'
    BY <1>1, <1>3, <2>1 DEF FramesInv, FrameTypes
  <2>3. ASSUME NEW i \in DOMAIN orders
        PROVE  orders[i].frame # sig
    <3>1. orders[i].frame < sig /\ orders[i].frame \in Nat /\ sig \in Nat
      BY <1>1, FrameFacts DEF FramesInv, OrderInv
    <3>2. QED
      BY <3>1
  <2>4. OrderInv'
    BY <1>1, <1>3, <2>3 DEF FramesInv, OrderInv
  <2>5. OrdersOrdered' /\ PlaceInv'
    BY <1>1, <1>3, <2>1 DEF FramesInv, OrdersOrdered, PlaceInv
  <2>6. QED
    BY <2>2, <2>4, <2>5 DEF FramesInv
<1>4. QED
  BY <1>1, <1>2, <1>3 DEF TryDll, Place

LEMMA TrySocketStep ==
  ASSUME FramesInv, FlagInv', TrySocket
  PROVE  FramesInv'
<1>1. /\ thread = "socket" /\ thread' = "top"
      /\ UNCHANGED <<dll, bridgeRunning, stopped, sig, setupFailed, pipe, published, gone>>
  BY DEF TrySocket
<1>2. CASE Place("socket") /\ unplaced' = unplaced
  <2> DEFINE e == [frame |-> sig, by |-> "socket"]
  <2>1. e \in OrderSet /\ e.frame = sig /\ e.by = "socket"
    BY <1>1 DEF FramesInv, FrameTypes, OrderSet
  <2>2. orders' = Append(orders, e)
    BY <1>2 DEF Place
  <2> HIDE DEF e
  <2>3. QED
    BY <1>1, <1>2, <2>1, <2>2, OrderStep
<1>3. CASE /\ orders' = orders
           /\ unplaced' = IF sig \in Placed THEN unplaced ELSE unplaced \cup {sig}
  <2>1. /\ Placed' = Placed /\ Waiting' = Waiting
        /\ Frames' = Frames /\ OrderSet' = OrderSet /\ OrdersOrdered'
    BY <1>1, <1>3
       DEF Placed, Waiting, Frames, OrderSet, FramesInv, OrdersOrdered
  <2>2. InHand = {sig} /\ InHand' = {} /\ sig \in Frames /\ sig \in Nat
    BY <1>1, FrameFacts DEF InHand, FramesInv, FrameTypes
  <2>3. FrameTypes'
    BY <1>1, <1>3, <2>1, <2>2 DEF FramesInv, FrameTypes
  <2>4. OrderInv'
    BY <1>1, <1>3 DEF FramesInv, OrderInv
  <2>5. PlaceInv'
    BY <1>1, <1>3, <2>1, <2>2 DEF FramesInv, PlaceInv
  <2>6. QED
    BY <2>1, <2>3, <2>4, <2>5 DEF FramesInv
<1>4. (\E i \in DOMAIN orders : orders[i].frame = sig) <=> sig \in Placed
  BY DEF Placed
<1>5. QED
  BY <1>2, <1>3, <1>4 DEF TrySocket

\* The frames that wait when the socket is closed are lost.
LEMMA CloseStep ==
  ASSUME FramesInv, FlagInv', Close
  PROVE  FramesInv'
<1>1. /\ thread = "close" /\ thread' = "none" /\ bridgeRunning' = FALSE
      /\ gone' = gone \cup Waiting /\ pipe' = <<>>
      /\ UNCHANGED <<dll, stopped, sig, setupFailed, published, orders, unplaced>>
  BY DEF Close, Waiting
<1>2. /\ Placed' = Placed /\ Waiting' = {} /\ InHand' = {} /\ InHand = {}
      /\ Frames' = Frames /\ OrderSet' = OrderSet /\ OrdersOrdered'
  <2>1. DOMAIN pipe' = {}
    BY <1>1
  <2>2. QED
    BY <1>1, <2>1
       DEF Placed, Waiting, InHand, Frames, OrderSet, FramesInv, OrdersOrdered
<1>3. Waiting \subseteq Frames
  BY DEF FramesInv, PlaceInv
<1>4. FrameTypes'
  <2>1. pipe' \in Seq(Frames') /\ Len(pipe') <= PipeLimit
    BY <1>1, Mt5BridgeAssumption
  <2>2. QED
    BY <1>1, <1>2, <1>3, <2>1 DEF FramesInv, FrameTypes
<1>5. OrderInv'
  BY <1>1 DEF FramesInv, OrderInv
<1>6. ASSUME NEW f \in Waiting
      PROVE  f \notin Placed /\ f \notin unplaced
  <2>1. f \in Nat /\ sig \in Nat /\ sig < f
    BY FrameFacts
  <2>2. \A g \in Placed \cup unplaced : g <= sig
    BY FrameFacts DEF FramesInv, PlaceInv
  <2>3. QED
    BY <2>1, <2>2
<1>7. PlaceInv'
  BY <1>1, <1>2, <1>6 DEF FramesInv, PlaceInv
<1>8. QED
  BY <1>2, <1>4, <1>5, <1>7 DEF FramesInv

LEMMA NextFramesInv == FramesInv /\ [BridgeNext]_bridgeVars => FramesInv'
<1>1. SUFFICES ASSUME FramesInv, [BridgeNext]_bridgeVars PROVE FramesInv'
  OBVIOUS
<1>2. FlagInv'
  BY <1>1, NextFlagInv DEF FramesInv
<1> DEFINE Data == UNCHANGED <<dll, sig, pipe, published, orders, unplaced, gone>>
           Thread == \/ thread' = thread
                     \/ /\ thread \notin {"dll", "socket"}
                        /\ thread' \notin {"dll", "socket"}
           Flags == {bridgeRunning', stopped', setupFailed'} \subseteq BOOLEAN
<1>3. {bridgeRunning, stopped, setupFailed} \subseteq BOOLEAN
  BY <1>1 DEF FramesInv, FrameTypes
<1>4. CASE BridgeStart
  <2>1. Data /\ Flags
    BY <1>3, <1>4 DEF BridgeStart
  <2>2. Thread
    BY <1>1, <1>4 DEF BridgeStart, FramesInv, FlagInv
  <2>3. QED
    BY <1>1, <1>2, <2>1, <2>2, QuietStep
<1>5. CASE BridgeStop \/ StopReturns
  <2>1. Data /\ Thread /\ Flags
    BY <1>3, <1>5 DEF BridgeStop, StopReturns
  <2>2. QED
    BY <1>1, <1>2, <2>1, QuietStep
<1>6. CASE SetupSucceeds \/ SetupFails \/ Top \/ RecvTimesOut
  <2>1. Data /\ Thread /\ Flags
    BY <1>3, <1>6 DEF SetupSucceeds, SetupFails, Top, RecvTimesOut
  <2>2. QED
    BY <1>1, <1>2, <2>1, QuietStep
<1>7. CASE UNCHANGED bridgeVars
  <2>1. Data /\ Thread /\ Flags
    BY <1>3, <1>7 DEF bridgeVars
  <2>2. QED
    BY <1>1, <1>2, <2>1, QuietStep
<1>8. QED
  BY <1>1, <1>2, <1>4, <1>5, <1>6, <1>7, PublishStep, RecvStep, TryDllStep,
     TrySocketStep, CloseStep DEF BridgeNext, Run

-----------------------------------------------------------------------------
(* From the disjoint places to their sizes.                                *)

LEMMA DisjointSizes ==
  ASSUME NEW A, NEW B, IsFiniteSet(A), IsFiniteSet(B), A \cap B = {}
  PROVE  /\ IsFiniteSet(A \cup B)
         /\ Cardinality(A \cup B) = Cardinality(A) + Cardinality(B)
<1>1. Cardinality(A) \in Nat /\ Cardinality(B) \in Nat
  BY FS_CardinalityType
<1>2. Cardinality(A \cap B) = 0
  BY FS_EmptySet
<1>3. /\ IsFiniteSet(A \cup B)
      /\ Cardinality(A \cup B)
           = Cardinality(A) + Cardinality(B) - Cardinality(A \cap B)
  BY FS_Union
<1>4. QED
  BY <1>1, <1>2, <1>3

\* The frames in the socket are distinct.
LEMMA WaitingSize ==
  ASSUME FramesInv
  PROVE  IsFiniteSet(Waiting) /\ Cardinality(Waiting) = Len(pipe)
<1> DEFINE m == Len(pipe)
<1>1. m \in Nat /\ DOMAIN pipe = 1 .. m /\ pipe \in Seq(Frames)
  BY FrameFacts DEF FramesInv, FrameTypes
<1>2. pipe \in [1 .. m -> Waiting]
  BY <1>1 DEF Waiting
<1>3. ASSUME NEW i \in 1 .. m, NEW j \in 1 .. m, i # j
      PROVE  pipe[i] # pipe[j]
  <2>1. pipe[i] \in Nat /\ pipe[j] \in Nat
    BY <1>1, FrameFacts
  <2>2. i < j => pipe[i] < pipe[j]
    BY <1>1 DEF FramesInv, OrderInv
  <2>3. j < i => pipe[j] < pipe[i]
    BY <1>1 DEF FramesInv, OrderInv
  <2>4. i < j \/ j < i
    BY <1>1, <1>3
  <2>5. QED
    BY <2>1, <2>2, <2>3, <2>4
<1>4. \A f \in Waiting : \E i \in 1 .. m : pipe[i] = f
  BY <1>1 DEF Waiting
<1> HIDE DEF m
<1>5. pipe \in Bijection(1 .. m, Waiting)
  BY <1>2, <1>3, <1>4 DEF Bijection, Injection, Surjection, IsInjective
<1>6. ExistsBijection(1 .. m, Waiting)
  BY <1>5 DEF ExistsBijection
<1>7. IsFiniteSet(1 .. m) /\ Cardinality(1 .. m) = m
  BY <1>1, FS_Interval
<1>8. QED
  BY <1>6, <1>7, FS_Bijection DEF m

\* The places make up the published frames, and their sizes the count.
LEMMA PlacesCount ==
  ASSUME FramesInv
  PROVE  Cardinality(Placed) + Len(pipe) + Cardinality(InHand \ Placed)
         + Cardinality(unplaced) + Cardinality(gone) = published
<1> DEFINE A == Placed
           B == Waiting
           C == InHand \ Placed
<1>1. published \in Nat /\ sig \in Nat
  BY FrameFacts
<1>2. /\ Frames = A \cup B \cup C \cup unplaced \cup gone
      /\ A \subseteq Frames /\ B \subseteq Frames /\ C \subseteq Frames
      /\ unplaced \subseteq Frames /\ gone \subseteq Frames
  BY DEF FramesInv, PlaceInv
<1>3. IsFiniteSet(Frames) /\ Cardinality(Frames) = published
  <2>1. IsFiniteSet(1 .. published)
        /\ Cardinality(1 .. published) = IF 1 > published THEN 0 ELSE published - 1 + 1
    BY <1>1, FS_Interval
  <2>2. QED
    BY <1>1, <2>1 DEF Frames
<1>4. /\ IsFiniteSet(A) /\ IsFiniteSet(B) /\ IsFiniteSet(C)
      /\ IsFiniteSet(unplaced) /\ IsFiniteSet(gone)
  BY <1>2, <1>3, FS_Subset
<1>5. /\ \A f \in B : f \in Nat /\ sig < f
      /\ \A f \in A \cup C \cup unplaced : f <= sig
  <2>1. \A f \in unplaced : f <= sig
    BY DEF FramesInv, PlaceInv
  <2>2. \A f \in C : f <= sig
    BY <1>1, FrameFacts
  <2>3. QED
    BY <2>1, <2>2, FrameFacts
<1>6. \A f \in B : f \notin A \cup C \cup unplaced
  BY <1>1, <1>5
<1>7. A \cap B = {} /\ (A \cup B) \cap C = {}
  BY <1>6
<1>8. (A \cup B \cup C) \cap unplaced = {}
  BY <1>6 DEF FramesInv, PlaceInv
<1>9. (A \cup B \cup C \cup unplaced) \cap gone = {}
  BY DEF FramesInv, PlaceInv
<1> HIDE DEF A, B, C
<1>10. /\ IsFiniteSet(A \cup B)
       /\ Cardinality(A \cup B) = Cardinality(A) + Cardinality(B)
  BY <1>4, <1>7, DisjointSizes
<1>11. /\ IsFiniteSet(A \cup B \cup C)
       /\ Cardinality(A \cup B \cup C) = Cardinality(A \cup B) + Cardinality(C)
  BY <1>4, <1>7, <1>10, DisjointSizes
<1>12. /\ IsFiniteSet(A \cup B \cup C \cup unplaced)
       /\ Cardinality(A \cup B \cup C \cup unplaced)
            = Cardinality(A \cup B \cup C) + Cardinality(unplaced)
  BY <1>4, <1>8, <1>11, DisjointSizes
<1>13. Cardinality(Frames)
         = Cardinality(A \cup B \cup C \cup unplaced) + Cardinality(gone)
  BY <1>2, <1>4, <1>9, <1>12, DisjointSizes
<1>14. Cardinality(B) = Len(pipe)
  BY WaitingSize DEF B
<1>15. {Cardinality(A), Cardinality(B), Cardinality(C), Cardinality(unplaced),
        Cardinality(gone)} \subseteq Nat
  BY <1>4, FS_CardinalityType
<1>16. QED
  BY <1>3, <1>10, <1>11, <1>12, <1>13, <1>14, <1>15 DEF A, C

(* mt5_bridge.cpp:93-101, 136-138.  For every number of frames, socket     *)
(* limit and pattern of failures: each published frame is in exactly one   *)
(* place, orders keep the order of publication, and only a failing DLL     *)
(* makes two orders of a frame.                                            *)
THEOREM Mt5FramesAccounted == BridgeSpec => []FramesAccounted
<1>1. FramesInv => FramesAccounted
  <2>1. SUFFICES ASSUME FramesInv PROVE FramesAccounted
    OBVIOUS
  <2>2. BridgeTypeOK
    BY <2>1 DEF FramesInv, FrameTypes, OrderSet, Frames, BridgeTypeOK
  <2>3. 1 .. published = Placed \cup Waiting \cup InHand \cup unplaced \cup gone
    BY <2>1 DEF FramesInv, PlaceInv, Frames
  <2>4. OrdersOrdered
    BY <2>1 DEF FramesInv
  <2>5. QED
    BY <2>1, <2>2, <2>3, <2>4, PlacesCount
       DEF FramesAccounted, Placed, Waiting, InHand, OrdersOrdered
<1>2. QED
  BY <1>1, InitFramesInv, NextFramesInv, PTL DEF BridgeSpec
=============================================================================
