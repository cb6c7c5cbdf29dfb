----------------------------- MODULE Aggregator -----------------------------
(***************************************************************************)
(* src/aggregator.cpp: the per-venue windows of recent ticks and the lead  *)
(* price computed from them.  Prices are integers in units of 0.0001, the  *)
(* grid round4() rounds to; a tick is [ts |-> stamp, mid |-> price].  The  *)
(* readers only push ticks whose valid flag is set.                        *)
(***************************************************************************)
EXTENDS Integers, Sequences

CONSTANTS
  MaxTickAge,   \* CompileTime::kMaxTickAgeMs
  Weights,      \* session -> [deribit, binance] weights, in units of
  WeightUnit    \*   1 / WeightUnit

Sessions == {"us", "asia"}

\* Config reads the weights from the environment and validates none of them:
\* they may be zero, negative, or cancel each other.
ASSUME MaxTickAgeAssumption == MaxTickAge \in Nat
ASSUME WeightsAssumption ==
  /\ WeightUnit \in Nat \ {0}
  /\ \A s \in Sessions : Weights[s].deribit \in Int /\ Weights[s].binance \in Int

\* The weights of a session are a convex combination once normalised.
Sane(s) ==
  /\ Weights[s].deribit >= 0 /\ Weights[s].binance >= 0
  /\ Weights[s].deribit + Weights[s].binance > 0

\* The readers stamp t.ts with another clock than the one now comes from.
IsStale(t, now) == t.ts > 0 /\ now - t.ts > MaxTickAge

\* prune_old(): the stale prefix leaves the window, nothing behind it does.
PruneOld(win, now) ==
  LET fresh == {i \in DOMAIN win : ~IsStale(win[i], now)}
  IN  IF fresh = {} THEN <<>>
      ELSE SubSeq(win, CHOOSE i \in fresh : \A j \in fresh : i <= j, Len(win))

\* One turn of ingest()'s loop: a popped tick is dropped or appended.
Ingest(win, t, now) == IF IsStale(t, now) THEN win ELSE Append(win, t)

\* latest_mid(): 0 stands for "no data".
LatestMid(win) == IF win = <<>> THEN 0 ELSE win[Len(win)].mid

\* Mutant: the weights are not normalised.
WeightedLeadRaw(b, d, session) ==
  d * Weights[session].deribit + b * Weights[session].binance

\* std::round() of n / k: halves go away from zero.
RoundedQuotient(n, k) ==
  IF n >= 0 THEN (2 * n + k) \div (2 * k) ELSE -((k - 2 * n) \div (2 * k))

\* weights() normalises only weights with a positive sum, and leaves others
\* as they are; round4() rounds to the grid.
WeightedLead(b, d, session) ==
  LET wd == Weights[session].deribit
      wb == Weights[session].binance
  IN  RoundedQuotient(d * wd + b * wb,
                      IF wd + wb > 0 THEN wd + wb ELSE WeightUnit)

\* update() returns nullopt unless a venue has a price; the lead itself may
\* be any number.
HasLead(binance, deribit) == LatestMid(binance) > 0 \/ LatestMid(deribit) > 0

\* update() after the ingestion, when it does not return nullopt.
LeadPrice(binance, deribit, session) ==
  LET b == LatestMid(binance)
      d == LatestMid(deribit)
  IN  CASE b <= 0 -> d
        [] b > 0 /\ d <= 0 -> b
        [] OTHER -> WeightedLead(b, d, session)
=============================================================================
