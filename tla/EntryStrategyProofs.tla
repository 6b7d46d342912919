------------------------- MODULE EntryStrategyProofs -------------------------
(***************************************************************************)
(* Theorems about EntryStrategy, for every size of order, number of        *)
(* cycles, sell budget, window, horizon and set of views.                  *)
(***************************************************************************)
EXTENDS EntryStrategy, TLAPS

-----------------------------------------------------------------------------
(* What the helpers return.                                                 *)

\* Shares of a position, as _position_shares computes them, are never negative.
LEMMA PositionSharesType ==
  ASSUME NEW r \in Shares, NEW p \in Position
  PROVE  PositionShares(r, p) \in Nat
<1>1. CASE p.outcome \in Outcomes /\ r[p.outcome] > p.baseline[p.outcome]
  <2>1. r[p.outcome] \in Nat /\ p.baseline[p.outcome] \in Nat
    BY <1>1 DEF Shares, Position
  <2>2. QED BY <1>1, <2>1 DEF PositionShares
<1>2. CASE ~(p.outcome \in Outcomes /\ r[p.outcome] > p.baseline[p.outcome])
  BY <1>2 DEF PositionShares
<1>3. QED BY <1>1, <1>2

\* Ingesting a balance leaves a position.
LEMMA IngestType ==
  ASSUME NEW r \in Shares, NEW p \in Position
  PROVE  Ingest(p, r) \in Position
BY DEF Ingest, Position

\* Picking a reason leaves a position, and picks a reason or none.
LEMMA PickType ==
  ASSUME NEW p \in Position, NEW bid \in Bids
  PROVE  /\ PickCounters(p, bid) \in Position
         /\ PickReason(p, bid) \in Reasons \cup {""}
<1>1. RiskCycles \in Nat /\ RiskCycles > 0
  BY CyclesAssumption
<1>2. \A n \in 0..RiskCycles : Saturate(n) \in 0..RiskCycles
  BY <1>1 DEF Saturate
<1>3. p.risk1 \in 0..RiskCycles /\ p.risk3 \in 0..RiskCycles
  BY DEF Position
<1>4. Risk1Cycles(p, bid) \in 0..RiskCycles /\ Risk3Cycles(p, bid) \in 0..RiskCycles
  BY <1>1, <1>2, <1>3 DEF Risk1Cycles, Risk3Cycles
<1>5. PickCounters(p, bid) \in Position
  BY <1>3, <1>4 DEF PickCounters, Position
<1>6. PickReason(p, bid) \in Reasons \cup {""}
  BY DEF PickReason, Reasons
<1>7. QED BY <1>5, <1>6

\* Ticking a strategy leaves a strategy, done or not as it was.
LEMMA TickStrategyType ==
  ASSUME TypeOK, NEW b \in Symbols
  PROVE  /\ TickStrategy(b) \in Strategy
         /\ TickStrategy(b).done = strat[b].done
         /\ TickStrategy(b).busy = strat[b].busy
<1>1. strat[b] \in Strategy
  BY DEF TypeOK
<1>2. Counted(b) \in [Outcomes -> Nat]
  <2>1. strat[b].cycles \in [Outcomes -> Nat]
    BY <1>1 DEF Strategy
  <2>2. \A o \in Outcomes : strat[b].cycles[o] + 1 \in Nat
    BY <2>1
  <2>3. QED BY <2>2 DEF Counted
<1>3. FirstReady(Counted(b)) \in Outcomes \cup {""}
  BY DEF FirstReady, Outcomes
<1>4. QED BY <1>1, <1>2, <1>3 DEF TickStrategy, Strategy

\* A balance read leaves shares.
LEMMA ReadsType ==
  ASSUME TypeOK, NEW s \in Symbols
  PROVE  Reads(s) \subseteq Shares
<1>1. rem[s] \in Shares /\ before[s] \in [Outcomes -> Nat]
  BY DEF Shares, TypeOK
<1>2. Bought(s) \in Int
  BY SizeAssumption DEF TypeOK, Bought
<1>3. \A o \in Outcomes : HeldSince(s, o) \subseteq Nat
  <2> SUFFICES ASSUME NEW o \in Outcomes PROVE HeldSince(s, o) \subseteq Nat
    OBVIOUS
  <2>1. before[s][o] \in Nat
    BY <1>1
  <2>2. QED BY <1>2, <2>1 DEF HeldSince
<1>4. {0} \cup UNION {HeldSince(s, o) : o \in Outcomes} \subseteq Nat
  BY <1>3
<1>5. QED BY <1>1, <1>4 DEF Reads, Shares

\* The best bid of an outcome, or of none, is a bid class.
LEMMA BestBidType ==
  ASSUME TypeOK, NEW s \in Symbols, NEW o
  PROVE  BestBid(s, o) \in Bids
<1>1. view[s].bid \in [Outcomes -> Bids]
  BY DEF TypeOK, View
<1>2. QED BY <1>1 DEF BestBid, Bids

-----------------------------------------------------------------------------
(* Type correctness.                                                        *)

\* The initial state has the types.
LEMMA TypeInit == Init => TypeOK
<1>1. NoView \in View
  BY DEF NoView, View, Trends, Bids
<1>2. NoShares \in Shares
  BY DEF NoShares, Shares
<1>3. NoPosition \in Position
  BY <1>2, CyclesAssumption DEF NoPosition, Position
<1>4. NewStrategy \in Strategy
  BY DEF NewStrategy, Strategy
<1>5. Sleeping \in Tick
  BY DEF Sleeping, Tick, Symbols
<1>6. Init => before \in [Symbols -> Shares] /\ wallet = before
  <2> SUFFICES ASSUME Init PROVE before \in [Symbols -> Shares] /\ wallet = before
    OBVIOUS
  <2>1. before \in [Symbols -> UNION {Held[s] : s \in Symbols}] /\ wallet = before
    BY Zenon DEF Init
  <2>2. UNION {Held[s] : s \in Symbols} \subseteq Shares
    BY HeldAssumption
  <2>3. QED BY <2>1, <2>2
<1>7. Init => life \in [Symbols -> {"new", "up", "gone"}] /\ blind \subseteq Symbols
  BY DEF Init
<1>8. QED
  BY <1>1, <1>2, <1>3, <1>4, <1>5, <1>6, <1>7, HorizonAssumption DEF Init, TypeOK, Tasks

\* What the risk evaluation does to the monitor's own coroutine.
LEMMA TickMoves ==
  ASSUME TypeOK, NEW m \in Symbols
  PROVE  /\ NextTarget(m) => tick' \in [Symbols -> Tick] /\ running' \in Symbols \cup {None}
         /\ \A where \in {"refresh", "sell", "recheck"}, n \in Nat :
              AwaitAt(m, where, n) => tick' \in [Symbols -> Tick] /\ running' \in Symbols \cup {None}
         /\ LeaveLock(m) => /\ tick' \in [Symbols -> Tick]
                            /\ running' \in Symbols \cup {None}
                            /\ lock' \in Symbols \cup {None}
<1>1. tick \in [Symbols -> Tick]
  BY DEF TypeOK
<1>2. NextTarget(m) => tick' \in [Symbols -> Tick] /\ running' \in Symbols \cup {None}
  BY <1>1 DEF NextTarget, Tick, Symbols
<1>3. ASSUME NEW where \in {"refresh", "sell", "recheck"}, NEW n \in Nat, AwaitAt(m, where, n)
      PROVE  tick' \in [Symbols -> Tick] /\ running' \in Symbols \cup {None}
  <2>1. tick[m] \in Tick
    BY <1>1
  <2>2. [tick[m] EXCEPT !.at = where, !.qty = n] \in Tick
    BY <2>1 DEF Tick
  <2>3. tick' = [tick EXCEPT ![m] = [tick[m] EXCEPT !.at = where, !.qty = n]]
    BY <1>1, <1>3 DEF AwaitAt
  <2>4. QED BY <1>1, <1>3, <2>2, <2>3 DEF AwaitAt
<1>4. Sleeping \in Tick
  BY DEF Sleeping, Tick, Symbols
<1>5. LeaveLock(m) => /\ tick' \in [Symbols -> Tick]
                     /\ running' \in Symbols \cup {None}
                     /\ lock' \in Symbols \cup {None}
  BY <1>1, <1>4, NoneAssumption DEF LeaveLock
<1>6. QED BY <1>2, <1>3, <1>5

\* The finally clause of _run_buy.
LEMMA BuyEndsType ==
  ASSUME TypeOK, NEW b \in Symbols, NEW final \in BOOLEAN, BuyEnds(b, final)
  PROVE  strat' \in [Symbols -> Strategy] /\ task' \in [Symbols -> Tasks]
<1> DEFINE ended == [strat[b] EXCEPT !.busy = FALSE, !.done = strat[b].done \/ final]
<1>1. strat[b] \in Strategy
  BY DEF TypeOK
<1>2. (strat[b].done \/ final) \in BOOLEAN
  OBVIOUS
<1>3. ended \in Strategy
  BY <1>1, <1>2 DEF Strategy
<1>4. strat' = [strat EXCEPT ![b] = ended]
  BY DEF BuyEnds, TypeOK
<1>5. task' \in [Symbols -> Tasks]
  BY DEF BuyEnds, TypeOK, Tasks
<1> HIDE DEF ended
<1>6. QED BY <1>3, <1>4, <1>5 DEF TypeOK

\* The steps of a monitor outside the risk evaluation.
LEMMA TypeMonitor ==
  ASSUME TypeOK, NEW m \in Symbols
  PROVE  /\ Register(m) => TypeOK'
         /\ TickEnter(m) => TypeOK'
         /\ AcquireLock(m) => TypeOK'
         /\ DecideBusy(m) => TypeOK'
         /\ Decide(m) => TypeOK'
         /\ Unregister(m) => TypeOK'
<1>1. Register(m) => TypeOK'
  BY DEF TypeOK, Register, exchange, history
<1>2. ASSUME TickEnter(m) PROVE TypeOK'
  <2>1. clock' \in [Symbols -> 0..Horizon]
    BY <1>2, HorizonAssumption DEF TypeOK, TickEnter, EpochRuns
  <2>2. view' \in [Symbols -> View]
    <3>1. PICK v \in Views[m] : view' = [view EXCEPT ![m] = v]
      BY <1>2 DEF TickEnter
    <3>2. v \in View
      BY ViewsAssumption
    <3>3. QED BY <3>1, <3>2 DEF TypeOK
  <2>3. rem' \in [Symbols -> Shares] /\ pos' \in [Symbols -> Position]
    <3>1. PICK r \in Reads(m) : /\ rem' = [rem EXCEPT ![m] = r]
                                /\ pos' = [pos EXCEPT ![m] = Ingest(pos[m], r)]
      BY <1>2 DEF TickEnter
    <3>2. r \in Shares /\ pos[m] \in Position
      BY ReadsType DEF TypeOK
    <3>3. Ingest(pos[m], r) \in Position
      BY <3>2, IngestType
    <3>4. QED BY <3>1, <3>2, <3>3 DEF TypeOK
  <2>4. tick' \in [Symbols -> Tick]
    <3>1. (IF BothUp THEN "lock" ELSE "sleep") \in {"sleep", "lock"}
      OBVIOUS
    <3>2. tick[m] \in Tick
      BY DEF TypeOK
    <3>3. [tick[m] EXCEPT !.at = IF BothUp THEN "lock" ELSE "sleep"] \in Tick
      BY <3>1, <3>2 DEF Tick
    <3>4. QED BY <1>2, <3>3 DEF TypeOK, TickEnter
  <2>5. QED BY <1>2, <2>1, <2>2, <2>3, <2>4 DEF TypeOK, TickEnter, exchange, history
<1>3. ASSUME AcquireLock(m) PROVE TypeOK'
  <2>1. \A s \in Symbols : Ingest(pos[s], rem[s]) \in Position
    BY IngestType DEF TypeOK
  <2>2. pos' \in [Symbols -> Position]
    BY <1>3, <2>1 DEF TypeOK, AcquireLock
  <2>3. tick' \in [Symbols -> Tick]
    BY <1>3 DEF TypeOK, AcquireLock, Tick, Symbols
  <2>4. QED BY <1>3, <2>2, <2>3 DEF TypeOK, AcquireLock, exchange, history
<1>4. DecideBusy(m) => TypeOK'
  BY TickMoves DEF TypeOK, DecideBusy, exchange, history
<1>5. ASSUME Decide(m) PROVE TypeOK'
  <2>1. strat' \in [Symbols -> Strategy]
    <3> DEFINE Ticked(b) == [TickStrategy(b) EXCEPT !.busy = strat[b].busy \/ Triggers(b)]
    <3>1. ASSUME NEW b \in Symbols PROVE Ticked(b) \in Strategy
      <4>1. TickStrategy(b) \in Strategy
        BY TickStrategyType
      <4>2. (strat[b].busy \/ Triggers(b)) \in BOOLEAN
        OBVIOUS
      <4>3. QED BY <4>1, <4>2 DEF Strategy
    <3>2. strat' = [b \in Symbols |-> Ticked(b)]
      BY <1>5 DEF Decide
    <3> HIDE DEF Ticked
    <3>3. QED BY <3>1, <3>2
  <2>2. task' \in [Symbols -> Tasks]
    BY <1>5 DEF Decide, TypeOK, Tasks
  <2>3. QED BY <1>5, <2>1, <2>2, TickMoves DEF TypeOK, Decide, exchange, history
<1>6. ASSUME Unregister(m) PROVE TypeOK'
  <2>1. strat' \in [Symbols -> Strategy] /\ task' \in [Symbols -> Tasks]
    BY <1>6, BuyEndsType DEF Unregister
  <2>2. QED BY <1>6, <2>1 DEF TypeOK, Unregister, exchange, history
<1>7. QED BY <1>1, <1>2, <1>3, <1>4, <1>5, <1>6

\* The steps of the risk evaluation.
LEMMA TypeRisk ==
  ASSUME TypeOK, NEW m \in Symbols, Risk(m)
  PROVE  TypeOK'
<1> DEFINE t == tick[m].target
           p == pos[t]
           bid == BestBid(t, p.outcome)
           reason == PickReason(p, bid)
<1>1. t \in Symbols
  BY DEF TypeOK, Tick
<1>2. p \in Position
  BY <1>1 DEF TypeOK
<1>3. PickCounters(p, bid) \in Position /\ reason \in Reasons \cup {""}
  BY <1>1, <1>2, BestBidType, PickType
<1>4. \A r \in Reads(t) : r \in Shares /\ PositionShares(r, p) \in Nat
  BY <1>1, <1>2, ReadsType, PositionSharesType
<1>5. \A r \in Reads(t) : rem' = [rem EXCEPT ![t] = r] => rem' \in [Symbols -> Shares]
  BY <1>4 DEF TypeOK
<1>6. \A q \in Position : pos' = [pos EXCEPT ![t] = q] => pos' \in [Symbols -> Position]
  BY DEF TypeOK
<1>7. sells' = [sells EXCEPT ![t] = sells[t] + 1] => sells' \in [Symbols -> Nat]
  BY <1>1 DEF TypeOK
<1> HIDE DEF t, p, bid, reason
<1>8. CASE RiskSkip(m)
  BY <1>8, TickMoves DEF RiskSkip, TypeOK, exchange, history
<1>9. CASE RiskRefresh(m)
  BY <1>9, TickMoves DEF RiskRefresh, TypeOK, exchange, history
<1>10. CASE SellAnswered(m)
  BY <1>10, TickMoves DEF SellAnswered, TypeOK, exchange, history
<1>11. CASE RiskFlat(m)
  <2>1. rem' \in [Symbols -> Shares]
    BY <1>11, <1>5 DEF RiskFlat, t
  <2>2. [p EXCEPT !.closed = TRUE] \in Position
    BY <1>2 DEF Position
  <2>3. pos' \in [Symbols -> Position]
    BY <1>11, <1>6, <2>2 DEF RiskFlat, t, p
  <2>4. QED BY <1>11, <2>1, <2>3, TickMoves DEF RiskFlat, TypeOK, exchange, history
<1>12. CASE RiskExhausted(m)
  <2>1. rem' \in [Symbols -> Shares]
    BY <1>12, <1>5 DEF RiskExhausted, t
  <2>2. [p EXCEPT !.exitBusy = FALSE] \in Position
    BY <1>2 DEF Position
  <2>3. pos' \in [Symbols -> Position]
    BY <1>12, <1>6, <2>2 DEF RiskExhausted, t, p
  <2>4. QED BY <1>12, <2>1, <2>3, TickMoves DEF RiskExhausted, TypeOK, exchange, history
<1>13. CASE RiskRetry(m)
  <2>1. PICK r \in Reads(t) : /\ rem' = [rem EXCEPT ![t] = r]
                              /\ AwaitAt(m, "sell", PositionShares(r, p))
    BY <1>13 DEF RiskRetry, t, p
  <2>2. rem' \in [Symbols -> Shares]
    BY <1>5, <2>1
  <2>3. [p EXCEPT !.attempts = @ + 1] \in Position
    <3>1. p.attempts \in Nat
      BY <1>2 DEF Position
    <3>2. p.attempts + 1 \in Nat
      BY <3>1
    <3>3. QED BY <1>2, <3>2 DEF Position
  <2>4. pos' \in [Symbols -> Position]
    BY <1>13, <1>6, <2>3 DEF RiskRetry, t, p
  <2>5. tick' \in [Symbols -> Tick] /\ running' \in Symbols \cup {None}
    BY <1>4, <2>1, TickMoves
  <2>6. sells' \in [Symbols -> Nat]
    BY <1>13, <1>7 DEF RiskRetry, t
  <2>7. QED BY <1>13, <2>2, <2>4, <2>5, <2>6 DEF RiskRetry, TypeOK, exchange
<1>14. CASE RiskHold(m)
  <2>1. rem' \in [Symbols -> Shares]
    BY <1>14, <1>5 DEF RiskHold, t
  <2>2. pos' \in [Symbols -> Position]
    BY <1>14, <1>6, <1>3 DEF RiskHold, t, p, bid
  <2>3. QED BY <1>14, <2>1, <2>2, TickMoves DEF RiskHold, TypeOK, exchange, history
<1>15. CASE RiskTrigger(m)
  <2>1. PICK r \in Reads(t) : /\ rem' = [rem EXCEPT ![t] = r]
                              /\ AwaitAt(m, "sell", PositionShares(r, p))
    BY <1>15 DEF RiskTrigger, t, p
  <2>2. rem' \in [Symbols -> Shares]
    BY <1>5, <2>1
  <2> DEFINE q == [PickCounters(p, bid) EXCEPT !.exitBusy = TRUE, !.reason = reason,
                                               !.attempts = @ + 1]
  <2>3. q \in Position
    <3>1. PickCounters(p, bid).attempts \in Nat
      BY <1>3 DEF Position
    <3>2. PickCounters(p, bid).attempts + 1 \in Nat
      BY <3>1
    <3>3. QED BY <1>3, <3>2 DEF Position
  <2>4. pos' = [pos EXCEPT ![t] = q]
    BY <1>15 DEF RiskTrigger, t, p, bid, reason
  <2> HIDE DEF q
  <2>5. pos' \in [Symbols -> Position]
    BY <1>6, <2>3, <2>4
  <2>6. tick' \in [Symbols -> Tick] /\ running' \in Symbols \cup {None}
    BY <1>4, <2>1, TickMoves
  <2>7. sells' \in [Symbols -> Nat]
    BY <1>15, <1>7 DEF RiskTrigger, t
  <2>8. QED BY <1>15, <2>2, <2>5, <2>6, <2>7 DEF RiskTrigger, TypeOK, exchange
<1>16. CASE RiskRecheck(m)
  <2>1. rem' \in [Symbols -> Shares]
    BY <1>16, <1>5 DEF RiskRecheck, t
  <2> DEFINE q == [p EXCEPT !.exitBusy = FALSE, !.closed = TRUE, !.risk1 = 0, !.risk3 = 0]
  <2>2. q \in Position
    <3>1. 0 \in 0..RiskCycles
      BY CyclesAssumption
    <3>2. QED BY <1>2, <3>1 DEF Position
  <2>3. \/ pos' = [pos EXCEPT ![t] = q] /\ blocked' = blocked \cup {t}
        \/ pos' = pos /\ blocked' = blocked
    <3>1. [pos EXCEPT ![t].exitBusy = FALSE, ![t].closed = TRUE, ![t].risk1 = 0, ![t].risk3 = 0]
            = [pos EXCEPT ![t] = q]
      BY <1>1 DEF TypeOK, p
    <3> HIDE DEF q, p
    <3>2. \/ /\ pos' = [pos EXCEPT ![t].exitBusy = FALSE, ![t].closed = TRUE,
                                  ![t].risk1 = 0, ![t].risk3 = 0]
             /\ blocked' = blocked \cup {t}
          \/ pos' = pos /\ blocked' = blocked
      BY <1>16, Zenon DEF RiskRecheck, t
    <3>3. QED BY <3>1, <3>2, Zenon
  <2> HIDE DEF q
  <2>4. pos' \in [Symbols -> Position] /\ blocked' \subseteq Symbols
    BY <1>1, <1>6, <2>2, <2>3 DEF TypeOK
  <2>5. QED BY <1>16, <2>1, <2>4, TickMoves DEF RiskRecheck, TypeOK, exchange, history
<1>17. QED
  BY <1>8, <1>9, <1>10, <1>11, <1>12, <1>13, <1>14, <1>15, <1>16 DEF Risk

\* The steps of a buy task, of the exchange, and the rest.
LEMMA TypeOthers ==
  ASSUME TypeOK, NEW b \in Symbols
  PROVE  /\ RunBuy(b) => TypeOK'
         /\ Exchange(b) => TypeOK'
         /\ HoldExpires(b) => TypeOK'
         /\ PublishBtcContext => TypeOK'
<1>1. CASE BuyPlaced(b)
  <2>1. strat[b] \in Strategy /\ pos[b] \in Position /\ rem[b] \in Shares
    BY DEF TypeOK
  <2>2. [strat[b] EXCEPT !.done = TRUE] \in Strategy
    BY <2>1 DEF Strategy
  <2>3. strat[b].locked \in Outcomes \cup {""}
    BY <2>1 DEF Strategy
  <2> DEFINE q == [pos[b] EXCEPT !.outcome = strat[b].locked, !.pending = TRUE,
                                 !.baseline = rem[b]]
  <2>4. q \in Position
    BY <2>1, <2>3 DEF Position
  <2>5. pos' = [pos EXCEPT ![b] = q] /\ strat' = [strat EXCEPT ![b] = [strat[b] EXCEPT !.done = TRUE]]
    BY <1>1 DEF BuyPlaced, TypeOK
  <2> HIDE DEF q
  <2>6. pos' \in [Symbols -> Position] /\ strat' \in [Symbols -> Strategy]
    BY <2>2, <2>4, <2>5 DEF TypeOK
  <2>7. QED BY <1>1, <2>6 DEF BuyPlaced, TypeOK, Tasks, exchange, history
<1>2. CASE BuyRefreshed(b)
  <2>1. PICK r \in Reads(b) : /\ rem' = [rem EXCEPT ![b] = r]
                              /\ pos' = [pos EXCEPT ![b] = Ingest(pos[b], r)]
    BY <1>2 DEF BuyRefreshed
  <2>2. r \in Shares /\ Ingest(pos[b], r) \in Position
    BY ReadsType, IngestType DEF TypeOK
  <2>3. rem' \in [Symbols -> Shares] /\ pos' \in [Symbols -> Position]
    BY <2>1, <2>2 DEF TypeOK
  <2>4. strat' \in [Symbols -> Strategy] /\ task' \in [Symbols -> Tasks]
    BY <1>2, BuyEndsType DEF BuyRefreshed
  <2>5. QED BY <1>2, <2>3, <2>4 DEF BuyRefreshed, TypeOK, exchange, history
<1>3. CASE BuyNoMatch(b)
  <2>1. strat' \in [Symbols -> Strategy] /\ task' \in [Symbols -> Tasks]
    BY <1>3, BuyEndsType DEF BuyNoMatch
  <2>2. QED BY <1>3, <2>1 DEF BuyNoMatch, TypeOK, exchange, history
<1>4. CASE BuyAborted(b)
  <2>1. strat' \in [Symbols -> Strategy] /\ task' \in [Symbols -> Tasks]
    BY <1>4, BuyEndsType DEF BuyAborted
  <2>2. QED BY <1>4, <2>1 DEF BuyAborted, TypeOK, exchange, history
<1>5. CASE ExchangeAccepts(b)
  BY <1>5, SizeAssumption DEF ExchangeAccepts, TypeOK, Tasks
<1>6. CASE ExchangeRefuses(b)
  BY <1>6 DEF ExchangeRefuses, TypeOK, Tasks, exchange, history
<1>7. CASE BuyFills(b)
  <2> DEFINE o == strat[b].locked
             w == [wallet[b] EXCEPT ![o] = wallet[b][o] + 1]
  <2>1. wallet[b] \in [Outcomes -> Nat]
    BY DEF TypeOK, Shares
  <2>2. w \in Shares
    <3>1. \A x \in Outcomes : wallet[b][x] + 1 \in Nat
      BY <2>1
    <3> HIDE DEF o
    <3>2. w = [x \in Outcomes |-> IF x = o THEN wallet[b][x] + 1 ELSE wallet[b][x]]
      BY <2>1
    <3>3. \A x \in Outcomes : w[x] \in Nat
      BY <2>1, <3>1, <3>2
    <3>4. QED BY <3>2, <3>3 DEF Shares
  <2>3. wallet' = [wallet EXCEPT ![b] = w]
    BY <1>7 DEF BuyFills
  <2> HIDE DEF w
  <2>4. wallet' \in [Symbols -> Shares]
    BY <2>2, <2>3 DEF TypeOK
  <2>5. openBuy' \in [Symbols -> Nat]
    BY <1>7 DEF BuyFills, TypeOK
  <2>6. QED BY <1>7, <2>4, <2>5 DEF BuyFills, TypeOK, history
<1>8. CASE ExchangeTakesSell(b)
  <2>1. tick[b] \in Tick
    BY DEF TypeOK
  <2>2. [tick[b] EXCEPT !.qty = 0] \in Tick /\ tick[b].qty \in Nat
    BY <2>1 DEF Tick
  <2>3. resting' \in [Symbols -> Nat] /\ tick' \in [Symbols -> Tick]
    <3>1. tick' = [tick EXCEPT ![b] = [tick[b] EXCEPT !.qty = 0]]
      BY <1>8 DEF ExchangeTakesSell
    <3>2. tick[b].target \in Symbols
      BY <2>1 DEF Tick
    <3>3. resting[tick[b].target] + tick[b].qty \in Nat
      BY <2>2, <3>2 DEF TypeOK
    <3>4. resting' = [resting EXCEPT ![tick[b].target] = resting[tick[b].target] + tick[b].qty]
      BY <1>8 DEF ExchangeTakesSell
    <3>5. QED BY <2>2, <3>1, <3>3, <3>4 DEF TypeOK
  <2>4. QED BY <1>8, <2>3 DEF ExchangeTakesSell, TypeOK, history
<1>9. CASE SellFills(b)
  <2> DEFINE o == pos[b].outcome
             w == [wallet[b] EXCEPT ![o] = wallet[b][o] - 1]
  <2>1. wallet[b] \in [Outcomes -> Nat]
    BY DEF TypeOK, Shares
  <2>2. w \in Shares
    BY <1>9, <2>1 DEF Shares, SellFills
  <2>3. wallet' = [wallet EXCEPT ![b] = w]
    BY <1>9 DEF SellFills
  <2> HIDE DEF w
  <2>4. wallet' \in [Symbols -> Shares]
    BY <2>2, <2>3 DEF TypeOK
  <2>5. resting' \in [Symbols -> Nat]
    BY <1>9 DEF SellFills, TypeOK
  <2>6. QED BY <1>9, <2>4, <2>5 DEF SellFills, TypeOK, history
<1>10. CASE HoldExpires(b)
  <2>1. pos[b] \in Position
    BY DEF TypeOK
  <2>2. [pos[b] EXCEPT !.hold = "expired"] \in Position
    BY <2>1 DEF Position
  <2>3. QED BY <1>10, <2>2 DEF HoldExpires, TypeOK, exchange, history
<1>11. CASE PublishBtcContext
  <2>1. PICK v \in Views["btc"] : view' = [view EXCEPT !["btc"].trend = v.trend]
    BY <1>11 DEF PublishBtcContext
  <2>2. v \in View /\ view["btc"] \in View
    BY ViewsAssumption DEF TypeOK, Symbols
  <2>3. [view["btc"] EXCEPT !.trend = v.trend] \in View
    BY <2>2 DEF View
  <2>4. view' \in [Symbols -> View]
    BY <2>1, <2>3 DEF TypeOK
  <2>5. QED BY <1>11, <2>4 DEF PublishBtcContext, TypeOK, exchange, history
<1>12. QED
  BY <1>1, <1>2, <1>3, <1>4, <1>5, <1>6, <1>7, <1>8, <1>9, <1>10, <1>11
  DEF RunBuy, Exchange

\* Every step keeps the types.
LEMMA TypeStep == TypeOK /\ [Next]_vars => TypeOK'
<1> SUFFICES ASSUME TypeOK, [Next]_vars PROVE TypeOK'
  OBVIOUS
<1>1. CASE UNCHANGED vars
  BY <1>1 DEF vars, TypeOK
<1>2. CASE EpochOver
  BY <1>2 DEF EpochOver, vars, TypeOK
<1>3. ASSUME NEW m \in Symbols, Monitor(m) PROVE TypeOK'
  BY <1>3, TypeMonitor, TypeRisk DEF Monitor
<1>4. ASSUME NEW m \in Symbols, RunBuy(m) \/ Exchange(m) \/ HoldExpires(m) PROVE TypeOK'
  BY <1>4, TypeOthers
<1>5. CASE PublishBtcContext
  <2>1. "btc" \in Symbols
    BY DEF Symbols
  <2>2. QED BY <1>5, <2>1, TypeOthers
<1>6. QED BY <1>1, <1>2, <1>3, <1>4, <1>5 DEF Next

\* Every reachable state of the coordinator is well typed: shares and counters
\* never become negative, and a counter stays below its number of cycles.
THEOREM TypeCorrect == Spec => []TypeOK
BY TypeInit, TypeStep, PTL DEF Spec

-----------------------------------------------------------------------------
(* The lock, the buy tasks, and at most one buy per epoch.                  *)

\* The inductive invariant: the properties proved here imply each other's steps,
\* and BuyAccounting says which task may still put an order into the book.
EntryInv == TypeOK /\ LockDiscipline /\ SingleFlight /\ BuySellExclusive /\ BuyAccounting

\* The initial state satisfies it.
LEMMA EntryInit == Init => EntryInv
<1> SUFFICES ASSUME Init PROVE EntryInv
  OBVIOUS
<1>1. TypeOK
  BY TypeInit
<1>2. LockDiscipline
  BY NoneAssumption DEF Init, LockDiscipline, Evaluating, Sleeping
<1>3. SingleFlight /\ BuyAccounting
  <2>1. \A b \in Symbols : /\ strat[b].busy = FALSE /\ strat[b].done = FALSE
                            /\ task[b] = "none" /\ accepted[b] = 0
    BY DEF Init, NewStrategy
  <2>2. QED BY <2>1 DEF SingleFlight, BuyAccounting
<1>4. BuySellExclusive
  BY DEF Init, BuySellExclusive, Sleeping
<1>5. QED BY <1>1, <1>2, <1>3, <1>4 DEF EntryInv

\* Every step of the risk evaluation keeps the lock with its monitor.
LEMMA LockRisk ==
  ASSUME EntryInv, NEW m \in Symbols, Risk(m)
  PROVE  LockDiscipline'
<1>1. /\ tick \in [Symbols -> Tick] /\ lock' = lock
      /\ Evaluating(m) /\ lock = m
  <2>1. Evaluating(m) /\ lock' = lock
    BY DEF Risk, RiskSkip, RiskRefresh, RiskFlat, RiskExhausted, RiskRetry, RiskHold,
           RiskTrigger, SellAnswered, RiskRecheck, Evaluating
  <2>2. QED BY <2>1 DEF EntryInv, TypeOK, LockDiscipline
<1>2. \/ NextTarget(m)
      \/ \E where \in {"refresh", "sell", "recheck"}, n \in Nat : AwaitAt(m, where, n)
  <2>1. tick[m].target \in Symbols
    BY <1>1 DEF Tick
  <2>2. \A r \in Reads(tick[m].target) : PositionShares(r, pos[tick[m].target]) \in Nat
    BY <2>1, ReadsType, PositionSharesType DEF EntryInv, TypeOK
  <2>3. QED
    BY <2>2 DEF Risk, RiskSkip, RiskRefresh, RiskFlat, RiskExhausted, RiskRetry, RiskHold,
                RiskTrigger, SellAnswered, RiskRecheck
<1>3. /\ tick'[m].at \in {"risk", "decide", "refresh", "sell", "recheck"}
      /\ \A s \in Symbols \ {m} : tick'[s] = tick[s]
      /\ running' \in {m, None}
  BY <1>1, <1>2 DEF NextTarget, AwaitAt, Tick
<1>4. QED BY <1>1, <1>3 DEF EntryInv, LockDiscipline, Evaluating

\* Every step keeps the lock with the monitor inside: only AcquireLock, Decide and
\* DecideBusy touch it, and they move the tick along.
LEMMA LockStep == EntryInv /\ [Next]_vars => LockDiscipline'
<1> SUFFICES ASSUME EntryInv, [Next]_vars PROVE LockDiscipline'
  OBVIOUS
<1> USE NoneAssumption DEF EntryInv, LockDiscipline, Evaluating
<1>1. tick \in [Symbols -> Tick]
  BY DEF TypeOK
<1>2. CASE UNCHANGED <<tick, lock, running>>
  BY <1>2
<1>3. ASSUME NEW m \in Symbols, Monitor(m) PROVE LockDiscipline'
  <2>1. CASE Register(m)
    BY <2>1, <1>2 DEF Register
  <2>2. CASE TickEnter(m)
    BY <2>2, <1>1 DEF TickEnter, LoopFree
  <2>3. CASE AcquireLock(m)
    BY <2>3, <1>1 DEF AcquireLock, LoopFree
  <2>4. CASE Risk(m)
    BY <2>4, LockRisk
  <2>5. CASE DecideBusy(m)
    BY <2>5, <1>1 DEF DecideBusy, LeaveLock, Sleeping
  <2>6. CASE Decide(m)
    BY <2>6, <1>1 DEF Decide, LeaveLock, Sleeping
  <2>7. CASE Unregister(m)
    BY <2>7, <1>2 DEF Unregister
  <2>8. QED BY <1>3, <2>1, <2>2, <2>3, <2>4, <2>5, <2>6, <2>7 DEF Monitor
<1>4. ASSUME NEW b \in Symbols, RunBuy(b) \/ Exchange(b) \/ HoldExpires(b)
      PROVE  LockDiscipline'
  <2>1. CASE ExchangeTakesSell(b)
    BY <2>1, <1>1 DEF ExchangeTakesSell, Tick
  <2>2. CASE UNCHANGED <<tick, lock, running>>
    BY <2>2, <1>2
  <2>3. QED
    BY <1>4, <2>1, <2>2
    DEF RunBuy, BuyPlaced, BuyRefreshed, BuyNoMatch, BuyAborted, Exchange,
        ExchangeAccepts, ExchangeRefuses, BuyFills, SellFills, HoldExpires
<1>5. CASE PublishBtcContext
  BY <1>5, <1>2 DEF PublishBtcContext
<1>6. CASE UNCHANGED vars
  BY <1>6, <1>2 DEF vars
<1>7. QED BY <1>3, <1>4, <1>5, <1>6 DEF Next, EpochOver

\* Ticking the strategies turns exactly those busy that get a task, and only
\* strategies that are neither done nor busy, with both slots registered.
LEMMA DecideEffect ==
  ASSUME EntryInv, NEW m \in Symbols, Decide(m), NEW b \in Symbols
  PROVE  /\ strat'[b].done = strat[b].done
         /\ strat'[b].busy = (strat[b].busy \/ Triggers(b))
         /\ task'[b] = IF Triggers(b) THEN "posting" ELSE task[b]
         /\ Triggers(b) => ~strat[b].done /\ ~strat[b].busy /\ life[b] = "up"
<1>1. TickStrategy(b) \in Strategy /\ TickStrategy(b).done = strat[b].done
  BY TickStrategyType DEF EntryInv
<1>2. strat'[b] = [TickStrategy(b) EXCEPT !.busy = strat[b].busy \/ Triggers(b)]
  BY DEF Decide
<1>3. strat'[b].done = strat[b].done /\ strat'[b].busy = (strat[b].busy \/ Triggers(b))
  BY <1>1, <1>2 DEF Strategy
<1>4. task'[b] = IF Triggers(b) THEN "posting" ELSE task[b]
  BY DEF Decide
<1>5. Triggers(b) => ~strat[b].done /\ ~strat[b].busy /\ life[b] = "up"
  BY DEF Triggers, SideOk, BothUp
<1>6. QED BY <1>3, <1>4, <1>5

\* The finally clause clears busy and the task of one strategy.
LEMMA BuyEndsEffect ==
  ASSUME EntryInv, NEW b \in Symbols, NEW final \in BOOLEAN, BuyEnds(b, final)
  PROVE  /\ strat'[b].done = (strat[b].done \/ final) /\ strat'[b].busy = FALSE
         /\ task'[b] = "none"
         /\ \A s \in Symbols \ {b} : strat'[s] = strat[s] /\ task'[s] = task[s]
<1>1. strat \in [Symbols -> Strategy] /\ task \in [Symbols -> Tasks]
  BY DEF EntryInv, TypeOK
<1>2. strat[b] \in Strategy
  BY <1>1
<1>3. strat' = [strat EXCEPT ![b] = [strat[b] EXCEPT !.busy = FALSE, !.done = strat[b].done \/ final]]
  BY DEF BuyEnds
<1>4. strat'[b] = [strat[b] EXCEPT !.busy = FALSE, !.done = strat[b].done \/ final]
  BY <1>1, <1>3
<1>5. strat'[b].done = (strat[b].done \/ final) /\ strat'[b].busy = FALSE
  BY <1>2, <1>4 DEF Strategy
<1>6. QED BY <1>1, <1>3, <1>5 DEF BuyEnds

\* Nothing but these steps touches a strategy, a task or the order book.
LEMMA OrderSteps ==
  ASSUME [Next]_vars
  PROVE  \/ UNCHANGED <<strat, task, accepted, life>>
         \/ \E m \in Symbols :
              \/ Register(m) \/ Decide(m) \/ Unregister(m) \/ BuyPlaced(m)
              \/ BuyRefreshed(m) \/ BuyNoMatch(m) \/ BuyAborted(m)
              \/ ExchangeAccepts(m) \/ ExchangeRefuses(m)
<1>1. ASSUME NEW m \in Symbols, TickEnter(m) \/ AcquireLock(m) \/ DecideBusy(m)
      PROVE  UNCHANGED <<strat, task, accepted, life>>
  BY <1>1 DEF TickEnter, AcquireLock, DecideBusy, history
<1>2. ASSUME NEW m \in Symbols, Risk(m)
      PROVE  UNCHANGED <<strat, task, accepted, life>>
  BY <1>2 DEF Risk, RiskSkip, RiskRefresh, RiskFlat, RiskExhausted, RiskRetry, RiskHold,
              RiskTrigger, SellAnswered, RiskRecheck, history
<1>3. ASSUME NEW m \in Symbols, BuyFills(m) \/ ExchangeTakesSell(m) \/ SellFills(m) \/ HoldExpires(m)
      PROVE  UNCHANGED <<strat, task, accepted, life>>
  BY <1>3 DEF BuyFills, ExchangeTakesSell, SellFills, HoldExpires, history
<1>4. CASE PublishBtcContext \/ EpochOver \/ UNCHANGED vars
  BY <1>4 DEF PublishBtcContext, EpochOver, vars, history
<1>5. QED
  BY <1>1, <1>2, <1>3, <1>4 DEF Next, Monitor, RunBuy, Exchange

\* Every step keeps busy and task together, and the orders accounted for.
LEMMA BuyStep == EntryInv /\ [Next]_vars => SingleFlight' /\ BuyAccounting'
<1> SUFFICES ASSUME EntryInv, [Next]_vars PROVE SingleFlight' /\ BuyAccounting'
  OBVIOUS
<1> USE DEF SingleFlight, BuyAccounting
<1>0. SingleFlight /\ BuyAccounting /\ TypeOK
  BY DEF EntryInv
<1>1. CASE UNCHANGED <<strat, task, accepted, life>>
  BY <1>0, <1>1
<1>2. ASSUME NEW m \in Symbols, Register(m) PROVE SingleFlight' /\ BuyAccounting'
  BY <1>0, <1>2 DEF Register, TypeOK, history
<1>3. ASSUME NEW m \in Symbols, Decide(m) PROVE SingleFlight' /\ BuyAccounting'
  <2>1. UNCHANGED <<life, accepted>>
    BY <1>3 DEF Decide, history
  <2>2. QED BY <1>0, <1>3, <2>1, DecideEffect
<1>4. ASSUME NEW m \in Symbols, Unregister(m) PROVE SingleFlight' /\ BuyAccounting'
  <2>1. BuyEnds(m, FALSE) /\ accepted' = accepted /\ life' = [life EXCEPT ![m] = "gone"]
    BY <1>4 DEF Unregister, history
  <2>2. /\ strat'[m].busy = FALSE /\ task'[m] = "none" /\ life'[m] = "gone"
        /\ \A s \in Symbols \ {m} : /\ strat'[s] = strat[s] /\ task'[s] = task[s]
                                    /\ life'[s] = life[s]
    <3>1. /\ strat'[m].busy = FALSE /\ task'[m] = "none"
          /\ \A s \in Symbols \ {m} : strat'[s] = strat[s] /\ task'[s] = task[s]
      BY <2>1, BuyEndsEffect
    <3>2. life'[m] = "gone" /\ \A s \in Symbols \ {m} : life'[s] = life[s]
      BY <1>0, <2>1 DEF TypeOK
    <3>3. QED BY <3>1, <3>2
  <2>3. SingleFlight'
    BY <1>0, <2>2
  <2>4. BuyAccounting'
    BY <1>0, <2>1, <2>2
  <2>5. QED BY <2>3, <2>4
<1>5. ASSUME NEW b \in Symbols, BuyPlaced(b) PROVE SingleFlight' /\ BuyAccounting'
  <2>1. strat'[b].done = TRUE /\ strat'[b].busy = strat[b].busy
    <3>1. strat[b] \in Strategy
      BY <1>0 DEF TypeOK
    <3>2. strat'[b] = [strat[b] EXCEPT !.done = TRUE]
      BY <1>0, <1>5 DEF BuyPlaced, TypeOK
    <3>3. QED BY <3>1, <3>2 DEF Strategy
  <2>2. \A s \in Symbols \ {b} : strat'[s] = strat[s]
    BY <1>0, <1>5 DEF BuyPlaced, TypeOK
  <2>3. /\ task[b] = "accepted" /\ task'[b] = "refreshing"
        /\ \A s \in Symbols \ {b} : task'[s] = task[s]
        /\ UNCHANGED <<accepted, life>>
    BY <1>0, <1>5 DEF BuyPlaced, TypeOK, history
  <2>4. SingleFlight'
    BY <1>0, <2>1, <2>2, <2>3
  <2>5. BuyAccounting'
    BY <1>0, <2>1, <2>2, <2>3
  <2>6. QED BY <2>4, <2>5
<1>6. ASSUME NEW b \in Symbols, BuyRefreshed(b) \/ BuyNoMatch(b) \/ BuyAborted(b)
      PROVE  SingleFlight' /\ BuyAccounting'
  <2>1. PICK final \in BOOLEAN :
          /\ BuyEnds(b, final)
          /\ task[b] = "refused" => final
          /\ task[b] \in {"refreshing", "nomatch", "refused"}
    BY <1>6 DEF BuyRefreshed, BuyNoMatch, BuyAborted
  <2>2. UNCHANGED <<accepted, life>>
    BY <1>6 DEF BuyRefreshed, BuyNoMatch, BuyAborted, history
  <2>3. /\ strat'[b].done = (strat[b].done \/ final) /\ strat'[b].busy = FALSE
        /\ task'[b] = "none"
        /\ \A s \in Symbols \ {b} : strat'[s] = strat[s] /\ task'[s] = task[s]
    BY <2>1, BuyEndsEffect
  <2>4. SingleFlight'
    BY <1>0, <2>3
  <2>5. ~strat'[b].done /\ life[b] # "gone" => accepted[b] = 0
    BY <1>0, <2>1, <2>3
  <2>6. BuyAccounting'
    BY <1>0, <2>2, <2>3, <2>5
  <2>7. QED BY <2>4, <2>6
<1>7. ASSUME NEW b \in Symbols, ExchangeAccepts(b) PROVE SingleFlight' /\ BuyAccounting'
  <2>1. /\ task[b] = "posting" /\ task'[b] \in {"accepted", "refused"}
        /\ \A s \in Symbols \ {b} : task'[s] = task[s] /\ accepted'[s] = accepted[s]
        /\ accepted'[b] = accepted[b] + 1
        /\ UNCHANGED <<strat, life>>
    BY <1>0, <1>7 DEF ExchangeAccepts, TypeOK
  <2>2. SingleFlight'
    BY <1>0, <2>1
  <2>3. BuyAccounting'
    BY <1>0, <2>1
  <2>4. QED BY <2>2, <2>3
<1>8. ASSUME NEW b \in Symbols, ExchangeRefuses(b) PROVE SingleFlight' /\ BuyAccounting'
  BY <1>0, <1>8 DEF ExchangeRefuses, TypeOK, history
<1>9. QED
  BY <1>1, <1>2, <1>3, <1>4, <1>5, <1>6, <1>7, <1>8, OrderSteps

\* The awaits of a risk evaluation.
Awaits == {"refresh", "sell", "recheck"}

\* A monitor gets to an await of the risk evaluation from another one of the
\* same slot, or by RiskRefresh, which finds the slot without a buy task.
LEMMA AwaitSteps ==
  ASSUME TypeOK, [Next]_vars, NEW m \in Symbols, tick'[m].at \in Awaits
  PROVE  \/ tick[m].at \in Awaits /\ tick'[m].target = tick[m].target
         \/ RiskRefresh(m) /\ tick'[m].target = tick[m].target
<1> USE DEF Awaits
<1>1. tick \in [Symbols -> Tick] /\ tick[m] \in Tick
  BY DEF TypeOK
<1>2. CASE tick'[m] = tick[m]
  BY <1>2
<1>3. ASSUME NEW n \in Symbols, NextTarget(n) \/ LeaveLock(n) \/ TickEnter(n) \/ AcquireLock(n)
      PROVE  n # m
  BY <1>1, <1>3 DEF NextTarget, LeaveLock, Sleeping, TickEnter, AcquireLock, Tick
<1>4. ASSUME NEW n \in Symbols, n # m, Monitor(n) PROVE tick'[m] = tick[m]
  BY <1>1, <1>4
  DEF Monitor, Register, TickEnter, AcquireLock, DecideBusy, Decide, Unregister, Risk,
      RiskSkip, RiskRefresh, RiskFlat, RiskExhausted, RiskRetry, RiskHold, RiskTrigger,
      SellAnswered, RiskRecheck, NextTarget, AwaitAt, LeaveLock
<1>5. ASSUME Monitor(m), tick'[m] # tick[m]
      PROVE  \/ tick[m].at \in Awaits /\ tick'[m].target = tick[m].target
             \/ RiskRefresh(m) /\ tick'[m].target = tick[m].target
  <2>1. RiskRefresh(m) \/ RiskRetry(m) \/ RiskTrigger(m) \/ SellAnswered(m)
    BY <1>3, <1>5
    DEF Monitor, Register, DecideBusy, Decide, Unregister, Risk, RiskSkip, RiskFlat,
        RiskExhausted, RiskHold, RiskRecheck
  <2>2. \A where, n : AwaitAt(m, where, n) => tick'[m].target = tick[m].target
    BY <1>1 DEF AwaitAt, Tick
  <2>3. QED
    BY <2>1, <2>2 DEF RiskRefresh, RiskRetry, RiskTrigger, SellAnswered
<1>6. ASSUME NEW n \in Symbols, ExchangeTakesSell(n)
      PROVE  tick'[m].at = tick[m].at /\ tick'[m].target = tick[m].target
  BY <1>1, <1>6 DEF ExchangeTakesSell, Tick
<1>7. ASSUME NEW n \in Symbols, RunBuy(n) \/ Exchange(n) \/ HoldExpires(n), ~ExchangeTakesSell(n)
      PROVE  tick' = tick
  BY <1>7
  DEF RunBuy, BuyPlaced, BuyRefreshed, BuyNoMatch, BuyAborted, Exchange,
      ExchangeAccepts, ExchangeRefuses, BuyFills, SellFills, HoldExpires
<1>8. CASE PublishBtcContext \/ EpochOver \/ UNCHANGED vars
  BY <1>2, <1>8 DEF PublishBtcContext, EpochOver, vars
<1>9. QED
  BY <1>2, <1>4, <1>5, <1>6, <1>7, <1>8 DEF Next

\* A slot under evaluation by the lock holder gets no buy task: tasks are
\* created by the lock holder only, behind its evaluation.
LEMMA ExclusiveStep == EntryInv /\ [Next]_vars => BuySellExclusive'
<1> SUFFICES ASSUME EntryInv, [Next]_vars,
                    NEW m \in Symbols, tick'[m].at \in Awaits
             PROVE  task'[tick'[m].target] = "none"
  BY DEF BuySellExclusive, Awaits
<1> DEFINE s == tick[m].target
<1>0. TypeOK /\ LockDiscipline /\ BuySellExclusive /\ LockDiscipline'
  BY LockStep DEF EntryInv
<1>1. s \in Symbols
  BY <1>0 DEF TypeOK, Tick
<1>2. task[s] = "none" /\ tick'[m].target = s
  BY <1>0, <1>1, AwaitSteps DEF BuySellExclusive, Awaits, RiskRefresh, Evaluable
<1>3. lock' = m
  BY <1>0 DEF LockDiscipline, Evaluating, Awaits
<1> HIDE DEF s
<1>4. task'[s] = "none"
  <2>1. ASSUME NEW n \in Symbols, Decide(n) PROVE FALSE
    BY <1>3, <2>1, NoneAssumption DEF Decide, LeaveLock
  <2>2. CASE UNCHANGED task
    BY <1>2, <2>2
  <2>3. ASSUME NEW b \in Symbols, Unregister(b) \/ BuyRefreshed(b) \/ BuyNoMatch(b) \/ BuyAborted(b)
        PROVE  task'[s] = "none"
    BY <1>0, <1>1, <1>2, <2>3
    DEF Unregister, BuyRefreshed, BuyNoMatch, BuyAborted, BuyEnds, TypeOK
  <2>4. ASSUME NEW b \in Symbols, BuyPlaced(b) \/ ExchangeAccepts(b) \/ ExchangeRefuses(b)
        PROVE  task'[s] = "none"
    <3>1. task[b] # "none" /\ \A c \in Symbols \ {b} : task'[c] = task[c]
      BY <1>0, <2>4 DEF BuyPlaced, ExchangeAccepts, ExchangeRefuses, TypeOK
    <3>2. QED BY <1>1, <1>2, <3>1
  <2>5. ASSUME NEW b \in Symbols, Register(b) PROVE UNCHANGED task
    BY <2>5 DEF Register
  <2>6. QED BY <2>1, <2>2, <2>3, <2>4, <2>5, OrderSteps
<1>5. QED BY <1>2, <1>4

\* Every step keeps the whole invariant.
LEMMA EntryStep == EntryInv /\ [Next]_vars => EntryInv'
BY TypeStep, LockStep, BuyStep, ExclusiveStep DEF EntryInv

\* Hence it holds in every reachable state.
LEMMA EntryInvariant == Spec => []EntryInv
BY EntryInit, EntryStep, PTL DEF Spec

\* At most one buy order per strategy reaches the book in an epoch, whatever
\* the exchange answers, loses or fills and however the two monitors interleave.
THEOREM OneBuyPerEpoch == Spec => []AtMostOneBuy
<1>1. EntryInv => AtMostOneBuy
  BY DEF EntryInv, BuyAccounting, AtMostOneBuy
<1>2. QED BY <1>1, EntryInvariant, PTL

\* The coordinator's lock is held exactly between `async with self._lock' and
\* the end of the tick, so the risk exits and entries of two ticks never overlap.
THEOREM LockHeldInside == Spec => []LockDiscipline
<1>1. EntryInv => LockDiscipline
  BY DEF EntryInv
<1>2. QED BY <1>1, EntryInvariant, PTL

\* No sell order of a slot is decided or posted while its buy task runs.
THEOREM NoSellDuringBuy == Spec => []BuySellExclusive
<1>1. EntryInv => BuySellExclusive
  BY DEF EntryInv
<1>2. QED BY <1>1, EntryInvariant, PTL

\* A strategy is busy exactly while its task runs.
THEOREM BusyIffTask == Spec => []SingleFlight
<1>1. EntryInv => SingleFlight
  BY DEF EntryInv
<1>2. QED BY <1>1, EntryInvariant, PTL

-----------------------------------------------------------------------------
(* The locked outcome.                                                      *)

\* Ticking a strategy keeps an outcome it has locked.
LEMMA LockedKept ==
  ASSUME TypeOK, NEW b \in Symbols, strat[b].locked # ""
  PROVE  TickStrategy(b).locked = strat[b].locked
<1>1. strat[b] \in Strategy
  BY DEF TypeOK
<1>2. QED BY <1>1 DEF TickStrategy, Strategy

\* A strategy never changes an outcome it has locked, in or out of its window,
\* with or without a buy task, whatever becomes of its order.
THEOREM LockedForTheEpoch == Spec => OutcomeLocked
<1> DEFINE Step == \A b \in Symbols :
                     strat[b].locked # "" => strat'[b].locked = strat[b].locked
<1>1. ASSUME TypeOK, [Next]_vars, NEW b \in Symbols, strat[b].locked # ""
      PROVE  strat'[b].locked = strat[b].locked
  <2>1. strat \in [Symbols -> Strategy] /\ strat[b] \in Strategy
    BY <1>1 DEF TypeOK
  <2>2. CASE UNCHANGED strat
    BY <2>2
  <2>3. ASSUME NEW m \in Symbols, Decide(m) PROVE strat'[b].locked = strat[b].locked
    <3>1. TickStrategy(b) \in Strategy /\ TickStrategy(b).locked = strat[b].locked
      BY <1>1, TickStrategyType, LockedKept
    <3>2. strat'[b] = [TickStrategy(b) EXCEPT !.busy = strat[b].busy \/ Triggers(b)]
      BY <2>3 DEF Decide
    <3>3. QED BY <3>1, <3>2 DEF Strategy
  <2>4. ASSUME NEW m \in Symbols,
               Unregister(m) \/ BuyRefreshed(m) \/ BuyNoMatch(m) \/ BuyAborted(m)
        PROVE  strat'[b].locked = strat[b].locked
    <3>1. PICK final \in BOOLEAN : BuyEnds(m, final)
      BY <2>4 DEF Unregister, BuyRefreshed, BuyNoMatch, BuyAborted
    <3>2. strat' = [strat EXCEPT ![m] = [strat[m] EXCEPT !.busy = FALSE,
                                                         !.done = strat[m].done \/ final]]
      BY <3>1 DEF BuyEnds
    <3>3. \/ strat'[b] = strat[b]
          \/ strat'[b] = [strat[b] EXCEPT !.busy = FALSE, !.done = strat[b].done \/ final]
      BY <2>1, <3>2
    <3>4. QED BY <2>1, <3>3 DEF Strategy
  <2>5. ASSUME NEW m \in Symbols, BuyPlaced(m) PROVE strat'[b].locked = strat[b].locked
    BY <2>1, <2>5 DEF BuyPlaced, Strategy
  <2>6. ASSUME NEW m \in Symbols, Register(m) \/ ExchangeAccepts(m) \/ ExchangeRefuses(m)
        PROVE  UNCHANGED strat
    BY <2>6 DEF Register, ExchangeAccepts, ExchangeRefuses
  <2>7. QED BY <1>1, <2>2, <2>3, <2>4, <2>5, <2>6, OrderSteps
<1>2. TypeOK /\ [Next]_vars => [Step]_vars
  BY <1>1
<1>3. QED BY <1>2, TypeCorrect, PTL DEF Spec, OutcomeLocked

-----------------------------------------------------------------------------
(* The sell orders of a position.                                           *)

\* The attempts of a position are the sells that were posted, and while an exit
\* is under way it has a reason to compare them with.
Budgeted(p, n) ==
  /\ p.attempts = n
  /\ \E r \in Reasons : n <= MaxSells[r]
  /\ p.exitBusy => p.reason \in Reasons

SellsOK == \A s \in Symbols : Budgeted(pos[s], sells[s])

\* Neither the ingestion of a balance nor the choice of a reason touches what the
\* budget is about.
LEMMA BudgetKept ==
  ASSUME NEW p \in Position, NEW q \in Position, NEW n \in Nat, Budgeted(p, n),
         q.attempts = p.attempts, q.reason = p.reason, q.exitBusy => p.exitBusy
  PROVE  Budgeted(q, n)
BY Zenon DEF Budgeted

\* A further attempt, granted by TriesLeft, stays within the budget.
LEMMA BudgetSpent ==
  ASSUME NEW p \in Position, NEW n \in Nat, Budgeted(p, n), NEW reason \in Reasons,
         TriesLeft(p, reason)
  PROVE  n + 1 = p.attempts + 1 /\ \E r \in Reasons : n + 1 <= MaxSells[r]
<1>1. MaxSells[reason] \in Nat /\ p.attempts = n
  BY SellsAssumption DEF Budgeted
<1>2. n + 1 <= MaxSells[reason]
  BY <1>1 DEF TriesLeft
<1>3. QED BY <1>1, <1>2

\* Only a retry and a trigger post a sell order; nothing else touches attempts,
\* reason or the flag of an exit, except to end it.
LEMMA SellSteps ==
  ASSUME TypeOK, [Next]_vars, NEW s \in Symbols
  PROVE  \/ /\ sells'[s] = sells[s]
            /\ pos'[s].attempts = pos[s].attempts /\ pos'[s].reason = pos[s].reason
            /\ pos'[s].exitBusy => pos[s].exitBusy
         \/ \E m \in Symbols : RiskRetry(m) /\ tick[m].target = s
         \/ \E m \in Symbols : RiskTrigger(m) /\ tick[m].target = s
<1> DEFINE Kept == /\ sells'[s] = sells[s]
                   /\ pos'[s].attempts = pos[s].attempts /\ pos'[s].reason = pos[s].reason
                   /\ pos'[s].exitBusy => pos[s].exitBusy
<1>0. pos \in [Symbols -> Position] /\ pos[s] \in Position /\ tick \in [Symbols -> Tick]
      /\ sells \in [Symbols -> Nat]
  BY DEF TypeOK
<1>1. \A r : /\ Ingest(pos[s], r).attempts = pos[s].attempts
             /\ Ingest(pos[s], r).reason = pos[s].reason
             /\ Ingest(pos[s], r).exitBusy = pos[s].exitBusy
  BY <1>0 DEF Ingest, Position
<1>2. CASE UNCHANGED <<pos, sells>>
  BY <1>2, Zenon
<1>3. ASSUME NEW m \in Symbols, TickEnter(m) PROVE Kept
  <2>1. pos'[s] = pos[s] \/ \E r : pos'[s] = Ingest(pos[s], r)
    BY <1>0, <1>3 DEF TickEnter
  <2>2. sells' = sells
    BY <1>3 DEF TickEnter, history
  <2>3. QED BY <1>1, <2>1, <2>2, Zenon
<1>4. ASSUME NEW m \in Symbols, AcquireLock(m) PROVE Kept
  <2>1. pos'[s] = pos[s] \/ \E r : pos'[s] = Ingest(pos[s], r)
    BY <1>4 DEF AcquireLock
  <2>2. sells' = sells
    BY <1>4 DEF AcquireLock, history
  <2>3. QED BY <1>1, <2>1, <2>2, Zenon
<1>5. ASSUME NEW m \in Symbols, BuyRefreshed(m) PROVE Kept
  <2>1. pos'[s] = pos[s] \/ \E r : pos'[s] = Ingest(pos[s], r)
    BY <1>0, <1>5 DEF BuyRefreshed
  <2>2. sells' = sells
    BY <1>5 DEF BuyRefreshed, history
  <2>3. QED BY <1>1, <2>1, <2>2, Zenon
<1>6. ASSUME NEW m \in Symbols, BuyPlaced(m) PROVE Kept
  <2>1. sells' = sells
    BY <1>6 DEF BuyPlaced, history
  <2>2. pos' = [pos EXCEPT ![m] = [pos[m] EXCEPT !.outcome = strat[m].locked, !.pending = TRUE,
                                                 !.baseline = rem[m]]]
    BY <1>6 DEF BuyPlaced
  <2>3. pos'[s] = pos[s] \/ pos'[s] = [pos[s] EXCEPT !.outcome = strat[m].locked,
                                                 !.pending = TRUE, !.baseline = rem[m]]
    BY <1>0, <2>2
  <2>4. QED BY <1>0, <2>1, <2>3 DEF Position
<1>7. ASSUME NEW m \in Symbols, HoldExpires(m) PROVE Kept
  <2>1. sells' = sells
    BY <1>7 DEF HoldExpires, history
  <2>2. pos'[s] = pos[s] \/ pos'[s] = [pos[s] EXCEPT !.hold = "expired"]
    BY <1>0, <1>7 DEF HoldExpires
  <2>3. QED BY <1>0, <2>1, <2>2 DEF Position
<1>8. ASSUME NEW m \in Symbols, RiskFlat(m) \/ RiskExhausted(m) \/ RiskRecheck(m)
      PROVE  Kept
  <2>1. sells' = sells
    BY <1>8 DEF RiskFlat, RiskExhausted, RiskRecheck, history
  <2>2. \/ pos'[s] = pos[s]
        \/ pos'[s] = [pos[s] EXCEPT !.closed = TRUE]
        \/ pos'[s] = [pos[s] EXCEPT !.exitBusy = FALSE]
        \/ pos'[s] = [pos[s] EXCEPT !.exitBusy = FALSE, !.closed = TRUE,
                                    !.risk1 = 0, !.risk3 = 0]
    <3> DEFINE t == tick[m].target
    <3>1. CASE RiskFlat(m)
      <4>1. pos' = [pos EXCEPT ![t] = [pos[t] EXCEPT !.closed = TRUE]]
        BY <3>1 DEF RiskFlat
      <4>2. QED BY <1>0, <4>1
    <3>2. CASE RiskExhausted(m)
      <4>1. pos' = [pos EXCEPT ![t] = [pos[t] EXCEPT !.exitBusy = FALSE]]
        BY <3>2 DEF RiskExhausted
      <4>2. QED BY <1>0, <4>1
    <3>3. CASE RiskRecheck(m)
      <4>1. \/ pos' = pos
            \/ pos' = [pos EXCEPT ![t] = [pos[t] EXCEPT !.exitBusy = FALSE, !.closed = TRUE,
                                                       !.risk1 = 0, !.risk3 = 0]]
        BY <3>3 DEF RiskRecheck
      <4>2. QED BY <1>0, <4>1
    <3>4. QED BY <1>8, <3>1, <3>2, <3>3
  <2>3. QED BY <1>0, <2>1, <2>2 DEF Position
<1>9. ASSUME NEW m \in Symbols, RiskHold(m) PROVE Kept
  <2>1. sells' = sells
    BY <1>9 DEF RiskHold, history
  <2>2. \/ pos'[s] = pos[s]
        \/ \E bid : pos'[s] = PickCounters(pos[s], bid)
    BY <1>0, <1>9 DEF RiskHold
  <2>3. QED BY <1>0, <2>1, <2>2 DEF PickCounters, Position
<1>10. ASSUME NEW m \in Symbols, RiskRetry(m) \/ RiskTrigger(m), tick[m].target # s PROVE Kept
  BY <1>0, <1>10 DEF RiskRetry, RiskTrigger, Tick
<1>11. ASSUME NEW m \in Symbols,
              \/ Register(m) \/ RiskSkip(m) \/ RiskRefresh(m) \/ SellAnswered(m)
              \/ DecideBusy(m) \/ Decide(m) \/ Unregister(m) \/ BuyNoMatch(m) \/ BuyAborted(m)
              \/ Exchange(m)
       PROVE  UNCHANGED <<pos, sells>>
  BY <1>11
  DEF Register, RiskSkip, RiskRefresh, SellAnswered, DecideBusy, Decide, Unregister,
      BuyNoMatch, BuyAborted, Exchange, ExchangeAccepts, ExchangeRefuses, BuyFills,
      ExchangeTakesSell, SellFills, history
<1>12. CASE PublishBtcContext \/ EpochOver \/ UNCHANGED vars
  BY <1>2, <1>12 DEF PublishBtcContext, EpochOver, vars, history
<1>13. QED
  BY <1>2, <1>3, <1>4, <1>5, <1>6, <1>7, <1>8, <1>9, <1>10, <1>11, <1>12
  DEF Next, Monitor, Risk, RunBuy

\* Every step keeps the sells within the budget.
LEMMA SellsKept == TypeOK /\ TypeOK' /\ SellsOK /\ [Next]_vars => SellsOK'
<1> SUFFICES ASSUME TypeOK, TypeOK', SellsOK, [Next]_vars, NEW s \in Symbols
             PROVE  Budgeted(pos'[s], sells'[s])
  BY DEF SellsOK
<1>1. /\ pos[s] \in Position /\ pos'[s] \in Position /\ sells[s] \in Nat
      /\ Budgeted(pos[s], sells[s])
  BY DEF TypeOK, SellsOK
<1>2. CASE /\ sells'[s] = sells[s]
           /\ pos'[s].attempts = pos[s].attempts /\ pos'[s].reason = pos[s].reason
           /\ pos'[s].exitBusy => pos[s].exitBusy
  <2>1. Budgeted(pos'[s], sells[s])
    BY <1>1, <1>2, BudgetKept, Zenon
  <2>2. QED BY <1>2, <2>1, Zenon
<1>3. ASSUME NEW m \in Symbols, RiskRetry(m), tick[m].target = s
      PROVE  Budgeted(pos'[s], sells'[s])
  <2>1. /\ pos[s].exitBusy /\ TriesLeft(pos[s], pos[s].reason)
        /\ pos' = [pos EXCEPT ![s] = [pos[s] EXCEPT !.attempts = pos[s].attempts + 1]]
        /\ sells' = [sells EXCEPT ![s] = sells[s] + 1]
    BY <1>3 DEF RiskRetry
  <2>2. pos[s].reason \in Reasons
    BY <1>1, <2>1, Zenon DEF Budgeted
  <2>3. sells[s] + 1 = pos[s].attempts + 1 /\ \E r \in Reasons : sells[s] + 1 <= MaxSells[r]
    BY <1>1, <2>1, <2>2, BudgetSpent
  <2>4. /\ sells'[s] = sells[s] + 1
        /\ pos'[s] = [pos[s] EXCEPT !.attempts = pos[s].attempts + 1]
    BY <2>1 DEF TypeOK
  <2>5. pos'[s].attempts = pos[s].attempts + 1 /\ pos'[s].reason = pos[s].reason
    BY <1>1, <2>4 DEF Position
  <2>6. QED BY <2>2, <2>3, <2>4, <2>5, Zenon DEF Budgeted
<1>4. ASSUME NEW m \in Symbols, RiskTrigger(m), tick[m].target = s
      PROVE  Budgeted(pos'[s], sells'[s])
  <2> DEFINE bid == BestBid(s, pos[s].outcome)
             reason == PickReason(pos[s], bid)
  <2>1. /\ reason # "" /\ TriesLeft(pos[s], reason)
        /\ pos' = [pos EXCEPT ![s] = [PickCounters(pos[s], bid) EXCEPT
                                        !.exitBusy = TRUE, !.reason = reason,
                                        !.attempts = @ + 1]]
        /\ sells' = [sells EXCEPT ![s] = sells[s] + 1]
    BY <1>4 DEF RiskTrigger
  <2>2. bid \in Bids
    BY BestBidType
  <2> HIDE DEF bid
  <2>3. PickCounters(pos[s], bid) \in Position /\ reason \in Reasons
    BY <1>1, <2>1, <2>2, PickType
  <2>4. PickCounters(pos[s], bid).attempts = pos[s].attempts
    BY <1>1 DEF PickCounters, Position
  <2> HIDE DEF reason
  <2>5. sells[s] + 1 = pos[s].attempts + 1 /\ \E r \in Reasons : sells[s] + 1 <= MaxSells[r]
    BY <1>1, <2>1, <2>3, BudgetSpent
  <2>6. /\ sells'[s] = sells[s] + 1
        /\ pos'[s] = [PickCounters(pos[s], bid) EXCEPT !.exitBusy = TRUE, !.reason = reason,
                                                       !.attempts = @ + 1]
    BY <2>1 DEF TypeOK
  <2>7. pos'[s].attempts = pos[s].attempts + 1 /\ pos'[s].reason = reason
    BY <2>3, <2>4, <2>6 DEF Position
  <2>8. QED BY <2>3, <2>5, <2>6, <2>7, Zenon DEF Budgeted
<1>5. QED BY <1>2, <1>3, <1>4, SellSteps

\* No sell order has been posted in the initial state.
LEMMA SellsInit == Init => SellsOK
<1> SUFFICES ASSUME Init, NEW s \in Symbols PROVE Budgeted(pos[s], sells[s])
  BY DEF SellsOK
<1>1. pos[s] = NoPosition /\ sells[s] = 0
  BY DEF Init
<1>2. "risk1" \in Reasons
  BY DEF Reasons
<1>3. 0 <= MaxSells["risk1"]
  BY <1>2, SellsAssumption
<1>4. NoPosition.attempts = 0 /\ NoPosition.exitBusy = FALSE
  BY DEF NoPosition
<1>5. pos[s].attempts = 0 /\ pos[s].exitBusy = FALSE
  BY <1>1, <1>4, Zenon
<1>6. QED BY <1>1, <1>2, <1>3, <1>5, Zenon DEF Budgeted

\* No position posts more sell orders than the largest number of attempts
\* configured, however its three exits share their counter.
THEOREM SellsAreBudgeted == Spec => []SellBudget
<1>1. Init => SellsOK
  BY SellsInit
<1>2. TypeOK /\ TypeOK' /\ SellsOK /\ [Next]_vars => SellsOK'
  BY SellsKept
<1>3. SellsOK => SellBudget
  BY Zenon DEF SellsOK, Budgeted, SellBudget
<1>4. QED BY <1>1, <1>2, <1>3, TypeCorrect, PTL DEF Spec

-----------------------------------------------------------------------------
(* Confirmed fills.                                                         *)

\* The baseline of a position counts every share of its outcome held before.
Based(p, w) == p.outcome \in Outcomes => p.baseline[p.outcome] >= w[p.outcome]

\* What is open of the one order accepted, that a slot holds no more than what was
\* held before and what was bought since, and that a position stands for that order.
FillOK ==
  \A b \in Symbols :
    /\ openBuy[b] <= Size /\ (accepted[b] = 0 => openBuy[b] = 0)
    /\ task[b] = "accepted" => accepted[b] = 1
    /\ \A o \in Outcomes : rem[b][o] <= before[b][o] + Bought(b)
    /\ pos[b].pending \/ pos[b].confirmed => accepted[b] = 1
    /\ pos[b].pending /\ b \notin blind => Based(pos[b], before[b])
    /\ pos[b].confirmed /\ b \notin blind => openBuy[b] < Size

\* The shares bought are never fewer than none, nor do they become fewer.
LEMMA BoughtGrows ==
  ASSUME EntryInv, FillOK, [Next]_vars, NEW b \in Symbols
  PROVE  /\ Bought(b) \in Nat /\ Bought(b)' \in Int /\ Bought(b)' >= Bought(b)
         /\ openBuy'[b] <= Size /\ (accepted'[b] = 0 => openBuy'[b] = 0)
         /\ openBuy[b] < Size /\ accepted[b] = 1 => openBuy'[b] < Size
         /\ accepted[b] = 1 => accepted'[b] = 1
<1>1. /\ openBuy \in [Symbols -> Nat] /\ accepted \in [Symbols -> Nat] /\ Size \in Nat
      /\ openBuy[b] \in Nat /\ accepted[b] \in 0..1
      /\ openBuy[b] <= Size /\ (accepted[b] = 0 => openBuy[b] = 0)
  <2>1. openBuy \in [Symbols -> Nat] /\ accepted \in [Symbols -> Nat] /\ Size \in Nat
    BY SizeAssumption DEF EntryInv, TypeOK
  <2>2. accepted[b] <= 1
    BY DEF EntryInv, BuyAccounting
  <2>3. openBuy[b] <= Size /\ (accepted[b] = 0 => openBuy[b] = 0)
    BY DEF FillOK
  <2>4. QED BY <2>1, <2>2, <2>3
<1>2. Bought(b) = (IF accepted[b] = 0 THEN 0 ELSE Size - openBuy[b])
  BY <1>1 DEF Bought
<1>3. CASE UNCHANGED <<openBuy, accepted>>
  BY <1>1, <1>2, <1>3 DEF Bought
<1>4. ASSUME NEW m \in Symbols, ExchangeAccepts(m)
      PROVE  /\ Bought(b)' = Bought(b) /\ openBuy'[b] <= Size
             /\ (accepted'[b] = 0 => openBuy'[b] = 0)
             /\ accepted[b] = 1 => openBuy'[b] = openBuy[b] /\ accepted'[b] = accepted[b]
  <2>1. accepted[m] = 0 /\ openBuy[m] = 0
    BY <1>4 DEF EntryInv, BuyAccounting, ExchangeAccepts, FillOK
  <2>2. \/ m # b /\ openBuy'[b] = openBuy[b] /\ accepted'[b] = accepted[b]
        \/ m = b /\ openBuy'[b] = Size /\ accepted'[b] = 1
    BY <1>1, <1>4, <2>1 DEF ExchangeAccepts
  <2>3. CASE m # b
    BY <1>1, <2>2, <2>3 DEF Bought
  <2>4. CASE m = b
    <3>1. Bought(b) = 0
      BY <1>2, <2>1, <2>4
    <3>2. openBuy'[b] = Size /\ accepted'[b] = 1
      BY <2>2, <2>4
    <3>3. Bought(b)' = 0
      BY <1>1, <3>2 DEF Bought
    <3>4. QED BY <1>1, <2>1, <2>4, <3>1, <3>2, <3>3
  <2>5. QED BY <2>3, <2>4
<1>5. ASSUME NEW m \in Symbols, BuyFills(m)
      PROVE  /\ accepted'[b] = accepted[b]
             /\ openBuy'[b] \in {openBuy[b], openBuy[b] - 1} /\ openBuy'[b] >= 0
  BY <1>1, <1>5 DEF BuyFills, history
<1>6. ASSUME NEW m \in Symbols, BuyFills(m)
      PROVE  /\ Bought(b)' = (IF accepted[b] = 0 THEN 0 ELSE Size - openBuy'[b])
             /\ accepted[b] = 0 => openBuy'[b] = 0
  BY <1>1, <1>5, <1>6 DEF Bought
<1>7. ASSUME NEW m \in Symbols, Monitor(m) \/ RunBuy(m) \/ HoldExpires(m)
      PROVE  UNCHANGED <<openBuy, accepted>>
  BY <1>7
  DEF Monitor, Register, TickEnter, AcquireLock, DecideBusy, Decide, Unregister, Risk,
      RiskSkip, RiskRefresh, RiskFlat, RiskExhausted, RiskRetry, RiskHold, RiskTrigger,
      SellAnswered, RiskRecheck, RunBuy, BuyPlaced, BuyRefreshed, BuyNoMatch, BuyAborted,
      HoldExpires, exchange, history
<1>8. ASSUME NEW m \in Symbols, ExchangeRefuses(m) \/ ExchangeTakesSell(m) \/ SellFills(m)
      PROVE  UNCHANGED <<openBuy, accepted>>
  BY <1>8 DEF ExchangeRefuses, ExchangeTakesSell, SellFills, exchange, history
<1>9. CASE PublishBtcContext \/ EpochOver \/ UNCHANGED vars
  BY <1>3, <1>9 DEF PublishBtcContext, EpochOver, vars, exchange, history
<1>10. CASE \E m \in Symbols : ExchangeAccepts(m)
  BY <1>1, <1>2, <1>4, <1>10
<1>11. CASE \E m \in Symbols : BuyFills(m)
  BY <1>1, <1>2, <1>5, <1>6, <1>11
<1>12. QED
  BY <1>3, <1>7, <1>8, <1>9, <1>10, <1>11 DEF Next, Exchange

\* A balance that is read is not more than what was held before and bought since.
LEMMA ReadsBounded ==
  ASSUME TypeOK, FillOK, NEW s \in Symbols, NEW r \in Reads(s), Bought(s) \in Nat
  PROVE  \A o \in Outcomes : r[o] <= before[s][o] + Bought(s)
<1> SUFFICES ASSUME NEW o \in Outcomes PROVE r[o] <= before[s][o] + Bought(s)
  OBVIOUS
<1>1. CASE r = rem[s]
  BY <1>1 DEF FillOK
<1>2. CASE r[o] \in {0} \cup HeldSince(s, o)
  <2>1. before[s][o] \in Nat
    BY DEF TypeOK, Shares
  <2>2. QED BY <1>2, <2>1 DEF HeldSince
<1>3. QED BY <1>1, <1>2 DEF Reads

\* Every balance a slot holds after a step was read in it, or was there before.
LEMMA RemSteps ==
  ASSUME TypeOK, [Next]_vars, NEW s \in Symbols
  PROVE  rem'[s] = rem[s] \/ rem'[s] \in Reads(s)
<1>1. rem \in [Symbols -> Shares]
  BY DEF TypeOK
<1>2. CASE UNCHANGED rem
  BY <1>2
<1>3. ASSUME NEW m \in Symbols, NEW r \in Reads(m), rem' = [rem EXCEPT ![m] = r]
      PROVE  rem'[s] = rem[s] \/ rem'[s] \in Reads(s)
  BY <1>1, <1>3
<1>4. ASSUME NEW m \in Symbols, TickEnter(m) \/ BuyRefreshed(m)
      PROVE  rem'[s] = rem[s] \/ rem'[s] \in Reads(s)
  BY <1>3, <1>4, Zenon DEF TickEnter, BuyRefreshed
<1>5. ASSUME NEW m \in Symbols, Risk(m)
      PROVE  rem'[s] = rem[s] \/ rem'[s] \in Reads(s)
  <2>1. tick[m].target \in Symbols
    BY DEF TypeOK, Tick
  <2>2. \/ UNCHANGED rem
        \/ \E r \in Reads(tick[m].target) : rem' = [rem EXCEPT ![tick[m].target] = r]
    BY <1>5, Zenon DEF Risk, RiskSkip, RiskRefresh, RiskFlat, RiskExhausted, RiskRetry, RiskHold,
                RiskTrigger, SellAnswered, RiskRecheck
  <2>3. QED BY <1>2, <1>3, <2>1, <2>2, Zenon
<1>6. ASSUME NEW m \in Symbols,
             \/ Register(m) \/ AcquireLock(m) \/ DecideBusy(m) \/ Decide(m) \/ Unregister(m)
             \/ BuyPlaced(m) \/ BuyNoMatch(m) \/ BuyAborted(m) \/ Exchange(m) \/ HoldExpires(m)
      PROVE  UNCHANGED rem
  BY <1>6
  DEF Register, AcquireLock, DecideBusy, Decide, Unregister, BuyPlaced, BuyNoMatch, BuyAborted,
      Exchange, ExchangeAccepts, ExchangeRefuses, BuyFills, ExchangeTakesSell, SellFills,
      HoldExpires
<1>7. CASE PublishBtcContext \/ EpochOver \/ UNCHANGED vars
  BY <1>2, <1>7 DEF PublishBtcContext, EpochOver, vars
<1>8. QED BY <1>2, <1>4, <1>5, <1>6, <1>7 DEF Next, Monitor, RunBuy

\* A position keeps the outcome and the baseline of its order.
SameOrder(p, q) == q.outcome = p.outcome /\ q.baseline = p.baseline

\* The steps that close a position.
ClosesIt(m) == RiskFlat(m) \/ RiskRecheck(m)

\* A position becomes pending by BuyPlaced only, is confirmed by ingesting a
\* balance that was read in the step, or that the slot held before it, and closed
\* by the evaluation of its slot.
LEMMA PositionSteps ==
  ASSUME TypeOK, [Next]_vars, NEW s \in Symbols
  PROVE  \/ /\ pos'[s].pending = pos[s].pending
            /\ pos'[s].confirmed = pos[s].confirmed
            /\ SameOrder(pos[s], pos'[s])
            /\ \/ pos'[s].closed = pos[s].closed
               \/ pos'[s].closed = TRUE /\ \E m \in Symbols : ClosesIt(m) /\ tick[m].target = s
         \/ \E r \in Reads(s) \cup {rem[s]} : pos'[s] = Ingest(pos[s], r)
         \/ /\ BuyPlaced(s) /\ pos'[s].pending = TRUE
            /\ pos'[s].confirmed = pos[s].confirmed /\ pos'[s].closed = pos[s].closed
            /\ pos'[s].outcome = strat[s].locked /\ pos'[s].baseline = rem[s]
<1> DEFINE Kept == /\ pos'[s].pending = pos[s].pending
                   /\ pos'[s].confirmed = pos[s].confirmed
                   /\ pos'[s].closed = pos[s].closed
                   /\ SameOrder(pos[s], pos'[s])
<1>0. /\ pos \in [Symbols -> Position] /\ pos[s] \in Position
      /\ \A m \in Symbols : tick[m].target \in Symbols
  BY DEF TypeOK, Tick
<1>1. CASE UNCHANGED pos
  BY <1>1 DEF SameOrder
<1>2. ASSUME NEW m \in Symbols, TickEnter(m) \/ BuyRefreshed(m)
      PROVE  pos'[s] = pos[s] \/ \E r \in Reads(s) : pos'[s] = Ingest(pos[s], r)
  <2>1. \E r \in Reads(m) : pos' = [pos EXCEPT ![m] = Ingest(pos[m], r)]
    BY <1>2, Zenon DEF TickEnter, BuyRefreshed
  <2>2. QED BY <1>0, <2>1
<1>3. ASSUME NEW m \in Symbols, AcquireLock(m)
      PROVE  pos'[s] = pos[s] \/ pos'[s] = Ingest(pos[s], rem[s])
  BY <1>3 DEF AcquireLock
<1>4. ASSUME NEW m \in Symbols, Risk(m)
      PROVE  \/ Kept
             \/ /\ pos'[s].pending = pos[s].pending /\ pos'[s].confirmed = pos[s].confirmed
                /\ pos'[s].closed = TRUE /\ ClosesIt(m) /\ tick[m].target = s
                /\ SameOrder(pos[s], pos'[s])
  <2> DEFINE t == tick[m].target
  <2>1. CASE UNCHANGED pos
    BY <2>1 DEF SameOrder
  <2>2. CASE RiskFlat(m)
    <3>1. pos' = [pos EXCEPT ![t] = [pos[t] EXCEPT !.closed = TRUE]]
      BY <2>2 DEF RiskFlat
    <3>2. pos'[s] = pos[s] \/ (t = s /\ pos'[s] = [pos[s] EXCEPT !.closed = TRUE])
      BY <1>0, <3>1
    <3>3. QED BY <1>0, <2>2, <3>2 DEF Position, ClosesIt, SameOrder
  <2>3. CASE RiskExhausted(m)
    <3>1. pos' = [pos EXCEPT ![t] = [pos[t] EXCEPT !.exitBusy = FALSE]]
      BY <2>3 DEF RiskExhausted
    <3>2. pos'[s] = pos[s] \/ pos'[s] = [pos[s] EXCEPT !.exitBusy = FALSE]
      BY <1>0, <3>1
    <3>3. QED BY <1>0, <3>2 DEF Position, SameOrder
  <2>4. CASE RiskRetry(m)
    <3>1. pos' = [pos EXCEPT ![t] = [pos[t] EXCEPT !.attempts = pos[t].attempts + 1]]
      BY <2>4 DEF RiskRetry
    <3>2. pos'[s] = pos[s] \/ pos'[s] = [pos[s] EXCEPT !.attempts = pos[s].attempts + 1]
      BY <1>0, <3>1
    <3>3. QED BY <1>0, <3>2 DEF Position, SameOrder
  <2>5. CASE RiskHold(m)
    <3>1. pos'[s] = pos[s] \/ \E bid : pos'[s] = PickCounters(pos[s], bid)
      BY <1>0, <2>5 DEF RiskHold
    <3>2. QED BY <1>0, <3>1 DEF Position, PickCounters, SameOrder
  <2>6. CASE RiskTrigger(m)
    <3>1. \/ pos'[s] = pos[s]
          \/ \E bid, reason, n :
               pos'[s] = [PickCounters(pos[s], bid) EXCEPT
                            !.exitBusy = TRUE, !.reason = reason, !.attempts = n]
      BY <1>0, <2>6 DEF RiskTrigger
    <3>2. QED BY <1>0, <3>1 DEF Position, PickCounters, SameOrder
  <2>7. CASE RiskRecheck(m)
    <3>1. \/ pos' = pos
          \/ pos' = [pos EXCEPT ![t] = [pos[t] EXCEPT !.exitBusy = FALSE, !.closed = TRUE,
                                                     !.risk1 = 0, !.risk3 = 0]]
      BY <2>7 DEF RiskRecheck
    <3>2. \/ pos'[s] = pos[s]
          \/ t = s /\ pos'[s] = [pos[s] EXCEPT !.exitBusy = FALSE, !.closed = TRUE,
                                               !.risk1 = 0, !.risk3 = 0]
      BY <1>0, <3>1
    <3>3. QED BY <1>0, <2>7, <3>2 DEF Position, ClosesIt, SameOrder
  <2>8. QED
    BY <1>4, <2>1, <2>2, <2>3, <2>4, <2>5, <2>6, <2>7
    DEF Risk, RiskSkip, RiskRefresh, SellAnswered
<1>5. ASSUME NEW m \in Symbols, HoldExpires(m) PROVE Kept
  <2>1. pos'[s] = pos[s] \/ pos'[s] = [pos[s] EXCEPT !.hold = "expired"]
    BY <1>0, <1>5 DEF HoldExpires
  <2>2. QED BY <1>0, <2>1 DEF Position, SameOrder
<1>6. ASSUME NEW m \in Symbols, BuyPlaced(m)
      PROVE  \/ pos'[s] = pos[s]
             \/ /\ BuyPlaced(s) /\ pos'[s].pending = TRUE
                /\ pos'[s].confirmed = pos[s].confirmed /\ pos'[s].closed = pos[s].closed
                /\ pos'[s].outcome = strat[s].locked /\ pos'[s].baseline = rem[s]
  <2>1. pos' = [pos EXCEPT ![m] = [pos[m] EXCEPT !.outcome = strat[m].locked, !.pending = TRUE,
                                                 !.baseline = rem[m]]]
    BY <1>6 DEF BuyPlaced
  <2>2. \/ pos'[s] = pos[s]
        \/ m = s /\ pos'[s] = [pos[s] EXCEPT !.outcome = strat[m].locked, !.pending = TRUE,
                                             !.baseline = rem[m]]
    BY <1>0, <2>1
  <2>3. QED BY <1>0, <1>6, <2>2 DEF Position, SameOrder
<1>7. ASSUME NEW m \in Symbols,
             \/ Register(m) \/ DecideBusy(m) \/ Decide(m) \/ Unregister(m)
             \/ BuyNoMatch(m) \/ BuyAborted(m) \/ Exchange(m)
      PROVE  UNCHANGED pos
  BY <1>7
  DEF Register, DecideBusy, Decide, Unregister, BuyNoMatch, BuyAborted, Exchange,
      ExchangeAccepts, ExchangeRefuses, BuyFills, ExchangeTakesSell, SellFills
<1>8. CASE PublishBtcContext \/ EpochOver \/ UNCHANGED vars
  BY <1>1, <1>8 DEF PublishBtcContext, EpochOver, vars
<1>9. CASE \E m \in Symbols : Monitor(m)
  BY <1>1, <1>2, <1>3, <1>4, <1>7, <1>9 DEF Monitor, SameOrder
<1>10. CASE \E m \in Symbols : RunBuy(m) \/ Exchange(m) \/ HoldExpires(m)
  BY <1>1, <1>2, <1>5, <1>6, <1>7, <1>10 DEF RunBuy, SameOrder
<1>11. QED BY <1>8, <1>9, <1>10, <1>1 DEF Next

\* A balance confirms a position only if it shows shares of its order: with a
\* baseline that counts the shares held before, more of them have been bought.
LEMMA IngestConfirms ==
  ASSUME NEW p \in Position, NEW r \in Shares, NEW n \in Nat, NEW w \in Shares,
         \A o \in Outcomes : r[o] <= w[o] + n
  PROVE  /\ Ingest(p, r).pending => p.pending
         /\ Ingest(p, r).confirmed => p.confirmed \/ (p.pending /\ (Based(p, w) => n > 0))
         /\ Ingest(p, r).confirmed => p.confirmed \/ p.pending
         /\ SameOrder(p, Ingest(p, r))
<1>1. CASE p.pending /\ ~p.confirmed /\ ~IsFlat(r, p)
  <2>1. p.outcome \in Outcomes /\ r[p.outcome] > p.baseline[p.outcome]
    BY <1>1 DEF IsFlat, PositionShares
  <2>2. /\ r[p.outcome] \in Nat /\ p.baseline[p.outcome] \in Nat /\ w[p.outcome] \in Nat
        /\ r[p.outcome] <= w[p.outcome] + n
    BY <2>1 DEF Position, Shares
  <2>3. Based(p, w) => n > 0
    BY <2>1, <2>2 DEF Based
  <2>4. SameOrder(p, Ingest(p, r))
    BY DEF Ingest, SameOrder, Position
  <2>5. QED BY <1>1, <2>3, <2>4, Zenon
<1>2. CASE ~(p.pending /\ ~p.confirmed /\ ~IsFlat(r, p))
  BY <1>2, Zenon DEF Ingest, SameOrder
<1>3. QED BY <1>1, <1>2

\* What was held before never changes, and a baseline that missed some of it stays
\* known as such.
LEMMA HistorySteps ==
  ASSUME [Next]_vars, NEW s \in Symbols
  PROVE  /\ before' = before /\ blind \subseteq blind'
         /\ BuyPlaced(s) /\ s \notin blind' => ~Misses(s)
<1>1. ASSUME NEW m \in Symbols, BuyPlaced(m)
      PROVE  before' = before /\ blind \subseteq blind'
  BY <1>1 DEF BuyPlaced
<1>2. BuyPlaced(s) /\ s \notin blind' => ~Misses(s)
  <2> SUFFICES ASSUME BuyPlaced(s), Misses(s) PROVE s \in blind'
    OBVIOUS
  <2>1. blind' = blind \cup {s}
    BY Zenon DEF BuyPlaced
  <2>2. QED BY <2>1
<1>3. ASSUME NEW m \in Symbols, Monitor(m)
      PROVE  UNCHANGED <<before, blind>>
  BY <1>3
  DEF Monitor, Register, TickEnter, AcquireLock, DecideBusy, Decide, Unregister, Risk,
      RiskSkip, RiskRefresh, RiskFlat, RiskExhausted, RiskRetry, RiskHold, RiskTrigger,
      SellAnswered, RiskRecheck, history
<1>4. ASSUME NEW m \in Symbols,
             \/ BuyRefreshed(m) \/ BuyNoMatch(m) \/ BuyAborted(m) \/ Exchange(m) \/ HoldExpires(m)
      PROVE  UNCHANGED <<before, blind>>
  BY <1>4
  DEF BuyRefreshed, BuyNoMatch, BuyAborted, Exchange, ExchangeAccepts, ExchangeRefuses, BuyFills,
      ExchangeTakesSell, SellFills, HoldExpires, history
<1>5. PublishBtcContext \/ EpochOver \/ UNCHANGED vars => UNCHANGED <<before, blind>>
  BY DEF PublishBtcContext, EpochOver, vars, history
<1>6. before' = before /\ blind \subseteq blind'
  BY <1>1, <1>3, <1>4, <1>5 DEF Next, RunBuy
<1>7. QED BY <1>2, <1>6

\* An order that was answered is the one accepted.
LEMMA AcceptedSteps ==
  ASSUME EntryInv, FillOK, [Next]_vars, NEW b \in Symbols, task'[b] = "accepted"
  PROVE  accepted'[b] = 1
<1>1. task \in [Symbols -> Tasks] /\ accepted \in [Symbols -> Nat]
  BY DEF EntryInv, TypeOK
<1>2. CASE task[b] = "accepted"
  BY <1>2, BoughtGrows DEF FillOK
<1>3. CASE task[b] # "accepted"
  <2>1. ASSUME NEW m \in Symbols, Decide(m) PROVE FALSE
    BY <1>3, <2>1, DecideEffect
  <2>2. ASSUME NEW m \in Symbols, Unregister(m) \/ BuyRefreshed(m) \/ BuyNoMatch(m) \/ BuyAborted(m)
        PROVE  FALSE
    BY <1>1, <1>3, <2>2 DEF Unregister, BuyRefreshed, BuyNoMatch, BuyAborted, BuyEnds
  <2>3. ASSUME NEW m \in Symbols, Register(m) \/ BuyPlaced(m) \/ ExchangeRefuses(m)
        PROVE  FALSE
    BY <1>1, <1>3, <2>3 DEF Register, BuyPlaced, ExchangeRefuses
  <2>4. ASSUME NEW m \in Symbols, ExchangeAccepts(m) PROVE accepted'[b] = 1
    <3>1. m = b
      BY <1>1, <1>3, <2>4 DEF ExchangeAccepts
    <3>2. accepted[b] = 0
      BY <2>4, <3>1 DEF EntryInv, BuyAccounting, ExchangeAccepts
    <3>3. QED BY <1>1, <2>4, <3>1, <3>2 DEF ExchangeAccepts
  <2>5. QED BY <1>3, <2>1, <2>2, <2>3, <2>4, OrderSteps
<1>4. QED BY <1>2, <1>3

\* Every step keeps fills what they are.
LEMMA FillKept == EntryInv /\ EntryInv' /\ FillOK /\ [Next]_vars => FillOK'
<1> SUFFICES ASSUME EntryInv, EntryInv', FillOK, [Next]_vars, NEW b \in Symbols
             PROVE  /\ openBuy'[b] <= Size /\ (accepted'[b] = 0 => openBuy'[b] = 0)
                    /\ task'[b] = "accepted" => accepted'[b] = 1
                    /\ \A o \in Outcomes : rem'[b][o] <= before'[b][o] + Bought(b)'
                    /\ pos'[b].pending \/ pos'[b].confirmed => accepted'[b] = 1
                    /\ pos'[b].pending /\ b \notin blind' => Based(pos'[b], before'[b])
                    /\ pos'[b].confirmed /\ b \notin blind' => openBuy'[b] < Size
  BY DEF FillOK, Bought, Based
<1>0. /\ TypeOK /\ Bought(b) \in Nat /\ Bought(b)' \in Int /\ Bought(b)' >= Bought(b)
      /\ pos[b] \in Position /\ rem[b] \in Shares /\ rem'[b] \in Shares /\ before[b] \in Shares
      /\ Reads(b) \subseteq Shares
  BY BoughtGrows, ReadsType DEF EntryInv, TypeOK
<1>1. openBuy'[b] <= Size /\ (accepted'[b] = 0 => openBuy'[b] = 0)
  BY BoughtGrows
<1>2. task'[b] = "accepted" => accepted'[b] = 1
  BY AcceptedSteps
<1>3. \A r \in Reads(b) \cup {rem[b]}, o \in Outcomes : r[o] <= before[b][o] + Bought(b)
  BY <1>0, ReadsBounded DEF FillOK
<1>4. before' = before /\ (b \notin blind' => b \notin blind)
  BY HistorySteps
<1>5. ASSUME NEW o \in Outcomes PROVE rem'[b][o] <= before'[b][o] + Bought(b)'
  <2>1. rem'[b] \in Reads(b) \cup {rem[b]}
    BY <1>0, RemSteps
  <2>2. /\ rem'[b][o] \in Nat /\ before[b][o] \in Nat
        /\ rem'[b][o] <= before[b][o] + Bought(b)
    BY <1>0, <1>3, <2>1 DEF Shares
  <2>3. QED BY <1>0, <1>4, <2>2
<1>6. /\ pos[b].pending \/ pos[b].confirmed => accepted'[b] = 1
      /\ pos[b].confirmed /\ b \notin blind' => openBuy'[b] < Size
  BY <1>4, BoughtGrows DEF FillOK
<1>7. ASSUME SameOrder(pos[b], pos'[b]), pos[b].pending
      PROVE  b \notin blind' => Based(pos'[b], before'[b])
  <2>1. b \notin blind' => Based(pos[b], before[b])
    BY <1>4, <1>7, Zenon DEF FillOK
  <2>2. QED BY <1>4, <1>7, <2>1 DEF SameOrder, Based
<1>8. CASE /\ pos'[b].pending = pos[b].pending /\ pos'[b].confirmed = pos[b].confirmed
           /\ SameOrder(pos[b], pos'[b])
  BY <1>1, <1>2, <1>5, <1>6, <1>7, <1>8, Zenon
<1>9. ASSUME NEW r \in Reads(b) \cup {rem[b]}, pos'[b] = Ingest(pos[b], r)
      PROVE  /\ pos'[b].pending \/ pos'[b].confirmed => accepted'[b] = 1
             /\ pos'[b].pending /\ b \notin blind' => Based(pos'[b], before'[b])
             /\ pos'[b].confirmed /\ b \notin blind' => openBuy'[b] < Size
  <2>1. /\ pos'[b].pending => pos[b].pending
        /\ pos'[b].confirmed => \/ pos[b].confirmed
                                \/ pos[b].pending /\ (Based(pos[b], before[b]) => Bought(b) > 0)
        /\ SameOrder(pos[b], pos'[b])
    BY <1>0, <1>3, <1>9, IngestConfirms
  <2>2. ASSUME pos[b].pending, Bought(b) > 0 PROVE openBuy'[b] < Size
    <3>1. accepted[b] = 1
      BY <2>2, Zenon DEF FillOK
    <3>2. openBuy[b] \in Nat /\ Size \in Nat
      BY SizeAssumption DEF EntryInv, TypeOK
    <3>3. openBuy[b] < Size
      BY <2>2, <3>1, <3>2 DEF Bought
    <3>4. QED BY <3>1, <3>3, BoughtGrows
  <2>3. pos[b].pending /\ b \notin blind' => Based(pos[b], before[b])
    BY <1>4, Zenon DEF FillOK
  <2>4. QED BY <1>6, <1>7, <2>1, <2>2, <2>3, Zenon
<1>10. CASE /\ BuyPlaced(b) /\ pos'[b].confirmed = pos[b].confirmed
            /\ pos'[b].outcome = strat[b].locked /\ pos'[b].baseline = rem[b]
  <2>1. accepted[b] = 1
    BY <1>10, Zenon DEF BuyPlaced, FillOK
  <2>2. accepted'[b] = 1
    BY <2>1, BoughtGrows
  <2>3. b \notin blind' => Based(pos'[b], before'[b])
    <3> SUFFICES ASSUME b \notin blind', strat[b].locked \in Outcomes
                 PROVE  rem[b][strat[b].locked] >= before[b][strat[b].locked]
      BY <1>4, <1>10 DEF Based
    <3>1. ~Misses(b)
      BY <1>10, HistorySteps
    <3>2. rem[b][strat[b].locked] \in Nat /\ before[b][strat[b].locked] \in Nat
      BY <1>0 DEF Shares
    <3>3. QED BY <3>1, <3>2 DEF Misses
  <2>4. QED BY <1>1, <1>2, <1>5, <1>6, <1>10, <2>2, <2>3, Zenon
<1>11. QED BY <1>0, <1>1, <1>2, <1>5, <1>8, <1>9, <1>10, PositionSteps, Zenon

\* Whatever was held before, whatever balances are read, late, zero or left over,
\* and whenever they are ingested, a position is confirmed only if its order has
\* been filled in part, unless its baseline missed shares that were held before.
THEOREM FillsAreReal == Spec => []NoPhantomFill
<1>1. Init => FillOK
  <2> SUFFICES ASSUME Init, NEW b \in Symbols
               PROVE  /\ openBuy[b] <= Size /\ (accepted[b] = 0 => openBuy[b] = 0)
                      /\ task[b] = "accepted" => accepted[b] = 1
                      /\ \A o \in Outcomes : rem[b][o] <= before[b][o] + Bought(b)
                      /\ pos[b].pending \/ pos[b].confirmed => accepted[b] = 1
                      /\ pos[b].pending /\ b \notin blind => Based(pos[b], before[b])
                      /\ pos[b].confirmed /\ b \notin blind => openBuy[b] < Size
    BY DEF FillOK
  <2>1. /\ pos[b] = NoPosition /\ openBuy[b] = 0 /\ accepted[b] = 0 /\ task[b] = "none"
        /\ rem[b] = NoShares
    BY DEF Init
  <2>2. pos[b].pending = FALSE /\ pos[b].confirmed = FALSE
    <3>1. NoPosition.pending = FALSE /\ NoPosition.confirmed = FALSE
      BY DEF NoPosition
    <3>2. QED BY <2>1, <3>1, Zenon
  <2>3. /\ Bought(b) = 0 /\ Size > 0
        /\ \A o \in Outcomes : rem[b][o] = 0 /\ before[b][o] \in Nat
    BY <2>1, SizeAssumption, TypeInit DEF Bought, NoShares, TypeOK, Shares
  <2>4. openBuy[b] <= Size /\ \A o \in Outcomes : rem[b][o] <= before[b][o] + Bought(b)
    BY <2>1, <2>3, SizeAssumption
  <2>5. QED BY <2>1, <2>2, <2>4, Zenon
<1>2. EntryInv /\ EntryInv' /\ FillOK /\ [Next]_vars => FillOK'
  BY FillKept
<1>3. FillOK => NoPhantomFill
  BY Zenon DEF FillOK, NoPhantomFill
<1>4. QED BY <1>1, <1>2, <1>3, EntryInvariant, PTL DEF Spec

-----------------------------------------------------------------------------
(* The life cycle.                                                          *)

\* A slot whose evaluation awaits something has an open position: it had one
\* before, and only this evaluation could close it.
AwaitOK ==
  \A m \in Symbols : tick[m].at \in Awaits =>
    pos[tick[m].target].confirmed = TRUE /\ pos[tick[m].target].closed = FALSE

\* Every step keeps the position open that is evaluated, until the evaluation
\* closes it and goes on.
LEMMA AwaitKept == EntryInv /\ AwaitOK /\ [Next]_vars => AwaitOK'
<1> SUFFICES ASSUME EntryInv, AwaitOK, [Next]_vars, NEW m \in Symbols, tick'[m].at \in Awaits
             PROVE  /\ pos'[tick'[m].target].confirmed = TRUE
                    /\ pos'[tick'[m].target].closed = FALSE
  BY DEF AwaitOK
<1> DEFINE s == tick[m].target
<1>1. TypeOK /\ LockDiscipline /\ s \in Symbols /\ pos[s] \in Position
  BY DEF EntryInv, TypeOK, Tick
<1>2. tick'[m].target = s
  BY <1>1, AwaitSteps
<1>3. pos[s].confirmed = TRUE /\ pos[s].closed = FALSE
  <2>1. CASE tick[m].at \in Awaits
    BY <2>1 DEF AwaitOK
  <2>2. CASE RiskRefresh(m)
    <3>1. pos[s].confirmed /\ ~pos[s].closed
      BY <2>2 DEF RiskRefresh, Evaluable, Exposed
    <3>2. QED BY <1>1, <3>1 DEF Position
  <2>3. QED BY <1>1, <2>1, <2>2, AwaitSteps
<1>4. ASSUME NEW n \in Symbols, ClosesIt(n) PROVE n # m
  <2>1. tick'[n].at \in {"risk", "decide"}
    BY <1>1, <1>4 DEF ClosesIt, RiskFlat, RiskRecheck, NextTarget, TypeOK, Tick
  <2>2. QED BY <2>1 DEF Awaits
<1>5. ASSUME NEW n \in Symbols, ClosesIt(n), tick[n].target = s PROVE FALSE
  <2>1. lock = n
    BY <1>1, <1>5 DEF ClosesIt, RiskFlat, RiskRecheck, LockDiscipline, Evaluating
  <2>2. lock' = lock
    BY <1>5 DEF ClosesIt, RiskFlat, RiskRecheck
  <2>3. lock' = m
    BY LockStep DEF LockDiscipline, Evaluating, Awaits
  <2>4. QED BY <1>4, <1>5, <2>1, <2>2, <2>3
<1> HIDE DEF s
<1>6. \A r : /\ Ingest(pos[s], r).closed = pos[s].closed
             /\ pos[s].confirmed = TRUE => Ingest(pos[s], r).confirmed = TRUE
  BY <1>1 DEF Ingest, Position
<1>7. pos'[s].confirmed = TRUE /\ pos'[s].closed = FALSE
  BY <1>1, <1>3, <1>5, <1>6, PositionSteps, Zenon
<1>8. QED BY <1>2, <1>7

\* How a step may change whether a strategy is busy or done.
LEMMA StrategySteps ==
  ASSUME EntryInv, [Next]_vars, NEW b \in Symbols
  PROVE  \/ strat'[b].busy = strat[b].busy /\ strat'[b].done = strat[b].done
         \/ Triggers(b) /\ strat'[b].busy = TRUE /\ strat'[b].done = strat[b].done
         \/ strat'[b].busy = FALSE /\ strat[b].busy = TRUE
         \/ strat'[b].busy = TRUE /\ strat[b].busy = TRUE
<1>1. /\ strat \in [Symbols -> Strategy] /\ strat[b] \in Strategy
      /\ strat[b].busy \in BOOLEAN /\ strat[b].done \in BOOLEAN
      /\ strat[b].busy <=> task[b] # "none"
  BY DEF EntryInv, TypeOK, SingleFlight, Strategy
<1>2. CASE UNCHANGED strat
  BY <1>2
<1>3. ASSUME NEW m \in Symbols, Decide(m)
      PROVE  \/ strat'[b].busy = strat[b].busy /\ strat'[b].done = strat[b].done
             \/ Triggers(b) /\ strat'[b].busy = TRUE /\ strat'[b].done = strat[b].done
  <2>1. strat'[b].done = strat[b].done /\ strat'[b].busy = (strat[b].busy \/ Triggers(b))
    BY <1>3, DecideEffect
  <2>2. CASE Triggers(b)
    BY <2>1, <2>2, Zenon
  <2>3. CASE ~Triggers(b)
    BY <1>1, <2>1, <2>3, Zenon
  <2>4. QED BY <2>2, <2>3
<1>4. ASSUME NEW m \in Symbols, Unregister(m)
      PROVE  \/ strat'[b].busy = strat[b].busy /\ strat'[b].done = strat[b].done
             \/ strat'[b].busy = FALSE /\ strat[b].busy = TRUE
  <2>1. BuyEnds(m, FALSE)
    BY <1>4 DEF Unregister
  <2>2. CASE m # b
    BY <2>1, <2>2, BuyEndsEffect, Zenon
  <2>3. CASE m = b
    <3>1. strat'[b].done = (strat[b].done \/ FALSE) /\ strat'[b].busy = FALSE
      BY <2>1, <2>3, BuyEndsEffect
    <3>2. strat'[b].done = strat[b].done
      BY <1>1, <3>1, Zenon
    <3>3. QED BY <1>1, <3>1, <3>2, Zenon
  <2>4. QED BY <2>2, <2>3
<1>5. ASSUME NEW m \in Symbols, BuyRefreshed(m) \/ BuyNoMatch(m) \/ BuyAborted(m)
      PROVE  \/ strat'[b].busy = strat[b].busy /\ strat'[b].done = strat[b].done
             \/ strat'[b].busy = FALSE /\ strat[b].busy = TRUE
  <2>1. (\E final \in BOOLEAN : BuyEnds(m, final)) /\ task[m] # "none"
    BY <1>5 DEF BuyRefreshed, BuyNoMatch, BuyAborted
  <2>2. CASE m # b
    BY <2>1, <2>2, BuyEndsEffect, Zenon
  <2>3. CASE m = b
    BY <1>1, <2>1, <2>3, BuyEndsEffect, Zenon
  <2>4. QED BY <2>2, <2>3
<1>6. ASSUME NEW m \in Symbols, BuyPlaced(m)
      PROVE  \/ strat'[b].busy = strat[b].busy /\ strat'[b].done = strat[b].done
             \/ strat'[b].busy = TRUE /\ strat[b].busy = TRUE
  <2>1. strat' = [strat EXCEPT ![m] = [strat[m] EXCEPT !.done = TRUE]]
    BY <1>6 DEF BuyPlaced
  <2>2. strat'[b] = strat[b] \/ (m = b /\ strat'[b] = [strat[b] EXCEPT !.done = TRUE])
    BY <1>1, <2>1
  <2>3. strat'[b] = strat[b] \/ (m = b /\ strat'[b].busy = strat[b].busy)
    BY <1>1, <2>2 DEF Strategy
  <2>4. task[m] # "none"
    BY <1>6 DEF BuyPlaced
  <2>5. QED BY <1>1, <2>3, <2>4, Zenon
<1>7. ASSUME NEW m \in Symbols, Register(m) \/ ExchangeAccepts(m) \/ ExchangeRefuses(m)
      PROVE  UNCHANGED strat
  BY <1>7 DEF Register, ExchangeAccepts, ExchangeRefuses
<1>8. QED BY <1>2, <1>3, <1>4, <1>5, <1>6, <1>7, OrderSteps

\* What a further sell order is posted for.
LEMMA OfferSteps ==
  ASSUME EntryInv, EntryInv', AwaitOK, SellsOK, SellsOK', [Next]_vars,
         NEW s \in Symbols, sells'[s] # sells[s]
  PROVE  /\ Stage(s) = "open" /\ Stage(s)' = "open"
         /\ sells'[s] = sells[s] + 1 /\ \E r \in Reasons : sells[s] + 1 <= MaxSells[r]
<1>1. /\ TypeOK /\ pos \in [Symbols -> Position] /\ pos[s] \in Position
      /\ sells \in [Symbols -> Nat] /\ tick \in [Symbols -> Tick]
  BY DEF EntryInv, TypeOK
<1>2. PICK m \in Symbols : (RiskRetry(m) \/ RiskTrigger(m)) /\ tick[m].target = s
  BY <1>1, SellSteps
<1>3. sells'[s] = sells[s] + 1
  BY <1>1, <1>2 DEF RiskRetry, RiskTrigger
<1>4. \E r \in Reasons : sells[s] + 1 <= MaxSells[r]
  BY <1>3, Zenon DEF SellsOK, Budgeted
<1>5. pos[s].confirmed = TRUE /\ pos[s].closed = FALSE
  <2>1. tick[m].at \in Awaits
    BY <1>2 DEF RiskRetry, RiskTrigger, Awaits
  <2>2. QED BY <1>2, <2>1 DEF AwaitOK
<1>6. tick'[m].at \in Awaits /\ tick'[m].target = s
  <2>1. PICK n : AwaitAt(m, "sell", n)
    BY <1>2, Zenon DEF RiskRetry, RiskTrigger
  <2>2. tick' = [tick EXCEPT ![m] = [tick[m] EXCEPT !.at = "sell", !.qty = n]]
    BY <2>1 DEF AwaitAt
  <2>3. tick'[m] = [tick[m] EXCEPT !.at = "sell", !.qty = n] /\ tick[m] \in Tick
    BY <1>1, <2>2
  <2>4. QED BY <1>2, <2>3 DEF Awaits, Tick
<1>7. pos'[s].confirmed = TRUE /\ pos'[s].closed = FALSE
  BY <1>6, AwaitKept DEF AwaitOK
<1>8. QED BY <1>3, <1>4, <1>5, <1>7, Zenon DEF Stage

\* A stage is followed by itself or by one that may follow it.
LEMMA StageSteps ==
  ASSUME EntryInv, AwaitOK, [Next]_vars, NEW s \in Symbols
  PROVE  Stage(s)' = Stage(s) \/ <<Stage(s), Stage(s)'>> \in Lifecycle!Moves
<1>1. /\ TypeOK /\ pos[s] \in Position
      /\ pos[s].closed \in BOOLEAN /\ pos[s].confirmed \in BOOLEAN /\ pos[s].pending \in BOOLEAN
      /\ strat[s].busy \in BOOLEAN /\ strat[s].done \in BOOLEAN
      /\ strat'[s].done \in BOOLEAN
      /\ strat[s].busy <=> task[s] # "none"
  BY TypeStep DEF EntryInv, TypeOK, Position, Strategy, SingleFlight
<1>2. CASE /\ pos'[s].pending = pos[s].pending /\ pos'[s].confirmed = pos[s].confirmed
           /\ pos'[s].closed = pos[s].closed
  <2>1. CASE pos[s].closed \/ pos[s].confirmed \/ pos[s].pending
    BY <1>2, <2>1, Zenon DEF Stage
  <2>2. CASE ~(pos[s].closed \/ pos[s].confirmed \/ pos[s].pending)
    <3>1. /\ Stage(s) = (IF strat[s].busy THEN "buying"
                         ELSE IF strat[s].done THEN "void" ELSE "idle")
          /\ Stage(s)' = (IF strat'[s].busy THEN "buying"
                          ELSE IF strat'[s].done THEN "void" ELSE "idle")
      BY <1>2, <2>2, Zenon DEF Stage
    <3>2. CASE strat'[s].busy = strat[s].busy /\ strat'[s].done = strat[s].done
      <4>1. Stage(s)' = (IF strat[s].busy THEN "buying"
                         ELSE IF strat[s].done THEN "void" ELSE "idle")
        BY <1>1, <3>1, <3>2
      <4>2. Stage(s)' = Stage(s)
        BY <3>1, <4>1
      <4>3. QED BY <4>2
    <3>3. CASE Triggers(s) /\ strat'[s].busy = TRUE /\ strat'[s].done = strat[s].done
      <4>1. Stage(s) = "idle" /\ Stage(s)' = "buying"
        BY <3>1, <3>3, Zenon DEF Triggers
      <4>2. QED BY <4>1 DEF Lifecycle!Moves
    <3>4. CASE strat'[s].busy = FALSE /\ strat[s].busy = TRUE
      <4>1. Stage(s) = "buying" /\ (Stage(s)' = "void" \/ Stage(s)' = "idle")
        BY <3>1, <3>4, Zenon
      <4>2. QED BY <4>1 DEF Lifecycle!Moves
    <3>5. CASE strat'[s].busy = TRUE /\ strat[s].busy = TRUE
      BY <3>1, <3>5, Zenon
    <3>6. QED BY <3>2, <3>3, <3>4, <3>5, StrategySteps
  <2>3. QED BY <2>1, <2>2
<1>3. ASSUME NEW m \in Symbols, ClosesIt(m), tick[m].target = s, pos'[s].closed = TRUE
      PROVE  Stage(s) = "open" /\ Stage(s)' = "closed"
  <2>1. tick[m].at \in Awaits
    BY <1>3 DEF ClosesIt, RiskFlat, RiskRecheck, Awaits
  <2>2. pos[s].confirmed = TRUE /\ pos[s].closed = FALSE
    BY <1>3, <2>1 DEF AwaitOK
  <2>3. QED BY <1>3, <2>2, Zenon DEF Stage
<1>4. ASSUME NEW r, pos'[s] = Ingest(pos[s], r)
      PROVE  \/ /\ pos'[s].pending = pos[s].pending /\ pos'[s].confirmed = pos[s].confirmed
                /\ pos'[s].closed = pos[s].closed
             \/ Stage(s) = "closed" /\ Stage(s)' = "closed"
             \/ Stage(s) = "pending" /\ Stage(s)' = "open"
  <2>1. CASE pos[s].pending /\ ~pos[s].confirmed /\ ~IsFlat(r, pos[s])
    <3>1. pos'[s] = [pos[s] EXCEPT !.confirmed = TRUE, !.pending = FALSE, !.hold = "running"]
      BY <1>4, <2>1 DEF Ingest
    <3>2. pos'[s].confirmed = TRUE /\ pos'[s].closed = pos[s].closed
      BY <1>1, <3>1 DEF Position
    <3>3. QED BY <1>1, <2>1, <3>2, Zenon DEF Stage
  <2>2. CASE ~(pos[s].pending /\ ~pos[s].confirmed /\ ~IsFlat(r, pos[s]))
    BY <1>4, <2>2, Zenon DEF Ingest
  <2>3. QED BY <2>1, <2>2
<1>5. CASE /\ BuyPlaced(s) /\ pos'[s].pending = TRUE
           /\ pos'[s].confirmed = pos[s].confirmed /\ pos'[s].closed = pos[s].closed
  <2>1. strat[s].busy
    BY <1>1, <1>5 DEF BuyPlaced
  <2>2. CASE pos[s].closed \/ pos[s].confirmed \/ pos[s].pending
    BY <1>1, <1>5, <2>2, Zenon DEF Stage
  <2>3. CASE ~(pos[s].closed \/ pos[s].confirmed \/ pos[s].pending)
    <3>1. Stage(s) = "buying" /\ Stage(s)' = "pending"
      BY <1>5, <2>1, <2>3, Zenon DEF Stage
    <3>2. QED BY <3>1 DEF Lifecycle!Moves
  <2>4. QED BY <2>2, <2>3
<1>6. <<"open", "closed">> \in Lifecycle!Moves /\ <<"pending", "open">> \in Lifecycle!Moves
  BY DEF Lifecycle!Moves
<1>7. QED BY <1>1, <1>2, <1>3, <1>4, <1>5, <1>6, PositionSteps, Zenon

\* The budget of the life cycle is as large as that of any reason.
LEMMA BudgetIsLargest == \A r \in Reasons : LargestBudget \in Nat /\ MaxSells[r] <= LargestBudget
<1> DEFINE Budgets == {MaxSells[r] : r \in Reasons}
<1>1. \A r \in Reasons : MaxSells[r] \in Nat
  BY SellsAssumption
<1>2. \E n \in Budgets : \A r \in Reasons : MaxSells[r] <= n
  BY <1>1 DEF Reasons
<1>3. LargestBudget \in Budgets /\ \A r \in Reasons : MaxSells[r] <= LargestBudget
  BY <1>2 DEF LargestBudget
<1>4. QED BY <1>1, <1>3

\* The invariant under which every step is one of the life cycle.
LifeInv == EntryInv /\ SellsOK /\ AwaitOK

\* It is an invariant.
LEMMA LifeInvariant == Spec => []LifeInv
<1>1. Init => AwaitOK
  BY DEF Init, AwaitOK, Awaits, Sleeping
<1>2. Init => SellsOK
  BY SellsInit
<1>3. EntryInv /\ EntryInv' /\ SellsOK /\ [Next]_vars => SellsOK'
  BY SellsKept DEF EntryInv
<1>4. EntryInv /\ AwaitOK /\ [Next]_vars => AwaitOK'
  BY AwaitKept
<1>5. QED BY <1>1, <1>2, <1>3, <1>4, EntryInit, EntryStep, PTL DEF Spec, LifeInv

\* The coordinator, with all its ticks, tasks, awaits and retries, goes through
\* the stages of PositionLifecycle, and posts sells for open positions only.
THEOREM LifecycleIsKept == Spec => ImplementsLifecycle
<1>1. Init => Lifecycle!Init
  <2> SUFFICES ASSUME Init PROVE Lifecycle!Init
    OBVIOUS
  <2>1. NoPosition.closed = FALSE /\ NoPosition.confirmed = FALSE /\ NoPosition.pending = FALSE
    BY DEF NoPosition
  <2>2. NewStrategy.busy = FALSE /\ NewStrategy.done = FALSE
    BY DEF NewStrategy
  <2>3. ASSUME NEW s \in Symbols PROVE Stage(s) = "idle"
    <3>1. pos[s] = NoPosition /\ strat[s] = NewStrategy
      BY DEF Init
    <3>2. QED BY <2>1, <2>2, <3>1, Zenon DEF Stage
  <2>4. sells = [s \in Symbols |-> 0]
    BY DEF Init
  <2>5. QED BY <2>3, <2>4 DEF Lifecycle!Init
<1>2. LifeInv /\ LifeInv' /\ [Next]_vars => [Lifecycle!Next]_<<[s \in Symbols |-> Stage(s)], sells>>
  <2> SUFFICES ASSUME LifeInv, LifeInv', [Next]_vars PROVE Lifecycle!Next
    OBVIOUS
  <2>1. sells \in [Symbols -> Nat] /\ sells' \in [Symbols -> Nat]
    BY DEF LifeInv, EntryInv, TypeOK
  <2>2. \A s \in Symbols : Stage(s)' \in Lifecycle!Stages
    BY Zenon DEF Stage, Lifecycle!Stages
  <2>3. ASSUME NEW s \in Symbols, sells'[s] = sells[s]
        PROVE  \/ <<Stage(s), Stage(s)'>> \in Lifecycle!Moves /\ sells'[s] = sells[s]
               \/ Stage(s)' = Stage(s) /\ sells'[s] = sells[s]
    BY <2>3, StageSteps DEF LifeInv
  <2>4. ASSUME NEW s \in Symbols, sells'[s] # sells[s]
        PROVE  /\ Stage(s) = "open" /\ Stage(s)' = "open"
               /\ sells[s] < LargestBudget /\ sells'[s] = sells[s] + 1
    <3>1. /\ Stage(s) = "open" /\ Stage(s)' = "open" /\ sells'[s] = sells[s] + 1
          /\ \E r \in Reasons : sells[s] + 1 <= MaxSells[r]
      BY <2>4, OfferSteps DEF LifeInv
    <3>2. \A r \in Reasons : MaxSells[r] \in Nat
      BY SellsAssumption
    <3>3. sells[s] < LargestBudget
      BY <2>1, <3>1, <3>2, BudgetIsLargest
    <3>4. QED BY <3>1, <3>3
  <2>5. QED
    BY <2>1, <2>2, <2>3, <2>4
    DEF Lifecycle!Next, Lifecycle!Move, Lifecycle!Offer, Lifecycle!Stay
<1>3. QED
  BY <1>1, <1>2, LifeInvariant, PTL DEF Spec, ImplementsLifecycle, Lifecycle!Spec

=============================================================================
