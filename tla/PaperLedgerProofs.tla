-------------------------- MODULE PaperLedgerProofs --------------------------
(***************************************************************************)
(* Theorems about PaperLedger, for every set of tokens and prices, every   *)
(* fee that does not exceed the notional, and every number of orders.      *)
(***************************************************************************)
EXTENDS PaperLedger, SequenceTheorems, TLAPS

\* Cash, holdings and the record of fills as the invariant has them.
MoneyOK ==
  /\ cash \in Int /\ held \in [Token -> Int]
  /\ filled \in Nat /\ spent \in Int /\ earned \in Int
  /\ bought \in [Token -> Int] /\ sold \in [Token -> Int]
  /\ Solvent /\ CashMatchesFills /\ SharesMatchFills

\* What the queue and the walk look like.
QueueOK ==
  /\ pending \in Seq(Order) /\ kept \in Seq(Order)
  /\ walk \in {"none", "time", "ticks"} /\ quiet \in Nat /\ accepted \in Nat

\* The inductive invariant.
IInv == MoneyOK /\ QueueOK

-----------------------------------------------------------------------------
\* What a buy costs and what a sell brings are amounts, and a sell never costs.
LEMMA CostType ==
  ASSUME NEW p \in Price, NEW n \in Lots
  PROVE  Cost(p, n) \in Nat /\ Net(p, n) \in Nat
<1>1. p \in Nat /\ n \in Nat /\ p * n \in Notional
  BY PriceAssumption DEF Notional, Lots
<1>2. p * n \in Nat
  BY <1>1
<1>3. Fee[p * n] \in Nat /\ Fee[p * n] <= p * n
  BY <1>1, FeeAssumption
<1> HIDE DEF Notional
<1>4. QED BY <1>2, <1>3 DEF Cost, Net

\* An order in the queue has the fields of an order.
LEMMA OrderFields ==
  ASSUME NEW o \in Order
  PROVE  /\ o.token \in Token /\ o.price \in Price /\ o.lots \in Lots
         /\ o.lots \in Nat /\ o.lots > 0
BY PriceAssumption DEF Order, Lots

\* A step that leaves the money alone keeps it right.
LEMMA SameMoney ==
  ASSUME MoneyOK, UNCHANGED money
  PROVE  MoneyOK'
BY DEF MoneyOK, money, Solvent, CashMatchesFills, SharesMatchFills

\* Settling a buy keeps the money right.
LEMMA BuyMoney ==
  ASSUME MoneyOK, NEW o \in Order, SettleBuy(o)
  PROVE  MoneyOK'
<1>1. Cost(o.price, o.lots) \in Nat
  BY CostType, OrderFields
<1>2. o.token \in Token /\ o.lots \in Nat /\ o.lots > 0
  BY OrderFields
<1>3. CASE CanPay(o)
  <2> DEFINE c == Cost(o.price, o.lots)
  <2>1. /\ c <= cash /\ cash' = cash - c /\ spent' = spent + c
        /\ held' = [held EXCEPT ![o.token] = @ + o.lots]
        /\ bought' = [bought EXCEPT ![o.token] = @ + o.lots]
        /\ filled' = filled + 1 /\ UNCHANGED <<earned, sold>>
    BY <1>3 DEF SettleBuy, CanPay
  <2>2. c \in Nat
    BY <1>1
  <2> HIDE DEF c
  <2>3. /\ cash' \in Int /\ spent' \in Int /\ earned' \in Int /\ filled' \in Nat
        /\ cash' >= 0 /\ CashMatchesFills'
    BY <2>1, <2>2, StartAssumption DEF MoneyOK, CashMatchesFills
  <2>4. /\ held' \in [Token -> Int] /\ bought' \in [Token -> Int] /\ sold' \in [Token -> Int]
        /\ \A t \in Token : held'[t] >= 0
        /\ SharesMatchFills'
    BY <1>2, <2>1 DEF MoneyOK, Solvent, SharesMatchFills
  <2>5. QED BY <2>3, <2>4 DEF MoneyOK, Solvent
<1>4. CASE ~CanPay(o)
  BY <1>4, SameMoney DEF SettleBuy
<1>5. QED BY <1>3, <1>4

\* Settling a sell keeps the money right.
LEMMA SellMoney ==
  ASSUME MoneyOK, NEW o \in Order, SettleSell(o)
  PROVE  MoneyOK'
<1>1. o.token \in Token /\ o.price \in Price /\ o.lots \in Nat /\ o.lots > 0 /\ o.lots \in Lots
  BY OrderFields
<1> DEFINE k == Sellable(o)
<1>2. k \in Int /\ k <= o.lots /\ k <= held[o.token]
  BY <1>1 DEF MoneyOK, Sellable, Least
<1>3. CASE k > 0
  <2>1. /\ cash' = cash + Net(o.price, k) /\ earned' = earned + Net(o.price, k)
        /\ held' = [held EXCEPT ![o.token] = @ - k]
        /\ sold' = [sold EXCEPT ![o.token] = @ + k]
        /\ filled' = filled + 1 /\ UNCHANGED <<spent, bought>>
    BY <1>3 DEF SettleSell, Proceeds
  <2>2. k \in Lots
    BY <1>1, <1>2, <1>3, PriceAssumption DEF Lots
  <2> HIDE DEF k
  <2>3. Net(o.price, k) \in Nat
    BY <1>1, <2>2, CostType
  <2> DEFINE net == Net(o.price, k)
  <2>4. /\ cash' = cash + net /\ earned' = earned + net /\ net \in Nat
    BY <2>1, <2>3
  <2> HIDE DEF net
  <2>5. /\ cash' \in Int /\ spent' \in Int /\ earned' \in Int /\ filled' \in Nat
        /\ cash' >= 0 /\ CashMatchesFills'
    BY <2>1, <2>4, StartAssumption DEF MoneyOK, Solvent, CashMatchesFills
  <2>6. /\ held' \in [Token -> Int] /\ bought' \in [Token -> Int] /\ sold' \in [Token -> Int]
        /\ \A t \in Token : held'[t] >= 0
        /\ SharesMatchFills'
    BY <1>1, <1>2, <2>1 DEF MoneyOK, Solvent, SharesMatchFills
  <2>7. QED BY <2>5, <2>6 DEF MoneyOK, Solvent
<1>4. CASE ~(k > 0)
  BY <1>4, SameMoney DEF SettleSell
<1>5. QED BY <1>3, <1>4

-----------------------------------------------------------------------------
\* Accepting an order leaves a queue of orders.
LEMMA PlaceStep ==
  ASSUME IInv, Place
  PROVE  IInv'
<1>1. MoneyOK /\ QueueOK
  BY DEF IInv
<1>2. PICK t \in Token, p \in Price, n \in Lots :
        PlaceBuy(t, p, n) \/ \E type \in {"GTC", "FAK"} : PlaceSell(t, p, n, type)
  BY DEF Place
<1>3. n \in Nat /\ n > 0
  BY PriceAssumption DEF Lots
<1>4. Least(n, held[t]) \in Lots \/ ~HasShares(t)
  BY <1>1, <1>3, PriceAssumption DEF MoneyOK, HasShares, Least, Lots
<1>5. \E side \in {"BUY", "SELL"}, m \in Lots, by \in {"time", "ticks"}, left \in Nat :
        Enqueue(t, side, p, m, by, left)
  BY <1>2, <1>4, DelayAssumption, TicksAssumption DEF PlaceBuy, PlaceSell
<1>6. PICK side \in {"BUY", "SELL"}, m \in Lots, by \in {"time", "ticks"}, left \in Nat :
        Enqueue(t, side, p, m, by, left)
  BY <1>5
<1> DEFINE o == [token |-> t, side |-> side, price |-> p, lots |-> m,
                 by |-> by, left |-> left, age |-> 0]
<1>7. o \in Order
  BY DEF Order
<1>8. pending' = Append(pending, o) /\ accepted' = accepted + 1
      /\ UNCHANGED <<kept, walk, quiet>> /\ UNCHANGED money
  BY <1>6 DEF Enqueue
<1> HIDE DEF o
<1>9. QueueOK'
  BY <1>1, <1>7, <1>8 DEF QueueOK
<1>10. MoneyOK'
  BY <1>1, <1>8, SameMoney
<1>11. QED BY <1>9, <1>10 DEF IInv

\* Ticking or ageing an order leaves an order.
LEMMA AgedOrder ==
  ASSUME NEW o \in Order
  PROVE  /\ Older(o) \in Order
         /\ o.left > 1 => Ticked(o) \in Order
<1>1. SellTicks * TickGap \in Nat
  BY TicksAssumption, DelayAssumption
<1>2. o.left \in Nat /\ o.age \in Nat
  BY DEF Order
<1>3. Least(o.age + 1, SellTicks * TickGap) \in Nat
  BY <1>1, <1>2 DEF Least
<1>4. Down(o.left) \in Nat
  BY <1>2 DEF Down
<1>5. Older(o) \in Order
  BY <1>2, <1>3, <1>4 DEF Older, Order
<1>6. ASSUME o.left > 1 PROVE Ticked(o) \in Order
  BY <1>2, <1>6 DEF Ticked, Order
<1>7. QED BY <1>5, <1>6

\* Walking over one order settles it, or keeps it.
LEMMA WalkStep ==
  ASSUME IInv, WalkOne
  PROVE  IInv'
<1>1. MoneyOK /\ QueueOK
  BY DEF IInv
<1> DEFINE o == Head(pending)
<1>2. o \in Order /\ Tail(pending) \in Seq(Order)
  BY <1>1 DEF QueueOK, WalkOne
<1>3. pending' = Tail(pending) /\ UNCHANGED <<walk, quiet, accepted>>
  BY DEF WalkOne
<1>4. Keep(o) \/ (o.left > 1 /\ Keep(Ticked(o))) \/ Settle(o)
  BY <1>2 DEF WalkOne
<1> HIDE DEF o
<1>5. ASSUME NEW q \in Order, Keep(q) PROVE IInv'
  <2>1. kept' = Append(kept, q) /\ UNCHANGED money
    BY <1>5 DEF Keep
  <2>2. QueueOK'
    BY <1>1, <1>2, <1>3, <1>5, <2>1 DEF QueueOK
  <2>3. MoneyOK'
    BY <1>1, <2>1, SameMoney
  <2>4. QED BY <2>2, <2>3 DEF IInv
<1>6. CASE Settle(o)
  <2>1. UNCHANGED kept /\ (SettleBuy(o) \/ SettleSell(o))
    BY <1>6 DEF Settle
  <2>2. MoneyOK'
    BY <1>1, <1>2, <2>1, BuyMoney, SellMoney
  <2>3. QueueOK'
    BY <1>1, <1>2, <1>3, <2>1 DEF QueueOK
  <2>4. QED BY <2>2, <2>3 DEF IInv
<1>7. QED BY <1>2, <1>4, <1>5, <1>6, AgedOrder

\* The passing of time ages the queue.
LEMMA TimeStep ==
  ASSUME IInv, TimePasses
  PROVE  IInv'
<1>1. MoneyOK /\ QueueOK
  BY DEF IInv
<1>2. pending' = [i \in DOMAIN pending |-> Older(pending[i])]
      /\ quiet' = Down(quiet) /\ UNCHANGED <<kept, walk, accepted>> /\ UNCHANGED money
  BY DEF TimePasses
<1>3. \A i \in DOMAIN pending : Older(pending[i]) \in Order
  BY <1>1, AgedOrder, ElementOfSeq DEF QueueOK
<1>4. DOMAIN pending = 1..Len(pending) /\ Len(pending) \in Nat
  BY <1>1 DEF QueueOK
<1>5. pending' \in [1..Len(pending) -> Order]
  BY <1>2, <1>3, <1>4
<1>6. pending' \in Seq(Order)
  BY <1>4, <1>5
<1>7. quiet' \in Nat
  BY <1>1, <1>2 DEF QueueOK, Down
<1>8. QueueOK'
  BY <1>1, <1>2, <1>6, <1>7 DEF QueueOK
<1>9. MoneyOK'
  BY <1>1, <1>2, SameMoney
<1>10. QED BY <1>8, <1>9 DEF IInv

\* The invariant holds initially.
LEMMA LedgerInit == Init => IInv
<1> SUFFICES ASSUME Init PROVE IInv
  OBVIOUS
<1>1. MoneyOK
  BY StartAssumption DEF Init, MoneyOK, Solvent, CashMatchesFills, SharesMatchFills
<1>2. QueueOK
  BY DEF Init, QueueOK
<1>3. QED BY <1>1, <1>2 DEF IInv

\* Every step keeps the invariant.
LEMMA LedgerStep == IInv /\ [Next]_vars => IInv'
<1> SUFFICES ASSUME IInv, [Next]_vars PROVE IInv'
  OBVIOUS
<1>1. MoneyOK /\ QueueOK
  BY DEF IInv
<1>2. CASE Place
  BY <1>2, PlaceStep
<1>3. CASE SettlePending
  <2>1. QueueOK' /\ UNCHANGED money
    BY <1>1, <1>3 DEF SettlePending, QueueOK
  <2>2. QED BY <1>1, <2>1, SameMoney DEF IInv
<1>4. CASE AdvanceMonitorTick
  <2>1. QueueOK' /\ UNCHANGED money
    BY <1>1, <1>4, DelayAssumption DEF AdvanceMonitorTick, QueueOK
  <2>2. QED BY <1>1, <2>1, SameMoney DEF IInv
<1>5. CASE WalkOne
  BY <1>5, WalkStep
<1>6. CASE WalkEnds
  <2>1. UNCHANGED money /\ walk' = "none" /\ pending' = kept /\ kept' = <<>>
        /\ UNCHANGED <<quiet, accepted>>
    BY <1>6 DEF WalkEnds
  <2>2. QueueOK'
    BY <1>1, <2>1 DEF QueueOK
  <2>3. QED BY <1>1, <2>1, <2>2, SameMoney DEF IInv
<1>7. CASE TimePasses
  BY <1>7, TimeStep
<1>8. CASE UNCHANGED vars
  <2>1. QueueOK' /\ UNCHANGED money
    BY <1>1, <1>8 DEF vars, money, QueueOK
  <2>2. QED BY <1>1, <2>1, SameMoney DEF IInv
<1>9. QED BY <1>2, <1>3, <1>4, <1>5, <1>6, <1>7, <1>8 DEF Next

\* The invariant holds in every reachable state.
LEMMA LedgerInvariant == Spec => []IInv
<1>1. Init => IInv
  BY LedgerInit
<1>2. IInv /\ [Next]_vars => IInv'
  BY LedgerStep
<1>3. QED BY <1>1, <1>2, PTL DEF Spec

-----------------------------------------------------------------------------
\* Every variable of the ledger keeps its type.
THEOREM TypeCorrect == Spec => []TypeOK
<1>1. IInv => TypeOK
  BY DEF IInv, MoneyOK, QueueOK, TypeOK
<1>2. QED BY <1>1, LedgerInvariant, PTL

\* Cash and balances never turn negative, however many orders are pending.
THEOREM AlwaysSolvent == Spec => []Solvent
<1>1. IInv => Solvent
  BY DEF IInv, MoneyOK
<1>2. QED BY <1>1, LedgerInvariant, PTL

\* Cash moves by what the fills report, and by nothing else.
THEOREM CashIsAccounted == Spec => []CashMatchesFills
<1>1. IInv => CashMatchesFills
  BY DEF IInv, MoneyOK
<1>2. QED BY <1>1, LedgerInvariant, PTL

\* No share is sold twice.
THEOREM SharesAreAccounted == Spec => []SharesMatchFills
<1>1. IInv => SharesMatchFills
  BY DEF IInv, MoneyOK
<1>2. QED BY <1>1, LedgerInvariant, PTL

-----------------------------------------------------------------------------
(* The resting time of a sell limit.                                        *)

\* The time n monitor ticks that count take at least.
Gap(n) == n * TickGap

\* The ticks a sell limit has already had are covered by the time it has rested
\* and the time until the next tick counts.
Rested(o, q) ==
  o.by = "ticks" => o.left \in 1..SellTicks /\ Gap(SellTicks - o.left) <= o.age + q

\* In a walk of monitor ticks the orders still to come lack the tick of this walk.
RestOK ==
  /\ walk = "none" => kept = <<>>
  /\ walk = "ticks" => quiet = TickGap
  /\ \A i \in DOMAIN pending : Rested(pending[i], IF walk = "ticks" THEN 0 ELSE quiet)
  /\ \A i \in DOMAIN kept : Rested(kept[i], quiet)

\* An order is in the queue, filled or dropped, and nothing but once.
FilledOnce == filled + Len(pending) + Len(kept) <= accepted

\* Gaps add up.
LEMMA GapFacts ==
  /\ Gap(0) = 0
  /\ \A n \in Nat : Gap(n) \in Nat /\ Gap(n + 1) = Gap(n) + TickGap
  /\ \A n \in Nat : n <= SellTicks => Gap(n) <= SellTicks * TickGap
<1>1. TickGap \in Nat /\ SellTicks \in Nat
  BY DelayAssumption, TicksAssumption
<1>2. Gap(0) = 0
  BY <1>1 DEF Gap
<1>3. ASSUME NEW n \in Nat PROVE Gap(n) \in Nat /\ Gap(n + 1) = Gap(n) + TickGap
  BY <1>1, SMT DEF Gap
<1>4. ASSUME NEW n \in Nat, n <= SellTicks PROVE Gap(n) <= SellTicks * TickGap
  BY <1>1, <1>4, SMT DEF Gap
<1>5. QED BY <1>2, <1>3, <1>4

\* The wait of an order is no longer than it has been.
LEMMA RestedLater ==
  ASSUME NEW o \in Order, NEW q \in Nat, NEW r \in Nat, q <= r, Rested(o, q)
  PROVE  Rested(o, r)
<1>1. ASSUME o.by = "ticks" PROVE Gap(SellTicks - o.left) \in Nat /\ o.age \in Nat
  <2>1. SellTicks - o.left \in Nat
    BY <1>1, TicksAssumption DEF Rested
  <2>2. QED BY <2>1, GapFacts DEF Order
<1>2. QED BY <1>1 DEF Rested

\* A new order has not rested at all.
LEMMA RestPlaced ==
  ASSUME IInv, RestOK, Place PROVE RestOK'
<1>1. QueueOK /\ quiet \in Nat /\ walk = "none" /\ kept = <<>>
  BY DEF IInv, QueueOK, RestOK, Place, PlaceBuy, PlaceSell
<1>2. PICK o \in Order :
        /\ pending' = Append(pending, o) /\ UNCHANGED <<kept, walk, quiet>>
        /\ Rested(o, quiet)
  <2>1. PICK t \in Token, p \in Price, n \in Lots :
          PlaceBuy(t, p, n) \/ \E type \in {"GTC", "FAK"} : PlaceSell(t, p, n, type)
    BY DEF Place
  <2>2. \E side \in {"BUY", "SELL"}, m \in Lots, by \in {"time", "ticks"}, left \in Nat :
          Enqueue(t, side, p, m, by, left) /\ (by = "ticks" => left = SellTicks)
    <3>1. Least(n, held[t]) \in Lots \/ ~HasShares(t)
      BY PriceAssumption DEF IInv, MoneyOK, HasShares, Least, Lots
    <3>2. QED
      BY <2>1, <3>1, DelayAssumption, TicksAssumption DEF PlaceBuy, PlaceSell
  <2>3. PICK side \in {"BUY", "SELL"}, m \in Lots, by \in {"time", "ticks"}, left \in Nat :
          Enqueue(t, side, p, m, by, left) /\ (by = "ticks" => left = SellTicks)
    BY <2>2
  <2> DEFINE o == [token |-> t, side |-> side, price |-> p, lots |-> m,
                   by |-> by, left |-> left, age |-> 0]
  <2>4. o \in Order /\ o.by = by /\ o.left = left /\ o.age = 0
    BY DEF Order
  <2>5. pending' = Append(pending, o) /\ UNCHANGED <<kept, walk, quiet>>
    BY <2>3 DEF Enqueue
  <2> HIDE DEF o
  <2>6. Rested(o, quiet)
    <3>1. ASSUME by = "ticks" PROVE left \in 1..SellTicks /\ Gap(SellTicks - left) <= 0 + quiet
      <4>1. left = SellTicks /\ SellTicks - left = 0 /\ left \in 1..SellTicks
        BY <2>3, <3>1, TicksAssumption
      <4>2. Gap(SellTicks - left) = 0
        BY <4>1, GapFacts
      <4>3. QED BY <1>1, <4>1, <4>2
    <3>2. QED BY <2>4, <3>1 DEF Rested
  <2>7. QED BY <2>4, <2>5, <2>6
<1>3. ASSUME NEW i \in DOMAIN pending' PROVE Rested(pending'[i], quiet)
  <2>1. pending \in Seq(Order)
    BY <1>1 DEF QueueOK
  <2>2. CASE i = Len(pending) + 1
    BY <1>2, <2>1, <2>2
  <2>3. CASE i # Len(pending) + 1
    <3>1. i \in DOMAIN pending /\ pending'[i] = pending[i]
      BY <1>2, <1>3, <2>1, <2>3
    <3>2. QED BY <1>1, <3>1 DEF RestOK
  <2>4. QED BY <2>2, <2>3
<1>4. QED BY <1>1, <1>2, <1>3 DEF RestOK

\* A walk settles an order or keeps it, with a tick less in a walk of ticks.
LEMMA RestWalked ==
  ASSUME IInv, RestOK, WalkOne PROVE RestOK'
<1> DEFINE o == Head(pending)
           q == IF walk = "ticks" THEN 0 ELSE quiet
<1>1. /\ pending \in Seq(Order) /\ kept \in Seq(Order) /\ quiet \in Nat /\ pending # <<>>
      /\ walk \in {"time", "ticks"} /\ TickGap \in Nat /\ SellTicks \in Nat \ {0}
  BY DelayAssumption, TicksAssumption DEF IInv, QueueOK, WalkOne
<1>2. /\ o \in Order /\ Tail(pending) \in Seq(Order) /\ o = pending[1] /\ 1 \in DOMAIN pending
  BY <1>1
<1>3. /\ pending' = Tail(pending) /\ UNCHANGED <<walk, quiet>>
      /\ \/ Keep(o) /\ (walk = "ticks" => o.by # "ticks")
         \/ Keep(Ticked(o)) /\ walk = "ticks" /\ o.by = "ticks" /\ o.left > 1
         \/ Settle(o)
  BY <1>1 DEF WalkOne
<1>4. Rested(o, q) /\ q \in Nat
  BY <1>1, <1>2 DEF RestOK
<1>5. ASSUME NEW i \in DOMAIN pending' PROVE Rested(pending'[i], q)
  <2>1. i + 1 \in DOMAIN pending /\ pending'[i] = pending[i + 1]
    BY <1>1, <1>3, <1>5
  <2>2. QED BY <2>1 DEF RestOK
<1> HIDE DEF o
<1>6. ASSUME NEW p \in Order, Keep(p), Rested(p, quiet) PROVE RestOK'
  <2>1. kept' = Append(kept, p)
    BY <1>6 DEF Keep
  <2>2. ASSUME NEW i \in DOMAIN kept' PROVE Rested(kept'[i], quiet)
    <3>1. CASE i = Len(kept) + 1
      BY <1>1, <1>6, <2>1, <3>1
    <3>2. CASE i # Len(kept) + 1
      <4>1. i \in DOMAIN kept /\ kept'[i] = kept[i]
        BY <1>1, <2>1, <2>2, <3>2
      <4>2. QED BY <4>1 DEF RestOK
    <3>3. QED BY <3>1, <3>2
  <2>3. QED BY <1>1, <1>3, <1>5, <2>2 DEF RestOK
<1>7. CASE Keep(o) /\ (walk = "ticks" => o.by # "ticks")
  <2>1. Rested(o, quiet)
    BY <1>4, <1>7 DEF Rested
  <2>2. QED BY <1>2, <1>6, <1>7, <2>1
<1>8. CASE Keep(Ticked(o)) /\ walk = "ticks" /\ o.by = "ticks" /\ o.left > 1
  <2>1. o.left \in 1..SellTicks /\ Gap(SellTicks - o.left) <= o.age + 0 /\ quiet = TickGap
    BY <1>4, <1>8 DEF Rested, RestOK
  <2>2. /\ Ticked(o) \in Order /\ Ticked(o).by = "ticks" /\ Ticked(o).age = o.age
        /\ Ticked(o).left = o.left - 1 /\ o.age \in Nat
    BY <1>2, <1>8, AgedOrder DEF Ticked, Order
  <2>3. Gap(SellTicks - (o.left - 1)) = Gap(SellTicks - o.left) + TickGap
        /\ Gap(SellTicks - o.left) \in Nat
    <3>1. SellTicks - o.left \in Nat /\ SellTicks - (o.left - 1) = (SellTicks - o.left) + 1
      BY <1>1, <2>1
    <3>2. QED BY <3>1, GapFacts
  <2>4. o.left - 1 \in 1..SellTicks /\ Gap(SellTicks - (o.left - 1)) <= o.age + quiet
    <3> DEFINE gap == Gap(SellTicks - o.left)
               next == Gap(SellTicks - (o.left - 1))
    <3>1. gap \in Nat /\ gap <= o.age + 0 /\ next = gap + TickGap
      BY <2>1, <2>3
    <3>2. o.left - 1 \in 1..SellTicks
      BY <1>1, <1>8, <2>1
    <3> HIDE DEF gap, next
    <3>3. next <= o.age + quiet
      BY <1>1, <2>1, <2>2, <3>1
    <3>4. QED BY <3>2, <3>3 DEF next
  <2>5. Rested(Ticked(o), quiet)
    BY <2>2, <2>4, Zenon DEF Rested
  <2>6. QED BY <1>6, <1>8, <2>2, <2>5
<1>9. CASE Settle(o)
  <2>1. kept' = kept
    BY <1>9 DEF Settle
  <2>2. QED BY <1>1, <1>3, <1>5, <2>1 DEF RestOK
<1>10. QED BY <1>3, <1>7, <1>8, <1>9

\* What the wait for the next tick loses, the age gains.
LEMMA RestAged ==
  ASSUME IInv, RestOK, TimePasses PROVE RestOK'
<1>1. /\ pending \in Seq(Order) /\ quiet \in Nat /\ walk = "none" /\ kept = <<>>
  BY DEF IInv, QueueOK, TimePasses, RestOK
<1>2. /\ pending' = [i \in DOMAIN pending |-> Older(pending[i])] /\ quiet' = Down(quiet)
      /\ UNCHANGED <<kept, walk>>
  BY DEF TimePasses
<1>3. ASSUME NEW o \in Order, Rested(o, quiet) PROVE Rested(Older(o), quiet')
  <2>1. SUFFICES ASSUME o.by = "ticks"
                 PROVE  /\ Older(o).left \in 1..SellTicks
                        /\ Gap(SellTicks - Older(o).left) <= Older(o).age + quiet'
    BY DEF Rested, Older, Order
  <2>2. o.left \in 1..SellTicks /\ Gap(SellTicks - o.left) <= o.age + quiet /\ o.age \in Nat
    BY <1>3, <2>1 DEF Rested, Order
  <2>3. /\ Older(o).left = o.left
        /\ Older(o).age = Least(o.age + 1, SellTicks * TickGap)
    BY <2>1 DEF Older, Order
  <2>4. /\ SellTicks - o.left \in Nat /\ SellTicks - o.left <= SellTicks
    BY <2>2, TicksAssumption
  <2>5. /\ Gap(SellTicks - o.left) \in Nat
        /\ Gap(SellTicks - o.left) <= SellTicks * TickGap
    BY <2>4, GapFacts
  <2>6. SellTicks * TickGap \in Nat
    BY TicksAssumption, DelayAssumption
  <2>7. Gap(SellTicks - o.left) <= Older(o).age + quiet'
    <3> DEFINE cap == SellTicks * TickGap
               gap == Gap(SellTicks - o.left)
    <3>1. gap \in Nat /\ cap \in Nat /\ gap <= cap /\ gap <= o.age + quiet
      BY <2>2, <2>5, <2>6
    <3> HIDE DEF cap, gap
    <3>2. gap <= Least(o.age + 1, cap) + Down(quiet)
      BY <1>1, <2>2, <3>1 DEF Least, Down
    <3>3. QED BY <1>2, <2>3, <3>2 DEF cap, gap
  <2>8. QED BY <2>2, <2>3, <2>7
<1>4. ASSUME NEW i \in DOMAIN pending' PROVE Rested(pending'[i], quiet')
  <2>1. i \in DOMAIN pending /\ pending'[i] = Older(pending[i])
    BY <1>2
  <2>2. pending[i] \in Order /\ Rested(pending[i], quiet)
    BY <1>1, <2>1, ElementOfSeq DEF RestOK
  <2>3. QED BY <1>3, <2>1, <2>2
<1>5. QED BY <1>1, <1>2, <1>4 DEF RestOK

\* Every step keeps it: each tick of an order has its share of the wait.
LEMMA RestStep == IInv /\ RestOK /\ [Next]_vars => RestOK'
<1> SUFFICES ASSUME IInv, RestOK, [Next]_vars PROVE RestOK'
  OBVIOUS
<1>1. pending \in Seq(Order) /\ kept \in Seq(Order) /\ quiet \in Nat
  BY DEF IInv, QueueOK
<1>2. CASE SettlePending
  BY <1>2 DEF SettlePending, RestOK
<1>3. CASE AdvanceMonitorTick
  <2>1. /\ walk = "none" /\ quiet = 0 /\ kept = <<>> /\ walk' = "ticks" /\ quiet' = TickGap
        /\ UNCHANGED <<pending, kept>>
    BY <1>3 DEF AdvanceMonitorTick, TickCounts, RestOK
  <2>2. QED BY <2>1 DEF RestOK
<1>4. CASE WalkEnds
  BY <1>4 DEF WalkEnds, RestOK
<1>5. CASE UNCHANGED vars
  BY <1>5 DEF vars, RestOK
<1>6. QED BY <1>2, <1>3, <1>4, <1>5, RestPlaced, RestWalked, RestAged DEF Next

\* It is an invariant.
LEMMA RestInvariant == Spec => []RestOK
<1>1. Init => RestOK
  BY DEF Init, RestOK
<1>2. QED BY <1>1, RestStep, LedgerInvariant, PTL DEF Spec

\* No sell limit is filled before it has rested for SellTicks - 1 gaps between
\* monitor ticks, for any number of ticks, any gap and any number of monitors.
THEOREM SellsRest == Spec => SellRests
<1> DEFINE Step == \A t \in Token :
                     (sold'[t] > sold[t] /\ Head(pending).by = "ticks")
                       => Head(pending).age >= (SellTicks - 1) * TickGap
<1>1. ASSUME IInv, RestOK, [Next]_vars, NEW t \in Token, sold'[t] > sold[t],
             Head(pending).by = "ticks"
      PROVE  Head(pending).age >= (SellTicks - 1) * TickGap
  <2>1. sold[t] \in Int /\ sold' # sold
    BY <1>1 DEF IInv, MoneyOK
  <2>2. WalkOne
    BY <1>1, <2>1 DEF Next, Place, PlaceBuy, PlaceSell, Enqueue, SettlePending,
                      AdvanceMonitorTick, WalkEnds, TimePasses, money, vars
  <2> DEFINE o == Head(pending)
  <2>3. /\ pending \in Seq(Order) /\ pending # <<>> /\ o \in Order /\ o = pending[1]
        /\ 1 \in DOMAIN pending
    BY <1>1, <2>2 DEF IInv, QueueOK, WalkOne
  <2>4. o.left \in Nat /\ o.age \in Nat
    BY <2>3 DEF Order
  <2>5. walk = "ticks" /\ ~(o.left > 1)
    BY <1>1, <2>1, <2>2 DEF WalkOne, Keep, money
  <2>6. o.left \in 1..SellTicks /\ Gap(SellTicks - o.left) <= o.age + 0
    BY <1>1, <2>3, <2>5 DEF RestOK, Rested
  <2>7. SellTicks - o.left = SellTicks - 1
    BY <2>4, <2>5, <2>6, TicksAssumption
  <2>8. Gap(SellTicks - 1) \in Nat
    BY GapFacts, TicksAssumption
  <2>9. QED BY <2>4, <2>6, <2>7, <2>8 DEF Gap
<1>2. IInv /\ RestOK /\ [Next]_vars => [Step]_vars
  BY <1>1
<1>3. QED BY <1>2, LedgerInvariant, RestInvariant, PTL DEF Spec, SellRests

-----------------------------------------------------------------------------
\* Every step keeps it: an order leaves the queue when it is filled.
LEMMA FilledStep == IInv /\ FilledOnce /\ [Next]_vars => FilledOnce'
<1> SUFFICES ASSUME IInv, FilledOnce, [Next]_vars PROVE FilledOnce'
  OBVIOUS
<1>1. pending \in Seq(Order) /\ kept \in Seq(Order) /\ filled \in Nat /\ accepted \in Nat
  BY DEF IInv, MoneyOK, QueueOK
<1>2. CASE Place
  <2>1. PICK o : /\ pending' = Append(pending, o) /\ accepted' = accepted + 1
                 /\ UNCHANGED <<kept, filled>>
    <3>1. PICK t, side, p, n, by, left : Enqueue(t, side, p, n, by, left)
      BY <1>2, Zenon DEF Place, PlaceBuy, PlaceSell
    <3>2. QED BY <3>1 DEF Enqueue, money
  <2>2. Len(pending') = Len(pending) + 1
    BY <1>1, <2>1
  <2>3. QED BY <1>1, <2>1, <2>2 DEF FilledOnce
<1>3. CASE WalkOne
  <2>1. pending # <<>> /\ pending' = Tail(pending) /\ accepted' = accepted
    BY <1>3 DEF WalkOne
  <2>2. Len(pending') = Len(pending) - 1 /\ Len(pending) \in Nat /\ Len(kept) \in Nat
    BY <1>1, <2>1
  <2>3. \/ kept' = kept /\ filled' \in {filled, filled + 1}
        \/ \E o : kept' = Append(kept, o) /\ filled' = filled
    BY <1>3 DEF WalkOne, Keep, Settle, SettleBuy, SettleSell, money
  <2>4. \/ Len(kept') = Len(kept) /\ filled' \in {filled, filled + 1}
        \/ Len(kept') = Len(kept) + 1 /\ filled' = filled
    BY <1>1, <2>3
  <2>5. QED BY <1>1, <2>1, <2>2, <2>4 DEF FilledOnce
<1>4. CASE WalkEnds
  <2>1. pending = <<>> /\ pending' = kept /\ kept' = <<>> /\ UNCHANGED <<filled, accepted>>
    BY <1>4 DEF WalkEnds, money
  <2>2. QED BY <1>1, <2>1 DEF FilledOnce
<1>5. CASE TimePasses
  <2>1. /\ pending' = [i \in DOMAIN pending |-> Older(pending[i])]
        /\ UNCHANGED <<kept, filled, accepted>>
    BY <1>5 DEF TimePasses, money
  <2>2. Len(pending') = Len(pending)
    <3>1. DOMAIN pending = 1..Len(pending) /\ Len(pending) \in Nat
      BY <1>1
    <3>2. DOMAIN pending' = 1..Len(pending) /\ pending' \in Seq(Order)
      <4>1. \A i \in DOMAIN pending : Older(pending[i]) \in Order
        BY <1>1, AgedOrder, ElementOfSeq
      <4>2. QED BY <2>1, <3>1, <4>1
    <3>3. QED BY <3>1, <3>2, LenProperties
  <2>3. QED BY <2>1, <2>2 DEF FilledOnce
<1>6. CASE SettlePending \/ AdvanceMonitorTick \/ UNCHANGED vars
  BY <1>6 DEF SettlePending, AdvanceMonitorTick, vars, money, FilledOnce
<1>7. QED BY <1>2, <1>3, <1>4, <1>5, <1>6 DEF Next

\* No order is filled twice, and none is filled that is still in the queue: the
\* fills and the orders in the queue are never more than the orders accepted.
THEOREM OrdersFillOnce == Spec => []FilledOnce
<1>1. Init => FilledOnce
  BY DEF Init, FilledOnce
<1>2. QED BY <1>1, FilledStep, LedgerInvariant, PTL DEF Spec

=============================================================================
