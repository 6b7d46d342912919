----------------------------- MODULE PaperLedger -----------------------------
(***************************************************************************)
(* The PaperSessionLedger of execution/paper_exchange.py: the virtual      *)
(* exchange behind a paper run.  All markets share one ledger.  An order   *)
(* is accepted into a queue of pending settlements and touches cash and    *)
(* balances only when it settles: a GTC sell after a number of monitor     *)
(* ticks, any other order, partially, after a random delay.                *)
(*                                                                         *)
(* settle_pending and advance_monitor_tick walk the queue under the lock;  *)
(* the walk is one step per order, and `walk' keeps every other step out   *)
(* until it has ended.  Times are relative: `left' is the time, or the     *)
(* number of ticks, an order still has to wait, `quiet' the time for which *)
(* a further monitor tick is ignored.  Shares are lots larger than eps.    *)
(* The cost basis of a position is not modelled: nothing reads it.         *)
(***************************************************************************)
EXTENDS Integers, Sequences

CONSTANTS
  Token,      \* the outcome tokens of all markets
  Price,      \* the limit prices of orders
  MaxLots,    \* the largest order
  Start,      \* paper_starting_usdc
  Fee,        \* [notional -> fee], _fee_on_notional with its rounding
  Delays,     \* the settlement delays drawn from
  SellTicks,  \* max(1, paper_sell_limit_settle_ticks)
  TickGap,    \* the time between two monitor ticks that count
  MaxOrders   \* bound: the orders accepted in a run

Lots     == 1..MaxLots
Notional == {p * n : p \in Price, n \in Lots}

ASSUME PriceAssumption == Price \subseteq Nat \ {0} /\ MaxLots \in Nat
ASSUME StartAssumption == Start \in Nat
ASSUME FeeAssumption   == \A n \in Notional : Fee[n] \in Nat /\ Fee[n] <= n
ASSUME DelayAssumption == Delays \subseteq Nat /\ TickGap \in Nat
ASSUME TicksAssumption == SellTicks \in Nat \ {0} /\ MaxOrders \in Nat

VARIABLES
  cash,      \* usdc_cash
  held,      \* the shares of _positions
  pending,   \* _pending, in a walk the orders not looked at yet
  kept,      \* still_pending of the walk
  walk,      \* which walk of the queue is under way
  quiet,     \* what is left of the debounce gap of advance_monitor_tick
  accepted,  \* history: orders accepted
  filled,    \* history: fills
  spent, earned,  \* history: what the fills have cost and brought
  bought, sold    \* history: the shares of the fills

vars == <<cash, held, pending, kept, walk, quiet, accepted, filled, spent, earned,
          bought, sold>>

money  == <<cash, held, filled, spent, earned, bought, sold>>

\* by: what `left' counts; age: the time since the order was accepted.
Order == [token : Token, side : {"BUY", "SELL"}, price : Price, lots : Lots,
          by : {"time", "ticks"}, left : Nat, age : Nat]

Init ==
  /\ cash = Start
  /\ held = [t \in Token |-> 0]
  /\ pending = <<>> /\ kept = <<>> /\ walk = "none" /\ quiet = 0
  /\ accepted = 0 /\ filled = 0
  /\ spent = 0 /\ earned = 0
  /\ bought = [t \in Token |-> 0] /\ sold = [t \in Token |-> 0]

-----------------------------------------------------------------------------
Least(i, j) == IF i <= j THEN i ELSE j

Cost(p, n) == p * n + Fee[p * n]
Net(p, n)  == p * n - Fee[p * n]

\* A sell limit rests for SellTicks monitor ticks and fills completely.
RestsForTicks(side, type) == side = "SELL" /\ type = "GTC"

\* place_limit_order; n is what the fill fraction leaves of the lots ordered.
\* Cash and shares are looked at, but not reserved.
Enqueue(t, side, p, n, by, left) ==
  /\ pending' = Append(pending, [token |-> t, side |-> side, price |-> p, lots |-> n,
                                 by |-> by, left |-> left, age |-> 0])
  /\ accepted' = accepted + 1
  /\ UNCHANGED <<money, kept, walk, quiet>>

PlaceBuy(t, p, n) ==
  /\ walk = "none" /\ accepted < MaxOrders
  /\ Cost(p, n) <= cash
  /\ \E d \in Delays : Enqueue(t, "BUY", p, n, "time", d)

HasShares(t) == held[t] > 0

PlaceSell(t, p, n, type) ==
  /\ walk = "none" /\ accepted < MaxOrders
  /\ HasShares(t)
  /\ IF RestsForTicks("SELL", type)
     THEN Enqueue(t, "SELL", p, Least(n, held[t]), "ticks", SellTicks)
     ELSE \E d \in Delays : Enqueue(t, "SELL", p, Least(n, held[t]), "time", d)

-----------------------------------------------------------------------------
(* _apply_settlement_locked.                                                *)

\* Mutant: the cash is not looked at again when the buy settles.
CanPay_Always(o) == TRUE

\* Buys accepted meanwhile may have used the cash up: the order is dropped.
CanPay(o) == Cost(o.price, o.lots) <= cash

SettleBuy(o) ==
  IF CanPay(o)
  THEN /\ cash' = cash - Cost(o.price, o.lots)
       /\ spent' = spent + Cost(o.price, o.lots)
       /\ held' = [held EXCEPT ![o.token] = @ + o.lots]
       /\ bought' = [bought EXCEPT ![o.token] = @ + o.lots]
       /\ filled' = filled + 1
       /\ UNCHANGED <<earned, sold>>
  ELSE UNCHANGED money

\* Mutant: the shares are not looked at again when the sell settles.
Sellable_Ordered(o) == o.lots

\* Sells accepted meanwhile may have sold the shares.
Sellable(o) == Least(o.lots, held[o.token])

\* Mutant: the proceeds are those of the lots ordered.
Proceeds_Ordered(o) == Net(o.price, o.lots)

Proceeds(o) == Net(o.price, Sellable(o))

SettleSell(o) ==
  IF Sellable(o) > 0
  THEN /\ cash' = cash + Proceeds(o)
       /\ earned' = earned + Net(o.price, Sellable(o))
       /\ held' = [held EXCEPT ![o.token] = @ - Sellable(o)]
       /\ sold' = [sold EXCEPT ![o.token] = @ + Sellable(o)]
       /\ filled' = filled + 1
       /\ UNCHANGED <<spent, bought>>
  ELSE UNCHANGED money

Settle(o) ==
  /\ IF o.side = "BUY" THEN SettleBuy(o) ELSE SettleSell(o)
  /\ UNCHANGED kept

Keep(o) == kept' = Append(kept, o) /\ UNCHANGED money

-----------------------------------------------------------------------------
(* The two walks of the queue.                                              *)

\* balances() of a market, which settles what is due in all of them.
SettlePending ==
  /\ walk = "none" /\ pending # <<>>
  /\ walk' = "time"
  /\ UNCHANGED <<money, pending, kept, quiet, accepted>>

\* Mutant: every monitor's call counts.
TickCounts_Always == TRUE

\* The call comes a gap after the last one that counted.
TickCounts == quiet = 0

\* advance_monitor_tick, called by every monitor for every poll.
AdvanceMonitorTick ==
  /\ walk = "none" /\ TickCounts
  /\ walk' = "ticks"
  /\ quiet' = TickGap
  /\ UNCHANGED <<money, pending, kept, accepted>>

\* Mutant: the number of ticks left is not written back.
Ticked_Lost(o) == o

\* One monitor tick less to wait.
Ticked(o) == [o EXCEPT !.left = @ - 1]

\* The walk comes to the order at the head of the queue.
WalkOne ==
  LET o == Head(pending) IN
  /\ walk # "none" /\ pending # <<>>
  /\ pending' = Tail(pending)
  /\ IF o.by # walk THEN Keep(o)
     ELSE IF walk = "time"
     THEN IF o.left > 0 THEN Keep(o) ELSE Settle(o)
     ELSE IF o.left > 1 THEN Keep(Ticked(o)) ELSE Settle(o)
  /\ UNCHANGED <<walk, quiet, accepted>>

WalkEnds ==
  /\ walk # "none" /\ pending = <<>>
  /\ walk' = "none"
  /\ pending' = kept /\ kept' = <<>>
  /\ UNCHANGED <<money, quiet, accepted>>

Down(n) == IF n > 0 THEN n - 1 ELSE 0

\* The ages that matter are bounded by the resting time of a sell limit.
Older(o) == [o EXCEPT !.left = IF o.by = "time" THEN Down(@) ELSE @,
                      !.age = Least(@ + 1, SellTicks * TickGap)]

TimePasses ==
  /\ walk = "none"
  /\ quiet' = Down(quiet)
  /\ pending' = [i \in DOMAIN pending |-> Older(pending[i])]
  /\ UNCHANGED <<money, kept, walk, accepted>>

Place ==
  \E t \in Token, p \in Price, n \in Lots :
    PlaceBuy(t, p, n) \/ \E type \in {"GTC", "FAK"} : PlaceSell(t, p, n, type)

Next ==
  \/ Place \/ SettlePending \/ AdvanceMonitorTick \/ WalkOne \/ WalkEnds
  \/ TimePasses

\* A walk runs to its end under the lock; monitors poll again and again, every
\* poll refreshes the balances and advances the ticks, and the wall clock goes
\* on whatever is called how often (it only stands still during a walk).
Fairness ==
  /\ WF_vars(WalkOne \/ WalkEnds) /\ SF_vars(TimePasses)
  /\ SF_vars(SettlePending) /\ SF_vars(AdvanceMonitorTick)

Spec     == Init /\ [][Next]_vars
FairSpec == Spec /\ Fairness

TypeOK ==
  /\ cash \in Int
  /\ held \in [Token -> Int]
  /\ pending \in Seq(Order) /\ kept \in Seq(Order)
  /\ walk \in {"none", "time", "ticks"}
  /\ quiet \in Nat
  /\ accepted \in Nat /\ filled \in Nat
  /\ spent \in Int /\ earned \in Int
  /\ bought \in [Token -> Int] /\ sold \in [Token -> Int]

-----------------------------------------------------------------------------
(* Properties.                                                              *)

\* Neither cash nor a balance turns negative, although acceptance reserves
\* nothing and any number of orders may be pending on the same cash or shares.
Solvent == cash >= 0 /\ \A t \in Token : held[t] >= 0

\* The cash is the starting cash, less what the fills report to have cost, plus
\* what they report to have brought (clamped sells included).
CashMatchesFills == cash = Start - spent + earned

\* No share is sold twice, whatever sells are pending on it.
SharesMatchFills ==
  \A t \in Token : held[t] = bought[t] - sold[t] /\ sold[t] <= bought[t]

\* A sell limit is filled no sooner than SellTicks ticks of the wall clock,
\* however many monitors share the ledger and call in the same instant.
SellRests ==
  [][\A t \in Token :
       (sold'[t] > sold[t] /\ Head(pending).by = "ticks")
         => Head(pending).age >= (SellTicks - 1) * TickGap]_vars

\* Every accepted order leaves the queue.
QueueEmpties == [](accepted = MaxOrders => <>(pending = <<>> /\ kept = <<>>))

=============================================================================
