---------------------------- MODULE EntryStrategy ----------------------------
(***************************************************************************)
(* The EntryStrategyCoordinator of execution/exit_strategy.py over one     *)
(* epoch: the two monitor loops (btc and eth) call on_monitor_tick, whose  *)
(* body runs under one asyncio.Lock, evaluates the risk exits of both      *)
(* positions, ticks buy1 (btc) and buy2 (eth), and spawns a _run_buy task. *)
(*                                                                         *)
(* A strategy is named by the symbol it buys: buy1 is "btc", buy2 is       *)
(* "eth".  asyncio is cooperative, so a step is the code between two       *)
(* awaits.  Where such a stretch is split into several steps, `running'    *)
(* names the monitor that still has the event loop and every other         *)
(* coroutine waits; the exchange does not wait for anybody.                *)
(*                                                                         *)
(* Prices, spots and times are abstracted to what the guards tell apart:   *)
(*   view[s].book    outcomes whose own book passes _side_book_ok          *)
(*   view[s].strong  outcomes whose bid passes the other leg's             *)
(*                   other_symbol_min_best_bid                             *)
(*   view[s].trend   for each strategy, the sign of s's spot minus strike  *)
(*                   ("flat" below that strategy's minimum; for btc the    *)
(*                   epoch average has to agree, or it is "flat")          *)
(*   view[s].bid     for each outcome, the class of the best bid: "none"   *)
(*                   (no bid), "low" (below risk3.bid_below), "loss"       *)
(*                   (below fill_price - loss_offset only), "high"         *)
(* Shares are whole lots larger than balance_epsilon.  clock[s] counts     *)
(* the ticks of s, the opposite direction of remaining_s.                  *)
(***************************************************************************)
EXTENDS Integers

CONSTANTS
  None,         \* no monitor holds the lock, or the event loop
  Size,         \* shares of a buy order
  BuyCycles,    \* max(1, monitoring_cycles) of buy1 and buy2
  RiskCycles,   \* max(1, monitoring_cycles) of risk1 and risk3
  MaxSells,     \* [Reasons -> max(1, max_sell_attempts)]
  BuyEnabled,   \* the strategies that are enabled
  RiskEnabled,  \* the risk exits that are enabled
  Opens,        \* [Symbols -> first clock of the strategy's window]
  Closes,       \* [Symbols -> last clock of the strategy's window]
  Horizon,      \* the clock at which the epoch ends
  Views,        \* [Symbols -> set of views a tick may observe]
  Held          \* [Symbols -> set of balances the coordinator may start with]

Symbols  == {"btc", "eth"}
Outcomes == {"YES", "NO"}
Reasons  == {"risk1", "risk2", "risk3"}
Trends   == {"up", "down", "flat"}
Bids     == {"none", "low", "loss", "high"}
Shares   == [Outcomes -> Nat]
NoShares == [o \in Outcomes |-> 0]

View == [book : SUBSET Outcomes, strong : SUBSET Outcomes,
         trend : [Symbols -> Trends], bid : [Outcomes -> Bids]]

NoView == [book |-> {}, strong |-> {}, trend |-> [b \in Symbols |-> "flat"],
           bid |-> [o \in Outcomes |-> "none"]]

ASSUME NoneAssumption    == None \notin Symbols
ASSUME SizeAssumption    == Size \in Nat \ {0}
ASSUME CyclesAssumption  == BuyCycles \in Nat \ {0} /\ RiskCycles \in Nat \ {0}
ASSUME SellsAssumption   == MaxSells \in [Reasons -> Nat \ {0}]
ASSUME EnabledAssumption == BuyEnabled \subseteq Symbols /\ RiskEnabled \subseteq Reasons
ASSUME WindowAssumption  == Opens \in [Symbols -> Nat] /\ Closes \in [Symbols -> Nat]
ASSUME HorizonAssumption == Horizon \in Nat
ASSUME ViewsAssumption   == Views \in [Symbols -> SUBSET View]
ASSUME HeldAssumption    == Held \in [Symbols -> SUBSET Shares]

VARIABLES
  life,      \* a monitor has not registered yet, is registered, or is gone
  clock,     \* MarketSlot.remaining_s
  view,      \* the bids, asks and spot_minus_strike last written to the slot
  rem,       \* MarketSlot.rem_yes / rem_no
  pos,       \* MarketSlot.position
  strat,     \* _buy1_state and _buy2_state
  blocked,   \* _buy_blocked_symbols
  lock,      \* the monitor that holds EntryStrategyCoordinator._lock
  running,   \* the monitor in the middle of a stretch without awaits
  tick,      \* where each monitor's on_monitor_tick stands
  task,      \* where each slot's active_task (_run_buy) stands
  openBuy,   \* exchange: lots of the accepted buy order not yet filled
  resting,   \* exchange: lots of live GTC sell orders
  wallet,    \* exchange: the outcome tokens really held
  accepted,  \* history: buy orders the exchange accepted
  sells,     \* history: sell orders posted
  before,    \* history: what the wallet held when the coordinator started
  blind      \* history: symbols whose baseline misses shares held before

vars == <<life, clock, view, rem, pos, strat, blocked, lock, running, tick, task,
          openBuy, resting, wallet, accepted, sells, before, blind>>

exchange == <<openBuy, resting, wallet>>
history  == <<accepted, sells, before, blind>>

-----------------------------------------------------------------------------
(* State of a position, of a strategy, and of the two kinds of coroutine.  *)

Position ==
  [outcome : Outcomes \cup {""}, pending : BOOLEAN, confirmed : BOOLEAN,
   closed : BOOLEAN, hold : {"off", "running", "expired"},
   risk1 : 0..RiskCycles, risk3 : 0..RiskCycles, exitBusy : BOOLEAN,
   reason : Reasons \cup {""}, attempts : Nat, baseline : Shares]

NoPosition ==
  [outcome |-> "", pending |-> FALSE, confirmed |-> FALSE, closed |-> FALSE,
   hold |-> "off", risk1 |-> 0, risk3 |-> 0, exitBusy |-> FALSE, reason |-> "",
   attempts |-> 0, baseline |-> NoShares]

Strategy ==
  [done : BOOLEAN, locked : Outcomes \cup {""}, cycles : [Outcomes -> Nat],
   busy : BOOLEAN]

NewStrategy ==
  [done |-> FALSE, locked |-> "", cycles |-> [o \in Outcomes |-> 0], busy |-> FALSE]

\* "refresh", "sell" and "recheck" are awaits inside _evaluate_risk_exits of
\* the slot named by target; "lock" awaits the coordinator's lock.
Tick == [at : {"sleep", "lock", "risk", "refresh", "sell", "recheck", "decide"},
         target : Symbols, qty : Nat]

Sleeping == [at |-> "sleep", target |-> "btc", qty |-> 0]

Tasks == {"none", "posting", "accepted", "refused", "nomatch", "refreshing"}

\* A coordinator is made for each cycle.  When the bot is started again within
\* an epoch, the wallet holds what an earlier coordinator has bought and not sold.
Init ==
  /\ life     = [s \in Symbols |-> "new"]
  /\ clock    = [s \in Symbols |-> 0]
  /\ view     = [s \in Symbols |-> NoView]
  /\ rem      = [s \in Symbols |-> NoShares]
  /\ pos      = [s \in Symbols |-> NoPosition]
  /\ strat    = [s \in Symbols |-> NewStrategy]
  /\ blocked  = {}
  /\ lock     = None
  /\ running  = None
  /\ tick     = [s \in Symbols |-> Sleeping]
  /\ task     = [s \in Symbols |-> "none"]
  /\ openBuy  = [s \in Symbols |-> 0]
  /\ resting  = [s \in Symbols |-> 0]
  /\ before \in {w \in [Symbols -> UNION {Held[s] : s \in Symbols}] :
                   \A s \in Symbols : w[s] \in Held[s]}
  /\ wallet   = before
  /\ accepted = [s \in Symbols |-> 0]
  /\ sells    = [s \in Symbols |-> 0]
  /\ blind    = {}

-----------------------------------------------------------------------------
(* Helpers.                                                                 *)

Other(s)  == IF s = "btc" THEN "eth" ELSE "btc"
BothUp    == \A s \in Symbols : life[s] = "up"
LoopFree  == running = None
Larger(i, j) == IF i >= j THEN i ELSE j

\* _ref_remaining_s: the least remaining time over the registered slots.
RefClock ==
  IF BothUp THEN Larger(clock["btc"], clock["eth"])
  ELSE IF life["btc"] = "up" THEN clock["btc"] ELSE clock["eth"]

InWindow(b) == Opens[b] <= RefClock /\ RefClock <= Closes[b]

\* _position_shares, from a slot's rem_* and its position.
PositionShares(r, p) ==
  IF p.outcome \in Outcomes /\ r[p.outcome] > p.baseline[p.outcome]
  THEN r[p.outcome] - p.baseline[p.outcome] ELSE 0

IsFlat(r, p) == PositionShares(r, p) = 0

\* The part of _ingest_buy_fills that decides: shares above the baseline
\* confirm a pending order and start the hold timer of risk2.
Ingest(p, r) ==
  IF p.pending /\ ~p.confirmed /\ ~IsFlat(r, p)
  THEN [p EXCEPT !.confirmed = TRUE, !.pending = FALSE, !.hold = "running"]
  ELSE p

\* The lots of the buy orders of b that have been filled.
Bought(b) == Size * accepted[b] - openBuy[b]

\* What the wallet has held of an outcome at the moments of the epoch: what it
\* held before, the lots bought since, and fewer once sell orders were posted.
HeldSince(s, o) ==
  IF o = strat[s].locked
  THEN (IF sells[s] = 0 THEN before[s][o] ELSE 0)..(before[s][o] + Bought(s))
  ELSE {before[s][o]}

\* What refresh_balances may leave in a slot: the chain, the CLOB and the data
\* API lag behind the wallet by different times, and throttle and cache bring
\* back earlier answers, so it is what was held at some moment of the epoch; a
\* reader that fails counts as zero, hence it is none when all of them fail.  A
\* slot that was unregistered meanwhile is not written.
Reads(s) ==
  IF life[s] = "up"
  THEN {r \in [Outcomes -> {0} \cup UNION {HeldSince(s, o) : o \in Outcomes}] :
          \A o \in Outcomes : r[o] \in {0} \cup HeldSince(s, o)}
  ELSE {rem[s]}

\* _global_gates_ok with _passes_sign_alignment.
GlobalGatesOk(b) ==
  /\ view["btc"].trend[b] # "flat"
  /\ view["eth"].trend[b] = view["btc"].trend[b]

\* _buy1_side_ok for b = "btc", _buy2_side_ok for b = "eth".
SideOk(b, o) ==
  /\ b \in BuyEnabled
  /\ b \notin blocked
  /\ BothUp
  /\ ~pos[b].pending
  /\ ~(pos[b].confirmed /\ ~pos[b].closed)
  /\ GlobalGatesOk(b)
  /\ o \in view[b].book
  /\ o \in view[Other(b)].strong

Counted(b) == [o \in Outcomes |-> IF SideOk(b, o) THEN strat[b].cycles[o] + 1 ELSE 0]

\* YES is looked at first.
FirstReady(c) ==
  IF c["YES"] >= BuyCycles THEN "YES" ELSE IF c["NO"] >= BuyCycles THEN "NO" ELSE ""

\* Mutant: leaving the window forgets the locked outcome, too.
TickStrategy_Unlocks(b) ==
  IF strat[b].done THEN strat[b]
  ELSE IF ~InWindow(b)
    THEN [strat[b] EXCEPT !.cycles = [o \in Outcomes |-> 0], !.locked = ""]
  ELSE IF strat[b].locked # "" THEN strat[b]
  ELSE [strat[b] EXCEPT !.cycles = Counted(b), !.locked = FirstReady(Counted(b))]

\* The state _tick_strategy leaves behind.
TickStrategy(b) ==
  IF strat[b].done THEN strat[b]
  ELSE IF ~InWindow(b) THEN [strat[b] EXCEPT !.cycles = [o \in Outcomes |-> 0]]
  ELSE IF strat[b].locked # "" THEN strat[b]
  ELSE [strat[b] EXCEPT !.cycles = Counted(b), !.locked = FirstReady(Counted(b))]

\* _tick_strategy returned an outcome and the strategy is neither done nor busy.
Triggers(b) ==
  /\ ~strat[b].done /\ ~strat[b].busy
  /\ InWindow(b)
  /\ TickStrategy(b).locked # ""
  /\ SideOk(b, TickStrategy(b).locked)

\* A counter that is only compared with RiskCycles stops there.
Saturate(n) == IF n < RiskCycles THEN n + 1 ELSE n

Risk1Cycles(p, bid) ==
  IF "risk1" \notin RiskEnabled \/ bid = "none" THEN p.risk1
  ELSE IF bid \in {"loss", "low"} THEN Saturate(p.risk1) ELSE 0

Risk3Cycles(p, bid) ==
  IF "risk3" \notin RiskEnabled \/ bid = "none" THEN p.risk3
  ELSE IF bid = "low" THEN Saturate(p.risk3) ELSE 0

Risk1Fires(p, bid) ==
  "risk1" \in RiskEnabled /\ bid # "none" /\ Risk1Cycles(p, bid) >= RiskCycles

\* Mutant: the comparison with hold_timeout_sec is turned around.
Risk2Fires_Early(p) == "risk2" \in RiskEnabled /\ p.hold = "running"

Risk2Fires(p) == "risk2" \in RiskEnabled /\ p.hold = "expired"

Risk3Fires(p, bid) ==
  "risk3" \in RiskEnabled /\ bid # "none" /\ Risk3Cycles(p, bid) >= RiskCycles

\* _pick_risk_exit_reason: risk1 before risk2 before risk3 ...
PickReason(p, bid) ==
  IF Risk1Fires(p, bid) THEN "risk1"
  ELSE IF Risk2Fires(p) THEN "risk2"
  ELSE IF Risk3Fires(p, bid) THEN "risk3" ELSE ""

\* ... and the counters it leaves: an earlier return skips the risk3 counter.
PickCounters(p, bid) ==
  [p EXCEPT !.risk1 = Risk1Cycles(p, bid),
            !.risk3 = IF Risk1Fires(p, bid) \/ Risk2Fires(p) THEN @
                      ELSE Risk3Cycles(p, bid)]

\* Mutant: the last attempt is granted twice.
TriesLeft_OneMore(p, reason) == p.attempts <= MaxSells[reason]

TriesLeft(p, reason) == p.attempts < MaxSells[reason]

\* A registered slot whose position is confirmed and not closed.
Exposed(s) == life[s] = "up" /\ pos[s].confirmed /\ ~pos[s].closed

\* Mutant: the running buy task is not looked at.
Evaluable_Buying(s) == Exposed(s)

\* Mutant: a closed position is evaluated again.
Evaluable_Closed(s) == life[s] = "up" /\ pos[s].confirmed /\ task[s] = "none"

\* The first two returns of _evaluate_risk_exits are not taken.
Evaluable(s) == Exposed(s) /\ task[s] = "none"

BestBid(s, o) == IF o \in Outcomes THEN view[s].bid[o] ELSE "none"

-----------------------------------------------------------------------------
(* The monitor loops: registration, the prelude of a tick, the lock.        *)

\* The condition of the monitor loop, utc_now < epoch_end.
EpochRuns(m) == clock[m] < Horizon

Register(m) ==
  /\ LoopFree /\ life[m] = "new"
  /\ life' = [life EXCEPT ![m] = "up"]
  /\ UNCHANGED <<clock, view, rem, pos, strat, blocked, lock, running, tick, task,
                 exchange, history>>

\* executor.py publishes the btc spot before its own tick runs, in front of
\* the awaits of submit_wave and of the balance refresh.
PublishBtcContext ==
  /\ LoopFree /\ life["btc"] = "up" /\ tick["btc"].at = "sleep"
  /\ \E v \in Views["btc"] : view' = [view EXCEPT !["btc"].trend = v.trend]
  /\ UNCHANGED <<life, clock, rem, pos, strat, blocked, lock, running, tick, task,
                 exchange, history>>

\* on_monitor_tick up to `async with self._lock': the slot is overwritten and
\* its fills ingested outside the lock; with one slot only, nothing follows.
TickEnter(m) ==
  /\ LoopFree /\ life[m] = "up" /\ tick[m].at = "sleep" /\ EpochRuns(m)
  /\ clock' = [clock EXCEPT ![m] = @ + 1]
  /\ \E v \in Views[m] : view' = [view EXCEPT ![m] = v]
  /\ \E r \in Reads(m) :
       /\ rem' = [rem EXCEPT ![m] = r]
       /\ pos' = [pos EXCEPT ![m] = Ingest(@, r)]
  /\ tick' = [tick EXCEPT ![m].at = IF BothUp THEN "lock" ELSE "sleep"]
  /\ UNCHANGED <<life, strat, blocked, lock, running, task, exchange, history>>

\* The lock is granted; the fills of both slots are ingested.
AcquireLock(m) ==
  /\ LoopFree /\ tick[m].at = "lock" /\ lock = None
  /\ lock' = m
  /\ running' = m
  /\ pos' = [s \in Symbols |-> IF life[s] = "up" THEN Ingest(pos[s], rem[s]) ELSE pos[s]]
  /\ tick' = [tick EXCEPT ![m].at = "risk", ![m].target = "btc"]
  /\ UNCHANGED <<life, clock, view, rem, strat, blocked, task, exchange, history>>

\* Monitor m goes on behind the slot it has just evaluated, keeping the loop.
NextTarget(m) ==
  /\ running' = m
  /\ tick' = [tick EXCEPT ![m].at = IF tick[m].target = "btc" THEN "risk" ELSE "decide",
                          ![m].target = "eth"]

\* Monitor m gives up the event loop at an await.
AwaitAt(m, where, n) ==
  /\ running' = None
  /\ tick' = [tick EXCEPT ![m].at = where, ![m].qty = n]

-----------------------------------------------------------------------------
(* _evaluate_risk_exits of the slot tick[m].target, by the lock holder m.   *)

\* Nothing to protect, or the slot's buy task still runs.
RiskSkip(m) ==
  LET t == tick[m].target IN
  /\ running = m /\ tick[m].at = "risk"
  /\ ~Evaluable(t)
  /\ NextTarget(m)
  /\ UNCHANGED <<life, clock, view, rem, pos, strat, blocked, lock, task, exchange, history>>

RiskRefresh(m) ==
  LET t == tick[m].target IN
  /\ running = m /\ tick[m].at = "risk"
  /\ Evaluable(t)
  /\ AwaitAt(m, "refresh", 0)
  /\ UNCHANGED <<life, clock, view, rem, pos, strat, blocked, lock, task, exchange, history>>

\* The refresh returns and finds no shares left: closed, with no other effect.
RiskFlat(m) ==
  LET t == tick[m].target IN
  /\ LoopFree /\ tick[m].at = "refresh"
  /\ \E r \in Reads(t) :
       /\ IsFlat(r, pos[t])
       /\ rem' = [rem EXCEPT ![t] = r]
  /\ pos' = [pos EXCEPT ![t].closed = TRUE]
  /\ NextTarget(m)
  /\ UNCHANGED <<life, clock, view, strat, blocked, lock, task, exchange, history>>

\* An exit is under way and its reason's attempts are used up.
RiskExhausted(m) ==
  LET t == tick[m].target
      p == pos[t] IN
  /\ LoopFree /\ tick[m].at = "refresh"
  /\ p.exitBusy /\ ~TriesLeft(p, p.reason)
  /\ \E r \in Reads(t) : ~IsFlat(r, p) /\ rem' = [rem EXCEPT ![t] = r]
  /\ pos' = [pos EXCEPT ![t].exitBusy = FALSE]
  /\ NextTarget(m)
  /\ UNCHANGED <<life, clock, view, strat, blocked, lock, task, exchange, history>>

\* An exit is under way: sell what is left once more.
RiskRetry(m) ==
  LET t == tick[m].target
      p == pos[t] IN
  /\ LoopFree /\ tick[m].at = "refresh"
  /\ p.exitBusy /\ TriesLeft(p, p.reason)
  /\ \E r \in Reads(t) :
       /\ ~IsFlat(r, p)
       /\ rem' = [rem EXCEPT ![t] = r]
       /\ AwaitAt(m, "sell", PositionShares(r, p))
  /\ pos' = [pos EXCEPT ![t].attempts = @ + 1]
  /\ sells' = [sells EXCEPT ![t] = @ + 1]
  /\ UNCHANGED <<life, clock, view, strat, blocked, lock, task, exchange, accepted, before, blind>>

\* No exit is under way and none starts: no condition holds, or the attempts
\* already used reach the maximum of the condition that does.
RiskHold(m) ==
  LET t == tick[m].target
      p == pos[t]
      bid == BestBid(t, p.outcome)
      reason == PickReason(p, bid) IN
  /\ LoopFree /\ tick[m].at = "refresh"
  /\ ~p.exitBusy
  /\ ~(reason # "" /\ TriesLeft(p, reason))
  /\ \E r \in Reads(t) : ~IsFlat(r, p) /\ rem' = [rem EXCEPT ![t] = r]
  /\ pos' = [pos EXCEPT ![t] = PickCounters(p, bid)]
  /\ NextTarget(m)
  /\ UNCHANGED <<life, clock, view, strat, blocked, lock, task, exchange, history>>

\* A risk exit starts and posts its first sell order.
RiskTrigger(m) ==
  LET t == tick[m].target
      p == pos[t]
      bid == BestBid(t, p.outcome)
      reason == PickReason(p, bid) IN
  /\ LoopFree /\ tick[m].at = "refresh"
  /\ ~p.exitBusy
  /\ reason # "" /\ TriesLeft(p, reason)
  /\ \E r \in Reads(t) :
       /\ ~IsFlat(r, p)
       /\ rem' = [rem EXCEPT ![t] = r]
       /\ AwaitAt(m, "sell", PositionShares(r, p))
  /\ pos' = [pos EXCEPT ![t] = [PickCounters(p, bid) EXCEPT !.exitBusy = TRUE,
                                                            !.reason = reason,
                                                            !.attempts = @ + 1]]
  /\ sells' = [sells EXCEPT ![t] = @ + 1]
  /\ UNCHANGED <<life, clock, view, strat, blocked, lock, task, exchange, accepted, before, blind>>

\* _place_limit_sell returned; whether it succeeded is only logged.
SellAnswered(m) ==
  /\ LoopFree /\ tick[m].at = "sell"
  /\ AwaitAt(m, "recheck", 0)
  /\ UNCHANGED <<life, clock, view, rem, pos, strat, blocked, lock, task, exchange, history>>

\* The refresh after the sell: a flat position runs _finish_risk_exit.
RiskRecheck(m) ==
  LET t == tick[m].target IN
  /\ LoopFree /\ tick[m].at = "recheck"
  /\ \E r \in Reads(t) :
       /\ rem' = [rem EXCEPT ![t] = r]
       /\ IF IsFlat(r, pos[t])
          THEN /\ pos' = [pos EXCEPT ![t].exitBusy = FALSE, ![t].closed = TRUE,
                                     ![t].risk1 = 0, ![t].risk3 = 0]
               /\ blocked' = blocked \cup {t}
          ELSE UNCHANGED <<pos, blocked>>
  /\ NextTarget(m)
  /\ UNCHANGED <<life, clock, view, strat, lock, task, exchange, history>>

-----------------------------------------------------------------------------
(* The entries: the end of on_monitor_tick, _run_buy, unregister_market.    *)

\* Mutant: an early return that does not release the lock.
LeaveLock_Kept(m) ==
  /\ running' = None /\ UNCHANGED lock
  /\ tick' = [tick EXCEPT ![m] = Sleeping]

\* The end of the `async with' block, and of on_monitor_tick.
LeaveLock(m) ==
  /\ running' = None /\ lock' = None
  /\ tick' = [tick EXCEPT ![m] = Sleeping]

\* Mutant: an aborted order leaves its strategy open.
BuyEnds_NotDone(b, final) ==
  /\ strat' = [strat EXCEPT ![b].busy = FALSE]
  /\ task' = [task EXCEPT ![b] = "none"]

\* The finally clause of _run_buy; final: the strategy is done for this epoch.
BuyEnds(b, final) ==
  /\ strat' = [strat EXCEPT ![b].busy = FALSE, ![b].done = @ \/ final]
  /\ task' = [task EXCEPT ![b] = "none"]

\* The monitor's own slot still has a running buy: the strategies are not ticked.
DecideBusy(m) ==
  /\ running = m /\ tick[m].at = "decide"
  /\ task[m] # "none"
  /\ LeaveLock(m)
  /\ UNCHANGED <<life, clock, view, rem, pos, strat, blocked, task, exchange, history>>

\* Both strategies are ticked, whichever monitor this is; those that trigger
\* turn busy and get a _run_buy task.
Decide(m) ==
  /\ running = m /\ tick[m].at = "decide"
  /\ task[m] = "none"
  /\ strat' = [b \in Symbols |->
                 [TickStrategy(b) EXCEPT !.busy = strat[b].busy \/ Triggers(b)]]
  /\ task' = [b \in Symbols |-> IF Triggers(b) THEN "posting" ELSE task[b]]
  /\ LeaveLock(m)
  /\ UNCHANGED <<life, clock, view, rem, pos, blocked, exchange, history>>

\* The balance in the slot shows fewer shares than were held before the order.
Misses(b) == \E o \in Outcomes : o = strat[b].locked /\ rem[b][o] < before[b][o]

\* Mutant: the baseline stays what it was, as if every share were of the order.
BuyPlaced_NoBaseline(b) ==
  /\ LoopFree /\ task[b] = "accepted"
  /\ strat' = [strat EXCEPT ![b].done = TRUE]
  /\ pos' = [pos EXCEPT ![b].outcome = strat[b].locked, ![b].pending = TRUE]
  /\ task' = [task EXCEPT ![b] = "refreshing"]
  /\ blind' = IF Misses(b) THEN blind \cup {b} ELSE blind
  /\ UNCHANGED <<life, clock, view, rem, blocked, lock, running, tick, exchange, accepted,
                 sells, before>>

\* _run_buy after an accepted order: the strategy is done, the position is
\* filled in, and the baseline is what the slot holds now.
BuyPlaced(b) ==
  /\ LoopFree /\ task[b] = "accepted"
  /\ strat' = [strat EXCEPT ![b].done = TRUE]
  /\ pos' = [pos EXCEPT ![b].outcome = strat[b].locked, ![b].pending = TRUE,
                        ![b].baseline = rem[b]]
  /\ task' = [task EXCEPT ![b] = "refreshing"]
  /\ blind' = IF Misses(b) THEN blind \cup {b} ELSE blind
  /\ UNCHANGED <<life, clock, view, rem, blocked, lock, running, tick, exchange, accepted,
                 sells, before>>

\* ... and after the refresh that follows it.
BuyRefreshed(b) ==
  /\ LoopFree /\ task[b] = "refreshing"
  /\ \E r \in Reads(b) :
       /\ rem' = [rem EXCEPT ![b] = r]
       /\ pos' = [pos EXCEPT ![b] = Ingest(@, r)]
  /\ BuyEnds(b, FALSE)
  /\ UNCHANGED <<life, clock, view, blocked, lock, running, tick, exchange, history>>

\* A FAK order that matched nothing may be tried again by a later tick.
BuyNoMatch(b) ==
  /\ LoopFree /\ task[b] = "nomatch"
  /\ BuyEnds(b, FALSE)
  /\ UNCHANGED <<life, clock, view, rem, pos, blocked, lock, running, tick, exchange, history>>

\* Any other error ends the strategy for this epoch.
BuyAborted(b) ==
  /\ LoopFree /\ task[b] = "refused"
  /\ BuyEnds(b, TRUE)
  /\ UNCHANGED <<life, clock, view, rem, pos, blocked, lock, running, tick, exchange, history>>

\* The epoch is over for m: its slot is dropped and its buy task cancelled,
\* whose finally clause clears busy and the slot's task.
Unregister(m) ==
  /\ LoopFree /\ life[m] = "up" /\ tick[m].at = "sleep" /\ ~EpochRuns(m)
  /\ life' = [life EXCEPT ![m] = "gone"]
  /\ BuyEnds(m, FALSE)
  /\ UNCHANGED <<clock, view, rem, pos, blocked, lock, running, tick, exchange, history>>

-----------------------------------------------------------------------------
(* External: the exchange and the clock.  These steps wait for nobody.      *)

\* The order rests in the book from now on.  The answer may be lost, which
\* _place_limit_buy reports as an error like any other.
ExchangeAccepts(b) ==
  /\ task[b] = "posting"
  /\ openBuy' = [openBuy EXCEPT ![b] = @ + Size]
  /\ accepted' = [accepted EXCEPT ![b] = @ + 1]
  /\ \E answer \in {"accepted", "refused"} : task' = [task EXCEPT ![b] = answer]
  /\ UNCHANGED <<life, clock, view, rem, pos, strat, blocked, lock, running, tick,
                 resting, wallet, sells, before, blind>>

ExchangeRefuses(b) ==
  /\ task[b] = "posting"
  /\ \E answer \in {"refused", "nomatch"} : task' = [task EXCEPT ![b] = answer]
  /\ UNCHANGED <<life, clock, view, rem, pos, strat, blocked, lock, running, tick,
                 exchange, history>>

BuyFills(b) ==
  /\ openBuy[b] > 0
  /\ openBuy' = [openBuy EXCEPT ![b] = @ - 1]
  /\ wallet' = [wallet EXCEPT ![b][strat[b].locked] = @ + 1]
  /\ UNCHANGED <<life, clock, view, rem, pos, strat, blocked, lock, running, tick, task,
                 resting, history>>

ExchangeTakesSell(m) ==
  /\ tick[m].at = "sell" /\ tick[m].qty > 0
  /\ resting' = [resting EXCEPT ![tick[m].target] = @ + tick[m].qty]
  /\ tick' = [tick EXCEPT ![m].qty = 0]
  /\ UNCHANGED <<life, clock, view, rem, pos, strat, blocked, lock, running, task,
                 openBuy, wallet, history>>

SellFills(s) ==
  LET o == pos[s].outcome IN
  /\ resting[s] > 0 /\ o \in Outcomes /\ wallet[s][o] > 0
  /\ resting' = [resting EXCEPT ![s] = @ - 1]
  /\ wallet' = [wallet EXCEPT ![s][o] = @ - 1]
  /\ UNCHANGED <<life, clock, view, rem, pos, strat, blocked, lock, running, tick, task,
                 openBuy, history>>

\* risk2.hold_timeout_sec after the fill was confirmed.
HoldExpires(s) ==
  /\ pos[s].hold = "running"
  /\ pos' = [pos EXCEPT ![s].hold = "expired"]
  /\ UNCHANGED <<life, clock, view, rem, strat, blocked, lock, running, tick, task,
                 exchange, history>>

\* Both monitors have left; the coordinator is dropped with the cycle.
EpochOver ==
  /\ \A s \in Symbols : life[s] = "gone"
  /\ UNCHANGED vars

-----------------------------------------------------------------------------
Risk(m) ==
  \/ RiskSkip(m) \/ RiskRefresh(m) \/ RiskFlat(m) \/ RiskExhausted(m)
  \/ RiskRetry(m) \/ RiskHold(m) \/ RiskTrigger(m)
  \/ SellAnswered(m) \/ RiskRecheck(m)

Monitor(m) ==
  \/ Register(m) \/ TickEnter(m) \/ AcquireLock(m) \/ Risk(m)
  \/ DecideBusy(m) \/ Decide(m) \/ Unregister(m)

RunBuy(b) == BuyPlaced(b) \/ BuyRefreshed(b) \/ BuyNoMatch(b) \/ BuyAborted(b)

Exchange(s) ==
  \/ ExchangeAccepts(s) \/ ExchangeRefuses(s) \/ BuyFills(s)
  \/ ExchangeTakesSell(s) \/ SellFills(s)

Next ==
  \/ \E m \in Symbols : Monitor(m) \/ RunBuy(m) \/ Exchange(m) \/ HoldExpires(m)
  \/ PublishBtcContext
  \/ EpochOver

\* The event loop runs every coroutine that can go on, and the loop of a monitor
\* ends with the epoch.  Of the exchange nothing is assumed: a posted order is
\* answered, or given up by the HTTP client.
Fairness ==
  \A m \in Symbols :
    /\ WF_vars(Monitor(m))
    /\ WF_vars(RunBuy(m))
    /\ WF_vars(ExchangeRefuses(m))

Spec     == Init /\ [][Next]_vars
FairSpec == Spec /\ Fairness

TypeOK ==
  /\ life \in [Symbols -> {"new", "up", "gone"}]
  /\ clock \in [Symbols -> 0..Horizon]
  /\ view \in [Symbols -> View]
  /\ rem \in [Symbols -> Shares]
  /\ pos \in [Symbols -> Position]
  /\ strat \in [Symbols -> Strategy]
  /\ blocked \in SUBSET Symbols
  /\ lock \in Symbols \cup {None}
  /\ running \in Symbols \cup {None}
  /\ tick \in [Symbols -> Tick]
  /\ task \in [Symbols -> Tasks]
  /\ openBuy \in [Symbols -> Nat]
  /\ resting \in [Symbols -> Nat]
  /\ wallet \in [Symbols -> Shares]
  /\ accepted \in [Symbols -> Nat]
  /\ sells \in [Symbols -> Nat]
  /\ before \in [Symbols -> Shares]
  /\ blind \subseteq Symbols

-----------------------------------------------------------------------------
(* Properties.                                                              *)

Evaluating(m) == tick[m].at \in {"risk", "refresh", "sell", "recheck", "decide"}

\* The lock is held by the one monitor whose tick is past `async with
\* self._lock' and by nobody between ticks, whichever way a tick ends: early
\* return, no trigger, or a slot unregistered under it.
LockDiscipline ==
  /\ \A m \in Symbols : Evaluating(m) <=> lock = m
  /\ running # None => lock = running

\* A strategy is busy exactly while its _run_buy task runs, through every end
\* of the task (placed, no match, abort, cancelled with its slot).
SingleFlight == \A b \in Symbols : strat[b].busy <=> task[b] # "none"

\* While _evaluate_risk_exits awaits a balance or a sell order of a slot, that
\* slot has no running buy task: the task was looked at before the await, and
\* none may start behind it.
BuySellExclusive ==
  \A m, s \in Symbols :
    (tick[m].at \in {"refresh", "sell", "recheck"} /\ tick[m].target = s)
      => task[s] = "none"

\* Each strategy gets at most one order into the book per epoch, even when the
\* answer to it is lost, retries are allowed and the position was closed again.
AtMostOneBuy == \A b \in Symbols : accepted[b] <= 1

\* Why AtMostOneBuy holds: an order in flight belongs to a strategy that is not
\* done and has no order in the book, and whatever puts one there leaves the
\* strategy done, or its slot gone, before the task ends.
BuyAccounting ==
  \A b \in Symbols :
    /\ accepted[b] <= 1
    /\ task[b] \in {"posting", "nomatch"} => ~strat[b].done /\ life[b] = "up"
    /\ task[b] = "refreshing" => strat[b].done
    /\ (task[b] \in {"none", "posting", "nomatch"} /\ ~strat[b].done /\ life[b] # "gone")
         => accepted[b] = 0

\* A position never posts more sell orders than the largest max_sell_attempts,
\* though three exits, two monitors and the end of an exit share one counter.
SellBudget ==
  \A s \in Symbols : \E r \in Reasons : sells[s] <= MaxSells[r]

\* A confirmed fill is a fill: the exchange has filled part of the one order
\* accepted, whatever was held when the coordinator started, and whatever balances
\* were read and ingested, late, zero or left over, before the order and after it;
\* except when the one balance taken for the baseline missed shares held before.
NoPhantomFill ==
  \A b \in Symbols :
    pos[b].confirmed /\ b \notin blind => accepted[b] = 1 /\ openBuy[b] < Size

\* The outcome a strategy has locked stays locked until the epoch is over.
OutcomeLocked ==
  [][\A b \in Symbols : strat[b].locked # "" => strat'[b].locked = strat[b].locked]_vars

\* The coordinator implements the life cycle of PositionLifecycle.
Stage(s) ==
  IF pos[s].closed THEN "closed"
  ELSE IF pos[s].confirmed THEN "open"
  ELSE IF pos[s].pending THEN "pending"
  ELSE IF strat[s].busy THEN "buying"
  ELSE IF strat[s].done THEN "void" ELSE "idle"

LargestBudget ==
  CHOOSE n \in {MaxSells[r] : r \in Reasons} : \A r \in Reasons : MaxSells[r] <= n

Lifecycle == INSTANCE PositionLifecycle
             WITH Symbol <- Symbols, Budget <- LargestBudget,
                  stage <- [s \in Symbols |-> Stage(s)], offers <- sells

\* Every step of the coordinator is a step of the life cycle, or invisible there.
ImplementsLifecycle == Lifecycle!Spec

\* Both monitors leave the epoch: no tick waits forever for the lock or for a
\* coroutine that will not come back.
EpochEnds == <>(\A s \in Symbols : life[s] = "gone")

\* A time stop that expires while both monitors have a tick left leads to a
\* sell order (risk2 waits at most for the next tick of either monitor), unless
\* the position turns out flat.
TimeStop ==
  \A s \in Symbols :
    (/\ Evaluable(s) /\ pos[s].hold = "expired"
     /\ \A m \in Symbols : life[m] = "up" /\ EpochRuns(m))
      ~> (sells[s] > 0 \/ pos[s].closed)

-----------------------------------------------------------------------------
(* What the README says and the code does not do.                           *)

\* README.md:107: shares still held hold_timeout_sec after the fill are sold.
\* Here: a position whose shares nobody has tried to sell is not closed.
NoUnsoldClose == \A s \in Symbols : pos[s].closed => sells[s] > 0

=============================================================================
