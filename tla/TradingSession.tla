---------------------------- MODULE TradingSession ----------------------------
(***************************************************************************)
(* A run of the bot: _run_loop of cli.py prepares wallet, client and       *)
(* credentials, waits for a trading window, runs one cycle of              *)
(* engine.run_all_markets, waits for the end of the epoch and begins       *)
(* again.  A cycle starts a market task per target, the later ones delayed *)
(* by the stagger, and a btc monitor beside them when btc is not among the *)
(* targets.  A market task computes its epoch when it begins,              *)
(* resolves the event, finds the strike, monitors until its epoch ends and *)
(* queues the redeem job of the epoch; it may end early or raise anywhere. *)
(*                                                                         *)
(* A monitor leaves its epoch at its end, unless it stands in submit_wave: *)
(* its rows wait behind those of the markets in front of it in the display *)
(* (WaveGate), the ones that are delayed, still busy with their requests,  *)
(* or have raised included.                                                *)
(*                                                                         *)
(* Time is discrete.  The waits of the code end when they are due; a       *)
(* request, and the clean-up of a monitor, takes up to Slack, what it      *)
(* waits for markets in front that leave as well included.  Two looks at   *)
(* the clock with an await between them are up to Lag apart.  What a       *)
(* monitor does is the subject of EntryStrategy, WaveGate and BalanceCache,*)
(* what becomes of a job that of RedeemScheduler.                          *)
(***************************************************************************)
EXTENDS TradingWindow

CONSTANTS
  Symbol,      \* the symbols that may be targets
  Targets,     \* the target lists: functions from symbols to i * stagger_delay_seconds
  Rank,        \* the place of each symbol in the display
  Schedules,   \* the schedules
  Interval,    \* the length of an epoch, the same for all targets
  LogInterval, \* log_interval_s of wait_for_trading_window
  Margin,      \* what the loop waits beyond the end of the epoch (2 s)
  Slack,       \* bound: the time a request or a clean-up may take
  Lag,         \* bound: how much later than it is due a task may begin
  MaxCycles,   \* max_cycles, 0 for no maximum
  Horizon      \* bound: the length of the run

ASSUME SymbolAssumption == \A d \in Targets : DOMAIN d \subseteq Symbol
ASSUME RankAssumption   == Rank \in [Symbol -> Nat]
ASSUME DelayAssumption  == \A d \in Targets : \A s \in DOMAIN d : d[s] \in Nat
ASSUME ScheduleAssumption ==
  \A c \in Schedules : /\ c.weekdays \subseteq 0..(Days - 1)
                       /\ \A w \in c.windows :
                            /\ w.start \in Int /\ w.end \in Int /\ w.isTime \in BOOLEAN
                            /\ w.isTime => w.start \in 0..(DayLen - 1)
ASSUME LengthAssumption ==
  /\ Interval \in Nat \ {0} /\ LogInterval \in Nat \ {0} /\ Horizon \in Nat
  /\ Margin \in Nat /\ Slack \in Nat /\ Lag \in Nat /\ MaxCycles \in Nat

VARIABLES
  now,       \* the clock
  delay,     \* the configured targets, with the delay of each
  schedule,  \* the configured schedule
  loop,      \* where _run_loop stands
  due,       \* when its wait ends
  until,     \* epoch_end of _run_loop
  cycles,    \* cycle_count
  market,    \* where each market task stands, its epoch, the end of its wait, its strike
  sidecar,   \* where _run_btc_wave_monitor stands
  traded,    \* history: the last epoch whose monitor registered with a coordinator
  redeemed,  \* history: the last epoch whose redeem job was queued
  slept,     \* history: since when the loop waits for a window, or -1
  carried    \* history: a delayed market began an epoch after that of its cycle

markets == <<market, traded, redeemed>>
configured == <<delay, schedule>>
vars == <<now, configured, loop, due, until, cycles, markets, sidecar, slept, carried>>

EpochOf(t)   == t \div Interval
EndOf(epoch) == (epoch + 1) * Interval

Never    == -1
NoStrike == [from |-> "none", of |-> 0]
Strike(from, t) == [from |-> from, of |-> t]
Off      == [at |-> "off", epoch |-> 0, due |-> 0, strike |-> NoStrike]

Init ==
  /\ now \in 0..(Interval - 1)
  /\ delay \in Targets /\ schedule \in Schedules
  /\ loop = "startup" /\ due = now
  /\ until = 0 /\ cycles = 0
  /\ market = [s \in Symbol |-> Off]
  /\ sidecar = "off"
  /\ traded = [s \in Symbol |-> Never]
  /\ redeemed = [s \in Symbol |-> Never]
  /\ slept = Never
  /\ carried = FALSE

-----------------------------------------------------------------------------
(* The beginning of _run_loop.                                              *)

\* A private key no wallet can be derived from.
NoWallet ==
  /\ loop = "startup"
  /\ loop' = "failed"
  /\ UNCHANGED <<now, configured, due, until, cycles, markets, sidecar, slept, carried>>

\* The deployment of the wallet, the client and the probe of its user channel:
\* what fails there is caught and printed, and the run goes on.
ClientReady ==
  /\ loop = "startup"
  /\ loop' = "probe"
  /\ UNCHANGED <<now, configured, due, until, cycles, markets, sidecar, slept, carried>>

\* The probe of the credentials raises, before the redeem worker exists.
ProbeRaises ==
  /\ loop = "probe"
  /\ loop' = "failed"
  /\ UNCHANGED <<now, configured, due, until, cycles, markets, sidecar, slept, carried>>

NoTargets ==
  /\ loop = "probe" /\ DOMAIN delay = {}
  /\ loop' = "ended"
  /\ UNCHANGED <<now, configured, due, until, cycles, markets, sidecar, slept, carried>>

\* The redeem worker is started, the loop entered.
Started ==
  /\ loop = "probe" /\ DOMAIN delay # {}
  /\ loop' = "window"
  /\ due' = now
  /\ UNCHANGED <<now, configured, until, cycles, markets, sidecar, slept, carried>>

-----------------------------------------------------------------------------
(* The loop: windows and cycles.                                            *)

\* Mutant: one look in two sleeps.
Sleep_Twice == 2 * LogInterval

\* One sleep of wait_for_trading_window.
Sleep == LogInterval

KeepWaiting ==
  /\ loop = "window" /\ now = due
  /\ ~IsTradingActive(now, schedule) /\ ~SearchRaises(now, schedule)
  /\ due' = now + Sleep
  /\ slept' = IF slept < 0 THEN now ELSE slept
  /\ UNCHANGED <<now, configured, loop, until, cycles, markets, sidecar, carried>>

\* next_window_start raises, and with it the loop.
NoWindows ==
  /\ loop = "window" /\ now = due
  /\ ~IsTradingActive(now, schedule) /\ SearchRaises(now, schedule)
  /\ loop' = "failed"
  /\ UNCHANGED <<now, configured, due, until, cycles, markets, sidecar, slept, carried>>

\* run_all_markets: the btc monitor first, then a task for every target.
StartCycle ==
  /\ loop = "window" /\ now = due /\ IsTradingActive(now, schedule)
  /\ loop' = "cycle"
  /\ until' = EndOf(EpochOf(now))
  /\ market' = [s \in Symbol |->
       IF s \in DOMAIN delay
       THEN [at |-> "stagger", epoch |-> EpochOf(now), due |-> now + delay[s],
             strike |-> NoStrike]
       ELSE Off]
  /\ sidecar' = IF "btc" \in DOMAIN delay THEN "off" ELSE "running"
  /\ slept' = Never
  /\ UNCHANGED <<now, configured, due, cycles, traded, redeemed, carried>>

Ended(s) == market[s].at \in {"done", "failed"}

\* gather with return_exceptions: every task has ended.
Gathered == \A s \in DOMAIN delay : Ended(s)

\* Then the btc monitor is cancelled and awaited.
Gather ==
  /\ loop = "cycle" /\ Gathered
  /\ loop' = "closing" /\ due' = now + Slack
  /\ UNCHANGED <<now, configured, until, cycles, markets, sidecar, slept, carried>>

\* Mutant: an ended cycle is followed by the next one at once.
TailEnd_Now == now

\* `epoch_end + timedelta(seconds=2)'.
TailEnd == IF now < until + Margin THEN until + Margin ELSE now

\* Only the cancellation of the btc monitor is suppressed, an exception it has
\* raised before goes through run_all_markets and _run_loop.
CycleEnds ==
  /\ loop = "closing"
  /\ IF sidecar = "failed"
     THEN loop' = "failed" /\ UNCHANGED <<cycles, due, sidecar>>
     ELSE /\ cycles' = cycles + 1
          /\ loop' = IF MaxCycles > 0 /\ cycles' >= MaxCycles THEN "ended" ELSE "window"
          /\ due' = TailEnd
          /\ sidecar' = "off"
  /\ UNCHANGED <<now, configured, until, markets, slept, carried>>

\* The user interrupts the run: gather cancels the tasks.
Interrupt ==
  /\ loop \in {"startup", "probe", "window", "cycle", "closing"}
  /\ loop' = "ended"
  /\ market' = [s \in Symbol |-> Off]
  /\ sidecar' = "off"
  /\ UNCHANGED <<now, configured, due, until, cycles, traded, redeemed, slept, carried>>

-----------------------------------------------------------------------------
(* run_marketscycle.                                                        *)

Goes(s, at, when) == market' = [market EXCEPT ![s].at = at, ![s].due = when]

\* The task has ended.
Ends(s, at) == market' = [market EXCEPT ![s] = [Off EXCEPT !.at = at, !.epoch = market[s].epoch]]

InPhase(s, at) == loop = "cycle" /\ market[s].at = at

\* Mutant: the epoch that comes next.
BeginEpoch_Next(s) == EpochOf(now) + 1

\* compute_epoch_slugs, called after the delay.
BeginEpoch(s) == EpochOf(now)

Begin(s) ==
  /\ InPhase(s, "stagger") /\ now >= market[s].due
  /\ market' = [market EXCEPT ![s] =
                  [at |-> "resolve", epoch |-> BeginEpoch(s), due |-> now + Slack,
                   strike |-> NoStrike]]
  /\ carried' = (carried \/ BeginEpoch(s) # market[s].epoch)
  /\ UNCHANGED <<now, configured, loop, due, until, cycles, sidecar, traded, redeemed,
                 slept>>

\* No event for the slug, or not the two tokens it should have.
NoMarket(s) ==
  /\ InPhase(s, "resolve")
  /\ Ends(s, "done")
  /\ UNCHANGED <<now, configured, loop, due, until, cycles, sidecar, traded, redeemed,
                 slept, carried>>

Resolved(s) ==
  /\ InPhase(s, "resolve")
  /\ Goes(s, "feed", now + Slack)
  /\ UNCHANGED <<now, configured, loop, due, until, cycles, sidecar, traded, redeemed,
                 slept, carried>>

\* Mutant: the start of the epoch of the cycle.
EpochStart_OfCycle(s) == until - Interval

\* epoch_start_unix of the StrikeSpotContext.
EpochStart(s) == market[s].epoch * Interval

\* The report of Data Streams for the start of the epoch; a request that fails,
\* or credentials that are missing, give none.
ReportStrike(s) == {NoStrike, Strike("report", EpochStart(s))}

\* The price to beat on the page of the slug.
PageStrike(s) == {NoStrike, Strike("page", EpochStart(s))}

\* What the spot loop, begun with this monitor, has put into price_store.
SpotStrike(s) == {NoStrike} \cup {Strike("spot", t) : t \in (market[s].due - Slack)..now}

OrElse(strike, other) == IF strike # NoStrike THEN strike ELSE other

\* fetch_epoch_strike: report, page, spot, nothing.
StrikeFound(s) ==
  /\ InPhase(s, "feed")
  /\ \E report \in ReportStrike(s), page \in PageStrike(s), spot \in SpotStrike(s) :
       market' = [market EXCEPT
                    ![s].at = "monitor", ![s].due = EndOf(market[s].epoch),
                    ![s].strike = OrElse(report, OrElse(page, spot))]
  /\ traded' = [traded EXCEPT ![s] = market[s].epoch]
  /\ UNCHANGED <<now, configured, loop, due, until, cycles, sidecar, redeemed, slept, carried>>

\* Mutant: the end of the epoch of the cycle.
MonitorOver_OfCycle(s) == now >= until

MonitorOver(s) == now >= market[s].due

\* A market in front that submits no row and is not deactivated: at it the writer
\* gives up every wave.  A btc monitor that has raised may be one, too.
HeldUp(s) ==
  \/ sidecar = "failed"
  \/ \E o \in DOMAIN delay :
       Rank[o] < Rank[s] /\ market[o].at \in {"stagger", "resolve", "feed", "failed"}

\* The loop of the monitor is left at the end of its epoch, or later.
MonitorEnds(s) ==
  /\ InPhase(s, "monitor") /\ MonitorOver(s)
  /\ Goes(s, "leaving", now + Slack)
  /\ UNCHANGED <<now, configured, loop, due, until, cycles, sidecar, traded, redeemed,
                 slept, carried>>

\* Mutant: the slug of the next epoch.
JobOf_Next(s) == market[s].epoch + 1

\* The RedeemJob is one of the epoch that was monitored.
JobOf(s) == market[s].epoch

\* The price feed has stopped: deactivate the symbol, queue the job.
QueueRedeem(s) ==
  /\ InPhase(s, "leaving")
  /\ redeemed' = [redeemed EXCEPT ![s] = JobOf(s)]
  /\ Ends(s, "done")
  /\ UNCHANGED <<now, configured, loop, due, until, cycles, sidecar, traded, slept, carried>>

\* Anything the requests or the monitor do not catch.
MarketRaises(s) ==
  /\ InPhase(s, "resolve") \/ InPhase(s, "monitor")
  /\ Ends(s, "failed")
  /\ UNCHANGED <<now, configured, loop, due, until, cycles, sidecar, traded, redeemed,
                 slept, carried>>

-----------------------------------------------------------------------------
(* The btc monitor beside the markets.                                      *)

\* Its event is missing, or its epoch ends.
SidecarEnds ==
  /\ sidecar = "running"
  /\ sidecar' = "done"
  /\ UNCHANGED <<now, configured, loop, due, until, cycles, markets, slept, carried>>

SidecarRaises ==
  /\ sidecar = "running"
  /\ sidecar' = "failed"
  /\ UNCHANGED <<now, configured, loop, due, until, cycles, markets, slept, carried>>

-----------------------------------------------------------------------------
\* A task that has something to do: a monitor that is held up has not.
Overdue(s) ==
  \/ market[s].at = "stagger" /\ now >= market[s].due + Lag
  \/ market[s].at \in {"resolve", "feed", "leaving"} /\ now >= market[s].due
  \/ market[s].at = "monitor" /\ now >= market[s].due /\ ~HeldUp(s)

\* No wait lasts longer than it should.
Late ==
  \/ loop \in {"startup", "probe", "window", "closing"} /\ now >= due
  \/ loop = "cycle" /\ Gathered
  \/ loop = "cycle" /\ \E s \in DOMAIN delay : Overdue(s)

Tick ==
  /\ now < Horizon /\ loop \notin {"ended", "failed"} /\ ~Late
  /\ now' = now + 1
  /\ UNCHANGED <<configured, loop, due, until, cycles, markets, sidecar, slept, carried>>

Market(s) ==
  \/ Begin(s) \/ NoMarket(s) \/ Resolved(s) \/ StrikeFound(s)
  \/ MonitorEnds(s) \/ QueueRedeem(s) \/ MarketRaises(s)

Next ==
  \/ NoWallet \/ ClientReady \/ ProbeRaises \/ NoTargets \/ Started
  \/ KeepWaiting \/ NoWindows \/ StartCycle \/ Gather \/ CycleEnds \/ Interrupt
  \/ \E s \in Symbol : Market(s)
  \/ SidecarEnds \/ SidecarRaises
  \/ Tick

Spec == Init /\ [][Next]_vars

-----------------------------------------------------------------------------
TypeOK ==
  /\ now \in Nat
  /\ delay \in Targets /\ schedule \in Schedules
  /\ loop \in {"startup", "probe", "window", "cycle", "closing", "ended", "failed"}
  /\ due \in Nat /\ until \in Nat /\ cycles \in Nat
  /\ market \in [Symbol -> [at : {"off", "stagger", "resolve", "feed", "monitor", "leaving",
                                  "done", "failed"}, epoch : 0..EpochOf(now), due : Nat,
                           strike : [from : {"report", "page", "spot", "none"}, of : Nat]]]
  /\ sidecar \in {"off", "running", "done", "failed"}
  /\ traded \in [Symbol -> Nat \cup {Never}]
  /\ redeemed \in [Symbol -> Nat \cup {Never}]
  /\ slept \in Nat \cup {Never}
  /\ carried \in BOOLEAN

-----------------------------------------------------------------------------
(* Properties.                                                              *)

\* The redeem jobs of a symbol are those of different epochs, in their order:
\* neither a failed market nor a cycle that begins late, within an epoch that
\* has been monitored, queues the job of an epoch again.
OneJobPerEpoch ==
  [][\A s \in Symbol :
       market[s].at = "leaving" /\ market'[s].at = "done" => redeemed[s] < market[s].epoch]_vars

\* No two coordinators trade the same epoch of a symbol, so that "at most once
\* per epoch" also holds across cycles, failed ones included; unless the stagger
\* has carried a market into an epoch after that of its cycle.
OneCoordinatorPerEpoch ==
  [][\A s \in Symbol :
       market[s].at = "feed" /\ market'[s].at = "monitor" /\ ~carried
         => traded[s] < market[s].epoch]_vars

\* Every epoch that was traded is redeemed once its cycle is over, unless the
\* monitor raised or the stagger carried a market over.
TradedIsQueued ==
  loop = "window" /\ ~carried => \A s \in DOMAIN delay :
    market[s].at = "done" /\ traded[s] = market[s].epoch => redeemed[s] = market[s].epoch

\* A strike is one of the epoch that is traded with it, whenever the market
\* began and however long the feeds took.
StrikeOfTheEpoch ==
  \A s \in Symbol :
    market[s].at = "monitor" /\ now < market[s].due
      /\ market[s].strike.from # "none"
      => EpochOf(market[s].strike.of) = market[s].epoch

\* Cycles follow each other epoch by epoch while the window lasts, as long as no
\* market raises and none is carried over: no epoch is left out, and none begun a
\* second time, however late the requests of one market are for another.
NoEpochLeftOut ==
  [][loop = "window" /\ loop' = "cycle" /\ cycles > 0 /\ slept < 0
       /\ (\A s \in DOMAIN delay : market[s].at = "done" /\ EndOf(market[s].epoch) = until)
     => until' = until + Interval]_vars

\* The wait sees every window that is as long as its sleeps: none passes while
\* the loop sleeps.
NoWindowMissed ==
  loop = "window" /\ slept >= 0 =>
    \A t \in slept..(now - LogInterval) :
      \E u \in t..(t + LogInterval - 1) : ~IsTradingActive(u, schedule)

\* Once begun, the run is ended neither by a market that fails nor by a schedule
\* with a weekday and a window that starts at a time of the day: only the btc
\* monitor does.
RunSurvives ==
  [][loop \notin {"startup", "probe"} /\ loop' = "failed" =>
       \/ sidecar = "failed" \/ schedule.weekdays = {} \/ schedule.windows = {}
       \/ \E w \in schedule.windows : ~w.isTime]_vars

=============================================================================
