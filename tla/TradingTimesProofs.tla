-------------------------- MODULE TradingTimesProofs --------------------------
(***************************************************************************)
(* Theorems about when TradingSession trades: the wait for a window, the   *)
(* sequence of the epochs, and the next window of TradingWindow.           *)
(***************************************************************************)
EXTENDS TradingSessionProofs, WellFoundedInduction

-----------------------------------------------------------------------------
(* The wait for a window.                                                   *)

\* The wait has looked when it began, every LogInterval since and found no
\* window; it ends when the next look is due.
WaitOK ==
  /\ loop \in {"startup", "probe", "cycle", "closing"} => slept < 0
  /\ loop = "window" /\ slept >= 0 =>
       /\ now <= due
       /\ \A t \in slept..(due - LogInterval) :
            \E u \in t..(t + LogInterval - 1) : ~IsTradingActive(u, schedule)

\* One more sleep.
LEMMA WaitSleeps ==
  ASSUME SessionInv, WaitOK, KeepWaiting
  PROVE  WaitOK'
<1>1. now \in Nat /\ due \in Nat /\ slept \in Nat \cup {Never} /\ LogInterval \in Nat \ {0}
  BY LengthAssumption DEF SessionInv, TypeOK
<1>2. /\ loop = "window" /\ now = due /\ ~IsTradingActive(now, schedule)
      /\ due' = now + LogInterval /\ loop' = loop /\ now' = now /\ schedule' = schedule
      /\ slept' = IF slept < 0 THEN now ELSE slept
  BY DEF KeepWaiting, Sleep, configured
<1>3. now' <= due'
  BY <1>1, <1>2
<1>4. ASSUME NEW t \in (slept')..now
      PROVE  \E u \in t..(t + LogInterval - 1) : ~IsTradingActive(u, schedule)
  <2>1. t \in Nat /\ t <= now
    BY <1>1, <1>2, <1>4 DEF Never
  <2>2. CASE now <= t + LogInterval - 1
    <3>1. now \in t..(t + LogInterval - 1)
      BY <1>1, <2>1, <2>2
    <3>2. QED BY <1>2, <3>1
  <2>3. CASE ~(now <= t + LogInterval - 1)
    <3>1. slept >= 0 /\ t \in slept..(due - LogInterval)
      BY <1>1, <1>2, <1>4, <2>1, <2>3 DEF Never
    <3>2. QED BY <1>2, <3>1 DEF WaitOK
  <2>4. QED BY <2>2, <2>3
<1>5. due' - LogInterval = now
  BY <1>1, <1>2
<1>6. QED BY <1>2, <1>3, <1>4, <1>5 DEF WaitOK

\* Every step keeps it.
LEMMA WaitStep == SessionInv /\ WaitOK /\ [Next]_vars => WaitOK'
<1> SUFFICES ASSUME SessionInv, WaitOK, [Next]_vars PROVE WaitOK'
  OBVIOUS
<1>1. now \in Nat /\ due \in Nat /\ slept \in Nat \cup {Never}
  BY DEF SessionInv, TypeOK
<1>2. ASSUME UNCHANGED <<now, schedule, due, slept, loop>> PROVE WaitOK'
  BY <1>2 DEF WaitOK
<1>3. CASE NoWallet \/ ClientReady \/ ProbeRaises \/ NoTargets \/ Started
  BY <1>1, <1>3 DEF NoWallet, ClientReady, ProbeRaises, NoTargets, Started, WaitOK
<1>4. CASE NoWindows \/ Interrupt
  BY <1>4 DEF NoWindows, Interrupt, WaitOK
<1>5. CASE StartCycle
  BY <1>5 DEF StartCycle, WaitOK, Never
<1>6. CASE Gather \/ CycleEnds
  BY <1>1, <1>6 DEF Gather, CycleEnds, WaitOK
<1>7. CASE Tick
  <2>1. /\ now' = now + 1 /\ UNCHANGED <<loop, due, slept, schedule>>
        /\ loop = "window" => now < due
    BY <1>1, <1>7 DEF Tick, Late, configured
  <2>2. QED BY <1>1, <2>1 DEF WaitOK
<1>8. ASSUME NEW s \in Symbol, Market(s) PROVE WaitOK'
  BY <1>2, <1>8 DEF Market, Begin, NoMarket, Resolved, StrikeFound, MonitorEnds, QueueRedeem,
                    MarketRaises, configured
<1>9. CASE SidecarEnds \/ SidecarRaises
  BY <1>2, <1>9 DEF SidecarEnds, SidecarRaises, configured
<1>10. CASE UNCHANGED vars
  BY <1>2, <1>10 DEF vars, configured
<1>11. QED
  BY <1>3, <1>4, <1>5, <1>6, <1>7, <1>8, <1>9, <1>10, WaitSleeps DEF Next

\* It is an invariant.
LEMMA WaitInvariant == Spec => []WaitOK
<1>1. Init => WaitOK
  BY DEF Init, WaitOK, Never
<1>2. QED BY <1>1, WaitStep, SessionInvariant, PTL DEF Spec

\* The wait misses no window that is as long as one of its sleeps, for any
\* schedule, any length of the sleeps and any length of the wait.
THEOREM WindowSeen == Spec => []NoWindowMissed
<1>1. SessionInv /\ WaitOK => NoWindowMissed
  <2> SUFFICES ASSUME SessionInv, WaitOK, loop = "window", slept >= 0,
                      NEW t \in slept..(now - LogInterval)
               PROVE  \E u \in t..(t + LogInterval - 1) : ~IsTradingActive(u, schedule)
    BY DEF NoWindowMissed
  <2>1. now \in Nat /\ due \in Nat /\ slept \in Nat \cup {Never} /\ LogInterval \in Nat
    BY LengthAssumption DEF SessionInv, TypeOK
  <2>2. t \in slept..(due - LogInterval)
    BY <2>1 DEF WaitOK
  <2>3. QED BY <2>2 DEF WaitOK
<1>2. QED BY <1>1, SessionInvariant, WaitInvariant, PTL

-----------------------------------------------------------------------------
(* The sequence of the epochs.                                              *)

\* A task is on the epoch of its cycle, will stay on it and has not raised.
Own(s) ==
  /\ EndOf(market[s].epoch) = until
  /\ market[s].at # "failed" /\ (market[s].at = "stagger" => now < until)

\* No market and no btc monitor holds another one up for good.
AllOwn == sidecar # "failed" /\ \A s \in DOMAIN delay : Own(s)

\* By when a strike has been found, and by when a task has ended, that is on the
\* epoch of its cycle.
Settled == IF Slack = 0 THEN until ELSE until - 1 + 2 * Slack
Latest  == Settled + Slack

\* How late such a task may be.
OnTime(s) ==
  /\ market[s].at # "off"
  /\ market[s].at = "resolve" => now <= market[s].due /\ market[s].due <= until - 1 + Slack
  /\ market[s].at = "feed"    => now <= market[s].due /\ market[s].due <= until - 1 + 2 * Slack
  /\ market[s].at = "monitor" => now <= Settled /\ market[s].due = until
  /\ market[s].at = "leaving" => market[s].due <= Latest

\* The requests and the wait between two cycles are short for the epoch.
Brief == 4 * Slack <= Interval /\ Margin < Interval

\* How late it may be in each phase of the loop, as long as every task is on the
\* epoch of its cycle and none has raised.
PaceOK ==
  /\ loop \in {"startup", "probe"} => cycles = 0
  /\ loop \in {"window", "cycle", "closing"} => DOMAIN delay # {}
  /\ loop = "closing" \/ (loop = "window" /\ cycles > 0) => Gathered
  /\ loop = "cycle" => \A s \in Symbol :
       market[s].at = "stagger" => EndOf(market[s].epoch) = until
  /\ loop = "cycle" /\ AllOwn => now <= Latest /\ \A s \in DOMAIN delay : OnTime(s)
  /\ loop = "closing" /\ AllOwn => now <= due /\ due <= Latest + Slack
  /\ Brief /\ loop = "window" /\ cycles > 0 /\ slept < 0 /\ AllOwn =>
       due < until + Interval

\* What a step of one task has to keep.
LEMMA PaceTask ==
  ASSUME SessionInv, PaceOK, NEW s \in Symbol, loop = "cycle",
         UNCHANGED <<now, configured, loop, due, until, cycles, sidecar, slept>>,
         \A q \in Symbol \ {s} : market'[q] = market[q],
         Own(s)' => Own(s),
         Own(s)' /\ OnTime(s) /\ now <= Latest => OnTime(s)',
         market'[s].at # "stagger"
  PROVE  PaceOK'
<1>1. DOMAIN delay \subseteq Symbol /\ delay' = delay
  BY SymbolAssumption DEF SessionInv, TypeOK, configured
<1>2. ASSUME NEW q \in DOMAIN delay, q # s
      PROVE  Own(q)' = Own(q) /\ OnTime(q)' = OnTime(q)
  BY <1>1, <1>2 DEF Own, OnTime, Settled, Latest
<1>3. AllOwn' => AllOwn
  BY <1>1, <1>2 DEF AllOwn
<1>4. ASSUME AllOwn' PROVE now' <= Latest' /\ \A q \in DOMAIN delay' : OnTime(q)'
  <2>1. now <= Latest /\ \A q \in DOMAIN delay : OnTime(q)
    BY <1>3, <1>4 DEF PaceOK
  <2>2. now' <= Latest'
    BY <2>1 DEF Latest, Settled
  <2>3. ASSUME NEW q \in DOMAIN delay PROVE OnTime(q)'
    <3>1. CASE q = s
      BY <1>1, <1>4, <2>1, <3>1 DEF AllOwn
    <3>2. CASE q # s
      BY <1>2, <2>1, <3>2
    <3>3. QED BY <3>1, <3>2
  <2>4. QED BY <1>1, <2>2, <2>3
<1>5. ASSUME NEW q \in Symbol, market'[q].at = "stagger"
      PROVE  EndOf(market'[q].epoch) = until'
  <2>1. q \in Symbol \ {s} /\ market'[q] = market[q]
    BY <1>1, <1>5
  <2>2. QED BY <1>5, <2>1 DEF PaceOK
<1>6. QED BY <1>1, <1>4, <1>5 DEF PaceOK

\* The steps of the market tasks.
LEMMA PaceMarket ==
  ASSUME SessionInv, PaceOK, NEW s \in Symbol, Market(s)
  PROVE  PaceOK'
<1>1. /\ TypeOK /\ TimesOK(s) /\ now \in Nat /\ until \in Nat /\ market[s].due \in Nat
      /\ market[s].epoch \in Nat /\ EndOf(market[s].epoch) \in Nat
      /\ Slack \in Nat /\ market \in [Symbol -> Tasks(now)]
  BY TaskType, EndFacts, LengthAssumption DEF SessionInv
<1>2. Settled \in Int /\ Latest \in Int /\ until <= Settled /\ until - 1 + 2 * Slack <= Settled
      /\ Latest = Settled + Slack
      /\ Settled \in {until, until - 1 + 2 * Slack}
  BY <1>1, SMT DEF Settled, Latest
<1>3. Settled' = Settled /\ Latest' = Latest /\ until' = until /\ now' = now
      /\ loop = "cycle" /\ UNCHANGED <<now, configured, loop, due, until, cycles, sidecar, slept>>
  BY DEF Market, Begin, NoMarket, Resolved, StrikeFound, MonitorEnds, QueueRedeem,
         MarketRaises, InPhase, Settled, Latest
<1>9. market[s].at = "stagger" => EndOf(market[s].epoch) = until
  BY <1>3 DEF PaceOK
<1> DEFINE Rest == \A q \in Symbol \ {s} : market'[q] = market[q]
<1>4. CASE Begin(s)
  <2> DEFINE task == [at |-> "resolve", epoch |-> EpochOf(now), due |-> now + Slack,
                      strike |-> NoStrike]
  <2>1. market' = [market EXCEPT ![s] = task] /\ market[s].at = "stagger"
    BY <1>4 DEF Begin, InPhase, BeginEpoch
  <2>2. task.at = "resolve" /\ task.epoch = EpochOf(now) /\ task.due = now + Slack
    OBVIOUS
  <2>3. EpochOf(now) \in Nat /\ EpochOf(now) * Interval <= now /\ now < EndOf(EpochOf(now))
    BY <1>1, EpochFacts
  <2> HIDE DEF task
  <2>4. market'[s] = task /\ Rest
    BY <1>1, <2>1
  <2>5. Own(s)' => now < until
    BY <1>3, <2>2, <2>3, <2>4 DEF Own
  <2>6. Own(s)' => Own(s)
    BY <1>1, <1>3, <1>9, <2>1, <2>2, <2>3, <2>4, <2>5  DEF Own
  <2>7. Own(s)' => OnTime(s)'
    BY <1>1, <1>3, <2>2, <2>4, <2>5 DEF OnTime
  <2>8. market'[s].at # "stagger"
    BY <2>2, <2>4
  <2>9. QED BY <1>3, <2>4, <2>6, <2>7, <2>8, PaceTask
<1>5. CASE NoMarket(s) \/ QueueRedeem(s) \/ MarketRaises(s)
  <2>1. PICK at \in {"done", "failed"} :
          Ends(s, at) /\ market[s].at \notin {"stagger", "failed"}
    BY <1>5 DEF NoMarket, QueueRedeem, MarketRaises, InPhase
  <2>2. market'[s].at = at /\ market'[s].epoch = market[s].epoch /\ Rest
    BY <1>1, <2>1, TaskEnds
  <2>3. Own(s)' => Own(s)
    BY <1>3, <2>1, <2>2 DEF Own
  <2>4. OnTime(s)'
    BY <2>2 DEF OnTime
  <2>5. QED BY <1>3, <2>2, <2>3, <2>4, PaceTask
<1>6. CASE Resolved(s) \/ MonitorEnds(s)
  <2>1. PICK at \in {"feed", "leaving"} :
          /\ Goes(s, at, now + Slack)
          /\ at = "feed" => market[s].at = "resolve"
          /\ at = "leaving" => market[s].at = "monitor"
    BY <1>6 DEF Resolved, MonitorEnds, InPhase
  <2>2. /\ market'[s].at = at /\ market'[s].epoch = market[s].epoch
        /\ market'[s].due = now + Slack /\ Rest
    BY <1>1, <2>1, TaskGoes DEF Places, Running
  <2>3. Own(s)' => Own(s)
    BY <1>3, <2>1, <2>2 DEF Own
  <2>4. OnTime(s) => OnTime(s)'
    BY <1>1, <1>2, <1>3, <2>1, <2>2 DEF OnTime
  <2>5. QED BY <1>3, <2>2, <2>3, <2>4, PaceTask
<1>7. CASE StrikeFound(s)
  <2>1. market[s].at = "feed"
    BY <1>7 DEF StrikeFound, InPhase
  <2>2. PICK strike :
          market' = [market EXCEPT
                       ![s].at = "monitor", ![s].due = EndOf(market[s].epoch),
                       ![s].strike = strike]
    BY <1>7 DEF StrikeFound
  <2> DEFINE task == [market[s] EXCEPT !.at = "monitor", !.due = EndOf(market[s].epoch),
                                       !.strike = strike]
  <2>3. market' = [market EXCEPT ![s] = task]
    BY <1>1, <2>2
  <2>4. task.at = "monitor" /\ task.epoch = market[s].epoch /\ task.due = EndOf(market[s].epoch)
    BY <1>1 DEF Tasks
  <2> HIDE DEF task
  <2>5. market'[s] = task /\ Rest
    BY <1>1, <2>3
  <2>6. Own(s)' => Own(s)
    BY <1>3, <2>1, <2>4, <2>5 DEF Own
  <2>7. Own(s)' /\ OnTime(s) => OnTime(s)'
    BY <1>1, <1>2, <1>3, <2>1, <2>4, <2>5 DEF OnTime, Own
  <2>8. market'[s].at # "stagger"
    BY <2>4, <2>5
  <2>9. QED BY <1>3, <2>5, <2>6, <2>7, <2>8, PaceTask
<1>8. QED BY <1>4, <1>5, <1>6, <1>7 DEF Market

\* A cycle begins.
LEMMA PaceCycle == ASSUME SessionInv, PaceOK, StartCycle PROVE PaceOK'
<1>1. /\ TypeOK /\ now \in Nat /\ Slack \in Nat /\ EndOf(EpochOf(now)) \in Nat
      /\ now < EndOf(EpochOf(now))
  BY LengthAssumption, EpochFacts, EndFacts DEF SessionInv, TypeOK
<1>2. /\ loop = "window" /\ loop' = "cycle" /\ until' = EndOf(EpochOf(now)) /\ slept' = Never
      /\ UNCHANGED <<now, configured, due, cycles, traded, redeemed, carried>>
      /\ delay' = delay
  BY DEF StartCycle, configured
<1>3. ASSUME NEW s \in DOMAIN delay PROVE OnTime(s)'
  <2>1. s \in Symbol
    BY <1>1, SymbolAssumption DEF TypeOK
  <2>2. market'[s].at = "stagger"
    BY <2>1 DEF StartCycle
  <2>3. QED BY <2>2 DEF OnTime
<1>4. now' <= Latest'
  BY <1>1, <1>2 DEF Latest, Settled
<1>5. ASSUME NEW s \in Symbol, market'[s].at = "stagger" PROVE EndOf(market'[s].epoch) = until'
  <2>1. market'[s].epoch = EpochOf(now)
    BY <1>5 DEF StartCycle, Off
  <2>2. QED BY <1>2, <2>1
<1>6. QED BY <1>2, <1>3, <1>4, <1>5 DEF PaceOK

\* A cycle closes.
LEMMA PaceGather == ASSUME SessionInv, PaceOK, Gather PROVE PaceOK'
<1>1. /\ now \in Nat /\ until \in Nat /\ Slack \in Nat /\ Latest \in Int
  BY LengthAssumption DEF SessionInv, TypeOK, Latest, Settled
<1>2. /\ loop = "cycle" /\ loop' = "closing" /\ due' = now + Slack /\ Gathered
      /\ UNCHANGED <<now, delay, until, market, cycles, sidecar>>
  BY DEF Gather, configured, markets
<1>3. Gathered' /\ AllOwn' = AllOwn /\ Latest' = Latest
  BY <1>2 DEF Gathered, Ended, AllOwn, Own, Latest, Settled
<1>4. AllOwn => now <= Latest
  BY <1>2 DEF PaceOK
<1>5. QED BY <1>1, <1>2, <1>3, <1>4 DEF PaceOK

\* A cycle is over.
LEMMA PaceEnds == ASSUME SessionInv, PaceOK, CycleEnds PROVE PaceOK'
<1>1. /\ now \in Nat /\ until \in Nat /\ Slack \in Nat /\ Interval \in Nat \ {0}
      /\ Margin \in Nat /\ due \in Nat
  BY LengthAssumption DEF SessionInv, TypeOK
<1>2. /\ loop = "closing" /\ UNCHANGED <<now, delay, until, market>>
      /\ loop' \in {"failed", "ended", "window"}
      /\ loop' = "window" => due' = TailEnd /\ sidecar # "failed"
  BY DEF CycleEnds, configured, markets
<1>3. Gathered' /\ DOMAIN delay' # {} /\ (loop' = "window" /\ AllOwn' => AllOwn)
  BY <1>2 DEF PaceOK, Gathered, Ended, AllOwn, Own
<1>4. ASSUME Brief, AllOwn, loop' = "window" PROVE due' < until' + Interval
  <2>1. now <= until + 3 * Slack + Slack /\ (Slack > 0 => now < until + 3 * Slack + Slack)
    BY <1>1, <1>2, <1>4 DEF PaceOK, Latest, Settled
  <2>2. now < until + Interval
    BY <1>1, <1>4, <2>1 DEF Brief
  <2>3. QED BY <1>1, <1>2, <1>4, <2>2 DEF TailEnd, Brief
<1>5. QED BY <1>2, <1>3, <1>4 DEF PaceOK

\* Time passes.
LEMMA PaceTick == ASSUME SessionInv, PaceOK, Tick PROVE PaceOK'
<1>1. /\ TypeOK /\ now \in Nat /\ until \in Nat /\ Slack \in Nat /\ due \in Nat
  BY LengthAssumption DEF SessionInv, TypeOK
<1>2. /\ now' = now + 1 /\ ~Late
      /\ UNCHANGED <<delay, loop, due, until, cycles, market, sidecar, slept>>
  BY DEF Tick, configured, markets
<1>3. Latest \in Int /\ until <= Settled /\ until - 1 + 2 * Slack <= Settled
      /\ Settled \in Int /\ Latest = Settled + Slack
  BY <1>1, SMT DEF Latest, Settled
<1>4. Gathered' = Gathered /\ Latest' = Latest /\ Settled' = Settled
  BY <1>2 DEF Gathered, Ended, Latest, Settled
<1>5. AllOwn' => AllOwn
  BY <1>1, <1>2 DEF AllOwn, Own
<1>6. ASSUME NEW s \in DOMAIN delay, loop = "cycle", AllOwn'
      PROVE  /\ OnTime(s) /\ EndOf(market[s].epoch) = until /\ market[s].at # "failed"
             /\ market[s].at = "stagger" => now + 1 < until
             /\ market[s].at \in {"resolve", "feed", "leaving"} => now < market[s].due
             /\ market[s].due \in Nat /\ market[s].at \in Places
  <2>1. s \in Symbol /\ market[s].due \in Nat /\ market[s].at \in Places
    BY <1>1, <1>6, SymbolAssumption, TaskType DEF TypeOK
  <2>2. OnTime(s)
    BY <1>5, <1>6 DEF PaceOK
  <2>3. market[s].at \in {"resolve", "feed", "leaving"} => now < market[s].due
    BY <1>1, <1>2, <1>6, <2>1 DEF Late, Overdue
  <2>4. Own(s)'
    BY <1>2, <1>6 DEF AllOwn
  <2>5. QED BY <1>2, <2>1, <2>2, <2>3, <2>4 DEF Own
\* A monitor that is held up waits for requests that are not late.
<1>7. ASSUME NEW s \in DOMAIN delay, loop = "cycle", AllOwn', market[s].at = "monitor"
      PROVE  now + 1 <= Settled
  <2>1. CASE now < market[s].due
    BY <1>1, <1>3, <1>6, <1>7, <2>1 DEF OnTime
  <2>2. CASE ~(now < market[s].due)
    <3>1. HeldUp(s) /\ sidecar # "failed"
      BY <1>1, <1>2, <1>6, <1>7, <2>2 DEF Late, Overdue, AllOwn
    <3>2. PICK o \in DOMAIN delay : market[o].at \in {"stagger", "resolve", "feed", "failed"}
      BY <3>1 DEF HeldUp
    <3>3. CASE market[o].at = "stagger"
      BY <1>1, <1>3, <1>6, <1>7, <3>3
    <3>4. CASE market[o].at = "resolve"
      <4>1. now < market[o].due /\ market[o].due <= until - 1 + Slack /\ market[o].due \in Nat
        BY <1>6, <1>7, <3>4 DEF OnTime
      <4>2. QED BY <1>1, <1>3, <4>1
    <3>5. CASE market[o].at = "feed"
      <4>1. now < market[o].due /\ market[o].due <= until - 1 + 2 * Slack
            /\ market[o].due \in Nat
        BY <1>6, <1>7, <3>5 DEF OnTime
      <4>2. QED BY <1>1, <1>3, <4>1
    <3>6. QED BY <1>6, <1>7, <3>2, <3>3, <3>4, <3>5
  <2>3. QED BY <2>1, <2>2
<1>8. ASSUME NEW s \in DOMAIN delay, loop = "cycle", AllOwn'
      PROVE  OnTime(s)' /\ (~Ended(s) => now + 1 <= Latest)
  <2>1. OnTime(s)'
    BY <1>1, <1>2, <1>3, <1>4, <1>6, <1>7, <1>8 DEF OnTime
  <2>2. ~Ended(s) => market[s].at \in {"stagger", "resolve", "feed", "monitor", "leaving"}
    BY <1>6, <1>8 DEF Places, Running, Ended, OnTime
  <2>3. ~Ended(s) => now + 1 <= Latest
    BY <1>1, <1>3, <1>6, <1>7, <1>8, <2>2 DEF OnTime
  <2>4. QED BY <2>1, <2>3
<1>9. ASSUME loop = "cycle", AllOwn'
      PROVE  now + 1 <= Latest /\ \A s \in DOMAIN delay : OnTime(s)'
  <2>1. PICK s \in DOMAIN delay : ~Ended(s)
    BY <1>2, <1>9 DEF Late, Gathered
  <2>2. QED BY <1>8, <1>9, <2>1
<1>10. loop = "closing" => now < due
  BY <1>1, <1>2 DEF Late
<1>11. loop = "cycle" => \A s \in Symbol :
         market'[s].at = "stagger" => EndOf(market'[s].epoch) = until'
  BY <1>2 DEF PaceOK
<1>12. QED BY <1>1, <1>2, <1>3, <1>4, <1>5, <1>9, <1>10, <1>11 DEF PaceOK

\* The other steps of the loop, and those of the btc monitor.
LEMMA PaceBeside ==
  ASSUME SessionInv, PaceOK,
         \/ NoWallet \/ ClientReady \/ ProbeRaises \/ NoTargets \/ Started \/ NoWindows
         \/ KeepWaiting \/ Interrupt \/ SidecarEnds \/ SidecarRaises \/ UNCHANGED vars
  PROVE  PaceOK'
<1>1. now \in Nat /\ slept \in Nat \cup {Never} /\ cycles \in Nat
  BY DEF SessionInv, TypeOK
<1>2. CASE NoWallet \/ ClientReady \/ ProbeRaises \/ NoTargets \/ Started \/ NoWindows
           \/ Interrupt
  <2>1. /\ loop' \in {"failed", "probe", "ended", "window"} /\ UNCHANGED <<delay, cycles>>
        /\ loop' = "probe" => loop = "startup"
        /\ loop' = "window" => loop = "probe" /\ DOMAIN delay # {}
    BY <1>2 DEF NoWallet, ClientReady, ProbeRaises, NoTargets, Started, NoWindows, Interrupt,
                configured
  <2>2. QED BY <1>1, <2>1 DEF PaceOK
<1>3. CASE KeepWaiting
  <2>1. /\ loop = "window" /\ loop' = "window" /\ slept' \in Nat
        /\ UNCHANGED <<delay, cycles, market>>
    BY <1>1, <1>3 DEF KeepWaiting, configured, markets
  <2>2. Gathered' = Gathered
    BY <2>1 DEF Gathered, Ended
  <2>3. QED BY <1>1, <2>1, <2>2 DEF PaceOK
<1>4. CASE SidecarEnds \/ SidecarRaises \/ UNCHANGED vars
  <2>1. UNCHANGED <<now, delay, loop, due, until, cycles, market, slept>>
        /\ (sidecar = "failed" => sidecar' = "failed")
    BY <1>4 DEF SidecarEnds, SidecarRaises, vars, configured, markets
  <2>2. QED
    BY <2>1 DEF PaceOK, Gathered, Ended, AllOwn, Own, OnTime, Latest, Settled, Brief
<1>5. QED BY <1>2, <1>3, <1>4

\* How late the loop may be is an invariant.
LEMMA PaceInvariant == Spec => []PaceOK
<1>1. Init => PaceOK
  BY DEF Init, PaceOK
<1>2. SessionInv /\ PaceOK /\ [Next]_vars => PaceOK'
  BY PaceMarket, PaceCycle, PaceGather, PaceEnds, PaceTick, PaceBeside DEF Next
<1>3. QED BY <1>1, <1>2, SessionInvariant, PTL DEF Spec

\* Epoch follows epoch while the window lasts and no market raises, for any number
\* of markets, delays and cycles and any order of the display, when four requests
\* fit in an epoch and what the loop waits between two cycles is shorter than one.
THEOREM EveryEpoch == ASSUME Brief PROVE Spec => NoEpochLeftOut
<1> DEFINE Step == loop = "window" /\ loop' = "cycle" /\ cycles > 0 /\ slept < 0
                     /\ (\A s \in DOMAIN delay :
                           market[s].at = "done" /\ EndOf(market[s].epoch) = until)
                   => until' = until + Interval
<1>1. ASSUME SessionInv, PaceOK, [Next]_vars, loop = "window", loop' = "cycle", cycles > 0,
             slept < 0,
             \A s \in DOMAIN delay : market[s].at = "done" /\ EndOf(market[s].epoch) = until
      PROVE  until' = until + Interval
  <2>1. StartCycle
    <3>1. ASSUME NEW s \in Symbol, Market(s) PROVE FALSE
      BY <1>1, <3>1 DEF Market, Begin, NoMarket, Resolved, StrikeFound, MonitorEnds,
                        QueueRedeem, MarketRaises, InPhase
    <3>2. ~(\/ NoWallet \/ ClientReady \/ ProbeRaises \/ NoTargets \/ Started \/ KeepWaiting
            \/ NoWindows \/ Gather \/ CycleEnds \/ Interrupt \/ SidecarEnds \/ SidecarRaises
            \/ Tick \/ UNCHANGED vars)
      BY <1>1 DEF NoWallet, ClientReady, ProbeRaises, NoTargets, Started, KeepWaiting,
                  NoWindows, Gather, CycleEnds, Interrupt, SidecarEnds, SidecarRaises, Tick, vars
    <3>3. QED BY <1>1, <3>1, <3>2 DEF Next
  <2>2. /\ now \in Nat /\ now = due /\ until \in Nat /\ until <= now
        /\ until' = EndOf(EpochOf(now)) /\ Interval \in Nat \ {0}
    BY <1>1, <2>1, LengthAssumption DEF StartCycle, SessionInv, TypeOK, LoopOK
  <2>3. AllOwn
    BY <1>1 DEF AllOwn, Own, SessionInv, LoopOK
  <2>4. now < until + Interval
    BY <1>1, <2>2, <2>3 DEF PaceOK
  <2>5. PICK s \in DOMAIN delay : market[s].epoch \in Nat /\ EndOf(market[s].epoch) = until
    BY <1>1, SymbolAssumption, TaskType DEF PaceOK, SessionInv, TypeOK
  <2>6. EpochOf(now) = market[s].epoch + 1
    <3> DEFINE e == market[s].epoch + 1
    <3>1. e \in Nat /\ e * Interval = until /\ EndOf(e) = until + Interval
      BY <2>2, <2>5, SMT DEF EndOf
    <3>2. QED BY <2>2, <2>4, <3>1, EpochUnique
  <2>7. QED BY <2>2, <2>5, <2>6, SMT DEF EndOf
<1>2. SessionInv /\ PaceOK /\ [Next]_vars => [Step]_vars
  BY <1>1
<1>3. QED BY <1>2, SessionInvariant, PaceInvariant, PTL DEF Spec, NoEpochLeftOut

-----------------------------------------------------------------------------
(* The next window.                                                         *)

\* The numbers below a number form a well-founded relation.
Less == OpToRel(<, Nat)

\* Every set of numbers has one with none below it.
LEMMA LessWellFounded == IsWellFoundedOn(Less, Nat)
BY NatLessThanWellFounded DEF Less

\* What the relation says of two numbers.
LEMMA LessMeaning == ASSUME NEW m \in Nat, NEW n \in Nat PROVE <<m, n>> \in Less <=> m < n
BY SMT DEF Less, OpToRel

\* A set of numbers has a least one.
LEMMA LeastNumber ==
  ASSUME NEW T, T \subseteq Nat, T # {}
  PROVE  \E m \in T : \A n \in T : m <= n
<1>1. PICK m \in T : \A n \in T : ~(<<n, m>> \in Less)
  BY LessWellFounded, WFMin
<1>2. ASSUME NEW n \in T PROVE m <= n
  <2>1. ~(n < m)
    BY <1>1, LessMeaning, Zenon
  <2>2. QED BY <2>1, SMT
<1>3. QED BY <1>2

\* The day of a time, and when a day starts.
DayOf(t)      == t \div DayLen
DayStart(day) == day * DayLen

\* A time within a day.
LEMMA DayFacts ==
  ASSUME NEW day \in Nat, NEW time \in 0..(DayLen - 1)
  PROVE  /\ DayStart(day) \in Nat
         /\ DayOf(DayStart(day) + time) = day /\ TimeOfDay(DayStart(day) + time) = time
BY WeekAssumption, SMT DEF DayStart, DayOf, TimeOfDay

\* Every time is one within a day.
LEMMA TimeFacts ==
  ASSUME NEW t \in Nat
  PROVE  /\ DayOf(t) \in Nat /\ DayStart(DayOf(t)) \in Nat
         /\ TimeOfDay(t) \in 0..(DayLen - 1) /\ t = DayStart(DayOf(t)) + TimeOfDay(t)
<1>1. DayOf(t) \in Nat
  BY WeekAssumption, SMT DEF DayOf
<1>2. DayStart(DayOf(t)) \in Nat /\ t - DayStart(DayOf(t)) \in 0..(DayLen - 1)
  BY <1>1, WeekAssumption, SMT DEF DayOf, DayStart
<1>3. t = DayStart(DayOf(t)) + (t - DayStart(DayOf(t)))
  BY <1>2
<1>4. TimeOfDay(t) = t - DayStart(DayOf(t))
  BY <1>1, <1>2, <1>3, DayFacts
<1>5. QED BY <1>1, <1>2, <1>3, <1>4

\* Later days begin when the earlier ones are over.
LEMMA DaysFollow ==
  ASSUME NEW d \in Nat, NEW e \in Nat, d < e
  PROVE  DayStart(d) + DayLen <= DayStart(e) /\ DayStart(d) \in Nat /\ DayStart(e) \in Nat
<1>1. DayLen \in Nat
  BY WeekAssumption
<1>2. (d + 1) * DayLen <= e * DayLen
  BY <1>1, SMT
<1>3. QED BY <1>1, <1>2, SMT DEF DayStart

\* The starts that next_window_start chooses from.
LEMMA CandidateFacts ==
  ASSUME NEW t \in Nat, NEW c \in Schedules, NEW n
  PROVE  n \in Candidates(t, c) <=>
           \E k \in 0..Days, w \in c.windows :
             /\ (DayOf(t) + k) % Days \in c.weekdays
             /\ n = DayStart(DayOf(t) + k) + w.start /\ n > t
<1> DEFINE Ahead  == {k \in 0..Days : (DayOf(t) + k) % Days \in c.weekdays}
           Starts == {DayStart(DayOf(t) + k) + w.start : k \in Ahead, w \in c.windows}
<1>1. Candidates(t, c) = {start \in Starts : start > t}
  BY DEF Candidates, DaysAhead, DayOf, DayStart
<1>2. n \in Starts <=>
        \E k \in Ahead, w \in c.windows : n = DayStart(DayOf(t) + k) + w.start
  <2> HIDE DEF Ahead
  <2>1. QED BY SMT
<1> HIDE DEF Starts
<1>3. n \in Candidates(t, c) <=> n \in Starts /\ n > t
  BY <1>1
<1>4. QED BY <1>2, <1>3, Zenon

\* next_window_start is the earliest of them.
LEMMA EarliestStart ==
  ASSUME NEW t \in Nat, NEW c \in Schedules, c.weekdays # {}, c.windows # {}, StartsInDay(c)
  PROVE  /\ NextWindowStart(t, c) \in Candidates(t, c)
         /\ \A other \in Candidates(t, c) : NextWindowStart(t, c) <= other
<1>1. Candidates(t, c) # {}
  BY WindowAhead
<1>2. ASSUME NEW n \in Candidates(t, c) PROVE n \in Nat
  <2>1. PICK k \in 0..Days, w \in c.windows :
          /\ (DayOf(t) + k) % Days \in c.weekdays
          /\ n = DayStart(DayOf(t) + k) + w.start /\ n > t
    BY <1>2, CandidateFacts, Zenon
  <2>2. w.start \in Nat /\ DayOf(t) + k \in Nat /\ 0 \in 0..(DayLen - 1)
    <3>1. w.start \in Nat
      BY ScheduleAssumption DEF StartsInDay
    <3>2. DayOf(t) \in Nat /\ Days \in Nat /\ DayLen \in Nat \ {0}
      BY WeekAssumption, TimeFacts
    <3>3. QED BY <3>1, <3>2
  <2>3. DayStart(DayOf(t) + k) \in Nat
    BY <2>2, DayFacts
  <2>4. QED BY <2>1, <2>2, <2>3
<1>3. \E n \in Candidates(t, c) : \A other \in Candidates(t, c) : n <= other
  <2>1. Candidates(t, c) \subseteq Nat
    BY <1>2
  <2>2. QED BY <1>1, <2>1, LeastNumber
<1>4. QED BY <1>3, Zenon DEF NextWindowStart

\* The start that wait_for_trading_window announces is that of a window on a day
\* of the schedule, still to come.
LEMMA NextStart ==
  ASSUME NEW t \in Nat, NEW c \in Schedules, c.weekdays # {}, c.windows # {}, StartsInDay(c)
  PROVE  \E k \in 0..Days, w \in c.windows :
           /\ (DayOf(t) + k) % Days \in c.weekdays
           /\ NextWindowStart(t, c) = DayStart(DayOf(t) + k) + w.start
           /\ NextWindowStart(t, c) > t
           /\ DayOf(t) + k \in Nat /\ w.start \in 0..(DayLen - 1)
<1>1. PICK k \in 0..Days, w \in c.windows :
        /\ (DayOf(t) + k) % Days \in c.weekdays
        /\ NextWindowStart(t, c) = DayStart(DayOf(t) + k) + w.start
        /\ NextWindowStart(t, c) > t
  BY EarliestStart, CandidateFacts, Zenon
<1>2. w.start \in 0..(DayLen - 1)
  BY ScheduleAssumption DEF StartsInDay
<1>3. DayOf(t) + k \in Nat
  <2>1. DayOf(t) \in Nat /\ Days \in Nat
    BY TimeFacts, WeekAssumption
  <2>2. QED BY <2>1
<1>4. QED BY <1>1, <1>2, <1>3, Zenon

\* Between a time that is not one of trading and the next start, no time is, for
\* any length of the week and of the day.
THEOREM NoWindowBeforeNext ==
  ASSUME NEW t \in Nat, NEW c \in Schedules, c.enabled, c.weekdays # {}, c.windows # {},
         StartsInDay(c), ~IsTradingActive(t, c),
         NEW u \in t..(NextWindowStart(t, c) - 1)
  PROVE  ~IsTradingActive(u, c)
<1> SUFFICES ASSUME IsTradingActive(u, c) PROVE FALSE
  OBVIOUS
<1> DEFINE n == NextWindowStart(t, c)
<1>1. PICK k \in 0..Days, v \in c.windows :
        /\ n = DayStart(DayOf(t) + k) + v.start /\ n > t
        /\ DayOf(t) + k \in Nat /\ v.start \in 0..(DayLen - 1)
  BY NextStart
<1>2. Days \in Nat /\ DayLen \in Nat /\ n \in Nat
  BY <1>1, WeekAssumption, DayFacts
<1>3. u \in Nat /\ t <= u /\ u < n
  BY <1>1, <1>2
<1>4. /\ DayOf(t) \in Nat /\ DayStart(DayOf(t)) \in Nat /\ TimeOfDay(t) \in 0..(DayLen - 1)
      /\ t = DayStart(DayOf(t)) + TimeOfDay(t)
      /\ DayOf(u) \in Nat /\ DayStart(DayOf(u)) \in Nat /\ TimeOfDay(u) \in 0..(DayLen - 1)
      /\ u = DayStart(DayOf(u)) + TimeOfDay(u)
  BY <1>3, TimeFacts
<1>5. PICK w \in c.windows :
        DayOf(u) % Days \in c.weekdays /\ w.start <= TimeOfDay(u) /\ TimeOfDay(u) < w.end
  BY DEF IsTradingActive, Weekday, DayOf
<1>6. w.start \in Nat /\ w.end \in Int
  BY ScheduleAssumption, WeekAssumption DEF StartsInDay
<1> HIDE DEF n
<1>7. DayOf(t) <= DayOf(u)
  <2>1. ASSUME DayOf(u) < DayOf(t) PROVE FALSE
    BY <1>2, <1>3, <1>4, <2>1, DaysFollow
  <2>2. QED BY <1>4, <2>1
<1>8. DayOf(u) <= DayOf(t) + Days
  <2>1. ASSUME DayOf(t) + k < DayOf(u) PROVE FALSE
    BY <1>1, <1>2, <1>3, <1>4, <2>1, DaysFollow
  <2>2. QED BY <1>1, <1>2, <1>4, <2>1
<1>9. CASE DayStart(DayOf(u)) + w.start > t
  <2>1. DayOf(u) - DayOf(t) \in 0..Days /\ DayOf(t) + (DayOf(u) - DayOf(t)) = DayOf(u)
    BY <1>2, <1>4, <1>7, <1>8
  <2>2. DayStart(DayOf(u)) + w.start \in Candidates(t, c)
    BY <1>5, <1>9, <2>1, CandidateFacts, Zenon
  <2>3. n <= DayStart(DayOf(u)) + w.start
    BY <2>2, EarliestStart DEF n
  <2>4. QED BY <1>2, <1>3, <1>4, <1>5, <1>6, <2>3
<1>10. CASE ~(DayStart(DayOf(u)) + w.start > t)
  <2>1. ASSUME DayOf(t) < DayOf(u) PROVE FALSE
    BY <1>2, <1>4, <1>6, <1>10, <2>1, DaysFollow
  <2>2. DayOf(t) = DayOf(u)
    BY <1>4, <1>7, <2>1
  <2>3. w.start <= TimeOfDay(t) /\ TimeOfDay(t) < w.end
    BY <1>2, <1>3, <1>4, <1>5, <1>6, <1>10, <2>2
  <2>4. IsTradingActive(t, c)
    BY <1>5, <2>2, <2>3 DEF IsTradingActive, Weekday, DayOf
  <2>5. QED BY <2>4
<1>11. QED BY <1>9, <1>10

\* The next start is one of trading, when every window ends after it starts.
THEOREM NextStartIsActive ==
  ASSUME NEW t \in Nat, NEW c \in Schedules, c.weekdays # {}, c.windows # {},
         StartsInDay(c), \A w \in c.windows : w.start < w.end
  PROVE  NextWindowStart(t, c) > t /\ IsTradingActive(NextWindowStart(t, c), c)
<1> DEFINE n == NextWindowStart(t, c)
<1>1. PICK k \in 0..Days, w \in c.windows :
        /\ (DayOf(t) + k) % Days \in c.weekdays
        /\ n = DayStart(DayOf(t) + k) + w.start /\ n > t
        /\ DayOf(t) + k \in Nat /\ w.start \in 0..(DayLen - 1)
  BY NextStart
<1>2. DayOf(n) = DayOf(t) + k /\ TimeOfDay(n) = w.start
  BY <1>1, DayFacts
<1>3. w.start \in Nat /\ w.start < w.end
  BY ScheduleAssumption, WeekAssumption DEF StartsInDay
<1> HIDE DEF n
<1>4. IsTradingActive(n, c)
  BY <1>1, <1>2, <1>3 DEF IsTradingActive, Weekday, DayOf
<1>5. QED BY <1>1, <1>4 DEF n

===============================================================================
