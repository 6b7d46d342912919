------------------------- MODULE TradingSessionProofs -------------------------
(***************************************************************************)
(* Theorems about TradingSession, for every list of targets and delays,    *)
(* every length of an epoch, every schedule and a run of any length.       *)
(***************************************************************************)
EXTENDS TradingSession, TLAPS

\* Where a market task stands when it has an epoch of its own.
Running == {"resolve", "feed", "monitor", "leaving"}
Places  == {"off", "stagger", "done", "failed"} \cup Running
Strikes == [from : {"report", "page", "spot", "none"}, of : Nat]
Tasks(t) == [at : Places, epoch : 0..EpochOf(t), due : Nat, strike : Strikes]

\* What has been queued, and what is traded with which strike.
TimesOK(s) ==
  /\ redeemed[s] # Never => EndOf(redeemed[s]) <= now
  /\ market[s].at \in Running => redeemed[s] < market[s].epoch
  /\ market[s].at \in {"resolve", "feed"} => EpochStart(s) + Slack <= market[s].due
  /\ market[s].at = "monitor" => market[s].due = EndOf(market[s].epoch)
  /\ market[s].at = "monitor" /\ market[s].strike.from # "none" =>
       EpochStart(s) <= market[s].strike.of /\ market[s].strike.of <= now
  /\ market[s].at = "leaving" => EndOf(market[s].epoch) <= now

\* As long as no market is carried over, all of a cycle is about one epoch.
CycleOK(s) ==
  ~carried =>
    /\ traded[s] # Never => EndOf(traded[s]) <= until
    /\ market[s].at \in {"stagger"} \cup Running => EndOf(market[s].epoch) = until
    /\ market[s].at \in {"stagger", "resolve", "feed"} => traded[s] < market[s].epoch
    /\ market[s].at = "done" /\ traded[s] = market[s].epoch =>
         redeemed[s] = market[s].epoch

\* The loop does not begin a cycle before the epoch of the last one is over, and
\* leaves no btc monitor behind.
LoopOK ==
  /\ loop \in {"startup", "probe"} => until = 0
  /\ loop \in {"startup", "probe", "window"} => sidecar = "off"
  /\ loop = "window" => until <= due
  /\ loop \notin {"cycle", "closing"} => sidecar # "running"

\* The inductive invariant.
SessionInv ==
  TypeOK /\ LoopOK /\ \A s \in Symbol : TimesOK(s) /\ CycleOK(s)

-----------------------------------------------------------------------------
(* Epochs.                                                                  *)

\* A time lies in its epoch.
LEMMA EpochFacts ==
  ASSUME NEW t \in Nat
  PROVE  /\ EpochOf(t) \in Nat /\ EpochOf(t) * Interval <= t
         /\ t < EndOf(EpochOf(t))
BY LengthAssumption, SMT DEF EpochOf, EndOf

\* The start and the end of an epoch are times.
LEMMA EndFacts ==
  ASSUME NEW e \in Nat
  PROVE  e * Interval \in Nat /\ EndOf(e) \in Nat /\ e * Interval < EndOf(e)
BY LengthAssumption, SMT DEF EndOf

\* An epoch that is over is an earlier one.
LEMMA EndedBefore ==
  ASSUME NEW t \in Nat, NEW e \in Nat, EndOf(e) <= t
  PROVE  e < EpochOf(t)
BY LengthAssumption, SMT DEF EpochOf, EndOf

\* An epoch up to the present one has begun.
LEMMA BegunBefore ==
  ASSUME NEW t \in Nat, NEW e \in 0..EpochOf(t)
  PROVE  e * Interval <= t
<1>1. EpochOf(t) \in Nat /\ EpochOf(t) * Interval <= t
  BY EpochFacts
<1>2. e * Interval <= EpochOf(t) * Interval
  BY <1>1, LengthAssumption, SMT
<1>3. e * Interval \in Nat /\ EpochOf(t) * Interval \in Nat
  BY <1>1, EndFacts
<1>4. QED BY <1>1, <1>2, <1>3

\* The epoch of a time is the one that has begun and is not over.
LEMMA EpochUnique ==
  ASSUME NEW t \in Nat, NEW e \in Nat, e * Interval <= t, t < EndOf(e)
  PROVE  EpochOf(t) = e
BY LengthAssumption, SMT DEF EpochOf, EndOf

\* Epochs do not go back.
LEMMA EpochGrows ==
  ASSUME NEW t \in Nat
  PROVE  EpochOf(t) <= EpochOf(t + 1)
BY LengthAssumption, SMT DEF EpochOf

\* The day of a week, k days from now.
LEMMA WeekdayFacts ==
  ASSUME NEW day \in Nat, NEW weekday \in 0..(Days - 1)
  PROVE  \E k \in 1..Days : (day + k) % Days = weekday
<1>1. Days \in Nat /\ Days > 0
  BY WeekAssumption
<1>2. PICK week \in Nat, today \in 0..(Days - 1) : day = Days * week + today
  <2>1. day \div Days \in Nat
    BY <1>1, SMT
  <2>2. PICK week \in Nat : week = day \div Days
    BY <2>1
  <2>3. day - Days * week \in 0..(Days - 1) /\ Days * week \in Nat
    BY <1>1, <2>2, SMT
  <2>4. day = Days * week + (day - Days * week)
    BY <2>3
  <2>5. QED BY <2>3, <2>4
<1>3. ASSUME NEW n \in Nat, NEW q \in Nat, n = Days * q + weekday PROVE n % Days = weekday
  BY <1>1, <1>3, SMT
<1>4. CASE today < weekday
  <2>1. weekday - today \in 1..Days
    BY <1>1, <1>4
  <2>2. day + (weekday - today) \in Nat
    BY <1>1, <1>4
  <2>3. Days * week \in Nat
    BY <1>1, SMT
  <2>4. day + (weekday - today) = Days * week + weekday
    BY <1>2, <2>3
  <2>5. (day + (weekday - today)) % Days = weekday
    BY <1>3, <2>2, <2>4
  <2>6. QED BY <2>1, <2>5
<1>5. CASE ~(today < weekday)
  <2>1. weekday - today + Days \in 1..Days
    BY <1>1, <1>5
  <2>2. day + (weekday - today + Days) \in Nat
    BY <1>1, <2>1
  <2>3. Days * week \in Nat /\ Days * (week + 1) = Days * week + Days
    BY <1>1, SMT
  <2>4. day + (weekday - today + Days) = Days * (week + 1) + weekday
    BY <1>1, <1>2, <2>3
  <2>5. (day + (weekday - today + Days)) % Days = weekday
    BY <1>3, <2>2, <2>4
  <2>6. QED BY <2>1, <2>5
<1>6. QED BY <1>4, <1>5

\* The starts of the schedule are times of a day, as datetime.replace has it.
StartsInDay(c) == \A w \in c.windows : w.isTime

\* A schedule with a weekday and a window that starts within a day has a next
\* start, within a week.
LEMMA WindowAhead ==
  ASSUME NEW t \in Nat, NEW c \in Schedules, c.weekdays # {}, c.windows # {}, StartsInDay(c)
  PROVE  Candidates(t, c) # {}
<1>1. PICK weekday \in 0..(Days - 1), w \in c.windows : weekday \in c.weekdays
  BY ScheduleAssumption
<1>2. w.start \in Nat
  BY ScheduleAssumption DEF StartsInDay
<1> DEFINE day == t \div DayLen
<1>3. /\ day \in Nat /\ DayLen \in Nat /\ Days \in Nat
      /\ \A k \in 1..Days : (day + k) * DayLen > t /\ (day + k) * DayLen \in Nat
  <2>1. day \in Nat /\ t < (day + 1) * DayLen /\ DayLen \in Nat /\ Days \in Nat
    BY WeekAssumption, SMT
  <2>2. ASSUME NEW k \in 1..Days
        PROVE  (day + 1) * DayLen <= (day + k) * DayLen /\ (day + k) * DayLen \in Nat
               /\ (day + 1) * DayLen \in Nat
    <3>1. day \in Nat /\ k \in Nat /\ k >= 1
      BY <2>1
    <3> HIDE DEF day
    <3>2. QED BY <2>1, <3>1, SMT
  <2> HIDE DEF day
  <2>3. QED BY <2>1, <2>2
<1> HIDE DEF day
<1>4. PICK k \in 1..Days : (day + k) % Days = weekday
  BY <1>3, WeekdayFacts
<1>5. k \in {d \in 0..Days : (day + d) % Days \in c.weekdays}
  BY <1>1, <1>3, <1>4
<1>6. (day + k) * DayLen + w.start > t
  BY <1>2, <1>3
<1>7. (day + k) * DayLen + w.start \in
        {(day + d) * DayLen + v.start :
           d \in {e \in 0..Days : (day + e) % Days \in c.weekdays}, v \in c.windows}
  BY <1>1, <1>5, SMT
<1>8. (day + k) * DayLen + w.start \in Candidates(t, c)
  BY <1>6, <1>7, SMT DEF Candidates, DaysAhead, day
<1>9. QED BY <1>8

-----------------------------------------------------------------------------
(* What a step of one market leaves alone.                                  *)

\* The task of a symbol.
LEMMA TaskType ==
  ASSUME TypeOK, NEW s \in Symbol
  PROVE  /\ now \in Nat /\ market \in [Symbol -> Tasks(now)] /\ market[s] \in Tasks(now)
         /\ market[s].at \in Places /\ market[s].epoch \in 0..EpochOf(now)
         /\ market[s].epoch \in Nat /\ market[s].due \in Nat
         /\ market[s].strike \in Strikes
         /\ traded[s] \in Nat \cup {Never} /\ redeemed[s] \in Nat \cup {Never}
         /\ until \in Nat
<1>1. now \in Nat /\ market \in [Symbol -> Tasks(now)]
  BY DEF TypeOK, Tasks, Places, Running, Strikes
<1>2. market[s] \in Tasks(now)
  BY <1>1
<1>3. /\ market[s].at \in Places /\ market[s].epoch \in 0..EpochOf(now)
      /\ market[s].due \in Nat /\ market[s].strike \in Strikes
  BY <1>2 DEF Tasks
<1>4. market[s].epoch \in Nat
  BY <1>1, <1>3, EpochFacts
<1>5. QED BY <1>1, <1>2, <1>3, <1>4 DEF TypeOK

\* One task changes.
LEMMA TaskMoves ==
  ASSUME TypeOK, NEW s \in Symbol, NEW task \in Tasks(now),
         market' = [market EXCEPT ![s] = task]
  PROVE  /\ market' \in [Symbol -> Tasks(now)] /\ market'[s] = task
         /\ \A q \in Symbol \ {s} : market'[q] = market[q]
BY TaskType

\* A task goes on.
LEMMA TaskGoes ==
  ASSUME TypeOK, NEW s \in Symbol, NEW at \in Places, NEW when \in Nat, Goes(s, at, when)
  PROVE  /\ market' \in [Symbol -> Tasks(now)]
         /\ \A q \in Symbol \ {s} : market'[q] = market[q]
         /\ market'[s].at = at /\ market'[s].due = when
         /\ market'[s].epoch = market[s].epoch /\ market'[s].strike = market[s].strike
<1> DEFINE task == [market[s] EXCEPT !.at = at, !.due = when]
<1>1. market \in [Symbol -> Tasks(now)] /\ market[s] \in Tasks(now)
  BY TaskType
<1>2. /\ task \in Tasks(now) /\ task.at = at /\ task.due = when
      /\ task.epoch = market[s].epoch /\ task.strike = market[s].strike
  BY <1>1 DEF Tasks
<1>3. market' = [market EXCEPT ![s] = task]
  BY <1>1 DEF Goes
<1> HIDE DEF task
<1>4. QED BY <1>2, <1>3, TaskMoves

\* A task ends.
LEMMA TaskEnds ==
  ASSUME TypeOK, NEW s \in Symbol, NEW at \in {"done", "failed"}, Ends(s, at)
  PROVE  /\ market' \in [Symbol -> Tasks(now)]
         /\ \A q \in Symbol \ {s} : market'[q] = market[q]
         /\ market'[s].at = at /\ market'[s].epoch = market[s].epoch
<1> DEFINE task == [Off EXCEPT !.at = at, !.epoch = market[s].epoch]
<1>1. market[s].epoch \in 0..EpochOf(now)
  BY TaskType
<1>2. task \in Tasks(now) /\ task.at = at /\ task.epoch = market[s].epoch
  BY <1>1 DEF Off, NoStrike, Tasks, Places, Strikes
<1>3. market' = [market EXCEPT ![s] = task]
  BY DEF Ends
<1> HIDE DEF task
<1>4. QED BY <1>2, <1>3, TaskMoves

\* The facts about the other symbols stay, and so do those about the loop.
LEMMA OthersKeep ==
  ASSUME SessionInv, NEW s \in Symbol, UNCHANGED <<now, configured, loop, due, until>>,
         UNCHANGED <<cycles, sidecar, slept>>, ~carried' => ~carried, carried' \in BOOLEAN,
         market' \in [Symbol -> Tasks(now)],
         traded' \in [Symbol -> Nat \cup {Never}], redeemed' \in [Symbol -> Nat \cup {Never}],
         \A q \in Symbol \ {s} : /\ market'[q] = market[q] /\ traded'[q] = traded[q]
                                 /\ redeemed'[q] = redeemed[q],
         TimesOK(s)', CycleOK(s)'
  PROVE  SessionInv'
<1>1. TypeOK'
  BY DEF SessionInv, TypeOK, configured, Tasks, Places, Running, Strikes
<1>2. LoopOK'
  BY DEF SessionInv, LoopOK
<1>3. ASSUME NEW q \in Symbol \ {s} PROVE TimesOK(q)' /\ CycleOK(q)'
  BY <1>3 DEF SessionInv, TimesOK, CycleOK, EpochStart
<1>4. QED BY <1>1, <1>2, <1>3 DEF SessionInv

-----------------------------------------------------------------------------
(* The markets.                                                             *)

\* A task begins, with the epoch of the moment.
LEMMA BeginStep == ASSUME SessionInv, NEW s \in Symbol, Begin(s) PROVE SessionInv'
<1> DEFINE task == [at |-> "resolve", epoch |-> EpochOf(now), due |-> now + Slack,
                    strike |-> NoStrike]
<1>1. TypeOK /\ TimesOK(s) /\ CycleOK(s) /\ now \in Nat
  BY DEF SessionInv, TypeOK
<1>2. /\ market' = [market EXCEPT ![s] = task] /\ market[s].at = "stagger"
      /\ UNCHANGED <<now, configured, loop, due, until, cycles, sidecar, traded, redeemed,
                     slept>>
  BY DEF Begin, InPhase, BeginEpoch
<1>3. EpochOf(now) \in Nat /\ EpochOf(now) * Interval <= now
  BY <1>1, EpochFacts
<1>4. task \in Tasks(now)
  BY <1>1, <1>3, LengthAssumption DEF Tasks, Places, Running, Strikes, NoStrike
<1>5. /\ task.at = "resolve" /\ task.epoch = EpochOf(now) /\ task.due = now + Slack
  OBVIOUS
<1>6. carried' \in BOOLEAN /\ (~carried' => ~carried /\ EpochOf(now) = market[s].epoch)
  BY <1>1, Zenon DEF Begin, BeginEpoch, TypeOK
<1> HIDE DEF task
<1>7. /\ market' \in [Symbol -> Tasks(now)] /\ market'[s] = task
      /\ \A q \in Symbol \ {s} : market'[q] = market[q]
  BY <1>1, <1>2, <1>4, TaskMoves
<1>8. redeemed[s] < EpochOf(now)
  <2>1. redeemed[s] \in Nat \cup {Never}
    BY <1>1, TaskType
  <2>2. CASE redeemed[s] = Never
    BY <1>3, <2>2 DEF Never
  <2>3. CASE redeemed[s] # Never
    <3>1. redeemed[s] \in Nat /\ EndOf(redeemed[s]) <= now
      BY <1>1, <2>1, <2>3 DEF TimesOK
    <3>2. QED BY <1>1, <3>1, EndedBefore
  <2>4. QED BY <2>2, <2>3
<1>9. EpochOf(now) * Interval + Slack <= now + Slack
  BY <1>1, <1>3, EndFacts, LengthAssumption
<1>10. TimesOK(s)'
  BY <1>1, <1>2, <1>5, <1>7, <1>8, <1>9 DEF TimesOK, EpochStart, Running
<1>11. CycleOK(s)'
  BY <1>1, <1>2, <1>5, <1>6, <1>7 DEF CycleOK, Running
<1>12. QED
  BY <1>1, <1>2, <1>6, <1>7, <1>10, <1>11, OthersKeep DEF TypeOK

\* The event is found.
LEMMA ResolvedStep == ASSUME SessionInv, NEW s \in Symbol, Resolved(s) PROVE SessionInv'
<1>1. TypeOK /\ TimesOK(s) /\ CycleOK(s) /\ now \in Nat
  BY DEF SessionInv, TypeOK
<1>2. /\ Goes(s, "feed", now + Slack) /\ market[s].at = "resolve"
      /\ UNCHANGED <<now, configured, loop, due, until, cycles, sidecar, traded, redeemed,
                     slept, carried>>
  BY DEF Resolved, InPhase
<1>3. now + Slack \in Nat /\ "feed" \in Places
  BY <1>1, LengthAssumption DEF Places, Running
<1>4. /\ market' \in [Symbol -> Tasks(now)] /\ market'[s].at = "feed"
      /\ market'[s].due = now + Slack /\ market'[s].epoch = market[s].epoch
      /\ \A q \in Symbol \ {s} : market'[q] = market[q]
  BY <1>1, <1>2, <1>3, TaskGoes
<1>5. market[s].epoch * Interval + Slack <= now + Slack
  <2>1. market[s].epoch \in 0..EpochOf(now) /\ market[s].epoch \in Nat
    BY <1>1, TaskType
  <2>2. market[s].epoch * Interval <= now /\ market[s].epoch * Interval \in Nat
    BY <1>1, <2>1, BegunBefore, EndFacts
  <2>3. QED BY <1>1, <2>2, LengthAssumption
<1>6. TimesOK(s)'
  BY <1>1, <1>2, <1>4, <1>5 DEF TimesOK, EpochStart, Running
<1>7. CycleOK(s)'
  BY <1>1, <1>2, <1>4 DEF CycleOK, Running
<1>8. QED BY <1>1, <1>2, <1>4, <1>6, <1>7, OthersKeep DEF TypeOK

\* The strike is one the feeds could have at some time since the task began.
LEMMA StrikeDates ==
  ASSUME SessionInv, NEW s \in Symbol, market[s].at = "feed",
         NEW report \in ReportStrike(s), NEW page \in PageStrike(s), NEW spot \in SpotStrike(s),
         NEW strike, strike = OrElse(report, OrElse(page, spot))
  PROVE  /\ strike \in Strikes
         /\ strike.from # "none" => EpochStart(s) <= strike.of /\ strike.of <= now
<1>1. TypeOK /\ TimesOK(s) /\ now \in Nat
  BY DEF SessionInv, TypeOK
<1>2. /\ market[s].epoch \in 0..EpochOf(now) /\ market[s].epoch \in Nat
      /\ market[s].due \in Nat
  BY <1>1, TaskType
<1>3. EpochStart(s) \in Nat /\ EpochStart(s) <= now
  BY <1>1, <1>2, EndFacts, BegunBefore DEF EpochStart
<1>4. EpochStart(s) <= market[s].due - Slack
  BY <1>1, <1>2, <1>3, LengthAssumption DEF TimesOK
<1> DEFINE Dated(x) == /\ x \in Strikes
                       /\ x.from # "none" => EpochStart(s) <= x.of /\ x.of <= now
<1>5. Dated(NoStrike)
  BY DEF NoStrike, Strikes
<1>6. Dated(Strike("report", EpochStart(s))) /\ Dated(Strike("page", EpochStart(s)))
  BY <1>1, <1>3 DEF Strike, Strikes
<1>7. ASSUME NEW t \in (market[s].due - Slack)..now PROVE Dated(Strike("spot", t))
  <2>1. t \in Nat /\ EpochStart(s) <= t /\ t <= now
    BY <1>1, <1>2, <1>3, <1>4, <1>7, LengthAssumption
  <2>2. QED BY <2>1 DEF Strike, Strikes
<1>8. Dated(report) /\ Dated(page) /\ Dated(spot)
  <2>1. report = NoStrike \/ report = Strike("report", EpochStart(s))
    BY DEF ReportStrike
  <2>2. page = NoStrike \/ page = Strike("page", EpochStart(s))
    BY DEF PageStrike
  <2>3. spot = NoStrike \/ \E t \in (market[s].due - Slack)..now : spot = Strike("spot", t)
    BY DEF SpotStrike
  <2> HIDE DEF Dated
  <2>4. QED BY <1>5, <1>6, <1>7, <2>1, <2>2, <2>3
<1>9. strike \in {report, page, spot}
  BY DEF OrElse
<1>10. QED BY <1>8, <1>9

\* The monitor begins, and registers with a coordinator.
LEMMA StrikeStep == ASSUME SessionInv, NEW s \in Symbol, StrikeFound(s) PROVE SessionInv'
<1>1. TypeOK /\ TimesOK(s) /\ CycleOK(s) /\ now \in Nat
  BY DEF SessionInv, TypeOK
<1>2. PICK report \in ReportStrike(s), page \in PageStrike(s), spot \in SpotStrike(s) :
        market' = [market EXCEPT
                     ![s].at = "monitor", ![s].due = EndOf(market[s].epoch),
                     ![s].strike = OrElse(report, OrElse(page, spot))]
  BY DEF StrikeFound
<1> DEFINE strike == OrElse(report, OrElse(page, spot))
           task == [market[s] EXCEPT !.at = "monitor", !.due = EndOf(market[s].epoch),
                                     !.strike = strike]
<1>3. /\ market[s].at = "feed" /\ traded' = [traded EXCEPT ![s] = market[s].epoch]
      /\ UNCHANGED <<now, configured, loop, due, until, cycles, sidecar, redeemed, slept,
                     carried>>
  BY DEF StrikeFound, InPhase
<1>4. /\ strike \in Strikes
      /\ strike.from # "none" => EpochStart(s) <= strike.of /\ strike.of <= now
  BY <1>3, StrikeDates
<1>5. /\ market \in [Symbol -> Tasks(now)] /\ market[s] \in Tasks(now)
      /\ market[s].epoch \in Nat /\ EndOf(market[s].epoch) \in Nat
  BY <1>1, TaskType, EndFacts
<1> HIDE DEF strike
<1>6. /\ task \in Tasks(now) /\ task.at = "monitor" /\ task.epoch = market[s].epoch
      /\ task.due = EndOf(market[s].epoch) /\ task.strike = strike
  BY <1>4, <1>5 DEF Tasks, Places, Running
<1>7. market' = [market EXCEPT ![s] = task]
  <2>1. market' = [market EXCEPT ![s].at = "monitor", ![s].due = EndOf(market[s].epoch),
                                 ![s].strike = strike]
    BY <1>2, Zenon DEF strike
  <2>2. QED BY <1>5, <2>1
<1> HIDE DEF task
<1>8. /\ market' \in [Symbol -> Tasks(now)] /\ market'[s] = task
      /\ \A q \in Symbol \ {s} : market'[q] = market[q]
  BY <1>1, <1>6, <1>7, TaskMoves
<1>9. traded \in [Symbol -> Nat \cup {Never}] /\ redeemed \in [Symbol -> Nat \cup {Never}]
  BY <1>1 DEF TypeOK
<1>10. /\ traded' \in [Symbol -> Nat \cup {Never}] /\ traded'[s] = market[s].epoch
       /\ \A q \in Symbol \ {s} : traded'[q] = traded[q]
  BY <1>3, <1>5, <1>9
<1>11. TimesOK(s)'
  BY <1>1, <1>3, <1>4, <1>6, <1>8 DEF TimesOK, EpochStart, Running
<1>12. CycleOK(s)'
  BY <1>1, <1>3, <1>5, <1>6, <1>8, <1>10 DEF CycleOK, Running
<1>13. QED BY <1>1, <1>3, <1>8, <1>9, <1>10, <1>11, <1>12, OthersKeep DEF TypeOK

\* The epoch of a monitor is over.
LEMMA MonitorEndsStep == ASSUME SessionInv, NEW s \in Symbol, MonitorEnds(s) PROVE SessionInv'
<1>1. TypeOK /\ TimesOK(s) /\ CycleOK(s) /\ now \in Nat
  BY DEF SessionInv, TypeOK
<1>2. /\ Goes(s, "leaving", now + Slack) /\ market[s].at = "monitor" /\ now >= market[s].due
      /\ UNCHANGED <<now, configured, loop, due, until, cycles, sidecar, traded, redeemed,
                     slept, carried>>
  BY DEF MonitorEnds, MonitorOver, InPhase
<1>3. now + Slack \in Nat /\ "leaving" \in Places
  BY <1>1, LengthAssumption DEF Places, Running
<1>4. /\ market' \in [Symbol -> Tasks(now)] /\ market'[s].at = "leaving"
      /\ market'[s].epoch = market[s].epoch
      /\ \A q \in Symbol \ {s} : market'[q] = market[q]
  BY <1>1, <1>2, <1>3, TaskGoes
<1>5. EndOf(market[s].epoch) <= now
  <2>1. market[s].due = EndOf(market[s].epoch) /\ market[s].due \in Nat
    BY <1>1, <1>2, TaskType DEF TimesOK
  <2>2. QED BY <1>1, <1>2, <2>1
<1>6. TimesOK(s)'
  BY <1>1, <1>2, <1>4, <1>5 DEF TimesOK, Running
<1>7. CycleOK(s)'
  BY <1>1, <1>2, <1>4 DEF CycleOK, Running
<1>8. QED BY <1>1, <1>2, <1>4, <1>6, <1>7, OthersKeep DEF TypeOK

\* The redeem job is queued.
LEMMA QueueStep == ASSUME SessionInv, NEW s \in Symbol, QueueRedeem(s) PROVE SessionInv'
<1>1. TypeOK /\ TimesOK(s) /\ CycleOK(s) /\ now \in Nat
  BY DEF SessionInv, TypeOK
<1>2. /\ redeemed' = [redeemed EXCEPT ![s] = market[s].epoch] /\ Ends(s, "done")
      /\ market[s].at = "leaving"
      /\ UNCHANGED <<now, configured, loop, due, until, cycles, sidecar, traded, slept,
                     carried>>
  BY DEF QueueRedeem, JobOf, InPhase
<1>3. /\ market' \in [Symbol -> Tasks(now)] /\ market'[s].at = "done"
      /\ market'[s].epoch = market[s].epoch
      /\ \A q \in Symbol \ {s} : market'[q] = market[q]
  BY <1>1, <1>2, TaskEnds
<1>4. /\ traded \in [Symbol -> Nat \cup {Never}] /\ redeemed \in [Symbol -> Nat \cup {Never}]
      /\ market[s].epoch \in Nat
  BY <1>1, TaskType DEF TypeOK
<1>5. /\ redeemed' \in [Symbol -> Nat \cup {Never}] /\ redeemed'[s] = market[s].epoch
      /\ \A q \in Symbol \ {s} : redeemed'[q] = redeemed[q]
  BY <1>2, <1>4
<1>6. TimesOK(s)'
  BY <1>1, <1>2, <1>3, <1>5 DEF TimesOK, Running
<1>7. CycleOK(s)'
  BY <1>1, <1>2, <1>3, <1>5 DEF CycleOK, Running
<1>8. QED BY <1>1, <1>2, <1>3, <1>4, <1>5, <1>6, <1>7, OthersKeep DEF TypeOK

\* A market ends early, or raises.
LEMMA EarlyEndStep ==
  ASSUME SessionInv, NEW s \in Symbol, NoMarket(s) \/ MarketRaises(s) PROVE SessionInv'
<1>1. TypeOK /\ TimesOK(s) /\ CycleOK(s) /\ now \in Nat
  BY DEF SessionInv, TypeOK
<1>2. PICK at \in {"done", "failed"} :
        Ends(s, at) /\ (at = "done" => market[s].at = "resolve")
  BY DEF NoMarket, MarketRaises, InPhase
<1>3. UNCHANGED <<now, configured, loop, due, until, cycles, sidecar, traded, redeemed,
                  slept, carried>>
  BY DEF NoMarket, MarketRaises
<1>4. /\ market' \in [Symbol -> Tasks(now)] /\ market'[s].at = at
      /\ market'[s].epoch = market[s].epoch
      /\ \A q \in Symbol \ {s} : market'[q] = market[q]
  BY <1>1, <1>2, TaskEnds
<1>5. TimesOK(s)'
  BY <1>1, <1>3, <1>4 DEF TimesOK, Running
<1>6. CycleOK(s)'
  <2>1. traded[s] \in Nat \cup {Never} /\ market[s].epoch \in Nat
    BY <1>1, TaskType
  <2>2. ASSUME ~carried, at = "done" PROVE traded[s] # market[s].epoch
    BY <1>1, <1>2, <2>1, <2>2 DEF CycleOK, Never
  <2>3. QED BY <1>1, <1>3, <1>4, <2>2 DEF CycleOK, Running
<1>7. QED BY <1>1, <1>3, <1>4, <1>5, <1>6, OthersKeep DEF TypeOK

-----------------------------------------------------------------------------
(* The loop.                                                                *)

\* The first cycle, or the next: every symbol is asked about its new epoch.
LEMMA CycleStep == ASSUME SessionInv, StartCycle PROVE SessionInv'
<1>1. TypeOK /\ LoopOK /\ now \in Nat /\ until \in Nat /\ until <= now
      /\ \A s \in Symbol : TimesOK(s) /\ CycleOK(s)
  BY DEF SessionInv, TypeOK, LoopOK, StartCycle
<1>2. /\ loop' = "cycle" /\ until' = EndOf(EpochOf(now)) /\ slept' = Never
      /\ UNCHANGED <<now, configured, due, cycles, traded, redeemed, carried>>
  BY DEF StartCycle
<1>3. EpochOf(now) \in Nat /\ EndOf(EpochOf(now)) \in Nat /\ now < EndOf(EpochOf(now))
  BY <1>1, EpochFacts, EndFacts
<1>4. sidecar' \in {"off", "running", "done", "failed"}
  BY <1>3 DEF StartCycle
<1>5. ASSUME NEW s \in Symbol
      PROVE  /\ market'[s] \in Tasks(now)
             /\ market'[s].at \in {"stagger", "off"}
             /\ market'[s].at = "stagger" => market'[s].epoch = EpochOf(now)
  <2>1. CASE s \in DOMAIN delay
    <3>1. delay[s] \in Nat
      BY <1>1, <2>1, DelayAssumption DEF TypeOK
    <3>2. market'[s] = [at |-> "stagger", epoch |-> EpochOf(now), due |-> now + delay[s],
                        strike |-> NoStrike]
      BY <2>1 DEF StartCycle
    <3>3. QED BY <1>1, <1>3, <3>1, <3>2 DEF Tasks, Places, Strikes, NoStrike
  <2>2. CASE s \notin DOMAIN delay
    <3>1. market'[s] = Off
      BY <2>2 DEF StartCycle
    <3>2. QED BY <1>3, <3>1 DEF Off, Tasks, Places, Strikes, NoStrike
  <2>3. QED BY <2>1, <2>2
<1>6. market' \in [Symbol -> Tasks(now)]
  BY <1>5 DEF StartCycle
<1>7. TypeOK'
  BY <1>1, <1>2, <1>3, <1>4, <1>6
  DEF TypeOK, configured, Tasks, Places, Running, Strikes
<1>8. LoopOK'
  BY <1>2 DEF LoopOK
<1>9. ASSUME NEW s \in Symbol PROVE TimesOK(s)'
  BY <1>1, <1>2, <1>5 DEF TimesOK, Running
<1>10. ASSUME NEW s \in Symbol PROVE CycleOK(s)'
  <2>1. traded[s] \in Nat \cup {Never}
    BY <1>1, TaskType
  <2>2. ASSUME ~carried, traded[s] # Never
        PROVE  EndOf(traded[s]) <= EndOf(EpochOf(now)) /\ traded[s] < EpochOf(now)
    <3>1. traded[s] \in Nat /\ EndOf(traded[s]) <= until
      BY <1>1, <2>1, <2>2 DEF CycleOK
    <3>2. EndOf(traded[s]) \in Nat
      BY <3>1, EndFacts
    <3>3. EndOf(traded[s]) <= now
      BY <1>1, <3>1, <3>2
    <3>4. QED BY <1>1, <1>3, <3>1, <3>2, <3>3, EndedBefore
  <2>3. ~carried => traded[s] < EpochOf(now)
    BY <1>3, <2>1, <2>2 DEF Never
  <2>4. QED BY <1>2, <1>5, <2>2, <2>3 DEF CycleOK, Running
<1>11. QED BY <1>7, <1>8, <1>9, <1>10 DEF SessionInv

\* What the loop and the btc monitor do beside the markets.
LEMMA BesideKeeps ==
  ASSUME SessionInv, UNCHANGED <<now, configured, until, markets, carried>>,
         TypeOK', LoopOK'
  PROVE  SessionInv'
<1>1. ASSUME NEW s \in Symbol PROVE TimesOK(s)' /\ CycleOK(s)'
  BY <1>1 DEF SessionInv, TimesOK, CycleOK, EpochStart, markets
<1>2. QED BY <1>1 DEF SessionInv

\* The steps of the start-up, the loop and the btc monitor.
LEMMA LoopStep ==
  ASSUME SessionInv,
         \/ NoWallet \/ ClientReady \/ ProbeRaises \/ NoTargets \/ Started
         \/ KeepWaiting \/ NoWindows \/ Gather \/ CycleEnds \/ SidecarEnds \/ SidecarRaises
  PROVE  SessionInv'
<1>1. TypeOK /\ LoopOK /\ now \in Nat /\ until \in Nat /\ due \in Nat /\ cycles \in Nat
      /\ sidecar \in {"off", "running", "done", "failed"}
  BY DEF SessionInv, TypeOK
<1>2. UNCHANGED <<now, configured, until, markets, carried>>
  BY DEF NoWallet, ClientReady, ProbeRaises, NoTargets, Started, KeepWaiting, NoWindows,
         Gather, CycleEnds, SidecarEnds, SidecarRaises, markets
<1>3. CASE NoWallet \/ ClientReady \/ ProbeRaises \/ NoTargets
  <2>1. /\ loop' \in {"failed", "probe", "ended"} /\ loop \in {"startup", "probe"}
        /\ UNCHANGED <<due, cycles, sidecar, slept>>
    BY <1>3 DEF NoWallet, ClientReady, ProbeRaises, NoTargets
  <2>2. TypeOK'
    BY <1>1, <1>2, <2>1 DEF TypeOK, configured, markets
  <2>3. LoopOK'
    BY <1>1, <1>2, <2>1 DEF LoopOK
  <2>4. QED BY <1>2, <2>2, <2>3, BesideKeeps
<1>4. CASE Started
  <2>1. /\ loop' = "window" /\ loop = "probe" /\ due' = now
        /\ UNCHANGED <<cycles, sidecar, slept>>
    BY <1>4 DEF Started
  <2>2. TypeOK'
    BY <1>1, <1>2, <2>1 DEF TypeOK, configured, markets
  <2>3. LoopOK'
    BY <1>1, <1>2, <2>1 DEF LoopOK
  <2>4. QED BY <1>2, <2>2, <2>3, BesideKeeps
<1>5. CASE KeepWaiting
  <2>1. /\ loop' = "window" /\ loop = "window" /\ now = due /\ due' = now + LogInterval
        /\ slept' \in {now, slept} /\ UNCHANGED <<cycles, sidecar>>
    BY <1>5 DEF KeepWaiting, Sleep
  <2>2. TypeOK'
    BY <1>1, <1>2, <2>1, LengthAssumption DEF TypeOK, configured, markets
  <2>3. LoopOK'
    BY <1>1, <1>2, <2>1, LengthAssumption DEF LoopOK
  <2>4. QED BY <1>2, <2>2, <2>3, BesideKeeps
<1>6. CASE NoWindows
  <2>1. /\ loop' = "failed" /\ loop = "window" /\ UNCHANGED <<due, cycles, sidecar, slept>>
    BY <1>6 DEF NoWindows
  <2>2. TypeOK'
    BY <1>1, <1>2, <2>1 DEF TypeOK, configured, markets
  <2>3. LoopOK'
    BY <1>1, <1>2, <2>1 DEF LoopOK
  <2>4. QED BY <1>2, <2>2, <2>3, BesideKeeps
<1>7. CASE Gather
  <2>1. loop' = "closing" /\ due' = now + Slack /\ UNCHANGED <<cycles, sidecar, slept>>
    BY <1>7 DEF Gather
  <2>2. TypeOK'
    BY <1>1, <1>2, <2>1, LengthAssumption DEF TypeOK, configured, markets
  <2>3. LoopOK'
    BY <2>1 DEF LoopOK
  <2>4. QED BY <1>2, <2>2, <2>3, BesideKeeps
<1>8. CASE CycleEnds
  <2>1. CASE sidecar = "failed"
    <3>1. loop' = "failed" /\ UNCHANGED <<due, cycles, sidecar, slept>>
      BY <1>8, <2>1 DEF CycleEnds
    <3>2. TypeOK'
      BY <1>1, <1>2, <3>1 DEF TypeOK, configured, markets
    <3>3. LoopOK'
      BY <2>1, <3>1 DEF LoopOK
    <3>4. QED BY <1>2, <3>2, <3>3, BesideKeeps
  <2>2. CASE sidecar # "failed"
    <3>1. /\ cycles' = cycles + 1 /\ loop' \in {"ended", "window"} /\ due' = TailEnd
          /\ sidecar' = "off" /\ UNCHANGED slept
      BY <1>8, <2>2 DEF CycleEnds
    <3>2. due' \in Nat /\ until <= due'
      BY <1>1, <3>1, LengthAssumption DEF TailEnd
    <3>3. TypeOK'
      BY <1>1, <1>2, <3>1, <3>2 DEF TypeOK, configured, markets
    <3>4. LoopOK'
      BY <1>2, <3>1, <3>2 DEF LoopOK
    <3>5. QED BY <1>2, <3>3, <3>4, BesideKeeps
  <2>3. QED BY <2>1, <2>2
<1>9. CASE SidecarEnds \/ SidecarRaises
  <2>1. /\ sidecar = "running" /\ UNCHANGED <<loop, due, cycles, slept>>
        /\ sidecar' \in {"done", "failed"}
    BY <1>1, <1>9 DEF SidecarEnds, SidecarRaises
  <2>2. TypeOK'
    BY <1>1, <1>2, <2>1 DEF TypeOK, configured, markets
  <2>3. LoopOK'
    BY <1>1, <1>2, <2>1 DEF LoopOK
  <2>4. QED BY <1>2, <2>2, <2>3, BesideKeeps
<1>10. QED BY <1>3, <1>4, <1>5, <1>6, <1>7, <1>8, <1>9

\* The run is interrupted.
LEMMA InterruptStep == ASSUME SessionInv, Interrupt PROVE SessionInv'
<1>1. TypeOK /\ now \in Nat /\ \A s \in Symbol : TimesOK(s) /\ CycleOK(s)
  BY DEF SessionInv, TypeOK
<1>2. /\ loop' = "ended" /\ sidecar' = "off"
      /\ UNCHANGED <<now, configured, due, until, cycles, traded, redeemed, slept, carried>>
      /\ market' = [s \in Symbol |-> Off]
  BY DEF Interrupt
<1>3. Off \in Tasks(now) /\ Off.at = "off"
  BY <1>1, EpochFacts DEF Off, Tasks, Places, Strikes, NoStrike
<1>4. market' \in [Symbol -> Tasks(now)] /\ \A s \in Symbol : market'[s].at = "off"
  BY <1>2, <1>3
<1>5. TypeOK'
  BY <1>1, <1>2, <1>4 DEF TypeOK, configured, Tasks, Places, Running, Strikes
<1>6. LoopOK'
  BY <1>2 DEF LoopOK
<1>7. ASSUME NEW s \in Symbol PROVE TimesOK(s)' /\ CycleOK(s)'
  BY <1>1, <1>2, <1>4 DEF TimesOK, CycleOK, Running
<1>8. QED BY <1>5, <1>6, <1>7 DEF SessionInv

\* Time passes.
LEMMA TickStep == ASSUME SessionInv, Tick PROVE SessionInv'
<1>1. TypeOK /\ LoopOK /\ now \in Nat /\ \A s \in Symbol : TimesOK(s) /\ CycleOK(s)
  BY DEF SessionInv, TypeOK
<1>2. /\ now' = now + 1
      /\ UNCHANGED <<configured, loop, due, until, cycles, markets, sidecar, slept, carried>>
  BY DEF Tick
<1>3. now' \in Nat /\ EpochOf(now) \in Nat /\ EpochOf(now') \in Nat
      /\ EpochOf(now) <= EpochOf(now')
  BY <1>1, <1>2, EpochFacts, EpochGrows
<1>4. market' \in [Symbol -> Tasks(now')]
  <2>1. ASSUME NEW s \in Symbol PROVE market[s] \in Tasks(now')
    BY <1>1, <1>3, TaskType DEF Tasks
  <2>2. market \in [Symbol -> Tasks(now')]
    BY <1>1, <2>1 DEF TypeOK
  <2>3. QED BY <1>2, <2>2 DEF markets
<1>5. TypeOK'
  BY <1>1, <1>2, <1>3, <1>4
  DEF TypeOK, configured, markets, Tasks, Places, Running, Strikes
<1>6. LoopOK'
  BY <1>1, <1>2 DEF LoopOK
<1>7. ASSUME NEW s \in Symbol PROVE TimesOK(s)'
  <2>1. UNCHANGED <<market, redeemed>>
    BY <1>2 DEF markets
  <2>2. /\ redeemed[s] \in Nat \cup {Never} /\ market[s].epoch \in Nat
        /\ market[s].strike \in Strikes
    BY <1>1, TaskType
  <2>3. redeemed[s] # Never => EndOf(redeemed[s]) <= now'
    <3>1. ASSUME redeemed[s] # Never PROVE EndOf(redeemed[s]) <= now'
      <4>1. EndOf(redeemed[s]) <= now /\ EndOf(redeemed[s]) \in Nat
        BY <1>1, <2>2, <3>1, EndFacts DEF TimesOK
      <4>2. QED BY <1>1, <1>2, <4>1
    <3>2. QED BY <3>1
  <2>4. market[s].at = "leaving" => EndOf(market[s].epoch) <= now'
    <3>1. EndOf(market[s].epoch) \in Nat
      BY <2>2, EndFacts
    <3>2. QED BY <1>1, <1>2, <3>1 DEF TimesOK
  <2>5. market[s].at = "monitor" /\ market[s].strike.from # "none" =>
          EpochStart(s) <= market[s].strike.of /\ market[s].strike.of <= now'
    <3>1. market[s].strike.of \in Nat
      BY <2>2 DEF Strikes
    <3>2. QED BY <1>1, <1>2, <3>1 DEF TimesOK
  <2>6. QED BY <1>1, <2>1, <2>3, <2>4, <2>5 DEF TimesOK, EpochStart
<1>8. ASSUME NEW s \in Symbol PROVE CycleOK(s)'
  BY <1>1, <1>2 DEF CycleOK, markets
<1>9. QED BY <1>5, <1>6, <1>7, <1>8 DEF SessionInv

-----------------------------------------------------------------------------
\* The invariant holds initially.
LEMMA SessionInit == Init => SessionInv
<1> SUFFICES ASSUME Init PROVE SessionInv
  OBVIOUS
<1>1. now \in Nat /\ EpochOf(now) \in Nat
  BY LengthAssumption, EpochFacts DEF Init
<1>2. Off \in Tasks(now) /\ Off.at = "off"
  BY <1>1 DEF Off, Tasks, Places, Strikes, NoStrike
<1>3. market \in [Symbol -> Tasks(now)] /\ \A s \in Symbol : market[s].at = "off"
  BY <1>2 DEF Init
<1>4. TypeOK
  BY <1>1, <1>3 DEF Init, TypeOK, Tasks, Places, Running, Strikes
<1>5. LoopOK
  BY DEF Init, LoopOK
<1>6. ASSUME NEW s \in Symbol PROVE TimesOK(s) /\ CycleOK(s)
  BY <1>3 DEF Init, TimesOK, CycleOK, Running
<1>7. QED BY <1>4, <1>5, <1>6 DEF SessionInv

\* Every step keeps the invariant.
LEMMA SessionStep == SessionInv /\ [Next]_vars => SessionInv'
<1> SUFFICES ASSUME SessionInv, [Next]_vars PROVE SessionInv'
  OBVIOUS
<1>1. ASSUME NEW s \in Symbol, Market(s) PROVE SessionInv'
  BY <1>1, BeginStep, EarlyEndStep, ResolvedStep, StrikeStep, MonitorEndsStep, QueueStep
  DEF Market
<1>2. CASE StartCycle
  BY <1>2, CycleStep
<1>3. CASE \/ NoWallet \/ ClientReady \/ ProbeRaises \/ NoTargets \/ Started
           \/ KeepWaiting \/ NoWindows \/ Gather \/ CycleEnds \/ SidecarEnds \/ SidecarRaises
  BY <1>3, LoopStep
<1>4. CASE Interrupt
  BY <1>4, InterruptStep
<1>5. CASE Tick
  BY <1>5, TickStep
<1>6. CASE UNCHANGED vars
  BY <1>6 DEF vars, configured, markets, SessionInv, TypeOK, LoopOK, TimesOK, CycleOK,
              EpochStart
<1>7. QED BY <1>1, <1>2, <1>3, <1>4, <1>5, <1>6 DEF Next

\* It is an invariant.
LEMMA SessionInvariant == Spec => []SessionInv
BY SessionInit, SessionStep, PTL DEF Spec

-----------------------------------------------------------------------------
\* Loop, market tasks and btc monitor keep their types; no task has an epoch
\* that has not begun.
THEOREM TypeCorrect == Spec => []TypeOK
<1>1. SessionInv => TypeOK
  BY DEF SessionInv
<1>2. QED BY <1>1, SessionInvariant, PTL

\* The strike a monitor trades with is one of its own epoch, for any delay, and
\* however long the requests take.
THEOREM StrikeIsOfTheEpoch == Spec => []StrikeOfTheEpoch
<1>1. SessionInv => StrikeOfTheEpoch
  <2> SUFFICES ASSUME SessionInv, NEW s \in Symbol, market[s].at = "monitor",
                      now < market[s].due, market[s].strike.from # "none"
               PROVE  EpochOf(market[s].strike.of) = market[s].epoch
    BY DEF StrikeOfTheEpoch
  <2>1. TypeOK /\ TimesOK(s) /\ now \in Nat
    BY DEF SessionInv, TypeOK
  <2>2. /\ market[s].epoch \in Nat /\ market[s].strike.of \in Nat
        /\ EndOf(market[s].epoch) \in Nat
    BY <2>1, TaskType, EndFacts DEF Strikes
  <2>3. /\ market[s].epoch * Interval <= market[s].strike.of
        /\ market[s].strike.of <= now /\ now < EndOf(market[s].epoch)
    BY <2>1 DEF TimesOK, EpochStart
  <2>4. market[s].strike.of < EndOf(market[s].epoch)
    BY <2>1, <2>2, <2>3
  <2>5. QED BY <2>2, <2>3, <2>4, EpochUnique
<1>2. QED BY <1>1, SessionInvariant, PTL

\* What was traded is queued for its redemption, for any number of cycles.
THEOREM TradesAreQueued == Spec => []TradedIsQueued
<1>1. SessionInv => TradedIsQueued
  <2> SUFFICES ASSUME SessionInv, ~carried, NEW s \in DOMAIN delay,
                      market[s].at = "done", traded[s] = market[s].epoch
               PROVE  redeemed[s] = market[s].epoch
    BY DEF TradedIsQueued
  <2>1. s \in Symbol
    BY SymbolAssumption DEF SessionInv, TypeOK
  <2>2. QED BY <2>1 DEF SessionInv, CycleOK
<1>2. QED BY <1>1, SessionInvariant, PTL

\* No epoch of a symbol gets a second redeem job, for any delays and cycles.
THEOREM OneJob == Spec => OneJobPerEpoch
<1> DEFINE Step == \A s \in Symbol :
                     market[s].at = "leaving" /\ market'[s].at = "done" =>
                       redeemed[s] < market[s].epoch
<1>1. SessionInv => Step
  BY DEF SessionInv, TimesOK, Running
<1>2. SessionInv /\ [Next]_vars => [Step]_vars
  BY <1>1
<1>3. QED BY <1>2, SessionInvariant, PTL DEF Spec, OneJobPerEpoch

\* No epoch of a symbol gets a second coordinator unless a delay carries it over.
THEOREM OneCoordinator == Spec => OneCoordinatorPerEpoch
<1> DEFINE Step == \A s \in Symbol :
                     market[s].at = "feed" /\ market'[s].at = "monitor" /\ ~carried
                       => traded[s] < market[s].epoch
<1>1. SessionInv => Step
  BY DEF SessionInv, CycleOK
<1>2. SessionInv /\ [Next]_vars => [Step]_vars
  BY <1>1
<1>3. QED BY <1>2, SessionInvariant, PTL DEF Spec, OneCoordinatorPerEpoch

\* Only the btc monitor and a schedule without a weekday, without a window or with
\* a start that is no time of a day end a run that has begun.
THEOREM RunGoesOn == Spec => RunSurvives
<1> DEFINE Step == loop \notin {"startup", "probe"} /\ loop' = "failed" =>
                     \/ sidecar = "failed" \/ schedule.weekdays = {} \/ schedule.windows = {}
                     \/ \E w \in schedule.windows : ~w.isTime
<1>1. ASSUME SessionInv, [Next]_vars, loop \notin {"startup", "probe"}, loop' = "failed",
             vars' # vars
      PROVE  \/ sidecar = "failed" \/ schedule.weekdays = {} \/ schedule.windows = {}
             \/ \E w \in schedule.windows : ~w.isTime
  <2>1. schedule \in Schedules /\ now \in Nat /\ LoopOK
    BY <1>1 DEF SessionInv, TypeOK
  <2>2. CASE NoWindows
    BY <2>1, <2>2, WindowAhead DEF NoWindows, SearchRaises, StartsInDay
  <2>3. CASE CycleEnds
    BY <1>1, <2>3 DEF CycleEnds
  <2>4. CASE SidecarEnds \/ SidecarRaises
    BY <1>1, <2>1, <2>4 DEF SidecarEnds, SidecarRaises, LoopOK
  <2>5. ASSUME NEW s \in Symbol, Market(s) PROVE FALSE
    BY <1>1, <2>5 DEF Market, Begin, NoMarket, Resolved, StrikeFound, MonitorEnds,
                      QueueRedeem, MarketRaises, InPhase
  <2>6. CASE \/ NoWallet \/ ClientReady \/ ProbeRaises \/ NoTargets \/ Started \/ KeepWaiting
             \/ StartCycle \/ Gather \/ Interrupt \/ Tick
    BY <1>1, <2>6 DEF NoWallet, ClientReady, ProbeRaises, NoTargets, Started, KeepWaiting,
                      StartCycle, Gather, Interrupt, Tick
  <2>7. QED BY <1>1, <2>2, <2>3, <2>4, <2>5, <2>6 DEF Next
<1>2. SessionInv /\ [Next]_vars => [Step]_vars
  BY <1>1
<1>3. QED BY <1>2, SessionInvariant, PTL DEF Spec, RunSurvives

=============================================================================
