---------------------------- MODULE BalanceCache ----------------------------
(***************************************************************************)
(* The balances a running market sees: the refresh at the end of every     *)
(* tick of monitor_orderbook_until_epoch_end in execution/executor.py,     *)
(* with its interval, its requests by the user channel and its timeout,    *)
(* and below it ClobClient.fetch_conditional_outcome_balances_shares in    *)
(* execution/clob_client.py: a read of the chain, and behind it, under a   *)
(* lock, a read of the CLOB with a cache, a throttle and a back-off that   *)
(* all markets share.                                                      *)
(*                                                                         *)
(* A balance is TRUE for some shares and FALSE for none; holdings change   *)
(* at any time, and a request may find either.  Every time is an age in    *)
(* ticks that stops growing where no test tells it apart.  A request sees  *)
(* the holding of the moment it is sent and is answered, or given up by    *)
(* the HTTP client, within CallMax ticks.                                  *)
(***************************************************************************)
EXTENDS Integers

CONSTANTS
  Market,      \* the markets, each with its pair of tokens
  Monitored,   \* the markets whose monitor is running
  Tasks,       \* the markets whose buy task or exit refreshes the balances
  Channels,    \* the markets with a user channel
  PollIv,      \* balance_poll_iv, the monitors' interval and the client's min_poll_s
  ForceMin,    \* bal_force_min_s
  MaxAge,      \* _CONDITIONAL_BALANCE_CACHE_MAX_AGE_S
  BackoffBase, \* _CONDITIONAL_BALANCE_BACKOFF_BASE_S
  BackoffMax,  \* _CONDITIONAL_BALANCE_BACKOFF_MAX_S
  CallMax      \* bound: the time a request may take

ASSUME MarketAssumption ==
  Monitored \subseteq Market /\ Tasks \subseteq Market /\ Channels \subseteq Monitored
ASSUME TimeAssumption ==
  /\ PollIv \in Nat \ {0} /\ ForceMin \in Nat /\ CallMax \in Nat
  /\ MaxAge \in Nat /\ PollIv <= MaxAge
  /\ BackoffBase \in Nat \ {0} /\ BackoffMax \in Nat /\ BackoffBase <= BackoffMax

\* The monitor of a market reads under a timeout, its buy task does not.
Reader == (Monitored \X {"monitor"}) \cup (Tasks \X {"task"})

VARIABLES
  cache,     \* _cond_balance_cache
  lastAny,   \* the age of _cond_balance_last_any_mono
  pause,     \* the back-off after the next failure, doubled by each of _cond_balance_pause
  backoff,   \* what is left until _cond_balance_backoff_until
  lock,      \* _cond_balance_lock: its holder, or NoReader
  reader,    \* where each call of fetch_conditional_outcome_balances_shares stands
  requested, \* _balance_refresh_requested of the user channel's store
  lastPoll,  \* the age of last_balance_poll_mono
  lastForce, \* the age of last_force_balance_mono
  owed,      \* history: a trade was reported and no refresh has begun since
  tooOld,    \* history: a reader was handed shares older than MaxAge + CallMax
  asked      \* history: the time since the CLOB last answered for the market

client  == <<cache, lastAny, pause, backoff, lock>>
monitor == <<requested, lastPoll, lastForce, owed>>
vars    == <<client, reader, monitor, tooOld, asked>>

NoReader == <<"no", "reader">>
Idle     == [at |-> "idle", took |-> 0]
NoEntry  == [known |-> FALSE, shares |-> FALSE, age |-> 0, asOf |-> 0]

\* The ages beyond which nothing changes.
Limit == MaxAge + CallMax + 1
Older(age, limit) == IF age < limit THEN age + 1 ELSE limit

Init ==
  /\ cache = [m \in Market |-> NoEntry]
  /\ lastAny = PollIv
  /\ pause = BackoffBase /\ backoff = 0
  /\ lock = NoReader
  /\ reader = [r \in Reader |-> Idle]
  /\ requested = [m \in Monitored |-> FALSE]
  /\ lastPoll = [m \in Monitored |-> 0]
  /\ lastForce = [m \in Monitored |-> ForceMin]
  /\ owed = [m \in Monitored |-> FALSE]
  /\ tooOld = FALSE
  /\ asked = [m \in Market |-> PollIv]

-----------------------------------------------------------------------------
(* The cache.                                                               *)

\* Mutant: the age of an entry is not looked at.
Cached_Any(m, age) == cache[m].known

\* _cached_conditional_pair has a value.
Cached(m, age) == cache[m].known /\ cache[m].age <= age

\* The entry of the last poll interval, of this market and of any.
Recent(m) == Cached(m, PollIv) /\ lastAny < PollIv

\* _store_conditional_pair and _cond_balance_last_any_mono.
Store(m, shares, took) ==
  /\ cache' = [cache EXCEPT ![m] =
                 [known |-> TRUE, shares |-> shares, age |-> 0, asOf |-> took]]
  /\ lastAny' = 0

\* The call ends with shares of that age, or with none.
Return(r, shares, asOf) ==
  /\ reader' = [reader EXCEPT ![r] = Idle]
  /\ tooOld' = (tooOld \/ (shares /\ asOf > MaxAge + CallMax))

\* The monitor keeps the balance it has.
ReturnNothing(r) == reader' = [reader EXCEPT ![r] = Idle] /\ UNCHANGED tooOld

\* `return self._cached_conditional_pair(...)' with the long age.
ReturnCached(r) ==
  LET m == r[1] IN
  IF Cached(m, MaxAge) THEN Return(r, cache[m].shares, cache[m].asOf) ELSE ReturnNothing(r)

\* Mutant: no maximum.
RegisterFailure_Unbounded == backoff' = pause /\ pause' = 2 * pause

\* _register_conditional_balance_failure: the pause doubles up to the maximum.
RegisterFailure ==
  /\ backoff' = pause
  /\ pause' = IF 2 * pause < BackoffMax THEN 2 * pause ELSE BackoffMax

Asks(r, at) ==
  reader' = [reader EXCEPT ![r] = [at |-> at, took |-> 0]]

-----------------------------------------------------------------------------
(* What the readers may find, whatever the wallet holds: "none" is None.    *)

\* balanceOf on the chain: any error, or a node that is not connected, is None.
CtfBalances == {"some", "zero", "none"}

\* balance-allowance of the CLOB: an error is zero.
ClobBalances == {"some", "zero"}

\* /positions of the data API: an error is None, and so are two zeros.
DataPositions == {"some", "none"}

\* _fetch_conditional_pair_via_clob_sync: the CLOB, and if it finds nothing the
\* data API, and then the chain, whose None leaves the zero of the CLOB.
ClobSync ==
  {shares \in BOOLEAN :
     \E clob \in ClobBalances, data \in DataPositions, chain \in CtfBalances :
       shares = (clob = "some" \/ data = "some" \/ chain = "some")}

-----------------------------------------------------------------------------
(* fetch_conditional_outcome_balances_shares, without `sync'.               *)

\* The first read of the chain finds shares.
PrimaryAnswers(r) ==
  /\ reader[r].at = "primary"
  /\ Store(r[1], TRUE, reader[r].took)
  /\ Return(r, TRUE, reader[r].took)
  /\ UNCHANGED <<pause, backoff, lock, monitor, asked>>

\* It fails or finds none, which _fetch_conditional_pair_via_chain_primary does
\* not tell apart: the back-off and the throttle, and then the lock.
PrimaryIsEmpty(r) ==
  /\ reader[r].at = "primary"
  /\ IF backoff > 0 \/ Recent(r[1])
     THEN ReturnCached(r)
     ELSE /\ reader' = [reader EXCEPT ![r] = [Idle EXCEPT !.at = "waiting"]]
          /\ UNCHANGED tooOld
  /\ UNCHANGED <<client, monitor, asked>>

\* Mutant: what was tested before the lock is not tested again under it.
Spared_Unchecked(r) == FALSE

\* The tests under the lock: another reader may have failed or answered.
Spared(r) == backoff > 0 \/ Recent(r[1])

LockSpares(r) ==
  /\ reader[r].at = "waiting" /\ lock = NoReader /\ Spared(r)
  /\ ReturnCached(r)
  /\ UNCHANGED <<client, monitor, asked>>

LockTaken(r) ==
  /\ reader[r].at = "waiting" /\ lock = NoReader /\ ~Spared(r)
  /\ lock' = r
  /\ Asks(r, "second")
  /\ UNCHANGED <<cache, lastAny, pause, backoff, monitor, tooOld, asked>>

\* The second read of the chain, now under the lock.
SecondAnswers(r) ==
  /\ reader[r].at = "second"
  /\ pause' = BackoffBase
  /\ Store(r[1], TRUE, reader[r].took)
  /\ Return(r, TRUE, reader[r].took)
  /\ lock' = NoReader
  /\ UNCHANGED <<backoff, monitor, asked>>

\* Nobody else moves the back-off while the lock is held, so the third test of
\* it lets every reader pass.
SecondIsEmpty(r) ==
  /\ reader[r].at = "second"
  /\ Asks(r, "clob")
  /\ UNCHANGED <<client, monitor, tooOld, asked>>

\* Zero is an answer too, whatever the wallet holds.
ClobAnswers(r) ==
  /\ reader[r].at = "clob"
  /\ \E shares \in ClobSync :
       /\ Store(r[1], shares, reader[r].took)
       /\ Return(r, shares, reader[r].took)
  /\ pause' = BackoffBase
  /\ lock' = NoReader
  /\ asked' = [asked EXCEPT ![r[1]] = 0]
  /\ UNCHANGED <<backoff, monitor>>

\* The read raises.  The entry at hand is returned if it has shares; without,
\* the chain is asked a third time.
ClobRaises(r) ==
  LET m == r[1] IN
  /\ reader[r].at = "clob"
  /\ RegisterFailure
  /\ IF Cached(m, MaxAge) /\ cache[m].shares
     THEN Return(r, TRUE, cache[m].asOf) /\ lock' = NoReader
     ELSE /\ Asks(r, IF Cached(m, MaxAge) THEN "fallback" ELSE "blind")
          /\ UNCHANGED <<lock, tooOld>>
  /\ UNCHANGED <<cache, lastAny, monitor, asked>>

FallbackAnswers(r) ==
  /\ reader[r].at \in {"fallback", "blind"}
  /\ Store(r[1], TRUE, reader[r].took)
  /\ Return(r, TRUE, reader[r].took)
  /\ lock' = NoReader
  /\ UNCHANGED <<pause, backoff, monitor, asked>>

\* `return stale': the entry of before, which has no shares, or nothing.
FallbackIsEmpty(r) ==
  /\ \/ reader[r].at = "fallback" /\ Return(r, FALSE, 0)
     \/ reader[r].at = "blind" /\ ReturnNothing(r)
  /\ lock' = NoReader
  /\ UNCHANGED <<cache, lastAny, pause, backoff, monitor, asked>>

\* Mutant: the lock stays with the cancelled reader.
Released_Kept(r) == lock

\* `async with' releases the lock of a reader that is cancelled.
Released(r) == IF lock = r THEN NoReader ELSE lock

\* asyncio.wait_for cancels the refresh of a monitor.
TimesOut(r) ==
  /\ r[2] = "monitor" /\ reader[r].at # "idle"
  /\ lock' = Released(r)
  /\ ReturnNothing(r)
  /\ UNCHANGED <<cache, lastAny, pause, backoff, monitor, asked>>

-----------------------------------------------------------------------------
(* The monitors and the buy tasks.                                          *)

Forced(m) == requested[m] /\ lastForce[m] >= ForceMin

\* Mutant: only a request refreshes.
RefreshDue_Asked(m) == Forced(m)

RefreshDue(m) == Forced(m) \/ lastPoll[m] >= PollIv

\* The end of a tick: the request is consumed, also when it comes too early to
\* be followed.
MonitorTick(m) ==
  LET r == <<m, "monitor">> IN
  /\ reader[r].at = "idle"
  /\ requested' = [requested EXCEPT ![m] = FALSE]
  /\ lastForce' = [lastForce EXCEPT ![m] = IF Forced(m) THEN 0 ELSE @]
  /\ IF RefreshDue(m)
     THEN /\ Asks(r, "primary")
          /\ lastPoll' = [lastPoll EXCEPT ![m] = 0]
          /\ owed' = [owed EXCEPT ![m] = FALSE]
     ELSE UNCHANGED <<reader, lastPoll, owed>>
  /\ UNCHANGED <<client, tooOld, asked>>

\* refresh_balances of the coordinator, by the buy task or an exit.
TaskReads(r) ==
  /\ r[2] = "task" /\ reader[r].at = "idle"
  /\ Asks(r, "primary")
  /\ UNCHANGED <<client, monitor, tooOld, asked>>

\* UserChannelStore.apply_trade.
TradeReported(m) ==
  /\ m \in Channels /\ ~requested[m]
  /\ requested' = [requested EXCEPT ![m] = TRUE]
  /\ owed' = [owed EXCEPT ![m] = TRUE]
  /\ UNCHANGED <<client, reader, lastPoll, lastForce, tooOld, asked>>

InCall(r) == reader[r].at \notin {"idle", "waiting"}

\* A reader that can take the lock does so at once.
Tick ==
  /\ \A r \in Reader : /\ InCall(r) => reader[r].took < CallMax
                       /\ reader[r].at = "waiting" => lock # NoReader
  /\ cache' = [m \in Market |->
       IF ~cache[m].known THEN NoEntry
       ELSE [cache[m] EXCEPT !.age = Older(@, MaxAge + 1), !.asOf = Older(@, Limit)]]
  /\ lastAny' = Older(lastAny, PollIv)
  /\ backoff' = IF backoff > 0 THEN backoff - 1 ELSE 0
  /\ reader' = [r \in Reader |->
       IF InCall(r) THEN [reader[r] EXCEPT !.took = @ + 1] ELSE reader[r]]
  /\ lastPoll' = [m \in Monitored |-> Older(lastPoll[m], PollIv)]
  /\ lastForce' = [m \in Monitored |-> Older(lastForce[m], ForceMin)]
  /\ asked' = [m \in Market |-> Older(asked[m], PollIv)]
  /\ UNCHANGED <<pause, lock, requested, owed, tooOld>>

-----------------------------------------------------------------------------
Read(r) ==
  \/ PrimaryAnswers(r) \/ PrimaryIsEmpty(r)
  \/ LockSpares(r) \/ LockTaken(r)
  \/ SecondAnswers(r) \/ SecondIsEmpty(r)
  \/ ClobAnswers(r) \/ ClobRaises(r)
  \/ FallbackAnswers(r) \/ FallbackIsEmpty(r)

Next ==
  \/ \E r \in Reader : Read(r) \/ TimesOut(r) \/ TaskReads(r)
  \/ \E m \in Monitored : MonitorTick(m) \/ TradeReported(m)
  \/ Tick

Spec == Init /\ [][Next]_vars

\* Requests are answered or given up, monitors tick, time passes; a waiting
\* reader gets the lock in its turn (asyncio.Lock is first come, first served).
Fairness ==
  /\ \A r \in Reader : SF_vars(Read(r))
  /\ \A m \in Monitored : WF_vars(MonitorTick(m))
  /\ WF_vars(Tick)

FairSpec == Spec /\ Fairness

-----------------------------------------------------------------------------
TypeOK ==
  /\ cache \in [Market -> [known : BOOLEAN, shares : BOOLEAN,
                           age : 0..(MaxAge + 1), asOf : 0..Limit]]
  /\ lastAny \in 0..PollIv
  /\ pause \in 0..BackoffMax /\ backoff \in 0..BackoffMax
  /\ lock \in Reader \cup {NoReader}
  /\ reader \in [Reader -> [at : {"idle", "primary", "waiting", "second", "clob",
                                  "fallback", "blind"},
                            took : 0..CallMax]]
  /\ requested \in [Monitored -> BOOLEAN] /\ owed \in [Monitored -> BOOLEAN]
  /\ lastPoll \in [Monitored -> 0..PollIv] /\ lastForce \in [Monitored -> 0..ForceMin]
  /\ tooOld \in BOOLEAN
  /\ asked \in [Market -> 0..PollIv]

-----------------------------------------------------------------------------
(* Properties.                                                              *)

\* The CLOB is spared, whoever waits for the lock meanwhile: no reader begins a
\* read of it during the back-off, or for a market it has answered for within
\* the last poll interval.
ClobSpared ==
  [][\A r \in Reader :
       reader[r].at # "clob" /\ reader'[r].at = "clob" =>
         backoff = 0 /\ asked[r[1]] >= PollIv]_vars

\* Shares handed to a monitor were in the wallet at most the age of the cache
\* and one request ago, whichever of the reads they come from, a read that was
\* stored later than it was made included.
SharesAreYoung == ~tooOld

\* Every read ends, and so does every refresh of a monitor: neither a failure
\* nor a cancelled reader leaves the lock behind.
ReadsEnd == \A r \in Reader : reader[r].at # "idle" ~> reader[r].at = "idle"

\* After a trade the user channel has reported a refresh begins, also when the
\* request came too early to be followed and was thrown away.
TradeIsRead == \A m \in Channels : owed[m] ~> ~owed[m]

=============================================================================
