--------------------------- MODULE RedeemScheduler ---------------------------
(***************************************************************************)
(* The RedeemScheduler of execution/redeem_scheduler.py: a heap of jobs    *)
(* ordered by (scheduled_at, seq), one worker task that pops the jobs that *)
(* are due and runs redeem_positions_batch (execution/redeem.py) for each, *)
(* re-queueing a failed job; the market cycles of engine.py that schedule  *)
(* jobs; and the end of cli.py that drains the queue and shuts it down.    *)
(*                                                                         *)
(* The steps are the code between two awaits.  _wake and the one-second    *)
(* timeouts only decide how soon the worker looks again and are left to    *)
(* the interleaving, as are the sleeps before a retry of a busy wallet.    *)
(* An error of the relayer is the set of the two classifiers it matches,   *)
(* _is_wallet_busy_error and _is_rate_limit_error.                         *)
(***************************************************************************)
EXTENDS Integers, FiniteSets

CONSTANTS
  None,               \* no job is being executed
  Job,                \* the redeem jobs of the run
  Simulated,          \* those of a paper or dry run
  Slot,               \* [Job -> symbol_redeem_slot]
  Cycle,              \* [Job -> number of the cycle that schedules it]
  Waits,              \* redeem_async_enabled is false: schedule(wait=True)
  ConfiguredRetries,  \* redeem_max_retries as configured
  Delay, Gap,         \* redeem_delay_seconds, redeem_per_symbol_gap_seconds
  RetryGap,           \* redeem_retry_delay_seconds
  KeySets,            \* the sets of builder credentials the environment may hold
  Authorized,         \* those that passed the probe of the start-up
  BusyTries,          \* max_wallet_busy_retries (4 in the code)
  Lateness,           \* how late after epoch_end a cycle may schedule its job
  Horizon             \* from here on time passes only while the worker sleeps

\* `... or 5': a configured 0 is read as 5.
MaxRetries == IF ConfiguredRetries = 0 THEN 5 ELSE ConfiguredRetries

ASSUME NoneAssumption  == None \notin Job
ASSUME JobAssumption   == /\ Simulated \subseteq Job
                          /\ Slot \in [Job -> Nat] /\ Cycle \in [Job -> Nat]
ASSUME FlagAssumption  == Waits \in BOOLEAN
ASSUME RetryAssumption == ConfiguredRetries \in Nat /\ RetryGap \in Nat
ASSUME DelayAssumption == Delay \in Nat /\ Gap \in Nat /\ Lateness \subseteq Nat
ASSUME PoolAssumption  == (\A K \in KeySets : IsFiniteSet(K)) /\ BusyTries \in Nat \ {0}
ASSUME HorizonAssumption == Horizon \in Nat

VARIABLES
  keys,      \* the builder credentials of the environment, maybe none
  now,       \* the clock
  main,      \* where cli.py stands
  caller,    \* where each market cycle stands with its job
  heap,      \* _heap: entries [job, at, seq]
  seq,       \* _seq
  counted,   \* _pending_count
  active,    \* _running
  worker,    \* where _worker_loop stands
  current,   \* the job inside _execute_job
  place,     \* redeem_positions_batch: which credential, which busy try
  retries,   \* RedeemJob.retry_count
  done,      \* RedeemJob._done
  summary,   \* summary has a redeem_tx
  tx,        \* relayer: state of the last transaction taken for a job
  taken,     \* relayer: the running call has had its transaction taken
  calls      \* history: calls of _redeem_batch_via_relayer

vars == <<keys, now, main, caller, heap, seq, counted, active, worker, current, place,
          retries, done, summary, tx, taken, calls>>

jobState == <<retries, done, summary>>
queue    == <<heap, seq, counted>>

\* validated_builder_cred_pool, whose result is kept for the whole run: the
\* authorized credentials, or all of them when none is.  cli.py probes before it
\* starts the worker, so that what a probe raises ends the start-up, not a job;
\* of an environment without credentials it only warns.
Pool  == IF keys \cap Authorized = {} THEN keys ELSE keys \cap Authorized
Creds == Cardinality(Pool)

-----------------------------------------------------------------------------
Entry == [job : Job, at : Int, seq : Nat]

Earlier(e, f) == e.at < f.at \/ (e.at = f.at /\ e.seq < f.seq)

\* What heappop returns.
IsTop(e) == e \in heap /\ \A f \in heap \ {e} : Earlier(e, f)

Queued(j)  == \E e \in heap : e.job = j
Pending(j) == Queued(j) \/ current = j
Asked(j)   == caller[j] \in {"waiting", "back"}

\* _serial is locked while _execute_job awaits.
SerialLocked == worker \in {"relay", "backoff", "post"}

\* The property pending_count counts a queued job twice.
PendingCount == counted + Cardinality(heap)

Push(j, at) ==
  /\ seq' = seq + 1
  /\ heap' = heap \cup {[job |-> j, at |-> at, seq |-> seq + 1]}
  /\ counted' = counted + 1

Init ==
  /\ keys \in KeySets
  /\ now = 0
  /\ main = "cycles"
  /\ caller = [j \in Job |-> "monitor"]
  /\ heap = {} /\ seq = 0 /\ counted = 0
  /\ active = TRUE /\ worker = "loop"   \* cli.py starts the worker first
  /\ current = None
  /\ place = [cred |-> 1, try |-> 1]
  /\ retries = [j \in Job |-> 0]
  /\ done = [j \in Job |-> "none"]
  /\ summary = [j \in Job |-> FALSE]
  /\ tx = [j \in Job |-> "none"]
  /\ taken = FALSE
  /\ calls = [j \in Job |-> 0]

-----------------------------------------------------------------------------
(* The market cycles.  A cycle starts when those before it have returned.   *)

CycleRuns(j) ==
  /\ main = "cycles" /\ caller[j] = "monitor"
  /\ \A i \in Job : Cycle[i] < Cycle[j] => caller[i] \in {"back", "gone"}

\* schedule(job, wait=Waits); _schedule_at.
Schedule(j) ==
  /\ CycleRuns(j)
  /\ \E late \in Lateness : Push(j, now - late + Delay + Slot[j] * Gap)
  /\ caller' = [caller EXCEPT ![j] = IF Waits THEN "waiting" ELSE "back"]
  /\ done' = [done EXCEPT ![j] = IF Waits THEN "open" ELSE "none"]
  /\ UNCHANGED <<keys, now, main, active, worker, current, place, retries, summary, tx,
                 taken, calls>>

\* The future the caller awaits has been resolved.
ScheduleReturns(j) ==
  /\ caller[j] = "waiting" /\ done[j] = "set"
  /\ caller' = [caller EXCEPT ![j] = "back"]
  /\ UNCHANGED <<keys, now, main, queue, active, worker, current, place, jobState, tx, taken, calls>>

\* The market was not found, or the monitor failed: no job.
CycleFails(j) ==
  /\ CycleRuns(j)
  /\ caller' = [caller EXCEPT ![j] = "gone"]
  /\ UNCHANGED <<keys, now, main, queue, active, worker, current, place, jobState, tx, taken, calls>>

-----------------------------------------------------------------------------
(* cli.py: the end of _run_loop.                                            *)

\* The last cycle has ended, or the run is interrupted, which cancels the
\* cycles and the futures they await.
LeaveCycles ==
  /\ main = "cycles"
  /\ main' = "drain"
  /\ caller' = [j \in Job |-> IF caller[j] = "monitor" THEN "gone" ELSE
                              IF caller[j] = "waiting" THEN "back" ELSE caller[j]]
  /\ done' = [j \in Job |-> IF done[j] = "open" THEN "cancelled" ELSE done[j]]
  /\ UNCHANGED <<keys, now, queue, active, worker, current, place, retries, summary, tx,
                 taken, calls>>

\* Mutant: a job being executed is not waited for.
DrainDone_Unlocked == PendingCount = 0

\* The condition of drain's loop.
DrainDone == PendingCount = 0 /\ ~SerialLocked

\* drain returns; shutdown tells the worker to stop and awaits it.
DrainReturns ==
  /\ main = "drain" /\ DrainDone
  /\ main' = "shutdown"
  /\ active' = FALSE
  /\ UNCHANGED <<keys, now, caller, queue, worker, current, place, jobState, tx, taken, calls>>

\* Otherwise it wakes the worker, sleeps 0.25 s and looks again.
DrainPolls ==
  /\ main = "drain" /\ ~DrainDone
  /\ UNCHANGED vars

\* shutdown awaits the worker.
ShutdownReturns ==
  /\ main = "shutdown" /\ worker = "stopped"
  /\ main' = "ended"
  /\ UNCHANGED <<keys, now, caller, queue, active, worker, current, place, jobState, tx, taken, calls>>

-----------------------------------------------------------------------------
(* The worker.                                                              *)

Due(e) == worker = "loop" /\ IsTop(e) /\ e.at <= now

\* Mutant: a popped job stays counted.
Pop_Counted(e) ==
  /\ heap' = heap \ {e}
  /\ UNCHANGED <<seq, counted>>

Pop(e) ==
  /\ heap' = heap \ {e}
  /\ counted' = IF counted > 0 THEN counted - 1 ELSE 0
  /\ UNCHANGED seq

Resolve(j) == IF done[j] = "open" THEN [done EXCEPT ![j] = "set"] ELSE done

\* A job of a paper or dry run: no await at all.
RunSimulated(e) ==
  /\ Due(e) /\ e.job \in Simulated
  /\ Pop(e)
  /\ summary' = [summary EXCEPT ![e.job] = TRUE]
  /\ done' = Resolve(e.job)
  /\ UNCHANGED <<keys, now, main, caller, active, worker, current, place, retries, tx, taken, calls>>

\* One call of _redeem_batch_via_relayer, in a thread.
Call(j, cred, try) ==
  /\ place' = [cred |-> cred, try |-> try]
  /\ worker' = "relay"
  /\ taken' = FALSE
  /\ calls' = [calls EXCEPT ![j] = @ + 1]

StartJob(e) ==
  /\ Due(e) /\ e.job \notin Simulated /\ Creds > 0
  /\ Pop(e)
  /\ current' = e.job
  /\ Call(e.job, 1, 1)
  /\ UNCHANGED <<keys, now, main, caller, active, jobState, tx>>

\* Mutant: the worker returns with its first job.
JobEnds_Returns ==
  /\ worker' = "stopped"
  /\ current' = None
  /\ done' = Resolve(current)

\* _execute_job returns; the future is resolved, whatever came out of it.
JobEnds ==
  /\ worker' = "loop"
  /\ current' = None
  /\ done' = Resolve(current)

\* Mutant: one retry more than redeem_max_retries.
RetryLeft_OneMore(j) == retries[j] <= MaxRetries

RetryLeft(j) == retries[j] < MaxRetries

\* A pop and a push with no await between them.
Requeue(e, at) ==
  /\ seq' = seq + 1
  /\ heap' = (heap \ {e}) \cup {[job |-> e.job, at |-> at, seq |-> seq + 1]}
  /\ counted' = IF counted > 0 THEN counted ELSE 1

\* Without a credential redeem_positions_batch fails before its first await.
RunWithoutCreds(e) ==
  /\ Due(e) /\ e.job \notin Simulated /\ Creds = 0
  /\ IF RetryLeft(e.job)
     THEN /\ retries' = [retries EXCEPT ![e.job] = @ + 1]
          /\ Requeue(e, now + RetryGap)
     ELSE Pop(e) /\ UNCHANGED retries
  /\ done' = Resolve(e.job)
  /\ UNCHANGED <<keys, now, main, caller, active, worker, current, place, summary, tx,
                 taken, calls>>

\* redeem_positions_batch returned an error.
JobFailed ==
  /\ JobEnds
  /\ IF RetryLeft(current)
     THEN /\ retries' = [retries EXCEPT ![current] = @ + 1]
          /\ Push(current, now + RetryGap)
     ELSE UNCHANGED <<retries, queue>>
  /\ UNCHANGED <<place, summary, taken, calls>>

\* Mutant: the job is queued again whatever the call returned.
CallSucceeded_Requeue ==
  /\ summary' = [summary EXCEPT ![current] = TRUE]
  /\ worker' = "post"
  /\ Push(current, now + RetryGap)
  /\ UNCHANGED <<current, place, retries, done, taken, calls>>

\* The call returned a transaction hash: the batch has succeeded.
CallSucceeded ==
  /\ summary' = [summary EXCEPT ![current] = TRUE]
  /\ worker' = "post"
  /\ UNCHANGED <<queue, current, place, retries, done, taken, calls>>

\* The two loops of redeem_positions_batch after a call with error e.
CallFailed(e) ==
  IF "busy" \in e /\ place.try < BusyTries
  THEN /\ worker' = "backoff"
       /\ UNCHANGED <<queue, current, place, jobState, taken, calls>>
  ELSE IF "rate" \in e /\ place.cred < Creds
  THEN /\ Call(current, place.cred + 1, 1)
       /\ UNCHANGED <<queue, current, jobState>>
  ELSE JobFailed

BackoffOver ==
  /\ worker = "backoff"
  /\ Call(current, place.cred, place.try + 1)
  /\ UNCHANGED <<keys, now, main, caller, queue, active, current, jobState, tx>>

\* post_redeem_monitor_orderbooks is over, the export row is written.
PostOver ==
  /\ worker = "post"
  /\ JobEnds
  /\ UNCHANGED <<keys, now, main, caller, queue, active, place, retries, summary, tx, taken, calls>>

\* `while self._running or self._heap'.
WorkerStops ==
  /\ worker = "loop" /\ heap = {} /\ ~active
  /\ worker' = "stopped"
  /\ UNCHANGED <<keys, now, main, caller, queue, active, current, place, jobState, tx, taken, calls>>

-----------------------------------------------------------------------------
(* External: the relayer, and the chain behind it.                          *)

\* The relayer takes one action at a time for a deposit wallet.
RelayerTakes ==
  /\ worker = "relay" /\ ~taken
  /\ \A j \in Job : tx[j] # "pending"
  /\ tx' = [tx EXCEPT ![current] = "pending"]
  /\ taken' = TRUE
  /\ UNCHANGED <<keys, now, main, caller, queue, active, worker, current, place, jobState, calls>>

TxSettles(j) ==
  /\ tx[j] = "pending"
  /\ \E state \in {"mined", "failed"} : tx' = [tx EXCEPT ![j] = state]
  /\ UNCHANGED <<keys, now, main, caller, queue, active, worker, current, place, jobState,
                 taken, calls>>

\* The relayer refuses the action, or the call fails before it is submitted.
RelayerRefuses ==
  /\ worker = "relay" /\ ~taken
  /\ \E e \in SUBSET {"busy", "rate"} : CallFailed(e)
  /\ UNCHANGED <<keys, now, main, caller, active, tx>>

\* wait() has seen the transaction mined; or it has seen it fail, or given up
\* polling, and the hash the submission was answered with is returned.
RelayerAnswersHash ==
  /\ worker = "relay" /\ taken
  /\ CallSucceeded
  /\ UNCHANGED <<keys, now, main, caller, active, tx>>

\* There was no hash, or a poll raised, whatever its text is classified as.
RelayerAnswersNone ==
  /\ worker = "relay" /\ taken
  /\ \E e \in SUBSET {"busy", "rate"} : CallFailed(e)
  /\ UNCHANGED <<keys, now, main, caller, active, tx>>

\* Beyond Horizon only the sleep until the first entry is due takes time.
TimePasses ==
  /\ \/ now < Horizon
     \/ worker = "loop" /\ \E e \in heap : IsTop(e) /\ e.at > now
  /\ now' = now + 1
  /\ UNCHANGED <<keys, main, caller, queue, active, worker, current, place, jobState, tx,
                 taken, calls>>

RunOver ==
  /\ main = "ended"
  /\ UNCHANGED vars

-----------------------------------------------------------------------------
Cycles == \E j \in Job : Schedule(j) \/ ScheduleReturns(j) \/ CycleFails(j)

Worker ==
  \/ \E e \in heap : RunSimulated(e) \/ StartJob(e) \/ RunWithoutCreds(e)
  \/ BackoffOver \/ PostOver \/ WorkerStops

Answer == RelayerRefuses \/ RelayerAnswersHash \/ RelayerAnswersNone

Next ==
  \/ Cycles \/ LeaveCycles \/ DrainPolls \/ DrainReturns \/ ShutdownReturns
  \/ Worker \/ Answer
  \/ RelayerTakes \/ (\E j \in Job : TxSettles(j))
  \/ TimePasses \/ RunOver

\* The event loop runs the worker and cli.py; a call returns, since every
\* request of it has a timeout and wait() polls 30 times; time passes.
Fairness ==
  /\ WF_vars(Worker) /\ WF_vars(Answer) /\ WF_vars(TimePasses)
  /\ WF_vars(DrainReturns) /\ WF_vars(ShutdownReturns)

Spec     == Init /\ [][Next]_vars
FairSpec == Spec /\ Fairness

TypeOK ==
  /\ keys \in KeySets
  /\ now \in Nat
  /\ main \in {"cycles", "drain", "shutdown", "ended"}
  /\ caller \in [Job -> {"monitor", "waiting", "back", "gone"}]
  /\ heap \in SUBSET Entry
  /\ seq \in Nat /\ counted \in Nat
  /\ active \in BOOLEAN
  /\ worker \in {"loop", "relay", "backoff", "post", "stopped"}
  /\ current \in Job \cup {None}
  /\ place \in [cred : Nat \ {0}, try : 1..BusyTries]
  /\ retries \in [Job -> 0..MaxRetries]
  /\ done \in [Job -> {"none", "open", "set", "cancelled"}]
  /\ summary \in [Job -> BOOLEAN]
  /\ tx \in [Job -> {"none", "pending", "mined", "failed"}]
  /\ taken \in BOOLEAN
  /\ calls \in [Job -> Nat]

-----------------------------------------------------------------------------
(* Properties.                                                              *)

\* The counter drain relies on agrees with the heap at every await, through
\* pops and re-queues: it can neither keep drain
\* waiting for a job that is gone nor let it miss one.
CountedIsQueued == counted = Cardinality(heap)

\* No job is in the queue twice, or in the queue while it is executed: a retry
\* is pushed before _execute_job has returned.
QueuedOnce ==
  /\ \A e, f \in heap : e.job = f.job => e = f
  /\ \A e \in heap : e.job # current

\* A job that was reported redeemed is never executed again.
PaidOnce ==
  \A j \in Job : summary[j] => ~Queued(j) /\ (current = j => worker = "post")

\* The nested retries (queue, credentials, busy wallet) multiply to a bound.
CallBudget ==
  \A j \in Job : calls[j] <= (MaxRetries + 1) * Creds * BusyTries

\* shutdown is only called when nothing is queued or being executed, and
\* nothing gets there afterwards: no redeem is lost at the end of the run.
DrainedClean ==
  main \in {"shutdown", "ended"} => heap = {} /\ ~SerialLocked

\* Every queued job ends: redeemed, or given up after its retries.
JobSettles == \A j \in Job : Pending(j) ~> ~Pending(j)

\* "Wait until all queued and in-flight redeems complete": the wait ends.
DrainEnds == main = "drain" ~> main = "ended"

Status(j) ==
  IF current = j THEN "active"
  ELSE IF Queued(j) THEN "queued"
  ELSE IF summary[j] THEN "paid"
  ELSE IF Asked(j) THEN "dropped" ELSE "new"

Promise == INSTANCE RedeemQueue
           WITH Tries <- MaxRetries + 1, status <- [j \in Job |-> Status(j)],
                used <- [j \in Job |-> IF Status(j) = "dropped" THEN MaxRetries + 1
                                       ELSE retries[j]]

\* Heap, worker and relayer calls implement the abstract queue of RedeemQueue.
ImplementsQueue == Promise!Spec

-----------------------------------------------------------------------------
(* What comments of the code say and the code does not do.                  *)

\* redeem_scheduler.py:68: a failed job is re-queued.  Here: a call that ends
\* after its transaction has failed does not make the job a redeemed one.
FailedIsNotRedeemed ==
  [][\A j \in Job :
       (current = j /\ tx[j] = "failed" /\ taken /\ worker = "relay" /\ worker' # "relay")
         => ~summary'[j]]_vars

=============================================================================
