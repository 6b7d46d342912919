------------------------ MODULE RedeemSchedulerProofs ------------------------
(***************************************************************************)
(* Theorems about RedeemScheduler, for every set of jobs, every schedule,  *)
(* every delay and every number of retries, credentials and busy tries.    *)
(***************************************************************************)
EXTENDS RedeemScheduler, FiniteSetTheorems, TLAPS

\* The heap is finite, counted as it should be, and numbered up to seq, which
\* makes the entry of the next push a new one.
HeapOK ==
  /\ IsFiniteSet(heap)
  /\ counted = Cardinality(heap)
  /\ \A e \in heap : e.seq <= seq

\* There is a current job exactly while the worker awaits inside _execute_job;
\* a busy try is left when it backs off; a job whose monitor still runs is
\* nowhere; the worker monitors the books of a job that was paid; a call is made
\* with a credential there is.
JobsOK ==
  /\ current # None <=> SerialLocked
  /\ worker = "backoff" => place.try < BusyTries
  /\ \A j \in Job : caller[j] = "monitor" => ~Queued(j) /\ current # j /\ ~summary[j]
  /\ worker = "post" => summary[current]
  /\ worker \in {"relay", "backoff"} => place.cred <= Creds

\* The inductive invariant.
IInv == TypeOK /\ HeapOK /\ JobsOK /\ QueuedOnce /\ PaidOnce /\ DrainedClean

-----------------------------------------------------------------------------
\* There is a number of credentials to try.
LEMMA CredsType == ASSUME keys \in KeySets PROVE Creds \in Nat
<1>1. IsFiniteSet(keys) /\ Pool \subseteq keys
  BY PoolAssumption DEF Pool
<1>2. IsFiniteSet(Pool)
  BY <1>1, FS_Subset
<1>3. QED BY <1>2, FS_CardinalityType DEF Creds

\* The environment stays as it is, and with it the pool.
LEMMA SameCreds == ASSUME UNCHANGED keys PROVE Creds' = Creds
BY DEF Creds, Pool

\* max_retries is a number, zero being read as five.
LEMMA MaxRetriesType == MaxRetries \in Nat
BY RetryAssumption DEF MaxRetries

\* Pushing a job leaves a heap that is counted, and adds an entry for the job.
LEMMA PushHeap ==
  ASSUME TypeOK, HeapOK, NEW j \in Job, NEW at \in Int, Push(j, at)
  PROVE  /\ HeapOK'
         /\ heap' \in SUBSET Entry /\ seq' \in Nat /\ counted' \in Nat
         /\ \E e : heap' = heap \cup {e} /\ e \notin heap /\ e.job = j
<1> DEFINE new == [job |-> j, at |-> at, seq |-> seq + 1]
<1>1. heap' = heap \cup {new} /\ seq' = seq + 1 /\ counted' = counted + 1
  BY DEF Push
<1>2. seq \in Nat /\ counted \in Nat /\ heap \subseteq Entry
  BY DEF TypeOK
<1>3. new \in Entry /\ new.seq = seq + 1 /\ new.job = j
  BY <1>2 DEF Entry
<1>4. new \notin heap
  BY <1>2, <1>3 DEF HeapOK
<1> HIDE DEF new
<1>5. IsFiniteSet(heap') /\ Cardinality(heap') = Cardinality(heap) + 1
  BY <1>1, <1>4, FS_AddElement DEF HeapOK
<1>6. \A e \in heap' : e.seq <= seq'
  <2> TAKE e \in heap'
  <2>1. CASE e \in heap
    <3>1. e.seq \in Nat /\ e.seq <= seq
      BY <2>1, <1>2 DEF HeapOK, Entry
    <3>2. QED BY <3>1, <1>1, <1>2
  <2>2. CASE e = new
    BY <2>2, <1>1, <1>2, <1>3
  <2>3. QED BY <1>1, <2>1, <2>2
<1>7. HeapOK'
  BY <1>1, <1>5, <1>6 DEF HeapOK
<1>8. heap' \in SUBSET Entry /\ seq' \in Nat /\ counted' \in Nat
  BY <1>1, <1>2, <1>3
<1>9. QED BY <1>1, <1>3, <1>4, <1>7, <1>8

\* Popping an entry leaves a heap that is counted, without that entry.
LEMMA PopHeap ==
  ASSUME TypeOK, HeapOK, NEW e \in heap, Pop(e)
  PROVE  /\ HeapOK'
         /\ heap' \in SUBSET Entry /\ seq' \in Nat /\ counted' \in Nat
         /\ heap' = heap \ {e}
<1>1. heap' = heap \ {e} /\ seq' = seq
      /\ counted' = IF counted > 0 THEN counted - 1 ELSE 0
  BY DEF Pop
<1>2. seq \in Nat /\ counted \in Nat /\ heap \subseteq Entry
  BY DEF TypeOK
<1>3. IsFiniteSet(heap') /\ Cardinality(heap') = Cardinality(heap) - 1
  BY <1>1, FS_RemoveElement DEF HeapOK
<1>4. Cardinality(heap') \in Nat
  BY <1>3, FS_CardinalityType
<1>5. counted' = Cardinality(heap')
  BY <1>1, <1>2, <1>3, <1>4 DEF HeapOK
<1>6. \A f \in heap' : f.seq <= seq'
  BY <1>1 DEF HeapOK
<1>7. QED BY <1>1, <1>2, <1>3, <1>4, <1>5, <1>6 DEF HeapOK

\* A step that leaves the queue alone leaves it counted.
LEMMA SameHeap ==
  ASSUME HeapOK, UNCHANGED queue
  PROVE  HeapOK'
BY DEF HeapOK, queue

-----------------------------------------------------------------------------
\* The invariant holds initially.
LEMMA RedeemInit == Init => IInv
<1> SUFFICES ASSUME Init PROVE IInv
  OBVIOUS
<1>1. TypeOK
  <2>1. place \in [cred : Nat \ {0}, try : 1..BusyTries]
    BY PoolAssumption DEF Init
  <2>2. retries \in [Job -> 0..MaxRetries]
    BY MaxRetriesType DEF Init
  <2>3. summary \in [Job -> BOOLEAN] /\ active \in BOOLEAN /\ taken \in BOOLEAN
    BY DEF Init
  <2>4. heap \in SUBSET Entry /\ current \in Job \cup {None} /\ calls \in [Job -> Nat]
    BY DEF Init
  <2>5. keys \in KeySets /\ now \in Nat /\ seq \in Nat /\ counted \in Nat
    BY DEF Init
  <2>6. /\ caller \in [Job -> {"monitor", "waiting", "back", "gone"}]
        /\ done \in [Job -> {"none", "open", "set", "cancelled"}]
        /\ tx \in [Job -> {"none", "pending", "mined", "failed"}]
    BY DEF Init
  <2>7. QED BY <2>1, <2>2, <2>3, <2>4, <2>5, <2>6, Zenon DEF Init, TypeOK
<1>2. HeapOK
  BY FS_EmptySet DEF Init, HeapOK
<1>3. JobsOK /\ QueuedOnce /\ PaidOnce /\ DrainedClean
  BY NoneAssumption DEF Init, JobsOK, SerialLocked, Queued, QueuedOnce, PaidOnce, DrainedClean
<1>4. QED BY <1>1, <1>2, <1>3 DEF IInv

\* The end of a job whose batch failed: the job is queued again, or dropped.
LEMMA FailedStep ==
  ASSUME IInv, worker = "relay", JobFailed,
         UNCHANGED <<keys, now, main, caller, active, tx>>
  PROVE  IInv'
<1>1. TypeOK /\ HeapOK /\ JobsOK /\ QueuedOnce /\ PaidOnce /\ DrainedClean
  BY DEF IInv
<1>2. current \in Job /\ current # None
  BY <1>1 DEF TypeOK, JobsOK, SerialLocked
<1>3. worker' = "loop" /\ current' = None /\ done' = Resolve(current)
      /\ UNCHANGED <<place, summary, taken, calls>>
  BY DEF JobFailed, JobEnds
<1>4. done' \in [Job -> {"none", "open", "set", "cancelled"}]
  BY <1>1, <1>2, <1>3 DEF TypeOK, Resolve
<1>5. main \notin {"shutdown", "ended"}
  BY <1>1 DEF DrainedClean, SerialLocked
<1>6. caller[current] # "monitor" /\ ~summary[current] /\ ~Queued(current)
  BY <1>1, <1>2 DEF JobsOK, PaidOnce, QueuedOnce, Queued
<1>7. CASE RetryLeft(current)
  <2>1. retries' = [retries EXCEPT ![current] = @ + 1] /\ Push(current, now + RetryGap)
    BY <1>7 DEF JobFailed
  <2>2. retries' \in [Job -> 0..MaxRetries]
    BY <1>1, <1>2, <1>7, <2>1, MaxRetriesType DEF TypeOK, RetryLeft
  <2>3. now + RetryGap \in Int
    BY <1>1, RetryAssumption DEF TypeOK
  <2>4. /\ HeapOK'
        /\ heap' \in SUBSET Entry /\ seq' \in Nat /\ counted' \in Nat
        /\ \E e : heap' = heap \cup {e} /\ e \notin heap /\ e.job = current
    BY <1>1, <1>2, <2>1, <2>3, PushHeap
  <2>5. TypeOK'
    <3>1. UNCHANGED <<keys, now, main, caller, active, tx, place, summary, taken, calls>>
      BY <1>3
    <3>2. worker' \in {"loop", "relay", "backoff", "post", "stopped"}
          /\ current' \in Job \cup {None}
      BY <1>3
    <3>3. QED BY <1>1, <3>1, <3>2, <1>4, <2>2, <2>4, ZenonT(60) DEF TypeOK
  <2>6. PICK new : heap' = heap \cup {new} /\ new.job = current
    BY <2>4
  <2>7. \A j \in Job : Queued(j)' => Queued(j) \/ j = current
    BY <2>6 DEF Queued
  <2>8. QueuedOnce'
    <3>1. \A e \in heap : e.job # new.job
      BY <1>6, <2>6 DEF Queued
    <3>2. \A e, f \in heap' : e.job = f.job => e = f
      BY <1>1, <2>6, <3>1 DEF QueuedOnce
    <3>3. \A e \in heap' : e.job \in Job
      BY <2>4 DEF Entry
    <3>4. QED BY <1>3, <3>2, <3>3, NoneAssumption DEF QueuedOnce
  <2>9. JobsOK' /\ PaidOnce' /\ DrainedClean'
    BY <1>1, <1>2, <1>3, <1>5, <1>6, <2>7, NoneAssumption
    DEF JobsOK, SerialLocked, PaidOnce, DrainedClean
  <2>10. QED BY <2>4, <2>5, <2>8, <2>9 DEF IInv
<1>8. CASE ~RetryLeft(current)
  <2>1. UNCHANGED <<retries, queue>>
    BY <1>8 DEF JobFailed
  <2>2. TypeOK'
    BY <1>1, <1>3, <1>4, <2>1 DEF TypeOK, queue
  <2>3. HeapOK'
    BY <1>1, <2>1, SameHeap
  <2>4. JobsOK' /\ QueuedOnce' /\ PaidOnce' /\ DrainedClean'
    BY <1>1, <1>2, <1>3, <1>5, <1>6, <2>1, NoneAssumption
    DEF JobsOK, SerialLocked, Queued, QueuedOnce, PaidOnce, DrainedClean, TypeOK, queue, Entry
  <2>5. QED BY <2>2, <2>3, <2>4 DEF IInv
<1>9. QED BY <1>7, <1>8

\* A call that failed is made again, with this or the next credential, or the
\* job has failed.
LEMMA CallFailedStep ==
  ASSUME IInv, worker = "relay", NEW err \in SUBSET {"busy", "rate"}, CallFailed(err),
         UNCHANGED <<keys, now, main, caller, active, tx>>
  PROVE  IInv'
<1>1. TypeOK /\ HeapOK /\ JobsOK /\ QueuedOnce /\ PaidOnce /\ DrainedClean
  BY DEF IInv
<1>2. current \in Job /\ current # None
  BY <1>1 DEF TypeOK, JobsOK, SerialLocked
<1>3. /\ place.try \in 1..BusyTries /\ place.cred \in Nat \ {0} /\ place.cred <= Creds
      /\ Creds \in Nat /\ Creds' = Creds
  BY <1>1, CredsType, SameCreds DEF TypeOK, JobsOK
<1>4. CASE "busy" \in err /\ place.try < BusyTries
  <2>1. worker' = "backoff" /\ UNCHANGED <<queue, current, place, jobState, taken, calls>>
    BY <1>4 DEF CallFailed
  <2>2. TypeOK'
    BY <1>1, <2>1 DEF TypeOK, queue, jobState
  <2>3. HeapOK'
    BY <1>1, <2>1, SameHeap
  <2>4. JobsOK' /\ QueuedOnce' /\ PaidOnce' /\ DrainedClean'
    BY <1>1, <1>2, <1>3, <1>4, <2>1
    DEF JobsOK, SerialLocked, Queued, QueuedOnce, PaidOnce, DrainedClean, queue, jobState
  <2>5. QED BY <2>2, <2>3, <2>4 DEF IInv
<1>5. CASE ~("busy" \in err /\ place.try < BusyTries) /\ "rate" \in err /\ place.cred < Creds
  <2>1. Call(current, place.cred + 1, 1) /\ UNCHANGED <<queue, current, jobState>>
    BY <1>5 DEF CallFailed
  <2>2. /\ place' = [cred |-> place.cred + 1, try |-> 1]
        /\ worker' = "relay" /\ taken' = FALSE
        /\ calls' = [calls EXCEPT ![current] = @ + 1]
    BY <2>1 DEF Call
  <2>3. place' \in [cred : Nat \ {0}, try : 1..BusyTries] /\ place'.cred <= Creds'
    BY <1>3, <1>5, <2>2, PoolAssumption
  <2>4. TypeOK'
    <3>1. UNCHANGED <<keys, now, main, caller, active, tx, queue, current, jobState>>
      BY <2>1
    <3>2. calls' \in [Job -> Nat]
      BY <1>1, <1>2, <2>2 DEF TypeOK
    <3>3. taken' \in BOOLEAN
          /\ worker' \in {"loop", "relay", "backoff", "post", "stopped"}
      BY <2>2
    <3>4. QED BY <1>1, <2>3, <3>1, <3>2, <3>3, ZenonT(60) DEF TypeOK, queue, jobState
  <2>5. HeapOK'
    BY <1>1, <2>1, SameHeap
  <2>6. JobsOK' /\ QueuedOnce' /\ PaidOnce' /\ DrainedClean'
    BY <1>1, <1>2, <2>1, <2>2, <2>3
    DEF JobsOK, SerialLocked, Queued, QueuedOnce, PaidOnce, DrainedClean, queue, jobState
  <2>7. QED BY <2>4, <2>5, <2>6 DEF IInv
<1>6. CASE /\ ~("busy" \in err /\ place.try < BusyTries)
           /\ ~("rate" \in err /\ place.cred < Creds)
  <2>1. JobFailed
    BY <1>6 DEF CallFailed
  <2>2. QED BY <2>1, FailedStep
<1>7. QED BY <1>4, <1>5, <1>6

\* Scheduling a job that is nowhere yet.
LEMMA ScheduleStep ==
  ASSUME IInv, NEW j \in Job, Schedule(j)
  PROVE  IInv'
<1>1. TypeOK /\ HeapOK /\ JobsOK /\ QueuedOnce /\ PaidOnce /\ DrainedClean
  BY DEF IInv
<1>2. PICK late \in Lateness : Push(j, now - late + Delay + Slot[j] * Gap)
  BY DEF Schedule
<1>3. now - late + Delay + Slot[j] * Gap \in Int
  <2>1. now \in Int /\ late \in Int /\ Delay \in Int /\ Slot[j] \in Int /\ Gap \in Int
    BY <1>1, DelayAssumption, JobAssumption DEF TypeOK
  <2>2. Slot[j] * Gap \in Int
    BY <2>1
  <2>3. QED BY <2>1, <2>2
<1>4. /\ HeapOK'
      /\ heap' \in SUBSET Entry /\ seq' \in Nat /\ counted' \in Nat
      /\ \E e : heap' = heap \cup {e} /\ e \notin heap /\ e.job = j
  BY <1>1, <1>2, <1>3, PushHeap
<1>5. PICK new : heap' = heap \cup {new} /\ new.job = j
  BY <1>4
<1>6. ~Queued(j) /\ current # j /\ ~summary[j] /\ main = "cycles"
  BY <1>1 DEF Schedule, CycleRuns, JobsOK
<1>7. UNCHANGED <<keys, now, main, active, worker, current, place, retries, summary, tx, taken, calls>>
  BY DEF Schedule
<1>8. /\ caller' = [caller EXCEPT ![j] = IF Waits THEN "waiting" ELSE "back"]
      /\ done' = [done EXCEPT ![j] = IF Waits THEN "open" ELSE "none"]
  BY DEF Schedule
<1>9. /\ caller' \in [Job -> {"monitor", "waiting", "back", "gone"}]
      /\ done' \in [Job -> {"none", "open", "set", "cancelled"}]
      /\ caller'[j] # "monitor" /\ \A i \in Job \ {j} : caller'[i] = caller[i]
  BY <1>1, <1>8 DEF TypeOK
<1>10. TypeOK'
  BY <1>1, <1>4, <1>7, <1>9, ZenonT(60) DEF TypeOK
<1>11. \A i \in Job : Queued(i)' => Queued(i) \/ i = j
  BY <1>5 DEF Queued
<1>12. QueuedOnce'
  <2>1. \A e \in heap : e.job # new.job
    BY <1>5, <1>6 DEF Queued
  <2>2. QED BY <1>1, <1>5, <1>6, <1>7, <2>1 DEF QueuedOnce
<1>13. JobsOK' /\ PaidOnce' /\ DrainedClean'
  BY <1>1, <1>6, <1>7, <1>9, <1>11, SameCreds DEF JobsOK, SerialLocked, PaidOnce, DrainedClean
<1>14. QED BY <1>4, <1>10, <1>12, <1>13 DEF IInv

\* The steps of the worker that pop an entry that is due.
LEMMA PopStep ==
  ASSUME IInv, NEW e \in heap, RunSimulated(e) \/ StartJob(e)
  PROVE  IInv'
<1>1. TypeOK /\ HeapOK /\ JobsOK /\ QueuedOnce /\ PaidOnce /\ DrainedClean
  BY DEF IInv
<1>2. Due(e) /\ Pop(e)
  BY DEF RunSimulated, StartJob
<1>3. /\ HeapOK'
      /\ heap' \in SUBSET Entry /\ seq' \in Nat /\ counted' \in Nat
      /\ heap' = heap \ {e}
  BY <1>1, <1>2, PopHeap
<1>4. e.job \in Job /\ e.job # None
  BY <1>1, NoneAssumption DEF TypeOK, Entry
<1>5. worker = "loop" /\ current = None /\ main \notin {"shutdown", "ended"}
  BY <1>1, <1>2 DEF Due, JobsOK, SerialLocked, DrainedClean
<1>6. Queued(e.job) /\ ~summary[e.job] /\ caller[e.job] # "monitor"
  BY <1>1, <1>4 DEF Queued, PaidOnce, JobsOK
<1>7. (\A i \in Job : Queued(i)' => Queued(i)) /\ ~Queued(e.job)'
  BY <1>1, <1>3 DEF Queued, QueuedOnce
<1>8. \A f, g \in heap' : f.job = g.job => f = g
  BY <1>1, <1>3 DEF QueuedOnce
<1>9. \A f \in heap' : f.job # e.job /\ f.job # None
  BY <1>1, <1>3, NoneAssumption DEF QueuedOnce, TypeOK, Entry
<1>10. CASE RunSimulated(e)
  <2>1. /\ UNCHANGED <<keys, now, main, caller, active, worker, current, place, retries, tx, taken, calls>>
        /\ summary' = [summary EXCEPT ![e.job] = TRUE] /\ done' = Resolve(e.job)
    BY <1>10 DEF RunSimulated
  <2>2. /\ summary' \in [Job -> BOOLEAN]
        /\ \A i \in Job : summary'[i] => summary[i] \/ i = e.job
    BY <1>1, <1>4, <2>1 DEF TypeOK
  <2>3. done' \in [Job -> {"none", "open", "set", "cancelled"}]
    BY <1>1, <1>4, <2>1 DEF TypeOK, Resolve
  <2>4. TypeOK'
    BY <1>1, <1>3, <2>1, <2>2, <2>3, ZenonT(60) DEF TypeOK
  <2>5. JobsOK' /\ QueuedOnce' /\ PaidOnce' /\ DrainedClean'
    BY <1>1, <1>3, <1>5, <1>6, <1>7, <1>8, <1>9, <2>1, <2>2
    DEF JobsOK, SerialLocked, QueuedOnce, PaidOnce, DrainedClean
  <2>6. QED BY <1>3, <2>4, <2>5 DEF IInv
<1>11. CASE StartJob(e)
  <2>1. /\ UNCHANGED <<keys, now, main, caller, active, retries, done, summary, tx>>
        /\ current' = e.job /\ worker' = "relay" /\ place' = [cred |-> 1, try |-> 1]
        /\ taken' = FALSE /\ calls' = [calls EXCEPT ![e.job] = @ + 1]
    BY <1>11 DEF StartJob, Call, jobState
  <2>2. calls' \in [Job -> Nat]
    BY <1>1, <1>4, <2>1 DEF TypeOK
  <2>3. place' \in [cred : Nat \ {0}, try : 1..BusyTries] /\ place'.cred <= Creds'
    <3>1. Creds > 0 /\ Creds \in Nat /\ Creds' = Creds
      BY <1>1, <1>11, <2>1, CredsType, SameCreds DEF StartJob, TypeOK
    <3>2. QED BY <2>1, <3>1, PoolAssumption
  <2>4. taken' \in BOOLEAN /\ current' \in Job \cup {None}
        /\ worker' \in {"loop", "relay", "backoff", "post", "stopped"}
    BY <1>4, <2>1
  <2>5. TypeOK'
    BY <1>1, <1>3, <2>1, <2>2, <2>3, <2>4, ZenonT(60) DEF TypeOK
  <2>6. JobsOK' /\ QueuedOnce' /\ PaidOnce' /\ DrainedClean'
    BY <1>1, <1>4, <1>5, <1>6, <1>7, <1>8, <1>9, <2>1, <2>3
    DEF JobsOK, SerialLocked, QueuedOnce, PaidOnce, DrainedClean
  <2>7. QED BY <1>3, <2>5, <2>6 DEF IInv
<1>12. QED BY <1>10, <1>11

\* Putting a job back leaves a heap that is counted, with another entry for it.
LEMMA RequeueHeap ==
  ASSUME TypeOK, HeapOK, NEW e \in heap, NEW at \in Int, Requeue(e, at)
  PROVE  /\ HeapOK'
         /\ heap' \in SUBSET Entry /\ seq' \in Nat /\ counted' \in Nat
         /\ \E f : heap' = (heap \ {e}) \cup {f} /\ f.job = e.job
<1> DEFINE new == [job |-> e.job, at |-> at, seq |-> seq + 1]
           rest == heap \ {e}
<1>1. heap' = rest \cup {new} /\ seq' = seq + 1 /\ counted' = IF counted > 0 THEN counted ELSE 1
  BY DEF Requeue
<1>2. seq \in Nat /\ counted \in Nat /\ heap \subseteq Entry /\ e \in Entry
  BY DEF TypeOK
<1>3. new \in Entry /\ new.seq = seq + 1 /\ new.job = e.job
  BY <1>2 DEF Entry
<1>4. new \notin rest /\ rest \subseteq heap
  BY <1>2, <1>3 DEF HeapOK
<1>5. /\ IsFiniteSet(rest) /\ Cardinality(rest) = Cardinality(heap) - 1
      /\ Cardinality(rest) \in Nat /\ Cardinality(heap) \in Nat
  BY FS_RemoveElement, FS_CardinalityType DEF HeapOK
<1> HIDE DEF new, rest
<1>6. IsFiniteSet(heap') /\ Cardinality(heap') = Cardinality(rest) + 1
  BY <1>1, <1>4, <1>5, FS_AddElement
<1>7. counted' = Cardinality(heap')
  BY <1>1, <1>5, <1>6 DEF HeapOK
<1>8. \A f \in heap' : f.seq <= seq'
  <2> TAKE f \in heap'
  <2>1. CASE f \in rest
    <3>1. f.seq \in Nat /\ f.seq <= seq
      BY <2>1, <1>2, <1>4 DEF HeapOK, Entry
    <3>2. QED BY <3>1, <1>1, <1>2
  <2>2. CASE f = new
    BY <2>2, <1>1, <1>2, <1>3
  <2>3. QED BY <1>1, <2>1, <2>2
<1>9. heap' \in SUBSET Entry /\ seq' \in Nat /\ counted' \in Nat
  BY <1>1, <1>2, <1>3, <1>4
<1>10. HeapOK'
  BY <1>6, <1>7, <1>8 DEF HeapOK
<1>11. QED BY <1>1, <1>3, <1>9, <1>10 DEF rest

\* Without a credential: the job is queued again, or dropped, and none starts.
LEMMA KeylessStep ==
  ASSUME IInv, NEW e \in heap, RunWithoutCreds(e)
  PROVE  IInv'
<1>1. TypeOK /\ HeapOK /\ JobsOK /\ QueuedOnce /\ PaidOnce /\ DrainedClean
  BY DEF IInv
<1>2. /\ UNCHANGED <<keys, now, main, caller, active, worker, current, place, summary,
                     tx, taken, calls>>
      /\ done' = Resolve(e.job) /\ worker = "loop"
  BY DEF RunWithoutCreds, Due
<1>3. e.job \in Job /\ e.job # None
  BY <1>1, NoneAssumption DEF TypeOK, Entry
<1>4. current = None /\ main \notin {"shutdown", "ended"}
  BY <1>1, <1>2 DEF JobsOK, SerialLocked, DrainedClean
<1>5. Queued(e.job) /\ ~summary[e.job] /\ caller[e.job] # "monitor"
  BY <1>1, <1>3 DEF Queued, PaidOnce, JobsOK
<1>6. done' \in [Job -> {"none", "open", "set", "cancelled"}]
  BY <1>1, <1>2, <1>3 DEF TypeOK, Resolve
<1>7. /\ HeapOK' /\ heap' \in SUBSET Entry /\ seq' \in Nat /\ counted' \in Nat
      /\ \A f, g \in heap' : f.job = g.job => f = g
      /\ \A f \in heap' : \E g \in heap : f.job = g.job
      /\ retries' \in [Job -> 0..MaxRetries]
  <2>1. CASE RetryLeft(e.job)
    <3>1. Requeue(e, now + RetryGap) /\ retries' = [retries EXCEPT ![e.job] = @ + 1]
      BY <2>1 DEF RunWithoutCreds
    <3>2. now + RetryGap \in Int
      BY <1>1, RetryAssumption DEF TypeOK
    <3>3. /\ HeapOK' /\ heap' \in SUBSET Entry /\ seq' \in Nat /\ counted' \in Nat
          /\ \E f : heap' = (heap \ {e}) \cup {f} /\ f.job = e.job
      BY <1>1, <3>1, <3>2, RequeueHeap
    <3>4. PICK new : heap' = (heap \ {e}) \cup {new} /\ new.job = e.job
      BY <3>3
    <3>5. \A f, g \in heap' : f.job = g.job => f = g
      BY <1>1, <3>4 DEF QueuedOnce
    <3>6. retries' \in [Job -> 0..MaxRetries]
      BY <1>1, <1>3, <2>1, <3>1, MaxRetriesType DEF TypeOK, RetryLeft
    <3>7. QED BY <3>3, <3>4, <3>5, <3>6
  <2>2. CASE ~RetryLeft(e.job)
    <3>1. Pop(e) /\ retries' = retries
      BY <2>2 DEF RunWithoutCreds
    <3>2. QED BY <1>1, <3>1, PopHeap DEF QueuedOnce, TypeOK
  <2>3. QED BY <2>1, <2>2
<1>8. TypeOK'
  BY <1>1, <1>2, <1>6, <1>7, ZenonT(60) DEF TypeOK
<1>9. \A i \in Job : Queued(i)' => Queued(i)
  BY <1>7 DEF Queued
<1>10. Creds' = Creds
  BY <1>2, SameCreds
<1>11. \A f \in heap' : f.job # None
  BY <1>7, NoneAssumption DEF Entry
<1>12. JobsOK' /\ QueuedOnce' /\ PaidOnce' /\ DrainedClean'
  BY <1>1, <1>2, <1>4, <1>7, <1>9, <1>10, <1>11
  DEF JobsOK, SerialLocked, QueuedOnce, PaidOnce, DrainedClean
<1>13. QED BY <1>7, <1>8, <1>12 DEF IInv

\* The steps that leave the queue alone.
LEMMA QuietStep ==
  ASSUME IInv, UNCHANGED queue, UNCHANGED keys,
         \/ \E j \in Job : ScheduleReturns(j) \/ CycleFails(j) \/ TxSettles(j)
         \/ LeaveCycles \/ DrainReturns \/ ShutdownReturns
         \/ BackoffOver \/ PostOver \/ WorkerStops
         \/ RelayerTakes \/ RelayerAnswersHash \/ TimePasses
  PROVE  IInv'
<1>0. TypeOK /\ HeapOK /\ JobsOK /\ QueuedOnce /\ PaidOnce /\ DrainedClean
  BY DEF IInv
<1>1. HeapOK'
  BY <1>0, SameHeap
<1>2. heap' = heap /\ Creds' = Creds /\ \A j \in Job : Queued(j)' <=> Queued(j)
  BY SameCreds DEF queue, Queued
<1>3. worker \in {"relay", "backoff", "post"} => current \in Job /\ current # None
  BY <1>0 DEF TypeOK, JobsOK, SerialLocked
<1>4. ASSUME NEW j \in Job, ScheduleReturns(j) PROVE IInv'
  <2>1. TypeOK'
    BY <1>4, <1>0, <1>3 DEF TypeOK, queue, jobState, ScheduleReturns
  <2>2. JobsOK' /\ QueuedOnce' /\ PaidOnce' /\ DrainedClean'
    BY <1>4, <1>0, <1>2, <1>3
    DEF TypeOK, HeapOK, JobsOK, SerialLocked, QueuedOnce, PaidOnce, DrainedClean,
        queue, jobState, ScheduleReturns
  <2>3. QED BY <1>1, <2>1, <2>2 DEF IInv
<1>5. ASSUME NEW j \in Job, CycleFails(j) PROVE IInv'
  <2>1. TypeOK'
    BY <1>5, <1>0, <1>3 DEF TypeOK, queue, jobState, CycleFails, CycleRuns
  <2>2. JobsOK' /\ QueuedOnce' /\ PaidOnce' /\ DrainedClean'
    BY <1>5, <1>0, <1>2, <1>3
    DEF TypeOK, HeapOK, JobsOK, SerialLocked, QueuedOnce, PaidOnce, DrainedClean,
        queue, jobState, CycleFails, CycleRuns
  <2>3. QED BY <1>1, <2>1, <2>2 DEF IInv
<1>6. ASSUME NEW j \in Job, TxSettles(j) PROVE IInv'
  <2>1. TypeOK'
    BY <1>6, <1>0, <1>3 DEF TypeOK, queue, jobState, TxSettles
  <2>2. JobsOK' /\ QueuedOnce' /\ PaidOnce' /\ DrainedClean'
    BY <1>6, <1>0, <1>2, <1>3
    DEF TypeOK, HeapOK, JobsOK, SerialLocked, QueuedOnce, PaidOnce, DrainedClean,
        queue, jobState, TxSettles
  <2>3. QED BY <1>1, <2>1, <2>2 DEF IInv
<1>7. CASE LeaveCycles
  <2>1. TypeOK'
    BY <1>7, <1>0, <1>3 DEF TypeOK, queue, jobState, LeaveCycles
  <2>2. JobsOK' /\ QueuedOnce' /\ PaidOnce' /\ DrainedClean'
    BY <1>7, <1>0, <1>2, <1>3
    DEF TypeOK, HeapOK, JobsOK, SerialLocked, QueuedOnce, PaidOnce, DrainedClean,
        queue, jobState, LeaveCycles
  <2>3. QED BY <1>1, <2>1, <2>2 DEF IInv
<1>8. CASE DrainReturns
  <2>1. TypeOK'
    BY <1>8, <1>0, <1>3 DEF TypeOK, queue, jobState, DrainReturns
  <2>2. heap = {} /\ ~SerialLocked
    <3>1. Cardinality(heap) \in Nat /\ counted = Cardinality(heap)
      BY <1>0, FS_CardinalityType DEF HeapOK
    <3>2. counted + Cardinality(heap) = 0 /\ ~SerialLocked
      BY <1>8 DEF DrainReturns, DrainDone, PendingCount
    <3>3. Cardinality(heap) = 0
      BY <3>1, <3>2
    <3>4. QED BY <1>0, <3>2, <3>3, FS_EmptySet DEF HeapOK
  <2>3. UNCHANGED <<caller, worker, current, place, summary>>
    BY <1>8 DEF DrainReturns, jobState
  <2>4. JobsOK' /\ QueuedOnce' /\ PaidOnce' /\ DrainedClean'
    BY <1>0, <1>2, <2>2, <2>3
    DEF JobsOK, SerialLocked, QueuedOnce, PaidOnce, DrainedClean
  <2>5. QED BY <1>1, <2>1, <2>4 DEF IInv
<1>9. CASE ShutdownReturns
  <2>1. TypeOK'
    BY <1>9, <1>0, <1>3 DEF TypeOK, queue, jobState, ShutdownReturns
  <2>2. JobsOK' /\ QueuedOnce' /\ PaidOnce' /\ DrainedClean'
    BY <1>9, <1>0, <1>2, <1>3
    DEF TypeOK, HeapOK, JobsOK, SerialLocked, QueuedOnce, PaidOnce, DrainedClean,
        queue, jobState, ShutdownReturns
  <2>3. QED BY <1>1, <2>1, <2>2 DEF IInv
<1>10. CASE BackoffOver
  <2>1. worker = "backoff" /\ current \in Job /\ place.try < BusyTries
    BY <1>10, <1>0, <1>3 DEF BackoffOver, JobsOK
  <2>2. /\ UNCHANGED <<keys, now, main, caller, queue, active, current, retries, done, summary, tx>>
        /\ place' = [cred |-> place.cred, try |-> place.try + 1]
        /\ worker' = "relay" /\ taken' = FALSE
        /\ calls' = [calls EXCEPT ![current] = @ + 1]
    BY <1>10 DEF BackoffOver, Call, jobState
  <2>3. place' \in [cred : Nat \ {0}, try : 1..BusyTries] /\ place'.cred <= Creds'
    BY <1>0, <1>2, <2>1, <2>2, PoolAssumption DEF TypeOK, JobsOK
  <2>4. calls' \in [Job -> Nat]
    BY <1>0, <2>1, <2>2 DEF TypeOK
  <2>5. taken' \in BOOLEAN /\ worker' \in {"loop", "relay", "backoff", "post", "stopped"}
    BY <2>2
  <2>6. TypeOK'
    BY <1>0, <2>2, <2>3, <2>4, <2>5, ZenonT(60) DEF TypeOK, queue
  <2>7. JobsOK' /\ QueuedOnce' /\ PaidOnce' /\ DrainedClean'
    BY <1>0, <1>2, <2>1, <2>2, <2>3
    DEF JobsOK, SerialLocked, QueuedOnce, PaidOnce, DrainedClean
  <2>8. QED BY <1>1, <2>6, <2>7 DEF IInv
<1>11. CASE PostOver
  <2>1. current \in Job /\ current # None /\ worker = "post"
    BY <1>11, <1>3 DEF PostOver
  <2>2. /\ UNCHANGED <<keys, now, main, caller, queue, active, place, retries, summary, tx, taken, calls>>
        /\ worker' = "loop" /\ current' = None /\ done' = Resolve(current)
    BY <1>11 DEF PostOver, JobEnds
  <2>3. done' \in [Job -> {"none", "open", "set", "cancelled"}]
    BY <1>0, <2>1, <2>2 DEF TypeOK, Resolve
  <2>4. current' \in Job \cup {None} /\ worker' \in {"loop", "relay", "backoff", "post", "stopped"}
    BY <2>2
  <2>5. TypeOK'
    BY <1>0, <2>2, <2>3, <2>4, ZenonT(60) DEF TypeOK, queue
  <2>6. \A e \in heap : e.job # None
    BY <1>0, NoneAssumption DEF TypeOK, Entry
  <2>7. JobsOK' /\ QueuedOnce' /\ PaidOnce' /\ DrainedClean'
    BY <1>0, <1>2, <2>1, <2>2, <2>6, NoneAssumption
    DEF JobsOK, SerialLocked, QueuedOnce, PaidOnce, DrainedClean
  <2>8. QED BY <1>1, <2>5, <2>7 DEF IInv
<1>12. CASE WorkerStops
  <2>1. TypeOK'
    BY <1>12, <1>0, <1>3 DEF TypeOK, queue, jobState, WorkerStops
  <2>2. JobsOK' /\ QueuedOnce' /\ PaidOnce' /\ DrainedClean'
    BY <1>12, <1>0, <1>2, <1>3
    DEF TypeOK, HeapOK, JobsOK, SerialLocked, QueuedOnce, PaidOnce, DrainedClean,
        queue, jobState, WorkerStops
  <2>3. QED BY <1>1, <2>1, <2>2 DEF IInv
<1>13. CASE RelayerTakes
  <2>1. TypeOK'
    BY <1>13, <1>0, <1>3 DEF TypeOK, queue, jobState, RelayerTakes
  <2>2. JobsOK' /\ QueuedOnce' /\ PaidOnce' /\ DrainedClean'
    BY <1>13, <1>0, <1>2, <1>3
    DEF TypeOK, HeapOK, JobsOK, SerialLocked, QueuedOnce, PaidOnce, DrainedClean,
        queue, jobState, RelayerTakes
  <2>3. QED BY <1>1, <2>1, <2>2 DEF IInv
<1>14. CASE RelayerAnswersHash
  <2>1. current \in Job /\ current # None /\ worker = "relay"
    BY <1>14, <1>3 DEF RelayerAnswersHash
  <2>2. /\ UNCHANGED <<keys, now, main, caller, queue, active, current, place, retries, done,
                       tx, taken, calls>>
        /\ worker' = "post" /\ summary' = [summary EXCEPT ![current] = TRUE]
    BY <1>14 DEF RelayerAnswersHash, CallSucceeded
  <2>3. /\ summary' \in [Job -> BOOLEAN] /\ summary'[current]
        /\ \A j \in Job : summary'[j] => summary[j] \/ j = current
    BY <1>0, <2>1, <2>2 DEF TypeOK
  <2>4. worker' \in {"loop", "relay", "backoff", "post", "stopped"}
    BY <2>2
  <2>5. TypeOK'
    BY <1>0, <2>2, <2>3, <2>4, ZenonT(60) DEF TypeOK, queue
  <2>6. ~Queued(current)
    BY <1>0 DEF QueuedOnce, Queued
  <2>7. JobsOK' /\ QueuedOnce' /\ PaidOnce' /\ DrainedClean'
    BY <1>0, <1>2, <2>1, <2>2, <2>3, <2>6
    DEF JobsOK, SerialLocked, QueuedOnce, PaidOnce, DrainedClean
  <2>8. QED BY <1>1, <2>5, <2>7 DEF IInv
<1>15. CASE TimePasses
  <2>1. TypeOK'
    BY <1>15, <1>0, <1>3 DEF TypeOK, queue, jobState, TimePasses
  <2>2. JobsOK' /\ QueuedOnce' /\ PaidOnce' /\ DrainedClean'
    BY <1>15, <1>0, <1>2, <1>3
    DEF TypeOK, HeapOK, JobsOK, SerialLocked, QueuedOnce, PaidOnce, DrainedClean,
        queue, jobState, TimePasses
  <2>3. QED BY <1>1, <2>1, <2>2 DEF IInv
<1>16. QED BY <1>4, <1>5, <1>6, <1>7, <1>8, <1>9, <1>10, <1>11, <1>12, <1>13, <1>14, <1>15

\* Every step keeps the invariant.
LEMMA RedeemStep == IInv /\ [Next]_vars => IInv'
<1> SUFFICES ASSUME IInv, [Next]_vars PROVE IInv'
  OBVIOUS
<1>1. ASSUME NEW j \in Job, Schedule(j) PROVE IInv'
  BY <1>1, ScheduleStep
<1>2. CASE \/ \E j \in Job : ScheduleReturns(j) \/ CycleFails(j) \/ TxSettles(j)
           \/ LeaveCycles \/ DrainReturns \/ ShutdownReturns
           \/ BackoffOver \/ PostOver \/ WorkerStops
           \/ RelayerTakes \/ RelayerAnswersHash \/ TimePasses
  <2>1. UNCHANGED queue /\ UNCHANGED keys
    BY <1>2 DEF ScheduleReturns, CycleFails, TxSettles, LeaveCycles, DrainReturns,
                ShutdownReturns, BackoffOver, PostOver, WorkerStops, RelayerTakes,
                RelayerAnswersHash, CallSucceeded, TimePasses
  <2>2. QED BY <1>2, <2>1, QuietStep
<1>3. ASSUME NEW e \in heap, RunSimulated(e) \/ StartJob(e) PROVE IInv'
  BY <1>3, PopStep
<1>4. CASE RelayerRefuses
  BY <1>4, CallFailedStep DEF RelayerRefuses
<1>5. CASE RelayerAnswersNone
  BY <1>5, CallFailedStep DEF RelayerAnswersNone
<1>6. CASE UNCHANGED vars
  <2>1. Creds' = Creds
    BY <1>6, SameCreds DEF vars
  <2>2. QED
    BY <1>6, <2>1 DEF IInv, TypeOK, HeapOK, JobsOK, SerialLocked, Queued, QueuedOnce,
                      PaidOnce, DrainedClean, vars, queue, jobState
<1>7. CASE DrainPolls \/ RunOver
  BY <1>6, <1>7 DEF DrainPolls, RunOver
<1>8. ASSUME NEW e \in heap, RunWithoutCreds(e) PROVE IInv'
  BY <1>8, KeylessStep
<1>9. QED
  BY <1>1, <1>2, <1>3, <1>4, <1>5, <1>6, <1>7, <1>8 DEF Next, Cycles, Worker, Answer

\* The invariant holds in every reachable state.
LEMMA RedeemInvariant == Spec => []IInv
<1>1. Init => IInv
  BY RedeemInit
<1>2. IInv /\ [Next]_vars => IInv'
  BY RedeemStep
<1>3. QED BY <1>1, <1>2, PTL DEF Spec

-----------------------------------------------------------------------------
\* Every variable of the scheduler keeps its type; a retry count never passes
\* redeem_max_retries.
THEOREM TypeCorrect == Spec => []TypeOK
<1>1. IInv => TypeOK
  BY DEF IInv
<1>2. QED BY <1>1, RedeemInvariant, PTL

\* The counter drain relies on agrees with the heap, for any number of jobs.
THEOREM CountIsRight == Spec => []CountedIsQueued
<1>1. IInv => CountedIsQueued
  BY DEF IInv, HeapOK, CountedIsQueued
<1>2. QED BY <1>1, RedeemInvariant, PTL

\* No job is in the queue twice, or queued while it is executed.
THEOREM NoJobTwice == Spec => []QueuedOnce
<1>1. IInv => QueuedOnce
  BY DEF IInv
<1>2. QED BY <1>1, RedeemInvariant, PTL

\* A job that was reported redeemed is never executed again.
THEOREM NoSecondRedeem == Spec => []PaidOnce
<1>1. IInv => PaidOnce
  BY DEF IInv
<1>2. QED BY <1>1, RedeemInvariant, PTL

\* Nothing is queued or being executed once drain has returned.
THEOREM NothingLeftBehind == Spec => []DrainedClean
<1>1. IInv => DrainedClean
  BY DEF IInv
<1>2. QED BY <1>1, RedeemInvariant, PTL

-----------------------------------------------------------------------------
(* The calls of the nested retries.                                         *)

\* The calls of one execution of a job with c credentials, those of n executions,
\* and how many of an execution are spent at the place where it stands.
Budget(c)       == c * BusyTries
Allowance(c, n) == n * Budget(c)
Spent           == (place.cred - 1) * BusyTries + place.try

\* A job has made no more calls than its retries allow: those of the executions
\* that are over, and of the running one those up to the present place.
CallsOK(j) ==
  /\ calls[j] <= Allowance(Creds, retries[j] + 1)
  /\ caller[j] = "monitor" => calls[j] = 0
  /\ Queued(j) => calls[j] <= Allowance(Creds, retries[j])
  /\ current = j /\ worker \in {"relay", "backoff"} =>
       calls[j] <= Allowance(Creds, retries[j]) + Spent

\* One execution more allows its budget more.
LEMMA AllowanceFacts ==
  ASSUME NEW c \in Nat, NEW n \in Nat
  PROVE  /\ Budget(c) \in Nat /\ Allowance(c, n) \in Nat
         /\ Allowance(c, n + 1) = Allowance(c, n) + Budget(c)
<1>1. BusyTries \in Nat
  BY PoolAssumption
<1>2. Budget(c) \in Nat
  BY <1>1, SMT DEF Budget
<1>3. QED BY <1>2, SMT DEF Allowance

\* More executions allow more calls.
LEMMA AllowanceGrows ==
  ASSUME NEW c \in Nat, NEW n \in Nat, NEW m \in Nat, n <= m
  PROVE  Allowance(c, n) <= Allowance(c, m)
<1>1. Budget(c) \in Nat
  BY AllowanceFacts
<1>2. QED BY <1>1, SMT DEF Allowance

\* No place is beyond the budget, and the next credential is further on.
LEMMA SpentFacts ==
  ASSUME NEW c \in Nat, NEW cred \in 1..c, NEW try \in 1..BusyTries
  PROVE  /\ (cred - 1) * BusyTries + try \in Nat
         /\ (cred - 1) * BusyTries + try <= Budget(c)
         /\ (cred - 1) * BusyTries + try < cred * BusyTries + 1
<1>1. BusyTries \in Nat /\ try \in Nat /\ cred \in Nat /\ cred >= 1
      /\ cred <= c /\ try >= 1 /\ try <= BusyTries
  BY PoolAssumption
<1>2. (cred - 1) * BusyTries \in Nat /\ cred * BusyTries \in Nat
      /\ cred * BusyTries = (cred - 1) * BusyTries + BusyTries
  BY <1>1, SMT
<1>3. cred * BusyTries <= c * BusyTries /\ c * BusyTries \in Nat
  BY <1>1, SMT
<1>4. QED BY <1>1, <1>2, <1>3 DEF Budget

\* A step that calls nothing, queues nothing and starts nothing.
LEMMA CallsKept ==
  ASSUME UNCHANGED <<keys, calls, retries>>, NEW j \in Job, CallsOK(j),
         caller'[j] = "monitor" => caller[j] = "monitor",
         Queued(j)' => Queued(j),
         current' = j /\ worker' \in {"relay", "backoff"} =>
           current = j /\ worker \in {"relay", "backoff"} /\ place' = place
  PROVE  CallsOK(j)'
BY SameCreds DEF CallsOK, Spent

\* One call more for the current job, at a place further on.
LEMMA CallMade ==
  ASSUME TypeOK, UNCHANGED keys, NEW j \in Job, NEW cred \in 1..Creds, NEW try \in 1..BusyTries,
         NEW n \in Nat, n < (cred - 1) * BusyTries + try,
         calls[j] <= Allowance(Creds, retries[j]) + n, caller[j] # "monitor", ~Queued(j)',
         Call(j, cred, try), current' = j, UNCHANGED <<caller, retries>>,
         NEW i \in Job, CallsOK(i), Queued(i)' => Queued(i)
  PROVE  CallsOK(i)'
<1>1. /\ calls \in [Job -> Nat] /\ retries[j] \in Nat /\ retries[i] \in Nat
      /\ calls' = [calls EXCEPT ![j] = @ + 1] /\ Creds \in Nat /\ Creds' = Creds
  BY MaxRetriesType, CredsType, SameCreds DEF TypeOK, Call
<1>2. CASE i = j
  <2>1. calls[j] \in Nat /\ calls'[j] = calls[j] + 1
    BY <1>1
  <2>2. /\ Allowance(Creds, retries[j]) \in Nat /\ Budget(Creds) \in Nat
        /\ Allowance(Creds, retries[j] + 1) = Allowance(Creds, retries[j]) + Budget(Creds)
    BY <1>1, AllowanceFacts
  <2> DEFINE spent == (cred - 1) * BusyTries + try
  <2>3. spent \in Nat /\ spent <= Budget(Creds)
    BY <1>1, SpentFacts
  <2>4. n < spent
    OBVIOUS
  <2>5. Spent' = spent
    BY DEF Spent, Call
  <2> HIDE DEF spent
  <2>6. calls'[j] <= Allowance(Creds, retries[j]) + spent
    BY <2>1, <2>2, <2>3, <2>4
  <2>7. calls'[j] <= Allowance(Creds, retries[j] + 1)
    BY <2>1, <2>2, <2>3, <2>6
  <2>8. QED BY <1>1, <1>2, <2>5, <2>6, <2>7 DEF CallsOK
<1>3. CASE i # j
  <2>1. calls'[i] = calls[i]
    BY <1>1, <1>3
  <2>2. QED BY <1>1, <1>3, <2>1 DEF CallsOK
<1>4. QED BY <1>2, <1>3

\* The batch failed: another execution is queued, or none.
LEMMA FailedCalls ==
  ASSUME IInv, worker = "relay", JobFailed, UNCHANGED <<keys, caller>>,
         \A j \in Job : CallsOK(j), NEW i \in Job
  PROVE  CallsOK(i)'
<1>1. TypeOK /\ JobsOK /\ Creds \in Nat /\ Creds' = Creds
  BY CredsType, SameCreds DEF IInv, TypeOK
<1>2. current \in Job /\ current' = None /\ worker' = "loop" /\ calls' = calls
  BY <1>1 DEF TypeOK, JobsOK, SerialLocked, JobFailed, JobEnds
<1>3. CASE RetryLeft(current)
  <2>1. retries' = [retries EXCEPT ![current] = @ + 1]
        /\ heap' = heap \cup {[job |-> current, at |-> now + RetryGap, seq |-> seq + 1]}
    BY <1>3 DEF JobFailed, Push
  <2>2. Queued(i)' => Queued(i) \/ i = current
    BY <2>1 DEF Queued
  <2>3. retries \in [Job -> Nat] /\ calls[i] \in Nat
    BY <1>1, MaxRetriesType DEF TypeOK
  <2>4. CASE i = current
    <3>1. retries'[i] = retries[i] + 1 /\ retries[i] \in Nat /\ retries[i] + 1 \in Nat
      BY <2>1, <2>3, <2>4
    <3>2. /\ Allowance(Creds, retries[i] + 1) \in Nat /\ Budget(Creds) \in Nat
          /\ Allowance(Creds, retries[i] + 1 + 1) = Allowance(Creds, retries[i] + 1) + Budget(Creds)
      BY <1>1, <3>1, AllowanceFacts
    <3>3. calls[i] <= Allowance(Creds, retries[i] + 1) /\ caller[i] # "monitor"
      BY <1>1, <1>2, <2>4 DEF CallsOK, JobsOK
    <3>4. calls[i] <= Allowance(Creds, retries[i] + 1 + 1)
      BY <2>3, <3>2, <3>3
    <3>5. QED BY <1>1, <1>2, <3>1, <3>3, <3>4, NoneAssumption DEF CallsOK
  <2>5. CASE i # current
    <3>1. retries'[i] = retries[i]
      BY <2>1, <2>3, <2>5
    <3>2. QED BY <1>1, <1>2, <2>2, <2>5, <3>1, NoneAssumption DEF CallsOK
  <2>6. QED BY <2>4, <2>5
<1>4. CASE ~RetryLeft(current)
  <2>1. UNCHANGED <<retries, queue>>
    BY <1>4 DEF JobFailed
  <2>2. QED BY <1>2, <2>1, CallsKept DEF queue, Queued
<1>5. QED BY <1>3, <1>4

\* A call failed: another try, another credential, or the end of the batch.
LEMMA AnotherCall ==
  ASSUME IInv, worker = "relay", NEW err \in SUBSET {"busy", "rate"}, CallFailed(err),
         UNCHANGED <<keys, caller>>, \A j \in Job : CallsOK(j), NEW i \in Job
  PROVE  CallsOK(i)'
<1>1. TypeOK /\ JobsOK /\ QueuedOnce
  BY DEF IInv
<1>2. current \in Job /\ caller[current] # "monitor" /\ ~Queued(current)
  BY <1>1 DEF TypeOK, JobsOK, SerialLocked, QueuedOnce, Queued
<1>3. place.try \in 1..BusyTries /\ place.cred \in 1..Creds /\ Creds \in Nat
  BY <1>1, CredsType DEF TypeOK, JobsOK
<1>4. CASE "busy" \in err /\ place.try < BusyTries
  <2>1. worker' = "backoff" /\ UNCHANGED <<heap, current, place, retries, calls>>
    BY <1>4 DEF CallFailed, queue, jobState
  <2>2. QED BY <2>1, CallsKept DEF Queued
<1>5. CASE ~("busy" \in err /\ place.try < BusyTries) /\ "rate" \in err /\ place.cred < Creds
  <2>1. PICK next \in 1..Creds : next = place.cred + 1
    BY <1>3, <1>5
  <2>2. Call(current, next, 1) /\ UNCHANGED <<heap, current, retries>>
    BY <1>5, <2>1 DEF CallFailed, queue, jobState
  <2>3. 1 \in 1..BusyTries /\ Spent \in Nat /\ Spent < (next - 1) * BusyTries + 1
    <3>1. next - 1 = place.cred
      BY <1>3, <2>1
    <3>2. Spent \in Nat /\ Spent < place.cred * BusyTries + 1
      BY <1>3, SpentFacts DEF Spent
    <3>3. QED BY <3>1, <3>2, PoolAssumption
  <2>4. calls[current] <= Allowance(Creds, retries[current]) + Spent
    BY <1>2 DEF CallsOK
  <2>5. ~Queued(current)' /\ (Queued(i)' => Queued(i)) /\ current' = current
    BY <1>2, <2>2 DEF Queued
  <2>6. QED BY <1>1, <1>2, <2>2, <2>3, <2>4, <2>5, CallMade
<1>6. CASE /\ ~("busy" \in err /\ place.try < BusyTries)
           /\ ~("rate" \in err /\ place.cred < Creds)
  <2>1. JobFailed
    BY <1>6 DEF CallFailed
  <2>2. QED BY <2>1, FailedCalls
<1>7. QED BY <1>4, <1>5, <1>6

\* Every step keeps the calls within what the retries allow.
LEMMA CallsStep ==
  ASSUME IInv, [Next]_vars, \A j \in Job : CallsOK(j), NEW i \in Job
  PROVE  CallsOK(i)'
<1>1. TypeOK /\ JobsOK /\ QueuedOnce
  BY DEF IInv
<1>2. CASE \/ \E j \in Job : ScheduleReturns(j) \/ CycleFails(j) \/ TxSettles(j)
           \/ LeaveCycles \/ DrainReturns \/ DrainPolls \/ ShutdownReturns
           \/ PostOver \/ WorkerStops \/ RelayerTakes \/ RelayerAnswersHash
           \/ TimePasses \/ RunOver \/ UNCHANGED vars
  <2>1. UNCHANGED <<keys, calls, retries, heap>>
    BY <1>2 DEF ScheduleReturns, CycleFails, TxSettles, LeaveCycles, DrainReturns,
                DrainPolls, ShutdownReturns, PostOver, WorkerStops, RelayerTakes,
                RelayerAnswersHash, CallSucceeded, TimePasses, RunOver, vars, queue, jobState
  <2>2. caller'[i] = "monitor" => caller[i] = "monitor"
    <3>1. caller \in [Job -> {"monitor", "waiting", "back", "gone"}]
      BY <1>1 DEF TypeOK
    <3>2. QED
      BY <1>2, <3>1 DEF ScheduleReturns, CycleFails, TxSettles, LeaveCycles, DrainReturns,
                DrainPolls, ShutdownReturns, PostOver, WorkerStops, RelayerTakes,
                RelayerAnswersHash, TimePasses, RunOver, vars
  <2>3. worker' \in {"relay", "backoff"} =>
          worker \in {"relay", "backoff"} /\ current' = current /\ place' = place
    BY <1>2 DEF ScheduleReturns, CycleFails, TxSettles, LeaveCycles, DrainReturns,
                DrainPolls, ShutdownReturns, PostOver, JobEnds, WorkerStops, RelayerTakes,
                RelayerAnswersHash, CallSucceeded, TimePasses, RunOver, vars
  <2>4. QED BY <2>1, <2>2, <2>3, CallsKept DEF Queued
<1>3. ASSUME NEW j \in Job, Schedule(j) PROVE CallsOK(i)'
  <2>1. /\ UNCHANGED <<keys, calls, retries, current, worker, place>>
        /\ caller' = [caller EXCEPT ![j] = IF Waits THEN "waiting" ELSE "back"]
        /\ caller[j] = "monitor"
    BY <1>3 DEF Schedule, CycleRuns
  <2>2. Queued(i)' => Queued(i) \/ i = j
    BY <1>3 DEF Schedule, Push, Queued
  <2>3. caller'[i] = "monitor" => caller[i] = "monitor"
    BY <1>1, <2>1 DEF TypeOK
  <2>4. CASE i = j
    <3>1. retries[i] \in Nat /\ calls[i] = 0 /\ Creds \in Nat /\ Creds' = Creds
      BY <1>1, <2>1, <2>4, MaxRetriesType, CredsType, SameCreds DEF TypeOK, CallsOK
    <3>2. Allowance(Creds, retries[i]) \in Nat
      BY <1>1, <3>1, AllowanceFacts
    <3>3. calls[i] <= Allowance(Creds, retries[i])
      BY <3>1, <3>2
    <3>4. QED BY <2>1, <2>3, <3>1, <3>3 DEF CallsOK, Spent
  <2>5. CASE i # j
    BY <2>1, <2>2, <2>3, <2>5, CallsKept
  <2>6. QED BY <2>4, <2>5
<1>4. ASSUME NEW e \in heap, RunSimulated(e) PROVE CallsOK(i)'
  <2>1. UNCHANGED <<keys, calls, retries, caller, current, worker, place>> /\ heap' \subseteq heap
    BY <1>4 DEF RunSimulated, Pop
  <2>2. QED BY <2>1, CallsKept DEF Queued
<1>5. ASSUME NEW e \in heap, StartJob(e) PROVE CallsOK(i)'
  <2>1. /\ Call(e.job, 1, 1) /\ current' = e.job /\ UNCHANGED <<keys, caller, retries>>
        /\ heap' = heap \ {e} /\ Creds > 0 /\ Creds \in Nat
    BY <1>1, <1>5, CredsType DEF StartJob, Pop, jobState, TypeOK
  <2>2. e.job \in Job /\ Queued(e.job)
    BY <1>1 DEF TypeOK, Entry, Queued
  <2>3. ~Queued(e.job)' /\ (Queued(i)' => Queued(i))
    BY <1>1, <2>1 DEF QueuedOnce, Queued
  <2>4. caller[e.job] # "monitor"
    BY <1>1, <2>2 DEF JobsOK
  <2>5. retries[e.job] \in Nat /\ calls[e.job] \in Nat
    BY <1>1, <2>2, MaxRetriesType DEF TypeOK
  <2>6. calls[e.job] <= Allowance(Creds, retries[e.job]) + 0
    <3>1. Allowance(Creds, retries[e.job]) \in Nat
      BY <2>1, <2>5, AllowanceFacts
    <3>2. calls[e.job] <= Allowance(Creds, retries[e.job])
      BY <2>2 DEF CallsOK
    <3>3. QED BY <2>5, <3>1, <3>2
  <2>7. 1 \in 1..Creds /\ 1 \in 1..BusyTries /\ 0 < (1 - 1) * BusyTries + 1
    BY <2>1, PoolAssumption
  <2>8. QED BY <1>1, <2>1, <2>2, <2>3, <2>4, <2>6, <2>7, CallMade
<1>6. CASE BackoffOver
  <2>1. /\ Call(current, place.cred, place.try + 1)
        /\ UNCHANGED <<keys, caller, retries, heap, current>>
        /\ worker = "backoff"
    BY <1>6 DEF BackoffOver, queue, jobState
  <2>2. /\ current \in Job /\ caller[current] # "monitor" /\ ~Queued(current)
        /\ place.try < BusyTries
    BY <1>1, <2>1 DEF TypeOK, JobsOK, SerialLocked, QueuedOnce, Queued
  <2>3. place.try \in 1..BusyTries /\ place.cred \in 1..Creds /\ Creds \in Nat
    BY <1>1, <2>1, CredsType DEF TypeOK, JobsOK
  <2>4. place.try + 1 \in 1..BusyTries
    BY <2>2, <2>3, PoolAssumption
  <2>5. Spent \in Nat /\ Spent < (place.cred - 1) * BusyTries + (place.try + 1)
    <3>1. (place.cred - 1) * BusyTries \in Nat
      BY <2>3, PoolAssumption, SMT
    <3>2. QED BY <2>3, <3>1 DEF Spent
  <2>6. calls[current] <= Allowance(Creds, retries[current]) + Spent
    BY <2>1, <2>2 DEF CallsOK
  <2>7. Queued(i)' <=> Queued(i)
    BY <2>1 DEF Queued
  <2>8. ~Queued(current)'
    BY <2>1, <2>2 DEF Queued
  <2>9. QED BY <1>1, <2>1, <2>2, <2>3, <2>4, <2>5, <2>6, <2>7, <2>8, CallMade
<1>7. CASE RelayerRefuses
  BY <1>7, AnotherCall DEF RelayerRefuses
<1>8. CASE RelayerAnswersNone
  BY <1>8, AnotherCall DEF RelayerAnswersNone
<1>9. ASSUME NEW e \in heap, RunWithoutCreds(e) PROVE CallsOK(i)'
  <2>1. /\ UNCHANGED <<keys, calls, caller, current, worker, place>>
        /\ worker = "loop" /\ Creds' = Creds /\ Creds \in Nat /\ e.job \in Job
        /\ retries \in [Job -> Nat] /\ calls[i] \in Nat
    BY <1>1, <1>9, SameCreds, CredsType, MaxRetriesType
    DEF RunWithoutCreds, Due, TypeOK, Entry
  <2>2. Queued(e.job) /\ (Queued(i)' => Queued(i))
    BY <1>9, <2>1 DEF RunWithoutCreds, Requeue, Pop, Queued
  <2>3. CASE retries' = [retries EXCEPT ![e.job] = @ + 1] /\ i = e.job
    <3>1. /\ Allowance(Creds, retries[i]) \in Nat /\ Budget(Creds) \in Nat
          /\ Allowance(Creds, retries[i] + 1) = Allowance(Creds, retries[i]) + Budget(Creds)
          /\ Allowance(Creds, retries[i] + 1 + 1)
               = Allowance(Creds, retries[i] + 1) + Budget(Creds)
      BY <2>1, AllowanceFacts
    <3>2. calls[i] <= Allowance(Creds, retries[i]) /\ retries'[i] = retries[i] + 1
      BY <2>1, <2>2, <2>3 DEF CallsOK
    <3>3. /\ calls'[i] <= Allowance(Creds, retries'[i])
          /\ calls'[i] <= Allowance(Creds, retries'[i] + 1)
      BY <2>1, <3>1, <3>2
    <3>4. QED BY <2>1, <3>3 DEF CallsOK
  <2>4. CASE retries'[i] = retries[i]
    BY <2>1, <2>2, <2>4 DEF CallsOK
  <2>5. QED BY <1>9, <2>1, <2>3, <2>4 DEF RunWithoutCreds
<1>10. QED
  BY <1>2, <1>3, <1>4, <1>5, <1>6, <1>7, <1>8, <1>9 DEF Next, Cycles, Worker, Answer

\* No job makes more calls than the product of retries, credentials and busy
\* tries, for any numbers of them; without a credential it makes none.
THEOREM CallsAreBounded == Spec => []CallBudget
<1> DEFINE CallsInv == \A j \in Job : CallsOK(j)
<1>1. Init => CallsInv
  <2> SUFFICES ASSUME Init, NEW j \in Job PROVE CallsOK(j)
    OBVIOUS
  <2>1. retries[j] = 0 /\ calls[j] = 0 /\ heap = {} /\ worker = "loop"
    BY DEF Init
  <2>2. Allowance(Creds, 0) \in Nat /\ Allowance(Creds, 0 + 1) \in Nat
    BY AllowanceFacts, CredsType DEF Init
  <2>3. 0 <= Allowance(Creds, 0) /\ 0 <= Allowance(Creds, 0 + 1)
    BY <2>2
  <2>4. QED BY <2>1, <2>3 DEF CallsOK, Queued
<1>2. IInv /\ CallsInv /\ [Next]_vars => CallsInv'
  BY CallsStep
<1>3. IInv /\ CallsInv => CallBudget
  <2> SUFFICES ASSUME IInv, CallsInv, NEW j \in Job
               PROVE  calls[j] <= (MaxRetries + 1) * Creds * BusyTries
    BY DEF CallBudget
  <2>1. retries[j] \in 0..MaxRetries /\ calls[j] \in Nat /\ MaxRetries \in Nat
        /\ Creds \in Nat
    BY MaxRetriesType, CredsType DEF IInv, TypeOK
  <2>2. calls[j] <= Allowance(Creds, retries[j] + 1)
    BY DEF CallsOK
  <2>3. Allowance(Creds, retries[j] + 1) <= Allowance(Creds, MaxRetries + 1)
    BY <2>1, AllowanceGrows
  <2>4. Allowance(Creds, retries[j] + 1) \in Nat /\ Allowance(Creds, MaxRetries + 1) \in Nat
    <3>1. retries[j] + 1 \in Nat /\ MaxRetries + 1 \in Nat
      BY <2>1
    <3>2. QED BY <2>1, <3>1, AllowanceFacts
  <2>5. Allowance(Creds, MaxRetries + 1) = (MaxRetries + 1) * Creds * BusyTries
    BY <2>1, PoolAssumption, SMT DEF Allowance, Budget
  <2>6. QED BY <2>1, <2>2, <2>3, <2>4, <2>5
<1>4. QED BY <1>1, <1>2, <1>3, RedeemInvariant, PTL DEF Spec

-----------------------------------------------------------------------------
(* The abstract queue.                                                      *)

\* The tries a job has used up, as ImplementsQueue maps them.
Used(j) == IF Status(j) = "dropped" THEN MaxRetries + 1 ELSE retries[j]

\* A job that is queued, executed or paid was asked for by its cycle.
AskedOK == \A j \in Job : Queued(j) \/ current = j \/ summary[j] = TRUE => Asked(j)

\* What a step may leave of the queue: nothing has changed for job i.
Same(i) == Status(i)' = Status(i) /\ Used(i)' = Used(i)

NoneActive == \A i \in Job : Status(i) # "active"

Asks(j)   == /\ Status(j) = "new" /\ caller'[j] \in {"waiting", "back"}
             /\ Status(j)' = "queued" /\ Used(j)' = Used(j)
Starts(j) == /\ Status(j) = "queued" /\ NoneActive
             /\ Status(j)' = "active" /\ Used(j)' = Used(j)
Pays(j)   == /\ Status(j) = "active" \/ (Status(j) = "queued" /\ NoneActive)
             /\ Status(j)' = "paid" /\ Used(j)' = Used(j)
Fails(j)  == /\ Status(j) = "active" \/ (Status(j) = "queued" /\ NoneActive)
             /\ Used(j)' = Used(j) + 1
             /\ Status(j)' = IF Used(j) + 1 < MaxRetries + 1 THEN "queued" ELSE "dropped"

Changes(j) ==
  /\ Asks(j) \/ Starts(j) \/ Pays(j) \/ Fails(j)
  /\ \A i \in Job \ {j} : Same(i)

\* What does not touch a job leaves its status.
LEMMA SameStatus ==
  ASSUME NEW i \in Job, Queued(i)' <=> Queued(i), current' = i <=> current = i,
         summary'[i] = summary[i], Asked(i)' <=> Asked(i), retries'[i] = retries[i]
  PROVE  Same(i)
<1>1. CASE current = i
  <2>1. Status(i)' = "active" /\ Status(i) = "active"
    BY <1>1 DEF Status, Queued, Asked
  <2>2. QED BY <2>1 DEF Same, Used
<1>2. CASE current # i /\ Queued(i)
  <2>1. Status(i)' = "queued" /\ Status(i) = "queued"
    BY <1>2 DEF Status, Queued, Asked
  <2>2. QED BY <2>1 DEF Same, Used
<1>3. CASE current # i /\ ~Queued(i)
  <2>1. /\ Status(i) = (IF summary[i] THEN "paid" ELSE IF Asked(i) THEN "dropped" ELSE "new")
        /\ Status(i)' = (IF summary'[i] THEN "paid" ELSE IF Asked(i)' THEN "dropped" ELSE "new")
    BY <1>3, Zenon DEF Status, Queued, Asked
  <2>2. CASE Asked(i)
    <3>1. Status(i)' = Status(i)
      BY <2>1, <2>2
    <3>2. QED BY <3>1 DEF Same, Used
  <2>3. CASE ~Asked(i)
    <3>1. Status(i)' = Status(i)
      BY <2>1, <2>3
    <3>2. QED BY <3>1 DEF Same, Used
  <2>4. QED BY <2>2, <2>3
<1>4. QED BY <1>1, <1>2, <1>3

\* The steps that leave heap, current job, retries and summaries alone.
LEMMA QuietQueue ==
  ASSUME IInv, UNCHANGED <<heap, current, summary, retries>>,
         \A j \in Job : Asked(j)' <=> Asked(j), NEW i \in Job
  PROVE  Same(i)
<1>1. Queued(i)' <=> Queued(i)
  BY DEF Queued
<1>2. QED BY <1>1, SameStatus

\* A cycle queues its job.
LEMMA ScheduleAsks ==
  ASSUME IInv, AskedOK, NEW j \in Job, Schedule(j)
  PROVE  Changes(j)
<1>1. TypeOK /\ HeapOK /\ JobsOK
  BY DEF IInv
<1>2. PICK late \in Lateness : Push(j, now - late + Delay + Slot[j] * Gap)
  BY DEF Schedule
<1>3. PICK new : heap' = heap \cup {new} /\ new.job = j
  <2>1. now - late + Delay + Slot[j] * Gap \in Int
    <3>1. now \in Int /\ late \in Int /\ Delay \in Int /\ Slot[j] \in Int /\ Gap \in Int
      BY <1>1, DelayAssumption, JobAssumption DEF TypeOK
    <3>2. Slot[j] * Gap \in Int
      BY <3>1
    <3>3. QED BY <3>1, <3>2
  <2>2. QED BY <1>1, <1>2, <2>1, PushHeap
<1>4. /\ caller[j] = "monitor" /\ caller' = [caller EXCEPT ![j] = IF Waits THEN "waiting" ELSE "back"]
      /\ UNCHANGED <<current, retries, summary>>
  BY DEF Schedule, CycleRuns
<1>5. ~Queued(j) /\ current # j /\ summary[j] = FALSE
  BY <1>1, <1>4 DEF JobsOK, TypeOK
<1>6. ~Asked(j)
  BY <1>4 DEF Asked
<1>7. Status(j) = "new"
  BY <1>5, <1>6 DEF Status, Queued, Asked
<1>8. Status(j)' = "queued"
  BY <1>3, <1>4, <1>5 DEF Status, Queued, Asked
<1>9. Used(j)' = Used(j)
  BY <1>4, <1>7, <1>8 DEF Used
<1>10. ASSUME NEW i \in Job \ {j} PROVE Same(i)
  <2>1. Queued(i)' <=> Queued(i)
    BY <1>3 DEF Queued
  <2>2. Asked(i)' <=> Asked(i)
    BY <1>1, <1>4 DEF Asked, TypeOK
  <2>3. QED BY <1>4, <2>1, <2>2, SameStatus
<1>11. caller'[j] \in {"waiting", "back"}
  BY <1>1, <1>4 DEF TypeOK
<1>12. QED BY <1>7, <1>8, <1>9, <1>10, <1>11 DEF Changes, Asks

\* The worker starts a job, or pays a simulated one, while no other is active.
LEMMA PopChanges ==
  ASSUME IInv, NEW e \in heap, RunSimulated(e) \/ StartJob(e)
  PROVE  Changes(e.job)
<1> DEFINE j == e.job
<1>1. TypeOK /\ HeapOK /\ JobsOK /\ QueuedOnce
  BY DEF IInv
<1>2. j \in Job /\ j # None
  BY <1>1, NoneAssumption DEF TypeOK, Entry
<1>3. heap' = heap \ {e} /\ UNCHANGED <<caller, retries>>
  BY <1>1, PopHeap DEF RunSimulated, StartJob, jobState
<1>4. current = None
  BY <1>1 DEF RunSimulated, StartJob, Due, JobsOK, SerialLocked
<1>5. Queued(j) /\ ~Queued(j)' /\ \A i \in Job \ {j} : Queued(i)' <=> Queued(i)
  BY <1>1, <1>3 DEF Queued, QueuedOnce
<1>6. Status(j) = "queued" /\ NoneActive
  <2>1. Status(j) = "queued"
    BY <1>2, <1>4, <1>5 DEF Status, Queued, Asked
  <2>2. ASSUME NEW i \in Job PROVE Status(i) # "active"
    BY <1>4, NoneAssumption DEF Status, Queued, Asked
  <2>3. QED BY <2>1, <2>2 DEF NoneActive
<1>7. ASSUME NEW i \in Job \ {j}, summary'[i] = summary[i], current' # i PROVE Same(i)
  <2>1. Queued(i)' <=> Queued(i)
    BY <1>5
  <2>2. Asked(i)' <=> Asked(i)
    BY <1>3 DEF Asked
  <2>3. current # i
    BY <1>4, NoneAssumption
  <2>4. retries'[i] = retries[i]
    BY <1>3
  <2>5. QED BY <1>7, <2>1, <2>2, <2>3, <2>4, SameStatus
<1> HIDE DEF j
<1>8. CASE RunSimulated(e)
  <2>1. summary' = [summary EXCEPT ![j] = TRUE] /\ current' = current
    BY <1>8 DEF RunSimulated, j
  <2>2. Status(j)' = "paid"
    BY <1>1, <1>2, <1>4, <1>5, <2>1 DEF Status, TypeOK, Queued, Asked
  <2>3. Used(j)' = Used(j)
    BY <1>3, <1>6, <2>2 DEF Used
  <2>4. ASSUME NEW i \in Job \ {j} PROVE Same(i)
    BY <1>1, <1>4, <1>7, <2>1, NoneAssumption DEF TypeOK
  <2>5. QED BY <1>6, <2>2, <2>3, <2>4 DEF Changes, Pays, j
<1>9. CASE StartJob(e)
  <2>1. summary' = summary /\ current' = j
    BY <1>9 DEF StartJob, jobState, j
  <2>2. Status(j)' = "active"
    BY <2>1 DEF Status, Queued, Asked
  <2>3. Used(j)' = Used(j)
    BY <1>3, <1>6, <2>2 DEF Used
  <2>4. ASSUME NEW i \in Job \ {j} PROVE Same(i)
    BY <1>7, <2>1
  <2>5. QED BY <1>6, <2>2, <2>3, <2>4 DEF Changes, Starts, j
<1>10. QED BY <1>8, <1>9 DEF j

\* Without a credential the worker's job fails while no other is active.
LEMMA KeylessFails ==
  ASSUME IInv, AskedOK, NEW e \in heap, RunWithoutCreds(e)
  PROVE  Changes(e.job)
<1> DEFINE j == e.job
<1>1. TypeOK /\ HeapOK /\ JobsOK /\ QueuedOnce /\ PaidOnce
  BY DEF IInv
<1>2. j \in Job /\ j # None
  BY <1>1, NoneAssumption DEF TypeOK, Entry
<1>3. current = None /\ UNCHANGED <<caller, current, summary>>
  BY <1>1 DEF RunWithoutCreds, Due, JobsOK, SerialLocked
<1>4. \A i \in Job : current # i /\ current' # i /\ (Asked(i)' <=> Asked(i))
  BY <1>3, NoneAssumption DEF Asked
<1>5. Queued(j)
  BY DEF Queued
<1>6. Status(j) = "queued" /\ NoneActive
  <2>1. Status(j) = "queued"
    BY <1>2, <1>4, <1>5 DEF Status, Queued, Asked
  <2>2. ASSUME NEW i \in Job PROVE Status(i) # "active"
    BY <1>4 DEF Status, Queued, Asked
  <2>3. QED BY <2>1, <2>2 DEF NoneActive
<1>7. /\ Used(j) = retries[j] /\ retries \in [Job -> 0..MaxRetries] /\ MaxRetries \in Nat
      /\ retries[j] \in 0..MaxRetries
  BY <1>1, <1>2, <1>6, MaxRetriesType DEF Used, TypeOK
<1>8. Asked(j) /\ summary[j] = FALSE
  <2>1. Asked(j)
    BY <1>2, <1>5 DEF AskedOK
  <2>2. ~summary[j] /\ summary[j] \in BOOLEAN
    BY <1>1, <1>2, <1>5 DEF PaidOnce, TypeOK
  <2>3. QED BY <2>1, <2>2
<1>9. \A i \in Job \ {j} : Queued(i)' <=> Queued(i)
  BY DEF RunWithoutCreds, Requeue, Pop, Queued
<1>10. ASSUME NEW i \in Job \ {j}, retries'[i] = retries[i] PROVE Same(i)
  BY <1>3, <1>4, <1>9, <1>10, SameStatus
<1>11. CASE RetryLeft(j)
  <2>1. Requeue(e, now + RetryGap) /\ retries' = [retries EXCEPT ![j] = @ + 1]
    BY <1>11 DEF RunWithoutCreds
  <2>2. Queued(j)'
    <3> DEFINE new == [job |-> e.job, at |-> now + RetryGap, seq |-> seq + 1]
    <3>1. new \in heap' /\ new.job = j
      BY <2>1 DEF Requeue
    <3>2. QED BY <3>1 DEF Queued
  <2>3. Status(j)' = "queued"
    BY <1>2, <1>4, <2>2 DEF Status, Queued, Asked
  <2>4. Used(j)' = Used(j) + 1 /\ Used(j) + 1 < MaxRetries + 1
    BY <1>2, <1>7, <1>11, <2>1, <2>3 DEF Used, RetryLeft
  <2>5. ASSUME NEW i \in Job \ {j} PROVE Same(i)
    BY <1>2, <1>7, <1>10, <2>1
  <2>6. QED BY <1>6, <2>3, <2>4, <2>5 DEF Changes, Fails
<1>12. CASE ~RetryLeft(j)
  <2>1. Pop(e) /\ retries' = retries
    BY <1>12 DEF RunWithoutCreds
  <2>2. ~Queued(j)'
    BY <1>1, <2>1 DEF Pop, Queued, QueuedOnce
  <2>3. Status(j)' = "dropped"
    BY <1>2, <1>3, <1>4, <1>8, <2>2 DEF Status, Queued, Asked
  <2>4. Used(j)' = Used(j) + 1 /\ ~(Used(j) + 1 < MaxRetries + 1)
    BY <1>2, <1>7, <1>12, <2>3 DEF Used, RetryLeft
  <2>5. ASSUME NEW i \in Job \ {j} PROVE Same(i)
    BY <1>10, <2>1
  <2>6. QED BY <1>6, <2>3, <2>4, <2>5 DEF Changes, Fails
<1>13. QED BY <1>11, <1>12

\* A paid job is final when the monitoring that follows it is over.
LEMMA PostPays ==
  ASSUME IInv, PostOver
  PROVE  \E k \in Job : Changes(k)
<1>1. TypeOK /\ JobsOK /\ QueuedOnce
  BY DEF IInv
<1>2. worker = "post" /\ current' = None /\ UNCHANGED <<caller, queue, retries, summary>>
  BY DEF PostOver, JobEnds
<1>3. current \in Job /\ summary[current] = TRUE /\ ~Queued(current)
  BY <1>1, <1>2 DEF JobsOK, SerialLocked, TypeOK, QueuedOnce, Queued
<1>4. \A i \in Job : (Queued(i)' <=> Queued(i)) /\ (Asked(i)' <=> Asked(i))
  BY <1>2 DEF Queued, Asked, queue
<1>5. Status(current) = "active"
  BY DEF Status, Queued, Asked
<1>6. \A i \in Job : current' # i
  BY <1>2, NoneAssumption
<1>7. ASSUME NEW k \in Job, k = current PROVE Changes(k)
  <2>1. Status(k) = "active" /\ summary[k] = TRUE /\ ~Queued(k)
    BY <1>3, <1>5, <1>7
  <2>2. Status(k)' = "paid"
    BY <1>2, <1>4, <1>6, <2>1 DEF Status, Queued, Asked
  <2>3. Used(k)' = Used(k)
    BY <1>2, <2>1, <2>2 DEF Used
  <2>4. ASSUME NEW i \in Job \ {k} PROVE Same(i)
    BY <1>2, <1>4, <1>6, <1>7, SameStatus
  <2>5. QED BY <2>1, <2>2, <2>3, <2>4 DEF Changes, Pays
<1>8. QED BY <1>3, <1>7

\* A failed job is queued again while it has a retry left, and dropped otherwise.
LEMMA FailedFails ==
  ASSUME IInv, IInv', AskedOK, worker = "relay", JobFailed,
         UNCHANGED <<keys, now, main, caller, active, tx>>
  PROVE  \E k \in Job : Changes(k)
<1>1. TypeOK /\ HeapOK /\ JobsOK /\ QueuedOnce /\ PaidOnce
  BY DEF IInv
<1>2. current \in Job /\ current # None /\ ~Queued(current)
  BY <1>1 DEF JobsOK, SerialLocked, TypeOK, QueuedOnce, Queued
<1>3. current' = None /\ UNCHANGED <<caller, summary>>
  BY DEF JobFailed, JobEnds
<1>4. \A i \in Job : (Asked(i)' <=> Asked(i)) /\ current' # i
  BY <1>3, NoneAssumption DEF Asked
<1>5. ASSUME NEW k \in Job, k = current PROVE Changes(k)
  <2>1. Status(k) = "active" /\ Used(k) = retries[k]
    BY <1>5 DEF Status, Used, Queued, Asked
  <2>2. Asked(k) /\ summary[k] = FALSE
    <3>1. ~summary[k]
      BY <1>1, <1>5 DEF PaidOnce
    <3>2. summary[k] \in BOOLEAN
      BY <1>1 DEF TypeOK
    <3>3. QED BY <1>5, <3>1, <3>2 DEF AskedOK
  <2>3. retries[k] \in 0..MaxRetries /\ MaxRetries \in Nat /\ retries \in [Job -> 0..MaxRetries]
    BY <1>1, MaxRetriesType DEF TypeOK
  <2>4. CASE RetryLeft(k)
    <3>1. Push(k, now + RetryGap) /\ retries' = [retries EXCEPT ![k] = @ + 1]
      BY <1>5, <2>4 DEF JobFailed
    <3>2. now + RetryGap \in Int
      BY <1>1, RetryAssumption DEF TypeOK
    <3>3. PICK new : heap' = heap \cup {new} /\ new.job = k
      BY <1>1, <3>1, <3>2, PushHeap
    <3>4. Queued(k)' /\ \A i \in Job \ {k} : Queued(i)' <=> Queued(i)
      BY <3>3 DEF Queued
    <3>5. Status(k)' = "queued"
      BY <1>4, <3>4 DEF Status, Queued, Asked
    <3>6. Used(k)' = Used(k) + 1 /\ Used(k) + 1 < MaxRetries + 1
      BY <2>1, <2>3, <2>4, <3>1, <3>5 DEF Used, RetryLeft
    <3>7. ASSUME NEW i \in Job \ {k} PROVE Same(i)
      <4>1. retries'[i] = retries[i]
        BY <2>3, <3>1
      <4>2. QED BY <1>3, <1>4, <1>5, <3>4, <4>1, SameStatus
    <3>8. QED BY <2>1, <3>5, <3>6, <3>7 DEF Changes, Fails
  <2>5. CASE ~RetryLeft(k)
    <3>1. UNCHANGED <<retries, queue>>
      BY <1>5, <2>5 DEF JobFailed
    <3>2. \A i \in Job : Queued(i)' <=> Queued(i)
      BY <3>1 DEF Queued, queue
    <3>3. Status(k)' = "dropped"
      BY <1>2, <1>3, <1>4, <1>5, <2>2, <3>2 DEF Status, Queued, Asked
    <3>4. Used(k)' = Used(k) + 1 /\ ~(Used(k) + 1 < MaxRetries + 1)
      BY <2>1, <2>3, <2>5, <3>3 DEF Used, RetryLeft
    <3>5. ASSUME NEW i \in Job \ {k} PROVE Same(i)
      BY <1>3, <1>4, <1>5, <3>1, <3>2, SameStatus
    <3>6. QED BY <2>1, <3>3, <3>4, <3>5 DEF Changes, Fails
  <2>6. QED BY <2>4, <2>5
<1>6. QED BY <1>2, <1>5

\* A call that returns a hash leaves its job active.
LEMMA SucceededSame ==
  ASSUME IInv, worker = "relay", CallSucceeded, UNCHANGED caller, NEW i \in Job
  PROVE  Same(i)
<1>1. TypeOK /\ JobsOK
  BY DEF IInv
<1>2. summary' = [summary EXCEPT ![current] = TRUE] /\ UNCHANGED <<queue, current, retries>>
  BY DEF CallSucceeded
<1>3. CASE current = i
  BY <1>2, <1>3 DEF Same, Status, Used, Queued, Asked
<1>4. CASE current # i
  <2>1. Queued(i)' <=> Queued(i)
    BY <1>2 DEF Queued, queue
  <2>2. Asked(i)' <=> Asked(i)
    BY DEF Asked
  <2>3. summary'[i] = summary[i]
    BY <1>1, <1>2, <1>4 DEF TypeOK
  <2>4. QED BY <1>2, <1>4, <2>1, <2>2, <2>3, SameStatus
<1>5. QED BY <1>3, <1>4

\* Every step changes one job, in one of four ways, or none.
LEMMA QueueStep ==
  ASSUME IInv, IInv', AskedOK, [Next]_vars
  PROVE  (\E j \in Job : Changes(j)) \/ (\A i \in Job : Same(i))
<1> DEFINE Goal == (\E j \in Job : Changes(j)) \/ (\A i \in Job : Same(i))
<1>1. CASE \E j \in Job : Schedule(j)
  BY <1>1, ScheduleAsks, Zenon
<1>2. ASSUME NEW e \in heap, RunSimulated(e) \/ StartJob(e) PROVE Goal
  <2>1. e.job \in Job
    BY DEF IInv, TypeOK, Entry
  <2>2. QED BY <1>2, <2>1, PopChanges, Zenon
<1>3. CASE PostOver
  BY <1>3, PostPays, Zenon
<1>4. ASSUME NEW err \in SUBSET {"busy", "rate"}, worker = "relay", CallFailed(err),
             UNCHANGED <<keys, now, main, caller, active, tx>>
      PROVE  Goal
  <2>1. JobFailed \/ UNCHANGED <<heap, current, summary, retries>>
    BY <1>4 DEF CallFailed, Call, queue, jobState
  <2>2. CASE JobFailed
    BY <1>4, <2>2, FailedFails, Zenon
  <2>3. CASE UNCHANGED <<heap, current, summary, retries>>
    <3>1. \A j \in Job : Asked(j)' <=> Asked(j)
      BY <1>4 DEF Asked
    <3>2. QED BY <2>3, <3>1, QuietQueue, Zenon
  <2>4. QED BY <2>1, <2>2, <2>3
<1>5. CASE RelayerRefuses
  BY <1>4, <1>5 DEF RelayerRefuses
<1>6. CASE RelayerAnswersNone
  BY <1>4, <1>6 DEF RelayerAnswersNone
<1>7. CASE RelayerAnswersHash
  BY <1>7, SucceededSame, Zenon DEF RelayerAnswersHash
<1>8. CASE \/ \E j \in Job : ScheduleReturns(j) \/ CycleFails(j) \/ TxSettles(j)
           \/ LeaveCycles \/ DrainPolls \/ DrainReturns \/ ShutdownReturns
           \/ BackoffOver \/ WorkerStops \/ RelayerTakes \/ TimePasses \/ RunOver
           \/ UNCHANGED vars
  <2>1. UNCHANGED <<heap, current, summary, retries>>
    BY <1>8
    DEF ScheduleReturns, CycleFails, TxSettles, LeaveCycles, DrainPolls, DrainReturns,
        ShutdownReturns, BackoffOver, Call, WorkerStops, RelayerTakes, TimePasses, RunOver,
        vars, queue, jobState
  <2>2. ASSUME NEW i \in Job PROVE Asked(i)' <=> Asked(i)
    <3>1. caller \in [Job -> {"monitor", "waiting", "back", "gone"}]
      BY DEF IInv, TypeOK
    <3>2. CASE UNCHANGED caller
      BY <3>2 DEF Asked
    <3>3. ASSUME NEW j \in Job, ScheduleReturns(j) PROVE Asked(i)' <=> Asked(i)
      BY <3>1, <3>3 DEF ScheduleReturns, Asked
    <3>4. ASSUME NEW j \in Job, CycleFails(j) PROVE Asked(i)' <=> Asked(i)
      BY <3>1, <3>4 DEF CycleFails, CycleRuns, Asked
    <3>5. CASE LeaveCycles
      BY <3>1, <3>5 DEF LeaveCycles, Asked
    <3>6. QED
      BY <1>8, <3>2, <3>3, <3>4, <3>5
      DEF TxSettles, DrainPolls, DrainReturns, ShutdownReturns, BackoffOver, WorkerStops,
          RelayerTakes, TimePasses, RunOver, vars
  <2>3. QED BY <2>1, <2>2, QuietQueue
<1>9. ASSUME NEW e \in heap, RunWithoutCreds(e) PROVE Goal
  <2>1. e.job \in Job
    BY DEF IInv, TypeOK, Entry
  <2>2. QED BY <1>9, <2>1, KeylessFails, Zenon
<1>10. QED
  BY <1>1, <1>2, <1>3, <1>5, <1>6, <1>7, <1>8, <1>9 DEF Next, Cycles, Worker, Answer

\* A cycle that has asked for its job never takes it back.
LEMMA CallerSteps ==
  ASSUME TypeOK, [Next]_vars, NEW j \in Job, caller[j] \in {"waiting", "back"}
  PROVE  caller'[j] \in {"waiting", "back"}
<1>1. caller \in [Job -> {"monitor", "waiting", "back", "gone"}]
  BY DEF TypeOK
<1>2. CASE UNCHANGED caller
  BY <1>2
<1>3. ASSUME NEW i \in Job, Schedule(i) \/ ScheduleReturns(i) \/ CycleFails(i)
      PROVE  caller'[j] \in {"waiting", "back"}
  BY <1>1, <1>3 DEF Schedule, ScheduleReturns, CycleFails, CycleRuns
<1>4. CASE LeaveCycles
  BY <1>4 DEF LeaveCycles
<1>5. QED
  BY <1>2, <1>3, <1>4
  DEF Next, Cycles, Worker, Answer, DrainPolls, DrainReturns, ShutdownReturns, RunSimulated,
      StartJob, RunWithoutCreds, BackoffOver, PostOver, WorkerStops, RelayerRefuses,
      RelayerAnswersHash, RelayerAnswersNone, RelayerTakes, TxSettles, TimePasses, RunOver, vars

\* Every step keeps asked for what is queued, executed or paid.
LEMMA AskedKept == IInv /\ IInv' /\ AskedOK /\ [Next]_vars => AskedOK'
<1> SUFFICES ASSUME IInv, IInv', AskedOK, [Next]_vars,
                    NEW j \in Job, Queued(j)' \/ current' = j \/ summary'[j] = TRUE
             PROVE  caller'[j] \in {"waiting", "back"}
  BY DEF AskedOK, Asked
<1>1. Status(j)' \in {"active", "queued", "paid"}
  BY DEF Status, Queued, Asked
<1>2. CASE Status(j) \in {"active", "queued", "paid"}
  <2>1. summary[j] \in BOOLEAN
    BY DEF IInv, TypeOK
  <2>2. Queued(j) \/ current = j \/ summary[j] = TRUE
    BY <1>2, <2>1 DEF Status, Queued, Asked
  <2>3. caller[j] \in {"waiting", "back"}
    BY <2>2 DEF AskedOK, Asked
  <2>4. QED BY <2>3, CallerSteps DEF IInv
<1>3. CASE Same(j)
  BY <1>1, <1>2, <1>3 DEF Same
<1>4. CASE Changes(j)
  BY <1>2, <1>4 DEF Changes, Asks, Starts, Pays, Fails
<1>5. QED BY <1>3, <1>4, QueueStep DEF Changes

\* One job changed in one of the four ways is a step of the abstract queue.
LEMMA ChangeIsStep ==
  ASSUME NEW j \in Job, Changes(j)
  PROVE  Promise!Next
<1> DEFINE st == [i \in Job |-> Status(i)]
           us == [i \in Job |-> IF Status(i) = "dropped" THEN MaxRetries + 1 ELSE retries[i]]
<1>1. us = [i \in Job |-> Used(i)] /\ us' = [i \in Job |-> Used(i)']
  BY DEF Used
<1>2. st' = [i \in Job |-> Status(i)']
  OBVIOUS
<1> HIDE DEF us
<1>3. \A i \in Job \ {j} : Status(i)' = Status(i) /\ Used(i)' = Used(i)
  BY DEF Changes, Same
<1>4. st' = [st EXCEPT ![j] = Status(j)'] /\ st[j] = Status(j) /\ us[j] = Used(j)
  BY <1>1, <1>2, <1>3
<1>5. us' = [us EXCEPT ![j] = Used(j)'] /\ us'[j] = Used(j)'
  BY <1>1, <1>3
<1>6. NoneActive => \A i \in Job : st[i] # "active"
  BY DEF NoneActive
<1> HIDE DEF st
<1>7. CASE Asks(j)
  <2>1. Used(j)' = us[j] /\ us' = us
    BY <1>1, <1>4, <1>5, <1>7 DEF Asks
  <2>2. st[j] = "new" /\ st' = [st EXCEPT ![j] = "queued"]
    BY <1>4, <1>7 DEF Asks
  <2>3. Promise!Ask(j)
    BY <2>1, <2>2 DEF Promise!Ask, Promise!Become, st, us
  <2>4. QED BY <2>3 DEF Promise!Next
<1>8. CASE Starts(j)
  <2>1. us' = us
    BY <1>1, <1>4, <1>5, <1>8 DEF Starts
  <2>2. st[j] = "queued" /\ st' = [st EXCEPT ![j] = "active"] /\ \A i \in Job : st[i] # "active"
    BY <1>4, <1>6, <1>8 DEF Starts
  <2>3. Promise!Start(j)
    BY <2>1, <2>2 DEF Promise!Start, Promise!Become, st, us
  <2>4. QED BY <2>3 DEF Promise!Next
<1>9. CASE Pays(j)
  <2>1. us' = us
    BY <1>1, <1>4, <1>5, <1>9 DEF Pays
  <2>2. /\ st' = [st EXCEPT ![j] = "paid"]
        /\ st[j] = "active" \/ (st[j] = "queued" /\ \A i \in Job : st[i] # "active")
    BY <1>4, <1>6, <1>9 DEF Pays
  <2>3. Promise!Pay(j)
    BY <2>1, <2>2 DEF Promise!Pay, Promise!MayEnd, Promise!Become, st, us
  <2>4. QED BY <2>3 DEF Promise!Next
<1>10. CASE Fails(j)
  <2>1. /\ us' = [us EXCEPT ![j] = us[j] + 1] /\ us'[j] = us[j] + 1
        /\ st[j] = "active" \/ (st[j] = "queued" /\ \A i \in Job : st[i] # "active")
    BY <1>4, <1>5, <1>6, <1>10 DEF Fails
  <2>2. st' = [st EXCEPT ![j] = IF us'[j] < MaxRetries + 1 THEN "queued" ELSE "dropped"]
    BY <1>4, <1>5, <1>10 DEF Fails
  <2>3. Promise!Fail(j)
    BY <2>1, <2>2 DEF Promise!Fail, Promise!MayEnd, Promise!Become, st, us
  <2>4. QED BY <2>3 DEF Promise!Next
<1>11. QED BY <1>7, <1>8, <1>9, <1>10 DEF Changes

\* The scheduler, with its heap, its worker and the loops of a batch, does to
\* each job what RedeemQueue allows: no job is active beside another, none is
\* paid or dropped twice, and each is tried at most max_retries + 1 times.
THEOREM QueueIsKept == Spec => ImplementsQueue
<1> DEFINE st == [j \in Job |-> Status(j)]
           us == [j \in Job |-> IF Status(j) = "dropped" THEN MaxRetries + 1 ELSE retries[j]]
<1>1. Init => AskedOK /\ Promise!Init
  <2> SUFFICES ASSUME Init PROVE AskedOK /\ Promise!Init
    OBVIOUS
  <2>1. ASSUME NEW j \in Job
        PROVE  ~Queued(j) /\ current # j /\ summary[j] = FALSE /\ ~Asked(j) /\ retries[j] = 0
    BY NoneAssumption DEF Init, Queued, Asked
  <2>2. ASSUME NEW j \in Job PROVE Status(j) = "new" /\ retries[j] = 0
    BY <2>1 DEF Status, Queued, Asked
  <2>3. AskedOK
    BY <2>1 DEF AskedOK
  <2>4. QED BY <2>2, <2>3 DEF Promise!Init
<1>2. IInv /\ IInv' /\ AskedOK /\ [Next]_vars => [Promise!Next]_<<st, us>>
  <2> SUFFICES ASSUME IInv, IInv', AskedOK, [Next]_vars
               PROVE  Promise!Next \/ (st' = st /\ us' = us)
    OBVIOUS
  <2>1. us = [j \in Job |-> Used(j)] /\ us' = [j \in Job |-> Used(j)']
    BY DEF Used
  <2>2. CASE \A i \in Job : Same(i)
    <3>1. st' = st
      BY <2>2 DEF Same
    <3>2. us' = us
      BY <2>1, <2>2 DEF Same
    <3>3. QED BY <3>1, <3>2
  <2>3. CASE \E j \in Job : Changes(j)
    BY <2>3, ChangeIsStep, Zenon
  <2>4. QED BY <2>2, <2>3, QueueStep
<1>3. QED
  BY <1>1, <1>2, AskedKept, RedeemInvariant, PTL DEF Spec, ImplementsQueue, Promise!Spec

-----------------------------------------------------------------------------
(* What a dropped job has behind it.                                        *)

\* A job that is neither queued, nor executed, nor paid after its cycle asked
\* for it has had all its retries.
GivenUp == \A j \in Job : Status(j) = "dropped" => retries[j] = MaxRetries

\* At the end of the run every redeem that was asked for was answered with a
\* hash, or has been retried as often as redeem_max_retries says.
NoneForgotten ==
  main = "ended" => \A j \in Job : Asked(j) => summary[j] \/ retries[j] = MaxRetries

\* No step takes a retry back.
LEMMA RetriesGrow ==
  ASSUME TypeOK, [Next]_vars, NEW j \in Job
  PROVE  retries'[j] >= retries[j]
<1>1. retries \in [Job -> 0..MaxRetries] /\ MaxRetries \in Nat
  BY MaxRetriesType DEF TypeOK
<1>2. retries[j] \in Nat
  BY <1>1
<1>3. CASE UNCHANGED retries
  BY <1>2, <1>3
<1>4. CASE retries' = [retries EXCEPT ![current] = @ + 1]
  BY <1>1, <1>2, <1>4
<1>5. ASSUME NEW e, CallFailed(e)
      PROVE  UNCHANGED retries \/ retries' = [retries EXCEPT ![current] = @ + 1]
  BY <1>5 DEF CallFailed, Call, JobFailed, JobEnds, jobState
<1>6. ASSUME NEW e \in heap, retries' = [retries EXCEPT ![e.job] = @ + 1]
      PROVE  retries'[j] >= retries[j]
  BY <1>1, <1>2, <1>6
<1>7. \/ UNCHANGED retries \/ retries' = [retries EXCEPT ![current] = @ + 1]
      \/ \E e \in heap : retries' = [retries EXCEPT ![e.job] = @ + 1]
  BY <1>5
  DEF Next, Cycles, Worker, Answer, Schedule, ScheduleReturns, CycleFails, LeaveCycles,
      DrainPolls, DrainReturns, ShutdownReturns, RunSimulated, StartJob, RunWithoutCreds,
      BackoffOver, PostOver, WorkerStops, RelayerRefuses, RelayerAnswersHash, RelayerAnswersNone,
      CallSucceeded, RelayerTakes, TxSettles, TimePasses, RunOver, vars, jobState
<1>8. QED BY <1>3, <1>4, <1>6, <1>7

\* Every step keeps it: only a failure without a retry left drops a job, and
\* nothing lowers the count afterwards.
LEMMA GivenUpKept == IInv /\ IInv' /\ AskedOK /\ GivenUp /\ [Next]_vars => GivenUp'
<1> SUFFICES ASSUME IInv, IInv', AskedOK, GivenUp, [Next]_vars,
                    NEW j \in Job, Status(j)' = "dropped"
             PROVE  retries'[j] = MaxRetries
  BY DEF GivenUp
<1>1. /\ retries[j] \in 0..MaxRetries /\ retries'[j] \in 0..MaxRetries
      /\ MaxRetries \in Nat
  BY MaxRetriesType DEF IInv, TypeOK, MaxRetries
<1>2. retries'[j] >= retries[j]
  BY RetriesGrow DEF IInv
<1>3. retries[j] = MaxRetries
  <2>1. CASE Same(j)
    BY <2>1 DEF Same, GivenUp
  <2>2. CASE Changes(j)
    <3>1. Fails(j)
      BY <2>2 DEF Changes, Asks, Starts, Pays
    <3>2. Used(j) = retries[j] /\ Used(j)' = Used(j) + 1
      BY <3>1 DEF Fails, Used
    <3>3. ~(Used(j) + 1 < MaxRetries + 1)
      BY <3>1 DEF Fails
    <3>4. QED BY <1>1, <3>2, <3>3
  <2>3. QED BY <2>1, <2>2, QueueStep DEF Changes
<1>4. QED BY <1>1, <1>2, <1>3

\* _execute_job gives a job up only when its retries are spent: through the
\* re-queues, the end of the cycles and the drain, a redeem that was asked for
\* is always waiting, in work, paid, or tried max_retries + 1 times.
THEOREM GivenUpIsSpent == Spec => []GivenUp
<1>1. Init => AskedOK /\ GivenUp
  <2> SUFFICES ASSUME Init, NEW j \in Job
               PROVE  ~Queued(j) /\ current # j /\ summary[j] = FALSE /\ ~Asked(j)
    BY DEF AskedOK, GivenUp, Status, Queued, Asked
  <2>1. QED BY NoneAssumption DEF Init, Queued, Asked
<1>2. QED BY <1>1, AskedKept, GivenUpKept, RedeemInvariant, PTL DEF Spec

\* The end of a run of cli.py: shutdown has returned, and none of the redeems
\* that the cycles scheduled has been left without its tries.
THEOREM NothingForgotten == Spec => []NoneForgotten
<1>1. IInv /\ DrainedClean /\ GivenUp => NoneForgotten
  <2> SUFFICES ASSUME IInv, DrainedClean, GivenUp, main = "ended",
                      NEW j \in Job, Asked(j), ~summary[j]
               PROVE  retries[j] = MaxRetries
    BY DEF NoneForgotten
  <2>1. heap = {} /\ ~SerialLocked
    BY DEF DrainedClean
  <2>2. ~Queued(j) /\ current # j
    BY <2>1, NoneAssumption DEF IInv, JobsOK, Queued
  <2>3. Status(j) = "dropped"
    BY <2>2 DEF Status, Queued, Asked
  <2>4. QED BY <2>3 DEF GivenUp
<1>2. QED BY <1>1, RedeemInvariant, NothingLeftBehind, GivenUpIsSpent, PTL

=============================================================================
