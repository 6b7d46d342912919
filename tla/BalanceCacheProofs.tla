-------------------------- MODULE BalanceCacheProofs --------------------------
(***************************************************************************)
(* Theorems about BalanceCache, for every number of markets, monitors and  *)
(* buy tasks, and every interval, age, back-off and length of a request.   *)
(***************************************************************************)
EXTENDS BalanceCache, TLAPS

\* The places under the lock.
Locked == {"second", "clob", "fallback", "blind"}
Places == {"idle", "primary", "waiting"} \cup Locked

\* The lock is held by the reader under it, and by nobody else.
LockOK == \A r \in Reader : lock = r <=> reader[r].at \in Locked

\* An entry was read at most one request before it was stored.
CacheOK ==
  \A m \in Market : cache[m].known => cache[m].asOf <= cache[m].age + CallMax

\* What the CLOB answered lately is in the cache, and dated.
AskedOK ==
  \A m \in Market : asked[m] < PollIv =>
    cache[m].known /\ cache[m].age <= asked[m] /\ lastAny <= asked[m]

\* Behind the tests under the lock, what they found stays so.
SpareOK ==
  \A r \in Reader : reader[r].at = "second" => backoff = 0 /\ asked[r[1]] >= PollIv

\* The inductive invariant.
CacheInv == TypeOK /\ LockOK /\ CacheOK /\ AskedOK /\ SpareOK /\ SharesAreYoung

-----------------------------------------------------------------------------
Entries == [known : BOOLEAN, shares : BOOLEAN, age : 0..(MaxAge + 1), asOf : 0..Limit]
States  == [at : Places, took : 0..CallMax]

\* A reader reads a market, and nobody is not a reader.
LEMMA ReaderType ==
  /\ \A r \in Reader : r[1] \in Market
  /\ NoReader \notin Reader
<1>1. ASSUME NEW r \in Reader PROVE r[1] \in Market /\ r[2] \in {"monitor", "task"}
  BY MarketAssumption DEF Reader
<1>2. NoReader[2] = "reader"
  BY DEF NoReader
<1>3. QED BY <1>1, <1>2

\* Where a reader stands, and the age it counts.
LEMMA StateType ==
  ASSUME TypeOK, NEW r \in Reader
  PROVE  reader[r] \in States /\ reader[r].took \in 0..CallMax /\ reader[r].at \in Places
BY DEF TypeOK, States, Places, Locked

\* The entry of a market.
LEMMA EntryType ==
  ASSUME TypeOK, NEW m \in Market
  PROVE  /\ cache[m] \in Entries /\ cache[m].known \in BOOLEAN /\ cache[m].shares \in BOOLEAN
         /\ cache[m].age \in 0..(MaxAge + 1) /\ cache[m].asOf \in 0..Limit
BY DEF TypeOK, Entries

\* One reader goes to another place.
LEMMA ReaderMoves ==
  ASSUME TypeOK, NEW r \in Reader, NEW state \in States,
         reader' = [reader EXCEPT ![r] = state]
  PROVE  /\ reader' \in [Reader -> States]
         /\ reader'[r] = state /\ \A q \in Reader \ {r} : reader'[q] = reader[q]
<1>1. reader \in [Reader -> States]
  BY DEF TypeOK, States, Places, Locked
<1>2. QED BY <1>1

\* The places a call goes to.
LEMMA StateKinds ==
  /\ Idle \in States /\ Idle.at = "idle"
  /\ \A at \in Places : [at |-> at, took |-> 0] \in States
  /\ [Idle EXCEPT !.at = "waiting"] \in States
  /\ [Idle EXCEPT !.at = "waiting"].at = "waiting"
BY TimeAssumption DEF Idle, States, Places, Locked

\* A result is stored: it is a young entry, dated as the CLOB's last answer.
LEMMA StoreFacts ==
  ASSUME TypeOK, CacheOK, AskedOK, NEW m \in Market, NEW shares \in BOOLEAN,
         NEW took \in 0..CallMax, Store(m, shares, took),
         asked' = asked \/ asked' = [asked EXCEPT ![m] = 0]
  PROVE  /\ cache' \in [Market -> Entries] /\ lastAny' \in 0..PollIv
         /\ asked' \in [Market -> 0..PollIv]
         /\ CacheOK' /\ AskedOK'
<1> DEFINE entry == [known |-> TRUE, shares |-> shares, age |-> 0, asOf |-> took]
<1>1. cache' = [cache EXCEPT ![m] = entry] /\ lastAny' = 0
  BY DEF Store
<1>2. cache \in [Market -> Entries] /\ asked \in [Market -> 0..PollIv]
  BY DEF TypeOK, Entries
<1>3. entry \in Entries
  BY TimeAssumption DEF Entries, Limit
<1>4. entry.known /\ entry.age = 0 /\ entry.asOf = took
  OBVIOUS
<1> HIDE DEF entry
<1>5. cache' \in [Market -> Entries] /\ cache'[m] = entry
      /\ \A n \in Market \ {m} : cache'[n] = cache[n]
  BY <1>1, <1>2, <1>3
<1>6. lastAny' \in 0..PollIv /\ asked' \in [Market -> 0..PollIv]
  BY <1>1, <1>2, TimeAssumption
<1>7. CacheOK'
  BY <1>4, <1>5, TimeAssumption DEF CacheOK
<1>8. AskedOK'
  <2>1. ASSUME NEW n \in Market, asked'[n] < PollIv
        PROVE  cache'[n].known /\ cache'[n].age <= asked'[n] /\ lastAny' <= asked'[n]
    <3>1. asked'[n] \in Nat
      BY <1>6, TimeAssumption
    <3>2. CASE n = m
      BY <1>1, <1>4, <1>5, <3>1, <3>2
    <3>3. CASE n # m
      <4>1. asked'[n] = asked[n] /\ cache'[n] = cache[n]
        BY <1>2, <1>5, <3>3
      <4>2. QED BY <1>1, <2>1, <3>1, <4>1 DEF AskedOK
    <3>4. QED BY <3>2, <3>3
  <2>2. QED BY <2>1 DEF AskedOK
<1>9. QED BY <1>5, <1>6, <1>7, <1>8

\* A result that has just been read is young enough.
LEMMA FreshIsYoung ==
  ASSUME TypeOK, SharesAreYoung, NEW r \in Reader, NEW shares \in BOOLEAN,
         NEW asOf \in 0..(MaxAge + CallMax), Return(r, shares, asOf)
  PROVE  /\ reader' = [reader EXCEPT ![r] = Idle]
         /\ tooOld' \in BOOLEAN /\ SharesAreYoung'
<1>1. ~(asOf > MaxAge + CallMax)
  BY TimeAssumption
<1>2. tooOld' = (tooOld \/ (shares /\ asOf > MaxAge + CallMax))
      /\ reader' = [reader EXCEPT ![r] = Idle]
  BY DEF Return
<1>3. tooOld = FALSE
  BY Zenon DEF TypeOK, SharesAreYoung
<1>4. tooOld' = FALSE
  BY <1>1, <1>2, <1>3, Zenon
<1>5. QED BY <1>2, <1>4 DEF SharesAreYoung

\* So is an entry whose age the reader has looked at.
LEMMA CachedIsYoung ==
  ASSUME TypeOK, CacheOK, SharesAreYoung, NEW r \in Reader, ReturnCached(r)
  PROVE  /\ reader' = [reader EXCEPT ![r] = Idle]
         /\ tooOld' \in BOOLEAN /\ SharesAreYoung'
<1>1. r[1] \in Market
  BY ReaderType
<1>2. CASE Cached(r[1], MaxAge)
  <2>1. Return(r, cache[r[1]].shares, cache[r[1]].asOf)
    BY <1>2 DEF ReturnCached
  <2>2. cache[r[1]].asOf \in Nat /\ cache[r[1]].age \in Nat /\ cache[r[1]].shares \in BOOLEAN
    BY <1>1, EntryType, TimeAssumption DEF Limit
  <2>3. cache[r[1]].asOf <= cache[r[1]].age + CallMax /\ cache[r[1]].age <= MaxAge
    BY <1>1, <1>2 DEF CacheOK, Cached
  <2>4. cache[r[1]].asOf \in 0..(MaxAge + CallMax)
    BY <2>2, <2>3, TimeAssumption
  <2>5. QED BY <2>1, <2>2, <2>4, FreshIsYoung
<1>3. CASE ~Cached(r[1], MaxAge)
  <2>1. reader' = [reader EXCEPT ![r] = Idle] /\ tooOld' = tooOld
    BY <1>3 DEF ReturnCached, ReturnNothing
  <2>2. QED BY <2>1, Zenon DEF TypeOK, SharesAreYoung
<1>4. QED BY <1>2, <1>3

\* Without a tick and without an answer of the CLOB the dates stay.
LEMMA SameCache ==
  ASSUME CacheOK, AskedOK, UNCHANGED <<cache, lastAny, asked>>
  PROVE  CacheOK' /\ AskedOK'
BY DEF CacheOK, AskedOK

\* A reader moves without passing the lock.
LEMMA LockKept ==
  ASSUME TypeOK, LockOK, NEW r \in Reader, NEW state \in States,
         reader' = [reader EXCEPT ![r] = state], lock' = lock,
         state.at \in Locked <=> reader[r].at \in Locked
  PROVE  LockOK'
<1>1. reader'[r] = state /\ \A q \in Reader \ {r} : reader'[q] = reader[q]
  BY ReaderMoves
<1>2. QED BY <1>1 DEF LockOK

\* A reader leaves, with the lock if it has it.
LEMMA LockFreed ==
  ASSUME TypeOK, LockOK, NEW r \in Reader, NEW state \in States,
         reader' = [reader EXCEPT ![r] = state], lock' = Released(r),
         state.at \notin Locked
  PROVE  LockOK' /\ lock' \in Reader \cup {NoReader}
<1>1. reader'[r] = state /\ \A q \in Reader \ {r} : reader'[q] = reader[q]
  BY ReaderMoves
<1>2. lock' \in Reader \cup {NoReader}
  BY DEF Released, TypeOK
<1>3. \A q \in Reader : NoReader # q
  BY ReaderType
<1>4. CASE lock = r
  <2>1. lock' = NoReader
    BY <1>4 DEF Released
  <2>2. QED BY <1>1, <1>2, <1>3, <1>4, <2>1 DEF LockOK
<1>5. CASE lock # r
  <2>1. lock' = lock
    BY <1>5 DEF Released
  <2>2. QED BY <1>1, <1>2, <1>5, <2>1 DEF LockOK
<1>6. QED BY <1>4, <1>5

\* A reader moves, but not behind the tests; or the back-off and the dates are
\* changed by the reader that holds the lock.
LEMMA SpareKept ==
  ASSUME TypeOK, LockOK, SpareOK, NEW r \in Reader, NEW state \in States,
         reader' = [reader EXCEPT ![r] = state], state.at # "second",
         (backoff' = backoff /\ asked' = asked) \/ reader[r].at \in Locked
  PROVE  SpareOK'
<1>1. reader'[r] = state /\ \A q \in Reader \ {r} : reader'[q] = reader[q]
  BY ReaderMoves
<1>2. CASE backoff' = backoff /\ asked' = asked
  BY <1>1, <1>2 DEF SpareOK
<1>3. CASE reader[r].at \in Locked
  <2>1. lock = r
    BY <1>3 DEF LockOK
  <2>2. \A q \in Reader \ {r} : reader[q].at # "second"
    BY <2>1 DEF LockOK, Locked
  <2>3. QED BY <1>1, <2>2 DEF SpareOK
<1>4. QED BY <1>2, <1>3

-----------------------------------------------------------------------------
\* The invariant holds initially.
LEMMA CacheInit == Init => CacheInv
<1> SUFFICES ASSUME Init PROVE CacheInv
  OBVIOUS
<1>1. \A m \in Market : cache[m] = NoEntry
  BY DEF Init
<1>2. \A r \in Reader : reader[r] = Idle
  BY DEF Init
<1>3. TypeOK
  <2>1. NoEntry \in Entries
    BY TimeAssumption DEF NoEntry, Entries, Limit
  <2>2. cache \in [Market -> Entries]
    BY <2>1 DEF Init
  <2>3. reader \in [Reader -> States]
    BY StateKinds DEF Init
  <2>4. /\ lastAny \in 0..PollIv /\ pause \in 0..BackoffMax /\ backoff \in 0..BackoffMax
        /\ lastPoll \in [Monitored -> 0..PollIv] /\ lastForce \in [Monitored -> 0..ForceMin]
        /\ asked \in [Market -> 0..PollIv]
    BY TimeAssumption DEF Init
  <2>5. /\ requested \in [Monitored -> BOOLEAN] /\ owed \in [Monitored -> BOOLEAN]
        /\ tooOld \in BOOLEAN /\ lock \in Reader \cup {NoReader}
    BY DEF Init
  <2>6. QED BY <2>2, <2>3, <2>4, <2>5 DEF TypeOK, Entries, States, Places, Locked
<1>4. LockOK /\ SpareOK
  BY <1>2, ReaderType DEF Init, LockOK, SpareOK, Idle, Locked
<1>5. CacheOK
  BY <1>1 DEF CacheOK, NoEntry
<1>6. AskedOK
  BY TimeAssumption DEF Init, AskedOK
<1>7. SharesAreYoung
  BY DEF Init, SharesAreYoung
<1>8. QED BY <1>3, <1>4, <1>5, <1>6, <1>7 DEF CacheInv

\* A read of the chain that finds shares, first, second or third.
LEMMA ChainAnswers ==
  ASSUME CacheInv, NEW r \in Reader,
         PrimaryAnswers(r) \/ SecondAnswers(r) \/ FallbackAnswers(r)
  PROVE  CacheInv'
<1>1. TypeOK /\ LockOK /\ CacheOK /\ AskedOK /\ SpareOK /\ SharesAreYoung
  BY DEF CacheInv
<1>2. /\ Store(r[1], TRUE, reader[r].took) /\ Return(r, TRUE, reader[r].took)
      /\ UNCHANGED <<backoff, monitor, asked>>
      /\ pause' \in {pause, BackoffBase}
  BY DEF PrimaryAnswers, SecondAnswers, FallbackAnswers
<1>3. r[1] \in Market /\ reader[r].took \in 0..CallMax
  BY <1>1, ReaderType, StateType
<1>4. /\ cache' \in [Market -> Entries] /\ lastAny' \in 0..PollIv
      /\ asked' \in [Market -> 0..PollIv] /\ CacheOK' /\ AskedOK'
  BY <1>1, <1>2, <1>3, StoreFacts
<1>5. reader[r].took \in 0..(MaxAge + CallMax)
  BY <1>3, TimeAssumption
<1>6. reader' = [reader EXCEPT ![r] = Idle] /\ tooOld' \in BOOLEAN /\ SharesAreYoung'
  BY <1>1, <1>2, <1>5, FreshIsYoung
<1>7. lock' = Released(r)
  <2>1. CASE PrimaryAnswers(r)
    BY <1>1, <2>1 DEF PrimaryAnswers, Released, LockOK, Locked
  <2>2. CASE SecondAnswers(r) \/ FallbackAnswers(r)
    BY <1>1, <2>2 DEF SecondAnswers, FallbackAnswers, Released, LockOK, Locked
  <2>3. QED BY <2>1, <2>2
<1>8. Idle \in States /\ Idle.at \notin Locked /\ Idle.at # "second"
  BY StateKinds DEF Locked
<1>9. LockOK' /\ lock' \in Reader \cup {NoReader}
  BY <1>1, <1>6, <1>7, <1>8, LockFreed
<1>10. SpareOK'
  BY <1>1, <1>2, <1>6, <1>8, SpareKept
<1>11. reader' \in [Reader -> States]
  BY <1>1, <1>6, <1>8, ReaderMoves
<1>12. pause' \in 0..BackoffMax /\ backoff' \in 0..BackoffMax
  BY <1>1, <1>2, TimeAssumption DEF TypeOK
<1>13. TypeOK'
  BY <1>1, <1>2, <1>4, <1>6, <1>9, <1>11, <1>12
  DEF TypeOK, monitor, Entries, States, Places, Locked
<1>14. QED BY <1>4, <1>6, <1>9, <1>10, <1>13 DEF CacheInv

\* A call that ends with what is in the cache, or goes to wait for the lock.
LEMMA CallSpared ==
  ASSUME CacheInv, NEW r \in Reader, PrimaryIsEmpty(r) \/ LockSpares(r)
  PROVE  CacheInv'
<1>1. TypeOK /\ LockOK /\ CacheOK /\ AskedOK /\ SpareOK /\ SharesAreYoung
  BY DEF CacheInv
<1>2. UNCHANGED <<client, monitor, asked>> /\ reader[r].at \notin Locked
  BY DEF PrimaryIsEmpty, LockSpares, Locked
<1>3. PICK state \in {Idle, [Idle EXCEPT !.at = "waiting"]} :
        reader' = [reader EXCEPT ![r] = state] /\ tooOld' \in BOOLEAN /\ SharesAreYoung'
  <2>1. CASE ReturnCached(r)
    BY <1>1, <2>1, CachedIsYoung
  <2>2. CASE reader' = [reader EXCEPT ![r] = [Idle EXCEPT !.at = "waiting"]] /\ UNCHANGED tooOld
    <3>1. tooOld' \in BOOLEAN /\ SharesAreYoung'
      BY <1>1, <2>2, Zenon DEF TypeOK, SharesAreYoung
    <3>2. QED BY <2>2, <3>1
  <2>3. QED BY <2>1, <2>2 DEF PrimaryIsEmpty, LockSpares
<1>4. state \in States /\ state.at \in {"idle", "waiting"}
  BY StateKinds
<1>5. reader' \in [Reader -> States]
  BY <1>1, <1>3, <1>4, ReaderMoves
<1>6. LockOK'
  BY <1>1, <1>2, <1>3, <1>4, LockKept DEF client, Locked
<1>7. SpareOK'
  BY <1>1, <1>2, <1>3, <1>4, SpareKept DEF client
<1>8. CacheOK' /\ AskedOK'
  BY <1>1, <1>2, SameCache DEF client
<1>9. TypeOK'
  BY <1>1, <1>2, <1>3, <1>5 DEF TypeOK, client, monitor, States, Places, Locked
<1>10. QED BY <1>3, <1>6, <1>7, <1>8, <1>9 DEF CacheInv

\* The lock is taken behind the tests.
LEMMA LockIsTaken ==
  ASSUME CacheInv, NEW r \in Reader, LockTaken(r)
  PROVE  CacheInv'
<1>1. TypeOK /\ LockOK /\ CacheOK /\ AskedOK /\ SpareOK /\ SharesAreYoung
  BY DEF CacheInv
<1> DEFINE state == [at |-> "second", took |-> 0]
<1>2. /\ lock = NoReader /\ lock' = r /\ ~Spared(r)
      /\ reader' = [reader EXCEPT ![r] = state]
      /\ UNCHANGED <<cache, lastAny, pause, backoff, monitor, tooOld, asked>>
  BY DEF LockTaken, Asks
<1>3. state \in States /\ state.at = "second"
  BY StateKinds DEF Places, Locked
<1> HIDE DEF state
<1>4. /\ reader' \in [Reader -> States]
      /\ reader'[r] = state /\ \A q \in Reader \ {r} : reader'[q] = reader[q]
  BY <1>1, <1>2, <1>3, ReaderMoves
<1>5. \A q \in Reader : reader[q].at \notin Locked
  BY <1>1, <1>2, ReaderType DEF LockOK
<1>6. LockOK'
  BY <1>2, <1>3, <1>4, <1>5 DEF LockOK, Locked
<1>7. backoff = 0 /\ asked[r[1]] >= PollIv
  <2>1. backoff \in Nat /\ lastAny \in Nat /\ r[1] \in Market /\ asked[r[1]] \in Nat
        /\ cache[r[1]].age \in Nat
    BY <1>1, ReaderType, EntryType, TimeAssumption DEF TypeOK
  <2>2. ~(backoff > 0) /\ ~Recent(r[1])
    BY <1>2 DEF Spared
  <2>3. ASSUME asked[r[1]] < PollIv PROVE FALSE
    <3>1. cache[r[1]].known /\ cache[r[1]].age <= asked[r[1]] /\ lastAny <= asked[r[1]]
      BY <1>1, <2>1, <2>3 DEF AskedOK
    <3>2. QED BY <2>1, <2>2, <2>3, <3>1, TimeAssumption DEF Recent, Cached
  <2>4. QED BY <2>1, <2>2, <2>3, TimeAssumption
<1>8. SpareOK'
  BY <1>2, <1>4, <1>5, <1>7 DEF SpareOK, Locked
<1>9. CacheOK' /\ AskedOK' /\ SharesAreYoung'
  BY <1>1, <1>2, SameCache DEF SharesAreYoung
<1>10. TypeOK'
  BY <1>1, <1>2, <1>4 DEF TypeOK, monitor, States, Places, Locked
<1>11. QED BY <1>6, <1>8, <1>9, <1>10 DEF CacheInv

\* The second read of the chain finds none; a call begins.
LEMMA CallGoesOn ==
  ASSUME CacheInv, NEW r \in Reader, SecondIsEmpty(r) \/ TaskReads(r)
  PROVE  CacheInv'
<1>1. TypeOK /\ LockOK /\ CacheOK /\ AskedOK /\ SpareOK /\ SharesAreYoung
  BY DEF CacheInv
<1>2. UNCHANGED <<client, monitor, tooOld, asked>>
  BY DEF SecondIsEmpty, TaskReads
<1>3. PICK at \in {"primary", "clob"} :
        /\ reader' = [reader EXCEPT ![r] = [at |-> at, took |-> 0]]
        /\ at \in Locked <=> reader[r].at \in Locked
  BY DEF SecondIsEmpty, TaskReads, Asks, Locked
<1>4. [at |-> at, took |-> 0] \in States /\ [at |-> at, took |-> 0].at = at
  BY StateKinds DEF Places, Locked
<1>5. reader' \in [Reader -> States]
  BY <1>1, <1>3, <1>4, ReaderMoves
<1>6. LockOK'
  BY <1>1, <1>2, <1>3, <1>4, LockKept DEF client
<1>7. SpareOK'
  BY <1>1, <1>2, <1>3, <1>4, SpareKept DEF client
<1>8. CacheOK' /\ AskedOK' /\ SharesAreYoung'
  BY <1>1, <1>2, SameCache DEF client, SharesAreYoung
<1>9. TypeOK'
  BY <1>1, <1>2, <1>5 DEF TypeOK, client, monitor, States, Places, Locked
<1>10. QED BY <1>6, <1>7, <1>8, <1>9 DEF CacheInv

\* The CLOB answers.
LEMMA ClobAnswered ==
  ASSUME CacheInv, NEW r \in Reader, ClobAnswers(r)
  PROVE  CacheInv'
<1>1. TypeOK /\ LockOK /\ CacheOK /\ AskedOK /\ SpareOK /\ SharesAreYoung
  BY DEF CacheInv
<1>2. ClobSync \subseteq BOOLEAN
  BY Zenon DEF ClobSync
<1>3. PICK shares \in BOOLEAN :
        Store(r[1], shares, reader[r].took) /\ Return(r, shares, reader[r].took)
  BY <1>2 DEF ClobAnswers
<1>4. /\ reader[r].at = "clob" /\ pause' = BackoffBase /\ lock' = NoReader
      /\ asked' = [asked EXCEPT ![r[1]] = 0] /\ UNCHANGED <<backoff, monitor>>
  BY DEF ClobAnswers
<1>5. r[1] \in Market /\ reader[r].took \in 0..CallMax
  BY <1>1, ReaderType, StateType
<1>6. /\ cache' \in [Market -> Entries] /\ lastAny' \in 0..PollIv
      /\ asked' \in [Market -> 0..PollIv] /\ CacheOK' /\ AskedOK'
  BY <1>1, <1>3, <1>4, <1>5, StoreFacts
<1>7. reader[r].took \in 0..(MaxAge + CallMax)
  BY <1>5, TimeAssumption
<1>8. reader' = [reader EXCEPT ![r] = Idle] /\ tooOld' \in BOOLEAN /\ SharesAreYoung'
  BY <1>1, <1>3, <1>7, FreshIsYoung
<1>9. lock' = Released(r)
  BY <1>1, <1>4 DEF Released, LockOK, Locked
<1>10. Idle \in States /\ Idle.at \notin Locked /\ Idle.at # "second"
  BY StateKinds DEF Locked
<1>11. LockOK' /\ lock' \in Reader \cup {NoReader}
  BY <1>1, <1>8, <1>9, <1>10, LockFreed
<1>12. SpareOK'
  <2>1. reader[r].at \in Locked
    BY <1>4 DEF Locked
  <2>2. QED BY <1>1, <1>8, <1>10, <2>1, SpareKept
<1>13. reader' \in [Reader -> States]
  BY <1>1, <1>8, <1>10, ReaderMoves
<1>14. pause' \in 0..BackoffMax /\ backoff' \in 0..BackoffMax
  BY <1>1, <1>4, TimeAssumption DEF TypeOK
<1>15. TypeOK'
  BY <1>1, <1>4, <1>6, <1>8, <1>11, <1>13, <1>14
  DEF TypeOK, monitor, Entries, States, Places, Locked
<1>16. QED BY <1>6, <1>8, <1>11, <1>12, <1>15 DEF CacheInv

\* The read of the CLOB raises.
LEMMA ClobRaised ==
  ASSUME CacheInv, NEW r \in Reader, ClobRaises(r)
  PROVE  CacheInv'
<1>1. TypeOK /\ LockOK /\ CacheOK /\ AskedOK /\ SpareOK /\ SharesAreYoung
  BY DEF CacheInv
<1>2. /\ reader[r].at = "clob" /\ RegisterFailure
      /\ UNCHANGED <<cache, lastAny, monitor, asked>>
  BY DEF ClobRaises
<1>3. r[1] \in Market /\ reader[r].at \in Locked
  BY <1>2, ReaderType DEF Locked
<1>4. pause' \in 0..BackoffMax /\ backoff' \in 0..BackoffMax
  BY <1>1, <1>2, TimeAssumption DEF TypeOK, RegisterFailure
<1>5. CacheOK' /\ AskedOK'
  BY <1>1, <1>2, SameCache
<1>6. CASE Cached(r[1], MaxAge) /\ cache[r[1]].shares
  <2>1. Return(r, TRUE, cache[r[1]].asOf) /\ lock' = NoReader
    BY <1>6 DEF ClobRaises
  <2>2. cache[r[1]].asOf \in Nat /\ cache[r[1]].age \in Nat
    BY <1>1, <1>3, EntryType, TimeAssumption DEF Limit
  <2>3. cache[r[1]].asOf <= cache[r[1]].age + CallMax /\ cache[r[1]].age <= MaxAge
    BY <1>1, <1>3, <1>6 DEF CacheOK, Cached
  <2>4. cache[r[1]].asOf \in 0..(MaxAge + CallMax)
    BY <2>2, <2>3, TimeAssumption
  <2>5. reader' = [reader EXCEPT ![r] = Idle] /\ tooOld' \in BOOLEAN /\ SharesAreYoung'
    BY <1>1, <2>1, <2>4, FreshIsYoung
  <2>6. lock' = Released(r)
    BY <1>1, <1>3, <2>1 DEF Released, LockOK
  <2>7. Idle \in States /\ Idle.at \notin Locked /\ Idle.at # "second"
    BY StateKinds DEF Locked
  <2>8. LockOK' /\ lock' \in Reader \cup {NoReader}
    BY <1>1, <2>5, <2>6, <2>7, LockFreed
  <2>9. SpareOK'
    BY <1>1, <1>3, <2>5, <2>7, SpareKept
  <2>10. reader' \in [Reader -> States]
    BY <1>1, <2>5, <2>7, ReaderMoves
  <2>11. TypeOK'
    BY <1>1, <1>2, <1>4, <2>5, <2>8, <2>10 DEF TypeOK, monitor, Entries, States, Places, Locked
  <2>12. QED BY <1>5, <2>5, <2>8, <2>9, <2>11 DEF CacheInv
<1>7. CASE ~(Cached(r[1], MaxAge) /\ cache[r[1]].shares)
  <2>1. UNCHANGED <<lock, tooOld>>
        /\ Asks(r, IF Cached(r[1], MaxAge) THEN "fallback" ELSE "blind")
    BY <1>7 DEF ClobRaises
  <2>2. PICK at \in {"fallback", "blind"} : reader' = [reader EXCEPT ![r] = [at |-> at, took |-> 0]]
    BY <2>1 DEF Asks
  <2>3. /\ [at |-> at, took |-> 0] \in States
        /\ [at |-> at, took |-> 0].at \in Locked /\ [at |-> at, took |-> 0].at # "second"
    BY StateKinds DEF Places, Locked
  <2>4. reader' \in [Reader -> States]
    BY <1>1, <2>2, <2>3, ReaderMoves
  <2>5. LockOK'
    BY <1>1, <1>3, <2>1, <2>2, <2>3, LockKept
  <2>6. SpareOK'
    BY <1>1, <1>3, <2>2, <2>3, SpareKept
  <2>7. TypeOK' /\ SharesAreYoung'
    BY <1>1, <1>2, <1>4, <2>1, <2>4
    DEF TypeOK, SharesAreYoung, monitor, Entries, States, Places, Locked
  <2>8. QED BY <1>5, <2>5, <2>6, <2>7 DEF CacheInv
<1>8. QED BY <1>6, <1>7

\* A call ends without an answer, or is cancelled.
LEMMA CallGivenUp ==
  ASSUME CacheInv, NEW r \in Reader, FallbackIsEmpty(r) \/ TimesOut(r)
  PROVE  CacheInv'
<1>1. TypeOK /\ LockOK /\ CacheOK /\ AskedOK /\ SpareOK /\ SharesAreYoung
  BY DEF CacheInv
<1>2. UNCHANGED <<cache, lastAny, pause, backoff, monitor, asked>>
  BY DEF FallbackIsEmpty, TimesOut
<1>3. lock' = Released(r)
  <2>1. CASE FallbackIsEmpty(r)
    BY <1>1, <2>1 DEF FallbackIsEmpty, Released, LockOK, Locked
  <2>2. QED BY <2>1 DEF TimesOut
<1>4. reader' = [reader EXCEPT ![r] = Idle] /\ tooOld' \in BOOLEAN /\ SharesAreYoung'
  <2>1. 0 \in 0..(MaxAge + CallMax)
    BY TimeAssumption
  <2>2. CASE Return(r, FALSE, 0)
    BY <1>1, <2>1, <2>2, FreshIsYoung
  <2>3. CASE ReturnNothing(r)
    <3>1. reader' = [reader EXCEPT ![r] = Idle] /\ tooOld' = tooOld
      BY <2>3 DEF ReturnNothing
    <3>2. QED BY <1>1, <3>1, Zenon DEF TypeOK, SharesAreYoung
  <2>4. QED BY <2>2, <2>3 DEF FallbackIsEmpty, TimesOut
<1>5. Idle \in States /\ Idle.at \notin Locked /\ Idle.at # "second"
  BY StateKinds DEF Locked
<1>6. LockOK' /\ lock' \in Reader \cup {NoReader}
  BY <1>1, <1>3, <1>4, <1>5, LockFreed
<1>7. SpareOK'
  BY <1>1, <1>2, <1>4, <1>5, SpareKept
<1>8. reader' \in [Reader -> States]
  BY <1>1, <1>4, <1>5, ReaderMoves
<1>9. CacheOK' /\ AskedOK'
  BY <1>1, <1>2, SameCache
<1>10. TypeOK'
  BY <1>1, <1>2, <1>4, <1>6, <1>8 DEF TypeOK, monitor, Entries, States, Places, Locked
<1>11. QED BY <1>4, <1>6, <1>7, <1>9, <1>10 DEF CacheInv

\* A monitor ends its tick, with a refresh or without; a trade is reported.
LEMMA MonitorStep ==
  ASSUME CacheInv, NEW m \in Monitored, MonitorTick(m) \/ TradeReported(m)
  PROVE  CacheInv'
<1>1. TypeOK /\ LockOK /\ CacheOK /\ AskedOK /\ SpareOK /\ SharesAreYoung
  BY DEF CacheInv
<1>2. UNCHANGED <<client, tooOld, asked>>
  BY DEF MonitorTick, TradeReported
<1> DEFINE r == <<m, "monitor">>
           state == [at |-> "primary", took |-> 0]
<1>3. r \in Reader
  BY DEF Reader
<1>4. \/ reader' = reader
      \/ reader' = [reader EXCEPT ![r] = state] /\ reader[r].at = "idle"
  <2>1. CASE MonitorTick(m)
    BY <2>1, Zenon DEF MonitorTick, Asks
  <2>2. CASE TradeReported(m)
    BY <2>2, Zenon DEF TradeReported
  <2>3. QED BY <2>1, <2>2
<1>5. state \in States /\ state.at = "primary"
  BY StateKinds DEF Places, Locked
<1>6. /\ requested' \in [Monitored -> BOOLEAN] /\ owed' \in [Monitored -> BOOLEAN]
      /\ lastPoll' \in [Monitored -> 0..PollIv] /\ lastForce' \in [Monitored -> 0..ForceMin]
  <2>1. CASE MonitorTick(m)
    <3>1. 0 \in 0..PollIv /\ 0 \in 0..ForceMin
      BY TimeAssumption
    <3>2. lastForce' \in [Monitored -> 0..ForceMin] /\ requested' \in [Monitored -> BOOLEAN]
      BY <1>1, <2>1, <3>1 DEF TypeOK, MonitorTick
    <3>3. /\ lastPoll' \in {lastPoll, [lastPoll EXCEPT ![m] = 0]}
          /\ owed' \in {owed, [owed EXCEPT ![m] = FALSE]}
      BY <2>1 DEF MonitorTick
    <3>4. QED BY <1>1, <3>1, <3>2, <3>3 DEF TypeOK
  <2>2. CASE TradeReported(m)
    BY <1>1, <2>2 DEF TypeOK, TradeReported
  <2>3. QED BY <2>1, <2>2
<1> HIDE DEF r, state
<1>7. reader' \in [Reader -> States] /\ LockOK' /\ SpareOK'
  <2>1. CASE reader' = reader
    <3>1. reader' \in [Reader -> States]
      BY <1>1, <2>1 DEF TypeOK, States, Places, Locked
    <3>2. QED BY <1>1, <1>2, <2>1, <3>1 DEF LockOK, SpareOK, client
  <2>2. CASE reader' = [reader EXCEPT ![r] = state] /\ reader[r].at = "idle"
    <3>1. reader' \in [Reader -> States]
      BY <1>1, <1>3, <1>5, <2>2, ReaderMoves
    <3>2. state.at \in Locked <=> reader[r].at \in Locked
      BY <1>5, <2>2 DEF Locked
    <3>3. LockOK'
      BY <1>1, <1>2, <1>3, <1>5, <2>2, <3>2, LockKept DEF client
    <3>4. SpareOK'
      BY <1>1, <1>2, <1>3, <1>5, <2>2, SpareKept DEF client
    <3>5. QED BY <3>1, <3>3, <3>4
  <2>3. QED BY <1>4, <2>1, <2>2
<1>8. CacheOK' /\ AskedOK' /\ SharesAreYoung'
  BY <1>1, <1>2, SameCache DEF client, SharesAreYoung
<1>9. TypeOK'
  BY <1>1, <1>2, <1>6, <1>7 DEF TypeOK, client, States, Places, Locked
<1>10. QED BY <1>7, <1>8, <1>9 DEF CacheInv

\* An age grows by one, up to its limit.
LEMMA OlderType ==
  ASSUME NEW limit \in Nat, NEW age \in 0..limit
  PROVE  Older(age, limit) \in 0..limit
         /\ (Older(age, limit) = age + 1 \/ (age = limit /\ Older(age, limit) = limit))
BY DEF Older

\* Time passes.
LEMMA TickStep == ASSUME CacheInv, Tick PROVE CacheInv'
<1>1. TypeOK /\ LockOK /\ CacheOK /\ AskedOK /\ SpareOK /\ SharesAreYoung
  BY DEF CacheInv
<1>2. /\ UNCHANGED <<pause, lock, requested, owed, tooOld>>
      /\ lastAny' = Older(lastAny, PollIv)
      /\ backoff' = IF backoff > 0 THEN backoff - 1 ELSE 0
      /\ lastPoll' = [m \in Monitored |-> Older(lastPoll[m], PollIv)]
      /\ lastForce' = [m \in Monitored |-> Older(lastForce[m], ForceMin)]
      /\ asked' = [m \in Market |-> Older(asked[m], PollIv)]
  BY Zenon DEF Tick
<1>3. Limit \in Nat /\ MaxAge + 1 \in Nat /\ Limit = MaxAge + 1 + CallMax /\ PollIv \in Nat
      /\ PollIv <= MaxAge /\ CallMax \in Nat
  BY TimeAssumption DEF Limit
<1>4. ASSUME NEW m \in Market, cache[m].known
      PROVE  /\ cache'[m].known /\ cache'[m] \in Entries
             /\ cache'[m].age = Older(cache[m].age, MaxAge + 1)
             /\ cache'[m].asOf = Older(cache[m].asOf, Limit)
  <2>1. cache'[m] = [cache[m] EXCEPT !.age = Older(@, MaxAge + 1), !.asOf = Older(@, Limit)]
    BY <1>4 DEF Tick
  <2>2. /\ cache[m] \in Entries /\ cache[m].age \in 0..(MaxAge + 1) /\ cache[m].asOf \in 0..Limit
    BY <1>1, EntryType
  <2>3. Older(cache[m].age, MaxAge + 1) \in 0..(MaxAge + 1)
        /\ Older(cache[m].asOf, Limit) \in 0..Limit
    BY <1>3, <2>2, OlderType
  <2>4. QED BY <1>4, <2>1, <2>2, <2>3 DEF Entries
<1>5. ASSUME NEW m \in Market, ~cache[m].known
      PROVE  cache'[m] = NoEntry /\ cache'[m] \in Entries /\ ~cache'[m].known
  <2>1. cache'[m] = NoEntry
    BY <1>5 DEF Tick
  <2>2. NoEntry \in Entries /\ ~NoEntry.known
    BY TimeAssumption DEF NoEntry, Entries, Limit
  <2>3. QED BY <2>1, <2>2
<1>6. cache' \in [Market -> Entries]
  <2>1. \A m \in Market : cache'[m] \in Entries
    BY <1>4, <1>5
  <2>2. QED BY <2>1 DEF Tick
<1>7. CacheOK'
  <2>1. ASSUME NEW m \in Market, cache'[m].known
        PROVE  cache'[m].asOf <= cache'[m].age + CallMax
    <3>1. cache[m].known
      BY <1>5, <2>1
    <3>2. cache[m].age \in 0..(MaxAge + 1) /\ cache[m].asOf \in 0..Limit
          /\ cache[m].asOf <= cache[m].age + CallMax
      BY <1>1, <3>1, EntryType DEF CacheOK
    <3>3. cache'[m].age = Older(cache[m].age, MaxAge + 1)
          /\ cache'[m].asOf = Older(cache[m].asOf, Limit)
      BY <1>4, <3>1
    <3>4. QED BY <1>3, <3>2, <3>3 DEF Older
  <2>2. QED BY <2>1 DEF CacheOK
<1>8. lastAny \in 0..PollIv /\ lastAny' \in 0..PollIv
  <2>1. lastAny \in 0..PollIv
    BY <1>1, Zenon DEF TypeOK
  <2>2. QED BY <1>2, <1>3, <2>1, OlderType
<1>9. \A m \in Market : asked[m] \in 0..PollIv /\ asked'[m] = Older(asked[m], PollIv)
  <2>1. asked \in [Market -> 0..PollIv]
    BY <1>1, Zenon DEF TypeOK
  <2>2. QED BY <1>2, <2>1
<1>10. AskedOK'
  <2>1. ASSUME NEW m \in Market, asked'[m] < PollIv
        PROVE  cache'[m].known /\ cache'[m].age <= asked'[m] /\ lastAny' <= asked'[m]
    <3>0. asked[m] \in 0..PollIv /\ asked'[m] = Older(asked[m], PollIv)
      BY <1>9
    <3>1. asked'[m] = asked[m] + 1 /\ asked[m] < PollIv /\ asked[m] \in Nat
      BY <1>3, <2>1, <3>0 DEF Older
    <3>2. cache[m].known /\ cache[m].age <= asked[m] /\ lastAny <= asked[m]
      BY <1>1, <3>1 DEF AskedOK
    <3>3. cache[m].age \in 0..(MaxAge + 1)
      BY <1>1, EntryType
    <3>4. cache'[m].known /\ cache'[m].age = Older(cache[m].age, MaxAge + 1)
      BY <1>4, <3>2
    <3>5. cache'[m].age <= asked'[m]
      BY <1>3, <3>1, <3>2, <3>3, <3>4 DEF Older
    <3>6. lastAny' <= asked'[m]
      BY <1>2, <1>3, <1>8, <3>1, <3>2 DEF Older
    <3>7. QED BY <3>4, <3>5, <3>6
  <2>2. QED BY <2>1 DEF AskedOK
<1>11. ASSUME NEW r \in Reader
       PROVE  reader'[r] \in States /\ reader'[r].at = reader[r].at
  <2>1. reader'[r] = IF InCall(r) THEN [reader[r] EXCEPT !.took = @ + 1] ELSE reader[r]
    BY DEF Tick
  <2>2. reader[r] \in States /\ reader[r].took \in 0..CallMax
    BY <1>1, StateType
  <2>3. CASE InCall(r)
    <3>1. reader[r].took < CallMax
      BY <2>3 DEF Tick
    <3>2. reader[r].took + 1 \in 0..CallMax
      BY <1>3, <2>2, <3>1
    <3>3. QED BY <2>1, <2>2, <2>3, <3>2 DEF States
  <2>4. QED BY <2>1, <2>2, <2>3
<1>12. reader' \in [Reader -> States]
  BY <1>11 DEF Tick
<1>13. LockOK'
  BY <1>1, <1>2, <1>11 DEF LockOK
<1>14. SpareOK'
  <2>1. ASSUME NEW r \in Reader, reader'[r].at = "second"
        PROVE  backoff' = 0 /\ asked'[r[1]] >= PollIv
    <3>1. backoff = 0 /\ asked[r[1]] >= PollIv /\ r[1] \in Market
      BY <1>1, <1>11, <2>1, ReaderType DEF SpareOK
    <3>2. asked[r[1]] \in 0..PollIv /\ asked'[r[1]] = Older(asked[r[1]], PollIv)
      BY <1>9, <3>1
    <3>3. asked'[r[1]] >= PollIv
      BY <1>3, <3>1, <3>2 DEF Older
    <3>4. QED BY <1>2, <3>1, <3>3
  <2>2. QED BY <2>1 DEF SpareOK
<1>15. /\ backoff' \in 0..BackoffMax /\ asked' \in [Market -> 0..PollIv]
       /\ lastPoll' \in [Monitored -> 0..PollIv] /\ lastForce' \in [Monitored -> 0..ForceMin]
  <2>1. backoff \in 0..BackoffMax /\ lastPoll \in [Monitored -> 0..PollIv]
        /\ lastForce \in [Monitored -> 0..ForceMin]
    BY <1>1, Zenon DEF TypeOK
  <2>2. backoff' \in 0..BackoffMax
    BY <1>2, <2>1, TimeAssumption
  <2>3. ASSUME NEW m \in Market PROVE Older(asked[m], PollIv) \in 0..PollIv
    BY <1>3, <1>9, OlderType
  <2>4. ASSUME NEW m \in Monitored
        PROVE  Older(lastPoll[m], PollIv) \in 0..PollIv
               /\ Older(lastForce[m], ForceMin) \in 0..ForceMin
    <3>1. lastPoll[m] \in 0..PollIv /\ lastForce[m] \in 0..ForceMin
      BY <2>1
    <3>2. QED BY <1>3, <3>1, OlderType, TimeAssumption
  <2>5. QED BY <1>2, <2>2, <2>3, <2>4
<1>16. TypeOK' /\ SharesAreYoung'
  <2>1. /\ pause' \in 0..BackoffMax /\ lock' \in Reader \cup {NoReader}
        /\ requested' \in [Monitored -> BOOLEAN] /\ owed' \in [Monitored -> BOOLEAN]
        /\ tooOld' \in BOOLEAN
    BY <1>1, <1>2, Zenon DEF TypeOK
  <2>2. TypeOK'
    BY <1>6, <1>8, <1>12, <1>15, <2>1 DEF TypeOK, Entries, States, Places, Locked
  <2>3. SharesAreYoung'
    BY <1>1, <1>2 DEF SharesAreYoung
  <2>4. QED BY <2>2, <2>3
<1>17. QED BY <1>7, <1>10, <1>13, <1>14, <1>16 DEF CacheInv

\* Every step keeps the invariant.
LEMMA CacheStep == CacheInv /\ [Next]_vars => CacheInv'
<1> SUFFICES ASSUME CacheInv, [Next]_vars PROVE CacheInv'
  OBVIOUS
<1>1. ASSUME NEW r \in Reader, Read(r) \/ TimesOut(r) \/ TaskReads(r) PROVE CacheInv'
  BY <1>1, ChainAnswers, CallSpared, LockIsTaken, CallGoesOn, ClobAnswered, ClobRaised,
     CallGivenUp DEF Read
<1>2. ASSUME NEW m \in Monitored, MonitorTick(m) \/ TradeReported(m) PROVE CacheInv'
  BY <1>2, MonitorStep
<1>3. CASE Tick
  BY <1>3, TickStep
<1>4. CASE UNCHANGED vars
  BY <1>4 DEF CacheInv, TypeOK, LockOK, CacheOK, AskedOK, SpareOK, SharesAreYoung, vars,
              client, monitor
<1>5. QED BY <1>1, <1>2, <1>3, <1>4 DEF Next

\* The invariant holds in every reachable state.
LEMMA CacheInvariant == Spec => []CacheInv
<1>1. Init => CacheInv
  BY CacheInit
<1>2. CacheInv /\ [Next]_vars => CacheInv'
  BY CacheStep
<1>3. QED BY <1>1, <1>2, PTL DEF Spec

-----------------------------------------------------------------------------
\* Every variable of the client and the monitors keeps its type, the back-off
\* within its maximum.
THEOREM TypeCorrect == Spec => []TypeOK
<1>1. CacheInv => TypeOK
  BY DEF CacheInv
<1>2. QED BY <1>1, CacheInvariant, PTL

\* No reader is handed shares older than the cache allows, for any number of
\* markets and readers.
THEOREM SharesStayYoung == Spec => []SharesAreYoung
<1>1. CacheInv => SharesAreYoung
  BY DEF CacheInv
<1>2. QED BY <1>1, CacheInvariant, PTL

\* No reader begins a read of the CLOB that the back-off or an answer of the
\* last interval spares it, for any number of markets and readers.
THEOREM ClobIsSpared == Spec => ClobSpared
<1> DEFINE Step == \A r \in Reader :
                     reader[r].at # "clob" /\ reader'[r].at = "clob" =>
                       backoff = 0 /\ asked[r[1]] >= PollIv
<1>1. ASSUME CacheInv, [Next]_vars, NEW r \in Reader,
             reader[r].at # "clob", reader'[r].at = "clob"
      PROVE  backoff = 0 /\ asked[r[1]] >= PollIv
  <2>1. TypeOK /\ SpareOK
    BY <1>1 DEF CacheInv
  <2>2. reader[r].at = "second"
    <3>1. ASSUME NEW q \in Reader, NEW state \in States,
                 reader' = [reader EXCEPT ![q] = state], state.at # "clob"
          PROVE  FALSE
      BY <1>1, <2>1, <3>1, ReaderMoves
    <3>2. /\ Idle \in States /\ Idle.at # "clob"
          /\ [Idle EXCEPT !.at = "waiting"] \in States
          /\ [Idle EXCEPT !.at = "waiting"].at # "clob"
      BY StateKinds
    <3>3. ASSUME NEW at \in {"primary", "second", "fallback", "blind"}
          PROVE  [at |-> at, took |-> 0] \in States /\ [at |-> at, took |-> 0].at # "clob"
      BY StateKinds DEF Places, Locked
    <3>4. ASSUME NEW q \in Reader, Read(q) \/ TimesOut(q) \/ TaskReads(q)
          PROVE  reader[r].at = "second"
      <4>1. CASE SecondIsEmpty(q)
        <5>1. [at |-> "clob", took |-> 0] \in States
          BY StateKinds DEF Places, Locked
        <5>2. reader' = [reader EXCEPT ![q] = [at |-> "clob", took |-> 0]]
              /\ reader[q].at = "second"
          BY <4>1 DEF SecondIsEmpty, Asks
        <5>3. \A p \in Reader \ {q} : reader'[p] = reader[p]
          BY <2>1, <5>1, <5>2, ReaderMoves
        <5>4. QED BY <1>1, <5>2, <5>3
      <4>2. CASE PrimaryAnswers(q) \/ SecondAnswers(q) \/ ClobAnswers(q) \/ FallbackAnswers(q)
                 \/ FallbackIsEmpty(q) \/ TimesOut(q)
        <5>1. reader' = [reader EXCEPT ![q] = Idle]
          BY <4>2 DEF PrimaryAnswers, SecondAnswers, ClobAnswers, FallbackAnswers,
                      FallbackIsEmpty, TimesOut, Return, ReturnNothing
        <5>2. QED BY <3>1, <3>2, <5>1
      <4>3. CASE PrimaryIsEmpty(q) \/ LockSpares(q)
        <5>1. reader' \in {[reader EXCEPT ![q] = Idle],
                           [reader EXCEPT ![q] = [Idle EXCEPT !.at = "waiting"]]}
          BY <4>3 DEF PrimaryIsEmpty, LockSpares, ReturnCached, Return, ReturnNothing
        <5>2. QED BY <3>1, <3>2, <5>1
      <4>4. CASE LockTaken(q) \/ TaskReads(q) \/ ClobRaises(q)
        <5>1. \/ reader' = [reader EXCEPT ![q] = Idle]
              \/ \E at \in {"primary", "second", "fallback", "blind"} :
                   reader' = [reader EXCEPT ![q] = [at |-> at, took |-> 0]]
          BY <4>4 DEF LockTaken, TaskReads, ClobRaises, Asks, Return
        <5>2. QED BY <3>1, <3>2, <3>3, <5>1
      <4>5. QED BY <3>4, <4>1, <4>2, <4>3, <4>4 DEF Read
    <3>5. ASSUME NEW m \in Monitored, MonitorTick(m) \/ TradeReported(m)
          PROVE  FALSE
      <4>1. <<m, "monitor">> \in Reader
        BY DEF Reader
      <4>2. reader' = reader
            \/ reader' = [reader EXCEPT ![<<m, "monitor">>] = [at |-> "primary", took |-> 0]]
        BY <3>5 DEF MonitorTick, TradeReported, Asks
      <4>3. QED BY <1>1, <3>1, <3>3, <4>1, <4>2
    <3>6. CASE Tick
      <4>1. reader[r] \in States
        BY <2>1, StateType
      <4>2. reader'[r] = IF InCall(r) THEN [reader[r] EXCEPT !.took = @ + 1] ELSE reader[r]
        BY <3>6 DEF Tick
      <4>3. reader'[r].at = reader[r].at
        BY <4>1, <4>2 DEF States
      <4>4. QED BY <1>1, <4>3
    <3>7. CASE UNCHANGED vars
      BY <1>1, <3>7 DEF vars
    <3>8. QED BY <1>1, <3>4, <3>5, <3>6, <3>7 DEF Next
  <2>3. QED BY <2>1, <2>2 DEF SpareOK
<1>2. CacheInv /\ [Next]_vars => [Step]_vars
  BY <1>1
<1>3. QED BY <1>2, CacheInvariant, PTL DEF Spec, ClobSpared

\* One reader at a time is behind the lock, and a lock that is taken is that of a
\* reader that is still behind it.
OneInside ==
  /\ \A r, q \in Reader : reader[r].at \in Locked /\ reader[q].at \in Locked => r = q
  /\ lock # NoReader => \E r \in Reader : lock = r /\ reader[r].at \in Locked

\* _cond_balance_lock serialises the requests behind it over all markets, and no
\* answer, failure or timeout of a reader leaves it taken by one that has gone.
THEOREM LockIsOfAReader == Spec => []OneInside
<1>1. CacheInv => OneInside
  BY DEF CacheInv, TypeOK, LockOK, OneInside
<1>2. QED BY <1>1, CacheInvariant, PTL

\* The third test of the back-off, behind the second read of the chain, lets
\* every reader pass, for any number of readers: those that fail move the
\* back-off under the lock only.  The model leaves the test out.
THEOREM ThirdTestPasses == Spec => [](\A r \in Reader : reader[r].at = "second" => backoff = 0)
<1>1. CacheInv => \A r \in Reader : reader[r].at = "second" => backoff = 0
  BY DEF CacheInv, SpareOK
<1>2. QED BY <1>1, CacheInvariant, PTL

=============================================================================
