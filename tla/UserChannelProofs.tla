-------------------------- MODULE UserChannelProofs --------------------------
(***************************************************************************)
(* Theorems about UserChannel, for every length of the list of trades,     *)
(* every number of reports and every number of failures it tolerates.      *)
(***************************************************************************)
EXTENDS UserChannel, SequenceTheorems, FiniteSetTheorems, TLAPS

\* The session and the listen task; while the task runs, one more failure fits.
SessionOK ==
  /\ session \in {"connecting", "up", "over", "raised"}
  /\ sock \in Closings \cup {"none", "open"}
  /\ listen \in {"off", "recv", "backoff", "connect", "spin", "ended"}
  /\ failures \in 0..MaxFailures
  /\ session = "connecting" => listen = "off"
  /\ listen # "ended" => failures < MaxFailures

\* The two flags.
FlagsOK == channel \in BOOLEAN /\ fatal \in BOOLEAN

\* The list holds the latest reports, without a gap and in order.
StoreOK ==
  /\ received \in 0..Messages
  /\ trades \in Seq(1..Messages) /\ Len(trades) <= MaxRecent
  /\ Len(trades) <= received
  /\ \A i \in 1..Len(trades) : trades[i] = received - Len(trades) + i
  /\ mine \subseteq 1..received

\* The last report in front of those the index has not passed.
Passed == received - Len(trades) + seen

\* Nothing beyond it has been counted, nothing up to the order was; an order that
\* was answered had been taken before.
FillOK ==
  /\ placed \in -1..Messages /\ booked \in -1..received
  /\ placed >= 0 => 0 <= booked /\ booked <= placed
  /\ seen \in 0..Len(trades)
  /\ placed <= Passed
  /\ counted \in [1..Messages -> 0..1]
  /\ \A m \in 1..Messages :
       counted[m] = 1 => m \in mine /\ placed >= 0 /\ m > placed /\ m <= Passed

\* The inductive invariant.
IInv == SessionOK /\ FlagsOK /\ StoreOK /\ FillOK

-----------------------------------------------------------------------------
\* What a sequence has behind its first k elements.
LEMMA Suffix ==
  ASSUME NEW S, NEW s \in Seq(S), NEW k \in Nat, k < Len(s)
  PROVE  /\ SubSeq(s, k + 1, Len(s)) \in Seq(S)
         /\ Len(SubSeq(s, k + 1, Len(s))) = Len(s) - k
         /\ \A i \in 1..(Len(s) - k) : SubSeq(s, k + 1, Len(s))[i] = s[k + i]
<1> DEFINE first == k + 1
           last == Len(s)
<1>1. first \in Int /\ last \in Int /\ first = k + 1 /\ last = Len(s) /\ first <= last
  BY LenProperties
<1>2. \A i \in first..last : s[i] \in S
  BY <1>1, ElementOfSeq
<1> HIDE DEF first, last
<1>3. /\ SubSeq(s, first, last) \in Seq(S)
      /\ Len(SubSeq(s, first, last)) = IF first <= last THEN last - first + 1 ELSE 0
      /\ \A i \in 1..(last - first + 1) : SubSeq(s, first, last)[i] = s[first + i - 1]
  BY <1>1, <1>2, SubSeqProperties, SMTT(30)
<1>4. last - first + 1 = Len(s) - k /\ \A i \in Int : first + i - 1 = k + i
  BY <1>1
<1>5. /\ SubSeq(s, first, last) \in Seq(S)
      /\ Len(SubSeq(s, first, last)) = Len(s) - k
      /\ \A i \in 1..(Len(s) - k) : SubSeq(s, first, last)[i] = s[k + i]
  BY <1>1, <1>3, <1>4
<1>6. QED BY <1>5 DEF first, last

\* Trimming after a report has been appended keeps the list gapless.
LEMMA AppendTrimmed ==
  ASSUME StoreOK, received < Messages,
         trades' = Trimmed(Append(trades, received + 1)), received' = received + 1
  PROVE  /\ trades' \in Seq(1..Messages) /\ Len(trades') <= MaxRecent
         /\ Len(trades') \in {Len(trades), Len(trades) + 1}
         /\ \A i \in 1..Len(trades') : trades'[i] = received' - Len(trades') + i
<1> DEFINE rows == Append(trades, received + 1)
<1>1. /\ received \in Nat /\ Messages \in Nat /\ Len(trades) \in Nat
      /\ received + 1 \in 1..Messages /\ Len(trades) <= received
      /\ MaxRecent \in Nat /\ MaxRecent > 0 /\ Len(trades) <= MaxRecent
  BY MessagesAssumption, RecentAssumption, LenProperties DEF StoreOK
<1>2. /\ rows \in Seq(1..Messages) /\ Len(rows) = Len(trades) + 1 /\ rows # <<>>
      /\ \A i \in 1..Len(trades) : rows[i] = trades[i]
      /\ rows[Len(trades) + 1] = received + 1
  <2>1. trades \in Seq(1..Messages) /\ received + 1 \in 1..Messages
    BY <1>1 DEF StoreOK
  <2>2. /\ rows \in Seq(1..Messages) /\ Len(rows) = Len(trades) + 1
        /\ \A i \in 1..Len(trades) : rows[i] = trades[i]
        /\ rows[Len(trades) + 1] = received + 1
    BY <2>1, AppendProperties
  <2>3. QED BY <1>1, <2>2, EmptySeq
<1>3. \A i \in 1..Len(rows) : rows[i] = received - Len(trades) + i
  BY <1>1, <1>2 DEF StoreOK
<1> HIDE DEF rows
<1>4. trades' = IF Len(rows) > MaxRecent THEN Tail(rows) ELSE rows
  BY DEF Trimmed, rows
<1>5. CASE Len(rows) > MaxRecent
  <2> DEFINE rest == Tail(rows)
  <2>1. /\ rest \in Seq(1..Messages) /\ Len(rest) = Len(rows) - 1
        /\ \A i \in 1..Len(rest) : rest[i] = rows[i + 1]
    BY <1>2, HeadTailProperties
  <2>2. trades' = rest
    BY <1>4, <1>5
  <2> HIDE DEF rest
  <2>3. Len(rows) = MaxRecent + 1 /\ Len(rest) = Len(trades) /\ Len(trades) = MaxRecent
    BY <1>1, <1>2, <1>5, <2>1
  <2>4. \A i \in 1..Len(rest) : rest[i] = received + 1 - Len(rest) + i
    BY <1>1, <1>2, <1>3, <2>1, <2>3
  <2>5. trades' \in Seq(1..Messages) /\ Len(trades') <= MaxRecent
    BY <1>1, <2>1, <2>2, <2>3
  <2>6. Len(trades') \in {Len(trades), Len(trades) + 1}
    BY <2>2, <2>3
  <2>7. \A i \in 1..Len(trades') : trades'[i] = received' - Len(trades') + i
    <3> SUFFICES \A i \in 1..Len(rest) : rest[i] = received' - Len(rest) + i
      BY <2>2
    <3>1. QED BY <1>1, <2>4
  <2>8. QED BY <2>5, <2>6, <2>7
<1>6. CASE ~(Len(rows) > MaxRecent)
  <2>1. trades' = rows
    BY <1>4, <1>6
  <2>2. Len(rows) <= MaxRecent /\ Len(rows) = Len(trades) + 1
    BY <1>1, <1>2, <1>6
  <2>3. \A i \in 1..Len(rows) : rows[i] = received + 1 - Len(rows) + i
    BY <1>1, <1>3, <2>2
  <2>4. trades' \in Seq(1..Messages) /\ Len(trades') <= MaxRecent
    BY <1>2, <2>1, <2>2
  <2>5. Len(trades') \in {Len(trades), Len(trades) + 1}
    BY <2>1, <2>2
  <2>6. \A i \in 1..Len(trades') : trades'[i] = received' - Len(trades') + i
    <3> SUFFICES \A i \in 1..Len(rows) : rows[i] = received' - Len(rows) + i
      BY <2>1
    <3>1. QED BY <1>1, <2>3
  <2>7. QED BY <2>4, <2>5, <2>6
<1>7. QED BY <1>5, <1>6

\* A report that arrives leaves what has been counted in front of the index.
LEMMA ApplyKeeps ==
  ASSUME StoreOK, FillOK, Apply, UNCHANGED fill
  PROVE  StoreOK' /\ FillOK'
<1>1. /\ received < Messages /\ received' = received + 1
      /\ trades' = Trimmed(Append(trades, received + 1))
      /\ mine' \in {mine, mine \cup {received + 1}}
      /\ placed' = placed /\ seen' = seen /\ counted' = counted /\ booked' = booked
  BY DEF Apply, fill
<1>2. /\ trades' \in Seq(1..Messages) /\ Len(trades') <= MaxRecent
      /\ Len(trades') \in {Len(trades), Len(trades) + 1}
      /\ \A i \in 1..Len(trades') : trades'[i] = received' - Len(trades') + i
  BY <1>1, AppendTrimmed
<1>3. received \in Nat /\ Messages \in Nat /\ Len(trades) \in Nat /\ seen \in Nat /\ placed \in Int /\ booked \in Int
  BY MessagesAssumption, LenProperties DEF StoreOK, FillOK
<1>4. StoreOK'
  BY <1>1, <1>2, <1>3 DEF StoreOK
<1>5. Passed' \in Int /\ Passed \in Int /\ Passed' >= Passed
  BY <1>1, <1>2, <1>3 DEF Passed
<1>6. FillOK'
  BY <1>1, <1>2, <1>3, <1>5 DEF FillOK
<1>7. QED BY <1>4, <1>6

\* Establishing a session may bring a report, or nothing.
LEMMA ReadyKeeps ==
  ASSUME StoreOK, FillOK, Ready, UNCHANGED fill
  PROVE  StoreOK' /\ FillOK'
<1>1. CASE Apply
  BY <1>1, ApplyKeeps
<1>2. CASE UNCHANGED store
  BY <1>2 DEF store, fill, StoreOK, FillOK, Passed
<1>3. QED BY <1>1, <1>2 DEF Ready

\* Steps that touch neither the list nor the position.
LEMMA SameFill ==
  ASSUME StoreOK, FillOK, UNCHANGED <<store, fill>>
  PROVE  StoreOK' /\ FillOK'
BY DEF store, fill, StoreOK, FillOK, Passed

\* The exchange takes the order; nothing is passed yet.
LEMMA OrderBookedKeeps ==
  ASSUME StoreOK, FillOK, OrderBooked
  PROVE  StoreOK' /\ FillOK'
<1>1. /\ booked = -1 /\ booked' = received /\ UNCHANGED <<store, placed, seen, counted>>
  BY DEF OrderBooked
<1>2. received \in Nat /\ placed < 0
  BY <1>1, MessagesAssumption DEF StoreOK, FillOK
<1>3. QED BY <1>1, <1>2 DEF store, StoreOK, FillOK, Passed

\* The order fixes what has been passed; nothing has been counted before it.
LEMMA OrderPlacedKeeps ==
  ASSUME StoreOK, FillOK, OrderPlaced
  PROVE  StoreOK' /\ FillOK'
<1>1. /\ placed = -1 /\ booked >= 0 /\ placed' = received /\ seen' = Len(trades)
      /\ booked' = booked /\ received' = received /\ trades' = trades /\ mine' = mine /\ counted' = counted
  BY DEF OrderPlaced, store
<1>2. StoreOK'
  BY <1>1 DEF StoreOK
<1>3. received \in Nat /\ Messages \in Nat /\ Len(trades) \in Nat
  BY MessagesAssumption, LenProperties DEF StoreOK
<1>4. \A m \in 1..Messages : counted[m] # 1
  BY <1>1 DEF FillOK
<1>5. FillOK'
  BY <1>1, <1>3, <1>4 DEF FillOK, Passed, StoreOK
<1>6. QED BY <1>2, <1>5

\* The rows behind the index are later than everything counted so far.
LEMMA IngestKeeps ==
  ASSUME StoreOK, FillOK, IngestTrades
  PROVE  StoreOK' /\ FillOK'
<1> DEFINE New(m) == m \in mine /\ \E i \in DOMAIN NewRows : NewRows[i] = m
<1>1. /\ placed >= 0 /\ Len(trades) > seen /\ seen' = Len(trades)
      /\ counted' = [m \in 1..Messages |-> IF New(m) THEN counted[m] + 1 ELSE counted[m]]
      /\ received' = received /\ trades' = trades /\ mine' = mine /\ placed' = placed /\ booked' = booked
  BY DEF IngestTrades, store
<1>2. StoreOK'
  BY <1>1 DEF StoreOK
<1>3. /\ received \in Nat /\ Messages \in Nat /\ Len(trades) \in Nat
      /\ seen \in Nat /\ placed \in Int /\ trades \in Seq(1..Messages)
  BY MessagesAssumption, LenProperties DEF StoreOK, FillOK
<1>4. Passed \in Int /\ Passed' \in Int /\ Passed' = received /\ Passed <= Passed'
  BY <1>1, <1>3 DEF Passed
<1>5. ASSUME NEW m \in 1..Messages, New(m)
      PROVE  m > Passed /\ m <= received
  <2>1. /\ NewRows \in Seq(1..Messages) /\ Len(NewRows) = Len(trades) - seen
        /\ \A i \in 1..(Len(trades) - seen) : NewRows[i] = trades[seen + i]
    BY <1>1, <1>3, Suffix DEF NewRows
  <2>2. PICK i \in DOMAIN NewRows : NewRows[i] = m
    BY <1>5
  <2>3. i \in 1..(Len(trades) - seen) /\ m = trades[seen + i]
    BY <2>1, <2>2, LenProperties
  <2>4. m = received - Len(trades) + (seen + i)
    <3>1. seen + i \in 1..Len(trades)
      BY <1>3, <2>3
    <3>2. QED BY <2>3, <3>1 DEF StoreOK
  <2>5. QED BY <1>3, <2>3, <2>4 DEF Passed
<1> HIDE DEF New
<1>6. \A m \in 1..Messages : New(m) => counted[m] = 0
  BY <1>4, <1>5 DEF FillOK
<1>7. \A m \in 1..Messages : New(m) => m \in mine
  BY DEF New
<1>8. counted' \in [1..Messages -> 0..1]
  BY <1>1, <1>6 DEF FillOK
<1>9. \A m \in 1..Messages :
        counted'[m] = 1 => m \in mine /\ placed >= 0 /\ m > placed /\ m <= Passed'
  BY <1>1, <1>3, <1>4, <1>5, <1>6, <1>7 DEF FillOK
<1>10. QED BY <1>1, <1>2, <1>3, <1>4, <1>8, <1>9 DEF FillOK

-----------------------------------------------------------------------------
\* It holds before the first report.
LEMMA InitInvariant == Init => IInv
<1> SUFFICES ASSUME Init PROVE IInv
  OBVIOUS
<1>1. SessionOK
  <2>1. MaxFailures \in Nat /\ 0 < MaxFailures
    BY FailuresAssumption
  <2>2. QED BY <2>1 DEF Init, SessionOK, Closings
<1>2. trades = <<>> /\ Len(trades) = 0 /\ trades \in Seq(1..Messages)
  BY EmptySeq DEF Init
<1>3. FlagsOK
  BY DEF Init, FlagsOK
<1>4. StoreOK
  BY <1>2, MessagesAssumption, RecentAssumption DEF Init, StoreOK
<1>5. FillOK
  BY <1>2, MessagesAssumption DEF Init, FillOK, Passed
<1>6. QED BY <1>1, <1>3, <1>4, <1>5 DEF IInv

\* The session and the listen task, step by step.
LEMMA SessionKept ==
  ASSUME SessionOK, [Next]_vars
  PROVE  SessionOK'
<1> USE FailuresAssumption DEF SessionOK, Closings
<1>1. CASE Connects \/ ConnectRejected \/ ConnectFails
  <2>1. CASE Connects
    <3>1. /\ session' = "up" /\ sock' = "open" /\ listen' = "recv"
          /\ failures' = failures /\ session = "connecting"
      BY <2>1 DEF Connects
    <3>2. QED BY <3>1
  <2>2. CASE ConnectRejected
    <3>1. /\ session' = "up" /\ sock' \in Closings \cup {"open"}
          /\ listen' = listen /\ failures' = failures
      BY <2>2 DEF ConnectRejected
    <3>2. QED BY <3>1
  <2>3. CASE ConnectFails
    BY <2>3 DEF ConnectFails
  <2>4. QED BY <1>1, <2>1, <2>2, <2>3
<1>2. CASE Leave
  <2>1. session' = "over" /\ failures' = failures
    BY <1>2 DEF Leave
  <2>2. \/ sock' = "none" /\ listen' = "ended"
        \/ sock' = sock /\ listen' = listen
    BY <1>2, Zenon DEF Leave
  <2>3. QED BY <2>1, <2>2
<1>3. CASE Receive \/ ListenRaises \/ SeeCleanClose
  BY <1>3 DEF Receive, ListenRaises, SeeCleanClose
<1>4. CASE SeeLoss
  <2>1. /\ failures' \in {failures, failures + 1} /\ failures < MaxFailures
        /\ session' = session /\ sock' = sock /\ listen = "recv"
    BY <1>4 DEF SeeLoss
  <2>2. \/ listen' = "ended"
        \/ listen' = "backoff" /\ ~(failures' >= MaxFailures)
    BY <1>4, Zenon DEF SeeLoss
  <2>3. QED BY <2>1, <2>2
<1>5. CASE BackoffOver \/ Reconnects
  BY <1>5 DEF BackoffOver, Reconnects
<1>6. CASE ReconnectRejected
  <2>1. /\ failures' = failures + 1 /\ failures < MaxFailures
        /\ session' = session /\ sock' \in Closings \cup {"open"} /\ listen = "connect"
    BY <1>6 DEF ReconnectRejected
  <2>2. \/ listen' = "ended"
        \/ listen' = "recv" /\ ~(failures' >= MaxFailures)
    BY <1>6, Zenon DEF ReconnectRejected
  <2>3. QED BY <2>1, <2>2
<1>7. CASE ReconnectFails
  BY <1>7 DEF ReconnectFails, AfterFailure
<1>8. CASE ServerCloses \/ OrderBooked \/ OrderPlaced \/ IngestTrades
  BY <1>8 DEF ServerCloses, OrderBooked, OrderPlaced, IngestTrades
<1>9. CASE Stopped \/ UNCHANGED vars
  BY <1>9 DEF Stopped, vars
<1>10. QED
  BY <1>1, <1>2, <1>3, <1>4, <1>5, <1>6, <1>7, <1>8, <1>9 DEF Next, ListenLoop

\* The flags are only ever assigned truth values.
LEMMA FlagsKept ==
  ASSUME FlagsOK, [Next]_vars
  PROVE  FlagsOK'
<1> USE DEF FlagsOK
<1>1. CASE Connects \/ ConnectRejected \/ ConnectFails \/ Leave
  BY <1>1 DEF Connects, ConnectRejected, ConnectFails, Leave
<1>2. CASE Receive \/ ListenRaises \/ SeeCleanClose \/ BackoffOver
  BY <1>2 DEF Receive, ListenRaises, SeeCleanClose, BackoffOver
<1>3. CASE SeeLoss \/ ReconnectRejected
  <2>1. fatal' = (failures' >= MaxFailures) /\ channel' = channel
    BY <1>3, Zenon DEF SeeLoss, ReconnectRejected
  <2>2. (failures' >= MaxFailures) \in BOOLEAN
    BY SMT
  <2>3. QED BY <2>1, <2>2, Zenon
<1>4. CASE Reconnects \/ ReconnectFails \/ ServerCloses \/ OrderBooked \/ OrderPlaced
           \/ IngestTrades
  BY <1>4 DEF Reconnects, ReconnectFails, ServerCloses, OrderBooked, OrderPlaced, IngestTrades
<1>5. CASE Stopped \/ UNCHANGED vars
  BY <1>5 DEF Stopped, vars
<1>6. QED BY <1>1, <1>2, <1>3, <1>4, <1>5 DEF Next, ListenLoop

\* The list and the index into it, step by step.
LEMMA FillKept ==
  ASSUME StoreOK, FillOK, [Next]_vars
  PROVE  StoreOK' /\ FillOK'
<1>1. CASE Connects \/ Reconnects
  BY <1>1, ReadyKeeps DEF Connects, Reconnects
<1>2. CASE Receive
  BY <1>2, ApplyKeeps DEF Receive
<1>3. CASE OrderBooked \/ OrderPlaced
  BY <1>3, OrderBookedKeeps, OrderPlacedKeeps
<1>4. CASE IngestTrades
  BY <1>4, IngestKeeps
<1>5. CASE ConnectRejected \/ ConnectFails \/ Leave
  BY <1>5, SameFill DEF ConnectRejected, ConnectFails, Leave
<1>6. CASE ListenRaises \/ SeeCleanClose \/ SeeLoss \/ BackoffOver
  BY <1>6, SameFill DEF ListenRaises, SeeCleanClose, SeeLoss, BackoffOver
<1>7. CASE ReconnectRejected \/ ReconnectFails \/ ServerCloses
  BY <1>7, SameFill DEF ReconnectRejected, ReconnectFails, ServerCloses
<1>8. CASE Stopped \/ UNCHANGED vars
  BY <1>8, SameFill DEF Stopped, vars, store, fill
<1>9. QED
  BY <1>1, <1>2, <1>3, <1>4, <1>5, <1>6, <1>7, <1>8 DEF Next, ListenLoop

\* It is an invariant, for any list length and any reports.
THEOREM InvariantHolds == Spec => []IInv
<1>1. IInv /\ [Next]_vars => IInv'
  BY SessionKept, FlagsKept, FillKept DEF IInv
<1>2. QED BY InitInvariant, <1>1, PTL DEF Spec

-----------------------------------------------------------------------------
\* Every variable keeps its type: clob_user_ws.py never counts more failures
\* than it tolerates, the store never holds more rows than max_recent.
THEOREM TypeCorrect == Spec => []TypeOK
<1>1. IInv => TypeOK
  <2> SUFFICES ASSUME IInv PROVE TypeOK
    OBVIOUS
  <2>1. seen \in 0..MaxRecent
    BY LenProperties, RecentAssumption DEF IInv, StoreOK, FillOK
  <2>2. counted \in [1..Messages -> Nat]
    BY DEF IInv, FillOK
  <2>3. mine \subseteq 1..Messages /\ booked \in -1..Messages
    BY MessagesAssumption DEF IInv, StoreOK, FillOK
  <2>4. QED BY <2>1, <2>2, <2>3 DEF IInv, SessionOK, FlagsOK, StoreOK, FillOK, TypeOK
<1>2. QED BY InvariantHolds, <1>1, PTL

\* _ingest_buy_fills counts no report twice, none of before the order, and none
\* that is not a matched buy of the position's token.
THEOREM NoReportTwice == Spec => []CountedOnce
<1>1. IInv => CountedOnce
  BY DEF IInv, FillOK, CountedOnce
<1>2. QED BY InvariantHolds, <1>1, PTL

-----------------------------------------------------------------------------
\* The reports since the answer that an evaluation has passed over.
Lost == {m \in mine : m > placed /\ m <= Passed /\ counted[m] = 0}

\* They are no more than the rows that were dropped.
LossOK == placed >= 0 => Cardinality(Lost) <= Dropped

\* Sets of reports are finite, and their sizes are compared as usual.
LEMMA LostType ==
  ASSUME IInv
  PROVE  /\ IsFiniteSet(Lost) /\ Cardinality(Lost) \in Nat
         /\ IsFiniteSet(mine) /\ Dropped \in Nat /\ Unread \in Nat /\ Passed \in Int
         /\ received \in Nat /\ placed \in Int /\ booked \in Int
<1>1. received \in Int /\ IsFiniteSet(1..received) /\ mine \subseteq 1..received
  BY FS_Interval DEF IInv, StoreOK
<1>2. IsFiniteSet(mine) /\ Lost \subseteq mine
  BY <1>1, FS_Subset DEF Lost
<1>3. IsFiniteSet(Lost)
  BY <1>2, FS_Subset
<1>4. /\ received \in Nat /\ Len(trades) \in Nat /\ Len(trades) <= received
      /\ seen \in 0..Len(trades) /\ placed \in Int /\ booked \in Int
  BY MessagesAssumption, LenProperties DEF IInv, StoreOK, FillOK
<1>5. QED BY <1>2, <1>3, <1>4, FS_CardinalityType DEF Dropped, Unread, Passed

\* A row that is dropped while it has not been read moves one report out of reach.
LEMMA ApplyLoses ==
  ASSUME IInv, IInv', LossOK, Apply, UNCHANGED fill
  PROVE  LossOK'
<1> SUFFICES ASSUME placed >= 0 PROVE Cardinality(Lost') <= Dropped'
  BY DEF LossOK, fill
<1>1. /\ received' = received + 1 /\ trades' = Trimmed(Append(trades, received + 1))
      /\ mine' \in {mine, mine \cup {received + 1}} /\ received < Messages
      /\ placed' = placed /\ seen' = seen /\ counted' = counted
  BY DEF Apply, fill
<1>2. Len(trades') \in {Len(trades), Len(trades) + 1}
  BY <1>1, AppendTrimmed DEF IInv
<1>3. /\ received \in Nat /\ Len(trades) \in Nat /\ Len(trades) <= received
      /\ seen \in 0..Len(trades)
  BY MessagesAssumption, LenProperties DEF IInv, StoreOK, FillOK
<1>4. \/ Passed' = Passed /\ Dropped' = Dropped
      \/ Passed' = Passed + 1 /\ Dropped' = Dropped + 1
  BY <1>1, <1>2, <1>3 DEF Passed, Dropped
<1>5. Passed \in Int /\ Passed <= received /\ Dropped \in Nat
  BY <1>3 DEF Passed, Dropped
<1>6. \A m \in mine' : m # received + 1 => m \in mine
  BY <1>1
<1>7. mine \subseteq 1..received
  BY DEF IInv, StoreOK
<1>8. IsFiniteSet(Lost) /\ Cardinality(Lost) \in Nat /\ Cardinality(Lost) <= Dropped
  BY LostType DEF LossOK
<1>9. CASE Passed' = Passed /\ Dropped' = Dropped
  <2>1. Lost' \subseteq Lost
    <3> SUFFICES ASSUME NEW m \in Lost' PROVE m \in Lost
      OBVIOUS
    <3>1. m \in mine' /\ m > placed /\ m <= Passed /\ counted[m] = 0
      BY <1>1, <1>9 DEF Lost
    <3>2. m # received + 1
      BY <1>3, <1>5, <3>1
    <3>3. QED BY <1>6, <3>1, <3>2 DEF Lost
  <2>2. Cardinality(Lost') <= Cardinality(Lost) /\ Cardinality(Lost') \in Nat
    BY <1>8, <2>1, FS_Subset, FS_CardinalityType
  <2>3. QED BY <1>5, <1>8, <1>9, <2>2
<1>10. CASE Passed' = Passed + 1 /\ Dropped' = Dropped + 1
  <2> DEFINE more == Lost \cup {Passed + 1}
  <2>1. Lost' \subseteq more
    <3> SUFFICES ASSUME NEW m \in Lost', m # Passed + 1 PROVE m \in Lost
      OBVIOUS
    <3>1. m \in mine' /\ m > placed /\ m <= Passed + 1 /\ counted[m] = 0
      BY <1>1, <1>10 DEF Lost
    <3>2. m \in Int
      BY <1>1, <1>3, <1>7, <3>1
    <3>3. m <= Passed /\ m # received + 1
      BY <1>3, <1>5, <3>1, <3>2
    <3>4. QED BY <1>6, <3>1, <3>3 DEF Lost
  <2>2. IsFiniteSet(more) /\ Cardinality(more) <= Cardinality(Lost) + 1
    BY <1>8, FS_AddElement
  <2>3. Cardinality(Lost') <= Cardinality(more) /\ Cardinality(Lost') \in Nat
        /\ Cardinality(more) \in Nat
    BY <2>1, <2>2, FS_Subset, FS_CardinalityType
  <2>4. QED BY <1>5, <1>8, <1>10, <2>2, <2>3
<1>11. QED BY <1>4, <1>9, <1>10

\* The rows behind the index are all read: no further report is passed over.
LEMMA IngestLosesNone ==
  ASSUME IInv, IInv', LossOK, IngestTrades
  PROVE  LossOK'
<1> DEFINE New(m) == m \in mine /\ \E i \in DOMAIN NewRows : NewRows[i] = m
<1>1. /\ placed >= 0 /\ Len(trades) > seen /\ seen' = Len(trades)
      /\ counted' = [m \in 1..Messages |-> IF New(m) THEN counted[m] + 1 ELSE counted[m]]
      /\ received' = received /\ trades' = trades /\ mine' = mine /\ placed' = placed
  BY DEF IngestTrades, store
<1>2. /\ received \in 0..Messages /\ Len(trades) \in Nat /\ trades \in Seq(1..Messages)
      /\ seen \in Nat /\ Messages \in Nat /\ mine \subseteq 1..received
      /\ counted \in [1..Messages -> 0..1] /\ Len(trades) <= received
  BY MessagesAssumption, LenProperties DEF IInv, StoreOK, FillOK
<1>3. /\ NewRows \in Seq(1..Messages) /\ Len(NewRows) = Len(trades) - seen
      /\ \A i \in 1..(Len(trades) - seen) : NewRows[i] = trades[seen + i]
  BY <1>1, <1>2, Suffix DEF NewRows
<1>4. DOMAIN NewRows = 1..(Len(trades) - seen)
  BY <1>3, LenProperties
<1>5. \A i \in 1..Len(trades) : trades[i] = received - Len(trades) + i
  BY DEF IInv, StoreOK
<1>6. \A i \in 1..(Len(trades) - seen) : NewRows[i] = Passed + i
  BY <1>2, <1>3, <1>5 DEF Passed
<1>7. Passed \in Int /\ received = Passed + (Len(trades) - seen)
  BY <1>2 DEF Passed
<1>8. ASSUME NEW m \in mine, m > Passed PROVE counted'[m] # 0
  <2>1. m \in 1..Messages /\ m \in 1..received
    BY <1>2
  <2>2. m - Passed \in 1..(Len(trades) - seen) /\ Passed + (m - Passed) = m
    BY <1>2, <1>7, <1>8, <2>1
  <2>3. NewRows[m - Passed] = m
    BY <1>6, <2>2
  <2>4. New(m)
    BY <1>4, <2>2, <2>3
  <2>5. counted[m] \in 0..1
    BY <1>2, <2>1
  <2> HIDE DEF New
  <2>6. QED BY <1>1, <2>1, <2>4, <2>5
<1>9. \A m \in mine : counted'[m] = 0 => counted[m] = 0
  <2> HIDE DEF New
  <2> SUFFICES ASSUME NEW m \in mine, counted'[m] = 0 PROVE counted[m] = 0
    OBVIOUS
  <2>1. m \in 1..Messages /\ counted[m] \in 0..1
    BY <1>2
  <2>2. QED BY <1>1, <2>1
<1>10. Lost' \subseteq Lost
  <2> SUFFICES ASSUME NEW m \in Lost' PROVE m \in Lost
    OBVIOUS
  <2>1. m \in mine /\ m > placed /\ counted'[m] = 0
    BY <1>1 DEF Lost
  <2>2. m \in Int /\ ~(m > Passed)
    BY <1>2, <1>8, <2>1
  <2>3. m <= Passed
    BY <1>7, <2>2
  <2>4. QED BY <1>9, <2>1, <2>3 DEF Lost
<1>11. IsFiniteSet(Lost) /\ Cardinality(Lost) \in Nat /\ Cardinality(Lost) <= Dropped
  BY <1>1, LostType DEF LossOK
<1>12. Cardinality(Lost') <= Cardinality(Lost) /\ Cardinality(Lost') \in Nat
  BY <1>10, <1>11, FS_Subset, FS_CardinalityType
<1>13. Dropped' = Dropped /\ Dropped \in Nat
  BY <1>1, LostType DEF Dropped
<1>14. QED BY <1>11, <1>12, <1>13 DEF LossOK

\* Every step loses no more reports than it drops rows.
LEMMA LossKept ==
  ASSUME IInv, IInv', LossOK, [Next]_vars
  PROVE  LossOK'
<1>1. CASE Connects \/ Reconnects \/ Receive
  <2>1. (Apply \/ UNCHANGED store) /\ UNCHANGED fill
    BY <1>1 DEF Connects, Reconnects, Receive, Ready
  <2>2. CASE UNCHANGED store
    BY <2>1, <2>2 DEF LossOK, Lost, Passed, Dropped, store, fill
  <2>3. QED BY <2>1, <2>2, ApplyLoses
<1>2. CASE OrderBooked
  <2>1. UNCHANGED <<store, placed, seen, counted>>
    BY <1>2 DEF OrderBooked
  <2>2. QED BY <2>1 DEF LossOK, Lost, Passed, Dropped, store
<1>3. CASE OrderPlaced
  <2>1. placed' = received /\ seen' = Len(trades) /\ UNCHANGED <<received, trades, mine>>
    BY <1>3 DEF OrderPlaced, store
  <2>2. Lost' = {}
    <3> SUFFICES ASSUME NEW m \in Lost' PROVE FALSE
      OBVIOUS
    <3>1. m \in mine /\ m > received
      BY <2>1 DEF Lost
    <3>2. QED BY <3>1, MessagesAssumption DEF IInv, StoreOK
  <2>3. Dropped' \in Nat
    BY LostType, <2>1 DEF Dropped
  <2>4. Cardinality(Lost') = 0
    BY <2>2, FS_EmptySet
  <2>5. QED BY <2>3, <2>4 DEF LossOK
<1>4. CASE IngestTrades
  BY <1>4, IngestLosesNone
<1>5. CASE \/ ConnectRejected \/ ConnectFails \/ Leave \/ ListenRaises \/ SeeCleanClose
           \/ SeeLoss \/ BackoffOver \/ ReconnectRejected \/ ReconnectFails \/ ServerCloses
           \/ Stopped \/ UNCHANGED vars
  <2>1. UNCHANGED <<store, fill>>
    BY <1>5 DEF ConnectRejected, ConnectFails, Leave, ListenRaises, SeeCleanClose, SeeLoss,
                BackoffOver, ReconnectRejected, ReconnectFails, ServerCloses, Stopped, vars,
                store, fill
  <2>2. QED BY <2>1 DEF LossOK, Lost, Passed, Dropped, store, fill
<1>6. QED BY <1>1, <1>2, <1>3, <1>4, <1>5 DEF Next, ListenLoop

\* What was not averaged came before the answer, was passed over, or is unread.
LEMMA LossBounds ==
  ASSUME IInv, LossOK
  PROVE  LeftOut
<1> SUFFICES ASSUME placed >= 0
             PROVE  Cardinality({m \in mine : m > booked /\ counted[m] = 0})
                      <= (placed - booked) + Dropped + Unread
  BY DEF LeftOut
<1> DEFINE missed == {m \in mine : m > booked /\ counted[m] = 0}
           early  == (booked + 1)..placed
           unread == (Passed + 1)..received
<1>1. /\ IsFiniteSet(Lost) /\ Cardinality(Lost) \in Nat /\ Cardinality(Lost) <= Dropped
      /\ Dropped \in Nat /\ Unread \in Nat /\ Passed \in Int
      /\ received \in Nat /\ placed \in Int /\ booked \in Int /\ booked <= placed
  BY LostType DEF LossOK, IInv, FillOK
<1>2. IsFiniteSet(early) /\ Cardinality(early) = placed - booked
  <2>1. booked + 1 \in Int /\ (booked + 1 > placed => placed - booked = 0)
    BY <1>1
  <2>2. IsFiniteSet(early) /\ Cardinality(early) =
          IF booked + 1 > placed THEN 0 ELSE placed - (booked + 1) + 1
    BY <1>1, <2>1, FS_Interval
  <2>3. QED BY <1>1, <2>1, <2>2
<1>3. IsFiniteSet(unread) /\ Cardinality(unread) = Unread
  <2>1. Passed + 1 \in Int /\ received = Passed + Unread
    BY <1>1, LenProperties DEF Passed, Unread, IInv, StoreOK, FillOK
  <2> DEFINE first == Passed + 1
  <2>2. IsFiniteSet(unread) /\ Cardinality(unread) =
          IF first > received THEN 0 ELSE received - first + 1
    <3>1. first \in Int /\ received \in Int /\ unread = first..received
      BY <1>1, <2>1
    <3> HIDE DEF first, unread
    <3>2. QED BY <3>1, FS_Interval
  <2>3. QED BY <1>1, <2>1, <2>2
<1>4. missed \subseteq (early \cup Lost) \cup unread
  <2> SUFFICES ASSUME NEW m \in mine, m > booked, counted[m] = 0
               PROVE  m \in early \/ m \in Lost \/ m \in unread
    OBVIOUS
  <2>1. m \in Int /\ m <= received
    BY DEF IInv, StoreOK
  <2>2. QED BY <1>1, <2>1 DEF Lost
<1> HIDE DEF missed, early, unread
<1>5. IsFiniteSet(early \cup Lost) /\ Cardinality(early \cup Lost) <= (placed - booked) + Dropped
  <2>1. /\ IsFiniteSet(early \cup Lost)
        /\ Cardinality(early \cup Lost) =
             Cardinality(early) + Cardinality(Lost) - Cardinality(early \cap Lost)
    BY <1>1, <1>2, FS_Union
  <2>2. Cardinality(early \cap Lost) \in Nat
    BY <1>2, FS_Subset, FS_CardinalityType
  <2>3. QED BY <1>1, <1>2, <2>1, <2>2
<1>6. /\ IsFiniteSet((early \cup Lost) \cup unread)
      /\ Cardinality((early \cup Lost) \cup unread) <= (placed - booked) + Dropped + Unread
  <2>1. /\ IsFiniteSet((early \cup Lost) \cup unread)
        /\ Cardinality((early \cup Lost) \cup unread) =
             Cardinality(early \cup Lost) + Cardinality(unread)
               - Cardinality((early \cup Lost) \cap unread)
    BY <1>3, <1>5, FS_Union
  <2>2. Cardinality((early \cup Lost) \cap unread) \in Nat /\ Cardinality(early \cup Lost) \in Nat
    BY <1>3, <1>5, FS_Subset, FS_CardinalityType
  <2>3. QED BY <1>1, <1>3, <1>5, <2>1, <2>2
<1>7. Cardinality(missed) <= Cardinality((early \cup Lost) \cup unread)
      /\ Cardinality(missed) \in Nat /\ Cardinality((early \cup Lost) \cup unread) \in Nat
  BY <1>4, <1>6, FS_Subset, FS_CardinalityType
<1>8. QED BY <1>1, <1>6, <1>7 DEF missed

\* For any list length and however many reports come, before the answer to the
\* order and after it: a report missing from the fill came before the answer, is
\* still to be read, or is one of as many as there were rows dropped.
THEOREM FewLeftOut == Spec => []LeftOut
<1>1. Init => LossOK
  BY DEF Init, LossOK
<1>2. IInv /\ IInv' /\ LossOK /\ [Next]_vars => LossOK'
  BY LossKept
<1>3. IInv /\ LossOK => LeftOut
  BY LossBounds
<1>4. QED BY <1>1, <1>2, <1>3, InvariantHolds, PTL DEF Spec

\* Only attempts that are rejected end a channel that has brought a trade, for
\* any number of failures it tolerates.
THEOREM LossIsTolerated == Spec => LossIsNotFatal
<1> DEFINE Step == (~fatal /\ fatal' /\ received > 0) => listen = "connect"
<1>1. ASSUME IInv, [Next]_vars, ~fatal, fatal', received > 0 PROVE listen = "connect"
  <2>1. CASE SeeLoss
    <3>1. failures < MaxFailures /\ failures \in Nat /\ received \in Nat
      BY <1>1, <2>1, FailuresAssumption, MessagesAssumption
      DEF SeeLoss, IInv, SessionOK, StoreOK
    <3>2. ~Suspicious
      BY <1>1, <3>1 DEF Suspicious
    <3>3. failures' = failures
      BY <2>1, <3>2 DEF SeeLoss
    <3>4. ~(failures' >= MaxFailures)
      BY <3>1, <3>3, FailuresAssumption
    <3>5. fatal' = (failures' >= MaxFailures)
      BY <2>1, Zenon DEF SeeLoss
    <3>6. QED BY <1>1, <3>4, <3>5, Zenon
  <2>2. CASE ReconnectRejected
    BY <2>2, Zenon DEF ReconnectRejected
  <2>3. CASE ~(SeeLoss \/ ReconnectRejected)
    <3>1. fatal' = fatal
      BY <1>1, <2>3, Zenon
      DEF Next, ListenLoop, Connects, ConnectRejected, ConnectFails, Leave, Receive,
          ListenRaises, SeeCleanClose, BackoffOver, Reconnects, ReconnectFails, ServerCloses,
          OrderBooked, OrderPlaced, IngestTrades, Stopped, vars
    <3>2. QED BY <1>1, <3>1, Zenon
  <2>4. QED BY <2>1, <2>2, <2>3
<1>2. IInv /\ [Next]_vars => [Step]_vars
  BY <1>1
<1>3. QED BY <1>2, InvariantHolds, PTL DEF Spec, LossIsNotFatal

=============================================================================
