---------------------------- MODULE WaveGateProofs ----------------------------
(***************************************************************************)
(* Theorems about WaveGate, for every number of symbols and polls, every   *)
(* size of the queues and every set of monitors that may raise.            *)
(***************************************************************************)
EXTENDS WaveGate, SequenceTheorems, TLAPS

\* The rows of a queue are in order, later than `low' and not later than `high'.
Rows(q, low, high) ==
  \A i \in 1..Len(q) : q[i] > 0 =>
    /\ low < q[i] /\ q[i] <= high
    /\ \A k \in 1..Len(q) : (k > i /\ q[k] > 0) => q[i] < q[k]

\* The latest row a monitor has submitted.
Submitted(s) == IF monitor[s] = "submit" THEN polled[s] - 1 ELSE polled[s]

\* The display is behind the writer, and both are behind the queue.
RowOK(s) ==
  /\ printed[s] <= Submitted(s) /\ parts[s] <= Submitted(s)
  /\ parts[s] > 0 => printed[s] < parts[s]
  /\ Rows(queue[s], printed[s], Submitted(s))
  /\ Rows(queue[s], parts[s], Submitted(s))

\* A monitor in submit_wave has made a poll.
PollOK == \A s \in Symbol : monitor[s] = "submit" => polled[s] > 0

\* The queues have a size.
RoomOK == \A s \in Symbol : Len(queue[s]) <= Capacity

\* The inductive invariant.
GateInv == TypeOK /\ PollOK /\ RoomOK /\ \A s \in Symbol : RowOK(s)

-----------------------------------------------------------------------------
Item == -1..Polls

\* What is left behind the head is later than the head.
LEMMA RowsTail ==
  ASSUME NEW q \in Seq(Item), q # <<>>, NEW low \in Int, NEW high \in Int, Rows(q, low, high)
  PROVE  /\ Tail(q) \in Seq(Item) /\ Len(Tail(q)) = Len(q) - 1
         /\ Head(q) \in Item
         /\ Rows(Tail(q), low, high)
         /\ Head(q) > 0 => /\ low < Head(q) /\ Head(q) <= high
                           /\ Rows(Tail(q), Head(q), high)
<1>1. /\ Tail(q) \in Seq(Item) /\ Len(Tail(q)) = Len(q) - 1 /\ Len(q) \in Nat \ {0}
      /\ \A i \in 1..Len(Tail(q)) : Tail(q)[i] = q[i + 1]
      /\ Head(q) \in Item /\ Head(q) = q[1]
  BY HeadTailProperties, EmptySeq
<1>2. \A i \in 1..Len(q) : q[i] \in Item
  BY ElementOfSeq
<1>3. \A i \in 1..Len(Tail(q)) : i + 1 \in 1..Len(q) /\ i + 1 > 1
  BY <1>1
<1>4. Item \subseteq Int
  BY CountAssumption DEF Item
<1>5. Rows(Tail(q), low, high)
  BY <1>1, <1>3 DEF Rows
<1>6. ASSUME Head(q) > 0
      PROVE  low < Head(q) /\ Head(q) <= high /\ Rows(Tail(q), Head(q), high)
  <2>1. 1 \in 1..Len(q) /\ q[1] > 0
    BY <1>1, <1>6
  <2>2. low < q[1] /\ q[1] <= high
        /\ \A k \in 1..Len(q) : (k > 1 /\ q[k] > 0) => q[1] < q[k]
    BY <2>1 DEF Rows
  <2>3. Rows(Tail(q), Head(q), high)
    BY <1>1, <1>3, <1>5, <2>2 DEF Rows
  <2>4. QED BY <1>1, <2>2, <2>3
<1>7. QED BY <1>1, <1>5, <1>6

\* The empty row and the sentinel leave the rows in order.
LEMMA RowsMark ==
  ASSUME NEW q \in Seq(Item), NEW low \in Int, NEW high \in Int, Rows(q, low, high),
         NEW mark \in {Dummy, Stop}
  PROVE  Append(q, mark) \in Seq(Item) /\ Rows(Append(q, mark), low, high)
<1>1. mark \in Item /\ ~(mark > 0)
  BY CountAssumption DEF Item, Dummy, Stop
<1>2. /\ Append(q, mark) \in Seq(Item) /\ Len(Append(q, mark)) = Len(q) + 1
      /\ \A i \in 1..Len(q) : Append(q, mark)[i] = q[i]
      /\ Append(q, mark)[Len(q) + 1] = mark
      /\ Len(q) \in Nat
  BY <1>1, AppendProperties, LenProperties
<1>3. \A i \in 1..Len(Append(q, mark)) : Append(q, mark)[i] > 0 => i \in 1..Len(q)
  BY <1>1, <1>2
<1>4. QED BY <1>2, <1>3 DEF Rows

\* A row later than all others goes behind them.
LEMMA RowsNew ==
  ASSUME NEW q \in Seq(Item), NEW low \in Int, NEW row \in 1..Polls,
         Rows(q, low, row - 1), low < row
  PROVE  Append(q, row) \in Seq(Item) /\ Rows(Append(q, row), low, row)
<1>1. row \in Item /\ Item \subseteq Int
  BY CountAssumption DEF Item
<1>2. /\ Append(q, row) \in Seq(Item) /\ Len(Append(q, row)) = Len(q) + 1
      /\ \A i \in 1..Len(q) : Append(q, row)[i] = q[i]
      /\ Append(q, row)[Len(q) + 1] = row
      /\ Len(q) \in Nat
  BY <1>1, AppendProperties, LenProperties
<1>3. \A i \in 1..Len(q) : q[i] \in Int
  BY <1>1, ElementOfSeq
<1>4. ASSUME NEW i \in 1..Len(Append(q, row)), Append(q, row)[i] > 0
      PROVE  /\ low < Append(q, row)[i] /\ Append(q, row)[i] <= row
             /\ \A k \in 1..Len(Append(q, row)) :
                  (k > i /\ Append(q, row)[k] > 0) => Append(q, row)[i] < Append(q, row)[k]
  <2>1. CASE i = Len(q) + 1
    BY <1>2, <2>1
  <2>2. CASE i \in 1..Len(q)
    <3>1. q[i] > 0 /\ low < q[i] /\ q[i] <= row - 1
          /\ \A k \in 1..Len(q) : (k > i /\ q[k] > 0) => q[i] < q[k]
      BY <1>2, <1>4, <2>2 DEF Rows
    <3>2. \A k \in 1..Len(Append(q, row)) : k = Len(q) + 1 \/ k \in 1..Len(q)
      BY <1>2
    <3>3. QED BY <1>2, <1>3, <2>2, <3>1, <3>2
  <2>3. QED BY <1>2, <1>4, <2>1, <2>2
<1>5. Rows(Append(q, row), low, row)
  BY <1>4 DEF Rows
<1>6. QED BY <1>2, <1>5

\* A higher bound is a weaker one.
LEMMA RowsWider ==
  ASSUME NEW q \in Seq(Item), NEW low \in Int, NEW high \in Int, NEW other \in Int,
         Rows(q, low, high), high <= other
  PROVE  Rows(q, low, other)
<1>1. \A i \in 1..Len(q) : q[i] \in Int
  BY ElementOfSeq, CountAssumption DEF Item
<1>2. QED BY <1>1 DEF Rows

\* Any row is later than none.
LEMMA RowsFromNone ==
  ASSUME NEW q \in Seq(Item), NEW low \in Nat, NEW high \in Int, Rows(q, low, high)
  PROVE  Rows(q, 0, high)
BY DEF Rows

\* The values of a symbol are numbers, its queue a sequence of items.
LEMMA SymbolTypes ==
  ASSUME TypeOK, NEW s \in Symbol
  PROVE  /\ queue[s] \in Seq(Item) /\ polled[s] \in 0..Polls /\ sent[s] \in Nat /\ shown[s] \in Nat
         /\ printed[s] \in 0..Polls /\ parts[s] \in 0..Polls
         /\ Len(queue[s]) \in Nat
         /\ Submitted(s) \in Int /\ Polls \in Nat
<1>1. /\ queue[s] \in Seq(Item) /\ polled[s] \in 0..Polls /\ sent[s] \in Nat /\ shown[s] \in Nat
      /\ printed[s] \in 0..Polls /\ parts[s] \in 0..Polls
  BY DEF TypeOK, Item
<1>2. Len(queue[s]) \in Nat
  BY <1>1, LenProperties
<1>3. QED BY <1>1, <1>2, CountAssumption DEF Submitted

\* A symbol nothing happens to.
LEMMA SameRow ==
  ASSUME NEW s \in Symbol, RowOK(s),
         printed'[s] = printed[s], parts'[s] = parts[s], queue'[s] = queue[s],
         polled'[s] = polled[s], (monitor'[s] = "submit") <=> (monitor[s] = "submit")
  PROVE  RowOK(s)'
BY DEF RowOK, Submitted

\* deactivate and shutdown: a mark goes into the queue, at the cost of a row.
LEMMA ForcedMark ==
  ASSUME TypeOK, NEW s \in Symbol, Len(queue[s]) <= Capacity, RowOK(s),
         NEW mark \in {Dummy, Stop}
  PROVE  /\ Forced(s, mark) \in Seq(Item) /\ Len(Forced(s, mark)) <= Capacity
         /\ Rows(Forced(s, mark), printed[s], Submitted(s))
         /\ Rows(Forced(s, mark), parts[s], Submitted(s))
<1>1. /\ queue[s] \in Seq(Item) /\ Len(queue[s]) \in Nat
      /\ printed[s] \in Int /\ parts[s] \in Int /\ Submitted(s) \in Int
  BY SymbolTypes
<1>2. Rows(queue[s], printed[s], Submitted(s)) /\ Rows(queue[s], parts[s], Submitted(s))
  BY DEF RowOK
<1>3. Capacity \in Nat \ {0}
  BY CountAssumption
<1>4. mark \in Item
  BY CountAssumption DEF Item, Dummy, Stop
<1>6. CASE Full(s)
  <2>1. queue[s] # <<>>
    BY <1>1, <1>3, <1>6, EmptySeq DEF Full
  <2>2. Forced(s, mark) = Append(Tail(queue[s]), mark)
    BY <1>6 DEF Forced
  <2>3. /\ Tail(queue[s]) \in Seq(Item) /\ Len(Tail(queue[s])) = Len(queue[s]) - 1
        /\ Rows(Tail(queue[s]), printed[s], Submitted(s))
        /\ Rows(Tail(queue[s]), parts[s], Submitted(s))
    BY <1>1, <1>2, <2>1, RowsTail
  <2>4. Len(Append(Tail(queue[s]), mark)) = Len(queue[s])
    BY <1>1, <1>4, <2>3, AppendProperties
  <2>5. QED BY <1>1, <2>2, <2>3, <2>4, RowsMark
<1>7. CASE ~Full(s)
  <2>1. Forced(s, mark) = Append(queue[s], mark)
    BY <1>7 DEF Forced
  <2>2. Len(Append(queue[s], mark)) = Len(queue[s]) + 1
    BY <1>1, <1>4, AppendProperties
  <2>3. Len(queue[s]) + 1 <= Capacity
    BY <1>1, <1>3, <1>7 DEF Full
  <2>4. QED BY <1>1, <1>2, <2>1, <2>2, <2>3, RowsMark
<1>8. QED BY <1>6, <1>7

-----------------------------------------------------------------------------
\* The invariant holds initially.
LEMMA GateInit == Init => GateInv
<1> SUFFICES ASSUME Init PROVE GateInv
  OBVIOUS
<1>1. <<>> \in Seq(-1..Polls) /\ Len(<<>>) = 0
  OBVIOUS
<1>2. TypeOK
  <2>1. queue \in [Symbol -> Seq(-1..Polls)]
    BY <1>1 DEF Init
  <2>2. closed \in BOOLEAN
    BY DEF Init
  <2>3. QED BY <2>1, <2>2, CountAssumption DEF Init, TypeOK
<1>3. PollOK /\ RoomOK
  BY <1>1, CountAssumption DEF Init, PollOK, RoomOK
<1>4. ASSUME NEW s \in Symbol PROVE RowOK(s)
  BY <1>1 DEF Init, RowOK, Submitted, Rows
<1>5. QED BY <1>2, <1>3, <1>4 DEF GateInv

\* A poll of the books, successful or not.
LEMMA PollStep ==
  ASSUME GateInv, NEW r \in Symbol, PollFails(r) \/ Poll(r)
  PROVE  GateInv'
<1>1. TypeOK /\ PollOK /\ RoomOK /\ \A s \in Symbol : RowOK(s)
  BY DEF GateInv
<1>2. /\ polled' = [polled EXCEPT ![r] = @ + 1] /\ polled[r] < Polls
      /\ monitor[r] = "polling"
      /\ UNCHANGED <<queue, active, writer, collecting, closed, main, display, sent>>
  BY DEF PollFails, Poll
<1>3. monitor' = monitor \/ monitor' = [monitor EXCEPT ![r] = "submit"]
  BY DEF PollFails, Poll
<1>4. polled[r] \in Nat /\ polled' \in [Symbol -> 0..Polls]
  BY <1>1, <1>2, CountAssumption DEF TypeOK
<1>5. monitor' \in [Symbol -> {"polling", "submit", "done", "failed"}]
  BY <1>1, <1>3 DEF TypeOK
<1>6. TypeOK'
  BY <1>1, <1>2, <1>4, <1>5 DEF TypeOK, collecting, display
<1>7. PollOK' /\ RoomOK'
  <2>1. \A s \in Symbol : monitor'[s] = "submit" => polled'[s] > 0
    BY <1>1, <1>2, <1>3, <1>4 DEF PollOK, TypeOK
  <2>2. \A s \in Symbol : monitor'[s] = "done" <=> monitor[s] = "done"
    BY <1>1, <1>2, <1>3 DEF TypeOK
  <2>3. QED BY <1>1, <1>2, <2>1, <2>2 DEF PollOK, RoomOK
<1>8. ASSUME NEW s \in Symbol PROVE RowOK(s)'
  <2>1. CASE s # r
    BY <1>1, <1>2, <1>3, <2>1, SameRow DEF TypeOK, collecting, display
  <2>2. CASE s = r
    <3>1. Submitted(r)' \in {polled[r], polled[r] + 1} /\ Submitted(r) = polled[r]
      BY <1>1, <1>2, <1>3, <1>4 DEF Submitted, TypeOK
    <3>2. /\ queue[r] \in Seq(Item) /\ printed[r] \in Int /\ parts[r] \in Int
          /\ Submitted(r) \in Int /\ Submitted(r)' \in Int /\ Submitted(r) <= Submitted(r)'
      BY <1>1, <1>4, <3>1, SymbolTypes
    <3>3. Rows(queue[r], printed[r], Submitted(r)') /\ Rows(queue[r], parts[r], Submitted(r)')
      BY <1>1, <3>2, RowsWider DEF RowOK
    <3>4. printed[r] <= Submitted(r)' /\ parts[r] <= Submitted(r)'
      BY <1>1, <3>2 DEF RowOK
    <3>5. QED BY <1>1, <1>2, <2>2, <3>3, <3>4 DEF RowOK, collecting, display
  <2>3. QED BY <2>1, <2>2
<1>9. QED BY <1>6, <1>7, <1>8 DEF GateInv

\* The row of the poll goes into a queue that has room.
LEMMA SubmitStep ==
  ASSUME GateInv, NEW r \in Symbol, Submit(r)
  PROVE  GateInv'
<1>1. TypeOK /\ PollOK /\ RoomOK /\ \A s \in Symbol : RowOK(s)
  BY DEF GateInv
<1>2. /\ queue' = [queue EXCEPT ![r] = Append(@, polled[r])]
      /\ monitor' = [monitor EXCEPT ![r] = "polling"] /\ monitor[r] = "submit" /\ ~Full(r)
      /\ sent' = [sent EXCEPT ![r] = @ + 1]
      /\ UNCHANGED <<polled, active, writer, collecting, closed, main, display>>
  BY DEF Submit
<1>3. /\ queue[r] \in Seq(Item) /\ Len(queue[r]) \in Nat /\ polled[r] \in 1..Polls
      /\ printed[r] \in Nat /\ parts[r] \in Nat
      /\ Submitted(r) = polled[r] - 1
  BY <1>1, <1>2, SymbolTypes DEF PollOK, Submitted
<1>4. polled[r] \in Item /\ Item \subseteq Int
  BY <1>3, CountAssumption DEF Item
<1>5. Append(queue[r], polled[r]) \in Seq(Item)
      /\ Len(Append(queue[r], polled[r])) = Len(queue[r]) + 1
  BY <1>3, <1>4, AppendProperties
<1>6. Rows(Append(queue[r], polled[r]), printed[r], polled[r])
      /\ Rows(Append(queue[r], polled[r]), parts[r], polled[r])
  <2>1. printed[r] < polled[r] /\ parts[r] < polled[r]
        /\ Rows(queue[r], printed[r], polled[r] - 1) /\ Rows(queue[r], parts[r], polled[r] - 1)
    BY <1>1, <1>3 DEF RowOK
  <2>2. QED BY <1>3, <2>1, RowsNew
<1>7. TypeOK'
  <2>1. queue' \in [Symbol -> Seq(-1..Polls)]
    BY <1>1, <1>2, <1>5 DEF TypeOK, Item
  <2>2. monitor' \in [Symbol -> {"polling", "submit", "done", "failed"}]
    BY <1>1, <1>2 DEF TypeOK
  <2>3. sent' \in [Symbol -> Nat]
    BY <1>1, <1>2 DEF TypeOK
  <2>4. QED BY <1>1, <1>2, <2>1, <2>2, <2>3 DEF TypeOK, collecting, display
<1>8. PollOK' /\ RoomOK'
  <2>1. Len(queue[r]) + 1 <= Capacity
    BY <1>2, <1>3, CountAssumption DEF Full
  <2>2. \A s \in Symbol : Len(queue'[s]) <= Capacity
    BY <1>1, <1>2, <1>5, <2>1 DEF RoomOK, TypeOK
  <2>3. \A s \in Symbol : (monitor'[s] = "done" <=> monitor[s] = "done")
                          /\ (monitor'[s] = "submit" => monitor[s] = "submit")
    BY <1>1, <1>2 DEF TypeOK
  <2>4. QED BY <1>1, <1>2, <2>2, <2>3 DEF PollOK, RoomOK
<1>9. ASSUME NEW s \in Symbol PROVE RowOK(s)'
  <2>1. CASE s # r
    BY <1>1, <1>2, <2>1, SameRow DEF TypeOK, collecting, display
  <2>2. CASE s = r
    <3>1. Submitted(r)' = polled[r] /\ queue'[r] = Append(queue[r], polled[r])
      BY <1>1, <1>2 DEF Submitted, TypeOK
    <3>2. printed[r] <= polled[r] /\ parts[r] <= polled[r]
      BY <1>1, <1>3 DEF RowOK
    <3>3. QED BY <1>1, <1>2, <1>6, <2>2, <3>1, <3>2 DEF RowOK, collecting, display
  <2>3. QED BY <2>1, <2>2
<1>10. QED BY <1>7, <1>8, <1>9 DEF GateInv

\* A monitor that raises leaves everything else as it is.
LEMMA RaiseStep ==
  ASSUME GateInv, NEW r \in Symbol, MonitorRaises(r)
  PROVE  GateInv'
<1>1. TypeOK /\ PollOK /\ RoomOK /\ \A s \in Symbol : RowOK(s)
  BY DEF GateInv
<1>2. /\ monitor' = [monitor EXCEPT ![r] = "failed"] /\ monitor[r] = "polling"
      /\ UNCHANGED <<polled, queue, active, writer, collecting, closed, main, display, sent>>
  BY DEF MonitorRaises
<1>3. TypeOK'
  BY <1>1, <1>2 DEF TypeOK, collecting, display
<1>4. PollOK' /\ RoomOK'
  BY <1>1, <1>2 DEF PollOK, RoomOK, TypeOK
<1>5. \A s \in Symbol : RowOK(s)'
  BY <1>1, <1>2, SameRow DEF TypeOK, collecting, display
<1>6. QED BY <1>3, <1>4, <1>5 DEF GateInv

\* deactivate.
LEMMA DeactivateStep ==
  ASSUME GateInv, NEW r \in Symbol, Deactivate(r)
  PROVE  GateInv'
<1>1. TypeOK /\ PollOK /\ RoomOK /\ \A s \in Symbol : RowOK(s)
  BY DEF GateInv
<1>2. /\ monitor' = [monitor EXCEPT ![r] = "done"] /\ monitor[r] = "polling"
      /\ active' = active \ {r}
      /\ queue' = [queue EXCEPT ![r] = Forced(r, Dummy)]
      /\ UNCHANGED <<polled, writer, collecting, closed, main, display, sent>>
  BY DEF Deactivate, Remaining
<1>3. /\ Forced(r, Dummy) \in Seq(Item) /\ Len(Forced(r, Dummy)) <= Capacity
      /\ Rows(Forced(r, Dummy), printed[r], Submitted(r))
      /\ Rows(Forced(r, Dummy), parts[r], Submitted(r))
  BY <1>1, ForcedMark DEF RoomOK
<1>4. TypeOK'
  <2>1. queue' \in [Symbol -> Seq(-1..Polls)]
    BY <1>1, <1>2, <1>3 DEF TypeOK, Item
  <2>2. monitor' \in [Symbol -> {"polling", "submit", "done", "failed"}] /\ active' \subseteq Symbol
    BY <1>1, <1>2 DEF TypeOK
  <2>3. QED BY <1>1, <1>2, <2>1, <2>2 DEF TypeOK, collecting, display
<1>5. PollOK' /\ RoomOK'
  <2>1. \A s \in Symbol : Len(queue'[s]) <= Capacity
    BY <1>1, <1>2, <1>3 DEF RoomOK, TypeOK
  <2>2. \A s \in Symbol : monitor'[s] = "submit" => monitor[s] = "submit"
    BY <1>1, <1>2 DEF TypeOK
  <2>3. QED BY <1>1, <1>2, <2>1, <2>2 DEF PollOK, RoomOK
<1>6. ASSUME NEW s \in Symbol PROVE RowOK(s)'
  <2>1. CASE s # r
    BY <1>1, <1>2, <2>1, SameRow DEF TypeOK, collecting, display
  <2>2. CASE s = r
    <3>1. Submitted(r)' = Submitted(r) /\ queue'[r] = Forced(r, Dummy)
      BY <1>1, <1>2 DEF Submitted, TypeOK
    <3>2. QED BY <1>1, <1>2, <1>3, <2>2, <3>1 DEF RowOK, collecting, display
  <2>3. QED BY <2>1, <2>2
<1>7. QED BY <1>4, <1>5, <1>6 DEF GateInv

\* The writer takes the item at hand.
LEMMA CollectStep ==
  ASSUME GateInv, NEW r \in Symbol, Collect(r)
  PROVE  GateInv'
<1>1. TypeOK /\ PollOK /\ RoomOK /\ \A s \in Symbol : RowOK(s)
  BY DEF GateInv
<1>2. /\ queue[r] # <<>> /\ r \in wave /\ writer = "collect"
      /\ queue' = [queue EXCEPT ![r] = Tail(@)]
      /\ wave' = wave \ {r}
      /\ UNCHANGED <<cycles, active, members, closed, main, display, sent>>
      /\ IF Head(queue[r]) = Stop
         THEN writer' \in {"stopped", writer} /\ UNCHANGED <<parts, got>>
         ELSE /\ parts' = [parts EXCEPT ![r] = Head(queue[r])]
              /\ got' = got \cup {r} /\ UNCHANGED writer
  BY DEF Collect, IsNext
<1>3. /\ queue[r] \in Seq(Item) /\ printed[r] \in Nat /\ parts[r] \in Nat
      /\ Submitted(r) \in Int /\ Len(queue[r]) \in Nat
      /\ Rows(queue[r], printed[r], Submitted(r)) /\ Rows(queue[r], parts[r], Submitted(r))
  BY <1>1, SymbolTypes DEF RowOK
<1>4. /\ Tail(queue[r]) \in Seq(Item) /\ Len(Tail(queue[r])) = Len(queue[r]) - 1
      /\ Head(queue[r]) \in Item
      /\ Rows(Tail(queue[r]), printed[r], Submitted(r))
      /\ Rows(Tail(queue[r]), parts[r], Submitted(r))
      /\ Head(queue[r]) > 0 => /\ printed[r] < Head(queue[r]) /\ Head(queue[r]) <= Submitted(r)
                               /\ Rows(Tail(queue[r]), Head(queue[r]), Submitted(r))
  BY <1>2, <1>3, RowsTail
<1>5. Head(queue[r]) # Stop => Head(queue[r]) \in 0..Polls
  BY <1>4, CountAssumption DEF Item, Stop
<1>6. parts' \in [Symbol -> 0..Polls] /\ got' \subseteq members /\ writer' \in {"collect", "stopped"}
  BY <1>1, <1>2, <1>5 DEF TypeOK
<1>7. TypeOK'
  <2>1. queue' \in [Symbol -> Seq(-1..Polls)]
    BY <1>1, <1>2, <1>4 DEF TypeOK, Item
  <2>2. QED BY <1>1, <1>2, <1>6, <2>1 DEF TypeOK, cycles, display
<1>8. PollOK' /\ RoomOK'
  <2>1. \A s \in Symbol : Len(queue'[s]) <= Capacity
    BY <1>1, <1>2, <1>3, <1>4, CountAssumption DEF RoomOK, TypeOK
  <2>2. QED BY <1>1, <1>2, <2>1 DEF PollOK, RoomOK, cycles
<1>9. ASSUME NEW s \in Symbol PROVE RowOK(s)'
  <2>1. CASE s # r
    <3>1. parts'[s] = parts[s] /\ queue'[s] = queue[s]
      BY <1>1, <1>2, <2>1 DEF TypeOK
    <3>2. QED BY <1>1, <1>2, <3>1, SameRow DEF cycles, display
  <2>2. CASE s = r /\ Head(queue[r]) = Stop
    <3>1. queue'[r] = Tail(queue[r]) /\ parts' = parts /\ Submitted(r)' = Submitted(r)
      BY <1>1, <1>2, <2>2 DEF TypeOK, Submitted, cycles, display
    <3>2. QED BY <1>1, <1>2, <1>4, <2>2, <3>1 DEF RowOK, display
  <2>3. CASE s = r /\ Head(queue[r]) # Stop
    <3>1. /\ queue'[r] = Tail(queue[r]) /\ parts'[r] = Head(queue[r])
          /\ Submitted(r)' = Submitted(r) /\ printed' = printed
      BY <1>1, <1>2, <2>3 DEF TypeOK, Submitted, cycles, display
    <3>2. CASE Head(queue[r]) > 0
      BY <1>1, <1>4, <2>3, <3>1, <3>2 DEF RowOK
    <3>3. CASE Head(queue[r]) = 0
      <4>1. Rows(Tail(queue[r]), 0, Submitted(r))
        BY <1>3, <1>4, RowsFromNone
      <4>2. 0 <= Submitted(r) /\ printed[r] <= Submitted(r)
        BY <1>1, <1>3 DEF RowOK
      <4>3. QED BY <1>4, <2>3, <3>1, <3>3, <4>1, <4>2 DEF RowOK
    <3>4. QED BY <1>5, <2>3, <3>2, <3>3
  <2>4. QED BY <2>1, <2>2, <2>3
<1>10. QED BY <1>7, <1>8, <1>9 DEF GateInv

\* The writer begins a wave, or prints one, complete or not.
LEMMA WaveStep ==
  ASSUME GateInv,
         WaveStarts \/ WavePrinted \/ \E r \in Symbol : CollectTimesOut(r)
  PROVE  GateInv'
<1>1. TypeOK /\ PollOK /\ RoomOK /\ \A s \in Symbol : RowOK(s)
  BY DEF GateInv
<1>2. UNCHANGED <<cycles, queue, active, closed, main, sent>>
  BY DEF WaveStarts, WavePrinted, CollectTimesOut
<1>3. parts' = [s \in Symbol |-> 0]
  BY DEF WaveStarts, WavePrinted, CollectTimesOut, WaveEnds
<1>4. \/ printed' = printed
      \/ printed' = [s \in Symbol |-> IF Shown(s) THEN parts[s] ELSE printed[s]]
  BY DEF WaveStarts, WavePrinted, CollectTimesOut, WaveEnds, display
<1>5. /\ writer' \in {"top", "collect"} /\ wave' \subseteq members' /\ members' \subseteq Symbol
      /\ got' \subseteq members'
  BY <1>1 DEF WaveStarts, WavePrinted, CollectTimesOut, WaveEnds, TypeOK
<1>6. printed' \in [Symbol -> 0..Polls] /\ parts' \in [Symbol -> 0..Polls]
  <2>1. 0 \in 0..Polls
    BY CountAssumption
  <2>2. parts' \in [Symbol -> 0..Polls]
    BY <1>3, <2>1
  <2>3. printed' \in [Symbol -> 0..Polls]
    BY <1>1, <1>4 DEF TypeOK
  <2>4. QED BY <2>2, <2>3
<1>7. TypeOK'
  <2>1. shown' = shown \/ shown' = [s \in Symbol |-> shown[s] + (IF Shown(s) THEN 1 ELSE 0)]
    BY DEF WaveStarts, WavePrinted, CollectTimesOut, WaveEnds, display
  <2>2. ASSUME NEW s \in Symbol PROVE shown[s] + (IF Shown(s) THEN 1 ELSE 0) \in Nat
    <3>1. shown[s] \in Nat
      BY <1>1, SymbolTypes
    <3>2. QED BY <3>1
  <2>3. shown' \in [Symbol -> Nat]
    BY <1>1, <2>1, <2>2 DEF TypeOK
  <2>4. QED BY <1>1, <1>2, <1>5, <1>6, <2>3 DEF TypeOK, cycles
<1>8. PollOK' /\ RoomOK'
  BY <1>1, <1>2 DEF PollOK, RoomOK, cycles
<1>9. ASSUME NEW s \in Symbol PROVE RowOK(s)'
  <2>1. /\ queue[s] \in Seq(Item) /\ printed[s] \in Nat /\ parts[s] \in Nat
        /\ Submitted(s) \in Int /\ Submitted(s)' = Submitted(s)
    BY <1>1, <1>2, SymbolTypes DEF Submitted, cycles
  <2>2. parts'[s] = 0 /\ printed'[s] \in {printed[s], parts[s]}
    BY <1>3, <1>4
  <2>3. Rows(queue[s], 0, Submitted(s)) /\ Rows(queue[s], printed'[s], Submitted(s))
    BY <1>1, <2>1, <2>2, RowsFromNone DEF RowOK
  <2>4. 0 <= Submitted(s) /\ printed'[s] <= Submitted(s)
    BY <1>1, <2>1, <2>2 DEF RowOK
  <2>5. QED BY <1>2, <2>1, <2>2, <2>3, <2>4 DEF RowOK
<1>10. QED BY <1>7, <1>8, <1>9 DEF GateInv

\* shutdown closes the gate, and returns.
LEMMA ShutdownStep ==
  ASSUME GateInv, Shutdown \/ ShutdownReturns
  PROVE  GateInv'
<1>1. TypeOK /\ PollOK /\ RoomOK /\ \A s \in Symbol : RowOK(s)
  BY DEF GateInv
<1>2. CASE Shutdown
  <2>1. /\ main = "gather" /\ main' = "shutdown" /\ closed' = TRUE
        /\ queue' = [s \in Symbol |-> Forced(s, Stop)]
        /\ UNCHANGED <<cycles, active, writer, collecting, display, sent>>
    BY <1>2 DEF Shutdown
  <2>2. \A s \in Symbol :
          /\ Forced(s, Stop) \in Seq(Item) /\ Len(Forced(s, Stop)) <= Capacity
          /\ Rows(Forced(s, Stop), printed[s], Submitted(s))
          /\ Rows(Forced(s, Stop), parts[s], Submitted(s))
    BY <1>1, ForcedMark DEF RoomOK
  <2>3. TypeOK'
    <3>1. queue' \in [Symbol -> Seq(-1..Polls)]
      BY <2>1, <2>2 DEF Item
    <3>2. QED BY <1>1, <2>1, <3>1 DEF TypeOK, cycles, collecting, display
  <2>4. PollOK' /\ RoomOK'
    <3>1. \A s \in Symbol : Len(queue'[s]) <= Capacity
      BY <2>1, <2>2
    <3>2. QED BY <1>1, <2>1, <3>1 DEF PollOK, RoomOK, cycles
  <2>5. ASSUME NEW s \in Symbol PROVE RowOK(s)'
    <3>1. queue'[s] = Forced(s, Stop) /\ Submitted(s)' = Submitted(s)
      BY <2>1 DEF Submitted, cycles
    <3>2. QED BY <1>1, <2>1, <2>2, <3>1 DEF RowOK, collecting, display
  <2>6. QED BY <2>3, <2>4, <2>5 DEF GateInv
<1>3. CASE ShutdownReturns
  <2>1. TypeOK'
    BY <1>1, <1>3 DEF TypeOK, ShutdownReturns, cycles, collecting, display
  <2>2. PollOK' /\ RoomOK'
    BY <1>1, <1>3 DEF PollOK, RoomOK, ShutdownReturns, cycles
  <2>3. \A s \in Symbol : RowOK(s)'
    BY <1>1, <1>3, SameRow DEF ShutdownReturns, cycles, collecting, display
  <2>4. QED BY <2>1, <2>2, <2>3 DEF GateInv
<1>4. QED BY <1>2, <1>3

\* Every step keeps the invariant.
LEMMA GateStep == GateInv /\ [Next]_vars => GateInv'
<1> SUFFICES ASSUME GateInv, [Next]_vars PROVE GateInv'
  OBVIOUS
<1>1. ASSUME NEW s \in Symbol, Monitor(s) PROVE GateInv'
  BY <1>1, PollStep, SubmitStep, RaiseStep, DeactivateStep DEF Monitor
<1>2. CASE Writer
  BY <1>2, WaveStep, CollectStep DEF Writer
<1>3. CASE Shutdown \/ ShutdownReturns
  BY <1>3, ShutdownStep
<1>4. CASE UNCHANGED vars
  <2>1. TypeOK' /\ PollOK' /\ RoomOK'
    BY <1>4 DEF GateInv, TypeOK, PollOK, RoomOK, vars, collecting, display, cycles
  <2>2. \A s \in Symbol : RowOK(s)'
    BY <1>4, SameRow DEF GateInv, vars, collecting, display, cycles
  <2>3. QED BY <2>1, <2>2 DEF GateInv
<1>5. CASE CycleOver
  BY <1>4, <1>5 DEF CycleOver
<1>6. QED BY <1>1, <1>2, <1>3, <1>4, <1>5 DEF Next

\* The invariant holds in every reachable state.
LEMMA GateInvariant == Spec => []GateInv
<1>1. Init => GateInv
  BY GateInit
<1>2. GateInv /\ [Next]_vars => GateInv'
  BY GateStep
<1>3. QED BY <1>1, <1>2, PTL DEF Spec

-----------------------------------------------------------------------------
\* Every variable of the gate keeps its type.
THEOREM TypeCorrect == Spec => []TypeOK
<1>1. GateInv => TypeOK
  BY DEF GateInv
<1>2. QED BY <1>1, GateInvariant, PTL

\* Rows are printed in the order of the polls and none twice, for any number of
\* symbols and any size of the queues.
THEOREM RowsStayInOrder == Spec => []RowsInOrder
<1>1. ASSUME GateInv PROVE RowsInOrder
  <2>1. ASSUME NEW s \in Symbol PROVE DOMAIN queue[s] = 1..Len(queue[s])
    BY <1>1, <2>1, SymbolTypes, LenProperties DEF GateInv
  <2>2. \A s \in Symbol : RowOK(s)
    BY <1>1 DEF GateInv
  <2>3. QED BY <2>1, <2>2 DEF RowsInOrder, RowOK, Rows
<1>2. QED BY <1>1, GateInvariant, PTL

-----------------------------------------------------------------------------
(* Who reads the queues.                                                    *)

\* As long as a monitor may submit a row, its symbol takes part in the waves and
\* the writer runs.
Served ==
  \A s \in Symbol : monitor[s] \in {"polling", "submit"} =>
    s \in active /\ writer # "stopped" /\ main = "gather"

\* The sentinel that stops the writer is only put into the queues when the gate
\* is closed, after the last monitor has ended.
ServedOK ==
  /\ Served
  /\ closed = TRUE <=> main # "gather"
  /\ writer = "stopped" => closed = TRUE
  /\ main # "gather" => \A s \in Symbol : monitor[s] \in {"done", "failed"}

\* Every step keeps it.
LEMMA ServedStep == GateInv /\ ServedOK /\ [Next]_vars => ServedOK'
<1> SUFFICES ASSUME GateInv, ServedOK, [Next]_vars PROVE ServedOK'
  OBVIOUS
<1>1. /\ monitor \in [Symbol -> {"polling", "submit", "done", "failed"}]
      /\ active \subseteq Symbol /\ closed \in BOOLEAN
  BY DEF GateInv, TypeOK
<1>2. ASSUME UNCHANGED <<active, writer, closed, main>>, NEW s \in Symbol,
             monitor[s] \in {"polling", "submit"},
             \A r \in Symbol \ {s} : monitor'[r] = monitor[r]
      PROVE  ServedOK'
  <2>1. s \in active /\ main = "gather"
    BY <1>2 DEF ServedOK, Served
  <2>2. QED BY <1>2, <2>1 DEF ServedOK, Served
<1>3. ASSUME NEW s \in Symbol, PollFails(s) \/ Poll(s) \/ Submit(s) \/ MonitorRaises(s)
      PROVE  ServedOK'
  <2>1. /\ UNCHANGED <<active, writer, closed, main>> /\ monitor[s] \in {"polling", "submit"}
        /\ \A r \in Symbol \ {s} : monitor'[r] = monitor[r]
    BY <1>1, <1>3 DEF PollFails, Poll, Submit, MonitorRaises
  <2>2. QED BY <1>2, <2>1
<1>4. ASSUME NEW s \in Symbol, Deactivate(s) PROVE ServedOK'
  <2>1. /\ UNCHANGED <<writer, closed, main>> /\ active' = active \ {s}
        /\ monitor' = [monitor EXCEPT ![s] = "done"] /\ monitor[s] = "polling"
    BY <1>4 DEF Deactivate, Remaining
  <2>2. main = "gather"
    BY <2>1 DEF ServedOK, Served
  <2>3. QED BY <1>1, <2>1, <2>2 DEF ServedOK, Served
<1>5. ASSUME NEW s \in Symbol, Collect(s) PROVE ServedOK'
  <2>1. /\ UNCHANGED <<monitor, active, closed, main>>
        /\ writer # "stopped" /\ (writer' = "stopped" => closed = TRUE)
    BY <1>1, <1>5 DEF Collect, cycles
  <2>2. QED BY <2>1 DEF ServedOK, Served
<1>6. ASSUME UNCHANGED <<monitor, active, closed, main>>,
             writer' # "stopped" \/ UNCHANGED writer
      PROVE  ServedOK'
  BY <1>6 DEF ServedOK, Served
<1>7. CASE WaveStarts \/ WavePrinted \/ (\E s \in Symbol : CollectTimesOut(s)) \/ CycleOver
           \/ UNCHANGED vars
  BY <1>6, <1>7 DEF WaveStarts, WavePrinted, CollectTimesOut, WaveEnds, CycleOver, vars, cycles, display
<1>8. CASE Shutdown
  BY <1>8 DEF Shutdown, cycles, ServedOK, Served
<1>9. CASE ShutdownReturns
  BY <1>9 DEF ShutdownReturns, cycles, ServedOK, Served
<1>10. QED BY <1>3, <1>4, <1>5, <1>7, <1>8, <1>9 DEF Next, Monitor, Writer

\* No monitor is left with a full queue that nobody reads: the safety behind
\* GatherReturns, for any number of symbols, any failures and any capacity.
THEOREM MonitorsAreServed == Spec => []Served
<1>1. Init => ServedOK
  BY DEF Init, ServedOK, Served
<1>2. ServedOK => Served
  BY DEF ServedOK
<1>3. QED BY <1>1, <1>2, ServedStep, GateInvariant, PTL DEF Spec

-----------------------------------------------------------------------------
(* What the display lacks.                                                  *)

Live(s) == monitor[s] \in {"polling", "submit"}
Lack(s) == sent[s] - shown[s]
InHand(s) == IF Shown(s) THEN 1 ELSE 0

\* While a monitor runs no row of its symbol is lost: what is not on the display
\* is in the queue, which holds rows only, or in the writer's hands.
LackOf(s) ==
  /\ Lack(s) <= Capacity + 1
  /\ Live(s) => /\ Lack(s) <= Len(queue[s]) + InHand(s)
                /\ \A i \in 1..Len(queue[s]) : queue[s][i] > 0

\* Between two waves the writer's hands are empty, and within one a symbol is
\* looked at once.
LackOK ==
  /\ writer = "top" => got = {}
  /\ wave \cap got = {}
  /\ \A s \in Symbol : LackOf(s)

\* A symbol nothing happens to.
LEMMA SameLack ==
  ASSUME NEW s \in Symbol, LackOf(s), sent'[s] = sent[s], shown'[s] = shown[s],
         Live(s)' => Live(s) /\ queue'[s] = queue[s] /\ InHand(s)' = InHand(s)
  PROVE  LackOf(s)'
BY DEF LackOf, Lack

\* What the definitions give as numbers.
LEMMA LackTypes ==
  ASSUME TypeOK, NEW s \in Symbol
  PROVE  /\ Lack(s) \in Int /\ InHand(s) \in {0, 1} /\ Len(queue[s]) \in Nat
         /\ sent[s] \in Nat /\ shown[s] \in Nat /\ queue[s] \in Seq(Item) /\ Capacity \in Nat \ {0}
<1>1. sent[s] \in Nat /\ shown[s] \in Nat /\ queue[s] \in Seq(Item) /\ Len(queue[s]) \in Nat
  BY SymbolTypes
<1>2. QED BY <1>1, CountAssumption DEF Lack, InHand

\* Every step keeps it.
LEMMA LackStep == GateInv /\ ServedOK /\ LackOK /\ [Next]_vars => LackOK'
<1> SUFFICES ASSUME GateInv, ServedOK, LackOK, [Next]_vars PROVE LackOK'
  OBVIOUS
<1>1. TypeOK /\ RoomOK /\ PollOK /\ \A s \in Symbol : LackOf(s)
  BY DEF GateInv, LackOK
<1>2. ASSUME UNCHANGED <<writer, wave, got, parts, shown>>, NEW r \in Symbol,
             \A s \in Symbol \ {r} : UNCHANGED <<monitor[s], queue[s], sent[s]>>,
             LackOf(r)'
      PROVE  LackOK'
  <2>1. ASSUME NEW s \in Symbol \ {r} PROVE LackOf(s)'
    <3>1. (Live(s)' <=> Live(s)) /\ InHand(s)' = InHand(s)
      BY <1>2 DEF Live, InHand, Shown
    <3>2. QED BY <1>1, <1>2, <3>1, SameLack
  <2>2. QED BY <1>2, <2>1 DEF LackOK
<1>3. ASSUME NEW r \in Symbol, PollFails(r) \/ Poll(r) \/ MonitorRaises(r) PROVE LackOK'
  <2>1. /\ UNCHANGED <<writer, wave, got, parts, shown, queue, sent>> /\ Live(r)
        /\ \A s \in Symbol \ {r} : monitor'[s] = monitor[s]
    BY <1>1, <1>3 DEF PollFails, Poll, MonitorRaises, collecting, display, TypeOK, Live
  <2>2. LackOf(r)'
    BY <1>1, <2>1, SameLack DEF InHand, Shown
  <2>3. QED BY <1>2, <2>1, <2>2
<1>4. ASSUME NEW r \in Symbol, Submit(r) PROVE LackOK'
  <2>1. /\ UNCHANGED <<writer, wave, got, parts, shown>> /\ Live(r) /\ ~Full(r)
        /\ queue'[r] = Append(queue[r], polled[r]) /\ sent'[r] = sent[r] + 1 /\ polled[r] > 0
        /\ \A s \in Symbol \ {r} : UNCHANGED <<monitor[s], queue[s], sent[s]>>
    BY <1>1, <1>4 DEF Submit, collecting, display, TypeOK, Live, PollOK
  <2>2. /\ Lack(r) \in Int /\ InHand(r) \in {0, 1} /\ Len(queue[r]) \in Nat
        /\ sent[r] \in Nat /\ shown[r] \in Nat /\ queue[r] \in Seq(Item) /\ Capacity \in Nat \ {0}
    BY <1>1, LackTypes
  <2>3. polled[r] \in Item
    BY <1>1, <2>1, SymbolTypes, CountAssumption DEF Item
  <2>4. /\ Len(queue'[r]) = Len(queue[r]) + 1 /\ queue'[r][Len(queue[r]) + 1] = polled[r]
        /\ \A i \in 1..Len(queue[r]) : queue'[r][i] = queue[r][i]
    BY <2>1, <2>2, <2>3, AppendProperties
  <2>5. \A i \in 1..Len(queue'[r]) : queue'[r][i] > 0
    BY <1>1, <2>1, <2>2, <2>4 DEF LackOf
  <2>6. InHand(r)' = InHand(r) /\ Lack(r)' = Lack(r) + 1
    BY <2>1, <2>2 DEF InHand, Shown, Lack
  <2>7. Len(queue[r]) + 1 <= Capacity /\ Lack(r) <= Len(queue[r]) + InHand(r)
    BY <1>1, <2>1, <2>2 DEF LackOf, Full
  <2>8. LackOf(r)'
    BY <2>2, <2>4, <2>5, <2>6, <2>7 DEF LackOf
  <2>9. QED BY <1>2, <2>1, <2>8
<1>5. ASSUME NEW r \in Symbol, Deactivate(r) PROVE LackOK'
  <2>1. /\ UNCHANGED <<writer, wave, got, parts, shown, sent>> /\ monitor'[r] = "done"
        /\ \A s \in Symbol \ {r} : UNCHANGED <<monitor[s], queue[s], sent[s]>>
    BY <1>1, <1>5 DEF Deactivate, collecting, display, TypeOK
  <2>2. LackOf(r)'
    BY <1>1, <2>1, SameLack DEF Live
  <2>3. QED BY <1>2, <2>1, <2>2
<1>6. ASSUME NEW r \in Symbol, Collect(r) PROVE LackOK'
  <2>1. /\ queue[r] # <<>> /\ r \in wave /\ writer = "collect" /\ wave' = wave \ {r}
        /\ queue' = [queue EXCEPT ![r] = Tail(@)] /\ UNCHANGED <<monitor, sent, shown>>
        /\ IF Head(queue[r]) = Stop
           THEN writer' \in {"stopped", writer} /\ UNCHANGED <<parts, got>>
           ELSE /\ parts' = [parts EXCEPT ![r] = Head(queue[r])]
                /\ got' = got \cup {r} /\ UNCHANGED writer
    BY <1>6 DEF Collect, IsNext, cycles, display
  <2>2. writer' # "top" /\ wave' \cap got' = {}
    BY <2>1 DEF LackOK
  <2>3. ASSUME NEW s \in Symbol \ {r} PROVE LackOf(s)'
    <3>1. queue'[s] = queue[s] /\ InHand(s)' = InHand(s)
      BY <1>1, <2>1 DEF TypeOK, InHand, Shown
    <3>2. QED BY <1>1, <2>1, <3>1, SameLack DEF Live
  <2>4. CASE ~Live(r)
    BY <1>1, <2>1, <2>2, <2>3, <2>4, SameLack DEF Live, LackOK
  <2>5. CASE Live(r)
    <3>1. /\ Lack(r) \in Int /\ InHand(r) \in {0, 1} /\ Len(queue[r]) \in Nat
          /\ queue[r] \in Seq(Item) /\ Capacity \in Nat \ {0}
      BY <1>1, LackTypes
    <3>2. /\ Tail(queue[r]) \in Seq(Item) /\ Len(Tail(queue[r])) = Len(queue[r]) - 1
          /\ \A i \in 1..Len(Tail(queue[r])) : Tail(queue[r])[i] = queue[r][i + 1]
          /\ Head(queue[r]) = queue[r][1] /\ Len(queue[r]) > 0
      BY <2>1, <3>1, HeadTailProperties, EmptySeq
    <3>3. \A i \in 1..Len(queue[r]) : queue[r][i] > 0
      BY <1>1, <2>5 DEF LackOf
    <3>4. queue[r][1] > 0
      BY <3>1, <3>2, <3>3
    <3>5. Head(queue[r]) > 0 /\ Head(queue[r]) # Stop
      BY <3>2, <3>4 DEF Stop
    <3>6. InHand(r) = 0 /\ InHand(r)' = 1
      BY <1>1, <2>1, <3>5 DEF InHand, Shown, LackOK, TypeOK
    <3>7. queue'[r] = Tail(queue[r]) /\ \A i \in 1..Len(queue'[r]) : queue'[r][i] > 0
      BY <1>1, <2>1, <3>1, <3>2, <3>3 DEF TypeOK
    <3>8. Lack(r)' = Lack(r) /\ Lack(r) <= Capacity + 1 /\ Lack(r) <= Len(queue[r]) + InHand(r)
      BY <1>1, <2>1, <2>5 DEF Lack, LackOf
    <3>9. LackOf(r)'
      BY <3>1, <3>2, <3>6, <3>7, <3>8 DEF LackOf
    <3>10. QED BY <2>2, <2>3, <3>9 DEF LackOK
  <2>6. QED BY <2>4, <2>5
<1>7. CASE WaveStarts
  <2>1. /\ got = {} /\ got' = {} /\ writer' = "collect" /\ UNCHANGED <<cycles, queue, sent, shown>>
    BY <1>7 DEF WaveStarts, LackOK, display
  <2>2. \A s \in Symbol : LackOf(s)'
    BY <1>1, <2>1, SameLack DEF cycles, Live, InHand, Shown
  <2>3. QED BY <2>1, <2>2 DEF LackOK
<1>8. CASE WavePrinted \/ \E r \in Symbol : CollectTimesOut(r)
  <2>1. /\ WaveEnds /\ UNCHANGED <<cycles, queue, sent>>
    BY <1>8 DEF WavePrinted, CollectTimesOut
  <2>2. /\ got' = {} /\ wave' = {} /\ \A s \in Symbol : shown'[s] = shown[s] + InHand(s)
    BY <2>1 DEF WaveEnds, InHand
  <2>3. ASSUME NEW s \in Symbol PROVE LackOf(s)'
    <3>1. /\ Lack(s) \in Int /\ InHand(s) \in {0, 1} /\ Len(queue[s]) \in Nat
          /\ sent[s] \in Nat /\ shown[s] \in Nat /\ Capacity \in Nat \ {0}
      BY <1>1, LackTypes
    <3>2. InHand(s)' = 0 /\ Lack(s)' = Lack(s) - InHand(s)
      BY <2>1, <2>2, <3>1 DEF InHand, Shown, Lack
    <3>3. LackOf(s)
      BY <1>1
    <3>4. (Live(s)' <=> Live(s)) /\ queue' = queue
      BY <2>1 DEF Live, cycles
    <3>5. QED BY <3>1, <3>2, <3>3, <3>4 DEF LackOf
  <2>4. QED BY <2>2, <2>3 DEF LackOK
<1>9. CASE Shutdown
  <2>1. /\ \A s \in Symbol : ~Live(s) /\ ~Live(s)'
        /\ UNCHANGED <<writer, wave, got, sent, shown>>
    BY <1>9 DEF Shutdown, cycles, collecting, display, Live
  <2>2. \A s \in Symbol : LackOf(s)'
    BY <1>1, <2>1, SameLack
  <2>3. QED BY <2>1, <2>2 DEF LackOK
<1>10. CASE ShutdownReturns \/ CycleOver \/ UNCHANGED vars
  <2>1. /\ writer' = "stopped" \/ writer' = writer
        /\ UNCHANGED <<monitor, queue, wave, got, parts, sent, shown>>
    BY <1>10 DEF ShutdownReturns, CycleOver, vars, cycles, collecting, display
  <2>2. \A s \in Symbol : LackOf(s)'
    BY <1>1, <2>1, SameLack DEF Live, InHand, Shown
  <2>3. QED BY <2>1, <2>2 DEF LackOK
<1>11. QED BY <1>3, <1>4, <1>5, <1>6, <1>7, <1>8, <1>9, <1>10 DEF Next, Monitor, Writer

\* The display never lacks more rows of a symbol than its queue holds and one,
\* for any size of the queues, any timeouts of the writer and any failures.
THEOREM FewAreLost == Spec => []FewRowsLost
<1>1. Init => ServedOK /\ LackOK
  <2>1. ASSUME Init PROVE LackOK
    <3>1. ASSUME NEW s \in Symbol PROVE LackOf(s)
      <4>1. queue[s] = <<>> /\ sent[s] = 0 /\ shown[s] = 0 /\ InHand(s) = 0
        BY <2>1 DEF Init, InHand, Shown
      <4>2. QED BY <4>1, CountAssumption DEF LackOf, Lack
    <3>2. QED BY <2>1, <3>1 DEF LackOK, Init
  <2>2. QED BY <2>1 DEF Init, ServedOK, Served
<1>2. LackOK => FewRowsLost
  BY DEF LackOK, LackOf, Lack, FewRowsLost
<1>3. QED BY <1>1, <1>2, ServedStep, LackStep, GateInvariant, PTL DEF Spec

\* Once the gate is closed, a writer that still runs has a sentinel ahead of it at
\* the end of every queue.
SentinelWaits ==
  closed = TRUE /\ writer # "stopped" => \A s \in Symbol :
    queue[s] # <<>> /\ queue[s][Len(queue[s])] = Stop

\* What is put into a queue by force comes last.
LEMMA ForcedLast ==
  ASSUME TypeOK, NEW s \in Symbol, NEW item \in Item
  PROVE  Forced(s, item) # <<>> /\ Forced(s, item)[Len(Forced(s, item))] = item
<1> DEFINE q == IF Full(s) THEN Tail(queue[s]) ELSE queue[s]
<1>1. queue[s] \in Seq(Item)
  BY SymbolTypes DEF TypeOK, Item
<1>2. Full(s) => queue[s] # <<>>
  BY <1>1, CountAssumption, EmptySeq DEF Full
<1>3. q \in Seq(Item) /\ Forced(s, item) = Append(q, item)
  BY <1>1, <1>2, HeadTailProperties DEF Forced
<1> HIDE DEF q
<1>4. Len(Append(q, item)) = Len(q) + 1 /\ Append(q, item)[Len(q) + 1] = item
      /\ Append(q, item) # <<>>
  BY <1>3, AppendProperties
<1>5. QED BY <1>3, <1>4

\* Every step keeps it: no monitor submits to a closed gate, and the writer ends
\* with the first sentinel it takes.
LEMMA SentinelStep ==
  GateInv /\ ServedOK /\ SentinelWaits /\ [Next]_vars => SentinelWaits'
<1> SUFFICES ASSUME GateInv, ServedOK, SentinelWaits, [Next]_vars,
                    closed' = TRUE, writer' # "stopped"
             PROVE  \A s \in Symbol : queue'[s] # <<>> /\ queue'[s][Len(queue'[s])] = Stop
  BY DEF SentinelWaits
<1>1. TypeOK /\ queue \in [Symbol -> Seq(Item)]
  BY DEF GateInv, TypeOK, Item
<1>2. ASSUME UNCHANGED <<queue, closed>>, writer # "stopped"
      PROVE  \A s \in Symbol : queue'[s] # <<>> /\ queue'[s][Len(queue'[s])] = Stop
  BY <1>2 DEF SentinelWaits
<1>3. ASSUME NEW s \in Symbol, Monitor(s) PROVE FALSE
  <2>1. monitor[s] \in {"polling", "submit"} /\ closed' = closed
    BY <1>3 DEF Monitor, PollFails, Poll, Submit, MonitorRaises, Deactivate
  <2>2. QED BY <2>1 DEF ServedOK, Served
<1>4. ASSUME NEW s \in Symbol, Collect(s)
      PROVE  \A r \in Symbol : queue'[r] # <<>> /\ queue'[r][Len(queue'[r])] = Stop
  <2> DEFINE q == queue[s]
  <2>1. /\ closed = TRUE /\ writer # "stopped" /\ q # <<>> /\ q \in Seq(Item)
        /\ queue' = [queue EXCEPT ![s] = Tail(q)]
    BY <1>1, <1>4 DEF Collect
  <2>2. Head(q) # Stop
    BY <1>4, <2>1 DEF Collect
  <2>3. q[Len(q)] = Stop
    BY <2>1 DEF SentinelWaits
  <2> HIDE DEF q
  <2>4. Tail(q) \in Seq(Item) /\ Len(Tail(q)) = Len(q) - 1 /\ Len(q) \in Nat \ {0}
        /\ Head(q) = q[1] /\ \A i \in 1..Len(Tail(q)) : Tail(q)[i] = q[i + 1]
    BY <2>1, HeadTailProperties, EmptySeq
  <2>5. Len(q) # 1
    BY <2>2, <2>3, <2>4
  <2>6. Tail(q)[Len(Tail(q))] = q[Len(q)]
    BY <2>4, <2>5
  <2>7. Tail(q) # <<>>
    <3>1. Len(Tail(q)) # 0
      BY <2>4, <2>5
    <3>2. QED BY <2>4, <3>1, EmptySeq
  <2>8. ASSUME NEW r \in Symbol
        PROVE  queue'[r] # <<>> /\ queue'[r][Len(queue'[r])] = Stop
    <3>1. CASE r = s
      BY <1>1, <2>1, <2>3, <2>6, <2>7, <3>1
    <3>2. CASE r # s
      <4>1. queue'[r] = queue[r]
        BY <1>1, <2>1, <3>2
      <4>2. QED BY <2>1, <4>1 DEF SentinelWaits
    <3>3. QED BY <3>1, <3>2
  <2>9. QED BY <2>8
<1>5. CASE WaveStarts \/ WavePrinted \/ (\E s \in Symbol : CollectTimesOut(s)) \/ CycleOver
           \/ UNCHANGED vars
  BY <1>2, <1>5 DEF WaveStarts, WavePrinted, CollectTimesOut, WaveEnds, CycleOver, vars
<1>6. CASE Shutdown
  <2>1. \A s \in Symbol : queue'[s] = Forced(s, Stop)
    BY <1>6 DEF Shutdown
  <2>2. Stop \in Item
    BY CountAssumption DEF Stop, Item
  <2>3. QED BY <1>1, <2>1, <2>2, ForcedLast
<1>7. CASE ShutdownReturns
  BY <1>7 DEF ShutdownReturns
<1>8. QED BY <1>3, <1>4, <1>5, <1>6, <1>7 DEF Next, Writer

\* The second test of _writer_loop, a closed gate with empty queues, never ends
\* it: the writer always finds a sentinel first, for any size of the queues.
THEOREM SentinelIsFound == Spec => []SentinelWaits
<1>1. Init => ServedOK /\ SentinelWaits
  BY DEF Init, ServedOK, Served, SentinelWaits
<1>2. QED BY <1>1, ServedStep, SentinelStep, GateInvariant, PTL DEF Spec

=============================================================================
