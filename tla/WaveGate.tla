------------------------------ MODULE WaveGate ------------------------------
(***************************************************************************)
(* The MonitorWavePrintGate of execution/executor.py during one cycle of   *)
(* engine.run_all_markets: each monitor submits one row per poll into a    *)
(* queue of its symbol, and blocks while that queue is full; the writer    *)
(* task collects a row of every active symbol, in the order of the display,*)
(* with a timeout per symbol, and prints them as one wave.                 *)
(*                                                                         *)
(* A row is the number of the poll it was made of; Dummy is the empty row  *)
(* of deactivate, Stop the None of shutdown.  A poll of the order books    *)
(* may fail, which makes no row, and a monitor may be ended by an          *)
(* exception, which run_all_markets only looks at once all have ended.     *)
(***************************************************************************)
EXTENDS Integers, Sequences

CONSTANTS
  Count,     \* the symbols are 1..Count, in display order (btc first)
  Capacity,  \* maxsize of a queue (2 in the code)
  Polls,     \* the polls of a monitor in the epoch
  MayFail    \* the monitors that may raise

ASSUME CountAssumption == Count \in Nat \ {0} /\ Capacity \in Nat \ {0} /\ Polls \in Nat
ASSUME FailAssumption  == MayFail \subseteq 1..Count

Symbol == 1..Count
Dummy  == 0
Stop   == -1

VARIABLES
  monitor,  \* where each market cycle stands
  polled,   \* the polls each monitor has made
  queue,    \* _queues
  active,   \* _active
  writer,   \* where _writer_loop stands
  wave,     \* wave_syms, the symbols of the wave not looked at yet
  members,  \* wave_syms
  parts,    \* the rows collected, 0 for none or a dummy
  got,      \* the symbols in `parts' of the code
  closed,   \* _closed
  main,     \* where run_all_markets stands
  printed,  \* the last row of each symbol that was printed
  sent,     \* history: the rows each monitor has put into its queue
  shown     \* history: the rows of each symbol that were printed

vars == <<monitor, polled, queue, active, writer, wave, members, parts, got, closed,
          main, printed, sent, shown>>

collecting == <<wave, members, parts, got>>
display    == <<printed, shown>>
cycles     == <<monitor, polled>>

Init ==
  /\ monitor = [s \in Symbol |-> "polling"]
  /\ polled = [s \in Symbol |-> 0]
  /\ queue = [s \in Symbol |-> <<>>]
  /\ active = Symbol
  /\ writer = "top"
  /\ wave = {} /\ members = {} /\ got = {}
  /\ parts = [s \in Symbol |-> 0]
  /\ closed = FALSE
  /\ main = "gather"
  /\ printed = [s \in Symbol |-> 0]
  /\ sent = [s \in Symbol |-> 0]
  /\ shown = [s \in Symbol |-> 0]

-----------------------------------------------------------------------------
(* The monitors.                                                            *)

Full(s) == Len(queue[s]) >= Capacity

\* put_nowait, or get_nowait and put_nowait when the queue is full.
Forced(s, item) == Append(IF Full(s) THEN Tail(queue[s]) ELSE queue[s], item)

\* poll_books_into_store failed: no row, no tick.
PollFails(s) ==
  /\ monitor[s] = "polling" /\ polled[s] < Polls
  /\ polled' = [polled EXCEPT ![s] = @ + 1]
  /\ UNCHANGED <<monitor, queue, active, writer, collecting, closed, main, display, sent>>

Poll(s) ==
  /\ monitor[s] = "polling" /\ polled[s] < Polls
  /\ polled' = [polled EXCEPT ![s] = @ + 1]
  /\ monitor' = [monitor EXCEPT ![s] = "submit"]
  /\ UNCHANGED <<queue, active, writer, collecting, closed, main, display, sent>>

\* submit_wave: `await q.put(part)'.  The tick of the strategies follows.
Submit(s) ==
  /\ monitor[s] = "submit" /\ ~Full(s)
  /\ queue' = [queue EXCEPT ![s] = Append(@, polled[s])]
  /\ monitor' = [monitor EXCEPT ![s] = "polling"]
  /\ sent' = [sent EXCEPT ![s] = @ + 1]
  /\ UNCHANGED <<polled, active, writer, collecting, closed, main, display>>

MonitorRaises(s) ==
  /\ s \in MayFail /\ monitor[s] = "polling"
  /\ monitor' = [monitor EXCEPT ![s] = "failed"]
  /\ UNCHANGED <<polled, queue, active, writer, collecting, closed, main, display, sent>>

\* Mutant: the symbol stays active behind its last row.
Remaining_All(s) == active

Remaining(s) == active \ {s}

\* The monitor has left the epoch: deactivate.
Deactivate(s) ==
  /\ monitor[s] = "polling" /\ polled[s] = Polls
  /\ monitor' = [monitor EXCEPT ![s] = "done"]
  /\ active' = Remaining(s)
  /\ queue' = [queue EXCEPT ![s] = Forced(s, Dummy)]
  /\ UNCHANGED <<polled, writer, collecting, closed, main, display, sent>>

-----------------------------------------------------------------------------
(* The writer.                                                              *)

\* A new wave of the active symbols; without any the writer sleeps.  The test of
\* the closed gate with empty queues never stops the writer: shutdown fills the
\* queues when it closes the gate, and the first sentinel taken ends the writer.
WaveStarts ==
  /\ writer = "top" /\ active # {}
  /\ ~(closed /\ \A s \in Symbol : queue[s] = <<>>)
  /\ writer' = "collect"
  /\ wave' = active /\ members' = active
  /\ parts' = [s \in Symbol |-> 0] /\ got' = {}
  /\ UNCHANGED <<cycles, queue, active, closed, main, display, sent>>

IsNext(s) == s \in wave /\ \A r \in wave : s <= r

\* The item at hand; the sentinel of shutdown ends the writer, wave and all.
Collect(s) ==
  LET item == Head(queue[s]) IN
  /\ writer = "collect" /\ IsNext(s) /\ queue[s] # <<>>
  /\ queue' = [queue EXCEPT ![s] = Tail(@)]
  /\ wave' = wave \ {s}
  /\ IF item = Stop
     THEN /\ writer' = IF closed THEN "stopped" ELSE writer
          /\ UNCHANGED <<parts, got>>
     ELSE /\ parts' = [parts EXCEPT ![s] = item]
          /\ got' = got \cup {s}
          /\ UNCHANGED writer
  /\ UNCHANGED <<cycles, active, members, closed, main, display, sent>>

\* Mutant: a wave without the row of some symbol is not printed.
Shown_Whole(s) == s \in got /\ parts[s] > 0 /\ got = members

\* The symbols whose row the wave shows, an empty line being left out.
Shown(s) == s \in got /\ parts[s] > 0

\* Mutant: the rows collected stay for the next wave.
WaveEnds_Kept ==
  /\ printed' = [s \in Symbol |-> IF Shown(s) THEN parts[s] ELSE printed[s]]
  /\ shown' = [s \in Symbol |-> shown[s] + (IF Shown(s) THEN 1 ELSE 0)]
  /\ writer' = "top"
  /\ wave' = {} /\ members' = {}
  /\ UNCHANGED <<parts, got>>

\* The wave is printed, with a filler for a symbol without a row; a wave
\* without any row is not.
WaveEnds ==
  /\ printed' = [s \in Symbol |-> IF Shown(s) THEN parts[s] ELSE printed[s]]
  /\ shown' = [s \in Symbol |-> shown[s] + (IF Shown(s) THEN 1 ELSE 0)]
  /\ writer' = "top"
  /\ wave' = {} /\ members' = {} /\ got' = {}
  /\ parts' = [s \in Symbol |-> 0]

\* The next symbol has no row within wave_collect_timeout_s: those behind it
\* are not looked at.
CollectTimesOut(s) ==
  /\ writer = "collect" /\ IsNext(s) /\ queue[s] = <<>>
  /\ WaveEnds
  /\ UNCHANGED <<cycles, queue, active, closed, main, sent>>

WavePrinted ==
  /\ writer = "collect" /\ wave = {}
  /\ WaveEnds
  /\ UNCHANGED <<cycles, queue, active, closed, main, sent>>

-----------------------------------------------------------------------------
(* The end of run_all_markets.                                              *)

\* gather has all results: shutdown posts a sentinel into every queue.
Shutdown ==
  /\ main = "gather" /\ \A s \in Symbol : monitor[s] \in {"done", "failed"}
  /\ main' = "shutdown"
  /\ closed' = TRUE
  /\ queue' = [s \in Symbol |-> Forced(s, Stop)]
  /\ UNCHANGED <<cycles, active, writer, collecting, display, sent>>

\* The writer has ended, or is cancelled after five seconds.
ShutdownReturns ==
  /\ main = "shutdown"
  /\ main' = "over"
  /\ writer' = "stopped"
  /\ UNCHANGED <<cycles, queue, active, collecting, closed, display, sent>>

CycleOver == main = "over" /\ UNCHANGED vars

-----------------------------------------------------------------------------
Monitor(s) ==
  PollFails(s) \/ Poll(s) \/ Submit(s) \/ MonitorRaises(s) \/ Deactivate(s)

Writer ==
  \/ WaveStarts \/ WavePrinted
  \/ \E s \in Symbol : Collect(s) \/ CollectTimesOut(s)

Next ==
  \/ \E s \in Symbol : Monitor(s)
  \/ Writer \/ Shutdown \/ ShutdownReturns \/ CycleOver

\* The event loop runs every task that can go on.
Fairness ==
  /\ \A s \in Symbol : WF_vars(Monitor(s))
  /\ WF_vars(Writer) /\ WF_vars(Shutdown) /\ WF_vars(ShutdownReturns)

Spec     == Init /\ [][Next]_vars
FairSpec == Spec /\ Fairness

TypeOK ==
  /\ monitor \in [Symbol -> {"polling", "submit", "done", "failed"}]
  /\ polled \in [Symbol -> 0..Polls]
  /\ queue \in [Symbol -> Seq(-1..Polls)]
  /\ active \subseteq Symbol
  /\ writer \in {"top", "collect", "stopped"}
  /\ wave \subseteq members /\ members \subseteq Symbol /\ got \subseteq members
  /\ parts \in [Symbol -> 0..Polls]
  /\ closed \in BOOLEAN
  /\ main \in {"gather", "shutdown", "over"}
  /\ printed \in [Symbol -> 0..Polls]
  /\ sent \in [Symbol -> Nat] /\ shown \in [Symbol -> Nat]

-----------------------------------------------------------------------------
(* Properties.                                                              *)

\* No row is printed twice or behind a later one: rows in the queue, in the
\* writer's hands and on the display are in the order of the polls.
RowsInOrder ==
  \A s \in Symbol :
    /\ parts[s] > 0 => printed[s] < parts[s]
    /\ \A i \in DOMAIN queue[s] : queue[s][i] > 0 =>
         /\ printed[s] < queue[s][i] /\ parts[s] < queue[s][i]
         /\ \A k \in DOMAIN queue[s] : (k > i /\ queue[s][k] > 0) => queue[s][i] < queue[s][k]

\* At no time, and not at the end of the cycle either, does the display lack more
\* rows of a symbol than its queue holds and one in the writer's hands: what is
\* thrown away to make room, dropped with a wave the sentinel ends, or left in the
\* queue of a writer that is cancelled, together.
FewRowsLost ==
  \A s \in Symbol : sent[s] - shown[s] <= Capacity + 1

\* The cycle ends, whichever queue is full and whichever symbol is silent or
\* slow, and also when the monitor of the last symbol in the display raises: the
\* writer waits for that one behind all others.
GatherReturns ==
  <>(main = "over" \/ \E s \in Symbol \ {Count} : monitor[s] = "failed")

-----------------------------------------------------------------------------
(* What a comment says and the code does not do.                            *)

\* config.py:278: wait this long per symbol; print a partial wave if some
\* symbols are slow.  Here: a row that waits behind a silent symbol is taken in
\* the end, so that the monitor behind a full queue goes on.
RowsMoveOn ==
  \A s \in Symbol : Full(s) ~> (~Full(s) \/ writer = "stopped")

=============================================================================
