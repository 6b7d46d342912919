----------------------------- MODULE UserChannel -----------------------------
(***************************************************************************)
(* The user channel of one market during one epoch: clob_monitor_session   *)
(* (execution/executor.py) opens a ClobUserWebSocket (clob_user_ws.py),    *)
(* whose listen task puts the trade messages into a UserChannelStore       *)
(* (user_channel_store.py), from which _ingest_buy_fills                   *)
(* (exit_strategy.py) averages the fill of the position.                   *)
(*                                                                         *)
(* A message is its number in the order of arrival; those in `mine' are    *)
(* buys of the position's token that have matched.  The ping task only     *)
(* writes, delays and logs are left out.  _ws is "open", or closed: "clean"*)
(* with code 1000 or 1001, which ends `async for' without an exception,    *)
(* "denied" with one of the codes 1002, 1003, 1006 and 1008, and "other"   *)
(* with any other code or by an error of the system.                       *)
(***************************************************************************)
EXTENDS Integers, Sequences, FiniteSets

CONSTANTS
  MaxRecent,    \* UserChannelStore.max_recent (50 in the code)
  MaxFailures,  \* _MAX_AUTH_FAILURES (3 in the code)
  Messages      \* bound: the trade messages of an epoch

ASSUME RecentAssumption   == MaxRecent \in Nat \ {0}
ASSUME FailuresAssumption == MaxFailures \in Nat \ {0}
ASSUME MessagesAssumption == Messages \in Nat

Closings == {"clean", "denied", "other"}

VARIABLES
  session,   \* where clob_monitor_session stands
  channel,   \* user_client and user_store are kept
  sock,      \* the state of _ws
  listen,    \* where _listen_loop stands
  failures,  \* _auth_failures
  fatal,     \* _fatal_auth_error is set, _running is false
  received,  \* trade_messages_received
  trades,    \* UserChannelStore.trades
  mine,      \* the messages that count for the position
  booked,    \* the number of messages when the exchange took the order, -1 before
  placed,    \* the number of messages when post_order returned, -1 before
  seen,      \* PositionState.trades_seen
  counted    \* history: how often each message went into filled_shares

vars == <<session, channel, sock, listen, failures, fatal, received, trades, mine,
          booked, placed, seen, counted>>

store == <<received, trades, mine>>
fill  == <<booked, placed, seen, counted>>

Init ==
  /\ session = "connecting" /\ channel = TRUE
  /\ sock = "none" /\ listen = "off"
  /\ failures = 0 /\ fatal = FALSE
  /\ received = 0 /\ trades = <<>> /\ mine = {}
  /\ booked = -1 /\ placed = -1 /\ seen = 0
  /\ counted = [m \in 1..Messages |-> 0]

-----------------------------------------------------------------------------
(* The store.                                                               *)

\* `while len(self.trades) > self.max_recent'.
Trimmed(rows) == IF Len(rows) > MaxRecent THEN Tail(rows) ELSE rows

\* _handle_payload of a trade, and apply_trade.
Apply ==
  /\ received < Messages
  /\ received' = received + 1
  /\ trades' = Trimmed(Append(trades, received + 1))
  /\ mine' \in {mine, mine \cup {received + 1}}

\* _wait_session_ready: nothing within the timeout, a heartbeat, or a payload.
Ready == Apply \/ UNCHANGED store

-----------------------------------------------------------------------------
(* clob_monitor_session.                                                    *)

Connects ==
  /\ session = "connecting"
  /\ session' = "up" /\ sock' = "open" /\ listen' = "recv"
  /\ Ready
  /\ UNCHANGED <<channel, failures, fatal, fill>>

\* The server refuses the credentials, or closes before the session is ready:
\* the epoch goes on without a channel, and nobody closes the socket.
ConnectRejected ==
  /\ session = "connecting"
  /\ session' = "up" /\ channel' = FALSE
  /\ sock' \in Closings \cup {"open"}
  /\ UNCHANGED <<listen, failures, fatal, store, fill>>

\* Any other exception ends the monitor.
ConnectFails ==
  /\ session = "connecting"
  /\ session' = "raised"
  /\ UNCHANGED <<channel, sock, listen, failures, fatal, store, fill>>

\* The epoch is over: disconnect, if there is a channel.
Leave ==
  /\ session = "up"
  /\ session' = "over"
  /\ IF channel THEN sock' = "none" /\ listen' = "ended" ELSE UNCHANGED <<sock, listen>>
  /\ UNCHANGED <<channel, failures, fatal, store, fill>>

-----------------------------------------------------------------------------
(* The listen task.                                                         *)

Receive ==
  /\ listen = "recv" /\ sock = "open"
  /\ Apply
  /\ UNCHANGED <<session, channel, sock, listen, failures, fatal, fill>>

\* What is raised for an open socket is caught, logged, and reconnected after.
ListenRaises ==
  /\ listen = "recv" /\ sock = "open"
  /\ listen' = "backoff"
  /\ UNCHANGED <<session, channel, sock, failures, fatal, store, fill>>

\* _listen returns at once and is called again, for ever: depending on the
\* library's version the event loop is busy, or held without an await.
SeeCleanClose ==
  /\ listen = "recv" /\ sock = "clean"
  /\ listen' = "spin"
  /\ UNCHANGED <<session, channel, sock, failures, fatal, store, fill>>

\* Mutant: a lost connection counts however many trades it has brought.
Suspicious_Always == sock = "denied"

\* The close counts as a failure of the credentials.
Suspicious == sock = "denied" /\ received = 0

\* _on_connection_lost, or the branch of OSError.
SeeLoss ==
  /\ listen = "recv" /\ sock \in {"denied", "other"}
  /\ failures' = IF Suspicious THEN failures + 1 ELSE failures
  /\ fatal' = (failures' >= MaxFailures)
  /\ listen' = IF fatal' THEN "ended" ELSE "backoff"
  /\ UNCHANGED <<session, channel, sock, store, fill>>

\* _reconnect after its sleep: an open socket is closed, with or without an
\* answer of the server.
BackoffOver ==
  /\ listen = "backoff"
  /\ listen' = "connect"
  /\ IF sock = "open" THEN sock' \in {"clean", "denied"} ELSE UNCHANGED sock
  /\ UNCHANGED <<session, channel, failures, fatal, store, fill>>

Reconnects ==
  /\ listen = "connect"
  /\ sock' = "open" /\ listen' = "recv" /\ failures' = 0
  /\ Ready
  /\ UNCHANGED <<session, channel, fatal, fill>>

ReconnectRejected ==
  /\ listen = "connect"
  /\ sock' \in Closings \cup {"open"}
  /\ failures' = failures + 1
  /\ fatal' = (failures' >= MaxFailures)
  /\ listen' = IF fatal' THEN "ended" ELSE "recv"
  /\ UNCHANGED <<session, channel, store, fill>>

\* Mutant: an attempt that fails is the last one.
AfterFailure_Ends == "ended"

\* The loop goes back to _listen, which tells the state of the socket.
AfterFailure == "recv"

\* No connection, and the old socket stays; or the set-up of the new one breaks.
ReconnectFails ==
  /\ listen = "connect"
  /\ sock' \in {sock, "open"} \cup Closings
  /\ listen' = AfterFailure
  /\ UNCHANGED <<session, channel, failures, fatal, store, fill>>

\* External: the server, or the network, closes the connection.
ServerCloses ==
  /\ listen \in {"recv", "backoff"} /\ sock = "open"
  /\ sock' \in Closings
  /\ UNCHANGED <<session, channel, listen, failures, fatal, store, fill>>

-----------------------------------------------------------------------------
(* The coordinator.                                                         *)

\* External: the exchange takes the order that _run_buy posts, and its trades may
\* be reported from now on.
OrderBooked ==
  /\ session = "up" /\ channel /\ booked = -1
  /\ booked' = received
  /\ UNCHANGED <<session, channel, sock, listen, failures, fatal, store, placed, seen, counted>>

\* _run_buy once post_order has returned: what has arrived meanwhile is passed over.
OrderPlaced ==
  /\ session = "up" /\ channel /\ booked >= 0 /\ placed = -1
  /\ placed' = received
  /\ seen' = Len(trades)
  /\ UNCHANGED <<session, channel, sock, listen, failures, fatal, store, booked, counted>>

\* Mutant: the rows before the index are read again.
NewRows_All == trades

\* Mutant: the slice starts one row late.
NewRows_Late == SubSeq(trades, seen + 2, Len(trades))

\* list(store.trades)[pos.trades_seen:].
NewRows == SubSeq(trades, seen + 1, Len(trades))

\* The part of _ingest_buy_fills that reads the store.
IngestTrades ==
  /\ session = "up" /\ channel /\ placed >= 0
  /\ Len(trades) > seen
  /\ seen' = Len(trades)
  /\ counted' = [m \in 1..Messages |->
       IF m \in mine /\ \E i \in DOMAIN NewRows : NewRows[i] = m
       THEN counted[m] + 1 ELSE counted[m]]
  /\ UNCHANGED <<session, channel, sock, listen, failures, fatal, store, booked, placed>>

\* The session has ended, or the event loop is held.
Stopped ==
  /\ session \in {"over", "raised"} \/ listen = "spin"
  /\ UNCHANGED vars

-----------------------------------------------------------------------------
ListenLoop ==
  \/ Receive \/ ListenRaises \/ SeeCleanClose \/ SeeLoss \/ BackoffOver
  \/ Reconnects \/ ReconnectRejected \/ ReconnectFails

Next ==
  \/ Connects \/ ConnectRejected \/ ConnectFails \/ Leave
  \/ ListenLoop \/ ServerCloses \/ Stopped
  \/ OrderBooked \/ OrderPlaced \/ IngestTrades

\* The event loop runs the listen task; the network comes back, so that one of
\* ever more attempts to connect succeeds.
Fairness ==
  /\ WF_vars(SeeCleanClose \/ SeeLoss \/ BackoffOver)
  /\ WF_vars(Reconnects \/ ReconnectRejected \/ ReconnectFails)
  /\ SF_vars(Reconnects)

Spec     == Init /\ [][Next]_vars
FairSpec == Spec /\ Fairness

TypeOK ==
  /\ session \in {"connecting", "up", "over", "raised"}
  /\ channel \in BOOLEAN /\ fatal \in BOOLEAN
  /\ sock \in Closings \cup {"none", "open"}
  /\ listen \in {"off", "recv", "backoff", "connect", "spin", "ended"}
  /\ failures \in 0..MaxFailures
  /\ received \in 0..Messages
  /\ trades \in Seq(1..Messages) /\ Len(trades) <= MaxRecent
  /\ mine \subseteq 1..Messages
  /\ booked \in -1..Messages /\ placed \in -1..Messages
  /\ seen \in 0..MaxRecent
  /\ counted \in [1..Messages -> Nat]

-----------------------------------------------------------------------------
(* Properties.                                                              *)

\* The fill price averages reports of matched buys that arrived after post_order
\* returned, each report once, although rows drop out of the list while the
\* coordinator keeps an index into it, and connections come and go.  (A trade is
\* reported when it is matched, mined and confirmed, and each report is averaged.)
CountedOnce ==
  \A m \in 1..Messages :
    /\ counted[m] <= 1
    /\ counted[m] = 1 => m \in mine /\ placed >= 0 /\ m > placed

Dropped == received - Len(trades)
Unread  == Len(trades) - seen

\* How much of its fill a position may miss: of the matched reports that arrived
\* since the exchange took the order, those not averaged are no more than arrived
\* before post_order returned, than rows were dropped from the list, and than rows
\* are still to be read.  As long as the list has not overflowed, an evaluation
\* leaves nothing out that arrived since the answer.
LeftOut ==
  placed >= 0 =>
    Cardinality({m \in mine : m > booked /\ counted[m] = 0})
      <= (placed - booked) + Dropped + Unread

\* A channel that has brought a trade is not given up because connections get
\* lost, only because the server rejects new ones.
LossIsNotFatal ==
  [][(~fatal /\ fatal' /\ received > 0) => listen = "connect"]_vars

\* If the server takes one of ever more attempts, a lost channel listens again,
\* unless it is given up, the epoch ends, or the loop spins on a clean close.
Recovers ==
  (listen = "recv" /\ sock \in {"denied", "other"})
    ~> (listen = "recv" /\ sock = "open") \/ fatal \/ session = "over" \/ listen = "spin"

=============================================================================
