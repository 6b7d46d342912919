--------------------------- MODULE MCEntryStrategy ---------------------------
(***************************************************************************)
(* TLC instances of EntryStrategy.                                         *)
(***************************************************************************)
EXTENDS EntryStrategy

TwoSells == [r \in Reasons |-> 2]
OneSell  == [r \in Reasons |-> 1]

From1 == [b \in Symbols |-> 1]
Till3 == [b \in Symbols |-> 3]

\* The window of buy1 closes within the epoch, that of buy2 with it.
Till12 == [b \in Symbols |-> IF b = "btc" THEN 1 ELSE 2]

Always(t) == [b \in Symbols |-> t]

\* Both assets above their strike, the YES books in order, no bid for NO.
Healthy ==
  [book |-> {"YES"}, strong |-> {"YES"}, trend |-> Always("up"),
   bid |-> [o \in Outcomes |-> IF o = "YES" THEN "high" ELSE "none"]]

\* The same signal with bids that set off risk1 and risk3 of a YES position.
Crash == [Healthy EXCEPT !.bid["YES"] = "low"]

\* The other side: both assets below their strike, the NO books in order.
Reversal ==
  [book |-> {"NO"}, strong |-> {"NO"}, trend |-> Always("down"),
   bid |-> [o \in Outcomes |-> IF o = "NO" THEN "high" ELSE "low"]]

\* One leg trades, with a signal throughout and a bid that may break down.
LiveViews == [s \in Symbols |-> IF s = "btc" THEN {Healthy, Crash} ELSE {Healthy}]

\* Both sides may qualify.
SideViews == [s \in Symbols |-> {Healthy, Reversal}]

\* A first start of the epoch; a start after one share of btc's YES was bought.
NoneHeld == [s \in Symbols |-> {NoShares}]
SomeHeld == [s \in Symbols |-> IF s = "btc" THEN {NoShares, [NoShares EXCEPT !["YES"] = 1]}
                               ELSE {NoShares}]
=============================================================================
