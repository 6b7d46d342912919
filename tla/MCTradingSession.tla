--------------------------- MODULE MCTradingSession ---------------------------
(* Values of the constants for TLC.                                          *)
EXTENDS TradingSession

MCSymbol == {"btc", "eth"}

\* btc and eth, at once or one unit apart; eth alone, with the btc monitor; none.
MCTargets == {[s \in {"btc", "eth"} |-> 0],
              [s \in {"btc", "eth"} |-> IF s = "btc" THEN 0 ELSE 1],
              [s \in {"eth"} |-> 0],
              [s \in {} |-> 0]}

MCRank == [s \in MCSymbol |-> IF s = "btc" THEN 0 ELSE 1]

Window(a, b) == [start |-> a, end |-> b, isTime |-> TRUE]

\* An hour past the last of the day.
NoTime(a, b) == [start |-> a, end |-> b, isTime |-> FALSE]

\* Always; an early and a late window on both days; one on the first day only;
\* no weekday; a window across midnight, which is never active; one that starts
\* at no time of the day, beside one that is traded.
MCSchedules == {[enabled |-> FALSE, weekdays |-> {}, windows |-> {}],
                [enabled |-> TRUE, weekdays |-> {0, 1}, windows |-> {Window(0, 3), Window(5, 8)}],
                [enabled |-> TRUE, weekdays |-> {0}, windows |-> {Window(0, 2)}],
                [enabled |-> TRUE, weekdays |-> {}, windows |-> {Window(0, 3)}],
                [enabled |-> TRUE, weekdays |-> {0, 1}, windows |-> {Window(6, 2)}],
                [enabled |-> TRUE, weekdays |-> {0}, windows |-> {Window(0, 5), NoTime(9, 9)}]}

=============================================================================
