-------------------------- MODULE PositionLifecycle --------------------------
(***************************************************************************)
(* What the coordinator of execution/exit_strategy.py promises for each    *)
(* symbol over one epoch, without ticks, tasks, locks or balances: an      *)
(* order is sent out, comes back unmatched, is refused for good, or is     *)
(* placed; a placed order becomes an open position at most once; sell      *)
(* orders are posted for open positions only, within a budget; a closed    *)
(* position, like an aborted strategy, is final.                           *)
(***************************************************************************)
EXTENDS Integers

CONSTANTS Symbol,  \* the symbols traded
          Budget   \* the largest number of sell orders of one position

VARIABLES stage,   \* the stage each symbol is in
          offers   \* the sell orders posted for each symbol

Stages == {"idle", "buying", "void", "pending", "open", "closed"}

\* The stages that may follow each other.
Moves ==
  {<<"idle", "buying">>, <<"buying", "idle">>, <<"buying", "void">>,
   <<"buying", "pending">>, <<"pending", "open">>, <<"open", "closed">>}

Init ==
  /\ stage = [s \in Symbol |-> "idle"]
  /\ offers = [s \in Symbol |-> 0]

Move(s) == <<stage[s], stage'[s]>> \in Moves /\ offers'[s] = offers[s]

Offer(s) ==
  /\ stage[s] = "open" /\ stage'[s] = "open"
  /\ offers[s] < Budget /\ offers'[s] = offers[s] + 1

Stay(s) == stage'[s] = stage[s] /\ offers'[s] = offers[s]

\* One step of the coordinator may move both symbols.
Next ==
  /\ stage' \in [Symbol -> Stages]
  /\ offers' \in [Symbol -> Nat]
  /\ \A s \in Symbol : Move(s) \/ Offer(s) \/ Stay(s)

Spec == Init /\ [][Next]_<<stage, offers>>
=============================================================================
