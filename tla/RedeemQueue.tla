----------------------------- MODULE RedeemQueue -----------------------------
(***************************************************************************)
(* What execution/redeem_scheduler.py promises for each redeem job, without*)
(* heap, clock, credentials or relayer: a job asked for is queued, one job *)
(* at a time is active, an active job is paid or fails, a failed job is    *)
(* queued again while it has tries left and dropped afterwards; paid and   *)
(* dropped are final.                                                      *)
(***************************************************************************)
EXTENDS Integers

CONSTANTS Job,    \* the redeem jobs
          Tries   \* the tries of one job

VARIABLES status,  \* where each job stands
          used     \* the tries each job has used up

Statuses == {"new", "queued", "active", "paid", "dropped"}

Init ==
  /\ status = [j \in Job |-> "new"]
  /\ used = [j \in Job |-> 0]

Become(j, st) == status' = [status EXCEPT ![j] = st]

Ask(j) == status[j] = "new" /\ Become(j, "queued") /\ UNCHANGED used

Start(j) ==
  /\ status[j] = "queued" /\ \A i \in Job : status[i] # "active"
  /\ Become(j, "active") /\ UNCHANGED used

\* A job that needs no relayer call ends without becoming active: a simulated one
\* is paid, one without a credential fails.
MayEnd(j) ==
  status[j] = "active" \/ (status[j] = "queued" /\ \A i \in Job : status[i] # "active")

Pay(j) ==
  /\ MayEnd(j)
  /\ Become(j, "paid") /\ UNCHANGED used

Fail(j) ==
  /\ MayEnd(j)
  /\ used' = [used EXCEPT ![j] = @ + 1]
  /\ Become(j, IF used'[j] < Tries THEN "queued" ELSE "dropped")

Next == \E j \in Job : Ask(j) \/ Start(j) \/ Pay(j) \/ Fail(j)

Spec == Init /\ [][Next]_<<status, used>>
=============================================================================
