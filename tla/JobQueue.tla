------------------------------ MODULE JobQueue ------------------------------
(***************************************************************************)
(* The durable job queue: the rows of orchestration_jobs and the           *)
(* statements that change them.                                            *)
(*                                                                         *)
(* A row is named by its key (organization, kind, idempotency_key), which  *)
(* is unique (migration 0003), so the rows are a function on the set Jobs  *)
(* of keys and an unused key is in state "absent".  Every operator below   *)
(* is one database statement, hence one atomic step.  None of them looks   *)
(* at who calls it: complete, fail, terminate and defer carry a job id and *)
(* nothing else, and that is the point of the worker model built on top.   *)
(*                                                                         *)
(* Times are relative.  "lease" is what remains of lease_expires_at,       *)
(* "deferred" what remains of deferred_until, "age" the time since         *)
(* created_at, which nobody reads beyond CeilingTicks.  Columns that no    *)
(* statement reads (worker_id, started_at, finished_at, last_error) are    *)
(* left out.                                                               *)
(***************************************************************************)
EXTENDS Integers, FiniteSets

CONSTANTS
  Jobs,          \* the keys a job may be enqueued under
  MaxAttempts,   \* max_attempts, the budget for transient failures
  LeaseTicks,    \* how long a claim is valid (leaseMs)
  BackoffTicks,  \* how long a deferred job waits (pollBackoffMs)
  CeilingTicks   \* the age past which polling stops (pollCeilingMs)

ASSUME QueueAssumption ==
  /\ IsFiniteSet(Jobs)
  /\ MaxAttempts  \in Nat \ {0}
  /\ LeaseTicks   \in Nat \ {0}
  /\ BackoffTicks \in Nat
  /\ CeilingTicks \in Nat

VARIABLE job     \* job[j] is the row of key j

Terminal == {"succeeded", "failed"}
States   == {"absent", "queued", "running"} \cup Terminal
NoLease  == -1   \* lease_expires_at is null

Row == [ state    : States,
         attempts : 0..MaxAttempts,
         lease    : NoLease..LeaseTicks,
         deferred : 0..BackoffTicks,
         age      : 0..CeilingTicks,
         born     : 0..Cardinality(Jobs) ]

NoRow == [ state |-> "absent", attempts |-> 0, lease |-> NoLease,
           deferred |-> 0, age |-> 0, born |-> 0 ]

Created == {j \in Jobs : job[j].state # "absent"}

QueueInit == job = [j \in Jobs |-> NoRow]

NewRow(n) == [NoRow EXCEPT !.state = "queued", !.born = n]

(***************************************************************************)
(* Enqueue inserts the row unless a row with the key exists; a repeat      *)
(* returns that row and changes nothing.                                   *)
(***************************************************************************)
Enqueue(j) ==
  IF job[j].state = "absent"
  THEN job' = [job EXCEPT ![j] = NewRow(Cardinality(Created) + 1)]
  ELSE UNCHANGED job

\* Faulty: the claim also picks up what already failed.
ClaimableAgain(j) ==
  /\ job[j].state \in {"queued", "failed"}
  /\ job[j].attempts < MaxAttempts
  /\ job[j].deferred = 0

Claimable(j) ==
  /\ job[j].state = "queued"
  /\ job[j].attempts < MaxAttempts
  /\ job[j].deferred = 0

Claimed(r) ==
  [r EXCEPT !.state = "running", !.attempts = @ + 1,
            !.lease = LeaseTicks, !.deferred = 0]

(***************************************************************************)
(* The claim takes the oldest claimable row, spends one attempt and writes *)
(* the lease, all in one statement.                                        *)
(***************************************************************************)
ClaimOldest(j) ==
  /\ Claimable(j)
  /\ \A k \in Jobs : Claimable(k) => job[j].born <= job[k].born
  /\ job' = [job EXCEPT ![j] = Claimed(@)]

\* The unconditional PATCH that complete, fail and terminate send.
Patched(r, state) == [r EXCEPT !.state = state, !.lease = NoLease, !.deferred = 0]

Patch(j, state) == job' = [job EXCEPT ![j] = Patched(@, state)]

Complete(j)      == Patch(j, "succeeded")
Terminate(j)     == Patch(j, "failed")

\* Faulty: one attempt too many.
SpentLate(j) == job[j].attempts > MaxAttempts

\* fail reads the row first, then writes what that reading decided.
Spent(j)         == job[j].attempts >= MaxAttempts
Fail(j, spent)   == Patch(j, IF spent THEN "failed" ELSE "queued")

\* Faulty: polling spends an attempt, as it did before migration 0028.
NoRefund(n) == n

\* greatest(attempts - 1, 0)
Refund(n) == IF n = 0 THEN 0 ELSE n - 1

\* Faulty: the deferred row keeps its lease.
DeferredLeased(r) ==
  [r EXCEPT !.state = "queued", !.attempts = Refund(@), !.deferred = BackoffTicks]

Deferred(r) ==
  [r EXCEPT !.state = "queued", !.attempts = Refund(@),
            !.lease = NoLease, !.deferred = BackoffTicks]

\* Faulty: any row is deferred, whatever its state.
DeferAny(j) == job' = [job EXCEPT ![j] = Deferred(@)]

\* Only a running row is deferred; the attempt its claim spent is returned.
Defer(j) ==
  IF job[j].state = "running"
  THEN job' = [job EXCEPT ![j] = Deferred(@)]
  ELSE UNCHANGED job

\* Faulty: the reaper does not look at the lease, or is one tick early.
ExpiredAlways(j) == job[j].state = "running"
ExpiredEarly(j)  == job[j].state = "running" /\ job[j].lease <= 1

Expired(j) == job[j].state = "running" /\ job[j].lease = 0

\* Faulty: the reaper requeues whatever the budget.
ReapedAlways(r) == [r EXCEPT !.state = "queued", !.lease = NoLease]

Reaped(r) ==
  [r EXCEPT !.state = IF r.attempts >= MaxAttempts THEN "failed" ELSE "queued",
            !.lease = NoLease]

\* One statement returns every lapsed row to the queue, or fails it.
ReapExpired ==
  /\ \E j \in Jobs : Expired(j)
  /\ job' = [j \in Jobs |-> IF Expired(j) THEN Reaped(job[j]) ELSE job[j]]

(***************************************************************************)
(* Time.  A lapsed lease stays at 0 until the row is reaped or settled.    *)
(***************************************************************************)
Older(r) ==
  [r EXCEPT !.lease    = IF @ > 0 THEN @ - 1 ELSE @,
            !.deferred = IF @ > 0 THEN @ - 1 ELSE @,
            !.age      = IF @ < CeilingTicks THEN @ + 1 ELSE @]

Elapse ==
  job' = [j \in Jobs |-> IF job[j].state = "absent" THEN job[j] ELSE Older(job[j])]

Tick == Elapse /\ job' # job
=============================================================================
