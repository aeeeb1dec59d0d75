---------------------------- MODULE PipelineProofs ----------------------------
(***************************************************************************)
(* Proofs about the queue and its workers, for any number of jobs and      *)
(* workers and any budget, lease, backoff and ceiling.  Then about the     *)
(* deployment pipeline, for any number of requests and workers, any budget *)
(* and any age limits: its worker steps are steps of Worker, and nothing   *)
(* is succeeded, live or billed that the engine did not finish.            *)
(***************************************************************************)
EXTENDS DeploymentPipeline, WorkerContract, TLAPS, FiniteSetTheorems

-----------------------------------------------------------------------------
(* What each statement of the queue does to the rows.                      *)

RowOK(r) == r \in Row /\ (r.state = "running" <=> r.lease # NoLease)
RowsOK   == job \in [Jobs -> Row] /\ \A j \in Jobs : RowOK(job[j])

\* Rows are numbered in the order they were created, so their count is a number.
LEMMA CardNat == Cardinality(Jobs) \in Nat
BY QueueAssumption, FS_CardinalityType DEF QueueAssumption

\* An inserted row is queued with its whole budget.
LEMMA NewRowOK ==
  ASSUME NEW n \in 0..Cardinality(Jobs)
  PROVE  /\ RowOK(NewRow(n))
         /\ NewRow(n).state = "queued"
         /\ NewRow(n).attempts = 0
<1> SUFFICES ASSUME NEW p, p = NewRow(n)
             PROVE  /\ RowOK(p)
                    /\ p.state = "queued"
                    /\ p.attempts = 0
  OBVIOUS
<1>1. /\ p.state = "queued"
      /\ p.attempts = 0
  BY QueueAssumption DEF Row, QueueAssumption, States, Terminal, NoLease, NewRow, NoRow
<1>2. /\ p.state \in States /\ p.attempts \in 0..MaxAttempts
      /\ p.lease \in NoLease..LeaseTicks /\ p.deferred \in 0..BackoffTicks
      /\ p.age \in 0..CeilingTicks /\ p.born \in 0..Cardinality(Jobs)
      /\ p.state = "running" <=> p.lease # NoLease
  BY QueueAssumption, CardNat DEF Row, QueueAssumption, States, Terminal, NoLease, RowOK, NewRow, NoRow
<1>3. p = [ state |-> p.state, attempts |-> p.attempts, lease |-> p.lease,
            deferred |-> p.deferred, age |-> p.age, born |-> p.born ]
  BY DEF Row, NewRow, NoRow
<1> QED BY <1>1, <1>2, <1>3 DEF RowOK, Row

\* A claim spends one attempt and writes a full lease.
LEMMA ClaimedOK ==
  ASSUME NEW r \in Row, r.attempts < MaxAttempts
  PROVE  /\ RowOK(Claimed(r))
         /\ Claimed(r).state = "running"
         /\ Claimed(r).attempts = r.attempts + 1
         /\ Claimed(r).lease = LeaseTicks
<1> SUFFICES ASSUME NEW p, p = Claimed(r)
             PROVE  /\ RowOK(p)
                    /\ p.state = "running"
                    /\ p.attempts = r.attempts + 1
                    /\ p.lease = LeaseTicks
  OBVIOUS
<1>1. /\ p.state = "running"
      /\ p.attempts = r.attempts + 1
      /\ p.lease = LeaseTicks
  BY QueueAssumption DEF Row, QueueAssumption, States, Terminal, NoLease, Claimed
<1>2. /\ p.state \in States /\ p.attempts \in 0..MaxAttempts
      /\ p.lease \in NoLease..LeaseTicks /\ p.deferred \in 0..BackoffTicks
      /\ p.age \in 0..CeilingTicks /\ p.born \in 0..Cardinality(Jobs)
      /\ p.state = "running" <=> p.lease # NoLease
  BY QueueAssumption, CardNat DEF Row, QueueAssumption, States, Terminal, NoLease, RowOK, Claimed
<1>3. p = [ state |-> p.state, attempts |-> p.attempts, lease |-> p.lease,
            deferred |-> p.deferred, age |-> p.age, born |-> p.born ]
  BY DEF Row, Claimed
<1> QED BY <1>1, <1>2, <1>3 DEF RowOK, Row

\* complete, fail and terminate write the state they are given.
LEMMA PatchedOK ==
  ASSUME NEW r \in Row, NEW s \in {"queued", "succeeded", "failed"}
  PROVE  /\ RowOK(Patched(r, s))
         /\ Patched(r, s).state = s
         /\ Patched(r, s).attempts = r.attempts
<1> SUFFICES ASSUME NEW p, p = Patched(r, s)
             PROVE  /\ RowOK(p)
                    /\ p.state = s
                    /\ p.attempts = r.attempts
  OBVIOUS
<1>1. /\ p.state = s
      /\ p.attempts = r.attempts
  BY QueueAssumption DEF Row, QueueAssumption, States, Terminal, NoLease, Patched
<1>2. /\ p.state \in States /\ p.attempts \in 0..MaxAttempts
      /\ p.lease \in NoLease..LeaseTicks /\ p.deferred \in 0..BackoffTicks
      /\ p.age \in 0..CeilingTicks /\ p.born \in 0..Cardinality(Jobs)
      /\ p.state = "running" <=> p.lease # NoLease
  BY QueueAssumption, CardNat DEF Row, QueueAssumption, States, Terminal, NoLease, RowOK, Patched
<1>3. p = [ state |-> p.state, attempts |-> p.attempts, lease |-> p.lease,
            deferred |-> p.deferred, age |-> p.age, born |-> p.born ]
  BY DEF Row, Patched
<1> QED BY <1>1, <1>2, <1>3 DEF RowOK, Row

\* A deferral requeues and returns one attempt.
LEMMA DeferredOK ==
  ASSUME NEW r \in Row
  PROVE  /\ RowOK(Deferred(r))
         /\ Deferred(r).state = "queued"
         /\ Deferred(r).attempts = Refund(r.attempts)
<1> SUFFICES ASSUME NEW p, p = Deferred(r)
             PROVE  /\ RowOK(p)
                    /\ p.state = "queued"
                    /\ p.attempts = Refund(r.attempts)
  OBVIOUS
<1>1. /\ p.state = "queued"
      /\ p.attempts = Refund(r.attempts)
  BY QueueAssumption DEF Row, QueueAssumption, States, Terminal, NoLease, Deferred, Refund
<1>2. /\ p.state \in States /\ p.attempts \in 0..MaxAttempts
      /\ p.lease \in NoLease..LeaseTicks /\ p.deferred \in 0..BackoffTicks
      /\ p.age \in 0..CeilingTicks /\ p.born \in 0..Cardinality(Jobs)
      /\ p.state = "running" <=> p.lease # NoLease
  BY QueueAssumption, CardNat DEF Row, QueueAssumption, States, Terminal, NoLease, RowOK, Deferred, Refund
<1>3. p = [ state |-> p.state, attempts |-> p.attempts, lease |-> p.lease,
            deferred |-> p.deferred, age |-> p.age, born |-> p.born ]
  BY DEF Row, Deferred, Refund
<1> QED BY <1>1, <1>2, <1>3 DEF RowOK, Row

\* The reaper requeues while budget is left, and fails otherwise.
LEMMA ReapedOK ==
  ASSUME NEW r \in Row
  PROVE  /\ RowOK(Reaped(r))
         /\ Reaped(r).state = (IF r.attempts >= MaxAttempts THEN "failed" ELSE "queued")
         /\ Reaped(r).attempts = r.attempts
<1> SUFFICES ASSUME NEW p, p = Reaped(r)
             PROVE  /\ RowOK(p)
                    /\ p.state = (IF r.attempts >= MaxAttempts THEN "failed" ELSE "queued")
                    /\ p.attempts = r.attempts
  OBVIOUS
<1>1. /\ p.state = (IF r.attempts >= MaxAttempts THEN "failed" ELSE "queued")
      /\ p.attempts = r.attempts
  BY QueueAssumption DEF Row, QueueAssumption, States, Terminal, NoLease, Reaped
<1>2. /\ p.state \in States /\ p.attempts \in 0..MaxAttempts
      /\ p.lease \in NoLease..LeaseTicks /\ p.deferred \in 0..BackoffTicks
      /\ p.age \in 0..CeilingTicks /\ p.born \in 0..Cardinality(Jobs)
      /\ p.state = "running" <=> p.lease # NoLease
  BY QueueAssumption, CardNat DEF Row, QueueAssumption, States, Terminal, NoLease, RowOK, Reaped
<1>3. p = [ state |-> p.state, attempts |-> p.attempts, lease |-> p.lease,
            deferred |-> p.deferred, age |-> p.age, born |-> p.born ]
  BY DEF Row, Reaped
<1> QED BY <1>1, <1>2, <1>3 DEF RowOK, Row

\* Time changes neither state nor budget, and a lease by at most one tick.
LEMMA OlderOK ==
  ASSUME NEW r \in Row, RowOK(r)
  PROVE  /\ RowOK(Older(r))
         /\ Older(r).state = r.state
         /\ Older(r).attempts = r.attempts
         /\ r.lease > 1 => Older(r).lease >= 1
<1> SUFFICES ASSUME NEW p, p = Older(r)
             PROVE  /\ RowOK(p)
                    /\ p.state = r.state
                    /\ p.attempts = r.attempts
                    /\ r.lease > 1 => p.lease >= 1
  OBVIOUS
<1>1. /\ p.state = r.state
      /\ p.attempts = r.attempts
      /\ r.lease > 1 => p.lease >= 1
  BY QueueAssumption DEF Row, QueueAssumption, States, Terminal, NoLease, Older
<1>2. /\ p.state \in States /\ p.attempts \in 0..MaxAttempts
      /\ p.lease \in NoLease..LeaseTicks /\ p.deferred \in 0..BackoffTicks
      /\ p.age \in 0..CeilingTicks /\ p.born \in 0..Cardinality(Jobs)
      /\ p.state = "running" <=> p.lease # NoLease
  BY QueueAssumption, CardNat DEF Row, QueueAssumption, States, Terminal, NoLease, RowOK, Older
<1>3. p = [ state |-> p.state, attempts |-> p.attempts, lease |-> p.lease,
            deferred |-> p.deferred, age |-> p.age, born |-> p.born ]
  BY DEF Row, Older
<1> QED BY <1>1, <1>2, <1>3 DEF RowOK, Row

-----------------------------------------------------------------------------
(* The same for the table of rows: who changes, and how.                   *)

\* A repeated key changes nothing; a new one inserts a waiting row.
LEMMA EnqueueRows ==
  ASSUME RowsOK, NEW j \in Jobs, Enqueue(j)
  PROVE  /\ RowsOK'
         /\ \A k \in Jobs : \/ job'[k] = job[k]
                            \/ /\ job[k].state = "absent" /\ job'[k].state = "queued"
                               /\ job'[k].attempts = 0
<1>1. CASE job[j].state # "absent"
  BY <1>1 DEF Enqueue, RowsOK
<1>2. CASE job[j].state = "absent"
  <2>1. /\ IsFiniteSet(Jobs \ {j}) /\ Cardinality(Jobs \ {j}) = Cardinality(Jobs) - 1
        /\ Created \subseteq Jobs \ {j}
    BY <1>2, QueueAssumption, FS_RemoveElement DEF Created, QueueAssumption
  <2>2. /\ Cardinality(Created) \in Nat
        /\ Cardinality(Created) <= Cardinality(Jobs \ {j})
    BY <2>1, FS_Subset, FS_CardinalityType
  <2>3. Cardinality(Created) + 1 \in 0..Cardinality(Jobs)
    BY <2>1, <2>2, CardNat
  <2>4. job' = [job EXCEPT ![j] = NewRow(Cardinality(Created) + 1)]
    BY <1>2 DEF Enqueue
  <2> QED BY <1>2, <2>3, <2>4, NewRowOK DEF RowsOK, RowOK
<1> QED BY <1>1, <1>2

\* A claim makes one waiting row with budget left a running row.
LEMMA ClaimRows ==
  ASSUME RowsOK, NEW j \in Jobs, ClaimOldest(j)
  PROVE  /\ RowsOK'
         /\ job[j].state = "queued" /\ job[j].attempts < MaxAttempts
         /\ job'[j].state = "running" /\ job'[j].lease = LeaseTicks
         /\ job'[j].attempts = job[j].attempts + 1
         /\ \A k \in Jobs : k # j => job'[k] = job[k]
BY ClaimedOK DEF ClaimOldest, Claimable, RowsOK, RowOK

\* An unconditional write settles or requeues one row, whatever it was.
LEMMA PatchRows ==
  ASSUME RowsOK, NEW j \in Jobs, NEW s \in {"queued", "succeeded", "failed"}, Patch(j, s)
  PROVE  /\ RowsOK'
         /\ job'[j].state = s /\ job'[j].attempts = job[j].attempts
         /\ \A k \in Jobs : k # j => job'[k] = job[k]
BY PatchedOK DEF Patch, RowsOK, RowOK

\* A deferral requeues one row if that row is running.
LEMMA DeferRows ==
  ASSUME RowsOK, NEW j \in Jobs, Defer(j)
  PROVE  /\ RowsOK'
         /\ \/ job[j].state # "running" /\ job' = job
            \/ /\ job[j].state = "running" /\ job'[j].state = "queued"
               /\ job'[j].attempts = Refund(job[j].attempts)
         /\ \A k \in Jobs : k # j => job'[k] = job[k]
BY DeferredOK DEF Defer, RowsOK, RowOK

\* The reaper touches lapsed rows only.
LEMMA ReapRows ==
  ASSUME RowsOK, ReapExpired
  PROVE  /\ RowsOK'
         /\ \A k \in Jobs : \/ job'[k] = job[k]
                            \/ /\ Expired(k)
                               /\ job'[k].attempts = job[k].attempts
                               /\ job'[k].state = IF job[k].attempts >= MaxAttempts
                                                  THEN "failed" ELSE "queued"
<1>1. \A k \in Jobs : job'[k] = IF Expired(k) THEN Reaped(job[k]) ELSE job[k]
  BY DEF ReapExpired
<1>2. \A k \in Jobs : job[k] \in Row /\ RowOK(job[k])
  BY DEF RowsOK
<1>3. \A k \in Jobs : RowOK(job'[k])
  BY <1>1, <1>2, ReapedOK
<1>4. job' \in [Jobs -> Row]
  BY <1>3 DEF ReapExpired, RowOK
<1> QED BY <1>1, <1>2, <1>3, <1>4, ReapedOK DEF RowsOK

\* Time settles nothing and shortens a lease by at most one tick.
LEMMA TickRows ==
  ASSUME RowsOK, Tick
  PROVE  /\ RowsOK'
         /\ \A k \in Jobs : /\ job'[k].state = job[k].state
                            /\ job'[k].attempts = job[k].attempts
                            /\ job[k].lease > 1 => job'[k].lease >= 1
<1>1. \A k \in Jobs : job'[k] = IF job[k].state = "absent" THEN job[k] ELSE Older(job[k])
  BY DEF Tick, Elapse
<1>2. \A k \in Jobs : job[k] \in Row /\ RowOK(job[k]) /\ job[k].lease \in Int
  BY QueueAssumption DEF RowsOK, Row, NoLease, QueueAssumption
<1>3. \A k \in Jobs : RowOK(job'[k])
  BY <1>1, <1>2, OlderOK
<1>4. job' \in [Jobs -> Row]
  BY <1>3 DEF Tick, Elapse, RowOK
<1> QED BY <1>1, <1>2, <1>3, <1>4, OlderOK DEF RowsOK

-----------------------------------------------------------------------------
(* Type correctness and honesty, whatever the clock does.                  *)

WorkersOK ==
  /\ wk \in [Workers -> Progress]
  /\ said \subseteq Jobs
  /\ \A w \in Workers : wk[w].pc # "idle" => wk[w].job \in Jobs

\* The type invariant is what it says of the rows and of the workers.
LEMMA TypeOKParts == TypeOK <=> RowsOK /\ WorkersOK
BY DEF TypeOK, RowsOK, RowOK, WorkersOK

\* A handler result of "succeeded" is remembered in said for as long as the
\* worker carries it: the strengthening that makes Honest inductive.
Backed ==
  \A w \in Workers :
    wk[w].pc \in {"settling", "failing", "applying"} /\ wk[w].res = "succeeded"
      => wk[w].job \in said

\* Before anything is enqueued the table is empty and every worker idle.
LEMMA WorkersInit == WorkerInit => RowsOK /\ WorkersOK
<1> SUFFICES ASSUME WorkerInit PROVE RowsOK /\ WorkersOK
  OBVIOUS
<1>1. NoRow \in Row /\ NoRow.state # "running" /\ NoRow.lease = NoLease
  BY QueueAssumption, CardNat DEF QueueAssumption, NoRow, Row, States, Terminal, NoLease
<1>2. Tick0 \in Progress /\ Tick0.pc = "idle"
  BY DEF Tick0, Progress
<1> QED BY <1>1, <1>2 DEF WorkerInit, QueueInit, RowsOK, RowOK, WorkersOK

\* A worker between ticks, and one that has just claimed j.
LEMMA TakenOK ==
  /\ Tick0 \in Progress /\ Tick0.pc = "idle" /\ Tick0.res = "none"
  /\ \A j \in Jobs : /\ Taken(j) \in Progress /\ Taken(j).job = j
                     /\ Taken(j).pc \in {"handling", "settling"}
                     /\ Taken(j).res # "succeeded"
<1>1. Tick0 \in Progress /\ Tick0.pc = "idle" /\ Tick0.res = "none"
  BY DEF Tick0, Progress
<1>2. ASSUME NEW j \in Jobs, NEW p, p = Taken(j)
      PROVE  /\ p \in Progress /\ p.job = j
             /\ p.pc \in {"handling", "settling"} /\ p.res # "succeeded"
  <2>1. CASE j \in Handled
    BY <1>2, <2>1 DEF Taken, Tick0, Progress, Results
  <2>2. CASE j \notin Handled
    <3>1. p = [pc |-> "settling", job |-> j, res |-> "degraded", spent |-> FALSE]
      BY <1>2, <2>2 DEF Taken, Tick0
    <3> QED BY <3>1 DEF Progress, Results
  <2> QED BY <2>1, <2>2
<1> QED BY <1>1, <1>2

\* Every step leaves the rows well formed.
LEMMA RowsStep == RowsOK /\ WorkersOK /\ Next => RowsOK'
<1> SUFFICES ASSUME RowsOK, WorkersOK, Next PROVE RowsOK'
  OBVIOUS
<1>1. ASSUME NEW j \in Jobs, Submit(j) PROVE RowsOK'
  BY <1>1, EnqueueRows DEF Submit
<1>2. ASSUME NEW w \in Workers, Claim(w) PROVE RowsOK'
  BY <1>2, ClaimRows DEF Claim
<1>3. ASSUME NEW w \in Workers, Settle(w) PROVE RowsOK'
  <2> wk[w].pc # "idle" => wk[w].job \in Jobs
    BY DEF WorkersOK
  <2>1. CASE SettleSucceeded(w)
    BY <2>1, PatchRows DEF SettleSucceeded, Settling, Complete
  <2>2. CASE SettleRunning(w)
    BY <2>2, PatchRows, DeferRows DEF SettleRunning, Settling, Terminate
  <2>3. CASE SettleDegraded(w)
    BY <2>3, PatchRows DEF SettleDegraded, Settling, Terminate
  <2>4. CASE ReadBudget(w)
    BY <2>4 DEF ReadBudget, RowsOK
  <2>5. CASE SettleFailed(w)
    BY <2>5, PatchRows DEF SettleFailed, Fail
  <2> QED BY <1>3, <2>1, <2>2, <2>3, <2>4, <2>5 DEF Settle
<1>4. ASSUME NEW w \in Workers,
             \/ \E r \in Results : HandlerReturns(w, r)
             \/ Apply(w)
             \/ Abandon(w)
      PROVE RowsOK'
  BY <1>4 DEF HandlerReturns, Apply, Abandon, RowsOK
<1>5. ASSUME NEW w \in Workers, Reap(w) PROVE RowsOK'
  BY <1>5, ReapRows DEF Reap
<1>6. CASE Clock
  BY <1>6, TickRows DEF Clock
<1> QED BY <1>1, <1>2, <1>3, <1>4, <1>5, <1>6 DEF Next, Untimed, WorkerStep

\* A handler that returned has left its result with its worker.
LEMMA ReturnedTyped ==
  ASSUME wk \in [Workers -> Progress], NEW w \in Workers, NEW r \in Results, HandlerReturns(w, r)
  PROVE  /\ wk' \in [Workers -> Progress]
         /\ wk'[w].pc = "settling" /\ wk'[w].job = wk[w].job /\ wk'[w].res = r
         /\ \A v \in Workers : v # w => wk'[v] = wk[v]
<1>1. PICK p : p = [wk[w] EXCEPT !.pc = "settling", !.res = r]
  OBVIOUS
<1>2. p \in Progress /\ p.pc = "settling" /\ p.job = wk[w].job /\ p.res = r
  BY <1>1 DEF Progress
<1>3. wk' = [wk EXCEPT ![w] = p]
  BY <1>1 DEF HandlerReturns
<1> QED BY <1>2, <1>3

\* Every step leaves the workers well formed.
LEMMA WorkersStep == RowsOK /\ WorkersOK /\ Next => WorkersOK'
<1> SUFFICES ASSUME RowsOK, WorkersOK, Next PROVE WorkersOK'
  OBVIOUS
<1> USE DEF WorkersOK
<1>1. ASSUME NEW j \in Jobs, Submit(j) PROVE WorkersOK'
  BY <1>1 DEF Submit
<1>2. ASSUME NEW w \in Workers, Claim(w) PROVE WorkersOK'
  BY <1>2, TakenOK DEF Claim
<1>3. ASSUME NEW w \in Workers, Settle(w) PROVE WorkersOK'
  BY <1>3 DEF Settle, SettleSucceeded, SettleRunning, SettleDegraded, ReadBudget,
              SettleFailed, Settling, Settled, Spent, Progress
<1>4. ASSUME NEW w \in Workers, NEW r \in Results, HandlerReturns(w, r) PROVE WorkersOK'
  <2>1. wk[w].pc = "handling" /\ said' \subseteq said \cup {wk[w].job}
    BY <1>4 DEF HandlerReturns
  <2> QED BY <1>4, <2>1, ReturnedTyped
<1>5. ASSUME NEW w \in Workers, Apply(w) \/ Abandon(w) PROVE WorkersOK'
  BY <1>5, TakenOK DEF Apply, Abandon
<1>6. ASSUME NEW w \in Workers, Reap(w) PROVE WorkersOK'
  BY <1>6 DEF Reap
<1>7. CASE Clock
  BY <1>7 DEF Clock
<1> QED BY <1>1, <1>2, <1>3, <1>4, <1>5, <1>6, <1>7 DEF Next, Untimed, WorkerStep

\* Every step keeps the types.
LEMMA TypeStep == TypeOK /\ [Next]_workerVars => TypeOK'
<1> SUFFICES ASSUME TypeOK, [Next]_workerVars PROVE TypeOK'
  OBVIOUS
<1>1. RowsOK /\ WorkersOK
  BY TypeOKParts
<1>2. CASE Next
  <2>1. RowsOK' /\ WorkersOK'
    BY <1>1, <1>2, RowsStep, WorkersStep
  <2> QED BY <2>1 DEF TypeOK, RowsOK, RowOK, WorkersOK
<1>3. CASE UNCHANGED workerVars
  BY <1>3 DEF workerVars, TypeOK
<1> QED BY <1>2, <1>3

\* The queue and the workers keep their types: attempts never pass the budget,
\* a lease exists exactly while its row is running, a busy worker has a job.
THEOREM TypeCorrect == Spec => []TypeOK
<1>1. WorkerInit => TypeOK
  BY WorkersInit, TypeOKParts
<1> QED BY <1>1, TypeStep, PTL DEF Spec

\* A step that leaves some row newly succeeded is a worker's complete, of a job
\* whose handler reported success; everything else keeps Honest and Backed.
LEMMA HonestStep == RowsOK /\ WorkersOK /\ Honest /\ Backed /\ Next => Honest' /\ Backed'
<1> SUFFICES ASSUME RowsOK, WorkersOK, Honest, Backed, Next PROVE Honest' /\ Backed'
  OBVIOUS
<1> USE DEF Honest, Backed
<1>1. ASSUME NEW j \in Jobs, Submit(j) PROVE Honest' /\ Backed'
  BY <1>1, EnqueueRows DEF Submit
<1>2. ASSUME NEW w \in Workers, Claim(w) PROVE Honest' /\ Backed'
  BY <1>2, ClaimRows, TakenOK DEF Claim, WorkersOK
<1>3. ASSUME NEW w \in Workers, Settle(w) PROVE Honest' /\ Backed'
  <2>1. Backed'
    BY <1>3 DEF Settle, SettleSucceeded, SettleRunning, SettleDegraded, ReadBudget,
                SettleFailed, Settling, Settled, WorkersOK, Progress
  <2> wk[w].pc # "idle" => wk[w].job \in Jobs
    BY DEF WorkersOK
  <2>2. CASE SettleSucceeded(w)
    BY <2>1, <2>2, PatchRows DEF SettleSucceeded, Settling, Complete, Settled
  <2>3. CASE SettleRunning(w)
    BY <2>1, <2>3, PatchRows, DeferRows DEF SettleRunning, Settling, Terminate, Settled
  <2>4. CASE SettleDegraded(w)
    BY <2>1, <2>4, PatchRows DEF SettleDegraded, Settling, Terminate, Settled
  <2>5. CASE ReadBudget(w)
    BY <2>1, <2>5 DEF ReadBudget
  <2>6. CASE SettleFailed(w)
    BY <2>1, <2>6, PatchRows DEF SettleFailed, Fail, Settled
  <2> QED BY <1>3, <2>2, <2>3, <2>4, <2>5, <2>6 DEF Settle
<1>4. ASSUME NEW w \in Workers, NEW r \in Results, HandlerReturns(w, r)
      PROVE Honest' /\ Backed'
  <2>1. Honest'
    BY <1>4 DEF HandlerReturns
  <2>2. Backed'
    BY <1>4 DEF HandlerReturns, WorkersOK, Progress
  <2> QED BY <2>1, <2>2
<1>5. ASSUME NEW w \in Workers, Apply(w) \/ Abandon(w) PROVE Honest' /\ Backed'
  BY <1>5, TakenOK DEF Apply, Abandon, WorkersOK
<1>6. ASSUME NEW w \in Workers, Reap(w) PROVE Honest' /\ Backed'
  BY <1>6, ReapRows DEF Reap
<1>7. CASE Clock
  BY <1>7, TickRows DEF Clock
<1> QED BY <1>1, <1>2, <1>3, <1>4, <1>5, <1>6, <1>7 DEF Next, Untimed, WorkerStep

LEMMA BackedHolds == Spec => [](Honest /\ Backed)
<1>1. WorkerInit => Honest /\ Backed
  BY DEF WorkerInit, QueueInit, NoRow, Tick0, Honest, Backed
<1>2. TypeOK /\ Honest /\ Backed /\ [Next]_workerVars => Honest' /\ Backed'
  <2>1. TypeOK /\ Honest /\ Backed /\ Next => Honest' /\ Backed'
    BY HonestStep, TypeOKParts
  <2>2. Honest /\ Backed /\ UNCHANGED workerVars => Honest' /\ Backed'
    BY DEF workerVars, Honest, Backed
  <2> QED BY <2>1, <2>2
<1> QED BY <1>1, <1>2, TypeCorrect, PTL DEF Spec

\* Whatever stale calls, crashes and reaps happen, a job is recorded succeeded
\* only if one of its handlers reported success.
THEOREM Honesty == Spec => []Honest
BY BackedHolds, PTL

\* Migration 0028's promise, also for a caller whose lease lapsed long ago:
\* deferring a settled job never makes it live again.
THEOREM DeferSafety == Spec => DeferNeverResurrects
<1>1. TypeOK /\ [Next]_workerVars =>
        [\A w \in Workers :
           SettleRunning(w) /\ job[wk[w].job].state \in Terminal
             => job'[wk[w].job].state \in Terminal]_workerVars
  <2> SUFFICES ASSUME TypeOK, NEW w \in Workers, SettleRunning(w),
                      job[wk[w].job].state \in Terminal
               PROVE  job'[wk[w].job].state \in Terminal
    OBVIOUS
  <2>1. RowsOK /\ wk[w].job \in Jobs
    BY TypeOKParts DEF WorkersOK, SettleRunning, Settling
  <2>2. CASE Terminate(wk[w].job)
    BY <2>1, <2>2, PatchRows DEF Terminate, Terminal
  <2>3. CASE Defer(wk[w].job)
    BY <2>1, <2>3, DeferRows DEF Terminal
  <2> QED BY <2>2, <2>3 DEF SettleRunning
<1> QED BY <1>1, TypeCorrect, PTL DEF Spec, DeferNeverResurrects

-----------------------------------------------------------------------------
(* While no reap reaches a live worker, the job it holds stays its own.      *)

\* A reap in this state takes no job from a worker that is still alive.
SparesLive ==
  \A w \in Workers : Reap(w) => \A v \in Workers : Busy(v) => ~ Expired(wk[v].job)

\* The budget read before the write of a failure is still the row's budget.
BudgetRead ==
  \A w \in Workers : wk[w].pc = "failing" => wk[w].spent = Spent(wk[w].job)

HoldInv == HeldIsRunning /\ OneHolder /\ BudgetLeft /\ BudgetRead

\* While HoldInv holds, settling writes to a row that is running and that no
\* other worker holds.
LEMMA HoldSettle ==
  ASSUME RowsOK, WorkersOK, HoldInv, NEW w \in Workers, Settle(w)
  PROVE  /\ HoldInv'
         /\ job[wk[w].job].state = "running"
         /\ \A k \in Jobs : k # wk[w].job => job'[k] = job[k]
<1> DEFINE j == wk[w].job
<1>1. Busy(w) /\ j \in Jobs
  BY DEF Settle, SettleSucceeded, SettleRunning, SettleDegraded, ReadBudget,
         SettleFailed, Settling, Busy, WorkersOK
<1>2. /\ job[j].state = "running"
      /\ \A v \in Workers : v # w /\ Busy(v) => wk[v].job # j
      /\ job[j].attempts \in 0..MaxAttempts
  BY <1>1 DEF HoldInv, HeldIsRunning, OneHolder, RowsOK, Row
<1>3. /\ \A v \in Workers : v # w => wk'[v] = wk[v]
      /\ wk'[w].job = j
      /\ wk'[w].pc = "applying" \/ (ReadBudget(w) /\ job' = job)
      /\ \A k \in Jobs : k # j => job'[k] = job[k]
      /\ job'[j].state = "queued" => job'[j].attempts < MaxAttempts
  <2>1. CASE SettleSucceeded(w)
    BY <1>1, <2>1, PatchRows DEF SettleSucceeded, Complete, Settled, WorkersOK, Progress
  <2>2. CASE SettleRunning(w)
    <3>1. CASE Terminate(j)
      BY <1>1, <2>2, <3>1, PatchRows DEF SettleRunning, Terminate, Settled, WorkersOK, Progress
    <3>2. CASE Defer(j)
      <4>1. /\ job'[j].attempts = Refund(job[j].attempts)
            /\ \A k \in Jobs : k # j => job'[k] = job[k]
        BY <1>1, <1>2, <3>2, DeferRows
      <4>2. Refund(job[j].attempts) < MaxAttempts
        BY <1>2, QueueAssumption DEF Refund, QueueAssumption
      <4> QED BY <2>2, <4>1, <4>2 DEF SettleRunning, Settled, WorkersOK, Progress
    <3> QED BY <2>2, <3>1, <3>2 DEF SettleRunning
  <2>3. CASE SettleDegraded(w)
    BY <1>1, <2>3, PatchRows DEF SettleDegraded, Terminate, Settled, WorkersOK, Progress
  <2>4. CASE ReadBudget(w)
    BY <1>2, <2>4 DEF ReadBudget, WorkersOK, Progress
  <2>5. CASE SettleFailed(w)
    <3>1. ~ wk[w].spent => ~ Spent(j)
      BY <2>5 DEF SettleFailed, HoldInv, BudgetRead
    <3>2. /\ job'[j].state = (IF wk[w].spent THEN "failed" ELSE "queued")
          /\ job'[j].attempts = job[j].attempts
          /\ \A k \in Jobs : k # j => job'[k] = job[k]
      BY <1>1, <2>5, PatchRows DEF SettleFailed, Fail
    <3>3. job'[j].state = "queued" => ~ wk[w].spent
      BY <3>2
    <3>4. job'[j].state = "queued" => job'[j].attempts < MaxAttempts
      BY <1>2, <3>1, <3>2, <3>3, QueueAssumption DEF QueueAssumption, Spent
    <3> QED BY <2>5, <3>2, <3>4 DEF SettleFailed, Settled, WorkersOK, Progress
  <2> QED BY <2>1, <2>2, <2>3, <2>4, <2>5 DEF Settle
<1>4. \A v \in Workers : Busy(v)' => /\ Busy(v) /\ wk'[v].job = wk[v].job
                                     /\ job'[wk[v].job] = job[wk[v].job]
  BY <1>1, <1>2, <1>3 DEF Busy, WorkersOK
<1>5. HeldIsRunning' /\ OneHolder'
  BY <1>4 DEF HoldInv, HeldIsRunning, OneHolder
<1>6. BudgetLeft'
  BY <1>3 DEF HoldInv, BudgetLeft
<1>7. BudgetRead'
  <2>1. ASSUME NEW v \in Workers, wk'[v].pc = "failing", v # w
        PROVE  wk'[v].spent = Spent(wk[v].job)'
    BY <1>3, <1>4, <2>1 DEF HoldInv, BudgetRead, Spent, Busy
  <2>2. ASSUME wk'[w].pc = "failing" PROVE wk'[w].spent = Spent(wk[w].job)'
    BY <1>3, <2>2 DEF ReadBudget, Spent, WorkersOK, Progress
  <2> QED BY <1>3, <2>1, <2>2 DEF BudgetRead, Spent
<1> QED BY <1>2, <1>3, <1>5, <1>6, <1>7 DEF HoldInv

\* HoldInv is inductive as long as the reaper spares live workers, and then no
\* step touches a settled row.
LEMMA HoldStep ==
  ASSUME RowsOK, WorkersOK, HoldInv, SparesLive, Next
  PROVE  /\ HoldInv'
         /\ \A k \in Jobs : job[k].state \in Terminal => job'[k].state = job[k].state
<1> DEFINE Final == \A k \in Jobs : job[k].state \in Terminal => job'[k].state = job[k].state
<1>0. \A v \in Workers : Busy(v) => wk[v].job \in Jobs
  BY DEF Busy, WorkersOK
<1>1. ASSUME NEW j \in Jobs, Submit(j) PROVE HoldInv' /\ Final
  <2>1. \A k \in Jobs : \/ job'[k] = job[k]
                        \/ /\ job[k].state = "absent" /\ job'[k].state = "queued"
                           /\ job'[k].attempts = 0
    BY <1>1, EnqueueRows DEF Submit
  <2>2. wk' = wk
    BY <1>1 DEF Submit
  <2>3. \A v \in Workers : Busy(v) => job'[wk[v].job] = job[wk[v].job]
    BY <1>0, <2>1 DEF HoldInv, HeldIsRunning
  <2>4. HeldIsRunning' /\ OneHolder' /\ BudgetRead'
    BY <2>2, <2>3 DEF HoldInv, HeldIsRunning, OneHolder, BudgetRead, Busy, Spent
  <2>5. BudgetLeft'
    BY <2>1, QueueAssumption DEF HoldInv, BudgetLeft, QueueAssumption
  <2> QED BY <2>1, <2>4, <2>5 DEF HoldInv, Terminal
<1>2. ASSUME NEW w \in Workers, Claim(w) PROVE HoldInv' /\ Final
  <2>1. PICK j \in Jobs : ClaimOldest(j) /\ wk' = [wk EXCEPT ![w] = Taken(j)]
    BY <1>2 DEF Claim
  <2>2. /\ job[j].state = "queued" /\ job'[j].state = "running"
        /\ \A k \in Jobs : k # j => job'[k] = job[k]
    BY <2>1, ClaimRows
  <2>3. wk'[w] = Taken(j) /\ \A v \in Workers : v # w => wk'[v] = wk[v]
    BY <2>1 DEF WorkersOK
  <2>4. \A v \in Workers : Busy(v) => wk[v].job # j
    BY <2>2 DEF HoldInv, HeldIsRunning
  <2>5. HeldIsRunning'
    BY <1>0, <2>2, <2>3, <2>4, TakenOK, QueueAssumption
       DEF HoldInv, HeldIsRunning, Busy, QueueAssumption
  <2>6. OneHolder'
    BY <1>0, <2>3, <2>4, TakenOK DEF HoldInv, OneHolder, Busy
  <2>7. BudgetLeft'
    BY <2>2 DEF HoldInv, BudgetLeft
  <2>8. BudgetRead'
    BY <1>0, <2>2, <2>3, <2>4, TakenOK DEF HoldInv, BudgetRead, Busy, Spent
  <2> QED BY <2>2, <2>5, <2>6, <2>7, <2>8 DEF HoldInv, Terminal
<1>3. ASSUME NEW w \in Workers, Settle(w) PROVE HoldInv' /\ Final
  BY <1>3, HoldSettle DEF Terminal
<1>4. ASSUME NEW w \in Workers, NEW r \in Results, HandlerReturns(w, r)
      PROVE HoldInv' /\ Final
  <2>1. /\ Busy(w) /\ wk'[w].job = wk[w].job /\ wk'[w].pc = "settling" /\ job' = job
        /\ \A v \in Workers : v # w => wk'[v] = wk[v]
    BY <1>4 DEF HandlerReturns, Busy, WorkersOK, Progress
  <2> QED BY <2>1 DEF HoldInv, HeldIsRunning, OneHolder, BudgetLeft, BudgetRead, Busy, Spent
<1>5. ASSUME NEW w \in Workers, Apply(w) \/ Abandon(w) PROVE HoldInv' /\ Final
  <2>1. wk'[w] = Tick0 /\ job' = job /\ \A v \in Workers : v # w => wk'[v] = wk[v]
    BY <1>5 DEF Apply, Abandon, WorkersOK
  <2> QED BY <2>1, TakenOK
          DEF HoldInv, HeldIsRunning, OneHolder, BudgetLeft, BudgetRead, Busy, Spent
<1>6. ASSUME NEW w \in Workers, Reap(w) PROVE HoldInv' /\ Final
  <2>1. wk' = wk
    BY <1>6 DEF Reap
  <2>2. \A k \in Jobs : \/ job'[k] = job[k]
                        \/ /\ Expired(k)
                           /\ job'[k].attempts = job[k].attempts
                           /\ job'[k].state = IF job[k].attempts >= MaxAttempts
                                              THEN "failed" ELSE "queued"
    BY <1>6, ReapRows DEF Reap
  <2>3. \A v \in Workers : Busy(v) => ~ Expired(wk[v].job)
    BY <1>6 DEF SparesLive
  <2>4. \A v \in Workers : Busy(v) => job'[wk[v].job] = job[wk[v].job]
    BY <1>0, <2>2, <2>3
  <2>5. HeldIsRunning' /\ OneHolder' /\ BudgetRead'
    BY <2>1, <2>4 DEF HoldInv, HeldIsRunning, OneHolder, BudgetRead, Busy, Spent
  <2>6. \A k \in Jobs : job[k].attempts \in Int
    BY QueueAssumption DEF RowsOK, Row, QueueAssumption
  <2>7. BudgetLeft'
    BY <2>2, <2>6, QueueAssumption DEF HoldInv, BudgetLeft, QueueAssumption
  <2> QED BY <2>2, <2>5, <2>7 DEF HoldInv, Expired, Terminal
<1>7. CASE Clock
  <2>1. wk' = wk /\ \A k \in Jobs : /\ job'[k].state = job[k].state
                                    /\ job'[k].attempts = job[k].attempts
    BY <1>7, TickRows DEF Clock
  <2>2. HeldIsRunning'
    BY <1>0, <2>1 DEF HoldInv, HeldIsRunning, Busy
  <2>3. OneHolder' /\ BudgetLeft'
    BY <2>1 DEF HoldInv, OneHolder, BudgetLeft, Busy
  <2>4. BudgetRead'
    BY <1>0, <2>1 DEF HoldInv, BudgetRead, Busy, Spent
  <2> QED BY <2>1, <2>2, <2>3, <2>4 DEF HoldInv
<1> QED BY <1>1, <1>2, <1>3, <1>4, <1>5, <1>6, <1>7 DEF Next, Untimed, WorkerStep


\* HoldInv holds before anything is enqueued, and while nothing happens.
LEMMA HoldUnchanged == HoldInv /\ UNCHANGED workerVars => HoldInv'
BY DEF workerVars, HoldInv, HeldIsRunning, OneHolder, BudgetLeft, BudgetRead, Busy, Spent

LEMMA HoldInit == WorkerInit => HoldInv
BY DEF WorkerInit, QueueInit, NoRow, Tick0, HoldInv, HeldIsRunning, OneHolder,
       BudgetLeft, BudgetRead, Busy

-----------------------------------------------------------------------------
(* The system in which no lease lapses on a live worker.                   *)

\* The lease of a held job has time left, so the reaper cannot reach it.
HeldLease == \A w \in Workers : Busy(w) => job[wk[w].job].lease >= 1

TimelyInv == HoldInv /\ HeldLease

\* The timely system is the system with a stricter clock.
LEMMA TimelyIsSpec == TimelySpec => Spec
<1>1. [TimelyNext]_workerVars => [Next]_workerVars
  BY DEF TimelyNext, TimelyClock, Next
<1> QED BY <1>1, PTL DEF TimelySpec, Spec

LEMMA TimelySpares == TimelyInv => SparesLive
BY DEF TimelyInv, HeldLease, SparesLive, Expired

\* A lease is written in full by the claim, and outlives every timely tick.
LEMMA LeaseStep ==
  ASSUME RowsOK, WorkersOK, TimelyInv, TimelyNext
  PROVE  HeldLease'
<1>0. \A v \in Workers : Busy(v) => wk[v].job \in Jobs
  BY DEF Busy, WorkersOK
<1> DEFINE Kept == \A v \in Workers : Busy(v)' => /\ Busy(v) /\ wk'[v].job = wk[v].job
                                                  /\ job'[wk[v].job].lease = job[wk[v].job].lease
<1>1. ASSUME NEW j \in Jobs, Submit(j) PROVE Kept
  BY <1>0, <1>1, EnqueueRows DEF Submit, Enqueue, TimelyInv, HoldInv, HeldIsRunning, Busy
<1>2. ASSUME NEW w \in Workers, Claim(w) PROVE HeldLease'
  <2>1. PICK j \in Jobs : ClaimOldest(j) /\ wk' = [wk EXCEPT ![w] = Taken(j)]
    BY <1>2 DEF Claim
  <2>2. /\ job[j].state = "queued" /\ job'[j].lease = LeaseTicks
        /\ \A k \in Jobs : k # j => job'[k] = job[k]
    BY <2>1, ClaimRows
  <2>3. wk'[w] = Taken(j) /\ \A v \in Workers : v # w => wk'[v] = wk[v]
    BY <2>1 DEF WorkersOK
  <2>4. \A v \in Workers : Busy(v) => wk[v].job # j
    BY <2>2 DEF TimelyInv, HoldInv, HeldIsRunning
  <2> QED BY <1>0, <2>2, <2>3, <2>4, TakenOK, QueueAssumption
          DEF TimelyInv, HeldLease, Busy, QueueAssumption
<1>3. ASSUME NEW w \in Workers, Settle(w) PROVE Kept
  <2>1. /\ \A k \in Jobs : k # wk[w].job => job'[k] = job[k]
        /\ \A v \in Workers : v # w => wk'[v] = wk[v]
        /\ Busy(w) /\ OneHolder
        /\ wk'[w].pc = "applying" \/ (ReadBudget(w) /\ wk'[w].job = wk[w].job)
    BY <1>3, HoldSettle DEF TimelyInv, HoldInv, Settle, SettleSucceeded, SettleRunning, SettleDegraded,
       ReadBudget, SettleFailed, Settling, Settled, Busy, WorkersOK, Progress
  <2> QED BY <1>0, <2>1 DEF Busy, OneHolder, ReadBudget
<1>4. ASSUME NEW w \in Workers, NEW r \in Results, HandlerReturns(w, r) PROVE Kept
  BY <1>4 DEF HandlerReturns, Busy, WorkersOK, Progress
<1>5. ASSUME NEW w \in Workers, Apply(w) \/ Abandon(w) PROVE Kept
  BY <1>5, TakenOK DEF Apply, Abandon, Busy, WorkersOK
<1>6. ASSUME NEW w \in Workers, Reap(w) PROVE Kept
  BY <1>0, <1>6, ReapRows, TimelySpares DEF Reap, SparesLive, Busy
<1>7. CASE TimelyClock
  BY <1>0, <1>7, TickRows DEF TimelyClock, Clock, HeldLease, Busy
<1>8. Kept => HeldLease'
  BY DEF TimelyInv, HeldLease
<1> QED BY <1>1, <1>2, <1>3, <1>4, <1>5, <1>6, <1>7, <1>8 DEF TimelyNext, Untimed, WorkerStep

\* TimelyInv holds from the start and is kept by every timely step, and no
\* timely step touches a settled row.
LEMMA TimelyStep ==
  ASSUME TypeOK, TimelyInv, [TimelyNext]_workerVars
  PROVE  /\ TimelyInv'
         /\ [\A j \in Jobs : job[j].state \in Terminal
               => job'[j].state = job[j].state]_workerVars
<1>1. CASE TimelyNext
  <2>1. RowsOK /\ WorkersOK /\ HoldInv /\ SparesLive /\ Next
    BY <1>1, TypeOKParts, TimelySpares DEF TimelyInv, TimelyNext, TimelyClock, Next
  <2> QED BY <1>1, <2>1, HoldStep, LeaseStep DEF TimelyInv
<1>2. CASE UNCHANGED workerVars
  BY <1>2, HoldUnchanged DEF workerVars, TimelyInv, HeldLease, Busy
<1> QED BY <1>1, <1>2

LEMMA TimelyInvHolds == TimelySpec => []TimelyInv
<1>1. WorkerInit => TimelyInv
  BY HoldInit DEF WorkerInit, Tick0, TimelyInv, HeldLease, Busy
<1>2. TypeOK /\ TimelyInv /\ [TimelyNext]_workerVars => TimelyInv'
  BY TimelyStep
<1> QED BY <1>1, <1>2, TimelyIsSpec, TypeCorrect, PTL DEF TimelySpec

\* While no lease lapses on a live worker, a job is in the hands of one worker
\* at a time and is neither requeued nor settled by anybody else meanwhile.
THEOREM TimelyExclusion == TimelySpec => []Exclusive
<1>1. TimelyInv => Exclusive
  BY DEF TimelyInv, HoldInv, Exclusive
<1> QED BY <1>1, TimelyInvHolds, PTL

\* While no lease lapses on a live worker, no job is left waiting with its
\* budget spent: crashes, failures and reaps never wedge it.
THEOREM TimelyBudget == TimelySpec => []BudgetLeft
<1>1. TimelyInv => BudgetLeft
  BY DEF TimelyInv, HoldInv
<1> QED BY <1>1, TimelyInvHolds, PTL

\* While no lease lapses on a live worker, the first outcome of a job is its
\* last.
THEOREM TimelyFinal == TimelySpec => SettledIsFinal
<1>1. TypeOK /\ TimelyInv /\ [TimelyNext]_workerVars =>
        [\A j \in Jobs : job[j].state \in Terminal
           => job'[j].state = job[j].state]_workerVars
  BY TimelyStep
<1> QED BY <1>1, TimelyInvHolds, TimelyIsSpec, TypeCorrect, PTL
        DEF TimelySpec, SettledIsFinal

-----------------------------------------------------------------------------
(* A single worker process: whatever its leases do, nobody else reaps, and *)
(* it reaps only between ticks.                                            *)

OneWorker == \A v, w \in Workers : v = w

LEMMA SoloSpares == OneWorker => SparesLive
BY DEF OneWorker, SparesLive, Reap, Busy

LEMMA SoloStep ==
  ASSUME OneWorker, TypeOK, HoldInv, [Next]_workerVars
  PROVE  /\ HoldInv'
         /\ [\A j \in Jobs : job[j].state \in Terminal
               => job'[j].state = job[j].state]_workerVars
<1>1. CASE Next
  BY <1>1, TypeOKParts, SoloSpares, HoldStep
<1>2. CASE UNCHANGED workerVars
  BY <1>2, HoldUnchanged
<1> QED BY <1>1, <1>2

LEMMA SoloInvHolds == ASSUME OneWorker PROVE Spec => []HoldInv
<1>1. TypeOK /\ HoldInv /\ [Next]_workerVars => HoldInv'
  BY SoloStep
<1> QED BY <1>1, HoldInit, TypeCorrect, PTL DEF Spec

\* One worker process needs no timely clock: even when leases lapse in its
\* hands, the job it carries stays its own, no job is left waiting with its
\* budget spent, and a settled job is settled for good.
THEOREM SoloSafety ==
  ASSUME OneWorker
  PROVE  Spec => [](Exclusive /\ BudgetLeft) /\ SettledIsFinal
<1>1. HoldInv => Exclusive /\ BudgetLeft
  BY DEF HoldInv, Exclusive
<1>2. TypeOK /\ HoldInv /\ [Next]_workerVars =>
        [\A j \in Jobs : job[j].state \in Terminal
           => job'[j].state = job[j].state]_workerVars
  BY SoloStep
<1> QED BY <1>1, <1>2, SoloInvHolds, TypeCorrect, PTL DEF Spec, SettledIsFinal

-----------------------------------------------------------------------------
(* The contract.  A running row was charged the attempt its claim spent,   *)
(* so what is charged of a job is what its row counts, less one while it   *)
(* runs; a job is in the hands of whoever carries it.                      *)

Charged == \A j \in Jobs : job[j].state = "running" => job[j].attempts >= 1

Carries(k, w, j) == k[w].pc \in {"handling", "settling", "failing"} /\ k[w].job = j

CarrierIn(k, j) ==
  IF \E w \in Workers : Carries(k, w, j) THEN CHOOSE w \in Workers : Carries(k, w, j) ELSE Nobody

LEMMA CarrierIs ==
  ASSUME NEW k, NEW j, \A v, w \in Workers : Carries(k, v, j) /\ Carries(k, w, j) => v = w
  PROVE  /\ \A w \in Workers : Carries(k, w, j) => CarrierIn(k, j) = w
         /\ (\A w \in Workers : ~ Carries(k, w, j)) => CarrierIn(k, j) = Nobody
<1>1. ASSUME NEW w \in Workers, Carries(k, w, j) PROVE CarrierIn(k, j) = w
  <2>1. CarrierIn(k, j) \in Workers /\ Carries(k, CarrierIn(k, j), j)
    BY <1>1 DEF CarrierIn
  <2> QED BY <1>1, <2>1
<1>2. ASSUME \A w \in Workers : ~ Carries(k, w, j) PROVE CarrierIn(k, j) = Nobody
  BY <1>2 DEF CarrierIn
<1> QED BY <1>1, <1>2

LEMMA HolderIsCarrier ==
  /\ \A j \in Jobs : HolderOf(j) = CarrierIn(wk, j) /\ HolderOf(j)' = CarrierIn(wk', j)
  /\ \A w \in Workers, j \in Jobs : Carries(wk, w, j) <=> Busy(w) /\ wk[w].job = j
BY DEF HolderOf, CarrierIn, Carries, Busy

\* The job itself, as the contract sees it, and what a step leaves alone.
Unseen(j) == PhaseOf(j)' = PhaseOf(j) /\ SpentOf(j)' = SpentOf(j)
SameHands(j) == \A w \in Workers : Carries(wk', w, j) <=> Carries(wk, w, j)

LEMMA SameHolder ==
  ASSUME OneHolder, OneHolder', NEW j \in Jobs, SameHands(j)
  PROVE  HolderOf(j)' = HolderOf(j)
<1>1. \A v, w \in Workers : Carries(wk, v, j) /\ Carries(wk, w, j) => v = w
  BY DEF OneHolder, Carries, Busy
<1>2. \A v, w \in Workers : Carries(wk', v, j) /\ Carries(wk', w, j) => v = w
  BY <1>1 DEF SameHands
<1>3. CASE \E w \in Workers : Carries(wk, w, j)
  <2>1. PICK w \in Workers : Carries(wk, w, j)
    BY <1>3
  <2>2. CarrierIn(wk, j) = w
    BY <1>1, <2>1, CarrierIs
  <2>3. CarrierIn(wk', j) = w
    BY <1>2, <2>1, CarrierIs DEF SameHands
  <2> QED BY <2>2, <2>3, HolderIsCarrier
<1>4. CASE \A w \in Workers : ~ Carries(wk, w, j)
  <2>1. CarrierIn(wk, j) = Nobody
    BY <1>1, <1>4, CarrierIs
  <2>2. CarrierIn(wk', j) = Nobody
    BY <1>2, <1>4, CarrierIs DEF SameHands
  <2> QED BY <2>1, <2>2, HolderIsCarrier
<1> QED BY <1>3, <1>4

\* Who holds a job, and that nobody does.
LEMMA HeldBy ==
  ASSUME OneHolder, NEW w \in Workers, Busy(w), wk[w].job \in Jobs
  PROVE  HolderOf(wk[w].job) = w /\ w # Nobody
<1> DEFINE j == wk[w].job
<1>1. \A v, u \in Workers : Carries(wk, v, j) /\ Carries(wk, u, j) => v = u
  BY DEF OneHolder, Carries, Busy
<1>2. Carries(wk, w, j)
  BY DEF Carries, Busy
<1>3. CarrierIn(wk, j) = w
  BY <1>1, <1>2, CarrierIs
<1> QED BY <1>3, HolderIsCarrier, NobodyAssumption

LEMMA Unheld ==
  ASSUME NEW j \in Jobs
  PROVE  /\ (\A w \in Workers : ~ Carries(wk, w, j)) => HolderOf(j) = Nobody
         /\ (\A w \in Workers : ~ Carries(wk', w, j)) => HolderOf(j)' = Nobody
<1>1. (\A w \in Workers : ~ Carries(wk, w, j)) => CarrierIn(wk, j) = Nobody
  BY DEF CarrierIn
<1>2. (\A w \in Workers : ~ Carries(wk', w, j)) => CarrierIn(wk', j) = Nobody
  BY DEF CarrierIn
<1> QED BY <1>1, <1>2, HolderIsCarrier

\* A step the contract does not see.
LEMMA StutterSeen ==
  ASSUME OneHolder, OneHolder', said' = said, \A j \in Jobs : Unseen(j) /\ SameHands(j)
  PROVE  UNCHANGED Promise!contractVars
<1>1. \A j \in Jobs : HolderOf(j)' = HolderOf(j)
  BY SameHolder
<1> QED BY <1>1 DEF Unseen, Promise!contractVars

\* A step about job j, of which the contract sees phase p, charge n and holder h.
Sees(j, p, n, h) ==
  /\ [k \in Jobs |-> PhaseOf(k)]' = [[k \in Jobs |-> PhaseOf(k)] EXCEPT ![j] = p]
  /\ [k \in Jobs |-> SpentOf(k)]' = [[k \in Jobs |-> SpentOf(k)] EXCEPT ![j] = n]
  /\ [k \in Jobs |-> HolderOf(k)]' = [[k \in Jobs |-> HolderOf(k)] EXCEPT ![j] = h]

LEMMA OneJobSeen ==
  ASSUME OneHolder, OneHolder', NEW j \in Jobs, NEW p, NEW n, NEW h,
         \A k \in Jobs \ {j} : Unseen(k) /\ SameHands(k),
         PhaseOf(j)' = p, SpentOf(j)' = n, HolderOf(j)' = h
  PROVE  Sees(j, p, n, h)
<1>1. \A k \in Jobs \ {j} : HolderOf(k)' = HolderOf(k)
  BY SameHolder
<1> QED BY <1>1 DEF Unseen, Sees

LEMMA ChargedStep ==
  ASSUME RowsOK, WorkersOK, Charged, Next
  PROVE  Charged'
<1>1. ASSUME NEW j \in Jobs, Submit(j) PROVE Charged'
  BY <1>1, EnqueueRows DEF Submit, Charged
<1>2. ASSUME NEW w \in Workers, Claim(w) PROVE Charged'
  <2>1. PICK j \in Jobs : ClaimOldest(j)
    BY <1>2 DEF Claim
  <2>2. job[j].attempts \in Nat
    BY QueueAssumption DEF RowsOK, Row, QueueAssumption
  <2> QED BY <2>1, <2>2, ClaimRows DEF Charged
<1>3. ASSUME NEW w \in Workers, Settle(w) PROVE Charged'
  <2>1. wk[w].job \in Jobs
    BY <1>3 DEF Settle, SettleSucceeded, SettleRunning, SettleDegraded, ReadBudget,
                SettleFailed, Settling, WorkersOK
  <2>2. CASE \E s \in {"queued", "succeeded", "failed"} : Patch(wk[w].job, s)
    BY <2>1, <2>2, PatchRows DEF Charged
  <2>3. CASE Defer(wk[w].job)
    BY <2>1, <2>3, DeferRows DEF Charged
  <2>4. CASE UNCHANGED job
    BY <2>4 DEF Charged
  <2> QED BY <1>3, <2>2, <2>3, <2>4 DEF Settle, SettleSucceeded, SettleRunning, SettleDegraded,
             ReadBudget, SettleFailed, Complete, Terminate, Fail
<1>4. ASSUME NEW w \in Workers,
             (\E r \in Results : HandlerReturns(w, r)) \/ Apply(w) \/ Abandon(w)
      PROVE Charged'
  BY <1>4 DEF HandlerReturns, Apply, Abandon, Charged
<1>5. ASSUME NEW w \in Workers, Reap(w) PROVE Charged'
  BY <1>5, ReapRows DEF Reap, Charged
<1>6. CASE Clock
  BY <1>6, TickRows DEF Clock, Charged
<1> QED BY <1>1, <1>2, <1>3, <1>4, <1>5, <1>6 DEF Next, Untimed, WorkerStep

\* Settling ends the job, puts it back, or charges it; a worker that stops lets go.
LEMMA SettleSeen ==
  ASSUME RowsOK, WorkersOK, Exclusive, Exclusive', BudgetRead, Charged, Backed,
         NEW w \in Workers, Settle(w) \/ Abandon(w), Busy(w), NEW j \in Jobs, wk[w].job = j
  PROVE  [Promise!ContractNext]_(Promise!contractVars)
<1>1. /\ j \in Jobs /\ OneHolder /\ OneHolder' /\ wk \in [Workers -> Progress]
      /\ job[j].state = "running" /\ job[j].attempts \in 1..MaxAttempts
  BY QueueAssumption DEF WorkersOK, Busy, Exclusive, HeldIsRunning, RowsOK, Row, QueueAssumption, Charged
<1>2. /\ \A v \in Workers : v # w => wk'[v] = wk[v]
      /\ wk'[w].pc = "applying" \/ wk'[w].pc = "idle" \/ (ReadBudget(w) /\ wk'[w].job = j /\ wk'[w].pc = "failing")
      /\ said' = said
  BY <1>1, TakenOK DEF Settle, SettleSucceeded, SettleRunning, SettleDegraded, ReadBudget, SettleFailed, Settled, Abandon, Progress
<1>3. /\ \A k \in Jobs \ {j} : SameHands(k)
      /\ ReadBudget(w) \/ \A v \in Workers : ~ Carries(wk', v, j)
      /\ ReadBudget(w) => SameHands(j)
  <2>1. \A v \in Workers \ {w}, k \in Jobs : Carries(wk', v, k) <=> Carries(wk, v, k)
    BY <1>2 DEF Carries
  <2>2. \A k \in Jobs : Carries(wk, w, k) <=> k = j
    BY DEF Carries, Busy
  <2>3. \A v \in Workers \ {w} : ~ Carries(wk, v, j)
    BY <1>1 DEF Carries, OneHolder, Busy
  <2>4. ReadBudget(w) => \A k \in Jobs : Carries(wk', w, k) <=> k = j
    BY <1>1 DEF Carries, ReadBudget, Progress
  <2>5. ~ ReadBudget(w) => \A k \in Jobs : ~ Carries(wk', w, k)
    BY <1>2 DEF Carries
  <2> QED BY <2>1, <2>2, <2>3, <2>4, <2>5 DEF SameHands
<1>4. HolderOf(j) = w /\ w # Nobody
  BY <1>1, HeldBy
<1>5. PhaseOf(j) = "taken" /\ SpentOf(j) = job[j].attempts - 1
  BY <1>1 DEF PhaseOf, SpentOf
<1>6. Promise!Held(j)
  BY <1>1, <1>4, <1>5 DEF Promise!Held
<1>7. CASE ReadBudget(w)
  <2>1. job' = job
    BY <1>7 DEF ReadBudget
  <2>2. \A k \in Jobs : Unseen(k) /\ SameHands(k)
    BY <1>3, <1>7, <2>1 DEF Unseen, PhaseOf, SpentOf
  <2> QED BY <1>1, <1>2, <2>2, StutterSeen
<1>8. CASE ~ ReadBudget(w)
  <2>1. HolderOf(j)' = Nobody
    BY <1>1, <1>3, <1>8, Unheld
  <2>2. ASSUME \A k \in Jobs \ {j} : Unseen(k), NEW p, NEW n, PhaseOf(j)' = p, SpentOf(j)' = n
        PROVE  Sees(j, p, n, Nobody)
    BY <1>1, <1>3, <2>1, <2>2, OneJobSeen
  <2>3. ASSUME NEW s \in {"succeeded", "failed"}, Patch(j, s), s = "succeeded" => j \in said
        PROVE  Promise!End(j, s)
    <3>1. job'[j].state = s /\ \A k \in Jobs \ {j} : job'[k] = job[k]
      BY <1>1, <2>3, PatchRows
    <3>2. PhaseOf(j)' = s /\ SpentOf(j)' = 0 /\ \A k \in Jobs \ {j} : Unseen(k)
      BY <3>1 DEF PhaseOf, SpentOf, Unseen
    <3> QED BY <1>2, <1>6, <2>2, <2>3, <3>2 DEF Promise!End, Sees
  <2>4. ASSUME Defer(j) PROVE Promise!Poll(j)
    <3>1. /\ job'[j].state = "queued" /\ job'[j].attempts = job[j].attempts - 1
          /\ \A k \in Jobs \ {j} : job'[k] = job[k]
      BY <1>1, <2>4, DeferRows DEF Refund
    <3>2. PhaseOf(j)' = "waiting" /\ SpentOf(j)' = SpentOf(j) /\ \A k \in Jobs \ {j} : Unseen(k)
      BY <1>5, <3>1 DEF PhaseOf, SpentOf, Unseen
    <3>3. [k \in Jobs |-> SpentOf(k)]' = [k \in Jobs |-> SpentOf(k)]
      BY <3>2 DEF Unseen
    <3> QED BY <1>2, <1>6, <2>2, <3>2, <3>3 DEF Promise!Poll, Sees
  <2>5. ASSUME Fail(j, wk[w].spent), wk[w].pc = "failing" PROVE Promise!Retry(j)
    <3>1. wk[w].spent = (job[j].attempts >= MaxAttempts)
      BY <2>5 DEF BudgetRead, Spent
    <3>2. /\ job'[j].state = (IF wk[w].spent THEN "failed" ELSE "queued")
          /\ job'[j].attempts = job[j].attempts /\ \A k \in Jobs \ {j} : job'[k] = job[k]
      BY <1>1, <2>5, PatchRows DEF Fail
    <3>3. /\ PhaseOf(j)' = (IF wk[w].spent THEN "failed" ELSE "waiting")
          /\ SpentOf(j)' = (IF wk[w].spent THEN 0 ELSE job[j].attempts)
          /\ \A k \in Jobs \ {j} : Unseen(k)
      BY <3>2 DEF PhaseOf, SpentOf, Unseen
    <3>4. Promise!LastTry(j) <=> wk[w].spent
      <4>1. [k \in Jobs |-> SpentOf(k)][j] = job[j].attempts - 1
        BY <1>5
      <4>2. wk[w].spent <=> job[j].attempts >= MaxAttempts
        BY <3>1, Zenon
      <4>3. job[j].attempts >= MaxAttempts <=> job[j].attempts - 1 + 1 >= MaxAttempts
        BY <1>1, QueueAssumption DEF QueueAssumption
      <4>4. Promise!LastTry(j) <=> job[j].attempts - 1 + 1 >= MaxAttempts
        BY <4>1 DEF Promise!LastTry
      <4> QED BY <4>2, <4>3, <4>4, Zenon
    <3>5. /\ PhaseOf(j)' = (IF Promise!LastTry(j) THEN "failed" ELSE "waiting")
          /\ SpentOf(j)' = (IF Promise!LastTry(j) THEN 0 ELSE SpentOf(j) + 1)
      BY <1>1, <1>5, <3>3, <3>4
    <3> QED BY <1>1, <1>2, <1>6, <2>2, <3>3, <3>5, ZenonT(60) DEF Promise!Retry, Promise!Charge, Sees
  <2>6. ASSUME Abandon(w) PROVE Promise!Die(j)
    <3>1. \A k \in Jobs : Unseen(k)
      BY <2>6 DEF Abandon, Unseen, PhaseOf, SpentOf
    <3>2. /\ [k \in Jobs |-> PhaseOf(k)]' = [k \in Jobs |-> PhaseOf(k)]
          /\ [k \in Jobs |-> SpentOf(k)]' = [k \in Jobs |-> SpentOf(k)]
      BY <3>1 DEF Unseen
    <3> QED BY <1>2, <1>6, <2>2, <3>1, <3>2 DEF Promise!Die, Sees
  <2>7. \/ \E s \in {"succeeded", "failed"} : Patch(j, s) /\ (s = "succeeded" => j \in said)
        \/ Defer(j)
        \/ Fail(j, wk[w].spent) /\ wk[w].pc = "failing"
        \/ Abandon(w)
    BY <1>8 DEF Settle, SettleSucceeded, SettleRunning, SettleDegraded, SettleFailed, Settling,
           Complete, Terminate, Backed
  <2>8. Promise!ContractNext
    BY <1>1, <2>3, <2>4, <2>5, <2>6, <2>7 DEF Promise!ContractNext, Promise!Ended
  <2> QED BY <2>8
<1> QED BY <1>7, <1>8

\* Claiming is taking: the job waited, nobody carried it and the worker was free.
LEMMA ClaimSeen ==
  ASSUME RowsOK, WorkersOK, Exclusive, Exclusive', NEW w \in Workers, Claim(w)
  PROVE  Promise!ContractNext
<1>1. PICK j \in Jobs : ClaimOldest(j) /\ wk' = [wk EXCEPT ![w] = Taken(j)]
  BY DEF Claim
<1>2. /\ job[j].state = "queued" /\ job'[j].state = "running"
      /\ job'[j].attempts = job[j].attempts + 1
      /\ \A k \in Jobs \ {j} : job'[k] = job[k]
  BY <1>1, ClaimRows
<1>3. /\ OneHolder /\ OneHolder' /\ wk \in [Workers -> Progress] /\ said' = said
      /\ wk[w].pc = "idle" /\ wk'[w] = Taken(j) /\ \A v \in Workers \ {w} : wk'[v] = wk[v]
  BY <1>1 DEF Claim, Exclusive, WorkersOK
<1>4. /\ \A k \in Jobs : ~ Carries(wk, w, k) /\ (Carries(wk', w, k) <=> k = j)
      /\ \A v \in Workers : ~ Carries(wk, v, j)
  <2>1. \A k \in Jobs : ~ Carries(wk, w, k) /\ (Carries(wk', w, k) <=> k = j)
    BY <1>3, TakenOK DEF Carries
  <2>2. \A v \in Workers : ~ Carries(wk, v, j)
    BY <1>2 DEF Carries, Exclusive, HeldIsRunning, Busy
  <2> QED BY <2>1, <2>2
<1>5. \A k \in Jobs \ {j} : Unseen(k) /\ SameHands(k)
  BY <1>2, <1>3, <1>4 DEF Unseen, PhaseOf, SpentOf, SameHands, Carries
<1>6. HolderOf(j)' = w
  <2>1. \A v, u \in Workers : Carries(wk', v, j) /\ Carries(wk', u, j) => v = u
    BY <1>3, <1>4 DEF Carries
  <2>2. CarrierIn(wk', j) = w
    BY <1>4, <2>1, CarrierIs
  <2> QED BY <2>2, HolderIsCarrier
<1>7. PhaseOf(j) = "waiting" /\ PhaseOf(j)' = "taken" /\ SpentOf(j)' = SpentOf(j)
  <2>1. job[j].attempts \in Nat
    BY QueueAssumption DEF RowsOK, Row, QueueAssumption
  <2> QED BY <1>2, <2>1 DEF PhaseOf, SpentOf
<1>8. \A k \in Jobs : HolderOf(k) # w
  <2>1. ASSUME NEW k \in Jobs PROVE CarrierIn(wk, k) # w
    <3>1. CASE \E v \in Workers : Carries(wk, v, k)
      <4>1. Carries(wk, CarrierIn(wk, k), k)
        BY <3>1 DEF CarrierIn
      <4> QED BY <1>4, <4>1
    <3>2. CASE ~ \E v \in Workers : Carries(wk, v, k)
      BY <3>2, NobodyAssumption DEF CarrierIn
    <3> QED BY <3>1, <3>2
  <2> QED BY <2>1, HolderIsCarrier
<1>9. ASSUME NEW p, NEW n, p = "taken", n = SpentOf(j) PROVE Promise!Take(j, w)
  <2>1. Sees(j, p, n, w)
    BY <1>3, <1>5, <1>6, <1>7, <1>9, OneJobSeen
  <2>2. [k \in Jobs |-> SpentOf(k)]' = [k \in Jobs |-> SpentOf(k)]
    BY <1>5, <1>7 DEF Unseen
  <2> QED BY <1>3, <1>7, <1>8, <1>9, <2>1, <2>2 DEF Promise!Take, Sees
<1> QED BY <1>9 DEF Promise!ContractNext

\* A reap that reaches no live worker takes back orphans, all of them at once.
LEMMA ReapSeen ==
  ASSUME RowsOK, WorkersOK, Exclusive, Exclusive', Charged, NEW w \in Workers, Reap(w),
         \A v \in Workers : Busy(v) => ~ Expired(wk[v].job)
  PROVE  Promise!ContractNext
<1> DEFINE S == {k \in Jobs : Expired(k)}
<1>1. /\ OneHolder /\ OneHolder' /\ said' = said /\ \A k \in Jobs : SameHands(k)
      /\ \A k \in Jobs \ S : Unseen(k)
  <2>1. \A k \in Jobs \ S : job'[k] = job[k]
    BY DEF Reap, ReapExpired
  <2> QED BY <2>1 DEF Reap, Exclusive, SameHands, Unseen, PhaseOf, SpentOf
<1>2. \A k \in Jobs : HolderOf(k)' = HolderOf(k)
  BY <1>1, SameHolder
<1>3. S # {}
  BY DEF Reap, ReapExpired
<1>4. Promise!ContractNext
  <2>1. ASSUME NEW k \in S
        PROVE  /\ job[k].state = "running" /\ job[k].attempts \in 1..MaxAttempts
               /\ job'[k].state = (IF job[k].attempts >= MaxAttempts THEN "failed" ELSE "queued")
               /\ job'[k].attempts = job[k].attempts
    <3>1. job[k] \in Row /\ job'[k] = Reaped(job[k])
      BY DEF Reap, ReapExpired, RowsOK
    <3>2. job[k].state = "running" /\ job[k].attempts \in 1..MaxAttempts
      BY <3>1, QueueAssumption DEF Expired, Charged, Row, QueueAssumption
    <3> QED BY <3>1, <3>2, ReapedOK
  <2>2. ASSUME NEW k \in S
        PROVE  /\ PhaseOf(k) = "taken" /\ HolderOf(k) = Nobody /\ SpentOf(k) = job[k].attempts - 1
               /\ PhaseOf(k)' = (IF SpentOf(k) + 1 >= MaxAttempts THEN "failed" ELSE "waiting")
               /\ SpentOf(k)' = (IF SpentOf(k) + 1 >= MaxAttempts THEN 0 ELSE SpentOf(k) + 1)
    <3>1. PhaseOf(k) = "taken" /\ SpentOf(k) = job[k].attempts - 1
      BY <2>1 DEF PhaseOf, SpentOf
    <3>2. HolderOf(k) = Nobody
      <4>1. \A v \in Workers : ~ Carries(wk, v, k)
        BY DEF Carries, Busy
      <4> QED BY <4>1, Unheld
    <3>3. /\ PhaseOf(k)' = (IF job[k].attempts >= MaxAttempts THEN "failed" ELSE "waiting")
          /\ SpentOf(k)' = (IF job[k].attempts >= MaxAttempts THEN 0 ELSE job[k].attempts)
      BY <2>1 DEF PhaseOf, SpentOf
    <3> QED BY <2>1, <3>1, <3>2, <3>3
  <2>3. S \in SUBSET Promise!Orphans
    BY <2>2 DEF Promise!Orphans
  <2>4. \A k \in Jobs : Promise!LastTry(k) <=> SpentOf(k) + 1 >= MaxAttempts
    BY DEF Promise!LastTry
  <2>5. \A k \in Jobs :
          /\ PhaseOf(k)' = (IF k \notin S THEN PhaseOf(k)
                            ELSE IF Promise!LastTry(k) THEN "failed" ELSE "waiting")
          /\ SpentOf(k)' = (IF k \notin S THEN SpentOf(k)
                            ELSE IF Promise!LastTry(k) THEN 0 ELSE SpentOf(k) + 1)
          /\ HolderOf(k)' = (IF k \in S THEN Nobody ELSE HolderOf(k))
    BY <1>1, <1>2, <2>2, <2>4 DEF Unseen
  <2>6. Promise!Charge(S)
    BY <1>1, <2>5 DEF Promise!Charge
  <2>7. Promise!TakeBack
    BY <1>3, <2>3, <2>6 DEF Promise!TakeBack
  <2> QED BY <2>7 DEF Promise!ContractNext
<1> QED BY <1>4

\* Every step is one the contract allows or one it does not see, as long as no
\* reap reaches a worker that is alive.
LEMMA PromiseStep ==
  ASSUME RowsOK, WorkersOK, Exclusive, Exclusive', BudgetRead, Charged, Backed, Next,
         SparesLive
  PROVE  [Promise!ContractNext]_(Promise!contractVars)
<1>0. OneHolder /\ OneHolder' /\ wk \in [Workers -> Progress]
  BY DEF Exclusive, WorkersOK
<1>1. ASSUME NEW j \in Jobs, Submit(j) PROVE [Promise!ContractNext]_(Promise!contractVars)
  <2>1. said' = said /\ \A k \in Jobs : SameHands(k)
    BY <1>1 DEF Submit, SameHands
  <2>2. \A k \in Jobs \ {j} : Unseen(k)
    BY <1>1 DEF Submit, Enqueue, RowsOK, Unseen, PhaseOf, SpentOf
  <2>3. CASE job'[j] = job[j]
    <3>1. \A k \in Jobs : Unseen(k)
      BY <2>2, <2>3 DEF Unseen, PhaseOf, SpentOf
    <3> QED BY <1>0, <2>1, <3>1, StutterSeen
  <2>4. CASE job[j].state = "absent" /\ job'[j].state = "queued" /\ job'[j].attempts = 0
    <3>1. PhaseOf(j) = "absent" /\ PhaseOf(j)' = "waiting" /\ SpentOf(j) = 0 /\ SpentOf(j)' = 0
      BY <2>4 DEF PhaseOf, SpentOf
    <3>2. HolderOf(j)' = HolderOf(j)
      BY <1>0, <2>1, SameHolder
    <3>3. ASSUME NEW p, NEW n, NEW h, p = "waiting", n = 0, h = HolderOf(j) PROVE Promise!Submit(j)
      <4>1. Sees(j, p, n, h)
        BY <1>0, <2>1, <2>2, <3>1, <3>2, <3>3, OneJobSeen
      <4>2. /\ [k \in Jobs |-> SpentOf(k)]' = [k \in Jobs |-> SpentOf(k)]
            /\ [k \in Jobs |-> HolderOf(k)]' = [k \in Jobs |-> HolderOf(k)]
        BY <3>1, <3>3, <4>1 DEF Sees
      <4> QED BY <2>1, <3>1, <3>3, <4>1, <4>2 DEF Promise!Submit, Sees
    <3> QED BY <3>3 DEF Promise!ContractNext
  <2> QED BY <1>1, <2>3, <2>4, EnqueueRows DEF Submit
<1>2. ASSUME NEW w \in Workers, Claim(w) PROVE [Promise!ContractNext]_(Promise!contractVars)
  BY <1>2, ClaimSeen
<1>3. ASSUME NEW w \in Workers, Busy(w), Settle(w) \/ Abandon(w)
      PROVE [Promise!ContractNext]_(Promise!contractVars)
  <2>1. wk[w].job \in Jobs
    BY <1>3 DEF Busy, WorkersOK
  <2> QED BY <1>3, <2>1, SettleSeen
<1>4. ASSUME NEW w \in Workers, NEW r \in Results, HandlerReturns(w, r)
      PROVE [Promise!ContractNext]_(Promise!contractVars)
  <2>1. /\ \A k \in Jobs : Unseen(k) /\ SameHands(k)
        /\ \A k \in Jobs : HolderOf(k)' = HolderOf(k)
    <3>1. \A k \in Jobs : Unseen(k)
      BY <1>4 DEF HandlerReturns, Unseen, PhaseOf, SpentOf
    <3>2. \A k \in Jobs : SameHands(k)
      BY <1>0, <1>4 DEF HandlerReturns, SameHands, Carries, Progress
    <3> QED BY <1>0, <3>1, <3>2, SameHolder
  <2>2. CASE r # "succeeded"
    BY <1>0, <1>4, <2>1, <2>2, StutterSeen DEF HandlerReturns
  <2>3. CASE r = "succeeded"
    <3>1. PICK j \in Jobs : wk[w].job = j
      BY <1>4 DEF HandlerReturns, WorkersOK
    <3>2. Busy(w) /\ job[j].state = "running" /\ HolderOf(j) # Nobody
      BY <1>0, <1>4, <3>1, HeldBy DEF HandlerReturns, Busy, Exclusive, HeldIsRunning
    <3>3. PhaseOf(j) = "taken"
      BY <3>2 DEF PhaseOf
    <3>4. /\ [k \in Jobs |-> PhaseOf(k)]' = [k \in Jobs |-> PhaseOf(k)]
          /\ [k \in Jobs |-> SpentOf(k)]' = [k \in Jobs |-> SpentOf(k)]
          /\ [k \in Jobs |-> HolderOf(k)]' = [k \in Jobs |-> HolderOf(k)]
      BY <2>1 DEF Unseen
    <3>5. said' = said \cup {j}
      BY <1>4, <2>3, <3>1 DEF HandlerReturns
    <3>6. Promise!Report(j)
      BY <3>2, <3>3, <3>4, <3>5 DEF Promise!Report, Promise!Held
    <3> QED BY <3>6 DEF Promise!ContractNext
  <2> QED BY <2>2, <2>3
<1>5. ASSUME NEW w \in Workers, ~ Busy(w), Apply(w) \/ Abandon(w)
      PROVE [Promise!ContractNext]_(Promise!contractVars)
  <2>1. \A k \in Jobs : Unseen(k) /\ SameHands(k)
    BY <1>0, <1>5, TakenOK DEF Apply, Abandon, Unseen, PhaseOf, SpentOf, SameHands, Carries, Busy
  <2> QED BY <1>0, <1>5, <2>1, StutterSeen DEF Apply, Abandon
<1>6. ASSUME NEW w \in Workers, Reap(w) PROVE [Promise!ContractNext]_(Promise!contractVars)
  BY <1>6, ReapSeen DEF SparesLive
<1>7. CASE Clock
  <2>1. \A k \in Jobs : Unseen(k) /\ SameHands(k)
    BY <1>7, TickRows DEF Clock, Unseen, PhaseOf, SpentOf, SameHands
  <2> QED BY <1>0, <1>7, <2>1, StutterSeen DEF Clock
<1>8. \A w \in Workers : /\ Settle(w) => Busy(w)
                         /\ Apply(w) => ~ Busy(w)
  BY DEF Settle, SettleSucceeded, SettleRunning, SettleDegraded, ReadBudget, SettleFailed,
         Settling, Apply, Busy
<1> QED BY <1>1, <1>2, <1>3, <1>4, <1>5, <1>6, <1>7, <1>8 DEF Next, Untimed, WorkerStep

LEMMA ChargedHolds == Spec => []Charged
<1>1. WorkerInit => Charged
  BY DEF WorkerInit, QueueInit, NoRow, Charged
<1>2. TypeOK /\ Charged /\ [Next]_workerVars => Charged'
  <2>1. TypeOK /\ Charged /\ Next => Charged'
    BY ChargedStep, TypeOKParts
  <2>2. Charged /\ UNCHANGED workerVars => Charged'
    BY DEF workerVars, Charged
  <2> QED BY <2>1, <2>2
<1> QED BY <1>1, <1>2, TypeCorrect, PTL DEF Spec

\* Before anything is enqueued nothing has been promised.
LEMMA PromiseInit == WorkerInit => Promise!ContractInit
<1> SUFFICES ASSUME WorkerInit PROVE Promise!ContractInit
  OBVIOUS
<1>1. \A j \in Jobs : job[j].state = "absent" /\ PhaseOf(j) = "absent" /\ SpentOf(j) = 0
  BY DEF WorkerInit, QueueInit, NoRow, PhaseOf, SpentOf
<1>2. \A j \in Jobs : HolderOf(j) = Nobody
  BY DEF WorkerInit, Tick0, HolderOf, Busy
<1> QED BY <1>1, <1>2 DEF WorkerInit, Promise!ContractInit

\* A step of no process is a step the contract does not see.
LEMMA PromiseStutter == UNCHANGED workerVars => UNCHANGED Promise!contractVars
<1> SUFFICES ASSUME UNCHANGED workerVars PROVE UNCHANGED Promise!contractVars
  OBVIOUS
<1>1. job' = job /\ wk' = wk /\ said' = said
  BY DEF workerVars
<1>2. \A j \in Jobs : CarrierIn(wk', j) = CarrierIn(wk, j)
  BY <1>1
<1>3. \A j \in Jobs : HolderOf(j)' = HolderOf(j)
  BY <1>2, HolderIsCarrier
<1>4. \A j \in Jobs : PhaseOf(j)' = PhaseOf(j) /\ SpentOf(j)' = SpentOf(j)
  BY <1>1 DEF PhaseOf, SpentOf
<1> QED BY <1>1, <1>3, <1>4 DEF Promise!contractVars

LEMMA PromiseKept ==
  ASSUME TypeOK, HoldInv, HoldInv', Charged, Backed, SparesLive, [Next]_workerVars
  PROVE  [Promise!ContractNext]_(Promise!contractVars)
<1>1. RowsOK /\ WorkersOK /\ Exclusive /\ Exclusive' /\ BudgetRead
  BY TypeOKParts DEF HoldInv, Exclusive
<1>2. CASE Next
  BY <1>1, <1>2, PromiseStep
<1>3. CASE UNCHANGED workerVars
  BY <1>3, PromiseStutter
<1> QED BY <1>2, <1>3

\* The leased queue and its workers keep the contract of a job queue as long as
\* no lease lapses on a live worker: a job is held by one worker at a time, ends
\* once, as a success only if one was reported, polling costs no budget, and
\* every failure or lost worker costs one attempt.
THEOREM TimelyPromise == TimelySpec => KeepsPromise
<1>1. TypeOK /\ TimelyInv /\ TimelyInv' /\ Charged /\ Backed /\ [TimelyNext]_workerVars
        => [Promise!ContractNext]_(Promise!contractVars)
  BY PromiseKept, TimelySpares DEF TimelyInv, TimelyNext, TimelyClock, Next
<1>2. TimelySpec => [](TypeOK /\ TimelyInv /\ Charged /\ Backed)
  BY TimelyIsSpec, TypeCorrect, TimelyInvHolds, ChargedHolds, BackedHolds, PTL
<1> QED BY <1>1, <1>2, PromiseInit, PTL DEF TimelySpec, KeepsPromise, Promise!Contract

\* A single worker process keeps the contract whatever happens to its leases.
THEOREM SoloPromise ==
  ASSUME OneWorker
  PROVE  Spec => KeepsPromise
<1>1. TypeOK /\ HoldInv /\ HoldInv' /\ Charged /\ Backed /\ [Next]_workerVars
        => [Promise!ContractNext]_(Promise!contractVars)
  BY PromiseKept, SoloSpares
<1>2. Spec => [](TypeOK /\ HoldInv /\ Charged /\ Backed)
  BY TypeCorrect, SoloInvHolds, ChargedHolds, BackedHolds, PTL
<1> QED BY <1>1, <1>2, PromiseInit, PTL DEF Spec, KeepsPromise, Promise!Contract

-----------------------------------------------------------------------------
(***************************************************************************)
(* The inductive invariant.  A handle anybody holds in memory or in a row  *)
(* names a build the engine has, and whoever is about to report, write,    *)
(* promote or bill a success holds one of a finished build.                *)
(***************************************************************************)
Ended(s) == \E i \in 1..Len(s) : s[i] = "finished"

BuildsOK(b) ==
  b \in [Requests -> Seq(BuildStates)] /\ \A d \in Requests : Len(b[d]) <= MaxBuilds

RowsKnown(r, b) ==
  r \in [Requests -> DeploymentRow] /\ \A d \in Requests : r[d].handle <= Len(b[d])

HandOK(h, b) ==
  /\ h \in Hands
  /\ h.pc \notin {"none", "sweep"} => h.dep \in Requests
  /\ h.dep \in Requests => h.handle <= Len(b[h.dep])
  /\ h.pc \in {"poll", "mark", "confirm"} => h.handle # NoBuild
  /\ \A s \in h.todo : s.handle <= Len(b[s.dep])
  /\ h.pc = "write" => h.status # "none" /\ (h.status = "succeeded" => Ended(b[h.dep]))
  /\ h.pc \in {"promote", "bill"} => Ended(b[h.dep])
  /\ h.pc = "promote" => h.dep \notin Staged

\* What worker memory and tick say of each other.
Linked(h, p, b) ==
  /\ p.pc \in {"settling", "failing"} => h.pc = "returned"
  /\ h.pc = "returned" => p.res # "none" /\ (p.res = "succeeded" => Ended(b[h.dep]))

CancelOK(c, b) ==
  /\ c \in [ pc : {"none", "ask", "close", "keep"}, dep : Requests \cup {NoRequest},
             status : InFlight \cup {"none"}, handle : 0..MaxBuilds ]
  /\ c.pc # "none" => /\ c.dep \in Requests /\ c.status \in InFlight
                      /\ c.handle <= Len(b[c.dep])
  /\ c.pc = "ask" => c.handle # NoBuild

HandsOK == /\ hand \in [Workers -> Hands]
           /\ \A w \in Workers : HandOK(hand[w], builds) /\ Linked(hand[w], wk[w], builds)

Ledgers == /\ live \in Requests \cup {NoRequest}
           /\ billed \in [Requests -> 0..Many]
           /\ application \in 0..Many /\ applications \in 0..Many
           /\ asking \subseteq Requests

Told == \A d \in Requests :
          row[d].status = "succeeded" \/ live = d \/ billed[d] > 0 => Ended(builds[d])

PipeInv == /\ BuildsOK(builds) /\ RowsKnown(row, builds) /\ Ledgers
           /\ HandsOK /\ CancelOK(cancel, builds) /\ Told

-----------------------------------------------------------------------------
(* The engine's builds only grow, and what was finished stays finished.    *)

Grows(b, c) == \A d \in Requests :
                 Len(b[d]) <= Len(c[d]) /\ (Ended(b[d]) => Ended(c[d]))

\* What is known of the builds stays known when they grow.
LEMMA GrowthKeeps ==
  ASSUME NEW b, NEW c, BuildsOK(b), BuildsOK(c), Grows(b, c)
  PROVE  /\ \A r : RowsKnown(r, b) => RowsKnown(r, c)
         /\ \A h : HandOK(h, b) => HandOK(h, c)
         /\ \A h, p : HandOK(h, b) /\ Linked(h, p, b) => Linked(h, p, c)
         /\ \A k : CancelOK(k, b) => CancelOK(k, c)
<1>1. \A d \in Requests : Len(b[d]) \in Nat /\ Len(c[d]) \in Nat /\ Len(b[d]) <= Len(c[d])
  BY DEF BuildsOK, Grows
<1>2. ASSUME NEW r, RowsKnown(r, b) PROVE RowsKnown(r, c)
  <2>1. \A d \in Requests : r[d].handle \in 0..MaxBuilds
    BY <1>2 DEF RowsKnown, DeploymentRow
  <2> QED BY <1>1, <1>2, <2>1, DeploymentsAssumption DEF RowsKnown, DeploymentsAssumption
<1>3. ASSUME NEW h, HandOK(h, b) PROVE HandOK(h, c)
  <2>1. h.handle \in 0..MaxBuilds /\ \A s \in h.todo : s.handle \in 0..MaxBuilds /\ s.dep \in Requests
    BY <1>3 DEF HandOK, Hands, Stranded
  <2>2. /\ h.dep \in Requests => h.handle <= Len(c[h.dep])
        /\ \A s \in h.todo : s.handle <= Len(c[s.dep])
    BY <1>1, <1>3, <2>1, DeploymentsAssumption DEF HandOK, DeploymentsAssumption
  <2> QED BY <1>3, <2>2 DEF HandOK, Grows
<1>4. ASSUME NEW h, NEW p, HandOK(h, b), Linked(h, p, b) PROVE Linked(h, p, c)
  BY <1>4 DEF HandOK, Linked, Grows
<1>5. ASSUME NEW k, CancelOK(k, b) PROVE CancelOK(k, c)
  BY <1>1, <1>5, DeploymentsAssumption DEF CancelOK, DeploymentsAssumption
<1> QED BY <1>2, <1>3, <1>4, <1>5

\* A new build is appended as building.
LEMMA NewBuildGrows ==
  ASSUME BuildsOK(builds), NEW d \in Requests, NewBuild(d)
  PROVE  /\ BuildsOK(builds') /\ Grows(builds, builds')
         /\ Len(builds'[d]) = Len(builds[d]) + 1
<1>1. /\ builds[d] \in Seq(BuildStates) /\ Len(builds[d]) < MaxBuilds
      /\ builds' = [builds EXCEPT ![d] = Append(builds[d], "building")]
      /\ "building" \in BuildStates
  BY DEF BuildsOK, NewBuild, CanBuild, BuildStates
<1> DEFINE s == Append(builds[d], "building")
<1>2. /\ s \in Seq(BuildStates) /\ Len(s) = Len(builds[d]) + 1
      /\ \A i \in 1..Len(builds[d]) : s[i] = builds[d][i]
  BY <1>1
<1>3. Ended(builds[d]) => Ended(s)
  BY <1>1, <1>2 DEF Ended
<1>4. builds'[d] = s /\ \A e \in Requests : e # d => builds'[e] = builds[e]
  BY <1>1 DEF BuildsOK
<1>5. \A e \in Requests : Len(builds[e]) \in Nat
  BY DEF BuildsOK
<1> HIDE DEF s
<1>6. Grows(builds, builds')
  BY <1>2, <1>3, <1>4, <1>5 DEF Grows
<1>7. BuildsOK(builds')
  BY <1>1, <1>2, <1>4, <1>5, DeploymentsAssumption DEF BuildsOK, DeploymentsAssumption
<1> QED BY <1>2, <1>4, <1>6, <1>7

\* A build that ends was building, so no finished build is lost.
LEMMA BuildEndsGrows ==
  ASSUME BuildsOK(builds), NEW d \in Requests, NEW i \in 1..Len(builds[d]),
         NEW state \in BuildStates, BuildEnds(d, i, state)
  PROVE  BuildsOK(builds') /\ Grows(builds, builds')
<1> DEFINE s == [builds[d] EXCEPT ![i] = state]
<1>1. /\ builds[d] \in Seq(BuildStates) /\ builds[d][i] = "building"
      /\ builds' = [builds EXCEPT ![d] = s]
  BY DEF BuildsOK, BuildEnds
<1>2. /\ s \in Seq(BuildStates) /\ Len(s) = Len(builds[d])
      /\ \A k \in 1..Len(builds[d]) : k # i => s[k] = builds[d][k]
  BY <1>1
<1>3. Ended(builds[d]) => Ended(s)
  BY <1>1, <1>2 DEF Ended
<1>4. builds'[d] = s /\ \A e \in Requests : e # d => builds'[e] = builds[e]
  BY <1>1 DEF BuildsOK
<1>5. \A e \in Requests : Len(builds[e]) \in Nat
  BY DEF BuildsOK
<1> HIDE DEF s
<1>6. Grows(builds, builds')
  BY <1>2, <1>3, <1>4, <1>5 DEF Grows
<1>7. BuildsOK(builds')
  BY <1>1, <1>2, <1>4 DEF BuildsOK
<1> QED BY <1>6, <1>7

\* Asked about a build it has, the engine gives a result, and calls a build
\* succeeded only if it finished it.
LEMMA StateOfOK ==
  ASSUME BuildsOK(builds), NEW d \in Requests, NEW h \in Nat, h # NoBuild, h <= Len(builds[d])
  PROVE  /\ StateOf(d, h) \in Results
         /\ StateOf(d, h) = "succeeded" => Ended(builds[d])
<1>1. builds[d] \in Seq(BuildStates) /\ h \in 1..Len(builds[d])
  BY DEF BuildsOK, NoBuild
<1>2. builds[d][h] \in BuildStates
  BY <1>1
<1>3. PICK x : x = builds[d][h] /\ x \in BuildStates
  BY <1>2
<1>4. Answer(x) \in Results /\ (Answer(x) = "succeeded" => x = "finished")
  BY <1>3 DEF Answer, BuildStates, Results
<1> QED BY <1>1, <1>3, <1>4 DEF StateOf, Ended

-----------------------------------------------------------------------------
(* The writes to a row.                                                    *)

\* A write leaves other rows alone and stores a known handle.
LEMMA WriteOK ==
  ASSUME BuildsOK(builds), RowsKnown(row, builds),
         NEW d \in Requests, NEW status \in InFlight \cup Outcomes,
         NEW h \in 0..MaxBuilds, h <= Len(builds[d]), Write(d, status, h)
  PROVE  /\ RowsKnown(row', builds)
         /\ row'[d].status = status
         /\ \A e \in Requests : e # d => row'[e].status = row[e].status
<1>1. PICK r : r = [row[d] EXCEPT !.status = status,
                                  !.handle = IF h = NoBuild THEN @ ELSE h]
  OBVIOUS
<1>2. row[d] \in DeploymentRow /\ row[d].handle <= Len(builds[d])
  BY DEF RowsKnown
<1>3. /\ r \in DeploymentRow /\ r.status = status /\ r.handle <= Len(builds[d])
  BY <1>1, <1>2 DEF DeploymentRow
<1>4. row' = [row EXCEPT ![d] = r]
  BY <1>1, <1>2 DEF Write, RowsKnown, DeploymentRow
<1> QED BY <1>3, <1>4 DEF RowsKnown

\* A row that is written as succeeded is one whose build the engine finished:
\* nothing else can disturb what the rows, the pointer and the invoice tell.
LEMMA WriteTold ==
  ASSUME BuildsOK(builds), RowsKnown(row, builds), Told,
         NEW d \in Requests, NEW status \in InFlight \cup Outcomes,
         status = "succeeded" => Ended(builds[d]),
         NEW h \in 0..MaxBuilds, h <= Len(builds[d]), Write(d, status, h),
         UNCHANGED <<live, billed, builds>>
  PROVE  RowsKnown(row', builds') /\ Told'
BY WriteOK DEF Told

-----------------------------------------------------------------------------
(* What one worker does to its memory.                                     *)

\* Only worker w moves, and what it then holds is known of builds b.
Turn(w, b) ==
  /\ hand' \in [Workers -> Hands] /\ wk' \in [Workers -> Progress]
  /\ \A v \in Workers : v # w => hand'[v] = hand[v] /\ wk'[v] = wk[v]
  /\ HandOK(hand'[w], b) /\ Linked(hand'[w], wk'[w], b)

\* When one worker moves and the builds grow, every memory stays known.
LEMMA TurnKeepsHands ==
  ASSUME HandsOK, BuildsOK(builds), BuildsOK(builds'), Grows(builds, builds'),
         NEW w \in Workers, Turn(w, builds')
  PROVE  HandsOK'
<1>1. ASSUME NEW v \in Workers, v # w
      PROVE  HandOK(hand'[v], builds') /\ Linked(hand'[v], wk'[v], builds')
  BY <1>1, GrowthKeeps DEF HandsOK, Turn
<1> QED BY <1>1 DEF HandsOK, Turn

\* An idle worker's empty memory is fine.
LEMMA EmptyOK ==
  /\ Empty \in Hands /\ Empty.pc = "none" /\ Empty.todo = {}
  /\ \A b, p : /\ HandOK(Empty, b)
               /\ p.pc \notin {"settling", "failing"} => Linked(Empty, p, b)
<1>1. Empty \in Hands
  BY DeploymentsAssumption DEF Empty, Hands, NoApplication, Many, NoBuild, DeploymentsAssumption
<1>2. /\ Empty.pc = "none" /\ Empty.dep = NoRequest /\ Empty.todo = {}
      /\ NoRequest \notin Requests
  BY DeploymentsAssumption DEF Empty, DeploymentsAssumption
<1> QED BY <1>1, <1>2 DEF HandOK, Linked

\* The handler returns r: a success only for a build that was finished.
LEMMA ReturnOK ==
  ASSUME hand \in [Workers -> Hands], wk \in [Workers -> Progress],
         NEW w \in Workers, NEW b, HandOK(hand[w], b),
         NEW r \in Results, r = "succeeded" => Ended(b[Dep(w)]),
         NEW h \in 0..MaxBuilds, h <= Len(b[Dep(w)]), Return(w, r, h),
         Dep(w) \in Requests, Len(b[Dep(w)]) \in Nat
  PROVE  Turn(w, b)
<1>1. PICK k : k = IF r \in {"succeeded", "running"} THEN h ELSE NoBuild
  OBVIOUS
<1>2. PICK m : m = [hand[w] EXCEPT !.pc = "returned", !.handle = k]
  OBVIOUS
<1>3. hand[w] \in Hands /\ k \in 0..MaxBuilds /\ k <= Len(b[Dep(w)])
  BY <1>1, DeploymentsAssumption DEF NoBuild, DeploymentsAssumption
<1>4. m \in Hands /\ m.pc = "returned" /\ m.dep = hand[w].dep /\ m.todo = hand[w].todo /\ m.handle = k
  BY <1>2, <1>3 DEF Hands
<1>5. hand' = [hand EXCEPT ![w] = m]
  BY <1>1, <1>2, <1>3 DEF Return, Hands
<1>6. HandOK(m, b)
  BY <1>3, <1>4 DEF HandOK, Dep
<1>7. /\ wk' \in [Workers -> Progress] /\ wk'[w].res = r
      /\ \A v \in Workers : v # w => wk'[v] = wk[v]
  BY ReturnedTyped DEF Return
<1>8. Linked(m, wk'[w], b)
  BY <1>4, <1>7 DEF Linked, Results, Dep
<1> QED BY <1>4, <1>5, <1>6, <1>7, <1>8 DEF Turn

\* Worker w's memory becomes m while its tick stands still.
LEMMA MoveOK ==
  ASSUME hand \in [Workers -> Hands], wk \in [Workers -> Progress],
         NEW w \in Workers, NEW b, NEW m, HandOK(m, b), Linked(m, wk[w], b),
         hand' = [hand EXCEPT ![w] = m], UNCHANGED wk
  PROVE  Turn(w, b)
BY DEF Turn, HandOK

\* A step that only moves worker w's memory keeps the invariant.
LEMMA HandStep ==
  ASSUME PipeInv, NEW w \in Workers, Turn(w, builds), UNCHANGED <<deploymentVars, apiVars>>
  PROVE  PipeInv'
<1>1. UNCHANGED <<row, live, billed, application, applications, builds, asking, cancel>>
  BY DEF deploymentVars, apiVars
<1>2. Grows(builds, builds')
  BY <1>1 DEF Grows, PipeInv, BuildsOK
<1>3. HandsOK'
  BY <1>1, <1>2, TurnKeepsHands DEF PipeInv
<1> QED BY <1>1, <1>3 DEF PipeInv, Ledgers, Told

-----------------------------------------------------------------------------
(* The steps of a worker.                                                  *)

\* A claimed job starts its handler with an otherwise empty memory.
LEMMA StartKeeps ==
  ASSUME PipeInv, WorkersOK, NEW w \in Workers, Start(w)
  PROVE  PipeInv'
<1>1. PICK j \in Jobs : wk' = [wk EXCEPT ![w] = Taken(j)]
  BY DEF Start, Claim
<1>2. Taken(j) \in Progress /\ Taken(j).job = j /\ Taken(j).pc = "handling"
  BY TakenOK, PipelineAssumption DEF PipelineAssumption, Taken, Tick0
<1>3. wk' \in [Workers -> Progress] /\ wk'[w] = Taken(j)
      /\ \A v \in Workers : v # w => wk'[v] = wk[v]
  BY <1>1, <1>2 DEF WorkersOK
<1>4. PICK m : m = [Empty EXCEPT !.pc = "target", !.dep = j]
  OBVIOUS
<1>5. Empty.handle = 0 /\ Empty \in Hands /\ Empty.todo = {} /\ j \in Requests
  BY EmptyOK, PipelineAssumption DEF Empty, NoBuild, PipelineAssumption
<1>6. m \in Hands /\ m.pc = "target" /\ m.dep = j /\ m.todo = {} /\ m.handle = 0
  BY <1>4, <1>5 DEF Hands, HandlerSteps
<1>7. Len(builds[j]) \in Nat
  BY <1>5 DEF PipeInv, BuildsOK
<1>8. HandOK(m, builds) /\ Linked(m, wk'[w], builds)
  <2>1. HandOK(m, builds)
    BY <1>5, <1>6, <1>7 DEF HandOK
  <2>2. wk'[w].pc = "handling"
    BY <1>2, <1>3
  <2> QED BY <1>6, <2>1, <2>2 DEF Linked
<1>9. hand' = [hand EXCEPT ![w] = m]
  BY <1>2, <1>3, <1>4 DEF Start
<1>10. Turn(w, builds)
  BY <1>3, <1>8, <1>9 DEF Turn, PipeInv, HandsOK, HandOK
<1> QED BY <1>10, HandStep DEF Start

\* What the handler steps share: worker w holds deployment d in memory h.
LEMMA Holding ==
  ASSUME PipeInv, NEW w \in Workers, hand[w].pc \notin {"none", "sweep"}
  PROVE  /\ Dep(w) \in Requests
         /\ HandOK(hand[w], builds) /\ hand[w] \in Hands /\ Linked(hand[w], wk[w], builds)
         /\ hand \in [Workers -> Hands]
         /\ hand[w].handle \in 0..MaxBuilds /\ hand[w].handle <= Len(builds[Dep(w)])
         /\ builds[Dep(w)] \in Seq(BuildStates) /\ Len(builds[Dep(w)]) \in Nat
         /\ row[Dep(w)] \in DeploymentRow /\ row[Dep(w)].handle <= Len(builds[Dep(w)])
<1>1. hand \in [Workers -> Hands] /\ HandOK(hand[w], builds) /\ Linked(hand[w], wk[w], builds)
  BY DEF PipeInv, HandsOK
<1>2. Dep(w) \in Requests /\ hand[w] \in Hands /\ hand[w].handle <= Len(builds[Dep(w)])
  BY <1>1 DEF HandOK, Dep
<1>3. hand[w].handle \in 0..MaxBuilds
  BY <1>2 DEF Hands
<1> QED BY <1>1, <1>2, <1>3 DEF PipeInv, BuildsOK, RowsKnown

\* A refused call changes nothing in what the worker holds but the result.
LEMMA RefusedOK ==
  ASSUME PipeInv, WorkersOK, NEW w \in Workers, hand[w].pc \notin {"none", "sweep"},
         BuildsOK(builds'), Grows(builds, builds'),
         NEW r \in {"degraded", "failed"}, Return(w, r, NoBuild)
  PROVE  Turn(w, builds')
<1>1. HandOK(hand[w], builds') /\ Dep(w) \in Requests /\ hand \in [Workers -> Hands]
  BY Holding, GrowthKeeps DEF PipeInv
<1>2. Len(builds'[Dep(w)]) \in Nat
  BY <1>1 DEF BuildsOK
<1>3. NoBuild \in 0..MaxBuilds /\ NoBuild <= Len(builds'[Dep(w)]) /\ r \in Results /\ r # "succeeded"
  BY <1>2, DeploymentsAssumption DEF NoBuild, Results, DeploymentsAssumption
<1> HIDE DEF BuildsOK
<1> QED BY <1>1, <1>2, <1>3, ReturnOK DEF WorkersOK

\* Builds do not shrink by being left alone.
LEMMA GrowsNot ==
  ASSUME BuildsOK(builds), UNCHANGED builds
  PROVE  BuildsOK(builds') /\ Grows(builds, builds')
BY DEF BuildsOK, Grows

\* Reading the project puts its application in the worker's memory.
LEMMA ReadTargetKeeps ==
  ASSUME PipeInv, WorkersOK, NEW w \in Workers, ReadTarget(w)
  PROVE  PipeInv'
<1>1. hand[w].pc = "target"
  BY DEF ReadTarget, At
<1>2. PICK m : m = [hand[w] EXCEPT !.pc = "row", !.app = application]
  OBVIOUS
<1>3. m \in Hands /\ m.pc = "row" /\ m.dep = hand[w].dep /\ m.todo = hand[w].todo
      /\ m.handle = hand[w].handle
  BY <1>1, <1>2, Holding DEF Hands, HandlerSteps, PipeInv, Ledgers
<1>4. HandOK(m, builds) /\ Linked(m, wk[w], builds)
  BY <1>1, <1>3, Holding DEF HandOK, Linked
<1>5. hand' = [hand EXCEPT ![w] = m] /\ UNCHANGED wk
  BY <1>1, <1>2, Holding DEF ReadTarget, workerVars
<1>6. Turn(w, builds)
  BY <1>4, <1>5, MoveOK DEF PipeInv, HandsOK, WorkersOK
<1> QED BY <1>6, HandStep DEF ReadTarget

\* The worker takes over the row's handle, and the engine has that build.
LEMMA ReadRowKeeps ==
  ASSUME PipeInv, WorkersOK, NEW w \in Workers, ReadRow(w)
  PROVE  PipeInv'
<1>1. hand[w].pc = "row" /\ hand[w] \in Hands /\ HandOK(hand[w], builds)
      /\ Linked(hand[w], wk[w], builds) /\ wk \in [Workers -> Progress]
      /\ hand \in [Workers -> Hands] /\ Dep(w) \in Requests /\ Dep(w) = hand[w].dep
  BY Holding DEF ReadRow, At, WorkersOK, Dep
<1>2. ASSUME NEW m, hand' = [hand EXCEPT ![w] = m], UNCHANGED workerVars,
             m \in Hands, m.pc \in {"create", "deploy", "poll"}, m.dep = hand[w].dep,
             m.todo = hand[w].todo, m.handle <= Len(builds[Dep(w)]),
             m.pc = "poll" => m.handle # NoBuild
      PROVE  Turn(w, builds)
  <2>1. HandOK(m, builds) /\ Linked(m, wk[w], builds)
    BY <1>1, <1>2 DEF HandOK, Linked
  <2>2. UNCHANGED wk
    BY <1>2 DEF workerVars
  <2> QED BY <1>1, <1>2, <2>1, <2>2, MoveOK
<1>3. ASSUME Resumable(Dep(w)), UNCHANGED workerVars,
             hand' = [hand EXCEPT ![w].pc = "poll", ![w].handle = row[Dep(w)].handle]
      PROVE  Turn(w, builds)
  <2>1. PICK m : m = [hand[w] EXCEPT !.pc = "poll", !.handle = row[Dep(w)].handle]
    OBVIOUS
  <2>2. row[Dep(w)].handle \in 0..MaxBuilds /\ row[Dep(w)].handle <= Len(builds[Dep(w)])
    BY <1>1, Holding DEF DeploymentRow
  <2>3. m \in Hands /\ m.pc = "poll" /\ m.dep = hand[w].dep /\ m.todo = hand[w].todo
        /\ m.handle = row[Dep(w)].handle
    BY <1>1, <2>1, <2>2 DEF Hands, HandlerSteps
  <2>4. hand' = [hand EXCEPT ![w] = m]
    BY <1>1, <1>3, <2>1
  <2> QED BY <1>2, <1>3, <2>2, <2>3, <2>4 DEF Resumable
<1>4. ASSUME NEW pc \in {"create", "deploy"}, GoTo(w, pc), UNCHANGED workerVars
      PROVE  Turn(w, builds)
  <2>1. PICK m : m = [hand[w] EXCEPT !.pc = pc]
    OBVIOUS
  <2>2. m \in Hands /\ m.pc = pc /\ m.dep = hand[w].dep /\ m.todo = hand[w].todo
        /\ m.handle = hand[w].handle
    BY <1>1, <2>1 DEF Hands, HandlerSteps
  <2>3. hand' = [hand EXCEPT ![w] = m]
    BY <1>1, <1>4, <2>1 DEF GoTo
  <2>4. hand[w].handle <= Len(builds[Dep(w)])
    BY <1>1, Holding
  <2> QED BY <1>2, <1>4, <2>2, <2>3, <2>4
<1>5. ASSUME Return(w, "degraded", NoBuild) PROVE Turn(w, builds)
  <2>1. UNCHANGED builds
    BY DEF ReadRow, deploymentVars
  <2>2. Turn(w, builds')
    BY <1>1, <1>5, <2>1, GrowsNot, RefusedOK DEF PipeInv
  <2> QED BY <2>1, <2>2 DEF Turn
<1>6. Turn(w, builds)
  BY <1>3, <1>4, <1>5 DEF ReadRow
<1> QED BY <1>6, HandStep DEF ReadRow

\* Worker w may report what the engine says of the build it holds.
LEMMA AskedOK ==
  ASSUME PipeInv, WorkersOK, NEW w \in Workers, hand[w].pc \in {"poll", "confirm"},
         NEW r \in {StateOf(Dep(w), hand[w].handle), "running"},
         Return(w, r, hand[w].handle)
  PROVE  Turn(w, builds) /\ r \in Results
<1>1. /\ Dep(w) \in Requests /\ HandOK(hand[w], builds) /\ hand \in [Workers -> Hands]
      /\ hand[w].handle \in 0..MaxBuilds /\ hand[w].handle <= Len(builds[Dep(w)])
      /\ Len(builds[Dep(w)]) \in Nat
  BY Holding
<1>2. hand[w].handle # NoBuild
  BY <1>1 DEF HandOK
<1>3. r \in Results /\ (r = "succeeded" => Ended(builds[Dep(w)]))
  BY <1>1, <1>2, StateOfOK, DeploymentsAssumption DEF PipeInv, Results, DeploymentsAssumption
<1> QED BY <1>1, <1>3, ReturnOK DEF WorkersOK

\* A polled handler returns what the engine says, or a refusal.
LEMMA PollKeeps ==
  ASSUME PipeInv, WorkersOK, NEW w \in Workers, Poll(w)
  PROVE  PipeInv'
<1>1. hand[w].pc = "poll" /\ UNCHANGED builds
  BY DEF Poll, At, deploymentVars
<1>2. Turn(w, builds)
  <2>1. CASE Return(w, StateOf(Dep(w), hand[w].handle), hand[w].handle)
    BY <1>1, <2>1, AskedOK
  <2>2. CASE Refused(w)
    BY <1>1, <2>2, GrowsNot, RefusedOK DEF PipeInv, Refused, Refusals
  <2> QED BY <2>1, <2>2 DEF Poll
<1> QED BY <1>2, HandStep DEF Poll

\* So does one that reads its own deploy back, which counts as running.
LEMMA ConfirmKeeps ==
  ASSUME PipeInv, WorkersOK, NEW w \in Workers, Confirm(w)
  PROVE  PipeInv'
<1>1. hand[w].pc = "confirm"
  BY DEF Confirm, At
<1> QED BY <1>1, AskedOK, HandStep DEF Confirm

\* Whatever a step writes, the invariant is kept if its parts are: builds only
\* grow, rows, ledgers and memories stay known, no cancel is touched.
LEMMA Compose ==
  ASSUME PipeInv, BuildsOK(builds'), Grows(builds, builds'), UNCHANGED cancel,
         RowsKnown(row', builds'), Told', Ledgers', HandsOK'
  PROVE  PipeInv'
<1>1. CancelOK(cancel', builds')
  BY GrowthKeeps DEF PipeInv
<1> QED BY <1>1 DEF PipeInv, BuildsOK, RowsKnown, CancelOK

\* More builds make no row, pointer or bill untrue.
LEMMA GrowthTold ==
  ASSUME PipeInv, BuildsOK(builds'), Grows(builds, builds'),
         UNCHANGED <<row, live, billed>>
  PROVE  Told' /\ RowsKnown(row', builds')
<1>1. RowsKnown(row, builds')
  BY GrowthKeeps DEF PipeInv
<1> QED BY <1>1 DEF PipeInv, Told, Grows

\* Creating an application touches no build and no row.
LEMMA CreateApplicationKeeps ==
  ASSUME PipeInv, WorkersOK, NEW w \in Workers, CreateApplication(w)
  PROVE  PipeInv'
<1>1. hand[w].pc = "create" /\ UNCHANGED <<row, live, billed, application, builds, asking, cancel>>
  BY DEF CreateApplication, At, apiVars
<1>2. BuildsOK(builds') /\ Grows(builds, builds')
  BY <1>1, GrowsNot DEF PipeInv
<1>3. applications' \in 0..Many
  <2>1. applications' = applications \/ NewApplication
    BY DEF CreateApplication
  <2> QED BY <2>1 DEF NewApplication, PipeInv, Ledgers, Many
<1>4. Turn(w, builds')
  <2>1. ASSUME NewApplication, UNCHANGED workerVars,
               hand' = [hand EXCEPT ![w].pc = "remember", ![w].app = applications']
        PROVE  Turn(w, builds')
    <3>1. PICK m : m = [hand[w] EXCEPT !.pc = "remember", !.app = applications']
      OBVIOUS
    <3>2. m \in Hands /\ m.pc = "remember" /\ m.dep = hand[w].dep /\ m.todo = hand[w].todo
          /\ m.handle = hand[w].handle
      BY <1>1, <1>3, <3>1, Holding DEF Hands, HandlerSteps
    <3>3. HandOK(m, builds') /\ Linked(m, wk[w], builds')
      BY <1>1, <3>2, Holding DEF HandOK, Linked
    <3>4. hand' = [hand EXCEPT ![w] = m] /\ UNCHANGED wk
      BY <1>1, <2>1, <3>1, Holding DEF workerVars
    <3> QED BY <3>3, <3>4, MoveOK DEF PipeInv, HandsOK, WorkersOK
  <2>2. ASSUME Refused(w) PROVE Turn(w, builds')
    BY <1>1, <1>2, <2>2, RefusedOK DEF Refused, Refusals
  <2> QED BY <2>1, <2>2 DEF CreateApplication
<1>5. HandsOK'
  BY <1>2, <1>4, TurnKeepsHands DEF PipeInv
<1> QED BY <1>1, <1>2, <1>3, <1>5, GrowthTold, Compose DEF PipeInv, Ledgers

\* A worker that deployed holds the build it appended, or none.
LEMMA DeployKeeps ==
  ASSUME PipeInv, WorkersOK, NEW w \in Workers, Deploy(w)
  PROVE  PipeInv'
<1>1. /\ hand[w].pc = "deploy"
      /\ UNCHANGED <<row, live, billed, application, applications, asking, cancel>>
  BY DEF Deploy, At, apiVars
<1>2. Dep(w) \in Requests /\ BuildsOK(builds)
  BY <1>1, Holding DEF PipeInv
<1>3. NewBuild(Dep(w)) \/ UNCHANGED builds
  BY DEF Deploy
<1>4. BuildsOK(builds') /\ Grows(builds, builds')
  BY <1>2, <1>3, NewBuildGrows, GrowsNot
<1>5. Turn(w, builds')
  <2>1. ASSUME NewBuild(Dep(w)), UNCHANGED workerVars,
               hand' = [hand EXCEPT ![w].pc = "mark", ![w].handle = Len(builds'[Dep(w)])]
        PROVE  Turn(w, builds')
    <3>1. PICK m : m = [hand[w] EXCEPT !.pc = "mark", !.handle = Len(builds'[Dep(w)])]
      OBVIOUS
    <3>2. Len(builds'[Dep(w)]) = Len(builds[Dep(w)]) + 1 /\ Len(builds[Dep(w)]) \in Nat
          /\ Len(builds'[Dep(w)]) <= MaxBuilds
      BY <1>2, <1>4, <2>1, NewBuildGrows DEF BuildsOK
    <3>3. Len(builds'[Dep(w)]) \in 0..MaxBuilds /\ Len(builds'[Dep(w)]) # NoBuild
      BY <3>2, DeploymentsAssumption DEF NoBuild, DeploymentsAssumption
    <3>4. m \in Hands /\ m.pc = "mark" /\ m.dep = hand[w].dep /\ m.todo = hand[w].todo
          /\ m.handle = Len(builds'[Dep(w)])
      BY <1>1, <3>1, <3>3, Holding DEF Hands, HandlerSteps
    <3>5. HandOK(hand[w], builds')
      BY <1>1, <1>2, <1>4, Holding, GrowthKeeps
    <3>6. HandOK(m, builds')
      BY <1>2, <3>3, <3>4, <3>5 DEF HandOK, Dep
    <3>7. Linked(m, wk[w], builds')
      BY <1>1, <3>4, Holding DEF Linked
    <3>8. hand' = [hand EXCEPT ![w] = m] /\ UNCHANGED wk
      BY <1>1, <2>1, <3>1, Holding DEF workerVars
    <3> QED BY <3>6, <3>7, <3>8, MoveOK DEF PipeInv, HandsOK, WorkersOK
  <2>2. ASSUME Refused(w) PROVE Turn(w, builds')
    BY <1>1, <1>4, <2>2, RefusedOK DEF Refused, Refusals
  <2> QED BY <2>1, <2>2 DEF Deploy
<1>6. HandsOK'
  BY <1>2, <1>4, <1>5, TurnKeepsHands DEF PipeInv
<1> QED BY <1>1, <1>4, <1>6, GrowthTold, Compose DEF PipeInv, Ledgers

\* Going on to a step that needs nothing new keeps the memory known.
LEMMA GoToOK ==
  ASSUME PipeInv, WorkersOK, NEW w \in Workers,
         hand[w].pc \notin {"none", "sweep", "returned"},
         NEW pc \in {"deploy", "confirm", "promote", "bill"}, GoTo(w, pc), UNCHANGED wk,
         pc = "confirm" => hand[w].handle # NoBuild,
         pc \in {"promote", "bill"} => Ended(builds[Dep(w)]),
         pc = "promote" => Dep(w) \notin Staged
  PROVE  Turn(w, builds)
<1>1. PICK m : m = [hand[w] EXCEPT !.pc = pc]
  OBVIOUS
<1>2. hand[w] \in Hands /\ HandOK(hand[w], builds) /\ Linked(hand[w], wk[w], builds)
      /\ hand \in [Workers -> Hands]
  BY Holding
<1>3. m \in Hands /\ m.pc = pc /\ m.dep = hand[w].dep /\ m.todo = hand[w].todo
      /\ m.handle = hand[w].handle
  BY <1>1, <1>2 DEF Hands, HandlerSteps, SettleSteps
<1>4. HandOK(m, builds)
  BY <1>2, <1>3 DEF HandOK, Dep
<1>5. Linked(m, wk[w], builds)
  BY <1>2, <1>3 DEF Linked
<1>6. hand' = [hand EXCEPT ![w] = m]
  BY <1>1, <1>2 DEF GoTo
<1> QED BY <1>4, <1>5, <1>6, MoveOK DEF PipeInv, HandsOK, WorkersOK

\* A step of one worker that writes a row, and asks the engine for nothing.
LEMMA WriteStep ==
  ASSUME PipeInv, NEW w \in Workers, Turn(w, builds),
         RowsKnown(row', builds'), Told', Ledgers', UNCHANGED <<builds, cancel>>
  PROVE  PipeInv'
<1>1. BuildsOK(builds') /\ Grows(builds, builds')
  BY GrowsNot DEF PipeInv
<1>2. Turn(w, builds')
  BY DEF Turn
<1>3. HandsOK'
  BY <1>1, <1>2, TurnKeepsHands DEF PipeInv
<1> QED BY <1>1, <1>3, Compose

\* Remembering an application touches no build and no row.
LEMMA RememberApplicationKeeps ==
  ASSUME PipeInv, WorkersOK, NEW w \in Workers, RememberApplication(w)
  PROVE  PipeInv'
<1>1. /\ hand[w].pc = "remember" /\ GoTo(w, "deploy") /\ application' = hand[w].app
      /\ UNCHANGED <<wk, row, live, billed, applications, builds, asking, cancel>>
  BY DEF RememberApplication, At, Remember, apiVars, workerVars
<1>2. Turn(w, builds)
  BY <1>1, GoToOK
<1>3. hand[w].app \in 0..Many
  BY <1>1, Holding DEF Hands
<1>4. RowsKnown(row', builds') /\ Told'
  BY <1>1, GrowsNot, GrowthTold DEF PipeInv
<1> QED BY <1>1, <1>2, <1>3, <1>4, WriteStep DEF PipeInv, Ledgers

\* Writing the handle of an accepted build keeps rows and ledgers.
LEMMA MarkOK ==
  ASSUME PipeInv, NEW w \in Workers, hand[w].pc = "mark",
         Write(Dep(w), "running", hand[w].handle), UNCHANGED <<live, billed, builds>>
  PROVE  RowsKnown(row', builds') /\ Told'
<1>1. /\ Dep(w) \in Requests /\ hand[w].handle \in 0..MaxBuilds
      /\ hand[w].handle <= Len(builds[Dep(w)])
  BY Holding
<1> QED BY <1>1, WriteTold DEF PipeInv, InFlight

\* The handle marked in the row is the one of the worker's build.
LEMMA MarkInFlightKeeps ==
  ASSUME PipeInv, WorkersOK, NEW w \in Workers, MarkInFlight(w)
  PROVE  PipeInv'
<1>1. /\ hand[w].pc = "mark" /\ GoTo(w, "confirm") /\ Write(Dep(w), "running", hand[w].handle)
      /\ UNCHANGED <<wk, live, billed, application, applications, builds, asking, cancel>>
  BY DEF MarkInFlight, At, apiVars, workerVars
<1>2. hand[w].handle # NoBuild
  BY <1>1, Holding DEF HandOK
<1>3. Turn(w, builds)
  BY <1>1, <1>2, GoToOK
<1> QED BY <1>1, <1>3, MarkOK, WriteStep DEF PipeInv, Ledgers

\* A handler that throws may have remembered or marked before.
LEMMA HandlerThrowsKeeps ==
  ASSUME PipeInv, WorkersOK, NEW w \in Workers, HandlerThrows(w)
  PROVE  PipeInv'
<1>1. /\ hand[w].pc \in {"target", "row", "remember", "mark"} /\ Return(w, "failed", NoBuild)
      /\ UNCHANGED <<builds, live, billed, applications, asking, cancel>>
  BY DEF HandlerThrows, apiVars, deploymentVars
<1>2. Turn(w, builds')
  BY <1>1, GrowsNot, RefusedOK DEF PipeInv
<1>3. Turn(w, builds)
  BY <1>1, <1>2 DEF Turn
<1>4. \/ application' = application /\ row' = row
      \/ row' = row /\ hand[w].pc = "remember" /\ application' = hand[w].app
      \/ /\ application' = application /\ hand[w].pc = "mark"
         /\ Write(Dep(w), "running", hand[w].handle)
  BY DEF HandlerThrows, At, Remember, deploymentVars
<1>5. application' \in 0..Many
  BY <1>1, <1>4, Holding DEF Hands, PipeInv, Ledgers
<1>6. RowsKnown(row', builds') /\ Told'
  BY <1>1, <1>4, GrowsNot, GrowthTold, MarkOK DEF PipeInv
<1> QED BY <1>1, <1>3, <1>5, <1>6, WriteStep DEF PipeInv, Ledgers

\* Once the job is settled the worker holds the outcome it will write.
LEMMA SettleJobKeeps ==
  ASSUME PipeInv, WorkersOK, NEW w \in Workers, SettleJob(w)
  PROVE  PipeInv'
<1>1. wk[w].pc \in {"settling", "failing"} /\ wk[w] \in Progress
  BY DEF SettleJob, Settle, SettleSucceeded, SettleRunning, SettleDegraded, ReadBudget,
         SettleFailed, Settling, WorkersOK
<1>2. hand[w].pc = "returned" /\ wk[w].res \in Results
  BY <1>1 DEF PipeInv, HandsOK, Linked, Progress
<1>3. /\ hand[w] \in Hands /\ HandOK(hand[w], builds) /\ Linked(hand[w], wk[w], builds)
      /\ hand \in [Workers -> Hands] /\ Len(builds[Dep(w)]) \in Nat
  BY <1>2, Holding
<1>4. /\ wk' \in [Workers -> Progress]
      /\ \A v \in Workers : v # w => wk'[v] = wk[v]
      /\ wk'[w].res = wk[w].res
      /\ ReadBudget(w) \/ wk'[w].pc = "applying"
  BY <1>1 DEF SettleJob, Settle, SettleSucceeded, SettleRunning, SettleDegraded, ReadBudget,
              SettleFailed, Settling, Settled, WorkersOK, Progress, Spent
<1>5. Turn(w, builds)
  <2>1. CASE ReadBudget(w)
    <3>1. hand' = hand
      BY <2>1 DEF SettleJob
    <3>2. Linked(hand[w], wk'[w], builds)
      BY <1>2, <1>3, <1>4 DEF Linked
    <3> QED BY <1>3, <1>4, <3>1, <3>2 DEF Turn
  <2>2. CASE ~ ReadBudget(w)
    <3>1. PICK k : k = IF AtCeiling(w) THEN NoBuild ELSE hand[w].handle
      OBVIOUS
    <3>2. PICK m : m = [hand[w] EXCEPT !.pc = "write", !.status = wk[w].res, !.handle = k]
      OBVIOUS
    <3>3. k \in 0..MaxBuilds /\ k <= Len(builds[Dep(w)])
      BY <1>2, <1>3, <3>1, Holding, DeploymentsAssumption DEF NoBuild, DeploymentsAssumption
    <3>4. m \in Hands /\ m.pc = "write" /\ m.dep = hand[w].dep /\ m.todo = hand[w].todo
          /\ m.handle = k /\ m.status = wk[w].res
      BY <1>2, <1>3, <3>2, <3>3 DEF Hands, SettleSteps
    <3>5. hand' = [hand EXCEPT ![w] = m]
      BY <1>3, <2>2, <3>1, <3>2 DEF SettleJob, Hands
    <3>6. HandOK(m, builds)
      BY <1>2, <1>3, <3>3, <3>4 DEF HandOK, Dep, Linked, Results
    <3>7. Linked(m, wk'[w], builds)
      BY <1>4, <2>2, <3>4 DEF Linked
    <3> QED BY <1>3, <1>4, <3>4, <3>5, <3>6, <3>7 DEF Turn
  <2> QED BY <2>1, <2>2
<1> QED BY <1>5, HandStep DEF SettleJob

-----------------------------------------------------------------------------
(* Outcomes, from the applier or the sweep.                                *)

\* After its last write the worker is idle or back at its sweep.
LEMMA FinishOK ==
  ASSUME PipeInv, WorkersOK, NEW w \in Workers, hand[w].pc \in {"write", "bill"}, Finish(w)
  PROVE  Turn(w, builds)
<1>1. /\ hand[w] \in Hands /\ HandOK(hand[w], builds) /\ Linked(hand[w], wk[w], builds)
      /\ hand \in [Workers -> Hands] /\ wk \in [Workers -> Progress]
  BY Holding DEF WorkersOK
<1>2. CASE wk[w].pc = "applying"
  <2>1. /\ wk' = [wk EXCEPT ![w] = Tick0] /\ hand' = [hand EXCEPT ![w] = Empty]
    BY <1>2 DEF Finish, Apply
  <2> QED BY <1>1, <2>1, EmptyOK, TakenOK DEF Turn
<1>3. CASE wk[w].pc # "applying" /\ hand[w].todo = {}
  <2>1. UNCHANGED wk /\ hand' = [hand EXCEPT ![w] = Empty]
    BY <1>3 DEF Finish, workerVars
  <2>2. wk[w].pc \notin {"settling", "failing"}
    BY <1>1 DEF Linked
  <2> QED BY <1>1, <2>1, <2>2, EmptyOK DEF Turn
<1>4. CASE wk[w].pc # "applying" /\ hand[w].todo # {}
  <2>1. PICK m : m = [Empty EXCEPT !.pc = "sweep", !.todo = hand[w].todo]
    OBVIOUS
  <2>2. UNCHANGED wk /\ hand' = [hand EXCEPT ![w] = m]
    BY <1>4, <2>1 DEF Finish, workerVars
  <2>3. m \in Hands /\ m.pc = "sweep" /\ m.dep = NoRequest /\ m.todo = hand[w].todo
    BY <1>1, <2>1, EmptyOK DEF Hands, Empty
  <2>4. HandOK(m, builds)
    BY <1>1, <2>3, DeploymentsAssumption DEF HandOK, DeploymentsAssumption
  <2>5. Linked(m, wk[w], builds)
    BY <1>1, <2>3 DEF Linked
  <2> QED BY <1>1, <2>2, <2>4, <2>5, MoveOK
<1> QED BY <1>2, <1>3, <1>4

\* An outcome of success is written of a build the engine finished.
LEMMA WriteOutcomeKeeps ==
  ASSUME PipeInv, WorkersOK, NEW w \in Workers, WriteOutcome(w)
  PROVE  PipeInv'
<1>1. /\ hand[w].pc = "write" /\ Write(Dep(w), hand[w].status, hand[w].handle)
      /\ UNCHANGED <<live, billed, application, applications, builds, asking, cancel>>
  BY DEF WriteOutcome, At, apiVars
<1>2. /\ Dep(w) \in Requests /\ hand[w].handle \in 0..MaxBuilds
      /\ hand[w].handle <= Len(builds[Dep(w)])
      /\ hand[w].status \in InFlight \cup Outcomes
      /\ hand[w].status = "succeeded" => Ended(builds[Dep(w)])
  BY <1>1, Holding DEF HandOK, Hands, Results, InFlight, Outcomes, Dep
<1>3. RowsKnown(row', builds') /\ Told'
  BY <1>1, <1>2, WriteTold DEF PipeInv
<1>4. Turn(w, builds)
  <2>1. CASE hand[w].status = "succeeded"
    <3>1. UNCHANGED wk /\ \E pc \in {"bill", "promote"} :
                             GoTo(w, pc) /\ (pc = "promote" => Dep(w) \notin Staged)
      BY <2>1 DEF WriteOutcome, workerVars
    <3> QED BY <1>1, <1>2, <2>1, <3>1, GoToOK
  <2>2. CASE hand[w].status # "succeeded"
    BY <1>1, <2>2, FinishOK DEF WriteOutcome
  <2> QED BY <2>1, <2>2
<1> QED BY <1>1, <1>3, <1>4, WriteStep DEF PipeInv, Ledgers

\* What is promoted was finished by the engine.
LEMMA PromoteOutcomeKeeps ==
  ASSUME PipeInv, WorkersOK, NEW w \in Workers, PromoteOutcome(w)
  PROVE  PipeInv'
<1>1. /\ hand[w].pc = "promote" /\ Promote(Dep(w)) /\ GoTo(w, "bill")
      /\ UNCHANGED <<wk, row, billed, application, applications, builds, asking, cancel>>
  BY DEF PromoteOutcome, At, apiVars, workerVars
<1>2. Dep(w) \in Requests /\ Ended(builds[Dep(w)])
  BY <1>1, Holding DEF HandOK, Dep
<1>3. Turn(w, builds)
  BY <1>1, <1>2, GoToOK
<1>4. live' \in Requests \cup {NoRequest} /\ (live' = live \/ live' = Dep(w))
  BY <1>1, <1>2 DEF Promote, PipeInv, Ledgers
<1>5. Told' /\ RowsKnown(row', builds')
  BY <1>1, <1>2, <1>4 DEF PipeInv, Told, RowsKnown
<1> QED BY <1>1, <1>3, <1>4, <1>5, WriteStep DEF PipeInv, Ledgers

\* So was what is billed.
LEMMA BillOutcomeKeeps ==
  ASSUME PipeInv, WorkersOK, NEW w \in Workers, BillOutcome(w)
  PROVE  PipeInv'
<1>1. /\ hand[w].pc = "bill" /\ Bill(Dep(w)) /\ Finish(w)
      /\ UNCHANGED <<row, live, application, applications, builds, asking, cancel>>
  BY DEF BillOutcome, At, apiVars
<1>2. Dep(w) \in Requests /\ Ended(builds[Dep(w)])
  BY <1>1, Holding DEF HandOK, Dep
<1>3. Turn(w, builds)
  BY <1>1, FinishOK
<1>4. /\ billed' \in [Requests -> 0..Many]
      /\ \A d \in Requests : d # Dep(w) => billed'[d] = billed[d]
  BY <1>1, <1>2 DEF Bill, PipeInv, Ledgers, Many
<1>5. Told' /\ RowsKnown(row', builds')
  BY <1>1, <1>2, <1>4 DEF PipeInv, Told, RowsKnown
<1> QED BY <1>1, <1>3, <1>4, <1>5, WriteStep DEF PipeInv, Ledgers

-----------------------------------------------------------------------------
(* The sweep.                                                              *)

\* Every stranded row the sweep lists is remembered with the handle it has.
LEMMA SweepKeeps ==
  ASSUME PipeInv, WorkersOK, NEW w \in Workers, Sweep(w)
  PROVE  PipeInv'
<1>1. wk[w].pc = "idle" /\ UNCHANGED wk
  BY DEF Sweep, workerVars
<1>2. PICK t : t = {Snapshot(d) : d \in {e \in Requests : IsStranded(e)}}
  OBVIOUS
<1>3. PICK m : m = [Empty EXCEPT !.pc = "sweep", !.todo = t]
  OBVIOUS
<1>4. ASSUME NEW d \in Requests
      PROVE  Snapshot(d) \in Stranded /\ Snapshot(d).handle <= Len(builds[Snapshot(d).dep])
  <2>1. row[d] \in DeploymentRow /\ row[d].handle <= Len(builds[d])
    BY DEF PipeInv, RowsKnown
  <2> QED BY <2>1 DEF Snapshot, Stranded, DeploymentRow
<1>5. t \subseteq Stranded /\ \A s \in t : s.handle <= Len(builds[s.dep])
  BY <1>2, <1>4
<1>6. m \in Hands /\ m.pc = "sweep" /\ m.dep = NoRequest /\ m.todo = t
  BY <1>3, <1>5, EmptyOK DEF Hands, Empty
<1>7. HandOK(m, builds)
  BY <1>5, <1>6, DeploymentsAssumption DEF HandOK, DeploymentsAssumption
<1>8. Linked(m, wk[w], builds)
  BY <1>1, <1>6 DEF Linked
<1>9. hand' = [hand EXCEPT ![w] = m]
  BY <1>2, <1>3 DEF Sweep
<1>10. Turn(w, builds)
  BY <1>1, <1>7, <1>8, <1>9, MoveOK DEF PipeInv, HandsOK, WorkersOK
<1> QED BY <1>10, HandStep DEF Sweep

\* The sweep concludes a success only from a build the engine finished.
LEMMA VerdictsOK ==
  ASSUME BuildsOK(builds), NEW s \in Stranded, s.handle <= Len(builds[s.dep]),
         NEW verdict \in Verdicts(s)
  PROVE  verdict \in Results /\ (verdict = "succeeded" => Ended(builds[s.dep]))
<1>1. s.dep \in Requests /\ s.handle \in 0..MaxBuilds
  BY DEF Stranded
<1>2. CASE s.handle = NoBuild
  BY <1>2 DEF Verdicts, Results
<1>3. CASE s.handle # NoBuild
  <2>1. /\ StateOf(s.dep, s.handle) \in Results
        /\ StateOf(s.dep, s.handle) = "succeeded" => Ended(builds[s.dep])
    BY <1>1, <1>3, StateOfOK, DeploymentsAssumption DEF DeploymentsAssumption
  <2>2. verdict \in {"failed", "running", StateOf(s.dep, s.handle)}
    BY <1>3 DEF Verdicts
  <2> QED BY <2>1, <2>2 DEF Results
<1> QED BY <1>2, <1>3

\* The sweep takes one row off its list, with a verdict to write or none.
LEMMA AskKeeps ==
  ASSUME PipeInv, WorkersOK, NEW w \in Workers, Ask(w)
  PROVE  PipeInv'
<1>1. hand[w].pc = "sweep" /\ UNCHANGED wk
  BY DEF Ask, At, workerVars
<1>2. /\ hand \in [Workers -> Hands] /\ hand[w] \in Hands /\ wk \in [Workers -> Progress]
      /\ HandOK(hand[w], builds) /\ Linked(hand[w], wk[w], builds)
  BY DEF PipeInv, HandsOK, WorkersOK
<1>3. PICK s, verdict, t :
        /\ s \in hand[w].todo /\ verdict \in Verdicts(s) /\ t = hand[w].todo \ {s}
        /\ hand' = [hand EXCEPT ![w] =
             IF verdict # "running"
             THEN [Empty EXCEPT !.pc = "write", !.dep = s.dep, !.status = verdict,
                                !.handle = s.handle, !.todo = t]
             ELSE IF t = {} THEN Empty ELSE [@ EXCEPT !.todo = t]]
  BY DEF Ask
<1>4. /\ s \in Stranded /\ s.handle <= Len(builds[s.dep])
      /\ t \subseteq Stranded /\ \A u \in t : u.handle <= Len(builds[u.dep])
  BY <1>2, <1>3 DEF HandOK, Hands
<1>5. s.dep \in Requests /\ s.handle \in 0..MaxBuilds
  BY <1>4 DEF Stranded
<1>6. verdict \in Results /\ (verdict = "succeeded" => Ended(builds[s.dep]))
  BY <1>3, <1>4, VerdictsOK DEF PipeInv
<1>7. PICK m : m = IF verdict # "running"
                   THEN [Empty EXCEPT !.pc = "write", !.dep = s.dep, !.status = verdict,
                                      !.handle = s.handle, !.todo = t]
                   ELSE IF t = {} THEN Empty ELSE [hand[w] EXCEPT !.todo = t]
  OBVIOUS
<1>8. hand' = [hand EXCEPT ![w] = m]
  BY <1>2, <1>3, <1>7
<1>9. wk[w].pc \notin {"settling", "failing"}
  BY <1>1, <1>2 DEF Linked
<1>10. HandOK(m, builds) /\ m.pc # "returned"
  <2>1. CASE verdict # "running"
    <3>1. /\ m \in Hands /\ m.pc = "write" /\ m.dep = s.dep /\ m.todo = t
          /\ m.handle = s.handle /\ m.status = verdict
      BY <1>4, <1>5, <1>6, <1>7, <2>1, EmptyOK DEF Hands, SettleSteps
    <3> QED BY <1>4, <1>5, <1>6, <3>1 DEF HandOK, Results
  <2>2. CASE verdict = "running" /\ t = {}
    BY <1>7, <2>2, EmptyOK
  <2>3. CASE verdict = "running" /\ t # {}
    <3>1. /\ m \in Hands /\ m.pc = "sweep" /\ m.dep = hand[w].dep /\ m.todo = t
          /\ m.handle = hand[w].handle
      BY <1>1, <1>2, <1>4, <1>7, <2>3 DEF Hands
    <3> QED BY <1>2, <1>4, <3>1 DEF HandOK
  <2> QED BY <2>1, <2>2, <2>3
<1>11. Turn(w, builds)
  BY <1>1, <1>2, <1>8, <1>9, <1>10, MoveOK DEF Linked
<1> QED BY <1>11, HandStep DEF Ask

\* A worker that stops forgets what it held.
LEMMA StopKeeps ==
  ASSUME PipeInv, WorkersOK, NEW w \in Workers, Stop(w)
  PROVE  PipeInv'
<1>1. /\ hand \in [Workers -> Hands] /\ wk \in [Workers -> Progress]
      /\ hand' = [hand EXCEPT ![w] = Empty]
  BY DEF Stop, PipeInv, HandsOK, WorkersOK
<1>2. \/ wk' = [wk EXCEPT ![w] = Tick0]
      \/ wk' = wk /\ wk[w].pc = "idle"
  BY DEF Stop, Abandon, workerVars
<1>3. wk' \in [Workers -> Progress] /\ wk'[w].pc = "idle"
      /\ \A v \in Workers : v # w => wk'[v] = wk[v]
  BY <1>1, <1>2, TakenOK
<1>4. Turn(w, builds)
  BY <1>1, <1>3, EmptyOK DEF Turn
<1> QED BY <1>4, HandStep DEF Stop

-----------------------------------------------------------------------------
(* Customers, the engine and the clock.                                    *)

\* A step that leaves every worker alone keeps what the workers hold.
LEMMA IdleStep ==
  ASSUME PipeInv, BuildsOK(builds'), Grows(builds, builds'), UNCHANGED <<hand, wk>>
  PROVE  HandsOK'
<1>1. \A w \in Workers : HandOK(hand[w], builds') /\ Linked(hand[w], wk[w], builds')
  BY GrowthKeeps DEF PipeInv, HandsOK
<1> QED BY <1>1 DEF PipeInv, HandsOK

\* Customers who order, repeat and promote keep the invariant.
LEMMA OrderingKeeps ==
  ASSUME PipeInv, Ordering, UNCHANGED wk
  PROVE  PipeInv'
<1>1. PICK d \in Requests :
        Request(d) \/ Replay(d) \/ EnqueueJob(d) \/ RequestDies(d) \/ PromoteByHand(d)
  BY DEF Ordering
<1>2. UNCHANGED <<hand, builds, cancel>>
  BY <1>1 DEF Request, Replay, EnqueueJob, RequestDies, PromoteByHand, deploymentVars,
              pipelineVars, apiVars
<1>3. BuildsOK(builds') /\ Grows(builds, builds')
  BY <1>2, GrowsNot DEF PipeInv
<1>4. HandsOK'
  BY <1>2, <1>3, IdleStep
<1>5. CASE Request(d)
  <2>1. row[d] \in DeploymentRow /\ row[d].handle <= Len(builds[d])
    BY DEF PipeInv, RowsKnown
  <2>2. PICK r : r = [row[d] EXCEPT !.status = "pending"]
    OBVIOUS
  <2>3. r \in DeploymentRow /\ r.handle = row[d].handle /\ r.status = "pending"
    BY <2>1, <2>2 DEF DeploymentRow, InFlight
  <2>4. row' = [row EXCEPT ![d] = r]
    BY <1>5, <2>2 DEF Request, Insert, PipeInv, RowsKnown
  <2>5. RowsKnown(row', builds') /\ Told'
    BY <1>2, <1>5, <2>1, <2>3, <2>4 DEF Request, PipeInv, RowsKnown, Told
  <2>6. Ledgers'
    BY <1>5 DEF Request, PipeInv, Ledgers
  <2> QED BY <1>2, <1>3, <1>4, <2>5, <2>6, Compose
<1>6. CASE Replay(d) \/ EnqueueJob(d) \/ RequestDies(d)
  <2>1. /\ UNCHANGED <<row, live, billed, application, applications>>
        /\ asking' \subseteq asking
    BY <1>6 DEF Replay, EnqueueJob, RequestDies, deploymentVars, pipelineVars
  <2>2. RowsKnown(row', builds') /\ Told'
    BY <1>3, <2>1, GrowthTold
  <2>3. Ledgers'
    BY <2>1 DEF PipeInv, Ledgers
  <2> QED BY <1>2, <1>3, <1>4, <2>2, <2>3, Compose
<1>7. CASE PromoteByHand(d)
  <2>1. /\ row[d].status = "succeeded" /\ live' = d
        /\ UNCHANGED <<row, billed, application, applications, asking>>
    BY <1>7 DEF PromoteByHand, Promote, apiVars
  <2>2. RowsKnown(row', builds') /\ Told'
    BY <1>2, <2>1 DEF PipeInv, Told, RowsKnown
  <2>3. Ledgers'
    BY <2>1 DEF PipeInv, Ledgers
  <2> QED BY <1>2, <1>3, <1>4, <2>2, <2>3, Compose
<1> QED BY <1>1, <1>5, <1>6, <1>7

\* A cancel writes back a status it read in flight, or failed.
LEMMA CancellingKeeps ==
  ASSUME PipeInv, Cancelling, UNCHANGED wk
  PROVE  PipeInv'
<1>1. UNCHANGED <<hand, live, billed, application, applications, asking>>
  BY DEF Cancelling, ReadForCancel, EngineCancels, EngineRefuses, CloseCancelled,
         KeepUncancelled, CancelDies, deploymentVars, BuildEnds
<1>2. Ledgers'
  BY <1>1 DEF PipeInv, Ledgers
<1>3. CancelOK(NoCancel, builds)
  BY DeploymentsAssumption DEF CancelOK, NoCancel, NoBuild, DeploymentsAssumption
<1>4. cancel.pc # "none" =>
        /\ cancel.dep \in Requests /\ cancel.status \in InFlight \cup Outcomes
        /\ cancel.status # "succeeded"
        /\ cancel.handle \in 0..MaxBuilds /\ cancel.handle <= Len(builds[cancel.dep])
  BY DEF PipeInv, CancelOK, InFlight
<1>5. ASSUME BuildsOK(builds'), Grows(builds, builds'), CancelOK(cancel', builds'),
             RowsKnown(row', builds'), Told'
      PROVE  PipeInv'
  <2>1. HandsOK'
    BY <1>1, <1>5, IdleStep
  <2> QED BY <1>2, <1>5, <2>1 DEF PipeInv, BuildsOK, RowsKnown, CancelOK
<1>6. ASSUME UNCHANGED deploymentVars, CancelOK(cancel', builds) PROVE PipeInv'
  <2>1. UNCHANGED <<row, live, billed, builds>>
    BY <1>6 DEF deploymentVars
  <2>2. BuildsOK(builds') /\ Grows(builds, builds') /\ RowsKnown(row', builds') /\ Told'
    BY <2>1, GrowsNot, GrowthTold DEF PipeInv
  <2>3. CancelOK(cancel', builds')
    BY <1>6, <2>1
  <2> QED BY <1>5, <2>2, <2>3
<1>7. ASSUME NEW status \in InFlight \cup Outcomes, status # "succeeded", cancel.pc # "none",
             Write(cancel.dep, status, cancel.handle), cancel' = NoCancel, UNCHANGED builds
      PROVE  PipeInv'
  <2>1. RowsKnown(row', builds') /\ Told'
    BY <1>1, <1>4, <1>7, WriteTold DEF PipeInv
  <2>2. BuildsOK(builds') /\ Grows(builds, builds') /\ CancelOK(cancel', builds')
    BY <1>3, <1>7, GrowsNot DEF PipeInv
  <2> QED BY <1>5, <2>1, <2>2
<1>8. ASSUME cancel.pc = "ask", BuildEnds(cancel.dep, cancel.handle, "cancelled"),
             NEW pc \in {"close", "keep"}, cancel' = [cancel EXCEPT !.pc = pc]
      PROVE  PipeInv'
  <2>1. cancel.handle \in 1..Len(builds[cancel.dep]) /\ "cancelled" \in BuildStates
    BY <1>4, <1>8, DeploymentsAssumption
       DEF PipeInv, CancelOK, BuildsOK, NoBuild, BuildStates, DeploymentsAssumption
  <2>2. BuildsOK(builds') /\ Grows(builds, builds') /\ UNCHANGED row
    BY <1>4, <1>8, <2>1, BuildEndsGrows DEF PipeInv, BuildEnds
  <2>3. CancelOK(cancel', builds)
    BY <1>4, <1>8 DEF PipeInv, CancelOK
  <2> QED BY <1>1, <1>5, <2>2, <2>3, GrowthTold, GrowthKeeps DEF PipeInv
<1>9. ASSUME NEW d \in Requests, ReadForCancel(d) PROVE PipeInv'
  <2>1. row[d] \in DeploymentRow /\ row[d].handle <= Len(builds[d]) /\ row[d].status \in InFlight
    BY <1>9 DEF PipeInv, RowsKnown, ReadForCancel, IsInFlight
  <2>2. CancelOK(cancel', builds)
    BY <1>9, <2>1 DEF ReadForCancel, CancelOK, DeploymentRow
  <2> QED BY <1>6, <1>9, <2>2 DEF ReadForCancel
<1>10. CASE EngineCancels
  BY <1>8, <1>10 DEF EngineCancels
<1>11. CASE EngineRefuses
  <2>1. CASE UNCHANGED deploymentVars
    <3>1. CancelOK(cancel', builds)
      BY <1>11 DEF EngineRefuses, PipeInv, CancelOK
    <3> QED BY <1>6, <2>1, <3>1
  <2> QED BY <1>8, <1>11, <2>1 DEF EngineRefuses
<1>12. CASE CloseCancelled
  BY <1>7, <1>12 DEF CloseCancelled, Outcomes
<1>13. CASE KeepUncancelled
  BY <1>4, <1>7, <1>13 DEF KeepUncancelled
<1>14. CASE CancelDies
  BY <1>3, <1>6, <1>14 DEF CancelDies
<1> QED BY <1>9, <1>10, <1>11, <1>12, <1>13, <1>14 DEF Cancelling

\* So do crashes, builds that end and the passage of time.
LEMMA SurroundingsKeep ==
  ASSUME PipeInv, WorkersOK, Surroundings
  PROVE  PipeInv'
<1>1. ASSUME NEW w \in Workers, Stop(w) PROVE PipeInv'
  BY <1>1, StopKeeps
<1>2. CASE EngineBuilds
  <2>1. PICK d \in Requests, i \in Nat, state \in BuildStates :
          i \in 1..Len(builds[d]) /\ BuildEnds(d, i, state)
    BY <1>2 DEF EngineBuilds, BuildStates, PipeInv, BuildsOK
  <2>2. UNCHANGED <<row, live, billed, application, applications, hand, wk, asking, cancel>>
    BY <1>2, <2>1 DEF EngineBuilds, BuildEnds, workerVars, apiVars
  <2>3. BuildsOK(builds') /\ Grows(builds, builds')
    BY <2>1, BuildEndsGrows DEF PipeInv
  <2>4. Ledgers'
    BY <2>2 DEF PipeInv, Ledgers
  <2> QED BY <2>2, <2>3, <2>4, IdleStep, GrowthTold, Compose
<1>3. CASE TimePasses
  <2>1. UNCHANGED <<live, billed, application, applications, builds, hand, wk, asking, cancel>>
        /\ RowsAge
    BY <1>3 DEF TimePasses, apiVars
  <2>2. ASSUME NEW d \in Requests
        PROVE  /\ row'[d] \in DeploymentRow
               /\ row'[d].handle = row[d].handle /\ row'[d].status = row[d].status
    <3>1. row[d] \in DeploymentRow
      BY DEF PipeInv, RowsKnown
    <3>2. row'[d] = IF row[d].status = "absent" \/ row[d].age = GiveUpTicks
                    THEN row[d] ELSE [row[d] EXCEPT !.age = row[d].age + 1]
      BY <2>1 DEF RowsAge
    <3>3. row[d].age \in 0..GiveUpTicks
      BY <3>1 DEF DeploymentRow
    <3>4. CASE row'[d] = row[d]
      BY <3>1, <3>4
    <3>5. CASE row[d].age # GiveUpTicks /\ row'[d] = [row[d] EXCEPT !.age = row[d].age + 1]
      <4>1. row[d].age + 1 \in 0..GiveUpTicks
        BY <3>3, <3>5, DeploymentsAssumption DEF DeploymentsAssumption
      <4> QED BY <3>1, <3>5, <4>1 DEF DeploymentRow
    <3> QED BY <3>2, <3>4, <3>5
  <2>3. row' \in [Requests -> DeploymentRow]
    BY <2>1, <2>2 DEF RowsAge
  <2>4. BuildsOK(builds') /\ Grows(builds, builds')
    BY <2>1, GrowsNot DEF PipeInv
  <2>5. RowsKnown(row', builds') /\ Told'
    BY <2>1, <2>2, <2>3 DEF PipeInv, RowsKnown, Told
  <2>6. Ledgers'
    BY <2>1 DEF PipeInv, Ledgers
  <2> QED BY <2>1, <2>4, <2>5, <2>6, IdleStep, Compose
<1> QED BY <1>1, <1>2, <1>3 DEF Surroundings

\* The reaper touches only the queue.
LEMMA ReapJobsKeeps ==
  ASSUME PipeInv, WorkersOK, NEW w \in Workers, ReapJobs(w)
  PROVE  PipeInv'
<1>1. UNCHANGED <<wk, hand>>
  BY DEF ReapJobs, Reap
<1>2. Turn(w, builds)
  BY <1>1 DEF Turn, PipeInv, HandsOK, WorkersOK
<1> QED BY <1>2, HandStep DEF ReapJobs

-----------------------------------------------------------------------------
(* The whole step, and the theorems.                                       *)

\* A request touches the queue only to enqueue its job.
LEMMA ApiKeepsWorkers ==
  ASSUME NEW d \in Requests,
         Request(d) \/ Replay(d) \/ EnqueueJob(d) \/ RequestDies(d) \/ PromoteByHand(d)
  PROVE  [Next]_workerVars
<1>1. CASE EnqueueJob(d)
  BY <1>1, PipelineAssumption DEF EnqueueJob, Next, Untimed, PipelineAssumption
<1>2. CASE Request(d) \/ Replay(d) \/ RequestDies(d) \/ PromoteByHand(d)
  BY <1>2 DEF Request, Replay, RequestDies, PromoteByHand, pipelineVars, workerVars
<1> QED BY <1>1, <1>2

\* Cancelling never touches the queue.
LEMMA CancelKeepsWorkers ==
  ASSUME Cancelling
  PROVE  UNCHANGED workerVars
BY DEF Cancelling, ReadForCancel, EngineCancels, EngineRefuses, CloseCancelled,
       KeepUncancelled, CancelDies

\* The handler's last step is the worker's HandlerReturns.
LEMMA ReturnIsWorkerStep ==
  ASSUME NEW w \in Workers, NEW r \in Results, NEW h, Return(w, r, h)
  PROVE  Next
BY DEF Return, Next, Untimed, WorkerStep

\* A step of the handler is a worker's claim, return or settling, or none.
LEMMA ExecuteIsWorkerStep ==
  ASSUME PipeInv, WorkersOK, NEW w \in Workers, Execute(w)
  PROVE  [Next]_workerVars
<1>1. ASSUME Refused(w) PROVE Next
  BY <1>1, ReturnIsWorkerStep DEF Refused, Refusals, Results
<1>2. CASE Start(w)
  BY <1>2 DEF Start, Next, Untimed, WorkerStep
<1>3. CASE ReadTarget(w) \/ RememberApplication(w) \/ MarkInFlight(w)
  BY <1>3 DEF ReadTarget, RememberApplication, MarkInFlight
<1>4. CASE ReadRow(w)
  <2>1. CASE Return(w, "degraded", NoBuild)
    BY <2>1, ReturnIsWorkerStep DEF Results
  <2>2. CASE UNCHANGED workerVars
    BY <2>2
  <2> QED BY <1>4, <2>1, <2>2 DEF ReadRow
<1>5. CASE Poll(w)
  BY <1>1, <1>5, AskedOK, ReturnIsWorkerStep DEF Poll, At
<1>6. CASE CreateApplication(w) \/ Deploy(w)
  BY <1>1, <1>6 DEF CreateApplication, Deploy
<1>7. CASE Confirm(w)
  BY <1>7, AskedOK, ReturnIsWorkerStep DEF Confirm, At
<1>8. CASE HandlerThrows(w)
  BY <1>8, ReturnIsWorkerStep DEF HandlerThrows, Results
<1>9. CASE SettleJob(w)
  BY <1>9 DEF SettleJob, Next, Untimed, WorkerStep
<1> QED BY <1>2, <1>3, <1>4, <1>5, <1>6, <1>7, <1>8, <1>9 DEF Execute

\* A pipeline step is a step of the workers below, or leaves them alone.
LEMMA StepIsWorkerStep ==
  ASSUME PipeInv, WorkersOK, [PipelineNext]_pipelineVars
  PROVE  [Next]_workerVars
<1>1. ASSUME NEW w \in Workers, Execute(w) PROVE [Next]_workerVars
  BY <1>1, ExecuteIsWorkerStep
<1>2. ASSUME NEW w \in Workers, Conclude(w) PROVE [Next]_workerVars
  <2>1. Apply(w) \/ UNCHANGED workerVars
    BY <1>2 DEF Conclude, WriteOutcome, PromoteOutcome, BillOutcome, Finish
  <2> QED BY <2>1 DEF Next, Untimed, WorkerStep
<1>3. ASSUME NEW w \in Workers, ReapJobs(w) \/ Sweep(w) \/ Ask(w) \/ Stop(w)
      PROVE  [Next]_workerVars
  <2>1. Reap(w) \/ Abandon(w) \/ UNCHANGED workerVars
    BY <1>3 DEF ReapJobs, Sweep, Ask, Stop
  <2> QED BY <2>1 DEF Next, Untimed, WorkerStep
<1>4. CASE Ordering
  BY <1>4, ApiKeepsWorkers DEF Ordering
<1>5. CASE Cancelling
  BY <1>5, CancelKeepsWorkers
<1>6. CASE EngineBuilds
  BY <1>6 DEF EngineBuilds
<1>7. CASE TimePasses
  <2>1. UNCHANGED workerVars \/ Clock
    BY <1>7 DEF TimePasses, Clock, Tick, workerVars
  <2> QED BY <2>1 DEF Next
<1>8. CASE UNCHANGED pipelineVars
  BY <1>8 DEF pipelineVars, workerVars
<1> QED BY <1>1, <1>2, <1>3, <1>4, <1>5, <1>6, <1>7, <1>8
        DEF PipelineNext, QuietNext, Work, Surroundings

\* Every step keeps the invariant.
LEMMA StepKeeps ==
  ASSUME PipeInv, WorkersOK, [PipelineNext]_pipelineVars
  PROVE  PipeInv'
<1>1. ASSUME NEW w \in Workers, Execute(w) PROVE PipeInv'
  BY <1>1, StartKeeps, ReadTargetKeeps, ReadRowKeeps, PollKeeps, CreateApplicationKeeps,
     RememberApplicationKeeps, DeployKeeps, MarkInFlightKeeps, ConfirmKeeps,
     HandlerThrowsKeeps, SettleJobKeeps DEF Execute
<1>2. ASSUME NEW w \in Workers, Conclude(w) PROVE PipeInv'
  BY <1>2, WriteOutcomeKeeps, PromoteOutcomeKeeps, BillOutcomeKeeps DEF Conclude
<1>3. ASSUME NEW w \in Workers, ReapJobs(w) \/ Sweep(w) \/ Ask(w) PROVE PipeInv'
  BY <1>3, ReapJobsKeeps, SweepKeeps, AskKeeps
<1>4. CASE Ordering
  <2>1. UNCHANGED wk
    BY <1>4 DEF Ordering, Request, Replay, EnqueueJob, RequestDies, PromoteByHand, Submit,
                workerVars, pipelineVars
  <2> QED BY <1>4, <2>1, OrderingKeeps
<1>5. CASE Cancelling
  BY <1>5, CancelKeepsWorkers, CancellingKeeps DEF workerVars
<1>6. CASE Surroundings
  BY <1>6, SurroundingsKeep
<1>7. CASE UNCHANGED pipelineVars
  BY <1>7 DEF pipelineVars, PipeInv, BuildsOK, RowsKnown, Ledgers, HandsOK, HandOK, Linked,
              CancelOK, Told
<1> QED BY <1>1, <1>2, <1>3, <1>4, <1>5, <1>6, <1>7 DEF PipelineNext, QuietNext, Work

\* Nothing is ordered, held or billed at first.
LEMMA PipelineInitOK == PipelineInit => TypeOK /\ PipeInv
<1> SUFFICES ASSUME PipelineInit PROVE TypeOK /\ PipeInv
  OBVIOUS
<1> USE DEF PipelineInit, DeploymentsInit
<1>1. TypeOK
  BY WorkersInit, TypeOKParts
<1>2. 0 \in 0..MaxBuilds /\ 0 \in 0..GiveUpTicks /\ 0 \in 0..Many
  BY DeploymentsAssumption DEF DeploymentsAssumption, Many
<1>3. BuildsOK(builds) /\ \A d \in Requests : Len(builds[d]) = 0
  BY <1>2 DEF BuildsOK
<1>4. RowsKnown(row, builds)
  BY <1>2, <1>3 DEF RowsKnown, DeploymentRow, NoBuild
<1>5. Ledgers
  BY <1>2 DEF Ledgers, NoApplication
<1>6. HandsOK
  BY EmptyOK DEF HandsOK, WorkerInit, Tick0
<1>7. CancelOK(cancel, builds)
  BY <1>2 DEF CancelOK, NoCancel, NoBuild
<1>8. Told
  BY DeploymentsAssumption DEF Told, DeploymentsAssumption
<1> QED BY <1>1, <1>3, <1>4, <1>5, <1>6, <1>7, <1>8 DEF PipeInv

\* The invariant holds of every reachable state of the pipeline.
LEMMA PipeInvHolds == PipelineSpec => [](TypeOK /\ PipeInv)
<1>1. TypeOK /\ PipeInv /\ [PipelineNext]_pipelineVars => (TypeOK /\ PipeInv)'
  <2> SUFFICES ASSUME TypeOK, PipeInv, [PipelineNext]_pipelineVars
               PROVE  TypeOK' /\ PipeInv'
    OBVIOUS
  <2>1. WorkersOK
    BY TypeOKParts
  <2> QED BY <2>1, StepIsWorkerStep, TypeStep, StepKeeps
<1> QED BY <1>1, PipelineInitOK, PTL DEF PipelineSpec

\* A pipeline whose customers never cancel is a pipeline.
LEMMA QuietIsPipeline == QuietSpec => PipelineSpec
<1>1. [QuietNext]_pipelineVars => [PipelineNext]_pipelineVars
  BY DEF PipelineNext
<1> QED BY <1>1, PTL DEF QuietSpec, PipelineSpec

\* For any number of requests and workers every variable keeps its type, and a
\* handle in a row names a build the engine has.
THEOREM PipelineTypeCorrect == PipelineSpec => []PipelineTypeOK
<1>1. TypeOK /\ PipeInv => PipelineTypeOK
  <2> SUFFICES ASSUME TypeOK, PipeInv PROVE PipelineTypeOK
    OBVIOUS
  <2>1. DeploymentsType
    BY DEF PipeInv, BuildsOK, RowsKnown, Ledgers, DeploymentsType
  <2>2. \A w \in Workers : At(w, "write") => hand[w].dep \in Requests /\ hand[w].status # "none"
    BY DEF PipeInv, HandsOK, HandOK, At
  <2> QED BY <2>1, <2>2 DEF PipeInv, Ledgers, HandsOK, CancelOK, PipelineTypeOK
<1> QED BY <1>1, PipeInvHolds, PTL

\* Handler, applier, sweep, cancel and promotion never call succeeded, make live
\* or bill what the engine did not finish, however they interleave.
THEOREM OnlyTheEngine == PipelineSpec => []OnlyTheEngineSucceeds
<1>1. PipeInv => OnlyTheEngineSucceeds
  BY DEF PipeInv, Told, OnlyTheEngineSucceeds, Confirmed, Ended
<1> QED BY <1>1, PipeInvHolds, PTL

\* The deployment handler and applier use the queue the way Worker says they
\* do, so what is proved of Worker holds of the pipeline.
THEOREM WorkersRun == PipelineSpec => RunsWorkers
<1>1. PipelineInit => WorkerInit
  BY DEF PipelineInit
<1>2. TypeOK /\ PipeInv /\ [PipelineNext]_pipelineVars => [Next]_workerVars
  BY TypeOKParts, StepIsWorkerStep
<1> QED BY <1>1, <1>2, PipeInvHolds, PTL DEF PipelineSpec, RunsWorkers, Spec

\* In particular a deployment job is recorded succeeded only if its handler
\* said so, and a late deferral never revives it.
THEOREM PipelineJobs == PipelineSpec => []Honest /\ DeferNeverResurrects
BY WorkersRun, Honesty, DeferSafety, PTL DEF RunsWorkers

\* Applier and sweep hold a staged build back: only a customer's promotion
\* makes it live.
THEOREM StagedStays == PipelineSpec => StagedIsHeldBack
<1>1. TypeOK /\ PipeInv /\ [PipelineNext]_pipelineVars =>
        [\A d \in Staged : live # d /\ live' = d => PromoteByHand(d)]_pipelineVars
  <2> SUFFICES ASSUME TypeOK, PipeInv, PipelineNext,
                      NEW d \in Staged, live # d, live' = d
               PROVE  PromoteByHand(d)
    BY DEF pipelineVars
  <2>1. ASSUME NEW w \in Workers, PromoteOutcome(w) PROVE FALSE
    <3>1. HandOK(hand[w], builds) /\ hand[w].pc = "promote"
      BY <2>1 DEF PromoteOutcome, At, PipeInv, HandsOK
    <3>2. hand[w].dep \notin Staged /\ live' = hand[w].dep
      BY <2>1, <3>1 DEF HandOK, PromoteOutcome, Promote, Dep
    <3> QED BY <3>2
  <2>2. ASSUME NEW e \in Requests, PromoteByHand(e) PROVE PromoteByHand(d)
    <3>1. live' = e
      BY <2>2 DEF PromoteByHand, Promote
    <3> QED BY <2>2, <3>1
  <2>3. ASSUME NEW w \in Workers, Execute(w) PROVE live' = live
    BY <2>3 DEF Execute, Start, ReadTarget, ReadRow, Poll, CreateApplication,
       RememberApplication, Deploy, MarkInFlight, Confirm, HandlerThrows, SettleJob,
       deploymentVars
  <2>4. ASSUME NEW w \in Workers,
               WriteOutcome(w) \/ BillOutcome(w) \/ ReapJobs(w) \/ Sweep(w) \/ Ask(w) \/ Stop(w)
        PROVE  live' = live
    BY <2>4 DEF WriteOutcome, BillOutcome, ReapJobs, Sweep, Ask, Stop, deploymentVars
  <2>5. ASSUME NEW e \in Requests, Request(e) \/ Replay(e) \/ EnqueueJob(e) \/ RequestDies(e)
        PROVE  live' = live
    BY <2>5 DEF Request, Replay, EnqueueJob, RequestDies, deploymentVars, pipelineVars
  <2>6. ASSUME Cancelling PROVE live' = live
    BY <2>6 DEF Cancelling, ReadForCancel, EngineCancels, EngineRefuses, CloseCancelled,
       KeepUncancelled, CancelDies, deploymentVars, BuildEnds
  <2>7. ASSUME EngineBuilds \/ TimePasses PROVE live' = live
    BY <2>7 DEF EngineBuilds, BuildEnds, TimePasses
  <2> QED BY <2>1, <2>2, <2>3, <2>4, <2>5, <2>6, <2>7
          DEF PipelineNext, QuietNext, Ordering, Work, Conclude, Surroundings
<1> QED BY <1>1, PipeInvHolds, PTL DEF PipelineSpec, StagedIsHeldBack
-----------------------------------------------------------------------------
(* A single worker process.  Nobody else writes between what its handler   *)
(* reads and what it does with it, apart from customers who cancel.        *)

\* One worker process keeps the contract of a job queue for the pipeline,
\* although its handlers may outlive their leases.
THEOREM PipelinePromise ==
  ASSUME OneWorker
  PROVE  PipelineSpec => KeepsPromise
BY WorkersRun, SoloPromise DEF RunsWorkers

\* The steps of the handler between its reads and the build it asks for.
Unbuilt == {"create", "remember", "deploy"}

\* A step of worker w leaves those steps and the reads before them, or goes on
\* from one to the next; it writes the row or the project only as it leaves.
Leads(w) ==
  \/ hand'[w].pc \notin {"row"} \cup Unbuilt
  \/ hand'[w].pc = "row" /\ hand'[w].app = application /\ UNCHANGED <<row, application>>
  \/ /\ hand[w].pc = "row" /\ ~ Resumable(Dep(w)) /\ hand'[w].dep = hand[w].dep
     /\ hand'[w].pc = "deploy" \/ (hand'[w].pc = "create" /\ hand[w].app = NoApplication)
     /\ UNCHANGED <<row, application>>
  \/ /\ hand[w].pc \in Unbuilt /\ hand'[w].pc \in {"remember", "deploy"}
     /\ hand'[w].dep = hand[w].dep /\ UNCHANGED row
  \/ UNCHANGED <<hand, row, application>>

LEMMA ReturnLeads ==
  ASSUME hand \in [Workers -> Hands], NEW w \in Workers, NEW r, NEW h, Return(w, r, h)
  PROVE  Leads(w)
BY DEF Return, Hands, Leads, Unbuilt

LEMMA SweepingPc ==
  ASSUME NEW m, NEW todo, m = Empty \/ m = [Empty EXCEPT !.pc = "sweep", !.todo = todo]
  PROVE  m.pc \in {"none", "sweep"}
<1>1. Empty.pc = "none" /\ Empty \in Hands
  BY EmptyOK
<1> QED BY <1>1 DEF Hands

LEMMA FinishLeads ==
  ASSUME hand \in [Workers -> Hands], NEW w \in Workers, Finish(w)
  PROVE  Leads(w)
<1>1. PICK m : /\ hand' = [hand EXCEPT ![w] = m]
               /\ m = Empty \/ m = [Empty EXCEPT !.pc = "sweep", !.todo = hand[w].todo]
  BY DEF Finish
<1>2. m.pc \in {"none", "sweep"}
  BY <1>1, SweepingPc
<1> QED BY <1>1, <1>2 DEF Leads, Unbuilt

LEMMA GoToLeads ==
  ASSUME hand \in [Workers -> Hands], NEW w \in Workers, NEW pc, GoTo(w, pc)
  PROVE  hand'[w].pc = pc /\ hand'[w].dep = hand[w].dep
BY DEF GoTo, Hands

LEMMA ExecuteLeads ==
  ASSUME hand \in [Workers -> Hands], NEW w \in Workers, Execute(w)
  PROVE  Leads(w)
<1>1. CASE Start(w)
  <2>1. hand'[w].pc = "target"
    BY <1>1 DEF Start, Empty
  <2> QED BY <2>1 DEF Leads, Unbuilt
<1>2. CASE ReadTarget(w)
  BY <1>2 DEF ReadTarget, Leads, Hands, deploymentVars
<1>3. CASE ReadRow(w)
  <2>1. CASE hand' = [hand EXCEPT ![w].pc = "poll", ![w].handle = row[Dep(w)].handle]
    BY <2>1 DEF Leads, Unbuilt, Hands
  <2>2. CASE /\ ~ Resumable(Dep(w))
             /\ GoTo(w, "deploy") \/ (GoTo(w, "create") /\ hand[w].app = NoApplication)
    BY <1>3, <2>2, GoToLeads DEF ReadRow, At, Leads, deploymentVars
  <2>3. CASE Return(w, "degraded", NoBuild)
    BY <2>3, ReturnLeads
  <2> QED BY <1>3, <2>1, <2>2, <2>3 DEF ReadRow
<1>4. CASE Poll(w) \/ Confirm(w) \/ HandlerThrows(w)
  BY <1>4, ReturnLeads DEF Poll, Confirm, HandlerThrows, Refused
<1>5. CASE CreateApplication(w)
  <2>1. CASE hand' = [hand EXCEPT ![w].pc = "remember", ![w].app = applications']
    BY <1>5, <2>1 DEF CreateApplication, At, Leads, Unbuilt, Hands
  <2> QED BY <1>5, <2>1, ReturnLeads DEF CreateApplication, Refused
<1>6. CASE RememberApplication(w)
  BY <1>6, GoToLeads DEF RememberApplication, At, Leads, Unbuilt
<1>7. CASE Deploy(w)
  <2>1. CASE hand' = [hand EXCEPT ![w].pc = "mark", ![w].handle = Len(builds'[Dep(w)])]
    BY <2>1 DEF Leads, Unbuilt, Hands
  <2> QED BY <1>7, <2>1, ReturnLeads DEF Deploy, Refused
<1>8. CASE MarkInFlight(w)
  BY <1>8, GoToLeads DEF MarkInFlight, Leads, Unbuilt
<1>9. CASE SettleJob(w)
  <2>1. CASE hand' = hand
    BY <1>9, <2>1 DEF SettleJob, Leads, deploymentVars
  <2>2. CASE hand' = [hand EXCEPT ![w].pc = "write", ![w].status = wk[w].res,
                                  ![w].handle = IF AtCeiling(w) THEN NoBuild ELSE @]
    BY <2>2 DEF Leads, Unbuilt, Hands
  <2> QED BY <1>9, <2>1, <2>2 DEF SettleJob
<1> QED BY <1>1, <1>2, <1>3, <1>4, <1>5, <1>6, <1>7, <1>8, <1>9 DEF Execute

LEMMA WorkLeads ==
  ASSUME hand \in [Workers -> Hands], NEW w \in Workers, Work(w) \/ Stop(w)
  PROVE  Leads(w)
<1>1. CASE Execute(w)
  BY <1>1, ExecuteLeads
<1>2. CASE Conclude(w)
  BY <1>2, GoToLeads, FinishLeads
     DEF Conclude, WriteOutcome, PromoteOutcome, BillOutcome, Leads, Unbuilt
<1>3. CASE ReapJobs(w)
  BY <1>3 DEF ReapJobs, Leads, deploymentVars
<1>4. CASE Sweep(w) \/ Stop(w)
  <2>1. PICK m, todo : /\ hand' = [hand EXCEPT ![w] = m]
                       /\ m = Empty \/ m = [Empty EXCEPT !.pc = "sweep", !.todo = todo]
    BY <1>4 DEF Sweep, Stop
  <2>2. m.pc \in {"none", "sweep"}
    BY <2>1, SweepingPc
  <2> QED BY <2>1, <2>2 DEF Leads, Unbuilt
<1>5. CASE Ask(w)
  <2>1. PICK s \in hand[w].todo : \E verdict \in Verdicts(s) :
          LET todo == hand[w].todo \ {s}
          IN  hand' = [hand EXCEPT ![w] =
                IF verdict # "running"
                THEN [Empty EXCEPT !.pc = "write", !.dep = s.dep, !.status = verdict,
                                   !.handle = s.handle, !.todo = todo]
                ELSE IF todo = {} THEN Empty ELSE [@ EXCEPT !.todo = todo]]
    BY <1>5 DEF Ask
  <2>2. PICK m, verdict :
          /\ hand' = [hand EXCEPT ![w] = m]
          /\ \/ m = [Empty EXCEPT !.pc = "write", !.dep = s.dep, !.status = verdict,
                                  !.handle = s.handle, !.todo = hand[w].todo \ {s}]
             \/ m = Empty
             \/ m = [hand[w] EXCEPT !.todo = hand[w].todo \ {s}]
    BY <2>1
  <2>3. Empty.pc = "none" /\ Empty \in Hands /\ hand[w] \in Hands /\ hand[w].pc = "sweep"
    BY <1>5, EmptyOK DEF Ask, At
  <2>4. m.pc \in {"none", "sweep", "write"}
    BY <2>2, <2>3 DEF Hands
  <2> QED BY <2>2, <2>4 DEF Leads, Unbuilt
<1> QED BY <1>1, <1>2, <1>3, <1>4, <1>5 DEF Work

\* What the handler read of the project still stands while it acts on it.
ProjectStands ==
  \A w \in Workers : /\ At(w, "row") => hand[w].app = application
                     /\ At(w, "create") => application = NoApplication

LEMMA ProjectStep ==
  ASSUME OneWorker, hand \in [Workers -> Hands], ProjectStands, [PipelineNext]_pipelineVars
  PROVE  ProjectStands'
<1>1. ASSUME NEW w \in Workers, Work(w) \/ Stop(w) PROVE ProjectStands'
  BY <1>1, WorkLeads DEF Leads, Unbuilt, ProjectStands, OneWorker, At
<1>2. CASE UNCHANGED <<hand, application>>
  BY <1>2 DEF ProjectStands, At
<1>3. CASE Ordering \/ Cancelling \/ EngineBuilds \/ TimePasses
  BY <1>2, <1>3 DEF Ordering, Request, Replay, EnqueueJob, RequestDies, PromoteByHand,
     Cancelling, ReadForCancel, EngineCancels, EngineRefuses, CloseCancelled, KeepUncancelled,
     CancelDies, BuildEnds, EngineBuilds, TimePasses, deploymentVars, pipelineVars
<1> QED BY <1>1, <1>2, <1>3 DEF PipelineNext, QuietNext, Surroundings, pipelineVars

\* One worker process creates an application only for a project that remembers
\* none: the one it created and remembered is found by every later deployment.
THEOREM ApplicationReused ==
  ASSUME OneWorker
  PROVE  PipelineSpec => RememberedIsReused
<1>1. PipelineInit => ProjectStands
  BY DEF PipelineInit, Empty, ProjectStands, At
<1>2. PipelineTypeOK /\ ProjectStands /\ [PipelineNext]_pipelineVars => ProjectStands'
  BY ProjectStep DEF PipelineTypeOK
<1>3. ProjectStands /\ [PipelineNext]_pipelineVars =>
        [\A w \in Workers : CreateApplication(w) => application = NoApplication]_pipelineVars
  BY DEF CreateApplication, ProjectStands
<1> QED BY <1>1, <1>2, <1>3, PipelineTypeCorrect, PTL DEF PipelineSpec, RememberedIsReused

\* What the handler read of the row still stands while it acts on it: there is
\* no build in flight whose handle the row carries.
RowStands ==
  /\ \A d \in Requests : row[d].status = "absent" => row[d].handle = NoBuild
  /\ \A w \in Workers : hand[w].pc \in Unbuilt => ~ Resumable(Dep(w))

LEMMA WriteStands ==
  ASSUME row \in [Requests -> DeploymentRow], NEW d \in Requests, NEW s, s # "absent", NEW h,
         Write(d, s, h), \A e \in Requests : row[e].status = "absent" => row[e].handle = NoBuild
  PROVE  \A e \in Requests : row'[e].status = "absent" => row'[e].handle = NoBuild
BY DEF Write, DeploymentRow

LEMMA RowStep ==
  ASSUME OneWorker, PipeInv, RowStands, [QuietNext]_pipelineVars
  PROVE  RowStands'
<1>0. hand \in [Workers -> Hands] /\ row \in [Requests -> DeploymentRow]
  BY DEF PipeInv, HandsOK, RowsKnown
<1>1. ASSUME NEW w \in Workers, Work(w) \/ Stop(w) PROVE RowStands'
  <2>1. \A d \in Requests : row'[d].status = "absent" => row'[d].handle = NoBuild
    <3>1. CASE UNCHANGED row
      BY <3>1 DEF RowStands
    <3>2. ASSUME NEW s, NEW h, s # "absent", hand[w].pc \in {"mark", "write"}, Write(Dep(w), s, h)
          PROVE  \A d \in Requests : row'[d].status = "absent" => row'[d].handle = NoBuild
      BY <1>0, <3>2, Holding, WriteStands DEF RowStands
    <3>3. hand[w].status # "absent"
      BY <1>0 DEF Hands, Results
    <3>4. UNCHANGED row \/ MarkInFlight(w) \/ HandlerThrows(w) \/ WriteOutcome(w)
      BY <1>1 DEF Work, Stop, Execute, Conclude, Start, ReadTarget, ReadRow, Poll, CreateApplication,
         RememberApplication, Deploy, Confirm, SettleJob, PromoteOutcome, BillOutcome, ReapJobs,
         Sweep, Ask, deploymentVars
    <3> QED BY <3>1, <3>2, <3>3, <3>4 DEF MarkInFlight, HandlerThrows, WriteOutcome, At, deploymentVars
  <2>2. \A v \in Workers : hand'[v].pc \in Unbuilt => ~ Resumable(Dep(v))'
    BY <1>0, <1>1, WorkLeads DEF Leads, Unbuilt, RowStands, OneWorker, Dep, Resumable, IsInFlight
  <2> QED BY <2>1, <2>2 DEF RowStands
<1>2. ASSUME UNCHANGED hand, \A d \in Requests : \/ row'[d].handle = row[d].handle /\ row'[d].status = row[d].status
                                                 \/ row'[d].status = "pending" /\ row'[d].handle = NoBuild
      PROVE RowStands'
  <2>1. \A w \in Workers : hand[w].pc \in Unbuilt => Dep(w) \in Requests
    BY Holding DEF Unbuilt
  <2> QED BY <1>2, <2>1 DEF RowStands, Resumable, IsInFlight, Dep
<1>3. ASSUME NEW d \in Requests, Request(d) PROVE RowStands'
  BY <1>0, <1>2, <1>3 DEF Request, Insert, RowStands, DeploymentRow
<1>4. CASE TimePasses
  <2>1. UNCHANGED hand /\ RowsAge
    BY <1>4 DEF TimePasses
  <2>2. \A d \in Requests : row'[d].handle = row[d].handle /\ row'[d].status = row[d].status
    BY <1>0, <2>1 DEF RowsAge, DeploymentRow
  <2> QED BY <1>2, <2>1, <2>2
<1>5. CASE UNCHANGED <<hand, row>>
  BY <1>2, <1>5
<1> QED BY <1>1, <1>3, <1>4, <1>5 DEF QuietNext, Surroundings, Ordering, Replay, EnqueueJob,
       RequestDies, PromoteByHand, EngineBuilds, BuildEnds, deploymentVars, pipelineVars

\* Customers who cancel apart, one worker process asks for no second build
\* beside one in flight whose handle the row carries: a redelivered job polls.
THEOREM InFlightPolled ==
  ASSUME OneWorker
  PROVE  QuietSpec => InFlightIsPolled
<1>1. PipelineInit => RowStands
  BY DEF PipelineInit, DeploymentsInit, Empty, RowStands, Unbuilt
<1>2. TypeOK /\ PipeInv /\ RowStands /\ [QuietNext]_pipelineVars => RowStands'
  BY RowStep
<1>3. RowStands /\ [QuietNext]_pipelineVars =>
        [\A w \in Workers : Deploy(w) => ~ Resumable(Dep(w))]_pipelineVars
  BY DEF Deploy, At, RowStands, Unbuilt
<1> QED BY <1>1, <1>2, <1>3, QuietIsPipeline, PipeInvHolds, PTL DEF QuietSpec, InFlightIsPolled
=============================================================================
