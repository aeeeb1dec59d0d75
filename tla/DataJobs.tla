------------------------------- MODULE DataJobs -------------------------------
(***************************************************************************)
(* One database of an organization: the requests that provision it, back   *)
(* it up and restore it (apps/api data.ts), the worker that carries the    *)
(* backups and restores out (backup-job.ts, restore-job.ts), the usage it  *)
(* records and the hard cap on it (billing.ts).  The queue is the one      *)
(* JobContract promises; each backup and restore row has a job of its own, *)
(* keyed by the row.  The worker settles a job before it applies the       *)
(* outcome.  The database engine is external and repeats whatever it is    *)
(* asked again.                                                            *)
(***************************************************************************)
EXTENDS Naturals, FiniteSets

CONSTANTS Backups, Restores, \* identities of rows
          DataRequests,      \* API requests served at a time
          Limit,             \* the hard cap on backups in the period
          Hand,              \* the worker process
          DataAttempts,      \* max_attempts of a job
          NoWork, NoHand

ASSUME DataAssumption ==
  /\ Backups \cap Restores = {} /\ NoWork \notin Backups \cup Restores
  /\ Limit \in Nat /\ DataAttempts \in Nat \ {0} /\ IsFiniteSet(Backups) /\ NoHand # Hand

Works == Backups \cup Restores

VARIABLES
  database,   \* absent, provisioning, ready, failed
  work,       \* backup or restore row -> absent, pending, succeeded, failed
  source,     \* restore -> the backup it reads
  ask,        \* request -> its place and the row it is about
  hand,       \* the worker's place, job and result
  wphase, wholder, wspent, wsaid,   \* the queue
  used,       \* usage recorded for the period
  done,       \* history: how often the engine carried out each row
  repeated,   \* history: rows whose worker died or whose answer was lost
  overlapped  \* history: a backup was admitted before another was counted

WorkQueue == INSTANCE JobContract WITH
  Jobs <- Works, Workers <- {Hand}, MaxAttempts <- DataAttempts, Nobody <- NoHand,
  phase <- wphase, holder <- wholder, spent <- wspent, said <- wsaid

workQueueVars == <<wphase, wholder, wspent, wsaid>>
ledgerVars == <<used, done, repeated, overlapped>>
dataVars == <<database, work, source, ask, hand, workQueueVars, ledgerVars>>

NoAsk == [at |-> "idle", row |-> NoWork, from |-> NoWork]
Free == [at |-> "idle", job |-> NoWork, result |-> "none"]

DataInit ==
  /\ database = "absent"
  /\ work = [x \in Works |-> "absent"]
  /\ source = [x \in Restores |-> NoWork]
  /\ ask = [r \in DataRequests |-> NoAsk]
  /\ hand = Free
  /\ WorkQueue!ContractInit
  /\ used = 0
  /\ done = [x \in Works |-> 0]
  /\ repeated = {}
  /\ overlapped = FALSE

AskFor(r, place, x, from) ==
  /\ ask[r] = NoAsk
  /\ ask' = [ask EXCEPT ![r] = [at |-> place, row |-> x, from |-> from]]

Then(r, place) == ask' = [ask EXCEPT ![r].at = place]
Answered(r) == ask' = [ask EXCEPT ![r] = NoAsk]

\* provisionDataResource: the row is written before the engine is asked.
Provision(r) ==
  /\ database = "absent"
  /\ AskFor(r, "provision", NoWork, NoWork)
  /\ database' = "provisioning"
  /\ UNCHANGED <<work, source, hand, workQueueVars, ledgerVars>>

ProvisionAnswered(r) ==
  /\ ask[r].at = "provision"
  /\ database' \in {"ready", "failed"}
  /\ Answered(r)
  /\ UNCHANGED <<work, source, hand, workQueueVars, ledgerVars>>

\* A backup that was admitted and may still be counted.
Uncounted(x) == \/ work[x] = "pending"
                \/ hand.job = x
                \/ wphase[x] \in {"waiting", "taken"}
                \/ \E r \in DataRequests : ask[r].at # "idle" /\ ask[r].row = x

\* Faulty: a budget that is used up is not over.
BackupAdmittedAtLimit(r, b) ==
  /\ database = "ready"
  /\ work[b] = "absent" /\ \A s \in DataRequests : ask[s].row # b
  /\ used <= Limit
  /\ AskFor(r, "row", b, NoWork)
  /\ overlapped' = (overlapped \/ \E x \in Backups : Uncounted(x))
  /\ UNCHANGED <<database, work, source, hand, workQueueVars, used, done, repeated>>

\* backupDataResource: an engine handle and room under the cap, which reserves
\* nothing; then the row, then the job.
BackupAdmitted(r, b) ==
  /\ database = "ready"
  /\ work[b] = "absent" /\ \A s \in DataRequests : ask[s].row # b
  /\ used < Limit
  /\ AskFor(r, "row", b, NoWork)
  /\ overlapped' = (overlapped \/ \E x \in Backups : Uncounted(x))
  /\ UNCHANGED <<database, work, source, hand, workQueueVars, used, done, repeated>>

\* restoreDataResource: from a backup of this database that succeeded.
RestoreAdmitted(r, x, b) ==
  /\ database = "ready"
  /\ work[x] = "absent" /\ \A s \in DataRequests : ask[s].row # x
  /\ work[b] = "succeeded"
  /\ AskFor(r, "row", x, b)
  /\ UNCHANGED <<database, work, source, hand, workQueueVars, ledgerVars>>

RowCreated(r) ==
  LET x == ask[r].row IN
  /\ ask[r].at = "row"
  /\ work' = [work EXCEPT ![x] = "pending"]
  /\ source' = IF x \in Restores THEN [source EXCEPT ![x] = ask[r].from] ELSE source
  /\ Then(r, "enqueue")
  /\ UNCHANGED <<database, hand, workQueueVars, ledgerVars>>

JobEnqueued(r) ==
  /\ ask[r].at = "enqueue"
  /\ WorkQueue!Submit(ask[r].row)
  /\ Answered(r)
  /\ UNCHANGED <<database, work, source, hand, ledgerVars>>

\* The API process stops: a row without a job, or no row at all.
AskDies(r) ==
  /\ ask[r] # NoAsk
  /\ repeated' = repeated \cup ({ask[r].row} \cap Works)
  /\ Answered(r)
  /\ UNCHANGED <<database, work, source, hand, workQueueVars, used, done, overlapped>>

HandTakes(x) ==
  /\ hand = Free
  /\ WorkQueue!Take(x, Hand)
  /\ hand' = [at |-> "work", job |-> x, result |-> "none"]
  /\ UNCHANGED <<database, work, source, ask, ledgerVars>>

\* The rows the job names are read again before the engine is asked.
Ready(x) == database = "ready" /\ (x \in Restores => work[source[x]] = "succeeded")

EngineDoes ==
  /\ hand.at = "work" /\ Ready(hand.job)
  /\ done' = [done EXCEPT ![hand.job] = @ + 1]
  /\ hand' = [hand EXCEPT !.at = "settle", !.result = "succeeded"]
  /\ WorkQueue!Report(hand.job)
  /\ UNCHANGED <<database, work, source, ask, used, repeated, overlapped>>

\* The engine did it but the answer came too late.
EngineUnheard ==
  /\ hand.at = "work" /\ Ready(hand.job)
  /\ done' = [done EXCEPT ![hand.job] = @ + 1]
  /\ repeated' = repeated \cup {hand.job}
  /\ hand' = [hand EXCEPT !.at = "settle", !.result = "failed"]
  /\ UNCHANGED <<database, work, source, ask, workQueueVars, used, overlapped>>

\* Out of reach (to be retried), or not configured or degraded (final).
EngineDoesNot ==
  /\ hand.at = "work"
  /\ \E result \in {"failed", "degraded"} :
       hand' = [hand EXCEPT !.at = "settle", !.result = result]
  /\ UNCHANGED <<database, work, source, ask, workQueueVars, ledgerVars>>

JobSettled ==
  /\ hand.at = "settle"
  /\ CASE hand.result = "succeeded" -> WorkQueue!End(hand.job, "succeeded")
       [] hand.result = "degraded"  -> WorkQueue!End(hand.job, "failed")
       [] hand.result = "failed"    -> WorkQueue!Retry(hand.job)
  /\ hand' = [hand EXCEPT !.at = "apply"]
  /\ UNCHANGED <<database, work, source, ask, ledgerVars>>

\* Faulty: an outcome that is not a failure is a success.
RowAppliedUnlessFailed ==
  LET x == hand.job IN
  /\ hand.at = "apply"
  /\ work' = [work EXCEPT ![x] = IF hand.result = "failed" THEN "failed" ELSE "succeeded"]
  /\ hand' = IF hand.result # "failed" /\ x \in Backups
             THEN [hand EXCEPT !.at = "count"] ELSE Free
  /\ UNCHANGED <<database, source, ask, workQueueVars, ledgerVars>>

\* The applier writes the engine's answer onto the row; a succeeded backup is
\* then counted, in a write of its own.
RowApplied ==
  LET x == hand.job IN
  /\ hand.at = "apply"
  /\ work' = [work EXCEPT ![x] = IF hand.result = "succeeded" THEN "succeeded" ELSE "failed"]
  /\ hand' = IF hand.result = "succeeded" /\ x \in Backups
             THEN [hand EXCEPT !.at = "count"] ELSE Free
  /\ UNCHANGED <<database, source, ask, workQueueVars, ledgerVars>>

UsageRecorded ==
  /\ hand.at = "count"
  /\ used' = used + 1
  /\ hand' = Free
  /\ UNCHANGED <<database, work, source, ask, workQueueVars, done, repeated, overlapped>>

\* The worker stops anywhere; a job it had not settled is taken back later.
HandDies ==
  /\ hand # Free
  /\ IF wholder[hand.job] = Hand THEN WorkQueue!Die(hand.job) ELSE UNCHANGED workQueueVars
  /\ repeated' = repeated \cup {hand.job}
  /\ hand' = Free
  /\ UNCHANGED <<database, work, source, ask, used, done, overlapped>>

WorkTakenBack ==
  /\ WorkQueue!TakeBack
  /\ UNCHANGED <<database, work, source, ask, hand, ledgerVars>>

DataNext ==
  \/ \E r \in DataRequests :
       \/ Provision(r) \/ ProvisionAnswered(r)
       \/ \E b \in Backups : BackupAdmitted(r, b)
       \/ \E x \in Restores, b \in Backups : RestoreAdmitted(r, x, b)
       \/ RowCreated(r) \/ JobEnqueued(r) \/ AskDies(r)
  \/ \E x \in Works : HandTakes(x)
  \/ EngineDoes \/ EngineUnheard \/ EngineDoesNot
  \/ JobSettled \/ RowApplied \/ UsageRecorded
  \/ HandDies \/ WorkTakenBack

DataSpec == DataInit /\ [][DataNext]_dataVars

-----------------------------------------------------------------------------
DataType ==
  /\ database \in {"absent", "provisioning", "ready", "failed"}
  /\ work \in [Works -> {"absent", "pending", "succeeded", "failed"}]
  /\ source \in [Restores -> Backups \cup {NoWork}]
  /\ ask \in [DataRequests -> [at : {"idle", "provision", "row", "enqueue"},
                               row : Works \cup {NoWork}, from : Backups \cup {NoWork}]]
  /\ hand \in [at : {"idle", "work", "settle", "apply", "count"}, job : Works \cup {NoWork},
               result : {"none", "succeeded", "failed", "degraded"}]
  /\ wphase \in [Works -> {"absent", "waiting", "taken", "succeeded", "failed"}]
  /\ used \in 0 .. Cardinality(Backups)
  /\ done \in [Works -> 0 .. DataAttempts]
  /\ repeated \subseteq Works
  /\ overlapped \in BOOLEAN

\* Usage counts a backup once when it succeeded, and never otherwise, unless
\* its worker died between the row and the count (backup-job.ts:142).
Counted == {b \in Backups : work[b] = "succeeded" /\ hand.job # b}

UsageIsEarned ==
  /\ used <= Cardinality({b \in Backups : work[b] = "succeeded"})
  /\ used >= Cardinality(Counted \ repeated)

\* The hard cap holds where no backup is admitted before the ones before it
\* were counted; it is a gate and reserves nothing (billing.ts:191).
CapHolds == used <= Limit \/ overlapped

\* What the organization is billed for backups is what it got, up to its cap.
LedgerHolds == UsageIsEarned /\ CapHolds

\* A row says how its job ended, once the worker is done with it, and one that
\* succeeded was carried out exactly once, unless the worker died before it
\* wrote the row or an answer was lost: no sweep looks at these rows, and the
\* engine repeats what it is asked again (backup-job.ts, restore-job.ts).
RowFollowsJob ==
  \A x \in Works \ repeated :
    /\ (wphase[x] \in {"succeeded", "failed"} /\ hand.job # x) => work[x] = wphase[x]
    /\ work[x] = "succeeded" => done[x] = 1

\* What is billed and what the rows say is what was carried out.
DataHolds == LedgerHolds /\ RowFollowsJob
=============================================================================
