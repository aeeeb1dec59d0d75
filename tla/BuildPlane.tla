----------------------------- MODULE BuildPlane -----------------------------
(***************************************************************************)
(* The build plane (infra/deployment/builder-server.mjs): a single process *)
(* that turns a source into an image, a few builds at a time.              *)
(*                                                                         *)
(* A build is asked for under a key and answered with an id; the same key  *)
(* is answered with the same id for as long as the job is remembered.  The *)
(* jobs are an index in memory, written to disk when a job is accepted and *)
(* when a timer finds it dirty; what a restart finds unfinished on disk it *)
(* reports as failed.  Every await is a step boundary, so several writes   *)
(* may be under way, and each may fail.  STATE_DIR is set, as deployed.    *)
(* Bounds: MaxBuildJobs jobs, MaxWrites writes under way.                  *)
(***************************************************************************)
EXTENDS Integers, Sequences, FiniteSets, SequencesExt

CONSTANTS
  Keys,         \* the idempotency keys callers use
  NoKey,        \* the key of a job that is not there
  Slots,        \* MAX_CONCURRENT_BUILDS
  MaxBuildJobs, \* bound: jobs on record at a time
  MaxWrites     \* bound: writes under way at a time

ASSUME BuildPlaneAssumption ==
  /\ NoKey \notin Keys
  /\ Slots \in Nat \ {0}
  /\ MaxBuildJobs \in Nat /\ MaxWrites \in Nat \ {0}

VARIABLES
  index,    \* the jobs in memory
  byKey,    \* byKey[k] is the job a repeat of key k is answered with
  dirty,    \* whether the index changed since the last write began
  writes,   \* the writes under way, in the order they began
  stored,   \* the jobs on disk
  running,  \* build slots taken
  waiting,  \* the jobs that wait for a slot, first come first served
  boot,     \* jobs a restarted process has yet to add to its index
  made,     \* history: the jobs whose image was built
  lost      \* history: a write failed, or an older one ended after a newer one

slotVars == <<running, waiting>>
diskVars == <<writes, stored, lost>>
buildVars == <<index, byKey, dirty, diskVars, slotVars, boot, made>>

BuildJobs == 1..MaxBuildJobs

\* A job is written to disk ("accepting"), waits, holds a slot it has not used
\* yet ("granted"), builds, is inspected, and cleans up before it lets the slot go.
BuildStages == {"none", "accepting", "waiting", "granted", "building", "detecting",
                "cleaning", "done"}

Ended == {"succeeded", "failed"}

BuildJob == [ key       : Keys \cup {NoKey},
              status    : {"none", "queued", "running"} \cup Ended,
              stage     : BuildStages,
              cancelled : BOOLEAN ]

Forgotten == [key |-> NoKey, status |-> "none", stage |-> "none", cancelled |-> FALSE]

\* A job on disk; "pending" is queued or running.
NoRow == [key |-> NoKey, status |-> "none"]

SeenPhase(status) == IF status \in {"queued", "running"} THEN "pending" ELSE status

\* jobIndex.
Rows(jobs) == [i \in BuildJobs |-> [key |-> jobs[i].key, status |-> SeenPhase(jobs[i].status)]]

NoBuildJob == 0

BuildInit ==
  /\ index = [i \in BuildJobs |-> Forgotten]
  /\ byKey = [k \in Keys |-> NoBuildJob]
  /\ dirty = FALSE
  /\ writes = <<>>
  /\ stored = Rows(index)
  /\ running = 0
  /\ waiting = <<>>
  /\ boot = stored
  /\ made = {}
  /\ lost = FALSE

Knows(i) == index[i].status # "none"

Records(i) == {stored[i], boot[i]} \cup {writes[n].rows[i] : n \in DOMAIN writes}

\* Ids are random: a new one is not in memory and not on disk.
Unused(i) == ~ Knows(i) /\ Records(i) = {NoRow}

\* flushState: what is written is the index of the moment the write begins.
Write(by, jobs) ==
  /\ Len(writes) < MaxWrites
  /\ writes' = Append(writes, [by |-> by, rows |-> Rows(jobs)])
  /\ dirty' = FALSE
  /\ UNCHANGED <<stored, lost>>

\* The rename of a write may come after that of one that began later, and a
\* write that fails is reported as any other.
WriteEnds(n) ==
  /\ writes' = RemoveAt(writes, n)
  /\ \/ stored' = writes[n].rows /\ lost' = (lost \/ n > 1)
     \/ lost' = TRUE /\ UNCHANGED stored

\* POST /builds for a key that is not known.
Accept(i, key) ==
  /\ byKey[key] = NoBuildJob /\ Unused(i)
  /\ index' = [index EXCEPT ![i] = [key |-> key, status |-> "queued",
                                    stage |-> "accepting", cancelled |-> FALSE]]
  /\ byKey' = [byKey EXCEPT ![key] = i]
  /\ made' = made \ {i}
  /\ Write(i, index')
  /\ UNCHANGED <<slotVars, boot>>

\* Faulty: a build never waits.
AcquireAlways(i) ==
  /\ index' = [index EXCEPT ![i].stage = "granted"]
  /\ running' = running + 1
  /\ UNCHANGED waiting

\* The index is on disk, the build starts or waits and the caller gets its id.
AcquireSlot(i) ==
  IF running < Slots
  THEN /\ index' = [index EXCEPT ![i].stage = "granted"]
       /\ running' = running + 1
       /\ UNCHANGED waiting
  ELSE /\ index' = [index EXCEPT ![i].stage = "waiting"]
       /\ waiting' = Append(waiting, i)
       /\ UNCHANGED running

\* Faulty: the job is started and the write forgotten.
AcceptedUnsaved(i) ==
  /\ index[i].stage = "accepting"
  /\ writes' = SelectSeq(writes, LAMBDA w : w.by # i)
  /\ AcquireSlot(i)
  /\ dirty' = TRUE
  /\ UNCHANGED <<byKey, stored, lost, boot, made>>

Accepted(i) ==
  /\ \E n \in DOMAIN writes : writes[n].by = i /\ WriteEnds(n)
  /\ AcquireSlot(i)
  /\ dirty' = TRUE
  /\ UNCHANGED <<byKey, boot, made>>

\* Faulty: a slot is freed although the next build took it over.
ReleaseTwice(jobs) ==
  /\ running' = running - 1
  /\ IF waiting = <<>>
     THEN index' = jobs /\ UNCHANGED waiting
     ELSE /\ index' = [jobs EXCEPT ![Head(waiting)].stage = "granted"]
          /\ waiting' = Tail(waiting)

\* Faulty: the slot is freed and nobody is woken.
ReleaseAsleep(jobs) == index' = jobs /\ running' = running - 1 /\ UNCHANGED waiting

\* releaseSlot: a slot is handed to the first that waits.
Release(jobs) ==
  IF waiting = <<>>
  THEN index' = jobs /\ running' = running - 1 /\ UNCHANGED waiting
  ELSE /\ index' = [jobs EXCEPT ![Head(waiting)].stage = "granted"]
       /\ waiting' = Tail(waiting)
       /\ UNCHANGED running

Begin(i) ==
  /\ index[i].stage = "granted"
  /\ IF index[i].cancelled
     THEN Release([index EXCEPT ![i].stage = "done", ![i].status = "failed"])
     ELSE /\ index' = [index EXCEPT ![i].stage = "building", ![i].status = "running"]
          /\ UNCHANGED slotVars
  /\ dirty' = TRUE
  /\ UNCHANGED <<byKey, diskVars, boot, made>>

\* Clone, checkout and build end: a failure, a timeout or an exception fails
\* the job, and so does a cancel noticed now.
Built(i, ok) ==
  /\ index[i].stage = "building"
  /\ index' = IF ok /\ ~ index[i].cancelled
              THEN [index EXCEPT ![i].stage = "detecting"]
              ELSE [index EXCEPT ![i].stage = "cleaning", ![i].status = "failed"]
  /\ dirty' = TRUE
  /\ UNCHANGED <<byKey, diskVars, slotVars, boot, made>>

\* An image needs no building.
NothingToBuild(i) ==
  /\ index[i].stage = "building"
  /\ index' = [index EXCEPT ![i].stage = "cleaning", ![i].status = "succeeded"]
  /\ made' = made \cup {i}
  /\ dirty' = TRUE
  /\ UNCHANGED <<byKey, diskVars, slotVars, boot>>

\* The plan that names the framework decides nothing.
Detected(i) ==
  /\ index[i].stage = "detecting"
  /\ index' = [index EXCEPT ![i].stage = "cleaning", ![i].status = "succeeded"]
  /\ made' = made \cup {i}
  /\ dirty' = TRUE
  /\ UNCHANGED <<byKey, diskVars, slotVars, boot>>

CleanedUp(i) ==
  /\ index[i].stage = "cleaning"
  /\ Release([index EXCEPT ![i].stage = "done"])
  /\ dirty' = TRUE
  /\ UNCHANGED <<byKey, diskVars, boot, made>>

\* POST /builds/:id/cancel only raises a flag.
CancelBuild(i) ==
  /\ Knows(i) /\ ~ index[i].cancelled
  /\ index' = [index EXCEPT ![i].cancelled = TRUE]
  /\ dirty' = TRUE
  /\ UNCHANGED <<byKey, diskVars, slotVars, boot, made>>

\* Faulty: the key of a dropped job is kept.
ExpireKeepingKey(i) ==
  /\ index[i].status \in Ended /\ index[i].stage = "done"
  /\ index' = [index EXCEPT ![i] = Forgotten]
  /\ dirty' = TRUE
  /\ UNCHANGED <<byKey, diskVars, slotVars, boot, made>>

\* Faulty: dropping a job is not noted as a change.
ExpireUnmarked(i) ==
  /\ index[i].status \in Ended /\ index[i].stage = "done"
  /\ index' = [index EXCEPT ![i] = Forgotten]
  /\ byKey' = [byKey EXCEPT ![index[i].key] = NoBuildJob]
  /\ UNCHANGED <<dirty, diskVars, slotVars, boot, made>>

\* sweepJobs: ended jobs are dropped after a while.
Expire(i) ==
  /\ index[i].status \in Ended /\ index[i].stage = "done"
  /\ index' = [index EXCEPT ![i] = Forgotten]
  /\ byKey' = [byKey EXCEPT ![index[i].key] = NoBuildJob]
  /\ dirty' = TRUE
  /\ UNCHANGED <<diskVars, slotVars, boot, made>>

\* The timer writes a dirty index.
FlushState ==
  /\ dirty
  /\ Write(NoBuildJob, index)
  /\ UNCHANGED <<index, byKey, slotVars, boot, made>>

Flushed(n) ==
  /\ writes[n].by = NoBuildJob
  /\ WriteEnds(n)
  /\ UNCHANGED <<index, byKey, dirty, slotVars, boot, made>>

\* Faulty: a job is loaded with the status it had.
LoadedAsItWas(row) == [key |-> row.key, stage |-> "done", cancelled |-> FALSE,
                       status |-> IF row.status = "pending" THEN "running" ELSE row.status]

\* A job as a restart reports it: what was in flight has failed.
Interrupted(row) ==
  [key |-> row.key, stage |-> "done", cancelled |-> FALSE,
   status |-> IF row.status = "pending" THEN "failed" ELSE row.status]

\* The process dies.  The next one listens before it has read its index.
BuilderRestarts ==
  /\ index' = [i \in BuildJobs |-> Forgotten]
  /\ byKey' = [k \in Keys |-> NoBuildJob]
  /\ dirty' = FALSE
  /\ writes' = <<>>
  /\ running' = 0
  /\ waiting' = <<>>
  /\ boot' = stored
  /\ UNCHANGED <<stored, lost, made>>

Booted(key) == {i \in BuildJobs : boot[i].key = key}

\* loadState adds what is on disk to what was accepted meanwhile.
LoadState ==
  /\ \E i \in BuildJobs : boot[i] # NoRow
  /\ index' = [i \in BuildJobs |-> IF boot[i] = NoRow THEN index[i] ELSE Interrupted(boot[i])]
  /\ byKey' \in {f \in [Keys -> BuildJobs \cup {NoBuildJob}] :
                  \A k \in Keys : f[k] \in IF Booted(k) = {} THEN {byKey[k]} ELSE Booted(k)}
  /\ dirty' = TRUE
  /\ boot' = [i \in BuildJobs |-> NoRow]
  /\ UNCHANGED <<diskVars, slotVars, made>>

BuildStep(i) ==
  \/ Accepted(i)
  \/ Begin(i)
  \/ \E ok \in BOOLEAN : Built(i, ok)
  \/ NothingToBuild(i)
  \/ Detected(i)
  \/ CleanedUp(i)

BuilderActs ==
  \/ \E i \in BuildJobs : BuildStep(i) \/ CancelBuild(i) \/ Expire(i)
  \/ FlushState
  \/ \E n \in DOMAIN writes : Flushed(n)
  \/ BuilderRestarts
  \/ LoadState

BuildPlaneNext ==
  \/ \E i \in BuildJobs, key \in Keys : Accept(i, key)
  \/ BuilderActs

BuildPlaneSpec == BuildInit /\ [][BuildPlaneNext]_buildVars

\* Clone, build and plan carry timeouts.
BuilderFairness == \A i \in BuildJobs : WF_buildVars(BuildStep(i))

LiveBuildPlaneSpec == BuildPlaneSpec /\ BuilderFairness

-----------------------------------------------------------------------------
Row == [key : Keys \cup {NoKey}, status : {"none", "pending"} \cup Ended]

BuildPlaneType ==
  /\ byKey \in [Keys -> BuildJobs \cup {NoBuildJob}]
  /\ index \in [BuildJobs -> BuildJob]
  /\ dirty \in BOOLEAN /\ lost \in BOOLEAN
  /\ writes \in Seq([by : BuildJobs \cup {NoBuildJob}, rows : [BuildJobs -> Row]])
  /\ stored \in [BuildJobs -> Row]
  /\ boot \in [BuildJobs -> Row]
  /\ running \in 0..Slots
  /\ waiting \in Seq(BuildJobs)
  /\ made \subseteq BuildJobs

Holding == {i \in BuildJobs : index[i].stage \in {"granted", "building", "detecting", "cleaning"}}

\* The count of slots is the number of jobs that hold one through every hand
\* over, and none is idle while a job waits (acquireSlot, releaseSlot).
SlotsAddUp ==
  /\ running = Cardinality(Holding)
  /\ waiting # <<>> => running = Slots
  /\ Range(waiting) = {i \in BuildJobs : index[i].stage = "waiting"}

\* The pool of builds is sound: no more run than there are slots, and the slots
\* add up.
PoolIsSound == BuildPlaneType /\ SlotsAddUp

\* As long as writes succeed and end in the order they began, what is built is
\* on disk: after a crash its caller finds a job that failed and not a 404
\* (POST /builds persists the job before it starts it).
InFlightIsStored ==
  \A i \in BuildJobs :
    ~ lost /\ index[i].stage \in {"waiting", "granted", "building", "detecting", "cleaning"}
      => stored[i].status # "none"

\* Nothing is left unwritten for good unless a write was lost: an index that
\* differs from the disk is dirty, being written, or still to be loaded.
NothingUnwritten ==
  lost \/ dirty \/ writes # <<>> \/ stored = Rows(index) \/ boot # [i \in BuildJobs |-> NoRow]

\* The disk is never behind the index in a way that a crash would show.
DiskFollows == InFlightIsStored /\ NothingUnwritten

\* A repeated request is answered with a job of its key that a poll finds, across
\* expiry and restarts (byIdempotencyKey).
KeysAreAnswered ==
  \A k \in Keys : byKey[k] # NoBuildJob => index[byKey[k]].key = k

\* The key of a job on record anywhere: one that is only on disk, or on its way
\* there, may come back.
KeyOf(i) ==
  LET keys == {index[i].key} \cup {row.key : row \in Records(i)}
  IN  IF keys = {NoKey} THEN NoKey ELSE CHOOSE k \in keys : k # NoKey

Promise == INSTANCE BuildContract WITH
  of    <- [i \in BuildJobs |-> KeyOf(i)],
  phase <- [i \in BuildJobs |-> SeenPhase(index[i].status)],
  did   <- made

\* The build plane keeps the contract the runtime host relies on: outcomes are
\* real, and a restart never leaves a job pending (builder-server.mjs, header of
\* loadState).
KeepsBuildPromise == Promise!ContractSpec

\* Every accepted build ends, whatever waits before it: a caller's poll of it is
\* answered with an outcome or with a 404.
BuildsEnd ==
  \A i \in BuildJobs : index[i].status = "queued" ~> index[i].status \notin {"queued", "running"}
=============================================================================
