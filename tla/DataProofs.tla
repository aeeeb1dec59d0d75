------------------------------ MODULE DataProofs ------------------------------
(***************************************************************************)
(* Proofs about what is kept of a user's data: the rows, jobs and usage of *)
(* a database's backups and restores, for any number of them, of requests  *)
(* and of attempts, and the engine that keeps the databases, for any       *)
(* number of databases, dumps, ports and calls.                            *)
(***************************************************************************)
EXTENDS DataJobs, DatabaseHost, FiniteSetTheorems, TLAPS

-----------------------------------------------------------------------------
(* Backups and restores.  A row has one request, one job and one worker at *)
(* a time, and the count of what the engine did follows from their places; *)
(* usage is short of the backups that succeeded by the one being counted.  *)

DataShape ==
  /\ work \in [Works -> {"absent", "pending", "succeeded", "failed"}]
  /\ source \in [Restores -> Backups \cup {NoWork}]
  /\ ask \in [DataRequests -> [at : {"idle", "provision", "row", "enqueue"},
                               row : Works \cup {NoWork}, from : Backups \cup {NoWork}]]
  /\ hand \in [at : {"idle", "work", "settle", "apply", "count"}, job : Works \cup {NoWork},
               result : {"none", "succeeded", "failed", "degraded"}]
  /\ wphase \in [Works -> {"absent", "waiting", "taken", "succeeded", "failed"}]
  /\ wholder \in [Works -> {Hand, NoHand}] /\ wspent \in [Works -> Nat]
  /\ used \in Nat /\ done \in [Works -> Nat]
  /\ repeated \subseteq Works /\ overlapped \in BOOLEAN

\* The worker's place and the queue's.
HandInPlace ==
  /\ hand.at = "idle" <=> hand = Free
  /\ hand.at # "idle" => hand.job \in Works
  /\ \A x \in Works : wholder[x] = Hand => hand.job = x /\ hand.at \in {"work", "settle"}
  /\ hand.at \in {"work", "settle"} => wphase[hand.job] = "taken" /\ wholder[hand.job] = Hand
  /\ hand.at = "work" <=> hand.at # "idle" /\ hand.result = "none"
  /\ hand.at = "apply" =>
       /\ hand.result = "succeeded" => wphase[hand.job] = "succeeded"
       /\ hand.result = "degraded" => wphase[hand.job] = "failed"
       /\ hand.result = "failed" => wphase[hand.job] \in {"waiting", "failed"}
  /\ hand.at = "count" =>
       hand.job \in Backups /\ wphase[hand.job] = "succeeded" /\ work[hand.job] = "succeeded"
  /\ hand.at \in {"work", "settle", "apply"} => work[hand.job] # "succeeded"

\* A row has one request at most, and no job before that request is done.
AsksApart ==
  /\ \A r \in DataRequests :
       /\ ask[r].at = "idle" => ask[r] = NoAsk
       /\ ask[r].at = "row" => ask[r].row \in Works /\ work[ask[r].row] = "absent"
       /\ ask[r].at = "enqueue" => ask[r].row \in Works /\ work[ask[r].row] = "pending"
       /\ ask[r].row \in Works => wphase[ask[r].row] = "absent"
  /\ \A r, s \in DataRequests : ask[r].row = ask[s].row /\ ask[r].row \in Works => r = s
  /\ \A x \in Works : work[x] = "absent" => wphase[x] = "absent"

\* How often the engine carried out a row nothing happened to.
DoneOnce(x) ==
  /\ wphase[x] \in {"absent", "waiting", "failed"} => done[x] = 0
  /\ wphase[x] = "taken" =>
       /\ hand.job = x
       /\ hand.result = "succeeded" => done[x] = 1
       /\ hand.result # "succeeded" => done[x] = 0
  /\ wphase[x] = "succeeded" => done[x] = 1

RowsTold ==
  \A x \in Works :
    /\ work[x] = "succeeded" => wphase[x] = "succeeded"
    /\ x \notin repeated =>
         /\ DoneOnce(x)
         /\ wphase[x] \in {"succeeded", "failed"} /\ hand.job # x => work[x] = wphase[x]

\* Usage is between what was counted for certain and what may have been.
UsageBetween == used <= Cardinality(Counted) /\ used >= Cardinality(Counted \ repeated)

\* Where no admission overlapped, at most one backup is not counted yet, and
\* there is room for it.
RoomLeft ==
  ~ overlapped =>
    /\ used <= Limit
    /\ \A x \in Backups : Uncounted(x) => used < Limit
    /\ \A x, y \in Backups : Uncounted(x) /\ Uncounted(y) => x = y

DataInv ==
  DataShape /\ HandInPlace /\ AsksApart /\ RowsTold /\ UsageBetween /\ RoomLeft

LEMMA NothingTyped ==
  /\ Backups \subseteq Works /\ Restores \subseteq Works /\ NoWork \notin Works
  /\ NoAsk.at = "idle" /\ NoAsk.row = NoWork /\ Free.at = "idle" /\ Free.job = NoWork
  /\ NoAsk \in [at : {"idle", "provision", "row", "enqueue"},
                row : Works \cup {NoWork}, from : Backups \cup {NoWork}]
  /\ Free \in [at : {"idle", "work", "settle", "apply", "count"}, job : Works \cup {NoWork},
               result : {"none", "succeeded", "failed", "degraded"}]
BY DataAssumption DEF NoAsk, Free, Works

LEMMA CountedFinite ==
  /\ \A S \in SUBSET Backups : IsFiniteSet(S) /\ Cardinality(S) \in Nat
  /\ \A S \in SUBSET Backups : \A T \in SUBSET S : Cardinality(T) <= Cardinality(S)
<1>1. \A S \in SUBSET Backups : IsFiniteSet(S) /\ Cardinality(S) \in Nat
  BY DataAssumption, FS_Subset, FS_CardinalityType
<1> QED BY <1>1, FS_Subset

\* A charged job waits again or has failed, and nobody holds it.
LEMMA WorkCharged ==
  ASSUME DataShape, NEW S \in SUBSET Works, WorkQueue!Charge(S)
  PROVE  /\ wphase' \in [Works -> {"absent", "waiting", "taken", "succeeded", "failed"}]
         /\ wholder' \in [Works -> {Hand, NoHand}] /\ wspent' \in [Works -> Nat]
         /\ \A x \in S : wphase'[x] \in {"waiting", "failed"} /\ wholder'[x] = NoHand
         /\ \A x \in Works \ S : wphase'[x] = wphase[x] /\ wholder'[x] = wholder[x]
BY DEF DataShape, WorkQueue!Charge, WorkQueue!LastTry

\* What was counted stays so, if no more is known to be repeated or less.
LEMMA UsageStays ==
  ASSUME UsageBetween, DataShape, Counted' = Counted, used' = used, repeated \subseteq repeated'
  PROVE  UsageBetween'
<1>1. /\ Counted \in SUBSET Backups /\ Counted \ repeated' \in SUBSET (Counted \ repeated)
      /\ Counted \ repeated \in SUBSET Backups
  BY DEF Counted
<1>2. Cardinality(Counted \ repeated') <= Cardinality(Counted \ repeated)
  BY <1>1, CountedFinite
<1>3. /\ Cardinality(Counted) \in Nat /\ Cardinality(Counted \ repeated) \in Nat
      /\ Cardinality(Counted \ repeated') \in Nat
  BY <1>1, CountedFinite
<1> QED BY <1>2, <1>3 DEF UsageBetween, DataShape

\* There is room where there was, if nothing is admitted.
LEMMA RoomStays ==
  ASSUME RoomLeft, used' = used, overlapped' = overlapped,
         \A x \in Backups : Uncounted(x)' => Uncounted(x)
  PROVE  RoomLeft'
BY DEF RoomLeft

LEMMA ProvisionKeeps == ASSUME DataInv, NEW r \in DataRequests, Provision(r) PROVE DataInv'
<1> USE DataAssumption, NothingTyped DEF DataInv, Provision, AskFor, workQueueVars, ledgerVars
<1>1. DataShape'
  BY DEF DataShape
<1>2. HandInPlace'
  BY DEF HandInPlace, DataShape, Free, NoAsk, AsksApart, RowsTold
<1>3. AsksApart'
  BY DEF AsksApart, DataShape, NoAsk, HandInPlace, RowsTold
<1>4. RowsTold'
  BY DEF RowsTold, DoneOnce, DataShape, HandInPlace, AsksApart
<1>5. UsageBetween'
  <2>1. Counted' = Counted
    BY DEF Counted, DataShape, HandInPlace, RowsTold, AsksApart
  <2> QED BY <2>1, UsageStays
<1>6. RoomLeft'
  <2>1. \A x \in Backups : Uncounted(x)' => Uncounted(x)
    BY DEF Uncounted, DataShape, HandInPlace, AsksApart
  <2> QED BY <2>1, RoomStays
<1> QED BY <1>1, <1>2, <1>3, <1>4, <1>5, <1>6

LEMMA ProvisionAnsweredKeeps == ASSUME DataInv, NEW r \in DataRequests, ProvisionAnswered(r) PROVE DataInv'
<1> USE DataAssumption, NothingTyped DEF DataInv, ProvisionAnswered, Answered, workQueueVars, ledgerVars
<1>1. DataShape'
  BY DEF DataShape
<1>2. HandInPlace'
  BY DEF HandInPlace, DataShape, Free, NoAsk, AsksApart, RowsTold
<1>3. AsksApart'
  BY DEF AsksApart, DataShape, NoAsk, HandInPlace, RowsTold
<1>4. RowsTold'
  BY DEF RowsTold, DoneOnce, DataShape, HandInPlace, AsksApart
<1>5. UsageBetween'
  <2>1. Counted' = Counted
    BY DEF Counted, DataShape, HandInPlace, RowsTold, AsksApart
  <2> QED BY <2>1, UsageStays
<1>6. RoomLeft'
  <2>1. \A x \in Backups : Uncounted(x)' => Uncounted(x)
    BY DEF Uncounted, DataShape, HandInPlace, AsksApart
  <2> QED BY <2>1, RoomStays
<1> QED BY <1>1, <1>2, <1>3, <1>4, <1>5, <1>6

LEMMA BackupAdmittedKeeps == ASSUME DataInv, NEW r \in DataRequests, NEW b \in Backups, BackupAdmitted(r, b) PROVE DataInv'
<1> USE DataAssumption, NothingTyped DEF DataInv, BackupAdmitted, AskFor, workQueueVars, ledgerVars
<1>1. DataShape'
  BY DEF DataShape
<1>2. HandInPlace'
  BY DEF HandInPlace, DataShape, Free, NoAsk, AsksApart, RowsTold
<1>3. AsksApart'
  BY DEF AsksApart, DataShape, NoAsk, HandInPlace, RowsTold
<1>4. RowsTold'
  BY DEF RowsTold, DoneOnce, DataShape, HandInPlace, AsksApart
<1>5. UsageBetween'
  <2>1. Counted' = Counted
    BY DEF Counted, DataShape, HandInPlace, RowsTold, AsksApart
  <2> QED BY <2>1, UsageStays
<1>6. RoomLeft'
  <2>1. \A x \in Backups : Uncounted(x)' => Uncounted(x) \/ x = b
    BY DEF Uncounted, DataShape, HandInPlace, AsksApart
  <2>2. ~ overlapped' => ~ overlapped /\ \A x \in Backups : ~ Uncounted(x)
    <3> DEFINE busy == \E x \in Backups : Uncounted(x)
    <3>1. overlapped' = (overlapped \/ busy)
      OBVIOUS
    <3> HIDE DEF busy
    <3>2. ~ overlapped' => ~ overlapped /\ ~ busy
      BY <3>1
    <3> QED BY <3>2 DEF busy
  <2> QED BY <2>1, <2>2 DEF RoomLeft
<1> QED BY <1>1, <1>2, <1>3, <1>4, <1>5, <1>6

LEMMA RestoreAdmittedKeeps == ASSUME DataInv, NEW r \in DataRequests, NEW z \in Restores, NEW b \in Backups, RestoreAdmitted(r, z, b) PROVE DataInv'
<1> USE DataAssumption, NothingTyped DEF DataInv, RestoreAdmitted, AskFor, workQueueVars, ledgerVars
<1>1. DataShape'
  BY DEF DataShape
<1>2. HandInPlace'
  BY DEF HandInPlace, DataShape, Free, NoAsk, AsksApart, RowsTold
<1>3. AsksApart'
  BY DEF AsksApart, DataShape, NoAsk, HandInPlace, RowsTold
<1>4. RowsTold'
  BY DEF RowsTold, DoneOnce, DataShape, HandInPlace, AsksApart
<1>5. UsageBetween'
  <2>1. Counted' = Counted
    BY DEF Counted, DataShape, HandInPlace, RowsTold, AsksApart
  <2> QED BY <2>1, UsageStays
<1>6. RoomLeft'
  <2>1. \A x \in Backups : Uncounted(x)' => Uncounted(x)
    BY DEF Uncounted, DataShape, HandInPlace, AsksApart
  <2> QED BY <2>1, RoomStays
<1> QED BY <1>1, <1>2, <1>3, <1>4, <1>5, <1>6

LEMMA RowCreatedKeeps == ASSUME DataInv, NEW r \in DataRequests, RowCreated(r) PROVE DataInv'
<1> USE DataAssumption, NothingTyped DEF DataInv, RowCreated, Then, workQueueVars, ledgerVars
<1>1. DataShape'
  <2>1. ask[r].row \in Works /\ ask[r].from \in Backups \cup {NoWork}
    BY DEF DataShape, AsksApart
  <2>2. source' \in [Restores -> Backups \cup {NoWork}]
    BY <2>1 DEF DataShape
  <2>3. work' \in [Works -> {"absent", "pending", "succeeded", "failed"}]
    BY <2>1 DEF DataShape
  <2> QED BY <2>2, <2>3 DEF DataShape
<1>2. HandInPlace'
  BY DEF HandInPlace, DataShape, Free, NoAsk, AsksApart, RowsTold
<1>3. AsksApart'
  BY DEF AsksApart, DataShape, NoAsk, HandInPlace, RowsTold
<1>4. RowsTold'
  BY DEF RowsTold, DoneOnce, DataShape, HandInPlace, AsksApart
<1>5. UsageBetween'
  <2>1. Counted' = Counted
    BY DEF Counted, DataShape, HandInPlace, RowsTold, AsksApart
  <2> QED BY <2>1, UsageStays
<1>6. RoomLeft'
  <2>1. \A x \in Backups : Uncounted(x)' => Uncounted(x)
    BY DEF Uncounted, DataShape, HandInPlace, AsksApart
  <2> QED BY <2>1, RoomStays
<1> QED BY <1>1, <1>2, <1>3, <1>4, <1>5, <1>6

LEMMA JobEnqueuedKeeps == ASSUME DataInv, NEW r \in DataRequests, JobEnqueued(r) PROVE DataInv'
<1> USE DataAssumption, NothingTyped DEF DataInv, JobEnqueued, Answered, WorkQueue!Submit, workQueueVars, ledgerVars
<1>1. DataShape'
  BY DEF DataShape
<1>2. HandInPlace'
  BY DEF HandInPlace, DataShape, Free, NoAsk, AsksApart, RowsTold
<1>3. AsksApart'
  BY DEF AsksApart, DataShape, NoAsk, HandInPlace, RowsTold
<1>4. RowsTold'
  BY DEF RowsTold, DoneOnce, DataShape, HandInPlace, AsksApart
<1>5. UsageBetween'
  <2>1. Counted' = Counted
    BY DEF Counted, DataShape, HandInPlace, RowsTold, AsksApart
  <2> QED BY <2>1, UsageStays
<1>6. RoomLeft'
  <2>1. \A x \in Backups : Uncounted(x)' => Uncounted(x)
    BY DEF Uncounted, DataShape, HandInPlace, AsksApart
  <2> QED BY <2>1, RoomStays
<1> QED BY <1>1, <1>2, <1>3, <1>4, <1>5, <1>6

LEMMA AskDiesKeeps == ASSUME DataInv, NEW r \in DataRequests, AskDies(r) PROVE DataInv'
<1> USE DataAssumption, NothingTyped DEF DataInv, AskDies, Answered, workQueueVars, ledgerVars
<1>1. DataShape'
  BY DEF DataShape
<1>2. HandInPlace'
  BY DEF HandInPlace, DataShape, Free, NoAsk, AsksApart, RowsTold
<1>3. AsksApart'
  BY DEF AsksApart, DataShape, NoAsk, HandInPlace, RowsTold
<1>4. RowsTold'
  BY DEF RowsTold, DoneOnce, DataShape, HandInPlace, AsksApart
<1>5. UsageBetween'
  <2>1. Counted' = Counted
    BY DEF Counted, DataShape, HandInPlace, RowsTold, AsksApart
  <2> QED BY <2>1, UsageStays
<1>6. RoomLeft'
  <2>1. \A x \in Backups : Uncounted(x)' => Uncounted(x)
    BY DEF Uncounted, DataShape, HandInPlace, AsksApart
  <2> QED BY <2>1, RoomStays
<1> QED BY <1>1, <1>2, <1>3, <1>4, <1>5, <1>6

LEMMA HandTakesKeeps == ASSUME DataInv, NEW z \in Works, HandTakes(z) PROVE DataInv'
<1> USE DataAssumption, NothingTyped DEF DataInv, HandTakes, WorkQueue!Take, workQueueVars, ledgerVars
<1>1. DataShape'
  BY DEF DataShape
<1>2. HandInPlace'
  BY DEF HandInPlace, DataShape, Free, NoAsk, AsksApart, RowsTold
<1>3. AsksApart'
  BY DEF AsksApart, DataShape, NoAsk, HandInPlace, RowsTold
<1>4. RowsTold'
  BY DEF RowsTold, DoneOnce, DataShape, HandInPlace, AsksApart
<1>5. UsageBetween'
  <2>1. Counted' = Counted
    BY DEF Counted, DataShape, HandInPlace, RowsTold, AsksApart
  <2> QED BY <2>1, UsageStays
<1>6. RoomLeft'
  <2>1. \A x \in Backups : Uncounted(x)' => Uncounted(x)
    BY DEF Uncounted, DataShape, HandInPlace, AsksApart
  <2> QED BY <2>1, RoomStays
<1> QED BY <1>1, <1>2, <1>3, <1>4, <1>5, <1>6

LEMMA EngineDoesKeeps == ASSUME DataInv, EngineDoes PROVE DataInv'
<1> USE DataAssumption, NothingTyped DEF DataInv, EngineDoes, WorkQueue!Report, WorkQueue!Held, workQueueVars, ledgerVars
<1>1. DataShape'
  <2>1. hand.job \in Works /\ done[hand.job] + 1 \in Nat
    BY DEF DataShape, HandInPlace
  <2> QED BY <2>1 DEF DataShape
<1>2. HandInPlace'
  BY DEF HandInPlace, DataShape, Free, NoAsk, AsksApart, RowsTold
<1>3. AsksApart'
  BY DEF AsksApart, DataShape, NoAsk, HandInPlace, RowsTold
<1>4. RowsTold'
  BY DEF RowsTold, DoneOnce, DataShape, HandInPlace, AsksApart
<1>5. UsageBetween'
  <2>1. Counted' = Counted
    BY DEF Counted, DataShape, HandInPlace, RowsTold, AsksApart
  <2> QED BY <2>1, UsageStays
<1>6. RoomLeft'
  <2>1. \A x \in Backups : Uncounted(x)' => Uncounted(x)
    BY DEF Uncounted, DataShape, HandInPlace, AsksApart
  <2> QED BY <2>1, RoomStays
<1> QED BY <1>1, <1>2, <1>3, <1>4, <1>5, <1>6

LEMMA EngineUnheardKeeps == ASSUME DataInv, EngineUnheard PROVE DataInv'
<1> USE DataAssumption, NothingTyped DEF DataInv, EngineUnheard, workQueueVars, ledgerVars
<1>1. DataShape'
  <2>1. hand.job \in Works /\ done[hand.job] + 1 \in Nat
    BY DEF DataShape, HandInPlace
  <2> QED BY <2>1 DEF DataShape
<1>2. HandInPlace'
  BY DEF HandInPlace, DataShape, Free, NoAsk, AsksApart, RowsTold
<1>3. AsksApart'
  BY DEF AsksApart, DataShape, NoAsk, HandInPlace, RowsTold
<1>4. RowsTold'
  BY DEF RowsTold, DoneOnce, DataShape, HandInPlace, AsksApart
<1>5. UsageBetween'
  <2>1. Counted' = Counted
    BY DEF Counted, DataShape, HandInPlace, RowsTold, AsksApart
  <2> QED BY <2>1, UsageStays
<1>6. RoomLeft'
  <2>1. \A x \in Backups : Uncounted(x)' => Uncounted(x)
    BY DEF Uncounted, DataShape, HandInPlace, AsksApart
  <2> QED BY <2>1, RoomStays
<1> QED BY <1>1, <1>2, <1>3, <1>4, <1>5, <1>6

LEMMA EngineDoesNotKeeps == ASSUME DataInv, EngineDoesNot PROVE DataInv'
<1> USE DataAssumption, NothingTyped DEF DataInv, EngineDoesNot, workQueueVars, ledgerVars
<1>1. DataShape'
  BY DEF DataShape
<1>2. HandInPlace'
  <2>1. PICK result \in {"failed", "degraded"} :
          hand' = [hand EXCEPT !.at = "settle", !.result = result]
    OBVIOUS
  <2>2. hand'.at = "settle" /\ hand'.job = hand.job /\ hand'.result = result
    BY <2>1 DEF DataShape
  <2> QED BY <2>2 DEF HandInPlace, DataShape, Free
<1>3. AsksApart'
  BY DEF AsksApart, DataShape, NoAsk, HandInPlace, RowsTold
<1>4. RowsTold'
  BY DEF RowsTold, DoneOnce, DataShape, HandInPlace, AsksApart
<1>5. UsageBetween'
  <2>1. Counted' = Counted
    BY DEF Counted, DataShape, HandInPlace, RowsTold, AsksApart
  <2> QED BY <2>1, UsageStays
<1>6. RoomLeft'
  <2>1. \A x \in Backups : Uncounted(x)' => Uncounted(x)
    BY DEF Uncounted, DataShape, HandInPlace, AsksApart
  <2> QED BY <2>1, RoomStays
<1> QED BY <1>1, <1>2, <1>3, <1>4, <1>5, <1>6

LEMMA JobLeaves ==
  ASSUME DataInv, JobSettled
  PROVE  /\ hand.job \in Works /\ hand' = [hand EXCEPT !.at = "apply"]
         /\ wphase' \in [Works -> {"absent", "waiting", "taken", "succeeded", "failed"}]
         /\ wholder' \in [Works -> {Hand, NoHand}] /\ wspent' \in [Works -> Nat]
         /\ hand.result = "succeeded" => wphase'[hand.job] = "succeeded"
         /\ hand.result = "degraded" => wphase'[hand.job] = "failed"
         /\ hand.result = "failed" => wphase'[hand.job] \in {"waiting", "failed"}
         /\ wholder'[hand.job] = NoHand
         /\ \A x \in Works \ {hand.job} : wphase'[x] = wphase[x] /\ wholder'[x] = wholder[x]
<1>1. hand.job \in Works /\ hand' = [hand EXCEPT !.at = "apply"]
      /\ hand.result \in {"succeeded", "degraded", "failed"}
  BY DEF DataInv, HandInPlace, JobSettled, DataShape
<1>2. CASE hand.result = "succeeded"
  BY <1>1, <1>2 DEF DataInv, JobSettled, WorkQueue!End, DataShape
<1>3. CASE hand.result = "degraded"
  BY <1>1, <1>3 DEF DataInv, JobSettled, WorkQueue!End, DataShape
<1>4. CASE hand.result = "failed"
  <2>1. WorkQueue!Charge({hand.job}) /\ {hand.job} \in SUBSET Works
    BY <1>1, <1>4 DEF JobSettled, WorkQueue!Retry
  <2>2. /\ wphase' \in [Works -> {"absent", "waiting", "taken", "succeeded", "failed"}]
        /\ wholder' \in [Works -> {Hand, NoHand}] /\ wspent' \in [Works -> Nat]
        /\ \A x \in {hand.job} : wphase'[x] \in {"waiting", "failed"} /\ wholder'[x] = NoHand
        /\ \A x \in Works \ {hand.job} : wphase'[x] = wphase[x] /\ wholder'[x] = wholder[x]
    BY <2>1, WorkCharged DEF DataInv
  <2> QED BY <1>1, <1>4, <2>2
<1> QED BY <1>1, <1>2, <1>3, <1>4

LEMMA JobSettledKeeps == ASSUME DataInv, JobSettled PROVE DataInv'
<1> USE NothingTyped DEF DataInv, ledgerVars
<1>0. /\ hand.at = "settle" /\ UNCHANGED <<database, work, source, ask, ledgerVars>>
  BY DEF JobSettled
<1>a. /\ hand' = [hand EXCEPT !.at = "apply"] /\ hand'.at = "apply"
      /\ hand'.job = hand.job /\ hand'.result = hand.result
  BY JobLeaves DEF DataShape
<1>1. DataShape'
  BY <1>0, <1>a, JobLeaves DEF DataShape
<1>2. HandInPlace'
  BY <1>0, <1>a, JobLeaves, DataAssumption DEF HandInPlace, DataShape, Free
<1>3. AsksApart'
  BY <1>0, JobLeaves DEF AsksApart, DataShape, HandInPlace
<1>4. RowsTold'
  BY <1>0, <1>a, JobLeaves DEF RowsTold, DoneOnce, DataShape, HandInPlace
<1>5. UsageBetween'
  <2>1. Counted' = Counted
    BY <1>0, <1>a DEF Counted
  <2> QED BY <1>0, <2>1, UsageStays
<1>6. RoomLeft'
  <2>1. \A x \in Backups : Uncounted(x)' => Uncounted(x)
    BY <1>0, <1>a, JobLeaves DEF Uncounted
  <2> QED BY <1>0, <2>1, RoomStays
<1> QED BY <1>1, <1>2, <1>3, <1>4, <1>5, <1>6

LEMMA RowAppliedKeeps == ASSUME DataInv, RowApplied PROVE DataInv'
<1> USE DataAssumption, NothingTyped DEF DataInv, RowApplied, workQueueVars, ledgerVars
<1>1. DataShape'
  BY DEF DataShape
<1>2. HandInPlace'
  BY DEF HandInPlace, DataShape, Free, NoAsk, AsksApart, RowsTold
<1>3. AsksApart'
  BY DEF AsksApart, DataShape, NoAsk, HandInPlace, RowsTold
<1>4. RowsTold'
  BY DEF RowsTold, DoneOnce, DataShape, HandInPlace, AsksApart
<1>5. UsageBetween'
  <2>1. Counted' = Counted
    BY DEF Counted, DataShape, HandInPlace, RowsTold, AsksApart
  <2> QED BY <2>1, UsageStays
<1>6. RoomLeft'
  <2>1. \A x \in Backups : Uncounted(x)' => Uncounted(x)
    BY DEF Uncounted, DataShape, HandInPlace, AsksApart
  <2> QED BY <2>1, RoomStays
<1> QED BY <1>1, <1>2, <1>3, <1>4, <1>5, <1>6

LEMMA UsageRecordedKeeps == ASSUME DataInv, UsageRecorded PROVE DataInv'
<1> USE DataAssumption, NothingTyped DEF DataInv, UsageRecorded, workQueueVars, ledgerVars
<1>1. DataShape'
  BY DEF DataShape
<1>2. HandInPlace'
  BY DEF HandInPlace, DataShape, Free, NoAsk, AsksApart, RowsTold
<1>3. AsksApart'
  BY DEF AsksApart, DataShape, NoAsk, HandInPlace, RowsTold
<1>4. RowsTold'
  BY DEF RowsTold, DoneOnce, DataShape, HandInPlace, AsksApart
<1>5. UsageBetween'
  <2> DEFINE b == hand.job
             sure == Counted \ repeated
  <2>1. b \in Backups /\ b \notin Counted /\ Counted' = Counted \cup {b}
    BY DEF Counted, DataShape, HandInPlace, Free
  <2>2. /\ IsFiniteSet(Counted) /\ Cardinality(Counted) \in Nat
        /\ IsFiniteSet(sure) /\ Cardinality(sure) \in Nat
        /\ Cardinality((Counted \cup {b}) \ repeated) \in Nat
    BY <2>1, CountedFinite DEF Counted
  <2>3. Cardinality(Counted') = Cardinality(Counted) + 1
    BY <2>1, <2>2, FS_AddElement
  <2>4. Cardinality(Counted' \ repeated') <= Cardinality(sure) + 1
    <3>1. /\ sure \cup {b} \in SUBSET Backups
          /\ Counted' \ repeated' \in SUBSET (sure \cup {b})
      BY <2>1 DEF Counted
    <3>2. Cardinality(Counted' \ repeated') <= Cardinality(sure \cup {b})
      BY <3>1, CountedFinite
    <3>3. Cardinality(sure \cup {b}) = Cardinality(sure) + 1
      BY <2>1, <2>2, FS_AddElement
    <3> QED BY <3>2, <3>3
  <2>5. Counted' \ repeated' = (Counted \cup {b}) \ repeated
    BY <2>1
  <2> HIDE DEF sure
  <2>6. used >= Cardinality(sure) /\ used <= Cardinality(Counted) /\ used \in Nat
    BY DEF UsageBetween, DataShape, sure
  <2>7. used' = used + 1
    OBVIOUS
  <2>8. used' <= Cardinality(Counted')
    BY <2>2, <2>3, <2>6, <2>7
  <2>9. used' >= Cardinality(Counted' \ repeated')
    <3>1. PICK m \in Nat : m = Cardinality(Counted' \ repeated')
      BY <2>2, <2>5
    <3>2. PICK k \in Nat : k = Cardinality(sure)
      BY <2>2
    <3>3. m <= k + 1 /\ used >= k
      BY <2>4, <2>6, <3>1, <3>2
    <3>4. used + 1 >= m
      BY <2>6, <3>3
    <3> QED BY <2>7, <3>1, <3>4
  <2> QED BY <2>8, <2>9 DEF UsageBetween
<1>6. RoomLeft'
  <2>1. hand.job \in Backups /\ Uncounted(hand.job)
    BY DEF HandInPlace, Uncounted
  <2>2. \A x \in Backups : Uncounted(x)' => Uncounted(x) /\ x # hand.job
    BY DEF Uncounted, DataShape, HandInPlace, AsksApart
  <2>3. ~ overlapped => \A x \in Backups : ~ Uncounted(x)'
    BY <2>1, <2>2 DEF RoomLeft
  <2> QED BY <2>1, <2>3 DEF RoomLeft, DataShape
<1> QED BY <1>1, <1>2, <1>3, <1>4, <1>5, <1>6

LEMMA HandDiesKeeps == ASSUME DataInv, HandDies PROVE DataInv'
<1> USE DataAssumption, NothingTyped DEF DataInv, HandDies, WorkQueue!Die, WorkQueue!Held, workQueueVars, ledgerVars
<1>1. DataShape'
  <2>1. hand.job \in Works
    BY DEF DataShape, HandInPlace
  <2>2. wholder' \in [Works -> {Hand, NoHand}]
    BY <2>1 DEF DataShape
  <2> QED BY <2>1, <2>2 DEF DataShape
<1>2. HandInPlace'
  BY DEF HandInPlace, DataShape, Free, NoAsk, AsksApart, RowsTold
<1>3. AsksApart'
  BY DEF AsksApart, DataShape, NoAsk, HandInPlace, RowsTold
<1>4. RowsTold'
  BY DEF RowsTold, DoneOnce, DataShape, HandInPlace, AsksApart
<1>5. UsageBetween'
  <2>1. /\ Counted \in SUBSET Backups /\ Counted' \in SUBSET Backups
        /\ Counted \subseteq Counted'
        /\ Counted' \ repeated' \in SUBSET (Counted \ repeated)
    BY DEF Counted, DataShape, HandInPlace
  <2>2. /\ Cardinality(Counted) <= Cardinality(Counted')
        /\ Cardinality(Counted' \ repeated') <= Cardinality(Counted \ repeated)
    BY <2>1, CountedFinite
  <2>3. /\ Cardinality(Counted) \in Nat /\ Cardinality(Counted') \in Nat
        /\ Cardinality(Counted \ repeated) \in Nat /\ Cardinality(Counted' \ repeated') \in Nat
    BY <2>1, CountedFinite
  <2> QED BY <2>2, <2>3 DEF UsageBetween, DataShape
<1>6. RoomLeft'
  <2>1. \A x \in Backups : Uncounted(x)' => Uncounted(x)
    BY DEF Uncounted, DataShape, HandInPlace, AsksApart
  <2> QED BY <2>1, RoomStays
<1> QED BY <1>1, <1>2, <1>3, <1>4, <1>5, <1>6

LEMMA WorkTakenBackKeeps == ASSUME DataInv, WorkTakenBack PROVE DataInv'
<1> USE NothingTyped DEF DataInv, ledgerVars
<1>0. UNCHANGED <<database, work, source, ask, hand, ledgerVars>>
  BY DEF WorkTakenBack
<1>a. PICK S \in SUBSET Works :
        /\ \A x \in S : wphase[x] = "taken" /\ wholder[x] = NoHand
        /\ WorkQueue!Charge(S)
  BY DEF WorkTakenBack, WorkQueue!TakeBack, WorkQueue!Orphans
<1>b. /\ wphase' \in [Works -> {"absent", "waiting", "taken", "succeeded", "failed"}]
      /\ wholder' \in [Works -> {Hand, NoHand}] /\ wspent' \in [Works -> Nat]
      /\ \A x \in S : wphase'[x] \in {"waiting", "failed"} /\ wholder'[x] = NoHand
      /\ \A x \in Works \ S : wphase'[x] = wphase[x] /\ wholder'[x] = wholder[x]
  BY <1>a, WorkCharged
<1>c. \A x \in S : x \in repeated /\ work[x] # "succeeded" /\ ~ (hand.at # "idle" /\ hand.job = x)
  BY <1>a, DataAssumption DEF RowsTold, DoneOnce, HandInPlace, DataShape
<1>1. DataShape'
  BY <1>0, <1>b DEF DataShape
<1>2. HandInPlace'
  BY <1>0, <1>b, <1>c, DataAssumption DEF HandInPlace, DataShape
<1>3. AsksApart'
  BY <1>0, <1>a, <1>b DEF AsksApart, DataShape
<1>4. RowsTold'
  BY <1>0, <1>b, <1>c DEF RowsTold, DoneOnce, DataShape
<1>5. UsageBetween'
  <2>1. Counted' = Counted
    BY <1>0 DEF Counted
  <2> QED BY <1>0, <2>1, UsageStays
<1>6. RoomLeft'
  <2>1. \A x \in Backups : Uncounted(x)' => Uncounted(x)
    BY <1>0, <1>a, <1>b DEF Uncounted
  <2> QED BY <1>0, <2>1, RoomStays
<1> QED BY <1>1, <1>2, <1>3, <1>4, <1>5, <1>6

LEMMA DataBegins == DataInit => DataInv
<1> SUFFICES ASSUME DataInit PROVE DataInv
  OBVIOUS
<1> USE DataAssumption, NothingTyped DEF DataInit, WorkQueue!ContractInit
<1>1. DataShape /\ HandInPlace /\ AsksApart /\ RowsTold
  BY DEF DataShape, HandInPlace, AsksApart, RowsTold, DoneOnce
<1>2. UsageBetween
  <2>1. Counted = {} /\ Counted \ repeated = {}
    BY DEF Counted
  <2> QED BY <2>1, FS_EmptySet DEF UsageBetween
<1>3. RoomLeft
  BY DEF RoomLeft, Uncounted
<1> QED BY <1>1, <1>2, <1>3 DEF DataInv

LEMMA DataGoesOn == DataInv /\ [DataNext]_dataVars => DataInv'
<1> SUFFICES ASSUME DataInv, [DataNext]_dataVars PROVE DataInv'
  OBVIOUS
<1>1. CASE \E r \in DataRequests :
             \/ Provision(r) \/ ProvisionAnswered(r)
             \/ \E b \in Backups : BackupAdmitted(r, b)
             \/ \E x \in Restores, b \in Backups : RestoreAdmitted(r, x, b)
             \/ RowCreated(r) \/ JobEnqueued(r) \/ AskDies(r)
  BY <1>1, ProvisionKeeps, ProvisionAnsweredKeeps, BackupAdmittedKeeps, RestoreAdmittedKeeps,
     RowCreatedKeeps, JobEnqueuedKeeps, AskDiesKeeps
<1>2. CASE \E x \in Works : HandTakes(x)
  BY <1>2, HandTakesKeeps
<1>3. CASE EngineDoes \/ EngineUnheard \/ EngineDoesNot
  BY <1>3, EngineDoesKeeps, EngineUnheardKeeps, EngineDoesNotKeeps
<1>4. CASE JobSettled \/ RowApplied \/ UsageRecorded
  BY <1>4, JobSettledKeeps, RowAppliedKeeps, UsageRecordedKeeps
<1>5. CASE HandDies \/ WorkTakenBack
  BY <1>5, HandDiesKeeps, WorkTakenBackKeeps
<1>6. CASE UNCHANGED dataVars
  <2> USE <1>6 DEF dataVars, workQueueVars, ledgerVars, DataInv
  <2>1. Counted' = Counted /\ (\A x \in Backups : Uncounted(x)' => Uncounted(x))
    BY DEF Counted, Uncounted
  <2>2. UsageBetween' /\ RoomLeft'
    BY <2>1, UsageStays, RoomStays
  <2> QED BY <2>2 DEF DataShape, HandInPlace, AsksApart, RowsTold, DoneOnce
<1> QED BY <1>1, <1>2, <1>3, <1>4, <1>5, <1>6 DEF DataNext

LEMMA DataAlways == DataSpec => []DataInv
BY DataBegins, DataGoesOn, PTL DEF DataSpec

\* Usage counts a backup once when it succeeded, unless its worker died before
\* the count, and stays under the cap where admissions do not overlap; a row
\* says how its job ended and the engine carried it out exactly once, unless
\* the worker died or an answer was lost (backup-job.ts:142, billing.ts:191).
THEOREM DataHoldsAlways == DataSpec => []DataHolds
<1>1. ASSUME DataInv PROVE DataHolds
  <2>1. UsageIsEarned
    <3>1. /\ Counted \in SUBSET {b \in Backups : work[b] = "succeeded"}
          /\ Counted \in SUBSET Backups
          /\ {b \in Backups : work[b] = "succeeded"} \in SUBSET Backups
      BY DEF Counted
    <3>2. /\ Cardinality(Counted) <= Cardinality({b \in Backups : work[b] = "succeeded"})
          /\ Cardinality(Counted) \in Nat
          /\ Cardinality({b \in Backups : work[b] = "succeeded"}) \in Nat
      BY <3>1, CountedFinite
    <3>3. used \in Nat /\ UsageBetween
      BY <1>1 DEF DataInv, DataShape
    <3> QED BY <3>2, <3>3 DEF UsageIsEarned, UsageBetween
  <2>2. CapHolds
    BY <1>1 DEF DataInv, RoomLeft, CapHolds
  <2>3. RowFollowsJob
    BY <1>1 DEF DataInv, RowsTold, DoneOnce, RowFollowsJob
  <2> QED BY <2>1, <2>2, <2>3 DEF DataHolds, LedgerHolds
<1> QED BY <1>1, DataAlways, PTL

\* The engine carries out a row at most once per attempt: while a job lives, an
\* attempt it was carried out in is charged before the next one.
WithinBudget ==
  /\ database \in {"absent", "provisioning", "ready", "failed"}
  /\ \A x \in Works :
    /\ wphase[x] = "absent" => done[x] = 0 /\ wspent[x] = 0
    /\ wphase[x] = "waiting" => done[x] <= wspent[x] /\ wspent[x] < DataAttempts
    /\ wphase[x] = "taken" => done[x] <= wspent[x] + 1 /\ wspent[x] < DataAttempts
    /\ wphase[x] = "taken" /\ hand.at = "work" /\ hand.job = x => done[x] <= wspent[x]
    /\ done[x] <= DataAttempts

LEMMA ChargedWithin ==
  ASSUME DataInv, DataInv', WithinBudget, NEW S \in SUBSET Works, WorkQueue!Charge(S),
         \A x \in S : wphase[x] = "taken", UNCHANGED <<database, done>>,
         \A x \in Works \ S : hand'.at = "work" /\ hand'.job = x => hand.at = "work" /\ hand.job = x
  PROVE  WithinBudget'
<1> USE DataAssumption DEF DataInv, DataShape
<1>1. ASSUME NEW x \in Works \ S PROVE wphase'[x] = wphase[x] /\ wspent'[x] = wspent[x]
  BY <1>1 DEF WorkQueue!Charge
<1>2. ASSUME NEW x \in S
      PROVE  /\ wspent[x] \in Nat /\ done[x] \in Nat /\ done[x] <= wspent[x] + 1
             /\ wspent[x] < DataAttempts
             /\ \/ wphase'[x] = "failed"
                \/ wphase'[x] = "waiting" /\ wspent'[x] = wspent[x] + 1 /\ wspent'[x] < DataAttempts
  <2>1. wspent[x] \in Nat /\ done[x] \in Nat /\ wphase[x] = "taken" /\ x \in Works
    OBVIOUS
  <2>2. CASE WorkQueue!LastTry(x)
    BY <2>1, <2>2 DEF WorkQueue!Charge, WithinBudget
  <2>3. CASE ~ WorkQueue!LastTry(x)
    BY <2>1, <2>3 DEF WorkQueue!Charge, WorkQueue!LastTry, WithinBudget
  <2> QED BY <2>2, <2>3
<1>3. ASSUME NEW x \in S
      PROVE  /\ wphase'[x] \in {"waiting", "failed"} /\ done[x] <= DataAttempts
             /\ wphase'[x] = "waiting" => done[x] <= wspent'[x] /\ wspent'[x] < DataAttempts
  BY <1>2
<1> HIDE DEF DataInv
<1> QED BY <1>1, <1>3 DEF WithinBudget

LEMMA WithinBudgetKept ==
  ASSUME DataInv, DataInv', WithinBudget, DataNext PROVE WithinBudget'
<1> USE DataAssumption DEF workQueueVars, ledgerVars
<1>1. ASSUME NEW r \in DataRequests,
             \/ Provision(r) \/ ProvisionAnswered(r)
             \/ \E b \in Backups : BackupAdmitted(r, b)
             \/ \E x \in Restores, b \in Backups : RestoreAdmitted(r, x, b)
             \/ RowCreated(r) \/ AskDies(r)
      PROVE  WithinBudget'
  <2>1. UNCHANGED <<wphase, wspent, done, hand>>
    BY <1>1 DEF Provision, ProvisionAnswered, BackupAdmitted, RestoreAdmitted, RowCreated, AskDies
  <2>2. database' \in {"absent", "provisioning", "ready", "failed"}
    BY <1>1 DEF Provision, ProvisionAnswered, BackupAdmitted, RestoreAdmitted, RowCreated, AskDies,
                WithinBudget
  <2> QED BY <2>1, <2>2 DEF WithinBudget
<1>2. ASSUME NEW r \in DataRequests, JobEnqueued(r) PROVE WithinBudget'
  <2>1. /\ UNCHANGED <<database, wspent, done, hand>> /\ wphase[ask[r].row] = "absent"
        /\ wphase' = [wphase EXCEPT ![ask[r].row] = "waiting"] /\ ask[r].row \in Works
    BY <1>2 DEF JobEnqueued, WorkQueue!Submit, DataInv, AsksApart
  <2>2. /\ wphase'[ask[r].row] = "waiting"
        /\ \A x \in Works \ {ask[r].row} : wphase'[x] = wphase[x]
    BY <2>1 DEF DataInv, DataShape
  <2> QED BY <2>1, <2>2 DEF WithinBudget
<1>3. ASSUME NEW x \in Works, HandTakes(x) PROVE WithinBudget'
  <2>1. /\ UNCHANGED <<database, wspent, done>> /\ wphase[x] = "waiting"
        /\ hand'.job = x /\ wphase'[x] = "taken"
        /\ \A y \in Works \ {x} : wphase'[y] = wphase[y]
    BY <1>3 DEF HandTakes, WorkQueue!Take, DataInv, DataShape
  <2>2. wspent[x] \in Nat /\ done[x] \in Nat
    BY DEF DataInv, DataShape
  <2> QED BY <2>1, <2>2 DEF WithinBudget
<1>4. ASSUME EngineDoes \/ EngineUnheard PROVE WithinBudget'
  <2>1. /\ UNCHANGED <<database, wspent, wphase>> /\ hand.at = "work" /\ hand'.at = "settle"
        /\ hand.job \in Works /\ wphase[hand.job] = "taken"
        /\ done' = [done EXCEPT ![hand.job] = @ + 1]
    <3>1. hand.at = "work" /\ hand'.at = "settle"
      <4>1. "at" \in DOMAIN hand /\ "result" \in DOMAIN hand
        BY DEF DataInv, DataShape
      <4> QED BY <1>4, <4>1 DEF EngineDoes, EngineUnheard
    <3>2. UNCHANGED <<database, wspent, wphase>> /\ done' = [done EXCEPT ![hand.job] = @ + 1]
      BY <1>4 DEF EngineDoes, EngineUnheard, WorkQueue!Report
    <3>3. hand.job \in Works /\ wphase[hand.job] = "taken"
      BY <3>1 DEF DataInv, HandInPlace
    <3> QED BY <3>1, <3>2, <3>3
  <2>2. /\ done'[hand.job] = done[hand.job] + 1
        /\ \A y \in Works \ {hand.job} : done'[y] = done[y]
        /\ wspent[hand.job] \in Nat /\ done[hand.job] \in Nat
    BY <2>1 DEF DataInv, DataShape
  <2>3. /\ done'[hand.job] <= wspent[hand.job] + 1 /\ wspent[hand.job] < DataAttempts
        /\ done'[hand.job] <= DataAttempts
    BY <2>1, <2>2 DEF WithinBudget
  <2> QED BY <2>1, <2>2, <2>3 DEF WithinBudget
<1>5. ASSUME EngineDoesNot \/ RowApplied \/ UsageRecorded PROVE WithinBudget'
  <2>1. UNCHANGED <<database, wphase, wspent, done>> /\ hand'.at # "work"
    <3>1. UNCHANGED <<database, wphase, wspent, done>>
      BY <1>5 DEF EngineDoesNot, RowApplied, UsageRecorded
    <3>2. CASE EngineDoesNot
      BY <3>2 DEF EngineDoesNot, DataInv, DataShape
    <3>3. CASE RowApplied
      <4>1. hand' = [hand EXCEPT !.at = "count"] \/ hand' = Free
        BY <3>3 DEF RowApplied
      <4>2. "at" \in DOMAIN hand
        BY DEF DataInv, DataShape
      <4>3. CASE hand' = [hand EXCEPT !.at = "count"]
        BY <3>1, <4>2, <4>3
      <4>4. CASE hand' = Free
        BY <3>1, <4>4 DEF Free
      <4> QED BY <4>1, <4>3, <4>4
    <3>4. CASE UsageRecorded
      BY <3>4 DEF UsageRecorded, Free
    <3> QED BY <1>5, <3>1, <3>2, <3>3, <3>4
  <2> QED BY <2>1 DEF WithinBudget
<1>6. ASSUME JobSettled PROVE WithinBudget'
  <2>1. /\ UNCHANGED <<database, done>> /\ hand'.at = "apply" /\ hand.job \in Works
        /\ wphase[hand.job] = "taken" /\ hand.result \in {"succeeded", "failed", "degraded"}
    BY <1>6 DEF JobSettled, DataInv, DataShape, HandInPlace
  <2>2. CASE WorkQueue!Retry(hand.job)
    BY <2>1, <2>2, ChargedWithin DEF WorkQueue!Retry
  <2>3. CASE \E outcome \in {"succeeded", "failed"} : WorkQueue!End(hand.job, outcome)
    <3>1. /\ wphase'[hand.job] \in {"succeeded", "failed"}
          /\ \A y \in Works \ {hand.job} : wphase'[y] = wphase[y] /\ wspent'[y] = wspent[y]
      BY <2>1, <2>3 DEF WorkQueue!End, DataInv, DataShape
    <3> QED BY <2>1, <3>1 DEF WithinBudget
  <2> QED BY <1>6, <2>1, <2>2, <2>3 DEF JobSettled
<1>7. ASSUME HandDies PROVE WithinBudget'
  <2>1. UNCHANGED <<database, wphase, wspent, done>> /\ hand'.at # "work"
    BY <1>7, NothingTyped DEF HandDies, WorkQueue!Die
  <2> QED BY <2>1 DEF WithinBudget
<1>8. ASSUME WorkTakenBack PROVE WithinBudget'
  BY <1>8, ChargedWithin DEF WorkTakenBack, WorkQueue!TakeBack, WorkQueue!Orphans
<1> QED BY <1>1, <1>2, <1>3, <1>4, <1>5, <1>6, <1>7, <1>8 DEF DataNext

\* The rows, the requests and the worker's notes always are of their types: no
\* more is used than there are backups, and no row is carried out more often than
\* it has attempts.
THEOREM DataTypeAlways == DataSpec => []DataType
<1>1. DataInit => WithinBudget
  BY DataAssumption DEF DataInit, WithinBudget, WorkQueue!ContractInit
<1>2. DataInv /\ DataInv' /\ WithinBudget /\ [DataNext]_dataVars => WithinBudget'
  BY WithinBudgetKept DEF dataVars, workQueueVars, ledgerVars, WithinBudget
<1>3. ASSUME DataInv, WithinBudget PROVE DataType
  <2>1. used <= Cardinality(Backups) /\ Cardinality(Backups) \in Nat
    <3>1. Counted \in SUBSET Backups /\ Backups \in SUBSET Backups
      BY DEF Counted
    <3>2. /\ Cardinality(Counted) <= Cardinality(Backups)
          /\ Cardinality(Counted) \in Nat /\ Cardinality(Backups) \in Nat
      BY <3>1, CountedFinite
    <3> QED BY <1>3, <3>2 DEF DataInv, DataShape, UsageBetween
  <2>2. used \in 0 .. Cardinality(Backups)
    BY <1>3, <2>1 DEF DataInv, DataShape
  <2>3. done \in [Works -> 0 .. DataAttempts]
    <3>1. \A x \in Works : done[x] \in 0 .. DataAttempts
      BY <1>3, DataAssumption DEF DataInv, DataShape, WithinBudget
    <3> QED BY <1>3, <3>1 DEF DataInv, DataShape
  <2> QED BY <1>3, <2>2, <2>3 DEF DataInv, DataShape, WithinBudget, DataType
<1> QED BY <1>1, <1>2, <1>3, DataAlways, PTL DEF DataSpec

-----------------------------------------------------------------------------
(* The engine.  Saves end in the order they began unless one overtook      *)
(* another, so what a save under way holds is what the file will hold; a   *)
(* create works on an id nobody else knows until it is registered, and the *)
(* container it started keeps its port from the others.                    *)

DatabaseRows == [Databases -> DatabaseRecord]
CallRecords ==
  [at : {"idle", "starting", "started", "keeping", "waiting", "removing", "removed",
         "ending", "dumping", "writing", "listing", "altering"},
   id : Databases \cup {NoDatabase}, dump : Dumps \cup {NoDump}, port : DbPorts \cup {NoDbPort}]
ContainerRecords == [state : {"none", "up", "stopped"}, port : DbPorts \cup {NoDbPort}]
Saves == [by : Clients, rows : DatabaseRows]

DatabaseShape ==
  /\ known \in DatabaseRows /\ saved \in DatabaseRows /\ saving \in Seq(Saves)
  /\ container \in [Databases -> ContainerRecords] /\ served \in [Clients -> CallRecords]
  /\ dumped \subseteq Dumps
  /\ promised \subseteq Databases /\ told \subseteq Databases \X Dumps

Creating(c) == served[c].at \in {"starting", "started"}
HasSave(c) == served[c].at \in {"keeping", "listing", "ending"}

\* A create works on an id of its own, which nobody was ever told of; every other
\* call names a database.
CallsApart ==
  \A c \in Clients :
       /\ served[c].at = "idle" => served[c] = Unused
       /\ served[c].at # "idle" => served[c].id \in Databases
       /\ served[c].at \in {"dumping", "writing", "listing"} => served[c].dump \in Dumps
       /\ Creating(c) =>
            /\ served[c].port \in DbPorts /\ ~ known[served[c].id].there
            /\ \A d \in Clients \ {c} : served[d].id # served[c].id
            /\ \A b \in Dumps : <<served[c].id, b>> \notin told

\* A save is of one call, which waits for it.
SavesOwned ==
  /\ \A n \in DOMAIN saving : HasSave(saving[n].by)
  /\ \A n, m \in DOMAIN saving : saving[n].by = saving[m].by => n = m

\* Rows of which no two have one port, but for a released one.
PortsApart(rows) ==
  \A i, j \in Databases :
    i # j /\ rows[i].there /\ rows[j].there /\ rows[i].port = rows[j].port =>
      {i, j} \cap released # {}

\* The records in memory, in the file and in every save under way.
SnapshotsApart ==
  /\ PortsApart(known) /\ PortsApart(saved)
  /\ \A n \in DOMAIN saving : PortsApart(saving[n].rows)

\* Between the daemon's answer and the record the container keeps the port, or is
\* released; so it does for a record made while another create held its port.
StartedKeepPort ==
  \A c \in Clients : served[c].at = "started" =>
    \/ container[served[c].id] = [state |-> "up", port |-> served[c].port]
    \/ served[c].id \in released

RecordsKeepPort ==
  \A c \in Clients, i \in Databases :
    known[i].there /\ known[i].port = served[c].port =>
      /\ served[c].at = "starting" =>
           container[i] = [state |-> "up", port |-> served[c].port] \/ i \in released
      /\ served[c].at = "started" => {i, served[c].id} \cap released # {}

StartedApart ==
  \A c, d \in Clients :
    c # d /\ served[c].at = "started" /\ served[d].at = "started"
      /\ served[c].port = served[d].port =>
        {served[c].id, served[d].id} \cap released # {}

\* The row of database i lists dump b, if there is one.
Lists(rows, i, b) == rows[i].there => b \in rows[i].backups

\* While no save overtook another, what was promised or told is in memory, in the
\* file, and in every save under way; what is about to be, in those from its own on.
PromisesKept ==
  ~ overtaken =>
    \A i \in promised :
      known[i].there /\ saved[i].there /\ \A n \in DOMAIN saving : saving[n].rows[i].there

TellingsKept ==
  ~ overtaken =>
    \A i \in Databases, b \in Dumps : <<i, b>> \in told =>
      /\ b \in dumped /\ Lists(known, i, b) /\ Lists(saved, i, b)
      /\ \A n \in DOMAIN saving : Lists(saving[n].rows, i, b)

WaitingSaved ==
  ~ overtaken =>
    \A c \in Clients : served[c].at = "waiting" /\ known[served[c].id].there =>
      /\ saved[served[c].id].there
      /\ \A n \in DOMAIN saving : saving[n].rows[served[c].id].there

SavesHold ==
  ~ overtaken =>
    /\ \A c \in Clients : served[c].at = "listing" =>
         /\ served[c].dump \in dumped
         /\ Lists(known, served[c].id, served[c].dump)
    /\ \A n, m \in DOMAIN saving : n <= m =>
         LET c == saving[n].by IN
           /\ served[c].at = "keeping" /\ known[served[c].id].there =>
                saving[m].rows[served[c].id].there
           /\ served[c].at = "listing" =>
                Lists(saving[m].rows, served[c].id, served[c].dump)

DatabaseInv ==
  /\ DatabaseShape /\ CallsApart /\ SavesOwned
  /\ SnapshotsApart /\ StartedKeepPort /\ RecordsKeepPort /\ StartedApart
  /\ PromisesKept /\ TellingsKept /\ WaitingSaved /\ SavesHold

LEMMA ShapeTyped == ASSUME DatabaseShape PROVE DatabaseHostType
<1>1. saving \in Seq(Saves)
  BY DEF DatabaseShape
<1>2. \A n \in DOMAIN saving : saving[n] \in Saves
  BY <1>1
<1> QED BY <1>2 DEF DatabaseShape, DatabaseHostType, DatabaseRows, CallRecords, ContainerRecords, Saves

LEMMA UnusedTyped ==
  /\ Unused.at = "idle" /\ Unused.id = NoDatabase /\ Unused.port = NoDbPort
  /\ NoDatabase \notin Databases /\ NoDbPort \notin DbPorts
  /\ NoRecord \in DatabaseRecord /\ ~ NoRecord.there
  /\ Unused \in CallRecords /\ NoContainer \in ContainerRecords
BY DatabaseHostAssumption DEF Unused, NoRecord, DatabaseRecord, CallRecords, NoContainer, ContainerRecords


LEMMA SavesTyped ==
  ASSUME DatabaseShape
  PROVE  /\ DOMAIN saving \subseteq Nat \ {0}
         /\ \A n \in DOMAIN saving : saving[n].by \in Clients /\ saving[n].rows \in DatabaseRows
<1>1. saving \in Seq(Saves)
  BY DEF DatabaseShape
<1>2. DOMAIN saving = 1 .. Len(saving) /\ Len(saving) \in Nat /\ \A n \in DOMAIN saving : saving[n] \in Saves
  BY <1>1
<1>3. DOMAIN saving \subseteq Nat \ {0}
  BY <1>2
<1> QED BY <1>2, <1>3 DEF Saves

\* A save that begins is the last one.
LEMMA SaveAdded ==
  ASSUME DatabaseShape, NEW c \in Clients, NEW rows \in DatabaseRows, Keep(c, rows)
  PROVE  /\ saving' \in Seq(Saves)
         /\ DOMAIN saving' = DOMAIN saving \cup {Len(saving) + 1}
         /\ \A n \in DOMAIN saving : saving'[n] = saving[n] /\ ~ (Len(saving) + 1 <= n)
         /\ Len(saving) + 1 \notin DOMAIN saving
         /\ saving'[Len(saving) + 1].by = c /\ saving'[Len(saving) + 1].rows = rows
<1> DEFINE new == [by |-> c, rows |-> rows]
<1>1. new \in Saves /\ saving \in Seq(Saves) /\ new.by = c /\ new.rows = rows
  BY DEF DatabaseShape, Saves
<1>2. saving' = Append(saving, new)
  BY DEF Keep
<1> HIDE DEF new
<1>3. /\ saving' \in Seq(Saves) /\ Len(saving) \in Nat
      /\ DOMAIN saving = 1 .. Len(saving) /\ DOMAIN saving' = 1 .. Len(saving) + 1
      /\ \A n \in 1 .. Len(saving) : saving'[n] = saving[n]
      /\ saving'[Len(saving) + 1] = new
  BY <1>1, <1>2
<1> QED BY <1>1, <1>3

\* One that ends leaves the others, in their order.
LEMMA SaveRemoved ==
  ASSUME DatabaseShape, NEW n \in DOMAIN saving, saving' = RemoveAt(saving, n)
  PROVE  /\ saving' \in Seq(Saves)
         /\ \A k, l \in DOMAIN saving' : \E m, o \in DOMAIN saving \ {n} :
              /\ saving'[k] = saving[m] /\ saving'[l] = saving[o]
              /\ k <= l => m <= o
              /\ m = o => k = l
<1>1. saving \in Seq(Saves) /\ n \in 1 .. Len(saving) /\ Len(saving) \in Nat
  BY DEF DatabaseShape
<1>2. /\ saving' \in Seq(Saves) /\ Len(saving') = Len(saving) - 1
      /\ \A k \in 1 .. Len(saving) - 1 : saving'[k] = saving[IF k < n THEN k ELSE k + 1]
  <2> DEFINE before == SubSeq(saving, 1, n - 1)
             after == SubSeq(saving, n + 1, Len(saving))
  <2>1. /\ before \in Seq(Saves) /\ Len(before) = n - 1
        /\ \A k \in 1 .. n - 1 : before[k] = saving[k]
    BY <1>1
  <2>2. /\ after \in Seq(Saves) /\ Len(after) = Len(saving) - n
        /\ \A k \in 1 .. Len(saving) - n : after[k] = saving[k + n]
    BY <1>1
  <2>3. saving' = before \o after
    BY DEF RemoveAt
  <2> HIDE DEF before, after
  <2>4. saving' \in Seq(Saves) /\ Len(saving') = Len(saving) - 1
    BY <1>1, <2>1, <2>2, <2>3
  <2>5. ASSUME NEW k \in 1 .. Len(saving) - 1
        PROVE  saving'[k] = saving[IF k < n THEN k ELSE k + 1]
    <3>1. CASE k < n
      <4>1. saving'[k] = before[k]
        BY <1>1, <2>1, <2>2, <2>3, <3>1
      <4> QED BY <1>1, <2>1, <3>1, <4>1
    <3>2. CASE ~ (k < n)
      <4>1. saving'[k] = after[k - (n - 1)] /\ k - (n - 1) \in 1 .. Len(saving) - n
        BY <1>1, <2>1, <2>2, <2>3, <3>2, SMTT(40)
      <4>2. (k - (n - 1)) + n = k + 1
        BY <1>1
      <4> QED BY <2>2, <3>2, <4>1, <4>2
    <3> QED BY <3>1, <3>2
  <2> QED BY <2>4, <2>5
<1>3. ASSUME NEW k \in DOMAIN saving', NEW l \in DOMAIN saving'
      PROVE  \E m, o \in DOMAIN saving \ {n} :
               /\ saving'[k] = saving[m] /\ saving'[l] = saving[o]
               /\ k <= l => m <= o
               /\ m = o => k = l
  <2> DEFINE old(j) == IF j < n THEN j ELSE j + 1
  <2>1. k \in 1 .. Len(saving) - 1 /\ l \in 1 .. Len(saving) - 1
    BY <1>1, <1>2
  <2>2. /\ old(k) \in DOMAIN saving \ {n} /\ old(l) \in DOMAIN saving \ {n}
        /\ k <= l => old(k) <= old(l)
        /\ old(k) = old(l) => k = l
    BY <1>1, <2>1
  <2> QED BY <1>2, <2>1, <2>2
<1> QED BY <1>2, <1>3

\* What stands while a call moves that has no save under way.
LEMMA QuietCall ==
  ASSUME DatabaseInv, NEW c \in Clients, ~ HasSave(c), ~ HasSave(c)',
         \A d \in Clients \ {c} : served'[d] = served[d],
         UNCHANGED <<known, saved, saving, dumped, told, overtaken>>,
         released \subseteq released'
  PROVE  /\ SavesOwned' /\ SnapshotsApart' /\ TellingsKept' /\ SavesHold'
         /\ served'[c].at # "waiting" => WaitingSaved'
         /\ promised' = promised => PromisesKept'
<1>1. \A n \in DOMAIN saving : saving[n].by \in Clients \ {c}
  BY SavesTyped DEF DatabaseInv, SavesOwned
<1>2. SavesOwned'
  BY <1>1 DEF DatabaseInv, SavesOwned, HasSave
<1>3. SnapshotsApart' /\ TellingsKept'
  BY DEF DatabaseInv, SnapshotsApart, PortsApart, TellingsKept, Lists
<1>4. SavesHold'
  <2>1. served'[c].at # "listing"
    BY DEF HasSave
  <2>2. SavesHold /\ \A n \in DOMAIN saving : served'[saving[n].by] = served[saving[n].by]
    BY <1>1 DEF DatabaseInv
  <2>3. \A d \in Clients : served'[d].at = "listing" => served[d] = served'[d]
    BY <2>1
  <2> QED BY <2>2, <2>3 DEF SavesHold
<1>5. served'[c].at # "waiting" => WaitingSaved'
  BY DEF DatabaseInv, WaitingSaved
<1>6. promised' = promised => PromisesKept'
  BY DEF DatabaseInv, PromisesKept
<1> QED BY <1>2, <1>3, <1>4, <1>5, <1>6

\* What stands when a call begins a save of what is now in memory.
LEMMA SaveBegins ==
  ASSUME DatabaseInv, NEW c \in Clients, ~ HasSave(c), HasSave(c)',
         known' \in DatabaseRows, Keep(c, known'),
         \A d \in Clients \ {c} : served'[d] = served[d],
         UNCHANGED <<saved, overtaken>>, dumped \subseteq dumped',
         \A d \in Clients \ {c} : HasSave(d) \/ served[d].at = "waiting" =>
            /\ known'[served[d].id].there => known[served[d].id].there
            /\ \A b \in Dumps : Lists(known, served[d].id, b) => Lists(known', served[d].id, b),
         served'[c].at = "listing" =>
            served'[c].dump \in dumped' /\ Lists(known', served'[c].id, served'[c].dump)
  PROVE  /\ saving' \in Seq(Saves) /\ SavesOwned' /\ WaitingSaved' /\ SavesHold'
         /\ \A n \in DOMAIN saving' :
              saving'[n].rows = known' \/ (n \in DOMAIN saving /\ saving'[n] = saving[n])
<1> DEFINE last == Len(saving) + 1
<1>1. /\ saving' \in Seq(Saves) /\ DOMAIN saving' = DOMAIN saving \cup {last}
      /\ \A n \in DOMAIN saving : saving'[n] = saving[n] /\ ~ (last <= n)
      /\ last \notin DOMAIN saving /\ saving'[last].by = c /\ saving'[last].rows = known'
  BY SaveAdded DEF DatabaseInv
<1> HIDE DEF last
<1>2. \A n \in DOMAIN saving : saving[n].by \in Clients \ {c}
  BY SavesTyped DEF DatabaseInv, SavesOwned
<1>3. SavesOwned'
  <2>1. \A n \in DOMAIN saving' : HasSave(saving[n].by)'
    BY <1>1, <1>2 DEF DatabaseInv, SavesOwned, HasSave
  <2>2. \A n, m \in DOMAIN saving' : saving'[n].by = saving'[m].by => n = m
    BY <1>1, <1>2 DEF DatabaseInv, SavesOwned
  <2> QED BY <2>1, <2>2 DEF SavesOwned
<1>4. WaitingSaved'
  <2>1. served'[c].at # "waiting"
    BY DEF HasSave
  <2> QED BY <1>1, <2>1 DEF DatabaseInv, WaitingSaved
<1>5. SavesHold'
  <2> SUFFICES ASSUME ~ overtaken' PROVE SavesHold'
    BY DEF SavesHold
  <2>1. ASSUME NEW d \in Clients, served'[d].at = "listing"
        PROVE  served'[d].dump \in dumped' /\ Lists(known', served'[d].id, served'[d].dump)
    <3>1. CASE d = c
      BY <2>1, <3>1
    <3>2. CASE d # c
      <4>1. served'[d] = served[d] /\ HasSave(d) /\ served[d].dump \in Dumps
        BY <2>1, <3>2 DEF DatabaseInv, CallsApart, HasSave
      <4>2. served[d].dump \in dumped /\ Lists(known, served[d].id, served[d].dump)
        BY <2>1, <4>1 DEF DatabaseInv, SavesHold
      <4> QED BY <3>2, <4>1, <4>2
    <3> QED BY <3>1, <3>2
  <2>2. ASSUME NEW n \in DOMAIN saving', NEW m \in DOMAIN saving', n <= m
        PROVE  /\ served'[saving'[n].by].at = "keeping" /\ known'[served'[saving'[n].by].id].there =>
                    saving'[m].rows[served'[saving'[n].by].id].there
               /\ served'[saving'[n].by].at = "listing" =>
                    Lists(saving'[m].rows, served'[saving'[n].by].id, served'[saving'[n].by].dump)
    <3>1. saving'[n].by \in Clients
      BY <1>1, <1>2
    <3>2. CASE m = last
      BY <1>1, <2>1, <3>1, <3>2
    <3>3. CASE m # last
      <4> DEFINE d == saving[n].by
      <4>1. /\ n \in DOMAIN saving /\ m \in DOMAIN saving /\ d \in Clients \ {c}
            /\ saving'[n].by = d /\ saving'[m] = saving[m] /\ served'[d] = served[d] /\ HasSave(d)
        BY <1>1, <1>2, <2>2, <3>3 DEF DatabaseInv, SavesOwned
      <4>2. /\ served[d].at = "keeping" /\ known[served[d].id].there => saving[m].rows[served[d].id].there
            /\ served[d].at = "listing" => Lists(saving[m].rows, served[d].id, served[d].dump)
        BY <2>2, <4>1 DEF DatabaseInv, SavesHold
      <4> HIDE DEF d
      <4> QED BY <4>1, <4>2
    <3> QED BY <3>2, <3>3
  <2>3. ~ overtaken
    OBVIOUS
  <2> QED BY <2>1, <2>2 DEF SavesHold
<1> QED BY <1>1, <1>3, <1>4, <1>5

\* What stands when a save goes, whose call goes on.
LEMMA SaveGone ==
  ASSUME DatabaseInv, NEW n \in DOMAIN saving, saving' = RemoveAt(saving, n), served'[saving[n].by].at \notin {"keeping", "listing", "ending"},
         \A d \in Clients \ {saving[n].by} : served'[d] = served[d],
         UNCHANGED <<known, dumped>>, ~ overtaken' => ~ overtaken
  PROVE  /\ saving' \in Seq(Saves) /\ SavesOwned' /\ SavesHold'
         /\ \A k \in DOMAIN saving' : \E m \in DOMAIN saving \ {n} : saving'[k] = saving[m]
<1>1. /\ saving' \in Seq(Saves)
      /\ \A k, l \in DOMAIN saving' : \E m, o \in DOMAIN saving \ {n} :
           /\ saving'[k] = saving[m] /\ saving'[l] = saving[o]
           /\ k <= l => m <= o
           /\ m = o => k = l
  BY SaveRemoved DEF DatabaseInv
<1>2. \A m \in DOMAIN saving \ {n} : saving[m].by \in Clients \ {saving[n].by} /\ served'[saving[m].by] = served[saving[m].by]
  BY SavesTyped DEF DatabaseInv, SavesOwned, HasSave
<1>3. \A k \in DOMAIN saving' : \E m \in DOMAIN saving \ {n} : saving'[k] = saving[m]
  BY <1>1
<1>4. SavesOwned'
  <2>1. \A k \in DOMAIN saving' : HasSave(saving[k].by)'
    BY <1>2, <1>3 DEF DatabaseInv, SavesOwned, HasSave
  <2>2. ASSUME NEW k \in DOMAIN saving', NEW l \in DOMAIN saving', saving'[k].by = saving'[l].by
        PROVE  k = l
    <3>1. PICK m, o \in DOMAIN saving \ {n} :
             saving'[k] = saving[m] /\ saving'[l] = saving[o] /\ (m = o => k = l)
      BY <1>1
    <3>2. m = o
      BY <2>2, <3>1 DEF DatabaseInv, SavesOwned
    <3> QED BY <3>1, <3>2
  <2> QED BY <2>1, <2>2 DEF SavesOwned
<1>5. SavesHold'
  <2> SUFFICES ASSUME ~ overtaken' PROVE SavesHold'
    BY DEF SavesHold
  <2>1. ASSUME NEW d \in Clients, served'[d].at = "listing"
        PROVE  served'[d].dump \in dumped' /\ Lists(known', served'[d].id, served'[d].dump)
    <3>1. d # saving[n].by
      BY <2>1
    <3> QED BY <2>1, <3>1 DEF DatabaseInv, SavesHold
  <2>2. ASSUME NEW k \in DOMAIN saving', NEW l \in DOMAIN saving', k <= l
        PROVE  /\ served'[saving'[k].by].at = "keeping" /\ known'[served'[saving'[k].by].id].there =>
                    saving'[l].rows[served'[saving'[k].by].id].there
               /\ served'[saving'[k].by].at = "listing" =>
                    Lists(saving'[l].rows, served'[saving'[k].by].id, served'[saving'[k].by].dump)
    <3>1. PICK m, o \in DOMAIN saving \ {n} :
             saving'[k] = saving[m] /\ saving'[l] = saving[o] /\ m <= o
      BY <1>1, <2>2
    <3> DEFINE d == saving[m].by
    <3>2. served'[d] = served[d]
      BY <1>2
    <3>3. /\ served[d].at = "keeping" /\ known[served[d].id].there => saving[o].rows[served[d].id].there
          /\ served[d].at = "listing" => Lists(saving[o].rows, served[d].id, served[d].dump)
      BY <3>1 DEF DatabaseInv, SavesHold
    <3> HIDE DEF d
    <3>4. saving'[k].by = d /\ saving'[l].rows = saving[o].rows /\ known' = known
      BY <3>1 DEF d
    <3> QED BY <3>2, <3>3, <3>4
  <2> QED BY <2>1, <2>2 DEF SavesHold
<1> QED BY <1>1, <1>3, <1>4, <1>5

\* A call that gives up with no save under way leaves what stands.
LEMMA CallGivenUp ==
  ASSUME DatabaseInv, NEW c \in Clients, Answers(c), ~ HasSave(c),
         UNCHANGED <<known, saved, saving, dumped, promised, told, released, overtaken>>,
         container' \in [Databases -> ContainerRecords],
         \A i \in Databases : container'[i] = container[i] \/ (Creating(c) /\ i = served[c].id)
  PROVE  DatabaseInv'
<1>1. /\ served' \in [Clients -> CallRecords] /\ served'[c] = Unused /\ ~ HasSave(c)'
      /\ \A d \in Clients \ {c} : served'[d] = served[d]
  BY UnusedTyped DEF DatabaseInv, DatabaseShape, Answers, HasSave
<1>2. SavesOwned' /\ SnapshotsApart' /\ TellingsKept' /\ SavesHold' /\ WaitingSaved' /\ PromisesKept'
  BY <1>1, UnusedTyped, QuietCall
<1>3. DatabaseShape'
  BY <1>1 DEF DatabaseInv, DatabaseShape
<1>4. CallsApart'
  BY <1>1, UnusedTyped DEF DatabaseInv, CallsApart, Creating
<1>5. StartedKeepPort' /\ StartedApart'
  BY <1>1, UnusedTyped DEF DatabaseInv, StartedKeepPort, StartedApart, CallsApart, Creating
<1>6. RecordsKeepPort'
  <2>1. \A i \in Databases : known[i].there => container'[i] = container[i]
    BY DEF DatabaseInv, CallsApart, Creating
  <2>2. served'[c].at = "idle"
    BY <1>1, UnusedTyped
  <2>3. ASSUME NEW d \in Clients, NEW i \in Databases, known[i].there, known[i].port = served'[d].port,
               served'[d].at # "idle"
        PROVE  d # c /\ served'[d] = served[d] /\ container'[i] = container[i]
    BY <1>1, <2>1, <2>2, <2>3
  <2>4. ASSUME NEW d \in Clients, NEW i \in Databases, known[i].there, known[i].port = served'[d].port
        PROVE  /\ served'[d].at = "starting" =>
                    container'[i] = [state |-> "up", port |-> served'[d].port] \/ i \in released
               /\ served'[d].at = "started" => {i, served'[d].id} \cap released # {}
    BY <2>3, <2>4, ZenonT(60) DEF DatabaseInv, RecordsKeepPort
  <2> QED BY <2>4 DEF RecordsKeepPort
<1> QED BY <1>2, <1>3, <1>4, <1>5, <1>6 DEF DatabaseInv

\* A call that begins, on a database of record or on a new one.
LEMMA CallBegins ==
  ASSUME DatabaseInv, NEW c \in Clients, NEW asked \in CallRecords, Called(c, asked),
         asked.id \in Databases,
         \/ asked.at \in {"dumping", "removing", "altering"} /\ known[asked.id].there
         \/ asked.at = "starting" /\ NewId(asked.id) /\ asked.port \in FreeDbPorts,
         asked.at = "dumping" => asked.dump \in Dumps
  PROVE  DatabaseInv'
<1>1. /\ served' \in [Clients -> CallRecords] /\ served'[c] = asked /\ served[c] = Unused
      /\ ~ HasSave(c) /\ ~ HasSave(c)'
      /\ \A d \in Clients \ {c} : served'[d] = served[d]
      /\ UNCHANGED <<known, saved, saving, container, dumped, promised, told, released, overtaken>>
  BY UnusedTyped DEF DatabaseInv, DatabaseShape, Called, engineVars, answerVars, HasSave
<1>2. SavesOwned' /\ SnapshotsApart' /\ TellingsKept' /\ SavesHold' /\ WaitingSaved' /\ PromisesKept'
  BY <1>1, QuietCall
<1>3. DatabaseShape'
  BY <1>1 DEF DatabaseInv, DatabaseShape
<1>4. CallsApart'
  <2>1. ASSUME NEW d \in Clients \ {c}
        PROVE  /\ served'[d].at = "idle" => served'[d] = Unused
               /\ served'[d].at # "idle" => served'[d].id \in Databases
               /\ served'[d].at \in {"dumping", "writing", "listing"} => served'[d].dump \in Dumps
               /\ Creating(d)' =>
                    /\ served'[d].port \in DbPorts /\ ~ known'[served'[d].id].there
                    /\ \A e \in Clients \ {d} : served'[e].id # served'[d].id
                    /\ \A b \in Dumps : <<served'[d].id, b>> \notin told'
    BY <1>1 DEF DatabaseInv, CallsApart, Creating, NewId
  <2>2. /\ served'[c].at # "idle" /\ served'[c].id \in Databases
        /\ served'[c].at \in {"dumping", "writing", "listing"} => served'[c].dump \in Dumps
        /\ Creating(c)' =>
             /\ served'[c].port \in DbPorts /\ ~ known'[served'[c].id].there
             /\ \A e \in Clients \ {c} : served'[e].id # served'[c].id
             /\ \A b \in Dumps : <<served'[c].id, b>> \notin told'
    BY <1>1 DEF Creating, NewId, FreeDbPorts
  <2> QED BY <2>1, <2>2 DEF CallsApart
<1>5. StartedKeepPort' /\ StartedApart'
  BY <1>1 DEF DatabaseInv, StartedKeepPort, StartedApart
<1>6. RecordsKeepPort'
  BY <1>1 DEF DatabaseInv, RecordsKeepPort, FreeDbPorts
<1> QED BY <1>2, <1>3, <1>4, <1>5, <1>6 DEF DatabaseInv

LEMMA CreateKeeps ==
  ASSUME DatabaseInv, NEW c \in Clients, NEW i \in Databases, NEW port \in DbPorts, Create(c, i, port)
  PROVE  DatabaseInv'
<1> DEFINE asked == [Unused EXCEPT !.at = "starting", !.id = i, !.port = port]
<1>1. asked \in CallRecords /\ asked.at = "starting" /\ asked.id = i /\ asked.port = port
  BY UnusedTyped DEF CallRecords
<1>2. Called(c, asked) /\ NewId(i) /\ port \in FreeDbPorts
  BY DEF Create
<1> HIDE DEF asked
<1> QED BY <1>1, <1>2, CallBegins

LEMMA BackupKeeps ==
  ASSUME DatabaseInv, NEW c \in Clients, NEW i \in Databases, NEW b \in Dumps, Backup(c, i, b)
  PROVE  DatabaseInv'
<1> DEFINE asked == [Unused EXCEPT !.at = "dumping", !.id = i, !.dump = b]
<1>1. asked \in CallRecords /\ asked.at = "dumping" /\ asked.id = i /\ asked.dump = b
  BY UnusedTyped DEF CallRecords
<1>2. Called(c, asked) /\ known[i].there
  BY DEF Backup
<1> HIDE DEF asked
<1> QED BY <1>1, <1>2, CallBegins

LEMMA DropKeeps ==
  ASSUME DatabaseInv, NEW c \in Clients, NEW i \in Databases, Drop(c, i) PROVE DatabaseInv'
<1> DEFINE asked == [Unused EXCEPT !.at = "removing", !.id = i]
<1>1. asked \in CallRecords /\ asked.at = "removing" /\ asked.id = i
  BY UnusedTyped DEF CallRecords
<1>2. Called(c, asked) /\ known[i].there
  BY DEF Drop
<1> HIDE DEF asked
<1> QED BY <1>1, <1>2, CallBegins

LEMMA RotateKeeps ==
  ASSUME DatabaseInv, NEW c \in Clients, NEW i \in Databases, Rotate(c, i) PROVE DatabaseInv'
<1> DEFINE asked == [Unused EXCEPT !.at = "altering", !.id = i]
<1>1. asked \in CallRecords /\ asked.at = "altering" /\ asked.id = i
  BY UnusedTyped DEF CallRecords
<1>2. Called(c, asked) /\ known[i].there
  BY DEF Rotate
<1> HIDE DEF asked
<1> QED BY <1>1, <1>2, CallBegins

LEMMA FileFailsKeeps == ASSUME DatabaseInv, NEW c \in Clients, FileFails(c) PROVE DatabaseInv'
BY CallGivenUp DEF FileFails, Place, HasSave, engineVars, answerVars, DatabaseInv, DatabaseShape

LEMMA RefusedKeeps == ASSUME DatabaseInv, NEW c \in Clients, Refused(c) PROVE DatabaseInv'
<1>1. container' \in [Databases -> ContainerRecords]
  BY UnusedTyped DEF Refused, DatabaseInv, DatabaseShape
<1>2. \A i \in Databases : container'[i] = container[i] \/ (Creating(c) /\ i = served[c].id)
  BY DEF Refused, Creating, DatabaseInv, DatabaseShape
<1> QED BY <1>1, <1>2, CallGivenUp DEF Refused, HasSave, answerVars

LEMMA StartsKeeps == ASSUME DatabaseInv, NEW c \in Clients, Starts(c) PROVE DatabaseInv'
<1> DEFINE i == served[c].id
           port == served[c].port
           up == [state |-> "up", port |-> port]
<1>0. served[c] \in CallRecords /\ served[c].at = "starting" /\ i \in Databases /\ port \in DbPorts
  BY DEF Starts, Place, DatabaseInv, DatabaseShape, CallsApart, Creating
<1>1. /\ served' \in [Clients -> CallRecords] /\ ~ HasSave(c) /\ ~ HasSave(c)'
      /\ served'[c].at = "started" /\ served'[c].id = i /\ served'[c].port = port
      /\ \A d \in Clients \ {c} : served'[d] = served[d]
  BY <1>0 DEF Starts, Goes, DatabaseInv, DatabaseShape, CallRecords, HasSave
<1>2. /\ container' \in [Databases -> ContainerRecords] /\ container'[i] = up
      /\ \A j \in Databases \ {i} : container'[j] = container[j]
      /\ \A j \in Databases : container[j] # up
  <2>1. up \in ContainerRecords
    BY <1>0 DEF ContainerRecords
  <2> QED BY <1>0, <2>1 DEF Starts, Bound, DatabaseInv, DatabaseShape
<1>3. UNCHANGED <<known, saved, saving, dumped, promised, told, released, overtaken>>
  BY DEF Starts, answerVars
<1> HIDE DEF i, port
<1>4. SavesOwned' /\ SnapshotsApart' /\ TellingsKept' /\ SavesHold' /\ WaitingSaved' /\ PromisesKept'
  BY <1>1, <1>3, QuietCall
<1>5. DatabaseShape'
  BY <1>1, <1>2, <1>3 DEF DatabaseInv, DatabaseShape
<1>6. CallsApart'
  BY <1>0, <1>1, <1>3 DEF DatabaseInv, CallsApart, Creating, i, port
<1>7. StartedKeepPort'
  <2>1. ASSUME NEW d \in Clients, served'[d].at = "started"
        PROVE  \/ container'[served'[d].id] = [state |-> "up", port |-> served'[d].port]
               \/ served'[d].id \in released'
    <3>1. CASE d = c
      BY <1>1, <1>2, <3>1 DEF up
    <3>2. CASE d # c
      <4>1. served'[d] = served[d] /\ served[d].at = "started"
        BY <1>1, <2>1, <3>2
      <4>2. served[d].id \in Databases /\ served[d].id # i
        BY <1>0, <3>2, <4>1 DEF DatabaseInv, CallsApart, Creating, i
      <4>3. container'[served[d].id] = container[served[d].id]
        BY <1>2, <4>2
      <4>4. \/ container[served[d].id] = [state |-> "up", port |-> served[d].port]
            \/ served[d].id \in released
        BY <4>1 DEF DatabaseInv, StartedKeepPort
      <4> QED BY <1>3, <4>1, <4>3, <4>4
    <3> QED BY <3>1, <3>2
  <2> QED BY <2>1 DEF StartedKeepPort
<1>8. StartedApart'
  <2>1. ASSUME NEW d \in Clients \ {c}, served[d].at = "started", served[d].port = port
        PROVE  served[d].id \in released
    <3>1. served[d].id \in Databases
      BY <2>1 DEF DatabaseInv, CallsApart
    <3>2. container[served[d].id] = up \/ served[d].id \in released
      BY <2>1 DEF DatabaseInv, StartedKeepPort
    <3> QED BY <1>2, <3>1, <3>2
  <2> QED BY <1>1, <1>3, <2>1 DEF DatabaseInv, StartedApart
<1>9. RecordsKeepPort'
  <2>1. \A j \in Databases : known[j].there => j # i
    BY <1>0 DEF DatabaseInv, CallsApart, Creating, i
  <2>2. ASSUME NEW j \in Databases, known[j].there, known[j].port = port PROVE j \in released
    BY <1>0, <1>2, <2>2 DEF DatabaseInv, RecordsKeepPort, port
  <2>3. ASSUME NEW d \in Clients, NEW j \in Databases, known[j].there, known[j].port = served'[d].port
        PROVE  /\ served'[d].at = "starting" =>
                    container'[j] = [state |-> "up", port |-> served'[d].port] \/ j \in released
               /\ served'[d].at = "started" => {j, served'[d].id} \cap released # {}
    <3>1. CASE d = c
      BY <1>1, <2>2, <2>3, <3>1
    <3>2. CASE d # c
      BY <1>1, <1>2, <2>1, <2>3, <3>2, ZenonT(60) DEF DatabaseInv, RecordsKeepPort
    <3> QED BY <3>1, <3>2
  <2> QED BY <1>3, <2>3 DEF RecordsKeepPort
<1> QED BY <1>4, <1>5, <1>6, <1>7, <1>8, <1>9 DEF DatabaseInv

LEMMA DumpEndsKeeps == ASSUME DatabaseInv, NEW c \in Clients, DumpEnds(c) PROVE DatabaseInv'
<1>0. /\ served[c] \in CallRecords /\ served[c].at = "dumping" /\ ~ HasSave(c)
      /\ UNCHANGED <<known, saved, saving, container, dumped, promised, told, released, overtaken>>
  BY DEF DumpEnds, Place, DatabaseInv, DatabaseShape, HasSave, engineVars, answerVars
<1>1. CASE Goes(c, "writing")
  <2>1. /\ served' \in [Clients -> CallRecords] /\ ~ HasSave(c)'
        /\ served'[c].at = "writing" /\ served'[c].id = served[c].id /\ served'[c].dump = served[c].dump
        /\ \A d \in Clients \ {c} : served'[d] = served[d]
    BY <1>0, <1>1 DEF Goes, DatabaseInv, DatabaseShape, CallRecords, HasSave
  <2>2. SavesOwned' /\ SnapshotsApart' /\ TellingsKept' /\ SavesHold' /\ WaitingSaved' /\ PromisesKept'
    BY <1>0, <2>1, QuietCall
  <2>3. DatabaseShape'
    BY <1>0, <2>1 DEF DatabaseInv, DatabaseShape
  <2>4. CallsApart'
    BY <1>0, <2>1 DEF DatabaseInv, CallsApart, Creating
  <2>5. StartedKeepPort' /\ StartedApart' /\ RecordsKeepPort'
    BY <1>0, <2>1 DEF DatabaseInv, StartedKeepPort, StartedApart, RecordsKeepPort
  <2> QED BY <2>2, <2>3, <2>4, <2>5 DEF DatabaseInv
<1>2. CASE Answers(c)
  BY <1>0, <1>2, CallGivenUp DEF DatabaseInv, DatabaseShape
<1> QED BY <1>1, <1>2 DEF DumpEnds

LEMMA CreatedKeeps == ASSUME DatabaseInv, NEW c \in Clients, Created(c) PROVE DatabaseInv'
<1>0. /\ served[c].at = "waiting" /\ ~ HasSave(c) /\ served[c].id \in Databases
      /\ UNCHANGED <<known, saved, saving, container, dumped, told, released, overtaken>>
  BY DEF Created, Place, DatabaseInv, CallsApart, HasSave, engineVars
<1>1. /\ served' \in [Clients -> CallRecords] /\ served'[c] = Unused /\ ~ HasSave(c)'
      /\ \A d \in Clients \ {c} : served'[d] = served[d]
  BY UnusedTyped DEF DatabaseInv, DatabaseShape, Created, Answers, HasSave
<1>2. SavesOwned' /\ SnapshotsApart' /\ TellingsKept' /\ SavesHold' /\ WaitingSaved'
  BY <1>0, <1>1, UnusedTyped, QuietCall
<1>3. promised' = promised \/ (promised' = promised \cup {served[c].id} /\ known[served[c].id].there)
  BY DEF Created
<1>4. PromisesKept'
  BY <1>0, <1>3 DEF DatabaseInv, PromisesKept, WaitingSaved
<1>5. DatabaseShape'
  BY <1>0, <1>1, <1>3 DEF DatabaseInv, DatabaseShape
<1>6. CallsApart'
  BY <1>0, <1>1, UnusedTyped DEF DatabaseInv, CallsApart, Creating
<1>7. StartedKeepPort' /\ StartedApart' /\ RecordsKeepPort'
  BY <1>0, <1>1, UnusedTyped DEF DatabaseInv, StartedKeepPort, StartedApart, RecordsKeepPort
<1> QED BY <1>2, <1>4, <1>5, <1>6, <1>7 DEF DatabaseInv

\* A container goes or stops: its database is released if a create waits with its port.
LEMMA LetsGo ==
  ASSUME DatabaseInv, NEW i \in Databases, NEW state \in {"none", "stopped"}, Lets(i, state)
  PROVE  /\ container' \in [Databases -> ContainerRecords] /\ released \subseteq released'
         /\ \A j \in Databases \ {i} : container'[j] = container[j]
         /\ \A c \in Clients : served[c].port = container[i].port => i \in released'
<1>1. container[i] \in ContainerRecords
  BY DEF DatabaseInv, DatabaseShape
<1>2. [container[i] EXCEPT !.state = state] \in ContainerRecords \/ state = "none"
  BY <1>1 DEF ContainerRecords
<1>3. container' = [container EXCEPT ![i] =
                      IF state = "none" THEN NoContainer ELSE [container[i] EXCEPT !.state = state]]
  BY DEF Lets, DatabaseInv, DatabaseShape
<1>4. container' \in [Databases -> ContainerRecords] /\ \A j \in Databases \ {i} : container'[j] = container[j]
  BY <1>2, <1>3, UnusedTyped DEF DatabaseInv, DatabaseShape
<1> QED BY <1>4 DEF Lets

LEMMA PortsStayKept ==
  ASSUME DatabaseInv, released \subseteq released', UNCHANGED known, NEW i \in Databases,
         \A j \in Databases \ {i} : container'[j] = container[j],
         container' = container \/ \A c \in Clients : served[c].port = container[i].port => i \in released',
         \A c \in Clients : Creating(c)' => served'[c] = served[c]
  PROVE  StartedKeepPort' /\ StartedApart' /\ RecordsKeepPort'
<1>1. StartedKeepPort'
  BY DEF DatabaseInv, StartedKeepPort, CallsApart, Creating
<1>2. StartedApart'
  BY DEF DatabaseInv, StartedApart, CallsApart, Creating
<1>3. RecordsKeepPort'
  BY DEF DatabaseInv, RecordsKeepPort, CallsApart, Creating
<1> QED BY <1>1, <1>2, <1>3

LEMMA ContainerRemovedKeeps == ASSUME DatabaseInv, NEW c \in Clients, ContainerRemoved(c) PROVE DatabaseInv'
<1> DEFINE i == served[c].id
<1>0. /\ served[c] \in CallRecords /\ served[c].at = "removing" /\ ~ HasSave(c) /\ i \in Databases
      /\ UNCHANGED <<known, saved, saving, dumped, promised, told, overtaken>>
  BY DEF ContainerRemoved, Place, DatabaseInv, DatabaseShape, CallsApart, HasSave, answerVars
<1>1. /\ served' \in [Clients -> CallRecords] /\ ~ HasSave(c)'
      /\ served'[c].at = "removed" /\ served'[c].id = i
      /\ \A d \in Clients \ {c} : served'[d] = served[d]
  BY <1>0 DEF ContainerRemoved, Goes, DatabaseInv, DatabaseShape, CallRecords, HasSave
<1>2. /\ container' \in [Databases -> ContainerRecords] /\ released \subseteq released'
      /\ \A j \in Databases \ {i} : container'[j] = container[j]
      /\ container' = container \/ \A d \in Clients : served[d].port = container[i].port => i \in released'
  <2>1. CASE Lets(i, "none")
    BY <1>0, <2>1, LetsGo
  <2>2. CASE UNCHANGED <<container, released>>
    BY <2>2 DEF DatabaseInv, DatabaseShape
  <2> QED BY <2>1, <2>2 DEF ContainerRemoved
<1> HIDE DEF i
<1>3. SavesOwned' /\ SnapshotsApart' /\ TellingsKept' /\ SavesHold' /\ WaitingSaved' /\ PromisesKept'
  BY <1>0, <1>1, <1>2, QuietCall
<1>4. DatabaseShape'
  BY <1>0, <1>1, <1>2 DEF DatabaseInv, DatabaseShape
<1>5. CallsApart'
  BY <1>0, <1>1 DEF DatabaseInv, CallsApart, Creating, i
<1>6. StartedKeepPort' /\ StartedApart' /\ RecordsKeepPort'
  <2>1. \A d \in Clients : Creating(d)' => served'[d] = served[d]
    BY <1>1 DEF Creating
  <2> QED BY <1>0, <1>2, <2>1, PortsStayKept
<1> QED BY <1>3, <1>4, <1>5, <1>6 DEF DatabaseInv

LEMMA ContainerStopsKeeps == ASSUME DatabaseInv, NEW i \in Databases, ContainerStops(i) PROVE DatabaseInv'
<1>0. UNCHANGED <<known, saved, saving, dumped, served, promised, told, overtaken>>
  BY DEF ContainerStops, answerVars
<1>1. /\ container' \in [Databases -> ContainerRecords] /\ released \subseteq released'
      /\ \A j \in Databases \ {i} : container'[j] = container[j]
      /\ \A d \in Clients : served[d].port = container[i].port => i \in released'
  BY LetsGo DEF ContainerStops
<1>2. DatabaseShape'
  BY <1>0, <1>1 DEF DatabaseInv, DatabaseShape
<1>3. CallsApart' /\ SavesOwned'
  BY <1>0 DEF DatabaseInv, CallsApart, Creating, SavesOwned, HasSave
<1>4. SnapshotsApart'
  BY <1>0, <1>1 DEF DatabaseInv, SnapshotsApart, PortsApart
<1>5. PromisesKept' /\ TellingsKept' /\ WaitingSaved' /\ SavesHold'
  BY <1>0 DEF DatabaseInv, PromisesKept, TellingsKept, WaitingSaved, SavesHold, Lists
<1>6. StartedKeepPort' /\ StartedApart' /\ RecordsKeepPort'
  BY <1>0, <1>1, PortsStayKept
<1> QED BY <1>2, <1>3, <1>4, <1>5, <1>6 DEF DatabaseInv

\* A call registers a new database: nobody else works on it, nothing was promised of it.
LEMMA RegisteredKeeps == ASSUME DatabaseInv, NEW c \in Clients, Registered(c) PROVE DatabaseInv'
<1> DEFINE i == served[c].id
           new == [there |-> TRUE, port |-> served[c].port, backups |-> {}]
<1>0. /\ served[c] \in CallRecords /\ served[c].at = "started" /\ ~ HasSave(c) /\ i \in Databases
      /\ \A d \in Clients \ {c} : served[d].id # i
      /\ \A b \in Dumps : <<i, b>> \notin told
      /\ UNCHANGED <<saved, container, dumped, promised, told, released, overtaken>>
  BY DEF Registered, Place, DatabaseInv, DatabaseShape, CallsApart, Creating, HasSave, answerVars
<1>1. /\ served' \in [Clients -> CallRecords] /\ HasSave(c)'
      /\ served'[c].at = "keeping" /\ served'[c].id = i
      /\ \A d \in Clients \ {c} : served'[d] = served[d]
  BY <1>0 DEF Registered, DatabaseInv, DatabaseShape, CallRecords, HasSave
<1>2. /\ known' \in DatabaseRows /\ known'[i] = new
      /\ \A j \in Databases \ {i} : known'[j] = known[j]
  <2>1. new \in DatabaseRecord
    BY <1>0 DEF CallRecords, DatabaseRecord
  <2> QED BY <1>0, <2>1 DEF Registered, DatabaseInv, DatabaseShape, DatabaseRows
<1>3. new.there /\ new.port = served[c].port
  OBVIOUS
<1> HIDE DEF i, new
<1>4. /\ saving' \in Seq(Saves) /\ SavesOwned' /\ WaitingSaved' /\ SavesHold'
      /\ \A n \in DOMAIN saving' :
           saving'[n].rows = known' \/ (n \in DOMAIN saving /\ saving'[n] = saving[n])
  <2>1. Keep(c, known')
    BY DEF Registered
  <2>2. ASSUME NEW d \in Clients \ {c}, HasSave(d) \/ served[d].at = "waiting"
        PROVE  known'[served[d].id] = known[served[d].id]
    BY <1>0, <1>2, <2>2 DEF DatabaseInv, CallsApart, HasSave
  <2> QED BY <1>0, <1>1, <1>2, <2>1, <2>2, SaveBegins DEF Lists
<1>5. DatabaseShape'
  BY <1>0, <1>1, <1>2, <1>4 DEF DatabaseInv, DatabaseShape
<1>6. CallsApart'
  BY <1>0, <1>1, <1>2 DEF DatabaseInv, CallsApart, Creating
<1>7. SnapshotsApart'
  <2>1. ASSUME NEW j \in Databases \ {i}, known[j].there, known[j].port = served[c].port
        PROVE  {i, j} \cap released # {}
    BY <1>0, <2>1 DEF DatabaseInv, RecordsKeepPort, i
  <2>2. PortsApart(known')
    <3> SUFFICES ASSUME NEW j \in Databases, NEW k \in Databases, j # k,
                        known'[j].there, known'[k].there, known'[j].port = known'[k].port
                 PROVE  {j, k} \cap released # {}
      BY <1>0 DEF PortsApart
    <3>1. CASE j = i
      BY <1>2, <1>3, <2>1, <3>1
    <3>2. CASE k = i
      BY <1>2, <1>3, <2>1, <3>2
    <3>3. CASE j # i /\ k # i
      BY <1>2, <3>3 DEF DatabaseInv, SnapshotsApart, PortsApart
    <3> QED BY <3>1, <3>2, <3>3
  <2> QED BY <1>0, <1>4, <2>2 DEF DatabaseInv, SnapshotsApart, PortsApart
<1>8. StartedKeepPort' /\ StartedApart'
  BY <1>0, <1>1 DEF DatabaseInv, StartedKeepPort, StartedApart
<1>9. RecordsKeepPort'
  <2>1. ASSUME NEW d \in Clients, NEW j \in Databases, known'[j].there, known'[j].port = served'[d].port
        PROVE  /\ served'[d].at = "starting" =>
                    container[j] = [state |-> "up", port |-> served'[d].port] \/ j \in released
               /\ served'[d].at = "started" => {j, served'[d].id} \cap released # {}
    <3>1. CASE d = c
      BY <1>1, <3>1
    <3>2. CASE d # c /\ j # i
      BY <1>1, <1>2, <2>1, <3>2 DEF DatabaseInv, RecordsKeepPort
    <3>3. CASE d # c /\ j = i
      <4>1. served'[d] = served[d] /\ served[d].port = served[c].port
        BY <1>1, <1>2, <1>3, <2>1, <3>3
      <4>2. container[i] = [state |-> "up", port |-> served[d].port] \/ i \in released
        BY <1>0, <4>1 DEF DatabaseInv, StartedKeepPort, i
      <4>3. served[d].at = "started" => {i, served[d].id} \cap released # {}
        BY <1>0, <3>3, <4>1 DEF DatabaseInv, StartedApart, i
      <4> QED BY <3>3, <4>1, <4>2, <4>3
    <3> QED BY <3>1, <3>2, <3>3
  <2> QED BY <1>0, <2>1 DEF RecordsKeepPort
<1>10. PromisesKept'
  BY <1>0, <1>2, <1>3, <1>4 DEF DatabaseInv, DatabaseShape, PromisesKept
<1>11. TellingsKept'
  BY <1>0, <1>2, <1>4 DEF DatabaseInv, TellingsKept, Lists
<1> QED BY <1>4, <1>5, <1>6, <1>7, <1>8, <1>9, <1>10, <1>11 DEF DatabaseInv

\* Memory after a step that registers nothing: rows stay, lose their record or list more.
RowsFollow ==
  /\ known' \in DatabaseRows
  /\ \A i \in Databases :
       /\ known'[i].there => known[i].there /\ known'[i].port = known[i].port
       /\ \A b \in Dumps : Lists(known, i, b) => Lists(known', i, b)

\* The steps of calls that save what they made of the memory.
LEMMA KeepsMemory ==
  ASSUME DatabaseInv, NEW c \in Clients, NEW place \in {"ending", "listing"},
         ~ HasSave(c), ~ Creating(c), served[c].id \in Databases,
         Goes(c, place), Keep(c, known'), RowsFollow,
         UNCHANGED <<saved, container, told, released, overtaken>>,
         dumped \subseteq dumped', dumped' \subseteq Dumps,
         place = "listing" => /\ served[c].dump \in Dumps /\ served[c].dump \in dumped'
                              /\ Lists(known', served[c].id, served[c].dump),
         promised' \subseteq promised, \A i \in promised' : known[i].there => known'[i].there
  PROVE  DatabaseInv'
<1>1. /\ served' \in [Clients -> CallRecords] /\ HasSave(c)'
      /\ served'[c].at = place /\ served'[c].id = served[c].id /\ served'[c].dump = served[c].dump
      /\ \A d \in Clients \ {c} : served'[d] = served[d]
  <2>1. served \in [Clients -> CallRecords] /\ served' = [served EXCEPT ![c].at = place]
    BY DEF Goes, DatabaseInv, DatabaseShape
  <2>2. served' \in [Clients -> CallRecords]
    BY <2>1 DEF CallRecords
  <2>3. /\ served'[c].at = place /\ served'[c].id = served[c].id /\ served'[c].dump = served[c].dump
        /\ \A d \in Clients \ {c} : served'[d] = served[d]
    BY <2>1 DEF CallRecords
  <2> QED BY <2>2, <2>3 DEF HasSave
<1>2. /\ saving' \in Seq(Saves) /\ SavesOwned' /\ WaitingSaved' /\ SavesHold'
      /\ \A n \in DOMAIN saving' :
           saving'[n].rows = known' \/ (n \in DOMAIN saving /\ saving'[n] = saving[n])
  <2>1. ASSUME NEW d \in Clients \ {c}, HasSave(d) \/ served[d].at = "waiting" PROVE served[d].id \in Databases
    BY <2>1 DEF DatabaseInv, CallsApart, HasSave
  <2>2. known' \in DatabaseRows
    BY DEF RowsFollow
  <2> QED BY <1>1, <2>1, <2>2, SaveBegins DEF RowsFollow
<1>3. DatabaseShape'
  BY <1>1, <1>2 DEF DatabaseInv, DatabaseShape, RowsFollow
<1>4. CallsApart'
  BY <1>1 DEF DatabaseInv, CallsApart, Creating, RowsFollow
<1>5. SnapshotsApart'
  <2>1. PortsApart(known')
    BY DEF DatabaseInv, SnapshotsApart, PortsApart, RowsFollow
  <2> QED BY <1>2, <2>1 DEF DatabaseInv, SnapshotsApart, PortsApart
<1>6. StartedKeepPort' /\ StartedApart'
  BY <1>1 DEF DatabaseInv, StartedKeepPort, StartedApart
<1>7. RecordsKeepPort'
  BY <1>1 DEF DatabaseInv, RecordsKeepPort, RowsFollow
<1>8. PromisesKept'
  BY <1>2 DEF DatabaseInv, PromisesKept
<1>9. TellingsKept'
  BY <1>2 DEF DatabaseInv, TellingsKept, Lists, RowsFollow
<1> QED BY <1>2, <1>3, <1>4, <1>5, <1>6, <1>7, <1>8, <1>9 DEF DatabaseInv

LEMMA ForgottenKeeps == ASSUME DatabaseInv, NEW c \in Clients, Forgotten(c) PROVE DatabaseInv'
<1>1. served[c].at = "removed" /\ ~ HasSave(c) /\ ~ Creating(c) /\ served[c].id \in Databases
  BY DEF Forgotten, Place, DatabaseInv, CallsApart, Creating, HasSave
<1>2. RowsFollow /\ known' = [known EXCEPT ![served[c].id] = NoRecord]
  BY <1>1, UnusedTyped DEF Forgotten, DatabaseInv, DatabaseShape, DatabaseRows, RowsFollow, Lists
<1>3. promised' \subseteq promised /\ \A i \in promised' : known[i].there => known'[i].there
  BY <1>1, <1>2 DEF Forgotten, DatabaseInv, DatabaseShape, DatabaseRows
<1> QED BY <1>1, <1>2, <1>3, KeepsMemory DEF Forgotten, DatabaseInv, DatabaseShape

LEMMA BackupListedKeeps == ASSUME DatabaseInv, NEW c \in Clients, BackupListed(c) PROVE DatabaseInv'
<1> DEFINE i == served[c].id
           b == served[c].dump
           listed == IF known[i].there THEN known[i].backups \cup {b} ELSE known[i].backups
           row == [known[i] EXCEPT !.backups = listed]
<1>1. served[c].at = "writing" /\ ~ HasSave(c) /\ ~ Creating(c) /\ i \in Databases /\ b \in Dumps
  BY DEF BackupListed, Place, DatabaseInv, CallsApart, Creating, HasSave
<1>2. known[i] \in DatabaseRecord /\ known \in DatabaseRows
  BY <1>1 DEF DatabaseInv, DatabaseShape, DatabaseRows
<1>3. /\ row \in DatabaseRecord /\ row.there = known[i].there /\ row.port = known[i].port
      /\ row.backups = listed
  BY <1>1, <1>2 DEF DatabaseRecord
<1>4. known' = [known EXCEPT ![i] = row]
  BY <1>2 DEF BackupListed, DatabaseRows
<1>5. known[i].backups \subseteq row.backups /\ (row.there => b \in row.backups)
  BY <1>3
<1> HIDE DEF row, listed
<1>6. /\ known' \in DatabaseRows /\ known'[i] = row
      /\ \A j \in Databases \ {i} : known'[j] = known[j]
  BY <1>1, <1>2, <1>3, <1>4 DEF DatabaseRows
<1>7. RowsFollow /\ Lists(known', i, b) /\ \A j \in Databases : known[j].there => known'[j].there
  BY <1>1, <1>3, <1>5, <1>6 DEF RowsFollow, Lists
<1>8. /\ dumped \subseteq dumped' /\ dumped' \subseteq Dumps /\ b \in dumped'
      /\ promised' \subseteq promised /\ \A j \in promised' : known[j].there => known'[j].there
  BY <1>1, <1>7 DEF BackupListed, answerVars, DatabaseInv, DatabaseShape
<1> QED BY <1>1, <1>7, <1>8, KeepsMemory DEF BackupListed, answerVars

LEMMA AlteredKeeps == ASSUME DatabaseInv, NEW c \in Clients, Altered(c) PROVE DatabaseInv'
<1>1. served[c].at = "altering" /\ ~ HasSave(c) /\ ~ Creating(c) /\ served[c].id \in Databases
  BY DEF Altered, Place, DatabaseInv, CallsApart, Creating, HasSave
<1>2. CASE Keep(c, known) /\ Goes(c, "ending")
  <2>1. RowsFollow
    BY DEF Altered, DatabaseInv, DatabaseShape, RowsFollow
  <2>2. Keep(c, known')
    BY <1>2 DEF Altered
  <2> QED BY <1>1, <1>2, <2>1, <2>2, KeepsMemory DEF Altered, answerVars, DatabaseInv, DatabaseShape
<1>3. CASE Answers(c) /\ UNCHANGED saving
  BY <1>1, <1>3, CallGivenUp DEF Altered, answerVars, DatabaseInv, DatabaseShape
<1> QED BY <1>2, <1>3 DEF Altered

\* A save that failed, and one that ended.
LEMMA SaveFailsKeeps == ASSUME DatabaseInv, NEW n \in DOMAIN saving, SaveFails(n) PROVE DatabaseInv'
<1> DEFINE c == saving[n].by
<1>1. c \in Clients /\ HasSave(c)
  BY SavesTyped DEF DatabaseInv, SavesOwned
<1>2. /\ served' \in [Clients -> CallRecords] /\ served'[c] = Unused /\ served'[c].at = "idle"
      /\ \A d \in Clients \ {c} : served'[d] = served[d]
  BY <1>1, UnusedTyped DEF SaveFails, Answers, DatabaseInv, DatabaseShape
<1>3. UNCHANGED <<known, saved, container, dumped, promised, told, released, overtaken>>
  BY DEF SaveFails, answerVars
<1>4. /\ saving' \in Seq(Saves) /\ SavesOwned' /\ SavesHold'
      /\ \A k \in DOMAIN saving' : \E m \in DOMAIN saving \ {n} : saving'[k] = saving[m]
  BY <1>2, <1>3, SaveGone DEF SaveFails
<1> HIDE DEF c
<1>5. DatabaseShape'
  BY <1>2, <1>3, <1>4 DEF DatabaseInv, DatabaseShape
<1>6. CallsApart'
  BY <1>2, <1>3, UnusedTyped DEF DatabaseInv, CallsApart, Creating
<1>7. SnapshotsApart' /\ PromisesKept'
  BY <1>3, <1>4 DEF DatabaseInv, SnapshotsApart, PortsApart, PromisesKept
<1>8. StartedKeepPort' /\ StartedApart' /\ RecordsKeepPort'
  BY <1>2, <1>3 DEF DatabaseInv, StartedKeepPort, StartedApart, RecordsKeepPort
<1>9. TellingsKept'
  BY <1>3, <1>4 DEF DatabaseInv, TellingsKept, Lists
<1>10. WaitingSaved'
  BY <1>2, <1>3, <1>4 DEF DatabaseInv, WaitingSaved
<1> QED BY <1>4, <1>5, <1>6, <1>7, <1>8, <1>9, <1>10 DEF DatabaseInv

LEMMA SaveEndsKeeps == ASSUME DatabaseInv, NEW n \in DOMAIN saving, SaveEnds(n) PROVE DatabaseInv'
<1> DEFINE c == saving[n].by
           i == served[c].id
           b == served[c].dump
<1>1. /\ c \in Clients /\ HasSave(c) /\ i \in Databases /\ saving[n].rows \in DatabaseRows
      /\ served[c] \in CallRecords /\ n \in Nat \ {0} /\ DOMAIN saving \subseteq Nat \ {0}
      /\ served[c].at = "listing" => b \in Dumps
  BY SavesTyped DEF DatabaseInv, DatabaseShape, SavesOwned, CallsApart, HasSave
<1>2. /\ served' \in [Clients -> CallRecords] /\ served'[c].at \in {"waiting", "idle"}
      /\ served'[c].at = "waiting" => served[c].at = "keeping" /\ served'[c].id = i
      /\ served'[c].at = "idle" => served'[c] = Unused
      /\ \A d \in Clients \ {c} : served'[d] = served[d]
  <2>1. CASE Place(c, "keeping")
    <3>1. served' = [served EXCEPT ![c].at = "waiting"] /\ served[c].at = "keeping"
      BY <2>1 DEF SaveEnds, Place, Goes
    <3>2. [served[c] EXCEPT !.at = "waiting"] \in CallRecords
      BY <1>1 DEF CallRecords
    <3>3. served'[c] = [served[c] EXCEPT !.at = "waiting"] /\ served' \in [Clients -> CallRecords]
      BY <1>1, <3>1, <3>2 DEF DatabaseInv, DatabaseShape
    <3>4. served'[c].at = "waiting" /\ served'[c].id = i
      BY <1>1, <3>3 DEF CallRecords
    <3> QED BY <3>1, <3>3, <3>4
  <2>2. CASE ~ Place(c, "keeping")
    BY <1>1, <2>2, UnusedTyped DEF SaveEnds, Answers, DatabaseInv, DatabaseShape
  <2> QED BY <2>1, <2>2
<1>3. /\ UNCHANGED <<known, container, dumped, promised, released>>
      /\ saved' = saving[n].rows /\ saving' = RemoveAt(saving, n)
      /\ told' = told \/ (served[c].at = "listing" /\ told' = told \cup {<<i, b>>})
  BY DEF SaveEnds, Stored, Place
<1>4. ~ overtaken' => ~ overtaken /\ \A m \in DOMAIN saving : n <= m
  <2> DEFINE later == n > 1
  <2>1. overtaken' = (overtaken \/ later)
    BY DEF SaveEnds, Stored
  <2>2. ~ later => \A m \in DOMAIN saving : n <= m
    BY <1>1
  <2> HIDE DEF later
  <2>3. ~ overtaken' => ~ overtaken /\ ~ later
    BY <2>1
  <2> QED BY <2>2, <2>3
<1>5. /\ saving' \in Seq(Saves) /\ SavesOwned' /\ SavesHold'
      /\ \A k \in DOMAIN saving' : \E m \in DOMAIN saving \ {n} : saving'[k] = saving[m]
  BY <1>2, <1>3, <1>4, SaveGone
<1>6. ASSUME ~ overtaken', served[c].at = "listing"
      PROVE  /\ b \in dumped /\ Lists(known, i, b)
             /\ \A m \in DOMAIN saving : Lists(saving[m].rows, i, b)
  BY <1>1, <1>4, <1>6 DEF DatabaseInv, SavesHold
<1>7. ASSUME ~ overtaken', served[c].at = "keeping", known[i].there
      PROVE  \A m \in DOMAIN saving : saving[m].rows[i].there
  BY <1>1, <1>4, <1>7 DEF DatabaseInv, SavesHold
<1> HIDE DEF c, i, b
<1>8. DatabaseShape'
  BY <1>1, <1>2, <1>3, <1>5 DEF DatabaseInv, DatabaseShape
<1>9. CallsApart'
  <2>1. ASSUME NEW d \in Clients, Creating(d)'
        PROVE  /\ d # c /\ Creating(d) /\ served'[d] = served[d]
               /\ \A e \in Clients \ {d} : served'[e].id # served'[d].id
    <3>1. d # c /\ Creating(d) /\ served'[d] = served[d] /\ served[d].id \in Databases
      BY <1>2, <2>1 DEF Creating, DatabaseInv, CallsApart
    <3>2. \A e \in Clients \ {d} : served[e].id # served[d].id
      BY <3>1 DEF DatabaseInv, CallsApart
    <3>3. served'[c].id # served[d].id
      BY <1>1, <1>2, <3>1, <3>2, UnusedTyped DEF i
    <3> QED BY <1>2, <3>1, <3>2, <3>3
  <2>2. ASSUME NEW d \in Clients, Creating(d)' PROVE \A e \in Dumps : <<served'[d].id, e>> \notin told'
    <3>1. d # c /\ Creating(d) /\ served'[d] = served[d]
      BY <2>1, <2>2
    <3>2. i # served[d].id /\ \A e \in Dumps : <<served[d].id, e>> \notin told
      BY <1>1, <3>1 DEF DatabaseInv, CallsApart, i
    <3> QED BY <1>3, <3>1, <3>2
  <2>3. ASSUME NEW d \in Clients
        PROVE  /\ served'[d].at = "idle" => served'[d] = Unused
               /\ served'[d].at # "idle" => served'[d].id \in Databases
               /\ served'[d].at \in {"dumping", "writing", "listing"} => served'[d].dump \in Dumps
    BY <1>1, <1>2 DEF DatabaseInv, CallsApart
  <2>4. ASSUME NEW d \in Clients, Creating(d)' PROVE served'[d].port \in DbPorts /\ ~ known'[served'[d].id].there
    BY <1>3, <2>1, <2>4 DEF DatabaseInv, CallsApart
  <2> QED BY <2>1, <2>2, <2>3, <2>4 DEF CallsApart
<1>10. SnapshotsApart'
  BY <1>3, <1>5 DEF DatabaseInv, SnapshotsApart, PortsApart
<1>11. StartedKeepPort' /\ StartedApart' /\ RecordsKeepPort'
  <2>1. served'[c].at \notin {"starting", "started"}
    BY <1>2
  <2> QED BY <1>2, <1>3, <2>1 DEF DatabaseInv, StartedKeepPort, StartedApart, RecordsKeepPort
<1>12. PromisesKept'
  BY <1>3, <1>4, <1>5 DEF DatabaseInv, PromisesKept
<1>13. TellingsKept'
  <2> SUFFICES ASSUME ~ overtaken' PROVE TellingsKept'
    BY DEF TellingsKept
  <2>1. ASSUME NEW j \in Databases, NEW e \in Dumps, <<j, e>> \in told'
        PROVE  e \in dumped /\ Lists(known, j, e) /\ \A m \in DOMAIN saving : Lists(saving[m].rows, j, e)
    <3>1. CASE <<j, e>> \in told
      BY <1>4, <3>1 DEF DatabaseInv, TellingsKept
    <3>2. CASE <<j, e>> \notin told
      BY <1>3, <1>6, <2>1, <3>2
    <3> QED BY <3>1, <3>2
  <2>2. ASSUME NEW j \in Databases, NEW e \in Dumps, <<j, e>> \in told'
        PROVE  /\ e \in dumped' /\ Lists(known', j, e) /\ Lists(saved', j, e)
               /\ \A k \in DOMAIN saving' : Lists(saving'[k].rows, j, e)
    BY <1>3, <1>5, <2>1, <2>2 DEF Lists
  <2> QED BY <2>2 DEF TellingsKept
<1>14. WaitingSaved'
  <2> SUFFICES ASSUME ~ overtaken' PROVE WaitingSaved'
    BY DEF WaitingSaved
  <2>1. ASSUME NEW d \in Clients, served'[d].at = "waiting", known[served'[d].id].there
        PROVE  \A m \in DOMAIN saving : saving[m].rows[served'[d].id].there
    <3>1. CASE d = c
      BY <1>2, <1>7, <2>1, <3>1
    <3>2. CASE d # c
      BY <1>2, <1>4, <2>1, <3>2 DEF DatabaseInv, WaitingSaved
    <3> QED BY <3>1, <3>2
  <2> QED BY <1>3, <1>5, <2>1 DEF WaitingSaved
<1> QED BY <1>5, <1>8, <1>9, <1>10, <1>11, <1>12, <1>13, <1>14 DEF DatabaseInv

\* A restart reads the file, and every call and save under way is gone.
LEMMA EngineRestartsKeeps == ASSUME DatabaseInv, EngineRestarts PROVE DatabaseInv'
<1>1. /\ known' = saved /\ saving' = <<>> /\ DOMAIN saving' = {} /\ saving' \in Seq(Saves)
      /\ served' \in [Clients -> CallRecords]
      /\ \A c \in Clients : served'[c] = Unused /\ served'[c].at = "idle"
      /\ UNCHANGED <<saved, container, dumped, promised, told, released, overtaken>>
  BY UnusedTyped DEF EngineRestarts, answerVars
<1>2. DatabaseShape'
  BY <1>1 DEF DatabaseInv, DatabaseShape
<1>3. CallsApart' /\ SavesOwned' /\ StartedKeepPort' /\ StartedApart' /\ RecordsKeepPort' /\ WaitingSaved' /\ SavesHold'
  BY <1>1 DEF CallsApart, Creating, SavesOwned, StartedKeepPort, StartedApart, RecordsKeepPort, WaitingSaved, SavesHold
<1>4. SnapshotsApart' /\ PromisesKept' /\ TellingsKept'
  BY <1>1 DEF DatabaseInv, SnapshotsApart, PortsApart, PromisesKept, TellingsKept, Lists
<1> QED BY <1>2, <1>3, <1>4 DEF DatabaseInv

LEMMA DatabaseInvInit == DatabaseInit => DatabaseInv
<1> SUFFICES ASSUME DatabaseInit PROVE DatabaseInv
  OBVIOUS
<1>1. /\ known \in DatabaseRows /\ saved = known /\ saving = <<>> /\ DOMAIN saving = {}
      /\ saving \in Seq(Saves) /\ container \in [Databases -> ContainerRecords]
      /\ served \in [Clients -> CallRecords]
      /\ \A i \in Databases : ~ known[i].there
      /\ \A c \in Clients : served[c] = Unused /\ served[c].at = "idle"
      /\ dumped = {} /\ promised = {} /\ told = {}
  BY UnusedTyped DEF DatabaseInit, DatabaseRows
<1>2. DatabaseShape /\ CallsApart /\ SavesOwned
  BY <1>1 DEF DatabaseShape, CallsApart, Creating, SavesOwned
<1>3. SnapshotsApart /\ StartedKeepPort /\ StartedApart /\ RecordsKeepPort
  BY <1>1 DEF SnapshotsApart, PortsApart, StartedKeepPort, StartedApart, RecordsKeepPort
<1>4. PromisesKept /\ TellingsKept /\ WaitingSaved /\ SavesHold
  BY <1>1 DEF PromisesKept, TellingsKept, WaitingSaved, SavesHold
<1> QED BY <1>2, <1>3, <1>4 DEF DatabaseInv

LEMMA DatabaseInvStep == DatabaseInv /\ [DatabaseNext]_databaseVars => DatabaseInv'
<1> SUFFICES ASSUME DatabaseInv, [DatabaseNext]_databaseVars PROVE DatabaseInv'
  OBVIOUS
<1>1. ASSUME NEW c \in Clients, NEW i \in Databases,
             \/ \E port \in DbPorts : Create(c, i, port)
             \/ \E b \in Dumps : Backup(c, i, b)
             \/ Drop(c, i) \/ Rotate(c, i)
      PROVE  DatabaseInv'
  BY <1>1, CreateKeeps, BackupKeeps, DropKeeps, RotateKeeps
<1>2. ASSUME NEW c \in Clients,
             \/ Starts(c) \/ Refused(c) \/ Registered(c) \/ Created(c)
             \/ ContainerRemoved(c) \/ Forgotten(c)
             \/ DumpEnds(c) \/ BackupListed(c) \/ FileFails(c) \/ Altered(c)
      PROVE  DatabaseInv'
  BY <1>2, StartsKeeps, RefusedKeeps, RegisteredKeeps, CreatedKeeps, ContainerRemovedKeeps,
     ForgottenKeeps, DumpEndsKeeps, BackupListedKeeps, FileFailsKeeps, AlteredKeeps
<1>3. ASSUME NEW n \in DOMAIN saving, SaveEnds(n) \/ SaveFails(n) PROVE DatabaseInv'
  BY <1>3, SaveEndsKeeps, SaveFailsKeeps
<1>4. ASSUME NEW i \in Databases, ContainerStops(i) PROVE DatabaseInv'
  BY <1>4, ContainerStopsKeeps
<1>5. CASE EngineRestarts
  BY <1>5, EngineRestartsKeeps
<1>6. CASE UNCHANGED databaseVars
  <2>1. UNCHANGED <<known, saved, saving, container, dumped, served, promised, told, released, overtaken>>
    BY <1>6 DEF databaseVars, engineVars, answerVars
  <2>2. DatabaseShape' /\ CallsApart' /\ SavesOwned'
    BY <2>1 DEF DatabaseInv, DatabaseShape, CallsApart, Creating, SavesOwned, HasSave
  <2>3. SnapshotsApart' /\ StartedKeepPort' /\ StartedApart' /\ RecordsKeepPort'
    BY <2>1 DEF DatabaseInv, SnapshotsApart, PortsApart, StartedKeepPort, StartedApart,
       RecordsKeepPort
  <2>4. PromisesKept' /\ TellingsKept' /\ WaitingSaved' /\ SavesHold'
    BY <2>1 DEF DatabaseInv, PromisesKept, TellingsKept, WaitingSaved, SavesHold, Lists
  <2> QED BY <2>2, <2>3, <2>4 DEF DatabaseInv
<1> QED BY <1>1, <1>2, <1>3, <1>4, <1>5, <1>6 DEF DatabaseNext

LEMMA DatabaseInvStands == ASSUME DatabaseInv PROVE DatabasesStand
<1>1. DatabasePortsDiffer
  BY DEF DatabaseInv, SnapshotsApart, PortsApart, DatabasePortsDiffer
<1>2. AnsweredSurvives
  BY DEF DatabaseInv, DatabaseShape, PromisesKept, TellingsKept, Lists, AnsweredSurvives
<1> QED BY <1>1, <1>2 DEF DatabasesStand

\* Records, containers and calls always are of their types.
THEOREM DatabaseTypeAlways == DatabaseSpec => []DatabaseHostType
<1>1. DatabaseInv => DatabaseHostType
  BY ShapeTyped DEF DatabaseInv
<1> QED BY <1>1, DatabaseInvInit, DatabaseInvStep, PTL DEF DatabaseSpec

\* No two databases on record were given one port, unless one of them was
\* released while a create held it; and while no save overtook another, a
\* database or a backup the engine answered with is in the file, and the dump is
\* written (postgres-server.mjs: allocatePort, saveState, the create and backup
\* handlers).
THEOREM DatabasesStandAlways == DatabaseSpec => []DatabasesStand
<1>1. DatabaseInv => DatabasesStand
  BY DatabaseInvStands
<1> QED BY <1>1, DatabaseInvInit, DatabaseInvStep, PTL DEF DatabaseSpec
=============================================================================
