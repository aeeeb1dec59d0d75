----------------------------- MODULE BuilderProofs -----------------------------
(***************************************************************************)
(* Proofs about the build plane, for any number of builds, keys, slots,    *)
(* restarts and writes: its pool, its disk, its keys, and the contract its *)
(* callers rely on.                                                        *)
(***************************************************************************)
EXTENDS BuildPlane, FiniteSetTheorems, TLAPS

-----------------------------------------------------------------------------
(* The invariant.  The stage, the status and the key of a job agree; the   *)
(* slots are counted by who holds them; what is known of a job anywhere,   *)
(* in memory, on disk or on its way there, is under one key; and while no  *)
(* write is lost or overtaken, the writes under way are snapshots in       *)
(* order, the last of which has everything.                                *)

\* A job says where it is, and has a key exactly as long as it is known.
Staged(job) ==
  /\ job.status = "none" => job = Forgotten
  /\ job.status # "none" => job.key \in Keys /\ job.stage # "none"
  /\ job.stage \in {"accepting", "waiting", "granted"} => job.status = "queued"
  /\ job.stage \in {"building", "detecting"} => job.status = "running"
  /\ job.stage \in {"cleaning", "done"} => job.status \in Ended

StagesFit == \A i \in BuildJobs : Staged(index[i])

\* Nobody waits twice.
PoolFits ==
  /\ SlotsAddUp /\ running <= Slots
  /\ \A k, l \in DOMAIN waiting : waiting[k] = waiting[l] => k = l

\* What is known of a job anywhere: under one key, and succeeded only if it did.
Named(i) == {index[i].key} \cup {row.key : row \in Records(i)}

RecordsFit ==
  /\ \A i \in BuildJobs : \A row \in Records(i) :
       /\ row.status = "none" <=> row.key = NoKey
       /\ row.status = "succeeded" => i \in made
  /\ \A i \in BuildJobs : index[i].status = "succeeded" => i \in made
  /\ \A i \in BuildJobs : \A k, l \in Named(i) : k = NoKey \/ l = NoKey \/ k = l
  /\ \A i \in BuildJobs : boot[i] # NoRow => ~ Knows(i)

\* The write a job is accepted by is its own and has it.
WritesOwned ==
  /\ \A n \in DOMAIN writes : writes[n].by # NoBuildJob =>
       index[writes[n].by].stage = "accepting" /\ writes[n].rows[writes[n].by].status # "none"
  /\ \A m, n \in DOMAIN writes : writes[m].by = writes[n].by /\ writes[m].by # NoBuildJob => m = n

InFlight == {"waiting", "granted", "building", "detecting", "cleaning"}

\* As long as no write was lost, the disk and every write under way have what is
\* built, a write has what an earlier one accepted, and the last one has it all.
DiskKnows ==
  ~ lost =>
    /\ \A i \in BuildJobs : index[i].stage \in InFlight =>
         stored[i].status # "none" /\ \A n \in DOMAIN writes : writes[n].rows[i].status # "none"
    /\ \A m, n \in DOMAIN writes : m <= n /\ writes[m].by # NoBuildJob =>
         writes[n].rows[writes[m].by].status # "none"
    /\ ~ dirty /\ (\A i \in BuildJobs : boot[i] = NoRow) =>
         IF writes = <<>> THEN stored = Rows(index) ELSE writes[Len(writes)].rows = Rows(index)

BuildInv ==
  BuildPlaneType /\ StagesFit /\ PoolFits /\ RecordsFit /\ WritesOwned /\ DiskKnows /\ KeysAreAnswered

LEMMA Removed ==
  ASSUME NEW S, NEW s \in Seq(S), NEW n \in DOMAIN s
  PROVE  /\ RemoveAt(s, n) \in Seq(S) /\ Len(RemoveAt(s, n)) = Len(s) - 1
         /\ \A k \in 1 .. Len(s) - 1 : RemoveAt(s, n)[k] = s[IF k < n THEN k ELSE k + 1]
<1> DEFINE before == SubSeq(s, 1, n - 1)
           after == SubSeq(s, n + 1, Len(s))
<1>0. n \in 1 .. Len(s) /\ Len(s) \in Nat
  OBVIOUS
<1>1. before \in Seq(S) /\ Len(before) = n - 1 /\ \A k \in 1 .. n - 1 : before[k] = s[k]
  BY <1>0
<1>2. after \in Seq(S) /\ Len(after) = Len(s) - n /\ \A k \in 1 .. Len(s) - n : after[k] = s[k + n]
  BY <1>0
<1>3. RemoveAt(s, n) = before \o after
  BY DEF RemoveAt
<1> HIDE DEF before, after
<1>4. before \o after \in Seq(S) /\ Len(before \o after) = Len(s) - 1
  BY <1>0, <1>1, <1>2
<1>5. ASSUME NEW k \in 1 .. Len(s) - 1
      PROVE  (before \o after)[k] = s[IF k < n THEN k ELSE k + 1]
  <2>1. CASE k < n
    <3>1. (before \o after)[k] = before[k]
      BY <1>0, <1>1, <1>2, <2>1
    <3> QED BY <1>0, <1>1, <2>1, <3>1
  <2>2. CASE ~ (k < n)
    <3>1. (before \o after)[k] = after[k - Len(before)]
      BY <1>0, <1>1, <1>2, <2>2
    <3>2. k - (n - 1) \in 1 .. Len(s) - n
      BY <1>0, <2>2
    <3>3. after[k - (n - 1)] = s[k - (n - 1) + n]
      BY <1>2, <3>2
    <3> QED BY <1>0, <1>1, <2>2, <3>1, <3>3
  <2> QED BY <2>1, <2>2
<1> QED BY <1>3, <1>4, <1>5

WriteRecords == [by : BuildJobs \cup {NoBuildJob}, rows : [BuildJobs -> Row]]

LEMMA WritesTyped ==
  ASSUME BuildPlaneType
  PROVE  /\ writes \in Seq(WriteRecords) /\ Len(writes) \in Nat /\ DOMAIN writes = 1 .. Len(writes)
         /\ \A n \in DOMAIN writes : writes[n] \in WriteRecords
<1>1. writes \in Seq(WriteRecords)
  BY DEF BuildPlaneType, WriteRecords
<1> QED BY <1>1

LEMMA RowsTyped ==
  ASSUME NEW jobs \in [BuildJobs -> BuildJob]
  PROVE  /\ Rows(jobs) \in [BuildJobs -> Row]
         /\ \A i \in BuildJobs :
              /\ Rows(jobs)[i].key = jobs[i].key
              /\ Rows(jobs)[i].status = "none" <=> jobs[i].status = "none"
              /\ Rows(jobs)[i].status = "succeeded" <=> jobs[i].status = "succeeded"
<1>1. \A i \in BuildJobs : jobs[i] \in BuildJob
  OBVIOUS
<1> QED BY <1>1 DEF Rows, Row, BuildJob, SeenPhase, Ended

\* What is known of a job besides the index.
LEMMA RecordsAre ==
  ASSUME NEW i \in BuildJobs, NEW row
  PROVE  row \in Records(i) <=> \/ row = stored[i] \/ row = boot[i]
                                \/ \E n \in DOMAIN writes : row = writes[n].rows[i]
BY DEF Records

\* A step that writes nothing and neither accepts, drops nor recalls a job.
LEMMA JobMoves ==
  ASSUME BuildInv, UNCHANGED <<byKey, diskVars, boot>>, dirty' = TRUE,
         index' \in [BuildJobs -> BuildJob], made \subseteq made',
         \A i \in BuildJobs :
           /\ index'[i].key = index[i].key
           /\ index'[i].status = "none" <=> index[i].status = "none"
           /\ index'[i].status = "succeeded" => i \in made'
           /\ index'[i].stage \in InFlight => index[i].stage \in InFlight
           /\ index[i].stage = "accepting" => index'[i].stage = "accepting"
  PROVE  RecordsFit' /\ WritesOwned' /\ DiskKnows' /\ KeysAreAnswered'
<1>0. UNCHANGED <<byKey, writes, stored, lost, boot>>
  BY DEF diskVars
<1>1. \A i \in BuildJobs : Records(i)' = Records(i) /\ Named(i)' = Named(i) /\ Knows(i)' = Knows(i)
  BY <1>0 DEF Records, Named, Knows
<1>2. RecordsFit'
  BY <1>0, <1>1 DEF BuildInv, RecordsFit
<1>3. WritesOwned'
  <2>1. \A n \in DOMAIN writes : writes[n].by # NoBuildJob => writes[n].by \in BuildJobs
    BY WritesTyped DEF BuildInv, WriteRecords
  <2> QED BY <1>0, <2>1 DEF BuildInv, WritesOwned
<1>4. DiskKnows'
  BY <1>0 DEF BuildInv, DiskKnows
<1>5. KeysAreAnswered'
  BY <1>0 DEF BuildInv, KeysAreAnswered, BuildPlaneType
<1> QED BY <1>2, <1>3, <1>4, <1>5

-----------------------------------------------------------------------------
(* The pool of slots: its count is that of the jobs that hold one, and a   *)
(* slot that is let go passes to the first that waits.                     *)

LEMMA WaitingTyped ==
  ASSUME BuildPlaneType
  PROVE  /\ waiting \in Seq(BuildJobs) /\ Len(waiting) \in Nat /\ DOMAIN waiting = 1 .. Len(waiting)
         /\ \A n \in DOMAIN waiting : waiting[n] \in BuildJobs
BY DEF BuildPlaneType

LEMMA HoldersCounted ==
  ASSUME BuildPlaneType
  PROVE  /\ IsFiniteSet(BuildJobs) /\ Holding \in SUBSET BuildJobs /\ IsFiniteSet(Holding)
         /\ Cardinality(Holding) \in Nat
<1>1. IsFiniteSet(BuildJobs)
  BY BuildPlaneAssumption, FS_Interval DEF BuildJobs
<1>2. Holding \subseteq BuildJobs
  BY DEF Holding
<1> QED BY <1>1, <1>2, FS_Subset, FS_CardinalityType

\* The slots are as they were when nobody gets, frees or waits for one.
LEMMA SlotsStay ==
  ASSUME BuildInv, UNCHANGED slotVars,
         \A i \in BuildJobs :
           /\ index'[i].stage = "waiting" <=> index[i].stage = "waiting"
           /\ i \in Holding' <=> i \in Holding
  PROVE  PoolFits' /\ running' \in 0 .. Slots /\ waiting' \in Seq(BuildJobs)
<1>1. Holding' = Holding
  BY DEF Holding
<1>2. UNCHANGED <<running, waiting>>
  BY DEF slotVars
<1>3. {i \in BuildJobs : index'[i].stage = "waiting"} = {i \in BuildJobs : index[i].stage = "waiting"}
  OBVIOUS
<1> QED BY <1>1, <1>2, <1>3 DEF BuildInv, PoolFits, SlotsAddUp, BuildPlaneType, slotVars

\* Job i gets a slot or waits for one.
LEMMA SlotAcquired ==
  ASSUME BuildInv, NEW i \in BuildJobs, index[i].stage = "accepting", AcquireSlot(i)
  PROVE  /\ PoolFits' /\ running' \in 0 .. Slots /\ waiting' \in Seq(BuildJobs)
         /\ \E stage \in {"granted", "waiting"} : index' = [index EXCEPT ![i].stage = stage]
<1>0. /\ index \in [BuildJobs -> BuildJob] /\ running \in 0 .. Slots /\ Slots \in Nat
      /\ waiting \in Seq(BuildJobs) /\ i \notin Holding
      /\ running = Cardinality(Holding) /\ (waiting # <<>> => running = Slots)
      /\ Range(waiting) = {j \in BuildJobs : index[j].stage = "waiting"}
      /\ \A k, l \in DOMAIN waiting : waiting[k] = waiting[l] => k = l
  BY BuildPlaneAssumption DEF BuildInv, BuildPlaneType, PoolFits, SlotsAddUp, Holding
<1>1. IsFiniteSet(Holding)
  BY HoldersCounted DEF BuildInv
<1>2. CASE running < Slots
  <2>1. index' = [index EXCEPT ![i].stage = "granted"] /\ running' = running + 1 /\ waiting' = waiting
    BY <1>2 DEF AcquireSlot
  <2>2. index'[i].stage = "granted" /\ \A j \in BuildJobs \ {i} : index'[j] = index[j]
    BY <1>0, <2>1 DEF BuildJob
  <2>3. Holding' = Holding \cup {i}
    BY <2>2 DEF Holding
  <2>4. Cardinality(Holding') = running + 1
    BY <1>0, <1>1, <2>3, FS_AddElement
  <2>5. {j \in BuildJobs : index'[j].stage = "waiting"} = {j \in BuildJobs : index[j].stage = "waiting"}
    BY <2>2
  <2>6. waiting' = <<>>
    BY <1>0, <1>2, <2>1
  <2> QED BY <1>0, <1>2, <2>1, <2>4, <2>5, <2>6 DEF PoolFits, SlotsAddUp
<1>3. CASE ~ (running < Slots)
  <2>1. index' = [index EXCEPT ![i].stage = "waiting"] /\ running' = running /\ waiting' = Append(waiting, i)
    BY <1>3 DEF AcquireSlot
  <2>2. index'[i].stage = "waiting" /\ \A j \in BuildJobs \ {i} : index'[j] = index[j]
    BY <1>0, <2>1 DEF BuildJob
  <2>3. Holding' = Holding
    BY <1>0, <2>2 DEF Holding
  <2>4. running' = Slots
    BY <1>0, <1>3, <2>1
  <2>5. /\ waiting' \in Seq(BuildJobs) /\ Len(waiting) \in Nat /\ Len(waiting') = Len(waiting) + 1
        /\ DOMAIN waiting = 1 .. Len(waiting) /\ DOMAIN waiting' = 1 .. Len(waiting) + 1
        /\ \A k \in 1 .. Len(waiting) : waiting'[k] = waiting[k]
        /\ waiting'[Len(waiting) + 1] = i
    BY <1>0, <2>1
  <2>6. i \notin Range(waiting)
    BY <1>0
  <2>7. Range(waiting') = Range(waiting) \cup {i}
    BY <2>5 DEF Range
  <2>8. Range(waiting') = {j \in BuildJobs : index'[j].stage = "waiting"}
    BY <1>0, <2>2, <2>7
  <2>9. \A k, l \in DOMAIN waiting' : waiting'[k] = waiting'[l] => k = l
    <3>1. \A k \in 1 .. Len(waiting) : waiting[k] # i
      BY <2>5, <2>6 DEF Range
    <3> QED BY <1>0, <2>5, <3>1
  <2>10. \E stage \in {"granted", "waiting"} : index' = [index EXCEPT ![i].stage = stage]
    BY <2>1
  <2> QED BY <1>0, <2>1, <2>3, <2>4, <2>5, <2>8, <2>9, <2>10 DEF PoolFits, SlotsAddUp
<1> QED BY <1>2, <1>3

\* Job i lets its slot go, to the first that waits if there is one.
LEMMA SlotReleased ==
  ASSUME BuildInv, NEW i \in BuildJobs, i \in Holding,
         NEW jobs \in [BuildJobs -> BuildJob], jobs[i].stage = "done",
         \A j \in BuildJobs \ {i} : jobs[j] = index[j], Release(jobs)
  PROVE  /\ PoolFits' /\ running' \in 0 .. Slots /\ waiting' \in Seq(BuildJobs)
         /\ index' \in [BuildJobs -> BuildJob]
         /\ index'[i] = jobs[i]
         /\ \A j \in BuildJobs \ {i} :
              \/ index'[j] = index[j]
              \/ index[j].stage = "waiting" /\ index'[j] = [index[j] EXCEPT !.stage = "granted"]
<1>0. /\ index \in [BuildJobs -> BuildJob] /\ running \in 0 .. Slots /\ Slots \in Nat
      /\ waiting \in Seq(BuildJobs) /\ Len(waiting) \in Nat /\ DOMAIN waiting = 1 .. Len(waiting)
      /\ running = Cardinality(Holding) /\ (waiting # <<>> => running = Slots)
      /\ Range(waiting) = {j \in BuildJobs : index[j].stage = "waiting"}
      /\ \A k, l \in DOMAIN waiting : waiting[k] = waiting[l] => k = l
      /\ index[i].stage # "waiting"
  BY BuildPlaneAssumption, WaitingTyped DEF BuildInv, BuildPlaneType, PoolFits, SlotsAddUp, Holding
<1>1. IsFiniteSet(Holding) /\ Cardinality(Holding) \in Nat
  BY HoldersCounted DEF BuildInv
<1>2. Cardinality(Holding \ {i}) = Cardinality(Holding) - 1 /\ IsFiniteSet(Holding \ {i})
  BY <1>1, FS_RemoveElement
<1>3. Cardinality(Holding) > 0
  BY <1>1, FS_EmptySet
<1>4. CASE waiting = <<>>
  <2>1. index' = jobs /\ running' = running - 1 /\ waiting' = waiting
    BY <1>4 DEF Release
  <2>2. Holding' = Holding \ {i}
    BY <2>1 DEF Holding
  <2>3. {j \in BuildJobs : index'[j].stage = "waiting"} = {j \in BuildJobs : index[j].stage = "waiting"}
    BY <1>0, <2>1
  <2>4. running' \in 0 .. Slots /\ running' = Cardinality(Holding') /\ running' <= Slots
    BY <1>0, <1>1, <1>2, <1>3, <2>1, <2>2
  <2> QED BY <1>0, <1>4, <2>1, <2>3, <2>4 DEF PoolFits, SlotsAddUp
<1>5. CASE waiting # <<>>
  <2> DEFINE first == Head(waiting)
  <2>1. index' = [jobs EXCEPT ![first].stage = "granted"] /\ running' = running /\ waiting' = Tail(waiting)
    BY <1>5 DEF Release
  <2>2. /\ Len(waiting) > 0 /\ first = waiting[1]
        /\ waiting' \in Seq(BuildJobs) /\ Len(waiting') = Len(waiting) - 1
        /\ \A k \in 1 .. Len(waiting) - 1 : waiting'[k] = waiting[k + 1]
    BY <1>0, <1>5, <2>1
  <2>3. /\ first \in BuildJobs /\ index[first].stage = "waiting" /\ first # i
    <3>1. first \in Range(waiting)
      BY <1>0, <2>2 DEF Range
    <3> QED BY <1>0, <3>1
  <2> HIDE DEF first
  <2>4. /\ index' \in [BuildJobs -> BuildJob]
        /\ index'[first].stage = "granted" /\ index'[first] = [index[first] EXCEPT !.stage = "granted"]
        /\ index'[i] = jobs[i] /\ \A j \in BuildJobs \ {i, first} : index'[j] = index[j]
    BY <1>0, <2>1, <2>3, ZenonT(60) DEF BuildJob, BuildStages
  <2>5. Holding' = (Holding \ {i}) \cup {first} /\ first \notin Holding
    BY <1>0, <2>3, <2>4 DEF Holding
  <2>6. Cardinality(Holding') = Cardinality(Holding)
    <3>1. Cardinality(Holding') = Cardinality(Holding \ {i}) + 1
      BY <1>2, <2>5, FS_AddElement
    <3> QED BY <1>1, <1>2, <3>1
  <2>7. Range(waiting') = Range(waiting) \ {first}
    <3>1. \A k \in 1 .. Len(waiting) : waiting[k] = first => k = 1
      BY <1>0, <2>2
    <3>2. DOMAIN waiting' = 1 .. Len(waiting) - 1
      BY <1>0, <2>2
    <3>3. \A x : x \in Range(waiting') => x \in Range(waiting) /\ x # first
      <4> SUFFICES ASSUME NEW k \in 1 .. Len(waiting) - 1 PROVE waiting'[k] \in Range(waiting) /\ waiting'[k] # first
        BY <3>2 DEF Range
      <4>1. waiting'[k] = waiting[k + 1] /\ k + 1 \in 1 .. Len(waiting) /\ k + 1 # 1
        BY <1>0, <2>2
      <4> QED BY <1>0, <3>1, <4>1 DEF Range
    <3>4. \A x : x \in Range(waiting) /\ x # first => x \in Range(waiting')
      <4> SUFFICES ASSUME NEW k \in 1 .. Len(waiting), waiting[k] # first PROVE waiting[k] \in Range(waiting')
        BY <1>0 DEF Range
      <4>1. k # 1 /\ k - 1 \in 1 .. Len(waiting) - 1 /\ waiting'[k - 1] = waiting[k]
        <5>1. k # 1
          BY <2>2
        <5>2. k - 1 \in 1 .. Len(waiting) - 1 /\ (k - 1) + 1 = k
          BY <1>0, <5>1
        <5> QED BY <2>2, <5>1, <5>2
      <4> QED BY <3>2, <4>1 DEF Range
    <3> QED BY <3>3, <3>4
  <2>8. {j \in BuildJobs : index'[j].stage = "waiting"} = {j \in BuildJobs : index[j].stage = "waiting"} \ {first}
    BY <1>0, <2>3, <2>4
  <2>9. \A k, l \in DOMAIN waiting' : waiting'[k] = waiting'[l] => k = l
    <3>1. DOMAIN waiting' = 1 .. Len(waiting) - 1
      BY <1>0, <2>2
    <3>2. \A k \in DOMAIN waiting' : k + 1 \in DOMAIN waiting /\ waiting'[k] = waiting[k + 1] /\ k \in Nat
      BY <1>0, <2>2, <3>1
    <3> QED BY <1>0, <3>2
  <2>10. PoolFits' /\ running' \in 0 .. Slots
    BY <1>0, <1>5, <2>1, <2>6, <2>7, <2>8, <2>9 DEF PoolFits, SlotsAddUp
  <2> QED BY <2>2, <2>3, <2>4, <2>10
<1> QED BY <1>4, <1>5

-----------------------------------------------------------------------------
(* A request, what the job runs, and its end: each moves one job.          *)

\* One job moves, without a slot changing hands.
LEMMA JobMovesAlone ==
  ASSUME BuildInv, NEW i \in BuildJobs, NEW job \in BuildJob, index' = [index EXCEPT ![i] = job],
         UNCHANGED <<byKey, diskVars, slotVars, boot>>, dirty' = TRUE,
         made \subseteq made', made' \subseteq BuildJobs,
         job.key = index[i].key, job.status = "none" <=> index[i].status = "none", Staged(job),
         job.status = "succeeded" => i \in made',
         job.stage \in InFlight <=> index[i].stage \in InFlight,
         job.stage = "waiting" <=> index[i].stage = "waiting",
         job.stage = "accepting" <=> index[i].stage = "accepting"
  PROVE  BuildInv'
<1>0. index \in [BuildJobs -> BuildJob] /\ \A j \in BuildJobs : Staged(index[j])
  BY DEF BuildInv, BuildPlaneType, StagesFit
<1>1. /\ index' \in [BuildJobs -> BuildJob] /\ index'[i] = job
      /\ \A j \in BuildJobs \ {i} : index'[j] = index[j]
  BY <1>0
<1>2. StagesFit'
  BY <1>0, <1>1 DEF StagesFit
<1>3. PoolFits' /\ running' \in 0 .. Slots /\ waiting' \in Seq(BuildJobs)
  <2>1. \A j \in BuildJobs : /\ index'[j].stage = "waiting" <=> index[j].stage = "waiting"
                             /\ j \in Holding' <=> j \in Holding
    BY <1>1 DEF Holding, InFlight
  <2> QED BY <2>1, SlotsStay
<1>4. \A j \in BuildJobs : index[j].status = "succeeded" => j \in made
  BY DEF BuildInv, RecordsFit
<1>5. RecordsFit' /\ WritesOwned' /\ DiskKnows' /\ KeysAreAnswered'
  BY <1>1, <1>4, JobMoves
<1>6. BuildPlaneType'
  BY <1>1, <1>3 DEF BuildInv, BuildPlaneType, diskVars
<1> QED BY <1>2, <1>3, <1>5, <1>6 DEF BuildInv

\* A job that ends and lets its slot go.
LEMMA JobLetsGo ==
  ASSUME BuildInv, NEW i \in BuildJobs, i \in Holding,
         NEW jobs \in [BuildJobs -> BuildJob], jobs[i].stage = "done", jobs[i].key = index[i].key,
         jobs[i].status \in Ended, jobs[i].status = "succeeded" => i \in made,
         \A j \in BuildJobs \ {i} : jobs[j] = index[j], Release(jobs),
         dirty' = TRUE, UNCHANGED <<byKey, diskVars, boot, made>>
  PROVE  BuildInv'
<1>0. index \in [BuildJobs -> BuildJob] /\ \A j \in BuildJobs : index[j] \in BuildJob /\ Staged(index[j])
  BY DEF BuildInv, BuildPlaneType, StagesFit
<1>1. /\ PoolFits' /\ running' \in 0 .. Slots /\ waiting' \in Seq(BuildJobs)
      /\ index' \in [BuildJobs -> BuildJob]
      /\ index'[i] = jobs[i]
      /\ \A j \in BuildJobs \ {i} :
           \/ index'[j] = index[j]
           \/ index[j].stage = "waiting" /\ index'[j] = [index[j] EXCEPT !.stage = "granted"]
  BY SlotReleased
<1>2. \A j \in BuildJobs \ {i} :
        /\ index'[j].key = index[j].key /\ index'[j].status = index[j].status
        /\ \/ index'[j] = index[j]
           \/ index[j].stage = "waiting" /\ index'[j].stage = "granted"
  BY <1>0, <1>1 DEF BuildJob
<1>3. index[i].key \in Keys /\ index[i].status \in {"queued", "running"} \cup Ended
  BY <1>0 DEF Staged, Holding, Ended, Forgotten
<1>4. StagesFit'
  <2>1. Staged(jobs[i])
    BY <1>0, <1>3 DEF Staged, Ended
  <2>2. ASSUME NEW j \in BuildJobs \ {i} PROVE Staged(index'[j])
    BY <1>0, <1>2, ZenonT(60) DEF Staged, Forgotten
  <2> QED BY <1>1, <2>1, <2>2 DEF StagesFit
<1>5. \A j \in BuildJobs : index[j].status = "succeeded" => j \in made
  BY DEF BuildInv, RecordsFit
<1>6. RecordsFit' /\ WritesOwned' /\ DiskKnows' /\ KeysAreAnswered'
  <2>1. /\ index'[i].stage \notin InFlight /\ index[i].stage # "accepting" /\ index'[i].status # "none"
        /\ index[i].status # "none" /\ index'[i].key = index[i].key
        /\ index'[i].status = "succeeded" => i \in made
    BY <1>1, <1>3 DEF InFlight, Holding, Ended
  <2>2. \A j \in BuildJobs \ {i} :
          /\ index'[j].stage \in InFlight => index[j].stage \in InFlight
          /\ index[j].stage = "accepting" => index'[j].stage = "accepting"
    BY <1>2 DEF InFlight
  <2> QED BY <1>1, <1>2, <1>5, <2>1, <2>2, JobMoves
<1>7. BuildPlaneType'
  BY <1>1 DEF BuildInv, BuildPlaneType, diskVars
<1> QED BY <1>1, <1>4, <1>6, <1>7 DEF BuildInv

\* The job at hand.
LEMMA JobTyped ==
  ASSUME BuildInv, NEW i \in BuildJobs
  PROVE  /\ index \in [BuildJobs -> BuildJob] /\ index[i] \in BuildJob /\ Staged(index[i])
         /\ made \subseteq BuildJobs /\ NoKey \notin Keys
BY BuildPlaneAssumption DEF BuildInv, BuildPlaneType, StagesFit

LEMMA BeginKeeps ==
  ASSUME BuildInv, NEW i \in BuildJobs, Begin(i)
  PROVE BuildInv'
<1>0. /\ index \in [BuildJobs -> BuildJob] /\ index[i] \in BuildJob /\ Staged(index[i])
      /\ made \subseteq BuildJobs /\ index[i].stage = "granted" /\ dirty' = TRUE
      /\ index[i].key \in Keys /\ index[i].status = "queued"
      /\ UNCHANGED <<byKey, diskVars, boot, made>> /\ i \in Holding
  BY JobTyped DEF Begin, Staged, Holding
<1>1. CASE index[i].cancelled
  <2> DEFINE jobs == [index EXCEPT ![i].stage = "done", ![i].status = "failed"]
  <2>1. Release(jobs)
    BY <1>1 DEF Begin
  <2>2. /\ jobs \in [BuildJobs -> BuildJob] /\ jobs[i].stage = "done" /\ jobs[i].key = index[i].key
        /\ jobs[i].status = "failed" /\ \A j \in BuildJobs \ {i} : jobs[j] = index[j]
    BY <1>0 DEF BuildJob, BuildStages, Ended
  <2> HIDE DEF jobs
  <2> QED BY <1>0, <2>1, <2>2, JobLetsGo DEF Ended
<1>2. CASE ~ index[i].cancelled
  <2> DEFINE job == [index[i] EXCEPT !.stage = "building", !.status = "running"]
  <2>1. index' = [index EXCEPT ![i] = job] /\ UNCHANGED slotVars
    BY <1>0, <1>2 DEF Begin, BuildJob
  <2>2. job \in BuildJob /\ job.stage = "building" /\ job.status = "running" /\ job.key = index[i].key
    BY <1>0 DEF BuildJob, BuildStages
  <2> HIDE DEF job
  <2>3. Staged(job)
    BY <1>0, <2>2 DEF Staged
  <2> QED BY <1>0, <2>1, <2>2, <2>3, JobMovesAlone DEF InFlight
<1> QED BY <1>1, <1>2

\* A job that builds or is inspected goes on to an outcome, or to be inspected.
LEMMA StageEndsKeeps ==
  ASSUME BuildInv, NEW i \in BuildJobs, index[i].stage \in {"building", "detecting"},
         NEW stage \in {"detecting", "cleaning"}, NEW status \in {"running"} \cup Ended,
         stage = "detecting" <=> status = "running",
         index' = [index EXCEPT ![i].stage = stage, ![i].status = status],
         made' = IF status = "succeeded" THEN made \cup {i} ELSE made,
         dirty' = TRUE, UNCHANGED <<byKey, diskVars, slotVars, boot>>
  PROVE  BuildInv'
<1> DEFINE job == [index[i] EXCEPT !.stage = stage, !.status = status]
<1>0. /\ index \in [BuildJobs -> BuildJob] /\ index[i] \in BuildJob /\ made \subseteq BuildJobs
      /\ index[i].key \in Keys /\ index[i].status = "running"
  BY JobTyped DEF Staged
<1>1. index' = [index EXCEPT ![i] = job]
  BY <1>0 DEF BuildJob
<1>2. job \in BuildJob /\ job.stage = stage /\ job.status = status /\ job.key = index[i].key
  BY <1>0 DEF BuildJob, BuildStages, Ended
<1> HIDE DEF job
<1>3. Staged(job)
  BY <1>0, <1>2 DEF Staged, Ended
<1> QED BY <1>0, <1>1, <1>2, <1>3, JobMovesAlone DEF InFlight, Ended

LEMMA BuiltKeeps ==
  ASSUME BuildInv, NEW i \in BuildJobs, NEW ok \in BOOLEAN, Built(i, ok)
  PROVE BuildInv'
<1>0. /\ index[i].stage = "building" /\ dirty' = TRUE
      /\ UNCHANGED <<byKey, diskVars, slotVars, boot, made>>
      /\ index \in [BuildJobs -> BuildJob] /\ index[i] \in BuildJob /\ index[i].status = "running"
  BY JobTyped DEF Built, Staged
<1>1. CASE ok /\ ~ index[i].cancelled
  <2>1. index' = [index EXCEPT ![i].stage = "detecting", ![i].status = "running"]
    BY <1>0, <1>1 DEF Built, BuildJob
  <2> QED BY <1>0, <2>1, StageEndsKeeps DEF Ended
<1>2. CASE ~ (ok /\ ~ index[i].cancelled)
  <2>1. index' = [index EXCEPT ![i].stage = "cleaning", ![i].status = "failed"]
    BY <1>2 DEF Built
  <2>2. "failed" \in {"running"} \cup Ended /\ made' = IF "failed" = "succeeded" THEN made \cup {i} ELSE made
    BY <1>0 DEF Ended
  <2> QED BY <1>0, <2>1, <2>2, StageEndsKeeps
<1> QED BY <1>1, <1>2

LEMMA SucceedsKeeps ==
  ASSUME BuildInv, NEW i \in BuildJobs, NothingToBuild(i) \/ Detected(i) PROVE BuildInv'
<1>1. /\ index[i].stage \in {"building", "detecting"} /\ dirty' = TRUE /\ made' = made \cup {i}
      /\ UNCHANGED <<byKey, diskVars, slotVars, boot>>
      /\ index' = [index EXCEPT ![i].stage = "cleaning", ![i].status = "succeeded"]
  BY DEF NothingToBuild, Detected
<1> QED BY <1>1, StageEndsKeeps DEF Ended

LEMMA CleanedUpKeeps ==
  ASSUME BuildInv, NEW i \in BuildJobs, CleanedUp(i)
  PROVE BuildInv'
<1> DEFINE jobs == [index EXCEPT ![i].stage = "done"]
<1>0. /\ index \in [BuildJobs -> BuildJob] /\ index[i] \in BuildJob /\ Staged(index[i])
      /\ index[i].stage = "cleaning" /\ dirty' = TRUE /\ Release(jobs)
      /\ UNCHANGED <<byKey, diskVars, boot, made>> /\ i \in Holding
  BY JobTyped DEF CleanedUp, Holding
<1>1. index[i].status \in Ended /\ (index[i].status = "succeeded" => i \in made)
  BY <1>0 DEF Staged, BuildInv, RecordsFit
<1>2. /\ jobs \in [BuildJobs -> BuildJob] /\ jobs[i].stage = "done" /\ jobs[i].key = index[i].key
      /\ jobs[i].status = index[i].status /\ \A j \in BuildJobs \ {i} : jobs[j] = index[j]
  BY <1>0 DEF BuildJob, BuildStages
<1> HIDE DEF jobs
<1> QED BY <1>0, <1>1, <1>2, JobLetsGo

LEMMA CancelBuildKeeps ==
  ASSUME BuildInv, NEW i \in BuildJobs, CancelBuild(i)
  PROVE BuildInv'
<1> DEFINE job == [index[i] EXCEPT !.cancelled = TRUE]
<1>0. /\ index \in [BuildJobs -> BuildJob] /\ index[i] \in BuildJob /\ Staged(index[i])
      /\ made \subseteq BuildJobs /\ index[i].status # "none" /\ dirty' = TRUE
      /\ UNCHANGED <<byKey, diskVars, slotVars, boot, made>>
  BY JobTyped DEF CancelBuild, Knows
<1>1. index' = [index EXCEPT ![i] = job]
  BY <1>0 DEF CancelBuild, BuildJob
<1>2. job \in BuildJob /\ job.stage = index[i].stage /\ job.status = index[i].status /\ job.key = index[i].key
  BY <1>0 DEF BuildJob
<1> HIDE DEF job
<1>3. Staged(job)
  BY <1>0, <1>2 DEF Staged
<1>4. index[i].status = "succeeded" => i \in made
  BY DEF BuildInv, RecordsFit
<1> QED BY <1>0, <1>1, <1>2, <1>3, <1>4, JobMovesAlone

-----------------------------------------------------------------------------
(* The disk: a write is of the index as it is when the write begins, and   *)
(* writes end in their order unless one is overtaken.                      *)

\* A write begins, of the index as it is now: that of a job just accepted, or the
\* timer's.
LEMMA WriteBegins ==
  ASSUME BuildInv, NEW by \in BuildJobs \cup {NoBuildJob}, Write(by, index'), UNCHANGED boot,
         index' \in [BuildJobs -> BuildJob], StagesFit', made' = made \ {by},
         \A j \in BuildJobs \ {by} : index'[j] = index[j],
         by # NoBuildJob => /\ index[by] = Forgotten /\ Records(by) = {NoRow}
                            /\ index'[by].stage = "accepting" /\ index'[by].status = "queued"
  PROVE  RecordsFit' /\ WritesOwned' /\ DiskKnows' /\ writes' \in Seq(WriteRecords)
<1> DEFINE new == [by |-> by, rows |-> Rows(index')]
           last == Len(writes) + 1
<1>1. /\ writes \in Seq(WriteRecords) /\ Len(writes) \in Nat /\ DOMAIN writes = 1 .. Len(writes)
      /\ \A n \in DOMAIN writes : writes[n].by \in BuildJobs \cup {NoBuildJob}
  BY WritesTyped DEF BuildInv, WriteRecords
<1>2. /\ writes' = Append(writes, new) /\ ~ dirty' /\ UNCHANGED <<stored, lost, boot>>
  BY DEF Write
<1>3. /\ new \in WriteRecords /\ new.by = by /\ new.rows = Rows(index')
  BY RowsTyped DEF WriteRecords
<1>4. \A j \in BuildJobs :
        /\ new.rows[j].key = index'[j].key
        /\ new.rows[j].status = "none" <=> index'[j].status = "none"
        /\ new.rows[j].status = "succeeded" <=> index'[j].status = "succeeded"
  BY <1>3, RowsTyped
<1> HIDE DEF new
<1>5. /\ writes' \in Seq(WriteRecords) /\ Len(writes') = last /\ DOMAIN writes' = 1 .. last /\ last \in Nat
      /\ writes'[last] = new /\ \A n \in 1 .. Len(writes) : writes'[n] = writes[n]
  BY <1>1, <1>2, <1>3
<1>6. \A n \in DOMAIN writes' : n = last \/ n \in DOMAIN writes
  BY <1>1, <1>5
<1>7. last \notin DOMAIN writes /\ last \in DOMAIN writes' /\ \A n \in DOMAIN writes : n \in DOMAIN writes' /\ n < last
  BY <1>1, <1>5
<1> HIDE DEF last
<1>8. \A j \in BuildJobs : Records(j)' = Records(j) \cup {new.rows[j]}
  <2> SUFFICES ASSUME NEW j \in BuildJobs PROVE Records(j)' = Records(j) \cup {new.rows[j]}
    OBVIOUS
  <2>1. {writes'[n].rows[j] : n \in DOMAIN writes'} = {writes[n].rows[j] : n \in DOMAIN writes} \cup {new.rows[j]}
    BY <1>1, <1>5, <1>6, <1>7
  <2> QED BY <1>2, <2>1 DEF Records
<1>9. \A j \in BuildJobs : Staged(index'[j]) /\ index'[j] \in BuildJob /\ NoKey \notin Keys
  BY BuildPlaneAssumption DEF StagesFit
<1>10. \A j \in BuildJobs : /\ new.rows[j].status = "none" <=> new.rows[j].key = NoKey
                            /\ index'[j].status = "succeeded" => j \in made'
  <2>1. \A j \in BuildJobs : new.rows[j].status = "none" <=> new.rows[j].key = NoKey
    BY <1>4, <1>9 DEF Staged, Forgotten
  <2>2. \A j \in BuildJobs : index'[j].status = "succeeded" => j \in made'
    <3> SUFFICES ASSUME NEW j \in BuildJobs, index'[j].status = "succeeded" PROVE j \in made'
      OBVIOUS
    <3>1. j # by
      BY DEF BuildJobs, NoBuildJob
    <3>2. index[j].status = "succeeded"
      BY <3>1
    <3> QED BY <3>1, <3>2 DEF BuildInv, RecordsFit
  <2> QED BY <2>1, <2>2
<1>11. RecordsFit'
  <2>1. ASSUME NEW j \in BuildJobs, NEW row \in Records(j)'
        PROVE  (row.status = "none" <=> row.key = NoKey) /\ (row.status = "succeeded" => j \in made')
    <3>1. CASE row = new.rows[j]
      BY <1>4, <1>10, <3>1
    <3>2. CASE row \in Records(j)
      <4>1. (row.status = "none" <=> row.key = NoKey) /\ (row.status = "succeeded" => j \in made)
        BY <3>2 DEF BuildInv, RecordsFit
      <4>2. j = by => row = NoRow
        BY <3>2 DEF BuildPlaneAssumption, BuildJobs, NoBuildJob
      <4> QED BY <4>1, <4>2 DEF NoRow
    <3> QED BY <1>8, <2>1, <3>1, <3>2
  <2>2. ASSUME NEW j \in BuildJobs, NEW k \in Named(j)', NEW l \in Named(j)'
        PROVE  k = NoKey \/ l = NoKey \/ k = l
    <3>1. Named(j)' = {index'[j].key} \cup {row.key : row \in Records(j)}
      BY <1>4, <1>8 DEF Named
    <3>2. CASE j = by
      <4>1. Records(j) = {NoRow}
        BY <3>2 DEF BuildJobs, NoBuildJob
      <4> QED BY <3>1, <4>1 DEF NoRow
    <3>3. CASE j # by
      <4>1. Named(j)' = Named(j)
        BY <3>1, <3>3 DEF Named
      <4> QED BY <4>1 DEF BuildInv, RecordsFit
    <3> QED BY <3>2, <3>3
  <2>3. ASSUME NEW j \in BuildJobs, boot'[j] # NoRow PROVE index'[j].status = "none"
    <3>1. boot[j] \in Records(j) /\ boot[j] # NoRow
      BY <1>2, <2>3 DEF Records
    <3>2. j # by
      BY <3>1 DEF BuildJobs, NoBuildJob
    <3> QED BY <3>1, <3>2 DEF BuildInv, RecordsFit, Knows
  <2> QED BY <1>10, <2>1, <2>2, <2>3 DEF RecordsFit, Knows
<1>12. \A n \in DOMAIN writes : writes[n].by # NoBuildJob =>
         writes[n].by # by /\ index'[writes[n].by].stage = "accepting" /\ index'[writes[n].by].status # "none"
  <2> SUFFICES ASSUME NEW n \in DOMAIN writes, writes[n].by # NoBuildJob
               PROVE  writes[n].by # by /\ index'[writes[n].by].stage = "accepting" /\ index'[writes[n].by].status # "none"
    OBVIOUS
  <2>1. index[writes[n].by].stage = "accepting" /\ writes[n].by \in BuildJobs
    BY <1>1 DEF BuildInv, WritesOwned
  <2>2. writes[n].by # by
    BY <2>1 DEF Forgotten
  <2>3. index'[writes[n].by].stage = "accepting"
    BY <2>1, <2>2
  <2> QED BY <1>9, <2>1, <2>2, <2>3 DEF Staged
<1>13. by # NoBuildJob => by \in BuildJobs /\ new.rows[by].status # "none"
  BY <1>4
<1>14. WritesOwned'
  <2>1. ASSUME NEW n \in DOMAIN writes', writes'[n].by # NoBuildJob
        PROVE  index'[writes'[n].by].stage = "accepting" /\ writes'[n].rows[writes'[n].by].status # "none"
    <3>1. CASE n = last
      BY <1>3, <1>5, <1>13, <2>1, <3>1
    <3>2. CASE n \in DOMAIN writes
      BY <1>1, <1>5, <1>12, <2>1, <3>2 DEF BuildInv, WritesOwned
    <3> QED BY <1>6, <3>1, <3>2
  <2>2. ASSUME NEW m \in DOMAIN writes', NEW n \in DOMAIN writes',
               writes'[m].by = writes'[n].by, writes'[m].by # NoBuildJob
        PROVE  m = n
    <3>1. CASE m \in DOMAIN writes /\ n \in DOMAIN writes
      BY <1>1, <1>5, <2>2, <3>1 DEF BuildInv, WritesOwned
    <3>2. CASE m \in DOMAIN writes /\ n = last
      BY <1>1, <1>3, <1>5, <1>12, <2>2, <3>2
    <3>3. CASE m = last /\ n \in DOMAIN writes
      BY <1>1, <1>3, <1>5, <1>12, <2>2, <3>3
    <3> QED BY <1>6, <3>1, <3>2, <3>3
  <2> QED BY <2>1, <2>2 DEF WritesOwned
<1>15. DiskKnows'
  <2> SUFFICES ASSUME ~ lost PROVE DiskKnows'
    BY <1>2 DEF DiskKnows
  <2>1. ASSUME NEW j \in BuildJobs, index'[j].stage \in InFlight
        PROVE  stored[j].status # "none" /\ \A n \in DOMAIN writes' : writes'[n].rows[j].status # "none"
    <3>1. j # by /\ index'[j] = index[j]
      BY <2>1 DEF InFlight, BuildJobs, NoBuildJob
    <3>2. stored[j].status # "none" /\ \A n \in DOMAIN writes : writes[n].rows[j].status # "none"
      BY <2>1, <3>1 DEF BuildInv, DiskKnows
    <3>3. new.rows[j].status # "none"
      BY <1>4, <1>9, <2>1 DEF InFlight, Staged, Forgotten
    <3> QED BY <1>1, <1>5, <1>6, <3>2, <3>3
  <2>2. ASSUME NEW m \in DOMAIN writes', NEW n \in DOMAIN writes', m <= n, writes'[m].by # NoBuildJob
        PROVE  writes'[n].rows[writes'[m].by].status # "none"
    <3>1. CASE m = last
      <4>1. n = last
        BY <1>5, <1>6, <1>7, <1>1, <2>2, <3>1
      <4> QED BY <1>3, <1>5, <1>13, <2>2, <3>1, <4>1
    <3>2. CASE m \in DOMAIN writes /\ n = last
      <4>1. writes'[m] = writes[m] /\ writes[m].by \in BuildJobs /\ writes[m].by # NoBuildJob
        BY <1>1, <1>5, <2>2, <3>2
      <4> QED BY <1>4, <1>5, <1>12, <3>2, <4>1
    <3>3. CASE m \in DOMAIN writes /\ n \in DOMAIN writes
      <4>1. writes'[m] = writes[m] /\ writes'[n] = writes[n] /\ writes[m].by # NoBuildJob
        BY <1>1, <1>5, <2>2, <3>3
      <4> QED BY <2>2, <3>3, <4>1 DEF BuildInv, DiskKnows
    <3> QED BY <1>6, <3>1, <3>2, <3>3
  <2>3. writes' # <<>> /\ writes'[Len(writes')].rows = Rows(index')
    BY <1>3, <1>5, <1>7
  <2>4. writes'[Len(writes')].rows = Rows(index)'
    BY <2>3
  <2> QED BY <1>2, <2>1, <2>2, <2>3, <2>4 DEF DiskKnows
<1> QED BY <1>5, <1>11, <1>14, <1>15

LEMMA AcceptKeeps ==
  ASSUME BuildInv, NEW i \in BuildJobs, NEW key \in Keys, Accept(i, key)
  PROVE BuildInv'
<1> DEFINE job == [key |-> key, status |-> "queued", stage |-> "accepting", cancelled |-> FALSE]
<1>0. /\ index \in [BuildJobs -> BuildJob] /\ Staged(index[i]) /\ made \subseteq BuildJobs /\ NoKey \notin Keys
      /\ index[i].status = "none" /\ Records(i) = {NoRow} /\ byKey[key] = NoBuildJob
      /\ index' = [index EXCEPT ![i] = job] /\ byKey' = [byKey EXCEPT ![key] = i]
      /\ made' = made \ {i} /\ Write(i, index') /\ UNCHANGED <<slotVars, boot>>
  BY JobTyped DEF Accept, Unused, Knows
<1>1. job \in BuildJob /\ job.key = key /\ job.status = "queued" /\ job.stage = "accepting"
  BY DEF BuildJob, BuildStages
<1> HIDE DEF job
<1>2. /\ index' \in [BuildJobs -> BuildJob] /\ index'[i] = job
      /\ \A j \in BuildJobs \ {i} : index'[j] = index[j]
      /\ index[i] = Forgotten
  BY <1>0, <1>1 DEF Staged
<1>3. StagesFit'
  <2>1. Staged(job)
    BY <1>1 DEF Staged
  <2> QED BY <1>2, <2>1 DEF BuildInv, StagesFit
<1>4. PoolFits' /\ running' \in 0 .. Slots /\ waiting' \in Seq(BuildJobs)
  <2>1. \A j \in BuildJobs : /\ index'[j].stage = "waiting" <=> index[j].stage = "waiting"
                             /\ j \in Holding' <=> j \in Holding
    BY <1>1, <1>2 DEF Holding, Forgotten
  <2> QED BY <1>0, <2>1, SlotsStay
<1>5. RecordsFit' /\ WritesOwned' /\ DiskKnows' /\ writes' \in Seq(WriteRecords)
  <2>1. i # NoBuildJob
    BY DEF BuildJobs, NoBuildJob
  <2> QED BY <1>0, <1>1, <1>2, <1>3, <2>1, WriteBegins
<1>6. KeysAreAnswered'
  <2>1. byKey \in [Keys -> BuildJobs \cup {NoBuildJob}]
    BY DEF BuildInv, BuildPlaneType
  <2> QED BY <1>0, <1>1, <1>2, <2>1 DEF BuildInv, KeysAreAnswered, Forgotten
<1>7. BuildPlaneType'
  BY <1>0, <1>2, <1>4, <1>5 DEF BuildInv, BuildPlaneType, Write, WriteRecords
<1> QED BY <1>3, <1>4, <1>5, <1>6, <1>7 DEF BuildInv

LEMMA FlushStateKeeps ==
  ASSUME BuildInv, FlushState
  PROVE BuildInv'
<1>0. /\ Write(NoBuildJob, index) /\ UNCHANGED <<index, byKey, slotVars, boot, made>>
      /\ index \in [BuildJobs -> BuildJob] /\ made \subseteq BuildJobs /\ StagesFit
  BY DEF FlushState, BuildInv, BuildPlaneType
<1>1. Write(NoBuildJob, index') /\ StagesFit' /\ made' = made \ {NoBuildJob}
  BY <1>0 DEF Write, StagesFit, BuildJobs, NoBuildJob
<1>2. RecordsFit' /\ WritesOwned' /\ DiskKnows' /\ writes' \in Seq(WriteRecords)
  BY <1>0, <1>1, WriteBegins
<1>3. PoolFits' /\ running' \in 0 .. Slots /\ waiting' \in Seq(BuildJobs)
  BY <1>0, SlotsStay DEF Holding
<1>4. BuildPlaneType' /\ KeysAreAnswered'
  BY <1>0, <1>2, <1>3 DEF BuildInv, BuildPlaneType, KeysAreAnswered, Write, WriteRecords
<1> QED BY <1>1, <1>2, <1>3, <1>4 DEF BuildInv

-----------------------------------------------------------------------------
(* A write ends or fails, and jobs expire.                                 *)

\* A write ends or fails.
LEMMA WriteGone ==
  ASSUME BuildInv, NEW n \in DOMAIN writes, WriteEnds(n), UNCHANGED boot
  PROVE  /\ writes' \in Seq(WriteRecords) /\ stored' \in [BuildJobs -> Row] /\ lost' \in BOOLEAN
         /\ \A k \in DOMAIN writes' : \E m \in DOMAIN writes \ {n} : writes'[k] = writes[m]
         /\ \A k, l \in DOMAIN writes' : writes'[k].by = writes'[l].by /\ writes'[k].by # NoBuildJob => k = l
         /\ \A i \in BuildJobs : Records(i)' \subseteq Records(i)
         /\ ~ lost' => /\ ~ lost /\ n = 1 /\ stored' = writes[1].rows
                       /\ Len(writes) \in Nat /\ Len(writes') = Len(writes) - 1
                       /\ \A k \in DOMAIN writes' : k \in Nat /\ k + 1 \in DOMAIN writes /\ writes'[k] = writes[k + 1]
<1> DEFINE old(k) == IF k < n THEN k ELSE k + 1
<1>0. /\ writes \in Seq(WriteRecords) /\ Len(writes) \in Nat /\ DOMAIN writes = 1 .. Len(writes)
      /\ n \in 1 .. Len(writes) /\ lost \in BOOLEAN /\ stored \in [BuildJobs -> Row]
      /\ \A m \in DOMAIN writes : writes[m] \in WriteRecords
  BY WritesTyped DEF BuildInv, BuildPlaneType
<1>1. /\ writes' = RemoveAt(writes, n)
      /\ \/ stored' = writes[n].rows /\ lost' = (lost \/ n > 1)
         \/ lost' = TRUE /\ stored' = stored
  BY DEF WriteEnds
<1>2. /\ writes' \in Seq(WriteRecords) /\ Len(writes') = Len(writes) - 1
      /\ \A k \in 1 .. Len(writes) - 1 : writes'[k] = writes[old(k)]
  BY <1>0, <1>1, Removed
<1>3. DOMAIN writes' = 1 .. Len(writes) - 1
  BY <1>0, <1>2
<1>4. \A k \in DOMAIN writes' : old(k) \in DOMAIN writes \ {n} /\ writes'[k] = writes[old(k)]
  BY <1>0, <1>2, <1>3
<1>5. \A k, l \in DOMAIN writes' : old(k) = old(l) => k = l
  BY <1>0, <1>3
<1>6. n = 1 => \A k \in DOMAIN writes' : old(k) = k + 1 /\ k \in Nat
  BY <1>0, <1>3
<1> HIDE DEF old
<1>7. stored' = stored \/ stored' = writes[n].rows
  BY <1>1
<1>8. ASSUME NEW i \in BuildJobs PROVE Records(i)' \subseteq Records(i)
  <2>1. stored'[i] \in Records(i)
    BY <1>0, <1>7 DEF Records
  <2>2. \A k \in DOMAIN writes' : writes'[k].rows[i] \in Records(i)
    BY <1>4 DEF Records
  <2> QED BY <2>1, <2>2 DEF Records
<1>9. \A k, l \in DOMAIN writes' : writes'[k].by = writes'[l].by /\ writes'[k].by # NoBuildJob => k = l
  BY <1>4, <1>5 DEF BuildInv, WritesOwned
<1>10. writes[n].rows \in [BuildJobs -> Row]
  BY <1>0 DEF WriteRecords
<1>11. ASSUME ~ lost' PROVE ~ lost /\ n = 1 /\ stored' = writes[1].rows
  <2>1. stored' = writes[n].rows /\ lost' = (lost \/ n > 1)
    BY <1>1, <1>11
  <2>2. ~ lost /\ ~ (n > 1)
    BY <1>11, <2>1
  <2>3. n = 1
    BY <1>0, <2>2
  <2> QED BY <2>1, <2>2, <2>3
<1> QED BY <1>0, <1>1, <1>2, <1>4, <1>6, <1>7, <1>8, <1>9, <1>10, <1>11

\* What is known of a job shrinks with what is written of it.
LEMMA RecordsShrink ==
  ASSUME BuildInv, UNCHANGED <<boot, made>>,
         \A i \in BuildJobs : /\ index'[i].key = index[i].key /\ index'[i].status = index[i].status
                              /\ Records(i)' \subseteq Records(i)
  PROVE  RecordsFit'
<1>1. \A i \in BuildJobs : Named(i)' \subseteq Named(i) /\ Knows(i)' = Knows(i)
  BY DEF Named, Knows
<1> QED BY <1>1 DEF BuildInv, RecordsFit

LEMMA FlushedKeeps ==
  ASSUME BuildInv, NEW n \in DOMAIN writes, Flushed(n)
  PROVE BuildInv'
<1>0. /\ writes[n].by = NoBuildJob /\ WriteEnds(n)
      /\ UNCHANGED <<index, byKey, dirty, slotVars, boot, made>>
  BY DEF Flushed
<1>1. /\ writes' \in Seq(WriteRecords) /\ stored' \in [BuildJobs -> Row] /\ lost' \in BOOLEAN
      /\ \A k \in DOMAIN writes' : \E m \in DOMAIN writes \ {n} : writes'[k] = writes[m]
      /\ \A k, l \in DOMAIN writes' : writes'[k].by = writes'[l].by /\ writes'[k].by # NoBuildJob => k = l
      /\ \A i \in BuildJobs : Records(i)' \subseteq Records(i)
      /\ ~ lost' => /\ ~ lost /\ n = 1 /\ stored' = writes[1].rows
                    /\ Len(writes) \in Nat /\ Len(writes') = Len(writes) - 1
                    /\ \A k \in DOMAIN writes' : k \in Nat /\ k + 1 \in DOMAIN writes /\ writes'[k] = writes[k + 1]
  BY <1>0, WriteGone
<1>2. StagesFit' /\ KeysAreAnswered'
  BY <1>0 DEF BuildInv, StagesFit, KeysAreAnswered
<1>3. PoolFits' /\ running' \in 0 .. Slots /\ waiting' \in Seq(BuildJobs)
  BY <1>0, SlotsStay DEF Holding
<1>4. RecordsFit'
  BY <1>0, <1>1, RecordsShrink
<1>5. WritesOwned'
  BY <1>0, <1>1 DEF BuildInv, WritesOwned
<1>6. DiskKnows'
  <2> SUFFICES ASSUME ~ lost' PROVE DiskKnows'
    BY DEF DiskKnows
  <2>1. \A i \in BuildJobs : index[i].stage \in InFlight =>
          stored'[i].status # "none" /\ \A k \in DOMAIN writes' : writes'[k].rows[i].status # "none"
    BY <1>0, <1>1 DEF BuildInv, DiskKnows
  <2>2. \A k, l \in DOMAIN writes' : k <= l /\ writes'[k].by # NoBuildJob => writes'[l].rows[writes'[k].by].status # "none"
    BY <1>1 DEF BuildInv, DiskKnows
  <2>3. ASSUME ~ dirty, \A i \in BuildJobs : boot[i] = NoRow
        PROVE  IF writes' = <<>> THEN stored' = Rows(index) ELSE writes'[Len(writes')].rows = Rows(index)
    <3>1. writes # <<>>
      OBVIOUS
    <3>2. writes[Len(writes)].rows = Rows(index)
      BY <1>1, <2>3, <3>1 DEF BuildInv, DiskKnows
    <3>3. CASE writes' = <<>>
      <4>1. Len(writes') = 0
        BY <3>3
      <4>2. Len(writes) = 1
        BY <1>1, <4>1
      <4> QED BY <1>1, <3>2, <3>3, <4>2
    <3>4. CASE writes' # <<>>
      <4>1. Len(writes') \in Nat /\ Len(writes') \in DOMAIN writes' /\ Len(writes') + 1 = Len(writes)
        BY <1>1, <3>4
      <4> QED BY <1>1, <3>2, <3>4, <4>1
    <3> QED BY <3>3, <3>4
  <2>4. Rows(index)' = Rows(index)
    BY <1>0
  <2> QED BY <1>0, <1>1, <2>1, <2>2, <2>3, <2>4 DEF DiskKnows
<1>7. BuildPlaneType'
  BY <1>0, <1>1, <1>3 DEF BuildInv, BuildPlaneType, WriteRecords
<1> QED BY <1>2, <1>3, <1>4, <1>5, <1>6, <1>7 DEF BuildInv

LEMMA AcceptedKeeps ==
  ASSUME BuildInv, NEW i \in BuildJobs, Accepted(i)
  PROVE BuildInv'
<1>0. PICK n \in DOMAIN writes : writes[n].by = i /\ WriteEnds(n)
  BY DEF Accepted
<1>1. /\ AcquireSlot(i) /\ dirty' = TRUE /\ UNCHANGED <<byKey, boot, made>>
      /\ i # NoBuildJob
  BY DEF Accepted, BuildJobs, NoBuildJob
<1>2. /\ index \in [BuildJobs -> BuildJob] /\ index[i] \in BuildJob /\ Staged(index[i])
      /\ index[i].stage = "accepting"
  BY <1>0, <1>1, JobTyped DEF BuildInv, WritesOwned
<1>3. /\ writes' \in Seq(WriteRecords) /\ stored' \in [BuildJobs -> Row] /\ lost' \in BOOLEAN
      /\ \A k \in DOMAIN writes' : \E m \in DOMAIN writes \ {n} : writes'[k] = writes[m]
      /\ \A k, l \in DOMAIN writes' : writes'[k].by = writes'[l].by /\ writes'[k].by # NoBuildJob => k = l
      /\ \A j \in BuildJobs : Records(j)' \subseteq Records(j)
      /\ ~ lost' => /\ ~ lost /\ n = 1 /\ stored' = writes[1].rows
                    /\ Len(writes) \in Nat /\ Len(writes') = Len(writes) - 1
                    /\ \A k \in DOMAIN writes' : k \in Nat /\ k + 1 \in DOMAIN writes /\ writes'[k] = writes[k + 1]
  BY <1>0, <1>1, WriteGone
<1>4. /\ PoolFits' /\ running' \in 0 .. Slots /\ waiting' \in Seq(BuildJobs)
      /\ \E stage \in {"granted", "waiting"} : index' = [index EXCEPT ![i].stage = stage]
  BY <1>1, <1>2, SlotAcquired
<1>5. /\ index' \in [BuildJobs -> BuildJob] /\ index'[i].key = index[i].key /\ index'[i].status = index[i].status
      /\ index'[i].stage \in {"granted", "waiting"}
      /\ \A j \in BuildJobs \ {i} : index'[j] = index[j]
  BY <1>2, <1>4 DEF BuildJob, BuildStages
<1>6. StagesFit'
  <2>1. Staged(index'[i])
    BY <1>2, <1>5 DEF Staged, Forgotten
  <2> QED BY <1>5, <2>1 DEF BuildInv, StagesFit
<1>7. RecordsFit'
  BY <1>1, <1>3, <1>5, RecordsShrink
<1>8. \A m \in DOMAIN writes : writes[m].by \in BuildJobs \cup {NoBuildJob}
  BY WritesTyped DEF BuildInv, WriteRecords
<1>9. WritesOwned'
  <2>1. ASSUME NEW k \in DOMAIN writes', writes'[k].by # NoBuildJob
        PROVE  index'[writes'[k].by].stage = "accepting" /\ writes'[k].rows[writes'[k].by].status # "none"
    <3>1. PICK m \in DOMAIN writes \ {n} : writes'[k] = writes[m]
      BY <1>3
    <3>2. writes[m].by # i /\ writes[m].by \in BuildJobs
      BY <1>0, <1>1, <1>8, <2>1, <3>1 DEF BuildInv, WritesOwned
    <3>3. index[writes[m].by].stage = "accepting" /\ writes[m].rows[writes[m].by].status # "none"
      BY <2>1, <3>1 DEF BuildInv, WritesOwned
    <3> QED BY <1>5, <3>1, <3>2, <3>3
  <2> QED BY <1>3, <2>1 DEF WritesOwned
<1>10. DiskKnows'
  <2> SUFFICES ASSUME ~ lost' PROVE DiskKnows'
    BY DEF DiskKnows
  <2>0. \A k, l \in DOMAIN writes : k <= l /\ writes[k].by # NoBuildJob => writes[l].rows[writes[k].by].status # "none"
    BY <1>3 DEF BuildInv, DiskKnows
  <2>1. stored'[i].status # "none" /\ \A k \in DOMAIN writes' : writes'[k].rows[i].status # "none"
    BY <1>0, <1>1, <1>3, <2>0
  <2>2. \A j \in BuildJobs : index'[j].stage \in InFlight =>
          stored'[j].status # "none" /\ \A k \in DOMAIN writes' : writes'[k].rows[j].status # "none"
    BY <1>3, <1>5, <2>1 DEF BuildInv, DiskKnows
  <2>3. \A k, l \in DOMAIN writes' : k <= l /\ writes'[k].by # NoBuildJob => writes'[l].rows[writes'[k].by].status # "none"
    BY <1>3, <2>0, SMTT(40)
  <2> QED BY <1>1, <2>2, <2>3 DEF DiskKnows
<1>11. KeysAreAnswered'
  BY <1>1, <1>5 DEF BuildInv, KeysAreAnswered, BuildPlaneType
<1>12. BuildPlaneType'
  BY <1>1, <1>3, <1>4, <1>5 DEF BuildInv, BuildPlaneType, WriteRecords
<1> QED BY <1>4, <1>6, <1>7, <1>9, <1>10, <1>11, <1>12 DEF BuildInv

LEMMA ExpireKeeps ==
  ASSUME BuildInv, NEW i \in BuildJobs, Expire(i)
  PROVE BuildInv'
<1>0. /\ index \in [BuildJobs -> BuildJob] /\ index[i].stage = "done" /\ index[i].key \in Keys
      /\ index' = [index EXCEPT ![i] = Forgotten] /\ byKey' = [byKey EXCEPT ![index[i].key] = NoBuildJob]
      /\ dirty' = TRUE /\ UNCHANGED <<writes, stored, lost, slotVars, boot, made>> /\ NoKey \notin Keys
      /\ byKey \in [Keys -> BuildJobs \cup {NoBuildJob}]
  BY JobTyped DEF Expire, diskVars, Staged, Ended, BuildInv, BuildPlaneType
<1>1. /\ Forgotten \in BuildJob /\ Forgotten.status = "none" /\ Forgotten.key = NoKey /\ Forgotten.stage = "none"
      /\ Staged(Forgotten)
  BY DEF Forgotten, BuildJob, BuildStages, Staged
<1>2. /\ index' \in [BuildJobs -> BuildJob] /\ index'[i] = Forgotten
      /\ \A j \in BuildJobs \ {i} : index'[j] = index[j]
  BY <1>0, <1>1
<1>3. StagesFit'
  BY <1>1, <1>2 DEF BuildInv, StagesFit
<1>4. PoolFits' /\ running' \in 0 .. Slots /\ waiting' \in Seq(BuildJobs)
  <2>1. \A j \in BuildJobs : /\ index'[j].stage = "waiting" <=> index[j].stage = "waiting"
                             /\ j \in Holding' <=> j \in Holding
    BY <1>0, <1>1, <1>2 DEF Holding
  <2> QED BY <1>0, <2>1, SlotsStay
<1>5. RecordsFit'
  <2>1. \A j \in BuildJobs : Records(j)' = Records(j) /\ (index'[j].key = index[j].key \/ index'[j].key = NoKey)
    BY <1>0, <1>1, <1>2 DEF Records
  <2>2. \A j \in BuildJobs : Named(j)' \subseteq Named(j) \cup {NoKey}
    BY <2>1 DEF Named
  <2>3. \A j \in BuildJobs : \A k, l \in Named(j)' : k = NoKey \/ l = NoKey \/ k = l
    BY <2>2 DEF BuildInv, RecordsFit
  <2>4. \A j \in BuildJobs : boot[j] # NoRow => index'[j].status = "none"
    BY <1>1, <1>2 DEF BuildInv, RecordsFit, Knows
  <2>5. \A j \in BuildJobs : index'[j].status = "succeeded" => j \in made
    BY <1>1, <1>2 DEF BuildInv, RecordsFit
  <2> QED BY <1>0, <2>1, <2>3, <2>4, <2>5 DEF BuildInv, RecordsFit, Knows
<1>6. WritesOwned'
  <2>1. \A n \in DOMAIN writes : writes[n].by # NoBuildJob => writes[n].by \in BuildJobs \ {i}
    BY <1>0, WritesTyped DEF BuildInv, WritesOwned, WriteRecords
  <2> QED BY <1>0, <1>2, <2>1 DEF BuildInv, WritesOwned
<1>7. DiskKnows'
  BY <1>0, <1>1, <1>2 DEF BuildInv, DiskKnows, InFlight
<1>8. KeysAreAnswered'
  BY <1>0, <1>1, <1>2 DEF BuildInv, KeysAreAnswered
<1>9. BuildPlaneType'
  BY <1>0, <1>2, <1>4 DEF BuildInv, BuildPlaneType
<1> QED BY <1>3, <1>4, <1>5, <1>6, <1>7, <1>8, <1>9 DEF BuildInv

-----------------------------------------------------------------------------
(* The process restarts, and reads what it had written.                    *)

\* The process restarts, and reads what it had written.
LEMMA NothingWritten ==
  ASSUME writes = <<>>
  PROVE  DOMAIN writes = {} /\ \A i \in BuildJobs : Records(i) = {stored[i], boot[i]}
<1>1. DOMAIN writes = {}
  OBVIOUS
<1> QED BY <1>1 DEF Records

LEMMA AllForgotten ==
  ASSUME NEW jobs, jobs = [i \in BuildJobs |-> Forgotten]
  PROVE  /\ jobs \in [BuildJobs -> BuildJob]
         /\ \A i \in BuildJobs : /\ jobs[i].status = "none" /\ jobs[i].key = NoKey /\ jobs[i].stage = "none"
                                 /\ Staged(jobs[i]) /\ Rows(jobs)[i] = NoRow
BY DEF Forgotten, BuildJob, BuildStages, Staged, Rows, NoRow, SeenPhase

LEMMA NothingThere ==
  /\ \A S : <<>> \in Seq(S)
  /\ 0 \in 0 .. Slots
BY BuildPlaneAssumption

LEMMA RowTyped == NoRow \in Row
BY DEF NoRow, Row

LEMMA RestartKeeps ==
  ASSUME BuildInv, BuilderRestarts
  PROVE BuildInv'
<1>0. /\ index' = [i \in BuildJobs |-> Forgotten] /\ byKey' = [k \in Keys |-> NoBuildJob]
      /\ dirty' = FALSE /\ writes' = <<>> /\ running' = 0 /\ waiting' = <<>> /\ boot' = stored
      /\ UNCHANGED <<stored, lost, made>>
  BY DEF BuilderRestarts
<1>1. /\ index' \in [BuildJobs -> BuildJob] /\ StagesFit'
      /\ \A i \in BuildJobs : /\ index'[i].status = "none" /\ index'[i].key = NoKey /\ index'[i].stage = "none"
                              /\ Rows(index)'[i] = NoRow
  <2>1. /\ index' \in [BuildJobs -> BuildJob]
        /\ \A i \in BuildJobs : /\ index'[i].status = "none" /\ index'[i].key = NoKey /\ index'[i].stage = "none"
                                /\ Staged(index'[i]) /\ Rows(index')[i] = NoRow
    BY <1>0, AllForgotten
  <2>2. Rows(index)' = Rows(index')
    OBVIOUS
  <2> QED BY <2>1, <2>2 DEF StagesFit
<1>2. DOMAIN writes' = {} /\ \A i \in BuildJobs : Records(i)' = {stored[i]}
  BY <1>0 DEF Records
<1>3. PoolFits'
  <2>1. Holding' = {} /\ {i \in BuildJobs : index'[i].stage = "waiting"} = {}
    BY <1>1 DEF Holding
  <2>2. Range(waiting') = {} /\ DOMAIN waiting' = {}
    BY <1>0 DEF Range
  <2>3. Cardinality(Holding') = 0
    BY <2>1, FS_EmptySet
  <2> QED BY <1>0, <2>1, <2>2, <2>3, BuildPlaneAssumption DEF PoolFits, SlotsAddUp
<1>4. RecordsFit'
  <2>1. \A i \in BuildJobs : stored[i] \in Records(i)
    BY DEF Records
  <2>2. \A i \in BuildJobs : Named(i)' = {NoKey, stored[i].key}
    BY <1>1, <1>2 DEF Named
  <2> QED BY <1>0, <1>1, <1>2, <2>1, <2>2 DEF BuildInv, RecordsFit, Knows
<1>5. WritesOwned'
  BY <1>2 DEF WritesOwned
<1>6. DiskKnows'
  <2>1. (\A i \in BuildJobs : boot'[i] = NoRow) => stored' = Rows(index)'
    <3>1. stored \in [BuildJobs -> Row] /\ Rows(index)' = [i \in BuildJobs |-> NoRow]
      BY <1>1 DEF BuildInv, BuildPlaneType, Rows
    <3> QED BY <1>0, <3>1
  <2> QED BY <1>0, <1>1, <1>2, <2>1 DEF DiskKnows, InFlight
<1>7. KeysAreAnswered'
  BY <1>0 DEF KeysAreAnswered
<1>8. BuildPlaneType'
  BY <1>0, <1>1, NothingThere DEF BuildInv, BuildPlaneType
<1> QED BY <1>1, <1>3, <1>4, <1>5, <1>6, <1>7, <1>8 DEF BuildInv

LEMMA LoadStateKeeps ==
  ASSUME BuildInv, LoadState
  PROVE BuildInv'
<1>0. /\ index' = [i \in BuildJobs |-> IF boot[i] = NoRow THEN index[i] ELSE Interrupted(boot[i])]
      /\ byKey' \in [Keys -> BuildJobs \cup {NoBuildJob}]
      /\ \A k \in Keys : byKey'[k] \in IF Booted(k) = {} THEN {byKey[k]} ELSE Booted(k)
      /\ dirty' = TRUE /\ boot' = [i \in BuildJobs |-> NoRow]
      /\ UNCHANGED <<writes, stored, lost, slotVars, made>>
      /\ index \in [BuildJobs -> BuildJob] /\ boot \in [BuildJobs -> Row] /\ NoKey \notin Keys
      /\ byKey \in [Keys -> BuildJobs \cup {NoBuildJob}]
  BY BuildPlaneAssumption DEF LoadState, diskVars, BuildInv, BuildPlaneType
<1>1. \A i \in BuildJobs : boot[i] # NoRow =>
        /\ index[i] = Forgotten
        /\ boot[i].key \in Keys /\ boot[i].status \in {"pending"} \cup Ended
        /\ boot[i].status = "succeeded" => i \in made
  <2> SUFFICES ASSUME NEW i \in BuildJobs, boot[i] # NoRow
               PROVE  /\ index[i] = Forgotten
                      /\ boot[i].key \in Keys /\ boot[i].status \in {"pending"} \cup Ended
                      /\ boot[i].status = "succeeded" => i \in made
    OBVIOUS
  <2>1. boot[i] \in Records(i) /\ boot[i] \in Row
    BY <1>0 DEF Records
  <2>2. /\ boot[i].status = "none" <=> boot[i].key = NoKey
        /\ boot[i].status = "succeeded" => i \in made
        /\ index[i].status = "none"
    BY <2>1 DEF BuildInv, RecordsFit, Knows
  <2>3. index[i] = Forgotten
    BY <2>2 DEF BuildInv, StagesFit, Staged
  <2>4. boot[i].status # "none"
    BY <2>1, <2>2 DEF Row, NoRow
  <2> QED BY <2>1, <2>2, <2>3, <2>4 DEF Row
<1>2. \A i \in BuildJobs : boot[i] # NoRow =>
        /\ index'[i] \in BuildJob /\ index'[i].key = boot[i].key /\ index'[i].stage = "done"
        /\ index'[i].status \in Ended /\ (index'[i].status = "succeeded" => i \in made)
  BY <1>0, <1>1 DEF Interrupted, BuildJob, BuildStages, Ended
<1>3. \A i \in BuildJobs : boot[i] = NoRow => index'[i] = index[i]
  BY <1>0
<1>4. index' \in [BuildJobs -> BuildJob]
  BY <1>0, <1>2, <1>3
<1>5. Forgotten.stage = "none" /\ Forgotten.key = NoKey /\ Forgotten.status = "none"
  BY DEF Forgotten
<1>6. StagesFit'
  <2>1. \A i \in BuildJobs : boot[i] # NoRow => Staged(index'[i])
    BY <1>1, <1>2 DEF Staged, Ended
  <2> QED BY <1>3, <2>1 DEF BuildInv, StagesFit
<1>7. PoolFits' /\ running' \in 0 .. Slots /\ waiting' \in Seq(BuildJobs)
  <2>1. \A j \in BuildJobs : /\ index'[j].stage = "waiting" <=> index[j].stage = "waiting"
                             /\ j \in Holding' <=> j \in Holding
    BY <1>1, <1>2, <1>3, <1>5 DEF Holding
  <2> QED BY <1>0, <2>1, SlotsStay
<1>8. RecordsFit'
  <2>1. \A i \in BuildJobs : Records(i)' \subseteq Records(i) \cup {NoRow}
    BY <1>0 DEF Records
  <2>2. \A i \in BuildJobs : Named(i)' \subseteq Named(i) \cup {NoKey}
    <3>1. \A i \in BuildJobs : index'[i].key \in Named(i)
      <4>1. \A i \in BuildJobs : boot[i] \in Records(i)
        BY DEF Records
      <4> QED BY <1>2, <1>3, <4>1 DEF Named
    <3> QED BY <2>1, <3>1 DEF Named, NoRow
  <2>3. \A i \in BuildJobs : \A k, l \in Named(i)' : k = NoKey \/ l = NoKey \/ k = l
    BY <2>2 DEF BuildInv, RecordsFit
  <2>4. \A i \in BuildJobs : index'[i].status = "succeeded" => i \in made
    BY <1>2, <1>3 DEF BuildInv, RecordsFit
  <2>5. ASSUME NEW i \in BuildJobs, NEW row \in Records(i)'
        PROVE  (row.status = "none" <=> row.key = NoKey) /\ (row.status = "succeeded" => i \in made)
    BY <2>1, <2>5 DEF BuildInv, RecordsFit, NoRow
  <2> QED BY <1>0, <2>3, <2>4, <2>5 DEF RecordsFit
<1>9. WritesOwned'
  <2>1. \A n \in DOMAIN writes : writes[n].by # NoBuildJob =>
          writes[n].by \in BuildJobs /\ index[writes[n].by].stage = "accepting"
    BY WritesTyped DEF BuildInv, WritesOwned, WriteRecords
  <2>2. \A n \in DOMAIN writes : writes[n].by # NoBuildJob => index'[writes[n].by] = index[writes[n].by]
    BY <1>1, <1>3, <1>5, <2>1
  <2> QED BY <1>0, <2>1, <2>2 DEF BuildInv, WritesOwned
<1>10. DiskKnows'
  <2>1. \A i \in BuildJobs : index'[i].stage \in InFlight => index[i].stage \in InFlight
    BY <1>2, <1>3 DEF InFlight
  <2> QED BY <1>0, <2>1 DEF BuildInv, DiskKnows
<1>11. KeysAreAnswered'
  <2> SUFFICES ASSUME NEW k \in Keys, byKey'[k] # NoBuildJob PROVE index'[byKey'[k]].key = k
    BY DEF KeysAreAnswered
  <2>1. CASE Booted(k) = {}
    <3>1. byKey'[k] = byKey[k] /\ byKey[k] \in BuildJobs /\ index[byKey[k]].key = k
      BY <1>0, <2>1 DEF BuildInv, KeysAreAnswered
    <3>2. boot[byKey[k]] = NoRow
      BY <1>0, <1>1, <1>5, <3>1
    <3> QED BY <1>3, <3>1, <3>2
  <2>2. CASE Booted(k) # {}
    <3>1. byKey'[k] \in BuildJobs /\ boot[byKey'[k]].key = k
      BY <1>0, <2>2 DEF Booted
    <3>2. boot[byKey'[k]] # NoRow
      BY <1>0, <3>1 DEF NoRow
    <3> QED BY <1>2, <3>1, <3>2
  <2> QED BY <2>1, <2>2
<1>12. BuildPlaneType'
  BY <1>0, <1>4, <1>7, RowTyped DEF BuildInv, BuildPlaneType
<1> QED BY <1>6, <1>7, <1>8, <1>9, <1>10, <1>11, <1>12 DEF BuildInv

LEMMA BuildInvInit == BuildInit => BuildInv
<1> SUFFICES ASSUME BuildInit PROVE BuildInv
  OBVIOUS
<1>0. /\ index = [i \in BuildJobs |-> Forgotten] /\ byKey = [k \in Keys |-> NoBuildJob]
      /\ dirty = FALSE /\ writes = <<>> /\ stored = Rows(index) /\ running = 0 /\ waiting = <<>>
      /\ boot = stored /\ made = {} /\ lost = FALSE
  BY DEF BuildInit
<1>1. /\ index \in [BuildJobs -> BuildJob] /\ StagesFit
      /\ \A i \in BuildJobs : /\ index[i].status = "none" /\ index[i].key = NoKey /\ index[i].stage = "none"
                              /\ Rows(index)[i] = NoRow
  BY <1>0, AllForgotten DEF StagesFit
<1>2. DOMAIN writes = {} /\ \A i \in BuildJobs : Records(i) = {NoRow} /\ boot[i] = NoRow
  BY <1>0, <1>1, NothingWritten
<1>3. PoolFits
  <2>1. Holding = {} /\ {i \in BuildJobs : index[i].stage = "waiting"} = {}
    BY <1>1 DEF Holding
  <2>2. Range(waiting) = {} /\ DOMAIN waiting = {}
    BY <1>0 DEF Range
  <2>3. Cardinality(Holding) = 0
    BY <2>1, FS_EmptySet
  <2> QED BY <1>0, <2>1, <2>2, <2>3, BuildPlaneAssumption DEF PoolFits, SlotsAddUp
<1>4. RecordsFit
  <2>1. \A i \in BuildJobs : Named(i) = {NoKey}
    BY <1>1, <1>2 DEF Named, NoRow
  <2> QED BY <1>1, <1>2, <2>1 DEF RecordsFit, NoRow
<1>5. WritesOwned /\ DiskKnows
  BY <1>0, <1>1, <1>2 DEF WritesOwned, DiskKnows, InFlight
<1>6. KeysAreAnswered
  BY <1>0 DEF KeysAreAnswered
<1>7. Rows(index) \in [BuildJobs -> Row]
  BY <1>1, RowsTyped
<1>8. BuildPlaneType
  BY <1>0, <1>1, <1>7, NothingThere DEF BuildPlaneType
<1> QED BY <1>1, <1>3, <1>4, <1>5, <1>6, <1>8 DEF BuildInv

LEMMA BuildInvStep == BuildInv /\ [BuildPlaneNext]_buildVars => BuildInv'
<1> SUFFICES ASSUME BuildInv, [BuildPlaneNext]_buildVars PROVE BuildInv'
  OBVIOUS
<1>1. ASSUME NEW i \in BuildJobs, NEW key \in Keys, Accept(i, key) PROVE BuildInv'
  BY <1>1, AcceptKeeps
<1>2. ASSUME NEW i \in BuildJobs, BuildStep(i) PROVE BuildInv'
  BY <1>2, AcceptedKeeps, BeginKeeps, BuiltKeeps, SucceedsKeeps, CleanedUpKeeps DEF BuildStep
<1>3. ASSUME NEW i \in BuildJobs, CancelBuild(i) \/ Expire(i) PROVE BuildInv'
  BY <1>3, CancelBuildKeeps, ExpireKeeps
<1>4. CASE FlushState \/ BuilderRestarts \/ LoadState
  BY <1>4, FlushStateKeeps, RestartKeeps, LoadStateKeeps
<1>5. ASSUME NEW n \in DOMAIN writes, Flushed(n) PROVE BuildInv'
  BY <1>5, FlushedKeeps
<1>6. CASE UNCHANGED buildVars
  <2>1. UNCHANGED <<index, byKey, dirty, writes, stored, lost, running, waiting, boot, made>>
    BY <1>6 DEF buildVars, diskVars, slotVars
  <2>2. \A i \in BuildJobs : Records(i)' = Records(i) /\ Named(i)' = Named(i) /\ Knows(i)' = Knows(i)
    BY <2>1 DEF Records, Named, Knows
  <2>3. BuildPlaneType' /\ StagesFit' /\ PoolFits' /\ RecordsFit'
    BY <2>1, <2>2 DEF BuildInv, BuildPlaneType, StagesFit, PoolFits, SlotsAddUp, Holding, RecordsFit
  <2>4. WritesOwned' /\ DiskKnows' /\ KeysAreAnswered'
    BY <2>1 DEF BuildInv, WritesOwned, DiskKnows, KeysAreAnswered
  <2> QED BY <2>3, <2>4 DEF BuildInv
<1> QED BY <1>1, <1>2, <1>3, <1>4, <1>5, <1>6 DEF BuildPlaneNext, BuilderActs

LEMMA BuildInvAlways == BuildPlaneSpec => []BuildInv
BY BuildInvInit, BuildInvStep, PTL DEF BuildPlaneSpec

-----------------------------------------------------------------------------
(* What the build plane promises: the pool, the disk and the keys.         *)

\* The pool of builds is sound: no more builds than slots, whose count is that of
\* the jobs that hold one, and no slot idle while a job waits, whatever is cancelled,
\* fails or is cut by a restart (acquireSlot, releaseSlot).
THEOREM PoolIsSoundAlways == BuildPlaneSpec => []PoolIsSound
<1>1. BuildInv => PoolIsSound
  BY DEF BuildInv, PoolFits, PoolIsSound
<1> QED BY <1>1, BuildInvAlways, PTL

\* Unless a write failed or was overtaken, what is built is on disk, and nothing is
\* left unwritten for good (POST /builds, flushState, the timer).
THEOREM DiskFollowsAlways == BuildPlaneSpec => []DiskFollows
<1>1. ASSUME BuildInv PROVE DiskFollows
  <2>1. InFlightIsStored
    BY <1>1 DEF BuildInv, DiskKnows, InFlight, InFlightIsStored
  <2>2. NothingUnwritten
    <3> SUFFICES ASSUME ~ lost, ~ dirty, writes = <<>>, boot = [i \in BuildJobs |-> NoRow]
                 PROVE  stored = Rows(index)
      BY DEF NothingUnwritten
    <3>1. \A i \in BuildJobs : boot[i] = NoRow
      OBVIOUS
    <3> QED BY <1>1, <3>1 DEF BuildInv, DiskKnows
  <2> QED BY <2>1, <2>2 DEF DiskFollows
<1> QED BY <1>1, BuildInvAlways, PTL

\* A key that is remembered is answered with a job of that key, across expiry and
\* restarts (byIdempotencyKey).
THEOREM KeysAreAnsweredAlways == BuildPlaneSpec => []KeysAreAnswered
<1>1. BuildInv => KeysAreAnswered
  BY DEF BuildInv
<1> QED BY <1>1, BuildInvAlways, PTL

-----------------------------------------------------------------------------
(* The contract.  A job's key is the one it is known under anywhere, and   *)
(* what a poll is answered with is the state of the job in memory.         *)

KeyIn(keys) == IF keys = {NoKey} THEN NoKey ELSE CHOOSE k \in keys : k # NoKey

LEMMA KeyInIs ==
  ASSUME NEW keys, keys # {}, \A k, l \in keys : k = NoKey \/ l = NoKey \/ k = l
  PROVE  KeyIn(keys) \in keys /\ \A k \in keys : k # NoKey => KeyIn(keys) = k
<1>1. CASE keys = {NoKey}
  BY <1>1 DEF KeyIn
<1>2. CASE keys # {NoKey}
  <2>1. \E k \in keys : k # NoKey
    BY <1>2
  <2>2. KeyIn(keys) \in keys /\ KeyIn(keys) # NoKey
    BY <1>2, <2>1 DEF KeyIn
  <2> QED BY <2>2
<1> QED BY <1>1, <1>2

\* A job keeps its key, or nothing is known of it any more.
LEMMA KeyKept ==
  ASSUME BuildInv, BuildInv', NEW i \in BuildJobs, Named(i)' \subseteq Named(i) \cup {NoKey}
  PROVE  /\ KeyOf(i)' = KeyOf(i) \/ (KeyOf(i)' = NoKey /\ index'[i].status = "none")
         /\ Named(i) \subseteq Named(i)' \cup {NoKey} => KeyOf(i)' = KeyOf(i)
<1>1. KeyOf(i) = KeyIn(Named(i)) /\ KeyOf(i)' = KeyIn(Named(i)')
  BY DEF KeyOf, KeyIn, Named
<1>2. /\ Named(i) # {} /\ \A k, l \in Named(i) : k = NoKey \/ l = NoKey \/ k = l
      /\ Named(i)' # {} /\ \A k, l \in Named(i)' : k = NoKey \/ l = NoKey \/ k = l
      /\ index'[i].key \in Named(i)'
  BY DEF Named, BuildInv, RecordsFit
<1>3. /\ KeyOf(i) \in Named(i) /\ \A k \in Named(i) : k # NoKey => KeyOf(i) = k
      /\ KeyOf(i)' \in Named(i)' /\ \A k \in Named(i)' : k # NoKey => KeyOf(i)' = k
  BY <1>1, <1>2, KeyInIs
<1>4. KeyOf(i)' = KeyOf(i) \/ KeyOf(i)' = NoKey
  BY <1>3
<1>5. KeyOf(i)' = NoKey => index'[i].status = "none"
  <2>1. KeyOf(i)' = NoKey => index'[i].key = NoKey
    BY <1>2, <1>3
  <2>2. index'[i].key = NoKey => index'[i].status = "none"
    BY BuildPlaneAssumption DEF BuildInv, StagesFit, Staged
  <2> QED BY <2>1, <2>2
<1> QED BY <1>3, <1>4, <1>5

PromisedKey(i) == KeyOf(i)
PromisedPhase(i) == SeenPhase(index[i].status)

\* A step after which a poll is answered as before, or with a 404, forgets.
LEMMA StepForgets ==
  ASSUME BuildInv, BuildInv', made' = made,
         \A i \in BuildJobs : /\ Named(i)' \subseteq Named(i) \cup {NoKey}
                              /\ \/ PromisedPhase(i)' = PromisedPhase(i)
                                 \/ PromisedPhase(i)' = "none"
  PROVE  Promise!ContractNext
<1> DEFINE gone == {i \in BuildJobs : KeyOf(i)' # KeyOf(i)}
           hidden == {i \in BuildJobs : PromisedPhase(i)' = "none"}
<1>1. \A i \in gone : KeyOf(i)' = NoKey /\ i \in hidden
  BY KeyKept DEF PromisedPhase, SeenPhase
<1>2. [i \in BuildJobs |-> KeyOf(i)]' =
        [i \in BuildJobs |-> IF i \in gone THEN NoKey ELSE [j \in BuildJobs |-> KeyOf(j)][i]]
  BY <1>1
<1>3. [i \in BuildJobs |-> PromisedPhase(i)]' =
        [i \in BuildJobs |-> IF i \in gone \cup hidden THEN "none" ELSE [j \in BuildJobs |-> PromisedPhase(j)][i]]
  BY <1>1
<1>4. gone \in SUBSET BuildJobs /\ hidden \in SUBSET BuildJobs
  OBVIOUS
<1> HIDE DEF gone, hidden
<1>5. Promise!Forget(gone, hidden)
  BY <1>2, <1>3 DEF Promise!Forget, PromisedPhase
<1> QED BY <1>4, <1>5 DEF Promise!ContractNext

\* A job that was pending ends.
LEMMA StepEnds ==
  ASSUME BuildInv, BuildInv', NEW i \in BuildJobs, NEW outcome \in {"succeeded", "failed"},
         index[i].status \in {"queued", "running"}, index'[i].status = outcome,
         \A j \in BuildJobs : Named(j)' = Named(j) /\ (j # i => index'[j].status = index[j].status),
         made' = IF outcome = "succeeded" THEN made \cup {i} ELSE made
  PROVE  Promise!ContractNext
<1>1. \A j \in BuildJobs : KeyOf(j)' = KeyOf(j)
  BY KeyKept
<1>2. [j \in BuildJobs |-> KeyOf(j)]' = [j \in BuildJobs |-> KeyOf(j)]
  BY <1>1
<1>3. /\ PromisedPhase(i) = "pending" /\ PromisedPhase(i)' = outcome
      /\ \A j \in BuildJobs \ {i} : PromisedPhase(j)' = PromisedPhase(j)
  BY DEF PromisedPhase, SeenPhase
<1>4. [j \in BuildJobs |-> PromisedPhase(j)]' = [[j \in BuildJobs |-> PromisedPhase(j)] EXCEPT ![i] = outcome]
  BY <1>3
<1>5. Promise!End(i, outcome)
  BY <1>2, <1>3, <1>4 DEF Promise!End, PromisedPhase
<1> QED BY <1>5 DEF Promise!ContractNext

\* Steps of one job: its records are what they were.
LEMMA NamesStay ==
  ASSUME UNCHANGED <<diskVars, boot>>
  PROVE  \A i \in BuildJobs : index'[i].key = index[i].key => Named(i)' = Named(i)
<1>1. UNCHANGED <<writes, stored, boot>>
  BY DEF diskVars
<1> QED BY <1>1 DEF Named, Records

LEMMA AcceptAsks ==
  ASSUME BuildInv, BuildInv', NEW i \in BuildJobs, NEW key \in Keys, Accept(i, key)
                    PROVE  Promise!ContractNext
<1>0. /\ index \in [BuildJobs -> BuildJob] /\ Staged(index[i]) /\ NoKey \notin Keys
      /\ index[i].status = "none" /\ Records(i) = {NoRow}
      /\ index' = [index EXCEPT ![i] = [key |-> key, status |-> "queued",
                                        stage |-> "accepting", cancelled |-> FALSE]]
      /\ made' = made \ {i} /\ Write(i, index') /\ UNCHANGED boot
  BY JobTyped DEF Accept, Unused, Knows
<1>1. /\ index'[i].key = key /\ index'[i].status = "queued"
      /\ \A j \in BuildJobs \ {i} : index'[j] = index[j]
  BY <1>0
<1>2. \A j \in BuildJobs \ {i} : Named(j)' = Named(j)
  <2> SUFFICES ASSUME NEW j \in BuildJobs \ {i} PROVE Named(j)' = Named(j)
    OBVIOUS
  <2>1. UNCHANGED <<stored, boot>> /\ writes' = Append(writes, [by |-> i, rows |-> Rows(index')])
    BY <1>0 DEF Write
  <2>2. /\ Len(writes) \in Nat /\ DOMAIN writes = 1 .. Len(writes) /\ writes \in Seq(WriteRecords)
    BY WritesTyped DEF BuildInv
  <2>3. Rows(index') \in [BuildJobs -> Row] /\ Rows(index')[j].key = index[j].key
    BY <1>1, RowsTyped DEF BuildInv, BuildPlaneType
  <2>4. [by |-> i, rows |-> Rows(index')] \in WriteRecords
    BY <2>3 DEF WriteRecords
  <2>5. /\ DOMAIN writes' = 1 .. Len(writes) + 1 /\ writes'[Len(writes) + 1].rows = Rows(index')
        /\ \A n \in 1 .. Len(writes) : writes'[n] = writes[n]
    BY <2>1, <2>2, <2>4
  <2>6. {writes'[n].rows[j] : n \in DOMAIN writes'} = {writes[n].rows[j] : n \in DOMAIN writes} \cup {Rows(index')[j]}
    <3>1. \A n \in DOMAIN writes' : n \in DOMAIN writes \/ n = Len(writes) + 1
      BY <2>2, <2>5
    <3>2. Len(writes) + 1 \in DOMAIN writes' /\ \A n \in DOMAIN writes : n \in DOMAIN writes'
      BY <2>2, <2>5
    <3> QED BY <2>2, <2>5, <3>1, <3>2
  <2>7. Records(j)' = Records(j) \cup {Rows(index')[j]}
    BY <2>1, <2>6 DEF Records
  <2> QED BY <1>1, <2>3, <2>7 DEF Named
<1>3. \A j \in BuildJobs \ {i} : KeyOf(j)' = KeyOf(j) /\ PromisedPhase(j)' = PromisedPhase(j)
  BY <1>1, <1>2, KeyKept DEF PromisedPhase
<1>4. KeyOf(i) = NoKey
  <2>1. Named(i) = {NoKey}
    BY <1>0 DEF Named, NoRow, Staged, Forgotten
  <2> QED BY <2>1 DEF KeyOf, Named
<1>5. KeyOf(i)' = key
  <2>1. KeyOf(i)' = KeyIn(Named(i)')
    BY DEF KeyOf, KeyIn, Named
  <2>2. key \in Named(i)' /\ key # NoKey /\ \A k, l \in Named(i)' : k = NoKey \/ l = NoKey \/ k = l
    BY <1>0, <1>1 DEF Named, BuildInv, RecordsFit
  <2> QED BY <2>1, <2>2, KeyInIs
<1>6. PromisedPhase(i)' = "pending"
  BY <1>1 DEF PromisedPhase, SeenPhase
<1>7. /\ [j \in BuildJobs |-> KeyOf(j)]' = [[j \in BuildJobs |-> KeyOf(j)] EXCEPT ![i] = key]
      /\ [j \in BuildJobs |-> PromisedPhase(j)]' = [[j \in BuildJobs |-> PromisedPhase(j)] EXCEPT ![i] = "pending"]
  BY <1>3, <1>5, <1>6
<1>8. Promise!Ask(i, key)
  BY <1>0, <1>4, <1>7 DEF Promise!Ask, PromisedPhase
<1> QED BY <1>8 DEF Promise!ContractNext

LEMMA LoadStateRecalls ==
  ASSUME BuildInv, BuildInv', LoadState
  PROVE Promise!ContractNext
<1>0. /\ index' = [i \in BuildJobs |-> IF boot[i] = NoRow THEN index[i] ELSE Interrupted(boot[i])]
      /\ boot' = [i \in BuildJobs |-> NoRow] /\ UNCHANGED <<writes, stored, made>>
      /\ boot \in [BuildJobs -> Row] /\ index \in [BuildJobs -> BuildJob] /\ NoKey \notin Keys
  BY BuildPlaneAssumption DEF LoadState, diskVars, BuildInv, BuildPlaneType
<1>1. \A i \in BuildJobs : boot[i] = NoRow => index'[i] = index[i]
  BY <1>0
<1>2. \A i \in BuildJobs : boot[i] # NoRow =>
        /\ index'[i].key = boot[i].key /\ index[i].key = NoKey /\ boot[i].key # NoKey
        /\ PromisedPhase(i)' \in {"failed"} \cup {p \in {"succeeded"} : i \in made}
  <2> SUFFICES ASSUME NEW i \in BuildJobs, boot[i] # NoRow
               PROVE  /\ index'[i].key = boot[i].key /\ index[i].key = NoKey /\ boot[i].key # NoKey
                      /\ PromisedPhase(i)' \in {"failed"} \cup {p \in {"succeeded"} : i \in made}
    OBVIOUS
  <2>1. boot[i] \in Records(i) /\ boot[i] \in Row
    BY <1>0 DEF Records
  <2>2. /\ boot[i].status = "none" <=> boot[i].key = NoKey
        /\ boot[i].status = "succeeded" => i \in made
        /\ index[i].status = "none"
    BY <2>1 DEF BuildInv, RecordsFit, Knows
  <2>3. index[i] = Forgotten
    BY <2>2 DEF BuildInv, StagesFit, Staged
  <2>4. boot[i].status # "none"
    BY <2>1, <2>2 DEF Row, NoRow
  <2>5. index'[i].key = boot[i].key /\ index'[i].status = IF boot[i].status = "pending" THEN "failed" ELSE boot[i].status
    BY <1>0 DEF Interrupted
  <2>6. index'[i].status = "failed" \/ (index'[i].status = "succeeded" /\ i \in made)
    BY <2>1, <2>2, <2>4, <2>5 DEF Row, Ended
  <2>7. PromisedPhase(i)' = index'[i].status
    BY <2>6 DEF PromisedPhase, SeenPhase
  <2> QED BY <2>2, <2>3, <2>4, <2>5, <2>6, <2>7 DEF Forgotten
<1>3. ASSUME NEW i \in BuildJobs PROVE Named(i)' \subseteq Named(i) \cup {NoKey} /\ Named(i) \subseteq Named(i)' \cup {NoKey}
  <2>1. Records(i)' \subseteq Records(i) \cup {NoRow} /\ Records(i) \subseteq Records(i)' \cup {boot[i]}
    BY <1>0 DEF Records
  <2>2. boot[i] \in Records(i) /\ NoRow.key = NoKey
    BY DEF Records, NoRow
  <2>3. CASE boot[i] = NoRow
    BY <1>1, <2>1, <2>2, <2>3 DEF Named
  <2>4. CASE boot[i] # NoRow
    BY <1>2, <2>1, <2>2, <2>4 DEF Named
  <2> QED BY <2>3, <2>4
<1>4. \A i \in BuildJobs : KeyOf(i)' = KeyOf(i)
  BY <1>3, KeyKept
<1>5. \A i \in BuildJobs : boot[i] # NoRow => KeyOf(i) # NoKey
  <2> SUFFICES ASSUME NEW i \in BuildJobs, boot[i] # NoRow PROVE KeyOf(i) # NoKey
    OBVIOUS
  <2>1. boot[i].key \in Named(i) /\ boot[i].key # NoKey
    BY <1>2 DEF Named, Records
  <2>2. KeyOf(i) = KeyIn(Named(i)) /\ \A k, l \in Named(i) : k = NoKey \/ l = NoKey \/ k = l
    BY DEF KeyOf, KeyIn, Named, BuildInv, RecordsFit
  <2> QED BY <2>1, <2>2, KeyInIs
<1>6. \A i \in BuildJobs : PromisedPhase(i)' \in {"none", "pending", "succeeded", "failed"}
  BY DEF PromisedPhase, SeenPhase, BuildInv, BuildPlaneType, BuildJob, Ended
<1>7. \A i \in BuildJobs : PromisedPhase(i)' # PromisedPhase(i) => boot[i] # NoRow
  BY <1>1 DEF PromisedPhase
<1>8. Promise!Recall
  <2>1. [i \in BuildJobs |-> PromisedPhase(i)]' \in [BuildJobs -> {"none", "pending", "succeeded", "failed"}]
    BY <1>6
  <2>2. \A i \in BuildJobs : [j \in BuildJobs |-> PromisedPhase(j)]'[i] # [j \in BuildJobs |-> PromisedPhase(j)][i] =>
          /\ [j \in BuildJobs |-> KeyOf(j)][i] # NoKey
          /\ [j \in BuildJobs |-> PromisedPhase(j)]'[i] \in {"failed"} \cup {p \in {"succeeded"} : i \in made}
    BY <1>2, <1>5, <1>7
  <2>3. [i \in BuildJobs |-> KeyOf(i)]' = [i \in BuildJobs |-> KeyOf(i)]
    BY <1>4
  <2> QED BY <1>0, <2>1, <2>2, <2>3 DEF Promise!Recall, Promise!RecalledAs, Promise!BuildPhases, PromisedPhase
<1> QED BY <1>8 DEF Promise!ContractNext

\* Letting a slot go changes what nobody polls for: who is granted the slot.
LEMMA ReleaseShows ==
  ASSUME NEW jobs \in [BuildJobs -> BuildJob], Release(jobs), waiting \in Seq(BuildJobs)
  PROVE  \A j \in BuildJobs : index'[j].key = jobs[j].key /\ index'[j].status = jobs[j].status
<1>1. CASE waiting = <<>>
  BY <1>1 DEF Release
<1>2. CASE waiting # <<>>
  BY <1>2 DEF Release, BuildJob
<1> QED BY <1>1, <1>2

LEMMA BuildStepKept ==
  ASSUME BuildInv, BuildInv', NEW i \in BuildJobs, BuildStep(i) PROVE Promise!ContractNext
<1>0. /\ index \in [BuildJobs -> BuildJob] /\ index[i] \in BuildJob /\ Staged(index[i])
      /\ waiting \in Seq(BuildJobs)
  BY JobTyped DEF BuildInv, BuildPlaneType
<1>1. CASE Accepted(i)
  <2>1. PICK n \in DOMAIN writes : WriteEnds(n)
    BY <1>1 DEF Accepted
  <2>2. AcquireSlot(i) /\ UNCHANGED <<boot, made>>
    BY <1>1 DEF Accepted
  <2>3. \A j \in BuildJobs : index'[j].key = index[j].key /\ index'[j].status = index[j].status
    BY <1>0, <2>2 DEF AcquireSlot, BuildJob
  <2>4. \A j \in BuildJobs : Records(j)' \subseteq Records(j)
    BY <2>1, <2>2, WriteGone
  <2>5. \A j \in BuildJobs : Named(j)' \subseteq Named(j) /\ PromisedPhase(j)' = PromisedPhase(j)
    BY <2>3, <2>4 DEF Named, PromisedPhase
  <2> QED BY <2>2, <2>5, StepForgets
<1>2. CASE Begin(i)
  <2>1. index[i].stage = "granted" /\ index[i].status = "queued" /\ UNCHANGED <<diskVars, boot, made>>
    BY <1>0, <1>2 DEF Begin, Staged
  <2>2. CASE index[i].cancelled
    <3> DEFINE jobs == [index EXCEPT ![i].stage = "done", ![i].status = "failed"]
    <3>1. Release(jobs)
      BY <1>2, <2>2 DEF Begin
    <3>2. /\ jobs \in [BuildJobs -> BuildJob] /\ jobs[i].status = "failed"
          /\ \A j \in BuildJobs : jobs[j].key = index[j].key /\ (j # i => jobs[j].status = index[j].status)
      BY <1>0 DEF BuildJob, BuildStages, Ended
    <3> HIDE DEF jobs
    <3>3. /\ index'[i].status = "failed"
          /\ \A j \in BuildJobs : index'[j].key = index[j].key /\ (j # i => index'[j].status = index[j].status)
      BY <1>0, <3>1, <3>2, ReleaseShows
    <3> QED BY <2>1, <3>3, NamesStay, StepEnds
  <2>3. CASE ~ index[i].cancelled
    <3>1. index' = [index EXCEPT ![i].stage = "building", ![i].status = "running"]
      BY <1>2, <2>3 DEF Begin
    <3>2. /\ index'[i].status = "running"
          /\ \A j \in BuildJobs : index'[j].key = index[j].key /\ (j # i => index'[j].status = index[j].status)
      BY <1>0, <3>1 DEF BuildJob
    <3>3. \A j \in BuildJobs : PromisedPhase(j)' = PromisedPhase(j)
      BY <2>1, <3>2 DEF PromisedPhase, SeenPhase
    <3> QED BY <2>1, <3>2, <3>3, NamesStay, StepForgets
  <2> QED BY <2>2, <2>3
<1>3. ASSUME NEW ok \in BOOLEAN, Built(i, ok) PROVE Promise!ContractNext
  <2>1. index[i].stage = "building" /\ index[i].status = "running" /\ UNCHANGED <<diskVars, boot, made>>
    BY <1>0, <1>3 DEF Built, Staged
  <2>2. CASE ok /\ ~ index[i].cancelled
    <3>1. \A j \in BuildJobs : index'[j].key = index[j].key /\ index'[j].status = index[j].status
      BY <1>0, <1>3, <2>2 DEF Built, BuildJob
    <3>2. \A j \in BuildJobs : PromisedPhase(j)' = PromisedPhase(j)
      BY <3>1 DEF PromisedPhase
    <3> QED BY <2>1, <3>1, <3>2, NamesStay, StepForgets
  <2>3. CASE ~ (ok /\ ~ index[i].cancelled)
    <3>1. /\ index'[i].status = "failed"
          /\ \A j \in BuildJobs : index'[j].key = index[j].key /\ (j # i => index'[j].status = index[j].status)
      BY <1>0, <1>3, <2>3 DEF Built, BuildJob
    <3> QED BY <2>1, <3>1, NamesStay, StepEnds
  <2> QED BY <2>2, <2>3
<1>4. CASE NothingToBuild(i) \/ Detected(i)
  <2>1. /\ index[i].stage \in {"building", "detecting"} /\ made' = made \cup {i} /\ UNCHANGED <<diskVars, boot>>
        /\ index' = [index EXCEPT ![i].stage = "cleaning", ![i].status = "succeeded"]
    BY <1>4 DEF NothingToBuild, Detected
  <2>2. /\ index[i].status = "running" /\ index'[i].status = "succeeded"
        /\ \A j \in BuildJobs : index'[j].key = index[j].key /\ (j # i => index'[j].status = index[j].status)
    BY <1>0, <2>1 DEF BuildJob, Staged
  <2> QED BY <2>1, <2>2, NamesStay, StepEnds
<1>5. CASE CleanedUp(i)
  <2> DEFINE jobs == [index EXCEPT ![i].stage = "done"]
  <2>1. Release(jobs) /\ UNCHANGED <<diskVars, boot, made>>
    BY <1>5 DEF CleanedUp
  <2>2. /\ jobs \in [BuildJobs -> BuildJob]
        /\ \A j \in BuildJobs : jobs[j].key = index[j].key /\ jobs[j].status = index[j].status
    BY <1>0 DEF BuildJob, BuildStages
  <2> HIDE DEF jobs
  <2>3. \A j \in BuildJobs : index'[j].key = index[j].key /\ index'[j].status = index[j].status
    BY <1>0, <2>1, <2>2, ReleaseShows
  <2>4. \A j \in BuildJobs : PromisedPhase(j)' = PromisedPhase(j)
    BY <2>3 DEF PromisedPhase
  <2> QED BY <2>1, <2>3, <2>4, NamesStay, StepForgets
<1> QED BY <1>1, <1>2, <1>3, <1>4, <1>5 DEF BuildStep

LEMMA BuilderActsKept ==
  ASSUME BuildInv, BuildInv', BuilderActs
  PROVE Promise!ContractNext
<1>0. index \in [BuildJobs -> BuildJob]
  BY DEF BuildInv, BuildPlaneType
<1>1. ASSUME NEW i \in BuildJobs, CancelBuild(i) PROVE Promise!ContractNext
  <2>1. UNCHANGED <<diskVars, boot, made>>
        /\ \A j \in BuildJobs : index'[j].key = index[j].key /\ index'[j].status = index[j].status
    BY <1>0, <1>1 DEF CancelBuild, BuildJob
  <2>2. \A j \in BuildJobs : PromisedPhase(j)' = PromisedPhase(j)
    BY <2>1 DEF PromisedPhase
  <2> QED BY <2>1, <2>2, NamesStay, StepForgets
<1>2. ASSUME NEW i \in BuildJobs, Expire(i) PROVE Promise!ContractNext
  <2>1. UNCHANGED <<writes, stored, boot, made>> /\ index' = [index EXCEPT ![i] = Forgotten]
    BY <1>2 DEF Expire, diskVars
  <2>2. /\ index'[i].key = NoKey /\ index'[i].status = "none"
        /\ \A j \in BuildJobs \ {i} : index'[j] = index[j]
    BY <1>0, <2>1 DEF Forgotten
  <2>3. \A j \in BuildJobs : Records(j)' = Records(j)
    BY <2>1 DEF Records
  <2>4. \A j \in BuildJobs : /\ Named(j)' \subseteq Named(j) \cup {NoKey}
                             /\ PromisedPhase(j)' = PromisedPhase(j) \/ PromisedPhase(j)' = "none"
    BY <2>2, <2>3 DEF Named, PromisedPhase, SeenPhase
  <2> QED BY <2>1, <2>4, StepForgets
<1>3. CASE FlushState
  <2>1. UNCHANGED <<index, boot, made, stored>> /\ writes' = Append(writes, [by |-> NoBuildJob, rows |-> Rows(index)])
    BY <1>3 DEF FlushState, Write
  <2>2. ASSUME NEW j \in BuildJobs PROVE Named(j)' \subseteq Named(j)
    <3>1. /\ Len(writes) \in Nat /\ DOMAIN writes = 1 .. Len(writes) /\ writes \in Seq(WriteRecords)
      BY WritesTyped DEF BuildInv
    <3>2. Rows(index) \in [BuildJobs -> Row] /\ Rows(index)[j].key = index[j].key
      BY <1>0, RowsTyped
    <3>3. [by |-> NoBuildJob, rows |-> Rows(index)] \in WriteRecords
      BY <3>2 DEF WriteRecords
    <3>4. \A n \in DOMAIN writes' : (n \in DOMAIN writes /\ writes'[n] = writes[n]) \/ writes'[n].rows = Rows(index)
      BY <2>1, <3>1, <3>3
    <3>5. \A row \in Records(j)' : row \in Records(j) \/ row.key = index[j].key
      BY <2>1, <3>2, <3>4 DEF Records
    <3> QED BY <2>1, <3>5 DEF Named
  <2>3. \A j \in BuildJobs : PromisedPhase(j)' = PromisedPhase(j)
    BY <2>1 DEF PromisedPhase
  <2> QED BY <2>1, <2>2, <2>3, StepForgets
<1>4. ASSUME NEW n \in DOMAIN writes, Flushed(n) PROVE Promise!ContractNext
  <2>1. UNCHANGED <<index, boot, made>> /\ \A j \in BuildJobs : Records(j)' \subseteq Records(j)
    BY <1>4, WriteGone DEF Flushed
  <2>2. \A j \in BuildJobs : Named(j)' \subseteq Named(j) /\ PromisedPhase(j)' = PromisedPhase(j)
    BY <2>1 DEF Named, PromisedPhase
  <2> QED BY <2>1, <2>2, StepForgets
<1>5. CASE BuilderRestarts
  <2>1. /\ index' = [i \in BuildJobs |-> Forgotten] /\ writes' = <<>> /\ boot' = stored
        /\ UNCHANGED <<stored, made>>
    BY <1>5 DEF BuilderRestarts
  <2>2. \A j \in BuildJobs : Records(j)' \subseteq Records(j)
    BY <2>1 DEF Records
  <2>3. \A j \in BuildJobs : index'[j].key = NoKey /\ index'[j].status = "none"
    BY <2>1 DEF Forgotten
  <2>4. \A j \in BuildJobs : Named(j)' \subseteq Named(j) \cup {NoKey} /\ PromisedPhase(j)' = "none"
    BY <2>2, <2>3 DEF Named, PromisedPhase, SeenPhase
  <2> QED BY <2>1, <2>4, StepForgets
<1>6. CASE LoadState
  BY <1>6, LoadStateRecalls
<1>7. ASSUME NEW i \in BuildJobs, BuildStep(i) PROVE Promise!ContractNext
  BY <1>7, BuildStepKept
<1> QED BY <1>1, <1>2, <1>3, <1>4, <1>5, <1>6, <1>7 DEF BuilderActs

LEMMA PromiseMade == BuildInit => Promise!ContractInit
<1> SUFFICES ASSUME BuildInit PROVE Promise!ContractInit
  OBVIOUS
<1>1. index = [i \in BuildJobs |-> Forgotten] /\ stored = Rows(index) /\ boot = stored /\ writes = <<>> /\ made = {}
  BY DEF BuildInit
<1>2. \A i \in BuildJobs : /\ index[i].status = "none" /\ index[i].key = NoKey
                           /\ Records(i) = {NoRow}
  BY <1>1, AllForgotten, NothingWritten
<1>3. \A i \in BuildJobs : Named(i) = {NoKey}
  BY <1>2 DEF Named, NoRow
<1>4. \A i \in BuildJobs : KeyOf(i) = NoKey
  BY <1>3 DEF KeyOf, Named
<1>5. \A i \in BuildJobs : SeenPhase(index[i].status) = "none"
  BY <1>2 DEF SeenPhase
<1> QED BY <1>1, <1>4, <1>5 DEF Promise!ContractInit

LEMMA PromiseKept ==
  BuildInv /\ BuildInv' /\ [BuildPlaneNext]_buildVars => [Promise!ContractNext]_Promise!contractVars
<1> SUFFICES ASSUME BuildInv, BuildInv', [BuildPlaneNext]_buildVars
             PROVE  [Promise!ContractNext]_Promise!contractVars
  OBVIOUS
<1>1. CASE UNCHANGED buildVars
  <2>1. UNCHANGED <<index, writes, stored, boot, made>>
    BY <1>1 DEF buildVars, diskVars
  <2>2. \A i \in BuildJobs : Named(i)' = Named(i)
    BY <2>1 DEF Named, Records
  <2>3. \A i \in BuildJobs : KeyOf(i)' = KeyOf(i) /\ SeenPhase(index[i].status)' = SeenPhase(index[i].status)
    BY <2>1, <2>2 DEF KeyOf, Named
  <2> QED BY <2>1, <2>3 DEF Promise!contractVars
<1>2. CASE \E i \in BuildJobs, key \in Keys : Accept(i, key)
  BY <1>2, AcceptAsks
<1>3. CASE BuilderActs
  BY <1>3, BuilderActsKept
<1> QED BY <1>1, <1>2, <1>3 DEF BuildPlaneNext

\* The build plane keeps the contract the runtime relies on: a job that is recalled
\* after a restart has failed, or did succeed, and no job is ever pending again.
THEOREM BuildPromiseKept == BuildPlaneSpec => KeepsBuildPromise
<1>1. BuildPlaneSpec => Promise!ContractSpec
  BY PromiseMade, PromiseKept, BuildInvAlways, PTL DEF BuildPlaneSpec, Promise!ContractSpec
<1> QED BY <1>1 DEF KeepsBuildPromise

=============================================================================
