--------------------------- MODULE WorkerContract ---------------------------
(***************************************************************************)
(* The leased queue and its workers implement JobContract as long as no    *)
(* lease lapses on a worker that is still alive (TimelySpec), and with a   *)
(* single worker process even then (Spec).                                 *)
(***************************************************************************)
EXTENDS Worker

CONSTANT Nobody

ASSUME NobodyAssumption == Nobody \notin Workers

\* The worker carrying j out, if one is.
HolderOf(j) ==
  IF \E w \in Workers : Busy(w) /\ wk[w].job = j
  THEN CHOOSE w \in Workers : Busy(w) /\ wk[w].job = j
  ELSE Nobody

PhaseOf(j) ==
  CASE job[j].state = "queued"  -> "waiting"
    [] job[j].state = "running" -> "taken"
    [] OTHER                    -> job[j].state

\* A running row has already been charged the attempt its claim spent.
SpentOf(j) ==
  CASE job[j].state = "queued"  -> job[j].attempts
    [] job[j].state = "running" -> job[j].attempts - 1
    [] OTHER                    -> 0

Promise == INSTANCE JobContract WITH
  phase  <- [j \in Jobs |-> PhaseOf(j)],
  holder <- [j \in Jobs |-> HolderOf(j)],
  spent  <- [j \in Jobs |-> SpentOf(j)]

\* Every step of queue, workers and clock is a step the contract allows or one
\* it does not see: exclusive holding, success only as reported, polling that
\* costs no budget, failures that cost one attempt each, final outcomes.
KeepsPromise == Promise!Contract
=============================================================================
