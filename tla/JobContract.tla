----------------------------- MODULE JobContract -----------------------------
(***************************************************************************)
(* What a job queue promises its users, without leases, clocks or rows: a  *)
(* job waits, is carried out by at most one worker, and ends once.  A      *)
(* worker that dies leaves its job orphaned until the queue takes it back. *)
(* "spent" counts the transient failures charged to a live job.            *)
(***************************************************************************)
EXTENDS Naturals

CONSTANTS Jobs, Workers, MaxAttempts, Nobody

VARIABLES phase, holder, spent, said

contractVars == <<phase, holder, spent, said>>

Ended == {"succeeded", "failed"}

ContractInit ==
  /\ phase = [j \in Jobs |-> "absent"]
  /\ holder = [j \in Jobs |-> Nobody]
  /\ spent = [j \in Jobs |-> 0]
  /\ said = {}

Submit(j) ==
  /\ phase[j] = "absent"
  /\ phase' = [phase EXCEPT ![j] = "waiting"]
  /\ UNCHANGED <<holder, spent, said>>

Take(j, w) ==
  /\ phase[j] = "waiting"
  /\ \A k \in Jobs : holder[k] # w
  /\ phase' = [phase EXCEPT ![j] = "taken"]
  /\ holder' = [holder EXCEPT ![j] = w]
  /\ UNCHANGED <<spent, said>>

Held(j) == phase[j] = "taken" /\ holder[j] # Nobody

\* The holder's handler reports success.
Report(j) ==
  /\ Held(j)
  /\ said' = said \cup {j}
  /\ UNCHANGED <<phase, holder, spent>>

\* The holder ends the job, as a success only if one was reported.
End(j, outcome) ==
  /\ Held(j)
  /\ outcome = "succeeded" => j \in said
  /\ phase' = [phase EXCEPT ![j] = outcome]
  /\ holder' = [holder EXCEPT ![j] = Nobody]
  /\ spent' = [spent EXCEPT ![j] = 0]
  /\ UNCHANGED said

\* The holder puts the job back to be polled; its budget is untouched.
Poll(j) ==
  /\ Held(j)
  /\ phase' = [phase EXCEPT ![j] = "waiting"]
  /\ holder' = [holder EXCEPT ![j] = Nobody]
  /\ UNCHANGED <<spent, said>>

\* A transient failure is charged; the job waits again while budget is left.
LastTry(j) == spent[j] + 1 >= MaxAttempts

Charge(S) ==
  /\ phase' = [j \in Jobs |-> IF j \notin S THEN phase[j]
                              ELSE IF LastTry(j) THEN "failed" ELSE "waiting"]
  /\ spent' = [j \in Jobs |-> IF j \notin S THEN spent[j]
                              ELSE IF LastTry(j) THEN 0 ELSE spent[j] + 1]
  /\ holder' = [j \in Jobs |-> IF j \in S THEN Nobody ELSE holder[j]]
  /\ UNCHANGED said

Retry(j) == Held(j) /\ Charge({j})

Die(j) ==
  /\ Held(j)
  /\ holder' = [holder EXCEPT ![j] = Nobody]
  /\ UNCHANGED <<phase, spent, said>>

Orphans == {j \in Jobs : phase[j] = "taken" /\ holder[j] = Nobody}

\* Jobs nobody holds any more are taken back together.
TakeBack == \E S \in SUBSET Orphans : S # {} /\ Charge(S)

ContractNext ==
  \/ \E j \in Jobs : \/ Submit(j)
                     \/ \E w \in Workers : Take(j, w)
                     \/ Report(j)
                     \/ \E outcome \in Ended : End(j, outcome)
                     \/ Poll(j)
                     \/ Retry(j)
                     \/ Die(j)
  \/ TakeBack

Contract == ContractInit /\ [][ContractNext]_contractVars
=============================================================================
