---------------------------- MODULE BuildContract ----------------------------
(***************************************************************************)
(* What the build plane promises a caller that asked for a build and polls *)
(* it: no slots, queues or disks.                                          *)
(*                                                                         *)
(* A job is asked for under a key, is pending, and ends.  The builder may  *)
(* forget it (it aged out, or the process restarted) and may recall it,    *)
(* but never as pending, and as succeeded only if it did succeed.          *)
(***************************************************************************)
CONSTANTS BuildJobs, Keys, NoKey

VARIABLES
  of,       \* of[i] is the key job i was asked for under
  phase,    \* phase[i] is what a poll of i is answered with; "none" is a 404
  did       \* the jobs whose build succeeded

contractVars == <<of, phase, did>>

BuildPhases == {"none", "pending", "succeeded", "failed"}

ContractInit ==
  /\ of = [i \in BuildJobs |-> NoKey]
  /\ phase = [i \in BuildJobs |-> "none"]
  /\ did = {}

\* The jobs a repeat of key k may be answered with.
Remembered(k) == {i \in BuildJobs : phase[i] # "none" /\ of[i] = k}

\* A new job.  The builder may start one although it remembers another.
Ask(i, k) ==
  /\ of[i] = NoKey
  /\ of' = [of EXCEPT ![i] = k]
  /\ phase' = [phase EXCEPT ![i] = "pending"]
  /\ did' = did \ {i}   \* in small instances numbers are used again

End(i, outcome) ==
  /\ phase[i] = "pending"
  /\ phase' = [phase EXCEPT ![i] = outcome]
  /\ did' = IF outcome = "succeeded" THEN did \cup {i} ELSE did
  /\ UNCHANGED of

\* Jobs in gone are forgotten for good, those in hidden until they are recalled.
Forget(gone, hidden) ==
  /\ of' = [i \in BuildJobs |-> IF i \in gone THEN NoKey ELSE of[i]]
  /\ phase' = [i \in BuildJobs |-> IF i \in gone \cup hidden THEN "none" ELSE phase[i]]
  /\ UNCHANGED did

RecalledAs(i) == {"failed"} \cup {p \in {"succeeded"} : i \in did}

Recall ==
  /\ phase' \in [BuildJobs -> BuildPhases]
  /\ \A i \in BuildJobs :
       phase'[i] # phase[i] => of[i] # NoKey /\ phase'[i] \in RecalledAs(i)
  /\ UNCHANGED <<of, did>>

ContractNext ==
  \/ \E i \in BuildJobs, k \in Keys : Ask(i, k)
  \/ \E i \in BuildJobs, outcome \in {"succeeded", "failed"} : End(i, outcome)
  \/ \E gone, hidden \in SUBSET BuildJobs : Forget(gone, hidden)
  \/ Recall

ContractSpec == ContractInit /\ [][ContractNext]_contractVars
=============================================================================
