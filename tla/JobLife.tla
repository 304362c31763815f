------------------------------ MODULE JobLife ------------------------------
(***************************************************************************)
(* What the job queue promises about each job, whatever workers, leases    *)
(* and crashes lie underneath: a job is held by a run at most MaxAttempts  *)
(* times; a run ends by settling the job or by giving it back; a job given *)
(* back on its last attempt is dead; and a settled job stays settled until *)
(* retention forgets it.  A job nobody holds yet may also be withdrawn (a  *)
(* reindex run discards the queued reindex jobs it covers).  Jobs are      *)
(* independent, so one step may move several of them (ReapStuckJobs and    *)
(* DeleteFinishedJobs do).                                                 *)
(***************************************************************************)
EXTENDS Integers

CONSTANTS Jobs, MaxAttempts

VARIABLES phase, runs

lifeVars == <<phase, runs>>

Settled == {"done", "failed", "dead"}

Init == /\ phase = [j \in Jobs |-> "absent"]
        /\ runs  = [j \in Jobs |-> 0]

Submit(j)   == phase[j] = "absent" /\ phase'[j] = "queued" /\ runs'[j] = 0
Hand(j)     == /\ phase[j] = "queued" /\ runs[j] < MaxAttempts
               /\ phase'[j] = "running" /\ runs'[j] = runs[j] + 1
Settle(j)   == /\ phase[j] = "running" /\ phase'[j] \in {"done", "failed"}
               /\ runs'[j] = runs[j]
GiveBack(j) == /\ phase[j] = "running" /\ runs'[j] = runs[j]
               /\ phase'[j] = IF runs[j] < MaxAttempts THEN "queued" ELSE "dead"
Withdraw(j) == phase[j] = "queued" /\ phase'[j] = "gone" /\ runs'[j] = 0
Forget(j)   == phase[j] \in Settled /\ phase'[j] = "gone" /\ runs'[j] = 0
Keep(j)     == phase'[j] = phase[j] /\ runs'[j] = runs[j]

Next == /\ phase' \in [Jobs -> {"absent", "queued", "running", "gone"} \cup Settled]
        /\ runs'  \in [Jobs -> 0..MaxAttempts]
        /\ \A j \in Jobs : \/ Submit(j) \/ Hand(j) \/ Settle(j)
                           \/ GiveBack(j) \/ Withdraw(j) \/ Forget(j)
                           \/ Keep(j)

Spec == Init /\ [][Next]_lifeVars
=============================================================================
