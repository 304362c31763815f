------------------------------ MODULE JobTable ------------------------------
(***************************************************************************)
(* The rows of the jobs table (db/migrations/00009_jobs.sql) and what each *)
(* statement of db/queries/jobs.sql does to one row.  Every component that *)
(* schedules background work shares these definitions.                     *)
(*                                                                         *)
(* Times are relative to the database's now(), so that the state space     *)
(* stays finite without bounding how long the system runs:                 *)
(*   age   ticks since the row was last updated (updated_at; for a running *)
(*         row this is also locked_at, both are written by the claim),     *)
(*         saturating at AgeCap;                                           *)
(*   due   ticks until run_after, negative once it has passed, saturating  *)
(*         at -Overdue.                                                    *)
(* Columns no statement reads back (locked_by, last_error, payload) are    *)
(* left out; max_attempts is 5 on every row, whoever enqueues it.          *)
(***************************************************************************)
EXTENDS Integers

CONSTANTS
    MaxAttempts,  \* jobs.max_attempts
    AgeCap,       \* where age saturates
    Overdue,      \* where -due saturates
    MaxBackoff    \* the longest retry delay, in ticks

ASSUME JobTableAssumption ==
    /\ MaxAttempts \in Nat \ {0}
    /\ AgeCap \in Nat /\ Overdue \in Nat /\ MaxBackoff \in Nat

\* The states that no statement is meant to leave, except by deleting the row.
Final == {"done", "failed", "dead"}

\* job_state, plus "absent" (not inserted yet) and "gone" (deleted).
JobState == {"absent", "queued", "running", "gone"} \cup Final

Row == [state    : JobState,
        attempts : 0..MaxAttempts,
        age      : 0..AgeCap,
        due      : (-Overdue)..MaxBackoff]

Vacant(s) == [state |-> s, attempts |-> 0, age |-> 0, due |-> 0]

\* EnqueueJob: run_after defaults to now(), and no caller passes another.
Enqueued == [state |-> "queued", attempts |-> 0, age |-> 0, due |-> 0]

Runnable(r) == r.state = "queued" /\ r.due <= 0

\* Every update writes the state and updated_at; d is the new run_after.
Updated(s, n, d) == [state |-> s, attempts |-> n, age |-> 0, due |-> d]

\* ClaimJob, on the row its sub-select found.
Claimed(r) == Updated("running", r.attempts + 1, r.due)

Exists(r) == r.state \notin {"absent", "gone"}

\* CompleteJob and FailJob: WHERE id = $1, whatever the row's state; an UPDATE
\* that finds no row is not an error.
Completed(r) == IF Exists(r) THEN Updated("done", r.attempts, r.due) ELSE r
Failed(r)    == IF Exists(r) THEN Updated("failed", r.attempts, r.due) ELSE r

AfterAttempt(r) == IF r.attempts >= MaxAttempts THEN "dead" ELSE "queued"

\* Mutant of Retried: a rescheduled job starts counting afresh.
RetriedAfresh(r, d) ==
    IF Exists(r) THEN Updated(AfterAttempt(r), 0, d) ELSE r

\* RetryJob with a backoff of d ticks; it too is only WHERE id = $1.
Retried(r, d) ==
    IF Exists(r) THEN Updated(AfterAttempt(r), r.attempts, d) ELSE r

\* Mutant of Reaped: the reaper always returns the job to the queue.
ReapedToQueue(r) == Updated("queued", r.attempts, r.due)

\* ReapStuckJobs on one row; run_after keeps its (past) value.
Reaped(r) == Updated(AfterAttempt(r), r.attempts, r.due)

\* One tick of the clock, seen from one row.
Aged(r) == [state |-> r.state, attempts |-> r.attempts,
            age |-> IF r.age < AgeCap THEN r.age + 1 ELSE r.age,
            due |-> IF r.due > -Overdue THEN r.due - 1 ELSE r.due]
=============================================================================
