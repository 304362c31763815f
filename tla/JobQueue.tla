------------------------------ MODULE JobQueue ------------------------------
(***************************************************************************)
(* The job runner (internal/jobs/runner.go) over the jobs table: processes *)
(* (the API server and the standalone worker) that each run some worker    *)
(* goroutines and one maintenance loop, all against one table.             *)
(*                                                                         *)
(* One SQL statement is one step.  Between two statements anything may     *)
(* happen: other workers, the clock, a shutdown, a crash, a statement      *)
(* whose reply is lost.  Time is a tick all rows and all workers see.      *)
(***************************************************************************)
EXTENDS JobTable

CONSTANTS
    Jobs,            \* job ids, each enqueued at most once
    Reindex,         \* those of the one kind whose handler discards siblings
    Procs,           \* operating-system processes that run a jobs.Runner
    Workers,         \* worker goroutines of all of them
    ProcOf,          \* the process of each worker
    NoJob,           \* what an idle worker holds
    Timeout,         \* jobTimeout
    Slack,           \* how long recording the result of a run may take
    Lease,           \* the lease of ReapStuckJobs
    RetainDone,      \* the two retention periods of DeleteFinishedJobs
    RetainFailed,
    MaxStops,        \* bound: shutdowns and crashes in one behaviour
    HonourDeadline   \* TRUE: every handler returns by the end of its timeout

ASSUME JobQueueAssumption ==
    /\ Reindex \subseteq Jobs
    /\ ProcOf \in [Workers -> Procs]
    /\ NoJob \notin Jobs
    /\ Timeout \in Nat /\ Slack \in Nat /\ Lease \in Nat
    /\ Timeout + Slack <= Lease
    /\ RetainDone \in Nat /\ RetainFailed \in Nat
    /\ Lease < AgeCap /\ RetainDone < AgeCap /\ RetainFailed < AgeCap
    /\ MaxStops \in Nat
    /\ HonourDeadline \in BOOLEAN

VARIABLES
    job,     \* the jobs table
    proc,    \* Run's progress in each process
    pc,      \* where each worker is in work / ProcessNext
    held,    \* the job the worker claimed
    out,     \* what its handler returned
    ran,     \* ticks since it claimed the job
    stops,   \* how many processes have been stopped or have crashed
    ok,      \* history: some handler run of the job returned nil
    lost     \* history: the result of some run of the job was not recorded

wvars == <<pc, held, out, ran>>
vars == <<job, proc, wvars, stops, ok, lost>>

Outcomes == {"ok", "retry", "permanent"}

Init ==
    /\ job    = [j \in Jobs |-> Vacant("absent")]
    /\ proc   = [p \in Procs |-> "up"]
    /\ pc     = [w \in Workers |-> "head"]
    /\ held   = [w \in Workers |-> NoJob]
    /\ out    = [w \in Workers |-> "ok"]
    /\ ran    = [w \in Workers |-> 0]
    /\ stops  = 0
    /\ ok     = [j \in Jobs |-> FALSE]
    /\ lost   = [j \in Jobs |-> FALSE]

-----------------------------------------------------------------------------
\* A request handler's transaction, or a trigger, adds a job.
Enqueue(j) ==
    /\ job[j].state = "absent"
    /\ job' = [job EXCEPT ![j] = Enqueued]
    /\ UNCHANGED <<proc, wvars, stops, ok, lost>>

\* Mutant of LoopHead: the loop does not look at ctx.
LoopHeadIgnoresShutdown(w) ==
    /\ pc[w] = "head" /\ proc[ProcOf[w]] # "down"
    /\ pc' = [pc EXCEPT ![w] = "claim"]
    /\ UNCHANGED <<job, proc, held, out, ran, stops, ok, lost>>

\* work: the test at the top of the loop.  A shutdown signal may still arrive
\* between this test and the claim.
LoopHead(w) ==
    /\ pc[w] = "head" /\ proc[ProcOf[w]] = "up"
    /\ pc' = [pc EXCEPT ![w] = "claim"]
    /\ UNCHANGED <<job, proc, held, out, ran, stops, ok, lost>>

\* The row ClaimJob's sub-select may return: a runnable one, oldest run_after.
Oldest(j) ==
    /\ Runnable(job[j])
    /\ \A k \in Jobs : Runnable(job[k]) => job[j].due <= job[k].due

\* ClaimJob commits and the worker starts the job.
Claim(w, j) ==
    /\ pc[w] = "claim" /\ proc[ProcOf[w]] # "cancelled"
    /\ Oldest(j)
    /\ job'  = [job EXCEPT ![j] = Claimed(@)]
    /\ pc'   = [pc EXCEPT ![w] = "run"]
    /\ held' = [held EXCEPT ![w] = j]
    /\ ran'  = [ran EXCEPT ![w] = 0]
    /\ UNCHANGED <<proc, out, stops, ok, lost>>

\* ClaimJob commits but its reply is lost: the row is running, for nobody.
ClaimReplyLost(w, j) ==
    /\ pc[w] = "claim" /\ proc[ProcOf[w]] # "cancelled"
    /\ Oldest(j)
    /\ job' = [job EXCEPT ![j] = Claimed(@)]
    /\ pc'  = [pc EXCEPT ![w] = "head"]
    /\ lost' = [lost EXCEPT ![j] = TRUE]
    /\ UNCHANGED <<proc, held, out, ran, stops, ok>>

\* ClaimJob finds nothing, or fails; the worker sleeps and polls again.
ClaimNothing(w) ==
    /\ pc[w] = "claim"
    /\ pc' = [pc EXCEPT ![w] = "head"]
    /\ UNCHANGED <<job, proc, held, out, ran, stops, ok, lost>>

\* ReindexSearch drops the queued reindex jobs before it rebuilds.
DiscardSiblings(w) ==
    /\ pc[w] = "run" /\ held[w] \in Reindex
    /\ job' = [j \in Jobs |->
                 IF j \in Reindex /\ job[j].state = "queued"
                 THEN Vacant("gone") ELSE job[j]]
    /\ UNCHANGED <<proc, wvars, stops, ok, lost>>

\* The handler returns: nil, an error to retry (a panic, the timeout and a
\* cancelled context included), or one wrapped with Permanent.
HandlerReturns(w, o) ==
    /\ pc[w] = "run"
    /\ pc'  = [pc EXCEPT ![w] = "record"]
    /\ out' = [out EXCEPT ![w] = o]
    /\ ok'  = IF o = "ok" THEN [ok EXCEPT ![held[w]] = TRUE] ELSE ok
    /\ UNCHANGED <<job, proc, held, ran, stops, lost>>

\* The worker forgets the job it was running.
Release(w) ==
    /\ pc'   = [pc EXCEPT ![w] = "head"]
    /\ held' = [held EXCEPT ![w] = NoJob]
    /\ out'  = [out EXCEPT ![w] = "ok"]
    /\ ran'  = [ran EXCEPT ![w] = 0]

\* Mutant of Record: ProcessNext's switch tests for a permanent error too late.
RecordRetriesFirst(w, d) ==
    /\ pc[w] = "record" /\ proc[ProcOf[w]] # "cancelled"
    /\ job' = [job EXCEPT ![held[w]] =
                 IF out[w] = "permanent" THEN Failed(@) ELSE Retried(@, d)]
    /\ Release(w)
    /\ UNCHANGED <<proc, stops, ok, lost>>

\* CompleteJob, FailJob or RetryJob (with a jittered backoff of d ticks).
Record(w, d) ==
    /\ pc[w] = "record" /\ proc[ProcOf[w]] # "cancelled"
    /\ job' = [job EXCEPT ![held[w]] =
                 CASE out[w] = "ok"        -> Completed(@)
                   [] out[w] = "permanent" -> Failed(@)
                   [] out[w] = "retry"     -> Retried(@, d)]
    /\ Release(w)
    /\ UNCHANGED <<proc, stops, ok, lost>>

\* The same statement fails (always so on a cancelled context): the worker
\* moves on and the row stays as it is, for the reaper.
RecordFails(w) ==
    /\ pc[w] = "record"
    /\ lost' = [lost EXCEPT ![held[w]] = TRUE]
    /\ Release(w)
    /\ UNCHANGED <<job, proc, stops, ok>>

-----------------------------------------------------------------------------
\* Run: a shutdown signal stops new claims and the maintenance loop.
Shutdown(p) ==
    /\ proc[p] = "up" /\ stops < MaxStops
    /\ proc' = [proc EXCEPT ![p] = "draining"]
    /\ stops' = stops + 1
    /\ UNCHANGED <<job, wvars, ok, lost>>

Busy(p) == {w \in Workers : ProcOf[w] = p /\ pc[w] # "head"}

\* shutdownGrace has passed and some worker is still busy: cancelJobs.
GraceEnds(p) ==
    /\ proc[p] = "draining" /\ Busy(p) # {}
    /\ proc' = [proc EXCEPT ![p] = "cancelled"]
    /\ UNCHANGED <<job, wvars, stops, ok, lost>>

\* Run returns once every worker has left its loop.
Stopped(p) ==
    /\ proc[p] \in {"draining", "cancelled"} /\ Busy(p) = {}
    /\ proc' = [proc EXCEPT ![p] = "down"]
    /\ UNCHANGED <<job, wvars, stops, ok, lost>>

\* The process dies; its workers forget everything, the table does not.
Crash(p) ==
    /\ proc[p] # "down" /\ stops < MaxStops
    /\ proc' = [proc EXCEPT ![p] = "down"]
    /\ stops' = stops + 1
    /\ LET mine == {w \in Workers : ProcOf[w] = p} IN
       /\ pc'   = [w \in Workers |-> IF w \in mine THEN "head" ELSE pc[w]]
       /\ held' = [w \in Workers |-> IF w \in mine THEN NoJob ELSE held[w]]
       /\ out'  = [w \in Workers |-> IF w \in mine THEN "ok" ELSE out[w]]
       /\ ran'  = [w \in Workers |-> IF w \in mine THEN 0 ELSE ran[w]]
       /\ lost' = [j \in Jobs |->
                     lost[j] \/ \E w \in mine : pc[w] \in {"run", "record"}
                                                /\ held[w] = j]
    /\ UNCHANGED <<job, ok>>

\* The supervisor starts it again.
Start(p) ==
    /\ proc[p] = "down"
    /\ proc' = [proc EXCEPT ![p] = "up"]
    /\ UNCHANGED <<job, wvars, stops, ok, lost>>

-----------------------------------------------------------------------------
\* Mutants of Stuck: a lease shorter than the job timeout; a reaper that leaves
\* alone the jobs that have no attempt left.
StuckEarly(r) == r.state = "running" /\ r.age >= Timeout
StuckRetriable(r) ==
    r.state = "running" /\ r.age > Lease /\ r.attempts < MaxAttempts

Stuck(r) == r.state = "running" /\ r.age > Lease

\* maintain / reap: at startup and on every tick of its timer.
Reap(p) ==
    /\ proc[p] = "up"
    /\ \E j \in Jobs : Stuck(job[j])
    /\ job' = [j \in Jobs |-> IF Stuck(job[j]) THEN Reaped(job[j]) ELSE job[j]]
    /\ UNCHANGED <<proc, wvars, stops, ok, lost>>

Expired(r) == \/ r.state = "done" /\ r.age > RetainDone
              \/ r.state \in {"failed", "dead"} /\ r.age > RetainFailed

\* maintain / sweep: DeleteFinishedJobs.
Sweep(p) ==
    /\ proc[p] = "up"
    /\ \E j \in Jobs : Expired(job[j])
    /\ job' = [j \in Jobs |-> IF Expired(job[j]) THEN Vacant("gone") ELSE job[j]]
    /\ UNCHANGED <<proc, wvars, stops, ok, lost>>

\* A handler that honours its context has returned by Timeout, and its result
\* is recorded, or the statement has failed, within Slack of that.
InTime(w) == /\ pc[w] = "run" => ran[w] < Timeout
             /\ pc[w] = "record" => ran[w] < Timeout + Slack

Tick ==
    /\ HonourDeadline => \A w \in Workers : InTime(w)
    /\ job' = [j \in Jobs |-> IF Exists(job[j]) THEN Aged(job[j]) ELSE job[j]]
    /\ ran' = [w \in Workers |->
                 IF pc[w] \in {"run", "record"} /\ ran[w] < Timeout + Slack
                 THEN ran[w] + 1 ELSE ran[w]]
    /\ UNCHANGED <<proc, pc, held, out, stops, ok, lost>>

-----------------------------------------------------------------------------
WorkerStep(w) ==
    \/ LoopHead(w)
    \/ \E j \in Jobs : Claim(w, j) \/ ClaimReplyLost(w, j)
    \/ ClaimNothing(w)
    \/ DiscardSiblings(w)
    \/ \E o \in Outcomes : HandlerReturns(w, o)
    \/ \E d \in 0..MaxBackoff : Record(w, d)
    \/ RecordFails(w)

ProcStep(p) ==
    \/ Shutdown(p) \/ GraceEnds(p) \/ Stopped(p) \/ Crash(p) \/ Start(p)
    \/ Reap(p) \/ Sweep(p)

Next ==
    \/ \E j \in Jobs : Enqueue(j)
    \/ \E w \in Workers : WorkerStep(w)
    \/ \E p \in Procs : ProcStep(p)
    \/ Tick

Spec == Init /\ [][Next]_vars

\* Goroutines keep running, handlers return by their deadline, the clock and
\* the timers advance, the supervisor restarts a stopped process.  A claim is
\* only strongly fair: it is disabled while its worker sleeps between polls,
\* but the database does not fail every claim the worker ever makes.
Fairness ==
    /\ WF_vars(Tick)
    /\ \A w \in Workers :
         /\ WF_vars(LoopHead(w)) /\ WF_vars(ClaimNothing(w))
         /\ SF_vars(\E j \in Jobs : Claim(w, j))
         /\ WF_vars(\E o \in Outcomes : HandlerReturns(w, o))
         /\ WF_vars(RecordFails(w) \/ \E d \in 0..MaxBackoff : Record(w, d))
    /\ \A p \in Procs :
         WF_vars(Stopped(p)) /\ WF_vars(Start(p)) /\ WF_vars(Reap(p))

FairSpec == Spec /\ Fairness

-----------------------------------------------------------------------------
TypeOK ==
    /\ job  \in [Jobs -> Row]
    /\ proc \in [Procs -> {"up", "draining", "cancelled", "down"}]
    /\ pc   \in [Workers -> {"head", "claim", "run", "record"}]
    /\ held \in [Workers -> Jobs \cup {NoJob}]
    /\ out  \in [Workers -> Outcomes]
    /\ ran  \in [Workers -> 0..(Timeout + Slack)]
    /\ stops \in 0..MaxStops
    /\ ok \in [Jobs -> BOOLEAN]
    /\ lost \in [Jobs -> BOOLEAN]

\* The worker has claimed a job and has not let go of it.
Holds(w, j) == pc[w] \in {"run", "record"} /\ held[w] = j

(* "A job that kills its worker cannot loop forever" (jobs.sql, ReapStuckJobs,
   and the at-claim increment of ClaimJob): a job that waits to run again has
   an attempt left, and only a job that has used all of them is dead.  This
   needs no assumption about handlers or leases. *)
AttemptsBounded ==
    \A j \in Jobs :
      /\ job[j].state = "queued"  => job[j].attempts < MaxAttempts
      /\ job[j].state \in {"running", "done", "failed"} => job[j].attempts > 0
      /\ job[j].state = "dead" => job[j].attempts = MaxAttempts

(* A job is never run by two workers at once, and the row of a job that is
   being run is 'running', within its lease: ReapStuckJobs takes only from
   workers that are gone ("any number of workers ... share the queue safely",
   runner.go; "the job timeout must stay below the 10-minute lease"). *)
LeaseHeld ==
    \A w \in Workers, j \in Jobs :
      Holds(w, j) =>
        /\ job[j].state = "running" /\ ~ Stuck(job[j])
        /\ \A v \in Workers : Holds(v, j) => v = w

(* A run whose handler returned nil ends with the job recorded as done, unless
   the record of some run of this job was lost (its worker died, was cancelled
   at shutdown, or could not reach the database): the only reason to run the
   handler again after a success, or to dead-letter a job that succeeded. *)
SuccessAccounted ==
    \A j \in Jobs :
      ok[j] => \/ lost[j]
               \/ job[j].state \in {"done", "gone"}
               \/ \E w \in Workers : Holds(w, j) /\ pc[w] = "record" /\ out[w] = "ok"

(* A job that is done is never run again and never becomes anything but
   deleted: "any number of workers ... share the queue safely" (runner.go:6). *)
DoneStaysDone ==
    [][\A j \in Jobs : job[j].state = "done" => job'[j].state \in {"done", "gone"}]_vars

(* The runner, its leases, crashes and lost replies keep JobLife's promise. *)
Life == INSTANCE JobLife WITH
          phase <- [j \in Jobs |-> job[j].state],
          runs  <- [j \in Jobs |-> job[j].attempts]
KeepsJobLife == Life!Spec

(* Every job that was enqueued, or claimed by a worker that then vanished, is
   eventually settled (or withdrawn by a reindex run). *)
EveryJobSettles ==
    \A j \in Jobs :
      job[j].state \in {"queued", "running"} ~> job[j].state \in Final \cup {"gone"}

(* "Run returns once every worker has stopped": a shutdown always completes,
   whatever the workers were doing when the signal came. *)
ShutdownCompletes ==
    \A p \in Procs : proc[p] \in {"draining", "cancelled"} ~> proc[p] = "down"
=============================================================================
