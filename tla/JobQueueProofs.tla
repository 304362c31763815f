--------------------------- MODULE JobQueueProofs ---------------------------
(***************************************************************************)
(* Proofs about JobQueue, for any number of jobs, processes and workers,   *)
(* any MaxAttempts and any timing constants that satisfy the assumptions.  *)
(***************************************************************************)
EXTENDS JobQueue, TLAPS

\* A row whose attempts agree with its state: AttemptsBounded, seen by one row.
Counted(r) ==
  /\ r.state = "queued"  => r.attempts < MaxAttempts
  /\ r.state \in {"running", "done", "failed"} => r.attempts > 0
  /\ r.state = "dead" => r.attempts = MaxAttempts

GoodRow == {r \in Row : Counted(r)}

\* The row of a job that a worker still holds has been claimed at least once,
\* also when the worker's lease is long gone.
HeldWasClaimed ==
  \A w \in Workers : pc[w] \in {"run", "record"} =>
    /\ held[w] \in Jobs
    /\ job[held[w]].state # "absent"
    /\ Exists(job[held[w]]) => job[held[w]].attempts > 0

WorkersTyped ==
  /\ pc   \in [Workers -> {"head", "claim", "run", "record"}]
  /\ held \in [Workers -> Jobs \cup {NoJob}]
  /\ out  \in [Workers -> Outcomes]
  /\ ran  \in [Workers -> 0..(Timeout + Slack)]

RestTyped ==
  /\ proc \in [Procs -> {"up", "draining", "cancelled", "down"}]
  /\ stops \in 0..MaxStops
  /\ ok \in [Jobs -> BOOLEAN]
  /\ lost \in [Jobs -> BOOLEAN]

RowsGood == job \in [Jobs -> GoodRow]

\* The inductive invariant behind TypeOK and AttemptsBounded.
TypeInv == RowsGood /\ WorkersTyped /\ RestTyped /\ HeldWasClaimed

-----------------------------------------------------------------------------
\* Good rows stay good under every statement, used where its guard allows it.
LEMMA RowOps ==
  ASSUME NEW r \in GoodRow
  PROVE  /\ Runnable(r) => Claimed(r) \in GoodRow
         /\ Exists(r) => Aged(r) \in GoodRow
         /\ r.state = "running" => Reaped(r) \in GoodRow
         /\ r.attempts > 0 \/ ~ Exists(r) =>
              /\ Completed(r) \in GoodRow /\ Failed(r) \in GoodRow
              /\ \A d \in 0..MaxBackoff : Retried(r, d) \in GoodRow
<1> USE JobTableAssumption DEF GoodRow, Counted, Row, JobState, Final, Updated
<1>1. Runnable(r) => Claimed(r) \in GoodRow
  BY DEF Runnable, Claimed
<1>2. Exists(r) => Aged(r) \in GoodRow
  BY DEF Aged
<1>3. r.state = "running" => Reaped(r) \in GoodRow
  BY DEF Reaped, AfterAttempt
<1>4. ASSUME r.attempts > 0 \/ ~ Exists(r)
      PROVE  Completed(r) \in GoodRow /\ Failed(r) \in GoodRow
  BY <1>4 DEF Completed, Failed, Exists
<1>5. ASSUME r.attempts > 0 \/ ~ Exists(r), NEW d \in 0..MaxBackoff
      PROVE  Retried(r, d) \in GoodRow
  BY <1>5 DEF Retried, AfterAttempt, Exists
<1> QED
  BY <1>1, <1>2, <1>3, <1>4, <1>5

LEMMA NewRows ==
  /\ Vacant("absent") \in GoodRow /\ Vacant("gone") \in GoodRow
  /\ Enqueued \in GoodRow
BY JobTableAssumption
   DEF GoodRow, Counted, Row, JobState, Final, Vacant, Enqueued

\* What a step may do to the row of a job that has been enqueued.
Moves(r, s) ==
  /\ r.state # "absent" => s.state # "absent"
  /\ ~ Exists(r) /\ r.state # "absent" => ~ Exists(s)
  /\ Exists(r) /\ Exists(s) => s.attempts >= r.attempts

LEMMA RowMoves ==
  ASSUME NEW r \in GoodRow
  PROVE  /\ Moves(r, r)
         /\ Moves(r, Vacant("gone"))
         /\ Runnable(r) => Moves(r, Claimed(r))
         /\ Exists(r) => Moves(r, Aged(r))
         /\ r.state = "running" => Moves(r, Reaped(r))
         /\ Moves(r, Completed(r)) /\ Moves(r, Failed(r))
         /\ \A d \in 0..MaxBackoff : Moves(r, Retried(r, d))
         /\ r.state = "absent" => Moves(r, Enqueued)
<1> USE JobTableAssumption
    DEF GoodRow, Counted, Row, JobState, Final, Updated, Moves, Exists
<1>1. Moves(r, r) /\ Moves(r, Vacant("gone")) /\ (Exists(r) => Moves(r, Aged(r)))
  BY DEF Vacant, Aged
<1>2. Runnable(r) => Moves(r, Claimed(r))
  BY DEF Runnable, Claimed
<1>3. r.state = "running" => Moves(r, Reaped(r))
  BY DEF Reaped, AfterAttempt
<1>4. Moves(r, Completed(r)) /\ Moves(r, Failed(r))
  BY DEF Completed, Failed
<1>5. \A d \in 0..MaxBackoff : Moves(r, Retried(r, d))
  BY DEF Retried, AfterAttempt
<1>6. r.state = "absent" => Moves(r, Enqueued)
  BY DEF Enqueued
<1> QED
  BY <1>1, <1>2, <1>3, <1>4, <1>5, <1>6

-----------------------------------------------------------------------------
\* Every step of the system moves every row in one of the ways above.
LEMMA RowsStep ==
  ASSUME TypeInv, [Next]_vars
  PROVE  RowsGood' /\ \A j \in Jobs : Moves(job[j], job'[j])
<1> USE DEF RowsGood
<1>0. TypeInv
  OBVIOUS
<1>1. \A j \in Jobs : job[j] \in GoodRow
  BY <1>0 DEF TypeInv
<1>2. \A j \in Jobs : Moves(job[j], job[j])
  BY <1>1, RowMoves
<1>3. ASSUME UNCHANGED job
      PROVE  RowsGood' /\ \A j \in Jobs : Moves(job[j], job'[j])
  BY <1>0, <1>2, <1>3 DEF TypeInv
<1>4. ASSUME NEW j \in Jobs, Enqueue(j)
      PROVE  RowsGood' /\ \A k \in Jobs : Moves(job[k], job'[k])
  BY <1>0, <1>1, <1>2, <1>4, NewRows, RowMoves DEF Enqueue, TypeInv
<1>5. ASSUME NEW w \in Workers, NEW j \in Jobs,
             Claim(w, j) \/ ClaimReplyLost(w, j)
      PROVE  RowsGood' /\ \A k \in Jobs : Moves(job[k], job'[k])
  BY <1>0, <1>1, <1>2, <1>5, RowOps, RowMoves
     DEF Claim, ClaimReplyLost, Oldest, TypeInv
<1>6. ASSUME NEW w \in Workers, DiscardSiblings(w)
      PROVE  RowsGood' /\ \A k \in Jobs : Moves(job[k], job'[k])
  BY <1>1, <1>6, NewRows, RowMoves DEF DiscardSiblings
<1>7. ASSUME NEW w \in Workers, NEW d \in 0..MaxBackoff, Record(w, d)
      PROVE  RowsGood' /\ \A k \in Jobs : Moves(job[k], job'[k])
  <2>1. /\ held[w] \in Jobs
        /\ job[held[w]].attempts > 0 \/ ~ Exists(job[held[w]])
        /\ out[w] \in Outcomes
    BY <1>0, <1>7 DEF Record, TypeInv, HeldWasClaimed, WorkersTyped
  <2> DEFINE s == CASE out[w] = "ok"        -> Completed(job[held[w]])
                    [] out[w] = "permanent" -> Failed(job[held[w]])
                    [] out[w] = "retry"     -> Retried(job[held[w]], d)
  <2>2. s \in GoodRow /\ Moves(job[held[w]], s)
    BY <1>1, <2>1, RowOps, RowMoves DEF Outcomes
  <2>3. job' = [job EXCEPT ![held[w]] = s]
    BY <1>7 DEF Record
  <2> HIDE DEF s
  <2> QED
    BY <1>0, <1>2, <2>1, <2>2, <2>3 DEF TypeInv
<1>8. ASSUME NEW p \in Procs, Reap(p) \/ Sweep(p)
      PROVE  RowsGood' /\ \A k \in Jobs : Moves(job[k], job'[k])
  BY <1>1, <1>2, <1>8, RowOps, RowMoves, NewRows DEF Reap, Sweep, Stuck
<1>9. ASSUME Tick
      PROVE  RowsGood' /\ \A k \in Jobs : Moves(job[k], job'[k])
  BY <1>1, <1>2, <1>9, RowOps, RowMoves DEF Tick
<1> QED
  BY <1>3, <1>4, <1>5, <1>6, <1>7, <1>8, <1>9
     DEF Next, WorkerStep, ProcStep, vars, LoopHead, ClaimNothing,
         HandlerReturns, RecordFails, Shutdown, GraceEnds, Stopped, Crash, Start

\* The worker that takes a step, and the crash of a process, keep the workers'
\* variables in their types.
LEMMA WorkersStep ==
  ASSUME TypeInv, [Next]_vars
  PROVE  WorkersTyped'
<1> USE JobQueueAssumption DEF TypeInv, WorkersTyped, Outcomes, wvars
<1>1. ASSUME NEW w \in Workers, NEW j \in Jobs, Claim(w, j)
      PROVE  WorkersTyped'
  BY <1>1 DEF Claim
<1>2. ASSUME NEW w \in Workers, NEW o \in Outcomes, HandlerReturns(w, o)
      PROVE  WorkersTyped'
  BY <1>2 DEF HandlerReturns
<1>3. ASSUME NEW w \in Workers, Release(w)
      PROVE  WorkersTyped'
  BY <1>3 DEF Release
<1>4. ASSUME NEW p \in Procs, Crash(p)
      PROVE  WorkersTyped'
  BY <1>4 DEF Crash
<1>5. ASSUME Tick
      PROVE  WorkersTyped'
  BY <1>5 DEF Tick
<1>6. ASSUME UNCHANGED <<held, out, ran>>, NEW w \in Workers,
             LoopHead(w) \/ ClaimNothing(w)
               \/ \E j \in Jobs : ClaimReplyLost(w, j)
      PROVE  WorkersTyped'
  BY <1>6 DEF LoopHead, ClaimNothing, ClaimReplyLost
<1>7. ASSUME UNCHANGED wvars
      PROVE  WorkersTyped'
  BY <1>7
<1> QED
  BY <1>1, <1>2, <1>3, <1>4, <1>5, <1>6, <1>7
     DEF Next, WorkerStep, ProcStep, vars, Enqueue, LoopHead, ClaimNothing,
         ClaimReplyLost, DiscardSiblings, Record, RecordFails, Shutdown,
         GraceEnds, Stopped, Start, Reap, Sweep

LEMMA RestStep ==
  ASSUME TypeInv, [Next]_vars
  PROVE  RestTyped'
<1> USE JobQueueAssumption DEF TypeInv, WorkersTyped, RestTyped, Outcomes
<1>1. ASSUME NEW w \in Workers, WorkerStep(w)
      PROVE  RestTyped'
  BY <1>1 DEF WorkerStep, LoopHead, Claim, ClaimReplyLost, ClaimNothing,
              DiscardSiblings, HandlerReturns, Record, RecordFails
<1>2. ASSUME NEW p \in Procs, ProcStep(p)
      PROVE  RestTyped'
  <2>1. CASE Shutdown(p)
    BY <2>1 DEF Shutdown
  <2>2. CASE Crash(p)
    BY <2>2 DEF Crash
  <2>3. CASE GraceEnds(p) \/ Stopped(p) \/ Start(p) \/ Reap(p) \/ Sweep(p)
    BY <2>3 DEF GraceEnds, Stopped, Start, Reap, Sweep
  <2> QED
    BY <1>2, <2>1, <2>2, <2>3 DEF ProcStep
<1>3. ASSUME UNCHANGED <<proc, stops, ok, lost>>
      PROVE  RestTyped'
  BY <1>3
<1> QED
  BY <1>1, <1>2, <1>3 DEF Next, vars, Enqueue, Tick

LEMMA HeldStep ==
  ASSUME TypeInv, [Next]_vars
  PROVE  HeldWasClaimed'
<1>1. /\ WorkersTyped /\ HeldWasClaimed /\ RowsGood'
      /\ \A j \in Jobs : job[j] \in GoodRow /\ job'[j] \in GoodRow
      /\ \A j \in Jobs : Moves(job[j], job'[j])
  BY RowsStep DEF TypeInv, RowsGood
\* A worker that already held its job: the row only moved.
<1>2. ASSUME NEW w \in Workers, pc[w] \in {"run", "record"}, held'[w] = held[w]
      PROVE  /\ held'[w] \in Jobs
             /\ job'[held'[w]].state # "absent"
             /\ Exists(job'[held'[w]]) => job'[held'[w]].attempts > 0
  BY <1>1, <1>2 DEF HeldWasClaimed, Moves, GoodRow, Row
\* A worker that holds one now and did not before has just claimed it.
<1>3. ASSUME NEW w \in Workers, NEW j \in Jobs, Claim(w, j)
      PROVE  HeldWasClaimed'
  <2>1. job'[j].state = "running" /\ job'[j].attempts > 0
    BY <1>1, <1>3 DEF Claim, Claimed, Updated, TypeInv, RowsGood, GoodRow, Row
  <2>2. /\ pc' = [pc EXCEPT ![w] = "run"] /\ held' = [held EXCEPT ![w] = j]
    BY <1>3 DEF Claim
  <2> QED
    BY <1>1, <1>2, <2>1, <2>2 DEF HeldWasClaimed, WorkersTyped, Exists
<1>4. ASSUME \A w \in Workers : pc'[w] \in {"run", "record"} =>
                pc[w] \in {"run", "record"} /\ held'[w] = held[w]
      PROVE  HeldWasClaimed'
  BY <1>2, <1>4 DEF HeldWasClaimed
<1>5. ASSUME NEW w \in Workers, WorkerStep(w), ~ \E j \in Jobs : Claim(w, j)
      PROVE  HeldWasClaimed'
  BY <1>1, <1>4, <1>5
     DEF WorkersTyped, WorkerStep, LoopHead, ClaimReplyLost, ClaimNothing,
         DiscardSiblings, HandlerReturns, Record, RecordFails, Release, wvars
<1>6. ASSUME NEW p \in Procs, ProcStep(p)
      PROVE  HeldWasClaimed'
  BY <1>1, <1>4, <1>6
     DEF WorkersTyped, ProcStep, Shutdown, GraceEnds, Stopped, Crash, Start,
         Reap, Sweep, wvars
<1>7. ASSUME UNCHANGED <<pc, held>>
      PROVE  HeldWasClaimed'
  BY <1>4, <1>7
<1> QED
  BY <1>3, <1>5, <1>6, <1>7 DEF Next, vars, wvars, Enqueue, Tick

LEMMA TypeInvInductive == Spec => []TypeInv
<1>1. Init => TypeInv
  BY NewRows, JobQueueAssumption
     DEF Init, TypeInv, RowsGood, WorkersTyped, RestTyped, HeldWasClaimed, Outcomes
<1>2. TypeInv /\ [Next]_vars => TypeInv'
  BY RowsStep, WorkersStep, RestStep, HeldStep DEF TypeInv
<1> QED
  BY <1>1, <1>2, PTL DEF Spec

\* Every variable keeps its type, with any handlers, crashes and lost replies.
THEOREM TypeCorrect == Spec => []TypeOK
<1>1. TypeInv => TypeOK
  BY DEF TypeInv, RowsGood, WorkersTyped, RestTyped, TypeOK, GoodRow
<1> QED
  BY <1>1, TypeInvInductive, PTL

\* No job runs more than MaxAttempts times: one that waits has an attempt left,
\* and only one that has used them all is dead (ClaimJob, RetryJob and
\* ReapStuckJobs together).  No assumption about handlers or leases is used.
THEOREM AttemptsAreBounded == Spec => []AttemptsBounded
<1>1. TypeInv => AttemptsBounded
  BY DEF TypeInv, RowsGood, GoodRow, Counted, AttemptsBounded
<1> QED
  BY <1>1, TypeInvInductive, PTL

-----------------------------------------------------------------------------
\* The lease discipline: the row of a held job is running, and exactly as old
\* as its holder's run; so the reaper cannot touch it before the run ends.
Holding(w) == pc[w] \in {"run", "record"}

LeaseInv ==
  /\ \A w \in Workers : Holding(w) =>
       job[held[w]].state = "running" /\ job[held[w]].age = ran[w]
  /\ \A v, w \in Workers : Holding(v) /\ Holding(w) /\ held[v] = held[w] => v = w

LEMMA HeldIsNotStuck ==
  ASSUME TypeInv, LeaseInv, NEW w \in Workers, Holding(w)
  PROVE  /\ held[w] \in Jobs
         /\ job[held[w]].state = "running" /\ ~ Stuck(job[held[w]])
BY JobQueueAssumption
   DEF TypeInv, LeaseInv, Stuck, WorkersTyped, Holding, HeldWasClaimed

LEMMA AgedRow ==
  ASSUME NEW r, r.age < AgeCap
  PROVE  Aged(r).state = r.state /\ Aged(r).age = r.age + 1
BY DEF Aged

LEMMA LeaseStep ==
  ASSUME TypeInv, LeaseInv, HonourDeadline, [Next]_vars
  PROVE  LeaseInv'
<1>0. /\ WorkersTyped /\ job \in [Jobs -> GoodRow]
      /\ \A w \in Workers : Holding(w) =>
            /\ held[w] \in Jobs
            /\ job[held[w]].state = "running" /\ ~ Stuck(job[held[w]])
  BY HeldIsNotStuck DEF TypeInv, RowsGood
\* Nobody becomes a holder, and the rows of those who stay keep state and age.
<1>1. ASSUME \A w \in Workers : Holding(w)' =>
               /\ Holding(w) /\ held'[w] = held[w] /\ ran'[w] = ran[w]
               /\ job'[held[w]] = job[held[w]]
      PROVE  LeaseInv'
  BY <1>1 DEF LeaseInv
<1>2. ASSUME NEW j \in Jobs, Enqueue(j)
      PROVE  LeaseInv'
  BY <1>0, <1>1, <1>2 DEF Enqueue, wvars, Holding
<1>3. ASSUME NEW w \in Workers, NEW j \in Jobs, Claim(w, j)
      PROVE  LeaseInv'
  <2>1. \A v \in Workers : Holding(v) => held[v] # j
    BY <1>0, <1>3 DEF Claim, Oldest, Runnable
  <2>2. job'[j].state = "running" /\ job'[j].age = 0
    BY <1>0, <1>3 DEF Claim, Claimed, Updated
  <2> QED
    BY <1>0, <1>3, <2>1, <2>2 DEF Claim, Holding, LeaseInv, WorkersTyped
<1>4. ASSUME NEW w \in Workers, NEW j \in Jobs, ClaimReplyLost(w, j)
      PROVE  LeaseInv'
  BY <1>0, <1>1, <1>4
     DEF ClaimReplyLost, Oldest, Runnable, Holding, WorkersTyped
<1>5. ASSUME NEW w \in Workers, DiscardSiblings(w)
      PROVE  LeaseInv'
  BY <1>0, <1>1, <1>5 DEF DiscardSiblings, Holding, wvars
<1>6. ASSUME NEW w \in Workers, NEW o \in Outcomes, HandlerReturns(w, o)
      PROVE  LeaseInv'
  BY <1>0, <1>6 DEF HandlerReturns, Holding, LeaseInv, WorkersTyped
<1>7. ASSUME NEW w \in Workers, NEW d \in 0..MaxBackoff, Record(w, d)
      PROVE  LeaseInv'
  <2>1. \A v \in Workers : Holding(v)' =>
          Holding(v) /\ v # w /\ held'[v] = held[v] /\ ran'[v] = ran[v]
    BY <1>0, <1>7 DEF Record, Release, Holding, WorkersTyped
  <2>2. \A v \in Workers : Holding(v) /\ v # w => held[v] # held[w]
    BY <1>7 DEF LeaseInv, Record, Holding
  <2>3. \A k \in Jobs : k # held[w] => job'[k] = job[k]
    BY <1>0, <1>7 DEF Record
  <2>4. \A v \in Workers : Holding(v)' =>
          /\ Holding(v) /\ held'[v] = held[v] /\ ran'[v] = ran[v]
          /\ job'[held[v]] = job[held[v]]
    BY <1>0, <2>1, <2>2, <2>3
  <2> QED
    BY <1>1, <2>4 DEF Holding
<1>8. ASSUME NEW w \in Workers, RecordFails(w)
      PROVE  LeaseInv'
  BY <1>0, <1>1, <1>8 DEF RecordFails, Release, Holding, WorkersTyped
<1>9. ASSUME NEW p \in Procs, Reap(p) \/ Sweep(p)
      PROVE  LeaseInv'
  BY <1>0, <1>1, <1>9 DEF Reap, Sweep, Expired, Holding, wvars
<1>10. ASSUME NEW p \in Procs, Crash(p)
       PROVE  LeaseInv'
  BY <1>0, <1>1, <1>10 DEF Crash, Holding, WorkersTyped
<1>11. ASSUME Tick
       PROVE  LeaseInv'
  <2>1. /\ pc' = pc /\ held' = held
        /\ \A w \in Workers : Holding(w) => ran[w] < Timeout + Slack
    BY <1>0, <1>11, JobQueueAssumption DEF Tick, InTime, Holding, WorkersTyped
  <2>2. \A w \in Workers : Holding(w) =>
          /\ ran'[w] = ran[w] + 1
          /\ job'[held[w]] = Aged(job[held[w]])
    BY <1>0, <1>11, <2>1 DEF Tick, Holding, Exists
  <2>3. \A w \in Workers : Holding(w) => job[held[w]].age < AgeCap
    BY <1>0, <2>1, JobQueueAssumption, JobTableAssumption
       DEF LeaseInv, WorkersTyped
  <2>4. \A w \in Workers : Holding(w) =>
          /\ job'[held[w]].state = "running"
          /\ job'[held[w]].age = ran'[w]
    <3>1. \A w \in Workers : Holding(w) =>
            job[held[w]].state = "running" /\ job[held[w]].age = ran[w]
      BY DEF LeaseInv
    <3> QED
      BY <2>2, <2>3, <3>1, AgedRow
  <2>5. \A w \in Workers : Holding(w)' <=> Holding(w)
    BY <2>1 DEF Holding
  <2> QED
    BY <2>1, <2>4, <2>5 DEF LeaseInv
<1>12. ASSUME UNCHANGED <<job, held, ran>>, \A w \in Workers : Holding(w)' => Holding(w)
       PROVE  LeaseInv'
  BY <1>1, <1>12
<1>13. ASSUME NEW w \in Workers, LoopHead(w) \/ ClaimNothing(w)
       PROVE  LeaseInv'
  BY <1>0, <1>12, <1>13 DEF LoopHead, ClaimNothing, Holding, WorkersTyped
<1>14. ASSUME UNCHANGED <<job, wvars>>
       PROVE  LeaseInv'
  BY <1>12, <1>14 DEF wvars, Holding
<1> QED
  BY <1>2, <1>3, <1>4, <1>5, <1>6, <1>7, <1>8, <1>9, <1>10, <1>11, <1>13, <1>14
     DEF Next, WorkerStep, ProcStep, vars, Shutdown, GraceEnds, Stopped, Start

LEMMA LeaseInvariant ==
  ASSUME HonourDeadline
  PROVE  Spec => [](TypeInv /\ LeaseInv)
<1>1. Init => LeaseInv
  BY DEF Init, LeaseInv, Holding
<1>2. TypeInv /\ LeaseInv /\ [Next]_vars => LeaseInv'
  BY LeaseStep
<1> QED
  BY <1>1, <1>2, TypeInvInductive, PTL DEF Spec

\* With handlers that return by their deadline, no job is ever run by two
\* workers, and the reaper takes jobs only from workers that are gone.
THEOREM LeasesAreHeld ==
  ASSUME HonourDeadline
  PROVE  Spec => []LeaseHeld
<1>1. TypeInv /\ LeaseInv => LeaseHeld
  BY HeldIsNotStuck DEF LeaseInv, LeaseHeld, Holds, Holding
<1> QED
  BY <1>1, LeaseInvariant, PTL

-----------------------------------------------------------------------------
\* A success is recorded, about to be recorded, or its record was lost.
LEMMA SuccessStep ==
  ASSUME TypeInv, LeaseInv, SuccessAccounted, [Next]_vars
  PROVE  SuccessAccounted'
<1>0. /\ WorkersTyped /\ RestTyped /\ job \in [Jobs -> GoodRow]
      /\ \A w \in Workers : Holding(w) =>
            /\ held[w] \in Jobs
            /\ job[held[w]].state = "running" /\ ~ Stuck(job[held[w]])
      /\ \A v, w \in Workers :
            Holding(v) /\ Holding(w) /\ held[v] = held[w] => v = w
  BY HeldIsNotStuck DEF TypeInv, RowsGood, LeaseInv
<1> DEFINE Due(j) == \E w \in Workers :
                       Holds(w, j) /\ pc[w] = "record" /\ out[w] = "ok"
           Safe(j) == lost[j] \/ job[j].state \in {"done", "gone"}
<1>1. \A j \in Jobs : ok[j] => Safe(j) \/ Due(j)
  BY DEF SuccessAccounted
<1>2. SUFFICES ASSUME NEW j \in Jobs, ok'[j]
               PROVE  Safe(j)' \/ Due(j)'
  BY DEF SuccessAccounted
\* Steps that leave the workers alone, and rows in "done" or "gone" safe.
<1>3. ASSUME UNCHANGED <<ok, lost, wvars>>,
             job[j].state \in {"done", "gone"} => job'[j].state \in {"done", "gone"}
      PROVE  Safe(j)' \/ Due(j)'
  BY <1>1, <1>2, <1>3 DEF wvars, Holds
<1>4. CASE \E k \in Jobs : Enqueue(k)
  BY <1>0, <1>3, <1>4 DEF Enqueue
<1>5. CASE UNCHANGED vars
  BY <1>3, <1>5 DEF vars, wvars
<1>6. CASE Tick
  BY <1>0, <1>1, <1>2, <1>6 DEF Tick, Aged, Holds
<1>7. ASSUME NEW p \in Procs, ProcStep(p)
      PROVE  Safe(j)' \/ Due(j)'
  <2>1. CASE Crash(p)
    BY <1>0, <1>1, <1>2, <2>1
       DEF Crash, Holds, WorkersTyped, RestTyped
  <2>2. CASE Reap(p)
    BY <1>0, <1>3, <2>2 DEF Reap, Stuck
  <2>3. CASE Sweep(p)
    BY <1>0, <1>3, <2>3 DEF Sweep, Vacant
  <2>4. CASE Shutdown(p) \/ GraceEnds(p) \/ Stopped(p) \/ Start(p)
    BY <1>3, <2>4 DEF Shutdown, GraceEnds, Stopped, Start
  <2> QED
    BY <1>7, <2>1, <2>2, <2>3, <2>4 DEF ProcStep
<1>8. ASSUME NEW w \in Workers, WorkerStep(w)
      PROVE  Safe(j)' \/ Due(j)'
  <2>1. CASE LoopHead(w) \/ ClaimNothing(w)
    BY <1>0, <1>1, <1>2, <2>1 DEF LoopHead, ClaimNothing, Holds, WorkersTyped
  <2>2. ASSUME NEW k \in Jobs, Claim(w, k) \/ ClaimReplyLost(w, k)
        PROVE  Safe(j)' \/ Due(j)'
    <3>1. job[k].state = "queued"
      BY <2>2 DEF Claim, ClaimReplyLost, Oldest, Runnable
    <3>2. ~ Due(k)
      BY <1>0, <3>1 DEF Holds, Holding
    <3>3. ok[j] /\ (j # k => job'[j] = job[j]) /\ (lost[j] => lost'[j])
      BY <1>0, <1>2, <2>2 DEF Claim, ClaimReplyLost, RestTyped
    <3>4. Due(j) => Due(j)'
      BY <1>0, <2>2 DEF Claim, ClaimReplyLost, Holds, WorkersTyped
    <3> QED
      BY <1>1, <3>1, <3>2, <3>3, <3>4
  <2>3. CASE DiscardSiblings(w)
    BY <1>0, <1>3, <2>3 DEF DiscardSiblings, Vacant
  <2>4. ASSUME NEW o \in Outcomes, HandlerReturns(w, o)
        PROVE  Safe(j)' \/ Due(j)'
    <3>1. CASE held[w] = j /\ o = "ok"
      BY <1>0, <2>4, <3>1 DEF HandlerReturns, Holds, WorkersTyped
    <3>2. CASE ~ (held[w] = j /\ o = "ok")
      <4>1. ok[j]
        BY <1>0, <1>2, <2>4, <3>2 DEF HandlerReturns, RestTyped
      <4>2. Due(j) => Due(j)'
        BY <1>0, <2>4 DEF HandlerReturns, Holds, WorkersTyped
      <4> QED
        BY <1>1, <2>4, <4>1, <4>2 DEF HandlerReturns
    <3> QED
      BY <3>1, <3>2
  <2>5. ASSUME NEW d \in 0..MaxBackoff, Record(w, d)
        PROVE  Safe(j)' \/ Due(j)'
    <3>1. Holding(w) /\ held[w] \in Jobs /\ job[held[w]].state = "running"
      BY <1>0, <2>5 DEF Record, Holding
    <3>2. ok[j] /\ lost' = lost
      BY <1>2, <2>5 DEF Record
    <3>3. CASE held[w] = j /\ out[w] = "ok"
      BY <1>0, <2>5, <3>1, <3>3 DEF Record, Completed, Updated, Exists
    <3>4. CASE held[w] = j /\ out[w] # "ok"
      <4>1. ~ Due(j)
        BY <1>0, <3>1, <3>4 DEF Holds, Holding
      <4> QED
        BY <1>1, <3>1, <3>2, <3>4, <4>1
    <3>5. CASE held[w] # j
      <4>1. job'[j] = job[j]
        BY <1>0, <2>5, <3>5 DEF Record
      <4>2. Due(j) => Due(j)'
        BY <1>0, <2>5, <3>5 DEF Record, Release, Holds, WorkersTyped
      <4> QED
        BY <1>1, <3>2, <4>1, <4>2
    <3> QED
      BY <3>3, <3>4, <3>5
  <2>6. CASE RecordFails(w)
    <3>1. ok[j] /\ job' = job /\ (lost[j] => lost'[j])
      BY <1>0, <1>2, <2>6 DEF RecordFails, RestTyped
    <3>2. CASE held[w] = j
      BY <1>0, <2>6, <3>2 DEF RecordFails, RestTyped
    <3>3. CASE held[w] # j
      <4>1. Due(j) => Due(j)'
        BY <1>0, <2>6, <3>3 DEF RecordFails, Release, Holds, WorkersTyped
      <4> QED
        BY <1>1, <3>1, <4>1
    <3> QED
      BY <3>2, <3>3
  <2> QED
    BY <1>8, <2>1, <2>2, <2>3, <2>4, <2>5, <2>6 DEF WorkerStep
<1> QED
  BY <1>4, <1>5, <1>6, <1>7, <1>8 DEF Next

\* A job whose handler returned nil is recorded as done unless a record was lost.
THEOREM SuccessesAreAccounted ==
  ASSUME HonourDeadline
  PROVE  Spec => []SuccessAccounted
<1>1. Init => SuccessAccounted
  BY DEF Init, SuccessAccounted
<1>2. TypeInv /\ LeaseInv /\ SuccessAccounted /\ [Next]_vars => SuccessAccounted'
  BY SuccessStep
<1> QED
  BY <1>1, <1>2, LeaseInvariant, PTL DEF Spec

-----------------------------------------------------------------------------
\* JobLife's step, seen by one row.
LifeMove(r, s) ==
  \/ r.state = "absent" /\ s.state = "queued" /\ s.attempts = 0
  \/ /\ r.state = "queued" /\ r.attempts < MaxAttempts
     /\ s.state = "running" /\ s.attempts = r.attempts + 1
  \/ r.state = "running" /\ s.state \in {"done", "failed"} /\ s.attempts = r.attempts
  \/ /\ r.state = "running" /\ s.attempts = r.attempts
     /\ s.state = IF r.attempts < MaxAttempts THEN "queued" ELSE "dead"
  \/ r.state \in Final \cup {"queued"} /\ s.state = "gone" /\ s.attempts = 0
  \/ s.state = r.state /\ s.attempts = r.attempts

LEMMA LifeMoves ==
  ASSUME NEW r \in GoodRow
  PROVE  /\ LifeMove(r, r)
         /\ r.state = "absent" => LifeMove(r, Enqueued)
         /\ Runnable(r) => LifeMove(r, Claimed(r))
         /\ r.state \in Final \cup {"queued"} => LifeMove(r, Vacant("gone"))
         /\ LifeMove(r, Aged(r))
         /\ r.state = "running" =>
              /\ LifeMove(r, Reaped(r)) /\ LifeMove(r, Completed(r))
              /\ LifeMove(r, Failed(r))
              /\ \A d \in 0..MaxBackoff : LifeMove(r, Retried(r, d))
<1> USE JobTableAssumption DEF GoodRow, Counted, Row, JobState, Updated, LifeMove
<1>1. LifeMove(r, r) /\ LifeMove(r, Aged(r))
  BY DEF Aged
<1>2. r.state = "absent" => LifeMove(r, Enqueued)
  BY DEF Enqueued
<1>3. Runnable(r) => LifeMove(r, Claimed(r))
  BY DEF Runnable, Claimed
<1>4. r.state \in Final \cup {"queued"} => LifeMove(r, Vacant("gone"))
  BY DEF Vacant
<1>5. ASSUME r.state = "running"
      PROVE  /\ LifeMove(r, Reaped(r))
             /\ \A d \in 0..MaxBackoff : LifeMove(r, Retried(r, d))
  BY <1>5 DEF Reaped, Retried, AfterAttempt, Exists
<1>6. ASSUME r.state = "running"
      PROVE  LifeMove(r, Completed(r)) /\ LifeMove(r, Failed(r))
  BY <1>6 DEF Completed, Failed, Exists
<1> QED
  BY <1>1, <1>2, <1>3, <1>4, <1>5, <1>6

LEMMA LifeStep ==
  ASSUME TypeInv, LeaseInv, [Next]_vars
  PROVE  \A j \in Jobs : LifeMove(job[j], job'[j])
<1>0. /\ WorkersTyped /\ job \in [Jobs -> GoodRow]
      /\ \A j \in Jobs : job[j] \in GoodRow /\ LifeMove(job[j], job[j])
  BY LifeMoves DEF TypeInv, RowsGood
<1>1. SUFFICES ASSUME NEW j \in Jobs
               PROVE  LifeMove(job[j], job'[j])
  OBVIOUS
<1>2. CASE UNCHANGED job
  BY <1>0, <1>2
<1>3. CASE \E k \in Jobs : Enqueue(k)
  BY <1>0, <1>3, LifeMoves DEF Enqueue
<1>4. CASE \E w \in Workers, k \in Jobs : Claim(w, k) \/ ClaimReplyLost(w, k)
  BY <1>0, <1>4, LifeMoves DEF Claim, ClaimReplyLost, Oldest
<1>5. CASE \E w \in Workers : DiscardSiblings(w)
  BY <1>0, <1>5, LifeMoves DEF DiscardSiblings
<1>6. ASSUME NEW w \in Workers, NEW d \in 0..MaxBackoff, Record(w, d)
      PROVE  LifeMove(job[j], job'[j])
  <2>1. held[w] \in Jobs /\ job[held[w]].state = "running" /\ out[w] \in Outcomes
    BY <1>0, <1>6, HeldIsNotStuck DEF Record, Holding, WorkersTyped
  <2>2. CASE j # held[w]
    BY <1>0, <1>6, <2>2 DEF Record
  <2>3. CASE j = held[w]
    <3>1. \/ job'[j] = Completed(job[j]) \/ job'[j] = Failed(job[j])
          \/ job'[j] = Retried(job[j], d)
      BY <1>0, <1>6, <2>1, <2>3 DEF Record, Outcomes
    <3> QED
      BY <1>0, <2>1, <2>3, <3>1, LifeMoves
  <2> QED
    BY <2>2, <2>3
<1>7. CASE \E p \in Procs : Reap(p) \/ Sweep(p)
  BY <1>0, <1>7, LifeMoves DEF Reap, Sweep, Stuck, Expired, Final
<1>8. CASE Tick
  BY <1>0, <1>8, LifeMoves DEF Tick
<1> QED
  BY <1>2, <1>3, <1>4, <1>5, <1>6, <1>7, <1>8
     DEF Next, WorkerStep, ProcStep, vars, LoopHead, ClaimNothing,
         HandlerReturns, RecordFails, Shutdown, GraceEnds, Stopped, Crash, Start

\* The runner implements JobLife: with handlers that return by their deadline,
\* no interleaving of workers, shutdowns, crashes, lost replies and reapers
\* runs a job too often, runs it for two workers, or unsettles a settled one.
THEOREM ImplementsJobLife ==
  ASSUME HonourDeadline
  PROVE  Spec => KeepsJobLife
<1>1. Init => Life!Init
  BY DEF Init, Life!Init, Vacant
<1>2. TypeInv /\ TypeInv' /\ LeaseInv /\ [Next]_vars => [Life!Next]_Life!lifeVars
  <2> SUFFICES ASSUME TypeInv, TypeInv', LeaseInv, [Next]_vars
               PROVE  Life!Next
    OBVIOUS
  <2>1. \A j \in Jobs : job[j] \in GoodRow /\ job'[j] \in GoodRow
    BY DEF TypeInv, RowsGood
  <2>2. \A j \in Jobs : LifeMove(job[j], job'[j])
    BY LifeStep
  <2>3. /\ [j \in Jobs |-> job'[j].state] \in
              [Jobs -> {"absent", "queued", "running", "gone"} \cup Life!Settled]
        /\ [j \in Jobs |-> job'[j].attempts] \in [Jobs -> 0..MaxAttempts]
    BY <2>1 DEF GoodRow, Row, JobState, Final, Life!Settled
  <2>4. ASSUME NEW j \in Jobs
        PROVE  \/ Life!Submit(j) \/ Life!Hand(j) \/ Life!Settle(j)
               \/ Life!GiveBack(j) \/ Life!Withdraw(j) \/ Life!Forget(j)
               \/ Life!Keep(j)
    BY <2>2 DEF LifeMove, Final, Life!Settled, Life!Submit, Life!Hand,
       Life!Settle, Life!GiveBack, Life!Withdraw, Life!Forget, Life!Keep
  <2> QED
    BY <2>3, <2>4 DEF Life!Next
<1> QED
  BY <1>1, <1>2, LeaseInvariant, PTL DEF Spec, KeepsJobLife, Life!Spec
=============================================================================
