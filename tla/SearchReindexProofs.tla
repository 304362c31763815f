------------------------- MODULE SearchReindexProofs -------------------------
(***************************************************************************)
(* Proofs about SearchReindex, for any number of products, workers,        *)
(* editors, failures and edits, and any batch.                             *)
(*                                                                         *)
(* A rebuild discards the jobs of the edits before it and goes through the *)
(* products; an edit behind its back queues a job of its own.  So, while   *)
(* nothing has given cause for doubt, whatever an open batch is about to   *)
(* write is current or some rebuild is yet to start (Pending), and what a  *)
(* batch has passed is current once it has committed, or some rebuild is   *)
(* yet to start.                                                           *)
(***************************************************************************)
EXTENDS SearchReindex, TLAPS

\* Any row of the jobs table, any versions.
AnyRow == [state : JobState, attempts : Int, age : Int, due : Int]
Versions == [own : Int, names : Int]
OpenRows == [Products -> {<<>>} \cup {<<v>> : v \in Versions}]
Places == {"idle", "discard", "select", "read", "write", "succeeded", "failed"}

Typed ==
    /\ own \in [Products -> Int] /\ names \in Int
    /\ seen \in [Editors -> Int]
    /\ save \in Products \cup {0}
    /\ job \in [Jobs -> AnyRow]
    /\ pc \in [Workers -> Places]
    /\ held \in [Workers -> Jobs \cup {NoJob}]
    /\ after \in [Workers -> 0..NProducts] /\ cur \in [Workers -> 0..NProducts]
    /\ got \in [Workers -> Versions]
    /\ pend \in [Workers -> OpenRows]
    /\ failures \in 0..MaxFailures

\* A worker that is not idle holds a running row,
HeldRuns ==
    \A w \in Workers : IF pc[w] = "idle" THEN held[w] = NoJob
                       ELSE held[w] \in Jobs /\ job[held[w]].state = "running"

\* and holds it alone.
HeldAlone ==
  /\ HeldRuns
  /\ \A v, w \in Workers : held[v] = held[w] /\ held[v] # NoJob => v = w

Queued == \E j \in Jobs : job[j].state = "queued"

\* A rebuild of every product is yet to start.
Pending ==
    \/ \E j \in Jobs : job[j].state = "queued" \/ Orphan(j)
    \/ \E w \in Workers : pc[w] \in {"discard", "failed"}

\* The open batch of w goes from behind the cursor up to where w is.
BatchIsOpen(w) ==
    /\ InMidBatch(w) => cur[w] \in Products
    /\ \A p \in Products : pend[w][p] # <<>> => InMidBatch(w) /\ p < cur[w]

BatchesAreOpen == \A w \in Workers : BatchIsOpen(w)

\* What w has read, and what its open batch has written, is current, or a
\* rebuild is yet to start.
BatchIsCurrent(w) ==
    /\ pc[w] = "write" => got[w] = Current(cur[w]) \/ Pending
    /\ \A p \in Products : pend[w][p] # <<>> => pend[w][p] = <<Current(p)>> \/ Pending

BatchesAreCurrent == ~ doubt => \A w \in Workers : BatchIsCurrent(w)

Covered(p) == Pending \/ \E w \in Workers : WillRefresh(w, p)

IInv ==
    /\ Typed /\ HeldAlone
    /\ BatchesAreOpen /\ BatchesAreCurrent /\ StaleIsCovered

-----------------------------------------------------------------------------
\* What the statements of the jobs table make of a row.
LEMMA RowOps ==
    ASSUME NEW r \in AnyRow
    PROVE  /\ Claimed(r) \in AnyRow /\ Claimed(r).state = "running"
           /\ Claimed(r).attempts = r.attempts + 1
           /\ Reaped(r) \in AnyRow /\ Reaped(r).attempts = r.attempts
           /\ Reaped(r).state = AfterAttempt(r)
           /\ Completed(r) \in AnyRow /\ Retried(r, 0) \in AnyRow
           /\ Exists(r) => /\ Completed(r).state = "done"
                           /\ Retried(r, 0).state = AfterAttempt(r)
                           /\ Retried(r, 0).attempts = r.attempts
  BY DEF AnyRow, JobState, Final, Claimed, Reaped, Completed, Retried,
         Updated, AfterAttempt, Exists

LEMMA NewRows ==
    /\ Enqueued \in AnyRow /\ Enqueued.state = "queued" /\ Enqueued.attempts = 0
    /\ \A s \in JobState : Vacant(s) \in AnyRow /\ Vacant(s).state = s
  BY DEF AnyRow, JobState, Final, Enqueued, Vacant

LEMMA ConstantsTyped ==
    /\ NProducts \in Nat /\ MaxEdits \in Nat /\ MaxFailures \in Nat
    /\ MaxAttempts \in Nat /\ Products \subseteq Int /\ Jobs \subseteq Int
    /\ 0 \notin Products /\ NoJob \notin Jobs /\ NoEdit \in Int
  BY SearchReindexAssumption, JobTableAssumption DEF Products, Jobs, NoEdit

\* Queuing a job changes one row, which was not there.
LEMMA Enqueues ==
    ASSUME Typed, Enqueue
    PROVE  /\ job' \in [Jobs -> AnyRow]
           /\ \E j \in Jobs : /\ job[j].state = "absent" /\ job'[j] = Enqueued
                              /\ job'[j] # job[j]
                              /\ \A i \in Jobs \ {j} : job'[i] = job[i]
           /\ Queued'
  <1>1. PICK j \in Jobs : job[j].state = "absent" /\ job' = [job EXCEPT ![j] = Enqueued]
    BY DEF Enqueue
  <1>2. job' \in [Jobs -> AnyRow] /\ job'[j] = Enqueued
        /\ \A i \in Jobs \ {j} : job'[i] = job[i]
    BY <1>1, NewRows DEF Typed
  <1>3. job'[j] # job[j] /\ job'[j].state = "queued"
    BY <1>1, <1>2, NewRows
  <1> QED  BY <1>1, <1>2, <1>3 DEF Queued

LEMMA BlankTyped == Unset \in Versions /\ NoRows \in OpenRows
  BY DEF Unset, Versions, NoRows, OpenRows

\* A run that ends has neither a batch nor a cursor.
LEMMA Leaving ==
    ASSUME Typed, NEW w \in Workers, NEW place \in Places, LeaveAt(w, place)
    PROVE  /\ pc' \in [Workers -> Places] /\ pc'[w] = place
           /\ after' \in [Workers -> 0..NProducts] /\ cur' \in [Workers -> 0..NProducts]
           /\ got' \in [Workers -> Versions] /\ pend' \in [Workers -> OpenRows]
           /\ pend'[w] = NoRows
           /\ \A v \in Workers \ {w} : pc'[v] = pc[v] /\ pend'[v] = pend[v]
  <1> USE ConstantsTyped, BlankTyped
  <1>1. pc' \in [Workers -> Places] /\ pc'[w] = place
        /\ \A v \in Workers \ {w} : pc'[v] = pc[v]
    BY DEF Typed, LeaveAt, Places
  <1>2. pend' \in [Workers -> OpenRows] /\ pend'[w] = NoRows
        /\ \A v \in Workers \ {w} : pend'[v] = pend[v]
    BY DEF Typed, LeaveAt, OpenRows
  <1>3. after' \in [Workers -> 0..NProducts] /\ cur' \in [Workers -> 0..NProducts]
    BY DEF Typed, LeaveAt
  <1>4. got' \in [Workers -> Versions]
    BY DEF Typed, LeaveAt
  <1> QED  BY <1>1, <1>2, <1>3, <1>4

LEMMA TypedStep ==
    ASSUME Typed, HeldRuns, BatchesAreOpen, [Next]_vars
    PROVE  Typed'
  <1> USE ConstantsTyped
  <1>1. ASSUME NEW e \in Editors, EditBegin(e) \/ Rename(e) \/ KeepName(e)
        PROVE  Typed'
    <2>1. CASE EditBegin(e)
      BY <2>1 DEF Typed, EditBegin, wVars
    <2>2. CASE KeepName(e)
      BY <2>2 DEF Typed, KeepName, wVars
    <2>3. CASE Rename(e)
      <3>1. job' \in [Jobs -> AnyRow] /\ names' \in Jobs
        BY <2>3, Enqueues DEF Rename
      <3> QED  BY <2>3, <3>1 DEF Typed, Rename, wVars
    <2> QED  BY <1>1, <2>1, <2>2, <2>3
  <1>2. CASE SaveCommit
    <2>1. job' \in [Jobs -> AnyRow]
      BY <1>2, Enqueues DEF SaveCommit
    <2> QED  BY <1>2, <2>1 DEF Typed, SaveCommit, wVars
  <1>3. CASE SaveAbort
    BY <1>3 DEF Typed, SaveAbort, wVars
  <1>4. ASSUME NEW p \in Products, SaveBegin(p)
        PROVE  Typed'
    BY <1>4 DEF Typed, SaveBegin, wVars
  <1>5. ASSUME NEW w \in Workers, WorkerStep(w) \/ RunFails(w) \/ Crash(w)
        PROVE  Typed'
    <2>1. ASSUME NEW j \in Jobs, Claim(w, j)
          PROVE  Typed'
      <3>1. job' \in [Jobs -> AnyRow]
        BY <2>1, RowOps DEF Typed, Claim
      <3> QED  BY <2>1, <3>1 DEF Typed, Claim, srcVars, Places
    <2>2. CASE Discard(w)
      <3>1. job' \in [Jobs -> AnyRow]
        BY <2>2, NewRows DEF Typed, Discard, DiscardQueued, JobState
      <3> QED  BY <2>2, <3>1 DEF Typed, Discard, srcVars, Places
    <2>3. CASE SelectBatch(w)
      BY <2>3 DEF Typed, SelectBatch, srcVars, Places
    <2>4. CASE NothingLeft(w)
      BY <2>4 DEF Typed, NothingLeft, srcVars, Places
    <2>5. CASE ReadSources(w)
      <3>1. cur[w] \in Products
        BY <2>5 DEF ReadSources, BatchesAreOpen, BatchIsOpen, InMidBatch
      <3>2. Current(cur[w]) \in Versions
        BY <3>1 DEF Typed, Versions, Current
      <3> QED  BY <2>5, <3>2 DEF Typed, ReadSources, srcVars, Places
    <2>6. CASE WriteVector(w)
      <3>1. cur[w] \in Products
        BY <2>6 DEF WriteVector, BatchesAreOpen, BatchIsOpen, InMidBatch
      <3> DEFINE rows == [pend[w] EXCEPT ![cur[w]] = <<got[w]>>]
      <3>2. rows \in OpenRows
        BY <3>1 DEF Typed, OpenRows
      <3>3. pend' = [pend EXCEPT ![w] = rows]
        BY <2>6 DEF WriteVector
      <3>4. pend' \in [Workers -> OpenRows]
        BY <3>2, <3>3 DEF Typed, OpenRows
      <3>5. cur' \in [Workers -> 0..NProducts]
        BY <2>6, <3>1 DEF Typed, WriteVector, InBatch
      <3>6. got' \in [Workers -> Versions] /\ pc' \in [Workers -> Places]
        BY <2>6, BlankTyped DEF Typed, WriteVector, Places
      <3> QED  BY <2>6, <3>4, <3>5, <3>6 DEF Typed, WriteVector, srcVars, OpenRows, Places
    <2>7. CASE CommitBatch(w)
      <3>1. pend' \in [Workers -> OpenRows]
        BY <2>7, BlankTyped DEF Typed, CommitBatch, OpenRows
      <3>2. got' \in [Workers -> Versions] /\ pc' \in [Workers -> Places]
        BY <2>7, BlankTyped DEF Typed, CommitBatch, Places
      <3> QED  BY <2>7, <3>1, <3>2 DEF Typed, CommitBatch, srcVars, OpenRows, Places
    <2>8. CASE RunFails(w)
      <3>1. LeaveAt(w, "failed") /\ failures' \in 0..MaxFailures
        BY <2>8 DEF Typed, RunFails
      <3> QED  BY <2>8, <3>1, Leaving DEF Typed, RunFails, srcVars, Places, OpenRows
    <2>9. CASE Crash(w)
      <3>1. LeaveAt(w, "idle") /\ failures' \in 0..MaxFailures
            /\ held' \in [Workers -> Jobs \cup {NoJob}]
        BY <2>9 DEF Typed, Crash
      <3> QED  BY <2>9, <3>1, Leaving DEF Typed, Crash, srcVars, Places, OpenRows
    <2>10. CASE Record(w)
      <3>1. held[w] \in Jobs
        BY <2>10 DEF Record, HeldRuns
      <3>2. job' \in [Jobs -> AnyRow]
        BY <2>10, <3>1, RowOps DEF Typed, Record
      <3>3. LeaveAt(w, "idle") /\ held' \in [Workers -> Jobs \cup {NoJob}]
        BY <2>10 DEF Typed, Record
      <3> QED  BY <2>10, <3>2, <3>3, Leaving DEF Typed, Record, srcVars, Places, OpenRows
    <2> QED  BY <1>5, <2>1, <2>2, <2>3, <2>4, <2>5, <2>6, <2>7, <2>8, <2>9, <2>10
             DEF WorkerStep
  <1>6. ASSUME NEW j \in Jobs, Reap(j)
        PROVE  Typed'
    <2>1. job' \in [Jobs -> AnyRow]
      BY <1>6, RowOps DEF Typed, Reap
    <2> QED  BY <1>6, <2>1 DEF Typed, Reap, srcVars, wVars
  <1>7. CASE UNCHANGED vars
    BY <1>7 DEF Typed, vars, srcVars, wVars
  <1> QED  BY <1>1, <1>2, <1>3, <1>4, <1>5, <1>6, <1>7 DEF Next

-----------------------------------------------------------------------------
\* A step that changes no job's row and no worker's place.
JobsRest == UNCHANGED <<job, pc, held, failures>>

\* Some edit or save has queued a job.
Queues == Enqueue /\ UNCHANGED <<pc, held, failures>>

\* What a step does to the jobs and to who works on them.
LEMMA JobSteps ==
    ASSUME [Next]_vars
    PROVE  \/ JobsRest \/ Queues
           \/ \E w \in Workers :
                \/ \E j \in Jobs : Claim(w, j)
                \/ Discard(w) \/ RunFails(w) \/ Crash(w) \/ Record(w)
                \/ /\ pc[w] \in {"select", "read", "write"}
                   /\ \E to \in Places \ {"idle", "failed"} : pc' = [pc EXCEPT ![w] = to]
                   /\ UNCHANGED <<job, held, failures>>
           \/ \E j \in Jobs : Reap(j)
  <1>1. ASSUME NEW e \in Editors, EditBegin(e) \/ Rename(e) \/ KeepName(e)
        PROVE  JobsRest \/ Queues
    BY <1>1 DEF EditBegin, Rename, KeepName, JobsRest, Queues, wVars
  <1>2. SaveCommit => Queues
    BY DEF SaveCommit, Queues, wVars
  <1>3. SaveAbort \/ (\E p \in Products : SaveBegin(p)) => JobsRest
    BY DEF SaveAbort, SaveBegin, JobsRest, wVars
  <1>4. ASSUME NEW w \in Workers,
               SelectBatch(w) \/ NothingLeft(w) \/ ReadSources(w) \/ WriteVector(w)
                 \/ CommitBatch(w)
        PROVE  /\ pc[w] \in {"select", "read", "write"}
               /\ \E to \in Places \ {"idle", "failed"} : pc' = [pc EXCEPT ![w] = to]
               /\ UNCHANGED <<job, held, failures>>
    BY <1>4 DEF SelectBatch, NothingLeft, ReadSources, WriteVector, CommitBatch, Places
  <1>5. UNCHANGED vars => JobsRest
    BY DEF vars, wVars, JobsRest
  <1> QED  BY <1>1, <1>2, <1>3, <1>4, <1>5 DEF Next, WorkerStep

Posts == pc \in [Workers -> Places] /\ held \in [Workers -> Jobs \cup {NoJob}]

LEMMA PostsStep ==
  ASSUME Posts, HeldRuns, [Next]_vars
  PROVE  Posts'
<1>1. ASSUME NEW w \in Workers, NEW j \in Jobs, Claim(w, j)
      PROVE  Posts'
  BY <1>1 DEF Claim, Posts, Places
<1>2. ASSUME NEW w \in Workers, Discard(w) \/ RunFails(w)
      PROVE  Posts'
  BY <1>2 DEF Discard, RunFails, LeaveAt, Posts, Places
<1>3. ASSUME NEW w \in Workers, Crash(w) \/ Record(w)
      PROVE  Posts'
  BY <1>3 DEF Crash, Record, LeaveAt, Posts, Places
<1>4. ASSUME NEW w \in Workers, NEW to \in Places \ {"idle", "failed"},
             pc' = [pc EXCEPT ![w] = to], UNCHANGED <<job, held, failures>>
      PROVE  Posts'
  BY <1>4 DEF Posts
<1>5. ASSUME JobsRest \/ Queues \/ \E j \in Jobs : Reap(j)
      PROVE  Posts'
  BY <1>5 DEF JobsRest, Queues, Reap, wVars, Posts
<1> QED
  BY <1>1, <1>2, <1>3, <1>4, <1>5, JobSteps

LEMMA HeldAloneStep ==
  ASSUME Posts, HeldAlone, job \in [Jobs -> AnyRow], [Next]_vars
  PROVE  HeldAlone'
<1> USE ConstantsTyped, RowOps, NewRows DEF Posts, HeldAlone, HeldRuns
<1>1. CASE JobsRest
  BY <1>1 DEF JobsRest
<1>2. CASE Queues
  <2>1. \A j \in Jobs : job[j].state = "running" => job'[j] = job[j]
    BY <1>2 DEF Queues, Enqueue
  <2>2. pc' = pc /\ held' = held
    BY <1>2 DEF Queues
  <2>3. HeldRuns'
    <3> SUFFICES ASSUME NEW w \in Workers, pc[w] # "idle"
                 PROVE  job'[held[w]].state = "running"
      BY <2>2
    <3>1. held[w] \in Jobs /\ job[held[w]].state = "running"
      OBVIOUS
    <3>2. job'[held[w]] = job[held[w]]
      BY <2>1, <3>1
    <3> QED
      BY <3>1, <3>2
  <2> QED
    BY <2>2, <2>3
<1>3. ASSUME NEW w \in Workers, NEW j \in Jobs, Claim(w, j)
      PROVE  HeldAlone'
  <2>1. \A v \in Workers : held[v] # j
    BY <1>3 DEF Claim, Runnable
  <2> QED
    BY <1>3, <2>1 DEF Claim
<1>4. ASSUME NEW w \in Workers, Discard(w)
      PROVE  HeldAlone'
  BY <1>4 DEF Discard, DiscardQueued
<1>5. ASSUME NEW w \in Workers, RunFails(w)
      PROVE  HeldAlone'
  BY <1>5 DEF RunFails, LeaveAt, Working
<1>6. ASSUME NEW w \in Workers, Crash(w)
      PROVE  HeldAlone'
  BY <1>6 DEF Crash, LeaveAt
<1>7. ASSUME NEW w \in Workers, Record(w)
      PROVE  HeldAlone'
  <2>1. /\ held[w] \in Jobs
        /\ \A v \in Workers : held[v] = held[w] => v = w
    BY <1>7 DEF Record
  <2> QED
    BY <1>7, <2>1 DEF Record, LeaveAt
<1>8. ASSUME NEW w \in Workers, NEW to \in Places \ {"idle", "failed"},
             pc[w] \in {"select", "read", "write"}, pc' = [pc EXCEPT ![w] = to],
             UNCHANGED <<job, held, failures>>
      PROVE  HeldAlone'
  BY <1>8
<1>9. ASSUME NEW j \in Jobs, Reap(j)
      PROVE  HeldAlone'
  <2>1. \A w \in Workers : held[w] # j
    BY <1>9 DEF Reap, Orphan
  <2> QED
    BY <1>9, <2>1 DEF Reap, wVars
<1> QED
  BY <1>1, <1>2, <1>3, <1>4, <1>5, <1>6, <1>7, <1>8, <1>9, JobSteps

-----------------------------------------------------------------------------
\* The job of a worker that dies is orphaned, since nobody else holds it.
LEMMA CrashOrphans ==
    ASSUME Typed, HeldAlone, NEW w \in Workers, Crash(w)
    PROVE  Pending'
  <1> USE ConstantsTyped
  <1>1. PICK j \in Jobs : j = held[w] /\ job[j].state = "running"
    BY DEF Crash, HeldAlone, HeldRuns
  <1>2. \A v \in Workers : held'[v] # j
    BY <1>1 DEF Crash, HeldAlone, Typed
  <1>3. job' = job
    BY DEF Crash
  <1>4. Orphan(j)'
    BY <1>1, <1>2, <1>3 DEF Orphan
  <1> QED  BY <1>4 DEF Pending

\* A job whose attempt has failed is queued again, unless it is given up.
LEMMA FailedIsQueued ==
    ASSUME Typed, HeldAlone, ~ doubt', NEW w \in Workers, Record(w), pc[w] = "failed"
    PROVE  Pending'
  <1>1. held[w] \in Jobs /\ job[held[w]].state = "running" /\ job[held[w]] \in AnyRow
    BY DEF Record, HeldAlone, HeldRuns, Typed
  <1>2. job'[held[w]] = Retried(job[held[w]], 0) /\ job'[held[w]].state # "dead"
    BY <1>1 DEF Record, GivesUp, Typed
  <1>3. job'[held[w]].state = "queued"
    BY <1>1, <1>2, RowOps DEF AfterAttempt, Exists
  <1> QED  BY <1>1, <1>3 DEF Pending

\* The record of a run that succeeded disturbs nobody else.
LEMMA SuccessKeeps ==
    ASSUME Typed, HeldAlone, Pending, NEW w \in Workers, Record(w), pc[w] = "succeeded"
    PROVE  Pending'
  <1> USE ConstantsTyped
  <1>1. /\ held[w] \in Jobs /\ job[held[w]].state = "running"
        /\ \A j \in Jobs \ {held[w]} : job'[j] = job[j]
        /\ \A v \in Workers : held'[v] \in {held[v], NoJob}
        /\ \A v \in Workers \ {w} : pc'[v] = pc[v]
    BY DEF Record, LeaveAt, HeldAlone, HeldRuns, Typed
  <1>2. CASE \E j \in Jobs : job[j].state = "queued" \/ Orphan(j)
    <2>1. PICK j \in Jobs : job[j].state = "queued" \/ Orphan(j)
      BY <1>2
    <2>2. j # held[w]
      BY <1>1, <2>1 DEF Orphan
    <2>3. job'[j].state = "queued" \/ Orphan(j)'
      BY <1>1, <2>1, <2>2 DEF Orphan
    <2> QED  BY <2>3 DEF Pending
  <1>3. CASE \E v \in Workers : pc[v] \in {"discard", "failed"}
    BY <1>1, <1>3 DEF Pending
  <1> QED  BY <1>2, <1>3 DEF Pending

\* A rebuild that is yet to start stays so until it discards the queued jobs, or a
\* job is given up.
LEMMA PendingStays ==
    ASSUME Typed, HeldAlone, Pending, ~ doubt', [Next]_vars
    PROVE  Pending' \/ \E w \in Workers : Discard(w)
  <1> USE ConstantsTyped
  <1>1. CASE JobsRest
    BY <1>1 DEF JobsRest, Pending, Orphan
  <1>2. CASE Queues
    BY <1>2, Enqueues DEF Queues, Queued, Pending
  <1>3. ASSUME NEW w \in Workers, NEW j \in Jobs, Claim(w, j)
        PROVE  Pending'
    BY <1>3 DEF Claim, Typed, Pending
  <1>4. ASSUME NEW w \in Workers, RunFails(w)
        PROVE  Pending'
    BY <1>4 DEF RunFails, LeaveAt, Typed, Pending
  <1>5. ASSUME NEW w \in Workers, Record(w)
        PROVE  Pending'
    BY <1>5, FailedIsQueued, SuccessKeeps DEF Record
  <1>6. ASSUME NEW w \in Workers, NEW to \in Places \ {"idle", "failed"},
               pc[w] \in {"select", "read", "write"}, pc' = [pc EXCEPT ![w] = to],
               UNCHANGED <<job, held, failures>>
        PROVE  Pending'
    <2>1. \A v \in Workers : pc[v] \in {"discard", "failed"} => pc'[v] = pc[v]
      BY <1>6 DEF Typed
    <2>2. (\E v \in Workers : pc[v] \in {"discard", "failed"}) => Pending'
      BY <2>1 DEF Pending
    <2> QED  BY <1>6, <2>2 DEF Pending, Orphan
  <1>7. ASSUME NEW j \in Jobs, Reap(j)
        PROVE  Pending'
    <2>1. job[j].state = "running" /\ job'[j] = Reaped(job[j]) /\ job'[j].state # "dead"
      BY <1>7 DEF Reap, Orphan, GivesUp, Typed
    <2>2. job'[j].state = "queued"
      BY <2>1, RowOps DEF AfterAttempt, Typed
    <2> QED  BY <2>2 DEF Pending
  <1> QED  BY <1>1, <1>2, <1>3, <1>4, <1>5, <1>6, <1>7, CrashOrphans, JobSteps

\* Only the start of a rebuild settles a doubt.
LEMMA DoubtStays ==
    ASSUME doubt, ~ doubt', [Next]_vars
    PROVE  \E w \in Workers : Discard(w)
  BY DEF Next, EditBegin, Rename, KeepName, SaveCommit, SaveAbort, SaveBegin, WorkerStep, Claim,
     SelectBatch, NothingLeft, ReadSources, WriteVector, CommitBatch, Record, RunFails, Crash,
     Reap, GivesUp, vars

\* A step that changes a text or a name leaves a queued job or a doubt behind.
LEMMA ChangesQueue ==
    ASSUME Typed, ~ doubt', [Next]_vars
    PROVE  Queued' \/ UNCHANGED <<own, names>>
  <1>1. ASSUME NEW e \in Editors, EditBegin(e) \/ Rename(e) \/ KeepName(e)
        PROVE  Queued' \/ UNCHANGED <<own, names>>
    <2>1. Rename(e) => Queued'
      BY Enqueues DEF Rename
    <2>2. KeepName(e) => names' = names /\ own' = own
      BY DEF KeepName
    <2> QED  BY <1>1, <2>1, <2>2 DEF EditBegin
  <1>2. SaveCommit => Queued'
    BY Enqueues DEF SaveCommit
  <1> QED
    BY <1>1, <1>2 DEF Next, WorkerStep, SaveAbort, SaveBegin, RunFails, Crash, Reap, vars,
       srcVars, Claim, Discard, SelectBatch, NothingLeft, ReadSources, WriteVector, CommitBatch,
       Record

\* What a step leaves alone: every worker but one.
LEMMA OtherSteps ==
    ASSUME Typed, [Next]_vars
    PROVE  \/ UNCHANGED wVars
           \/ \E w \in Workers :
                /\ WorkerStep(w) \/ RunFails(w) \/ Crash(w)
                /\ \A v \in Workers \ {w} :
                     /\ pc'[v] = pc[v] /\ after'[v] = after[v] /\ cur'[v] = cur[v]
                     /\ got'[v] = got[v] /\ pend'[v] = pend[v]
  <1>1. ASSUME NEW w \in Workers, NEW v \in Workers \ {w},
               WorkerStep(w) \/ RunFails(w) \/ Crash(w)
        PROVE  /\ pc'[v] = pc[v] /\ after'[v] = after[v] /\ cur'[v] = cur[v]
               /\ got'[v] = got[v] /\ pend'[v] = pend[v]
    BY <1>1 DEF WorkerStep, RunFails, Crash, LeaveAt, Typed, Claim, Discard, SelectBatch,
       NothingLeft, ReadSources, WriteVector, CommitBatch, Record
  <1> QED
    BY <1>1 DEF Next, EditBegin, Rename, KeepName, SaveCommit, SaveAbort, SaveBegin, Reap, vars

LEMMA OpenStep ==
    ASSUME Typed, BatchesAreOpen, [Next]_vars
    PROVE  BatchesAreOpen'
  <1> USE ConstantsTyped DEF InMidBatch
  <1> SUFFICES ASSUME NEW w \in Workers
               PROVE  BatchIsOpen(w)'
    BY DEF BatchesAreOpen
  <1>0. BatchIsOpen(w)
    BY DEF BatchesAreOpen
  <1>1. ASSUME pc'[w] = pc[w], cur'[w] = cur[w], pend'[w] = pend[w]
        PROVE  BatchIsOpen(w)'
    BY <1>0, <1>1 DEF BatchIsOpen
  <1>2. ASSUME ~ InMidBatch(w)', \A p \in Products : pend'[w][p] = <<>>
        PROVE  BatchIsOpen(w)'
    BY <1>2 DEF BatchIsOpen
  <1>3. ASSUME ~ InMidBatch(w)
        PROVE  \A p \in Products : pend[w][p] = <<>>
    BY <1>0, <1>3 DEF BatchIsOpen
  <1>4. ASSUME NEW j \in Jobs, Claim(w, j)
        PROVE  BatchIsOpen(w)'
    BY <1>2, <1>3, <1>4 DEF Claim, Typed
  <1>5. CASE Discard(w)
    BY <1>2, <1>3, <1>5 DEF Discard, Typed
  <1>6. CASE SelectBatch(w)
    <2>1. pc'[w] = "read" /\ cur'[w] \in Products
          /\ \A p \in Products : pend'[w][p] = <<>>
      BY <1>3, <1>6 DEF SelectBatch, Typed, Products
    <2> QED  BY <2>1 DEF BatchIsOpen
  <1>7. CASE NothingLeft(w)
    BY <1>2, <1>3, <1>7 DEF NothingLeft, Typed
  <1>8. CASE ReadSources(w)
    <2>1. pc[w] = "read" /\ pc'[w] = "write" /\ UNCHANGED <<cur, pend>>
      BY <1>8 DEF ReadSources, Typed
    <2> QED  BY <1>0, <2>1 DEF BatchIsOpen
  <1>9. CASE WriteVector(w)
    <2>1. /\ pc[w] = "write" /\ pc'[w] = "read" /\ cur[w] \in Products /\ cur[w] < NProducts
          /\ cur'[w] = cur[w] + 1
      BY <1>0, <1>9 DEF WriteVector, Typed, InBatch, BatchIsOpen
    <2>2. \A p \in Products : pend'[w][p] = IF p = cur[w] THEN <<got[w]>> ELSE pend[w][p]
      BY <1>9, <2>1 DEF WriteVector, Typed, OpenRows
    <2>3. cur'[w] \in Products
      BY <2>1 DEF Products
    <2>4. \A p \in Products : pend'[w][p] # <<>> => p < cur'[w]
      BY <1>0, <2>1, <2>2 DEF BatchIsOpen, Products
    <2> QED  BY <2>1, <2>3, <2>4 DEF BatchIsOpen
  <1>10. CASE CommitBatch(w)
    BY <1>2, <1>10 DEF CommitBatch, Typed, NoRows
  <1>11. CASE RunFails(w) \/ Crash(w) \/ Record(w)
    BY <1>2, <1>11 DEF RunFails, Crash, Record, LeaveAt, Typed, NoRows
  <1> QED
    BY <1>1, <1>4, <1>5, <1>6, <1>7, <1>8, <1>9, <1>10, <1>11, OtherSteps DEF WorkerStep, wVars

\* A rebuild that starts while no other is in the middle of a batch, and is sure,
\* finds no batch open.
LEMMA SureDiscard ==
    ASSUME Typed, ~ doubt', NEW v \in Workers, Discard(v), NEW w \in Workers
    PROVE  ~ InMidBatch(w)'
  BY DEF Discard, InMidBatch, Typed

LEMMA BatchStep ==
    ASSUME IInv, [Next]_vars
    PROVE  BatchesAreCurrent'
  <1> USE ConstantsTyped DEF IInv
  <1> SUFFICES ASSUME ~ doubt', NEW w \in Workers
               PROVE  BatchIsCurrent(w)'
    BY DEF BatchesAreCurrent
  <1>1. BatchIsOpen(w) /\ BatchIsOpen(w)'
    BY OpenStep DEF BatchesAreOpen
  <1>2. ASSUME ~ InMidBatch(w)'
        PROVE  BatchIsCurrent(w)'
    BY <1>1, <1>2 DEF BatchIsOpen, BatchIsCurrent, InMidBatch
  <1>3. CASE \E v \in Workers : Discard(v)
    BY <1>2, <1>3, SureDiscard
  <1>4. CASE Pending'
    BY <1>4 DEF BatchIsCurrent
  <1>5. CASE ~ Pending' /\ ~ \E v \in Workers : Discard(v)
    <2>1. ~ Pending /\ BatchIsCurrent(w)
      BY <1>5, PendingStays, DoubtStays DEF BatchesAreCurrent
    <2>2. \A p \in Products : Current(p)' = Current(p)
      BY <1>5, ChangesQueue DEF Current, Pending, Queued
    <2>3. ASSUME pc'[w] = pc[w], cur'[w] = cur[w], got'[w] = got[w], pend'[w] = pend[w]
          PROVE  BatchIsCurrent(w)'
      BY <1>1, <2>1, <2>2, <2>3 DEF BatchIsOpen, BatchIsCurrent, InMidBatch
    <2>4. CASE ReadSources(w)
      <3>1. /\ pc[w] = "read" /\ cur[w] \in Products /\ got'[w] = Current(cur[w])
            /\ UNCHANGED <<cur, pend>>
        BY <1>1, <2>4 DEF ReadSources, Typed, BatchIsOpen, InMidBatch
      <3> QED  BY <2>1, <2>2, <3>1 DEF BatchIsCurrent
    <2>5. CASE WriteVector(w)
      <3>1. pc[w] = "write" /\ pc'[w] = "read" /\ cur[w] \in Products
        BY <1>1, <2>5 DEF WriteVector, Typed, BatchIsOpen, InMidBatch
      <3>2. \A p \in Products : pend'[w][p] = IF p = cur[w] THEN <<got[w]>> ELSE pend[w][p]
        BY <2>5, <3>1 DEF WriteVector, Typed, OpenRows
      <3> QED  BY <2>1, <2>2, <3>1, <3>2 DEF BatchIsCurrent
    <2>6. CASE SelectBatch(w)
      <3>1. pc'[w] = "read" /\ pend' = pend
        BY <2>6 DEF SelectBatch, Typed
      <3> QED  BY <2>1, <2>2, <3>1 DEF BatchIsCurrent
    <2>7. CASE NothingLeft(w) \/ CommitBatch(w) \/ RunFails(w) \/ Crash(w) \/ Record(w)
      BY <1>2, <2>7 DEF NothingLeft, CommitBatch, RunFails, Crash, Record, LeaveAt, Typed,
         InMidBatch
    <2>8. ASSUME NEW j \in Jobs, Claim(w, j)
          PROVE  BatchIsCurrent(w)'
      BY <1>2, <2>8 DEF Claim, Typed, InMidBatch
    <2> QED
      BY <1>5, <2>3, <2>4, <2>5, <2>6, <2>7, <2>8, OtherSteps DEF WorkerStep, wVars
  <1> QED  BY <1>3, <1>4, <1>5

-----------------------------------------------------------------------------
\* What a sure state says of a stale product.
LEMMA Covers ==
    StaleIsCovered <=> (~ doubt => \A p \in Products : Stale(p) => Covered(p))
  BY DEF StaleIsCovered, Covered, Pending, WillRefresh

\* A worker that will refresh p still will after its step, or has done so.
LEMMA RefreshStep ==
    ASSUME IInv, ~ Pending', NEW p \in Products, Current(p)' = Current(p), Stale(p)', ~ doubt',
           NEW w \in Workers, WillRefresh(w, p), WorkerStep(w) \/ RunFails(w) \/ Crash(w),
           ~ Discard(w), BatchIsCurrent(w), ~ Pending
    PROVE  WillRefresh(w, p)'
  <1> USE ConstantsTyped DEF IInv
  <1>1. BatchIsOpen(w)
    BY DEF BatchesAreOpen
  <1>2. ~ InMidBatch(w) => pend[w][p] # <<Current(p)>>
    <2>1. pend[w][p] = <<>> => pend[w][p] # <<Current(p)>>
      OBVIOUS
    <2> QED  BY <1>1, <2>1 DEF BatchIsOpen
  <1>3. \A j \in Jobs : ~ Claim(w, j)
    BY DEF Claim, Typed, Pending
  <1>4. ~ RunFails(w)
    BY DEF RunFails, LeaveAt, Typed, Pending
  <1>5. ~ Crash(w)
    BY CrashOrphans
  <1>6. ~ Record(w)
    <2>1. pc[w] = "succeeded" => ~ WillRefresh(w, p)
      BY <1>2 DEF WillRefresh, InMidBatch
    <2> QED  BY <2>1, FailedIsQueued DEF Record
  <1>7. CASE SelectBatch(w)
    <2>1. pc[w] = "select" /\ pc'[w] = "read" /\ cur'[w] = after[w] + 1
      BY <1>7 DEF SelectBatch, Typed
    <2>2. after[w] < p
      BY <1>2, <2>1 DEF WillRefresh, InMidBatch
    <2>3. cur'[w] <= p
      BY <2>1, <2>2 DEF Typed, Products
    <2> QED  BY <2>1, <2>3 DEF WillRefresh
  <1>8. ~ NothingLeft(w)
    <2>1. pc[w] = "select" => after[w] < p
      BY <1>2 DEF WillRefresh, InMidBatch
    <2> QED  BY <2>1 DEF NothingLeft, Products
  <1>9. CASE ReadSources(w)
    <2>1. pc[w] = "read" /\ pc'[w] = "write" /\ cur[w] \in Products
          /\ got'[w] = Current(cur[w]) /\ UNCHANGED <<cur, pend>>
      BY <1>1, <1>9 DEF ReadSources, Typed, BatchIsOpen, InMidBatch
    <2> QED  BY <2>1 DEF WillRefresh, Products
  <1>10. CASE WriteVector(w)
    <2>1. pc[w] = "write" /\ pc'[w] = "read" /\ cur[w] \in Products
          /\ cur'[w] = cur[w] + 1
      BY <1>1, <1>10 DEF WriteVector, Typed, BatchIsOpen, InMidBatch
    <2>2. pend'[w][p] = IF p = cur[w] THEN <<got[w]>> ELSE pend[w][p]
      BY <1>10, <2>1 DEF WriteVector, Typed, OpenRows
    <2>3. pend[w][p] = <<Current(p)>> => p < cur[w]
      BY <1>1 DEF BatchIsOpen
    <2> QED  BY <2>1, <2>2, <2>3 DEF WillRefresh, Products
  <1>11. CASE CommitBatch(w)
    <2>1. pc[w] = "write" /\ pc'[w] = "select" /\ after'[w] = cur[w] /\ cur[w] \in Products
      BY <1>1, <1>11 DEF CommitBatch, Typed, BatchIsOpen, InMidBatch
    <2>2. vec'[p] = IF p = cur[w] THEN got[w]
                    ELSE IF pend[w][p] # <<>> THEN pend[w][p][1] ELSE vec[p]
      BY <1>11 DEF CommitBatch, Commit
    <2>3. p # cur[w]
      BY <2>1, <2>2 DEF BatchIsCurrent, Stale
    <2>4. pend[w][p] = <<>>
      BY <2>2, <2>3 DEF BatchIsCurrent, Stale
    <2>5. cur[w] < p
      BY <2>1, <2>3, <2>4 DEF WillRefresh
    <2> QED  BY <2>1, <2>5 DEF WillRefresh
  <1> QED
    BY <1>3, <1>4, <1>5, <1>6, <1>7, <1>8, <1>9, <1>10, <1>11 DEF WorkerStep

\* A product that becomes stale without an edit was stale before.
LEMMA StaysStale ==
    ASSUME IInv, [Next]_vars, ~ doubt', ~ Pending', ~ Pending, ~ doubt,
           NEW p \in Products, Current(p)' = Current(p), Stale(p)'
    PROVE  Stale(p)
  <1> USE ConstantsTyped DEF IInv
  <1>1. ASSUME NEW w \in Workers, CommitBatch(w)
        PROVE  Stale(p)
    <2>1. BatchIsOpen(w) /\ BatchIsCurrent(w) /\ pc[w] = "write" /\ cur[w] \in Products
      BY <1>1 DEF BatchesAreOpen, BatchesAreCurrent, BatchIsOpen, InMidBatch, CommitBatch
    <2>2. vec'[p] = IF p = cur[w] THEN got[w]
                    ELSE IF pend[w][p] # <<>> THEN pend[w][p][1] ELSE vec[p]
      BY <1>1 DEF CommitBatch, Commit
    <2>3. p # cur[w]
      BY <2>1, <2>2 DEF BatchIsCurrent, Stale
    <2>4. pend[w][p] = <<>>
      BY <2>1, <2>2, <2>3 DEF BatchIsCurrent, Stale
    <2> QED  BY <2>2, <2>3, <2>4 DEF Stale
  <1>2. ~ SaveCommit
    BY Enqueues DEF SaveCommit, Pending, Queued
  <1>3. ~ (\E w \in Workers : CommitBatch(w)) => vec' = vec
    BY <1>2 DEF Next, EditBegin, Rename, KeepName, SaveAbort, SaveBegin, WorkerStep, Claim,
       Discard, SelectBatch, NothingLeft, ReadSources, WriteVector, Record, RunFails, Crash,
       Reap, vars
  <1> QED  BY <1>1, <1>3 DEF Stale

LEMMA CoveredStep ==
    ASSUME IInv, [Next]_vars
    PROVE  StaleIsCovered'
  <1> USE ConstantsTyped DEF IInv
  <1> SUFFICES ASSUME ~ doubt', ~ Pending', NEW p \in Products, Stale(p)'
               PROVE  \E w \in Workers : WillRefresh(w, p)'
    BY DEF StaleIsCovered, Pending, WillRefresh
  <1>1. ASSUME NEW w \in Workers, Discard(w)
        PROVE  WillRefresh(w, p)'
    BY <1>1 DEF Discard, Typed, WillRefresh, Products
  <1>2. CASE ~ \E w \in Workers : Discard(w)
    <2>1. ~ Pending /\ ~ doubt
      BY <1>2, PendingStays, DoubtStays
    <2>2. Current(p)' = Current(p)
      BY ChangesQueue DEF Current, Pending, Queued
    <2>3. PICK w \in Workers : WillRefresh(w, p)
      BY <2>1, <2>2, StaysStale, Covers DEF Covered
    <2>4. BatchIsCurrent(w)
      BY <2>1 DEF BatchesAreCurrent
    <2>5. CASE /\ pc'[w] = pc[w] /\ after'[w] = after[w] /\ cur'[w] = cur[w]
               /\ got'[w] = got[w] /\ pend'[w] = pend[w]
      BY <2>2, <2>3, <2>5 DEF WillRefresh
    <2>6. CASE WorkerStep(w) \/ RunFails(w) \/ Crash(w)
      BY <1>2, <2>1, <2>2, <2>3, <2>4, <2>6, RefreshStep
    <2> QED  BY <2>5, <2>6, OtherSteps DEF wVars
  <1> QED  BY <1>1, <1>2

-----------------------------------------------------------------------------
LEMMA Initially == Init => IInv
  <1> SUFFICES ASSUME Init
               PROVE  IInv
    OBVIOUS
  <1> USE ConstantsTyped, BlankTyped
  <1>1. \A j \in Jobs : job[j] \in AnyRow /\ job[j].state = "absent"
    BY NewRows DEF Init, JobState
  <1>2. Typed
    BY <1>1, NewRows DEF Init, Typed, Places, JobState
  <1>3. HeldAlone
    BY <1>1 DEF Init, HeldAlone, HeldRuns
  <1>4. BatchesAreOpen /\ BatchesAreCurrent
    BY DEF Init, BatchesAreOpen, BatchIsOpen, BatchesAreCurrent, BatchIsCurrent, InMidBatch, NoRows
  <1>5. StaleIsCovered
    BY DEF Init, StaleIsCovered, Stale, Current, Unset
  <1> QED  BY <1>2, <1>3, <1>4, <1>5 DEF IInv

(* "This run reads the current state, so it covers all of them" (catalog.go): with *)
(* any number of workers, editors, failures and edits, a stale product has a job   *)
(* or a run to come, unless one of the three ways to lose an edit has been taken   *)
(* since a rebuild last started (doubt).                                           *)
THEOREM NoEditIsForgotten == Spec => []StaleIsCovered
  <1>1. IInv => Posts /\ job \in [Jobs -> AnyRow]
    BY DEF IInv, Typed, Posts
  <1>2. IInv /\ [Next]_vars => IInv'
    BY <1>1, TypedStep, HeldAloneStep, OpenStep, BatchStep, CoveredStep DEF IInv, HeldAlone
  <1>3. IInv => StaleIsCovered
    BY DEF IInv
  <1> QED  BY <1>2, <1>3, Initially, PTL DEF Spec

-----------------------------------------------------------------------------
(* The life of a job.                                                            *)

\* A row that waits has attempts left.
GoodRow == {r \in [state : JobState, attempts : 0..MaxAttempts, age : Int, due : Int] :
              r.state = "queued" => r.attempts < MaxAttempts}

RowsGood == job \in [Jobs -> GoodRow]

\* JobLife's step, seen by one row.
LifeMove(r, s) ==
  \/ r.state = "absent" /\ s.state = "queued" /\ s.attempts = 0
  \/ /\ r.state = "queued" /\ r.attempts < MaxAttempts
     /\ s.state = "running" /\ s.attempts = r.attempts + 1
  \/ r.state = "running" /\ s.state \in {"done", "failed"} /\ s.attempts = r.attempts
  \/ /\ r.state = "running" /\ s.attempts = r.attempts
     /\ s.state = IF r.attempts < MaxAttempts THEN "queued" ELSE "dead"
  \/ r.state \in Final \cup {"queued"} /\ s.state = "gone" /\ s.attempts = 0
  \/ s.state = r.state /\ s.attempts = r.attempts

\* A row moves on well.
Lives(r, s) == s \in GoodRow /\ LifeMove(r, s)

LEMMA RowsLive ==
  ASSUME NEW r \in GoodRow
  PROVE  /\ Lives(r, r)
         /\ r.state = "absent" => Lives(r, Enqueued)
         /\ Runnable(r) => Lives(r, Claimed(r))
         /\ r.state = "queued" => Lives(r, Vacant("gone"))
         /\ r.state = "running" =>
              Lives(r, Reaped(r)) /\ Lives(r, Completed(r)) /\ Lives(r, Retried(r, 0))
<1> USE JobTableAssumption DEF GoodRow, JobState, Final, Updated, Lives, LifeMove
<1>1. Lives(r, r)
  OBVIOUS
<1>2. r.state = "absent" => Lives(r, Enqueued)
  BY DEF Enqueued
<1>3. Runnable(r) => Lives(r, Claimed(r))
  BY DEF Runnable, Claimed
<1>4. r.state = "queued" => Lives(r, Vacant("gone"))
  BY DEF Vacant
<1>5. r.state = "running" => Lives(r, Reaped(r)) /\ Lives(r, Retried(r, 0))
  BY DEF Reaped, Retried, AfterAttempt, Exists
<1>6. r.state = "running" => Lives(r, Completed(r))
  BY DEF Completed, Exists
<1> QED
  BY <1>1, <1>2, <1>3, <1>4, <1>5, <1>6

LInv == Posts /\ HeldAlone /\ RowsGood

LEMMA JobsLive ==
  ASSUME LInv, [Next]_vars
  PROVE  RowsGood' /\ \A j \in Jobs : Lives(job[j], job'[j])
<1>1. Posts /\ HeldAlone /\ \A j \in Jobs : job[j] \in GoodRow
  BY DEF LInv, RowsGood
<1>2. ASSUME NEW j \in Jobs, NEW r, Lives(job[j], r), job' = [job EXCEPT ![j] = r]
      PROVE  RowsGood' /\ \A i \in Jobs : Lives(job[i], job'[i])
  BY <1>1, <1>2, RowsLive DEF LInv, RowsGood, Lives
<1>3. CASE UNCHANGED job
  BY <1>1, <1>3, RowsLive DEF LInv, RowsGood
<1>4. CASE Enqueue
  <2>1. PICK j \in Jobs : job[j].state = "absent" /\ job' = [job EXCEPT ![j] = Enqueued]
    BY <1>4 DEF Enqueue
  <2>2. Lives(job[j], Enqueued)
    BY <1>1, <2>1, RowsLive
  <2> QED
    BY <1>2, <2>1, <2>2
<1>5. ASSUME NEW w \in Workers, NEW j \in Jobs, Claim(w, j)
      PROVE  RowsGood' /\ \A i \in Jobs : Lives(job[i], job'[i])
  <2>1. Lives(job[j], Claimed(job[j])) /\ job' = [job EXCEPT ![j] = Claimed(job[j])]
    BY <1>1, <1>5, RowsLive DEF Claim
  <2> QED
    BY <1>2, <2>1
<1>6. ASSUME NEW w \in Workers, Discard(w)
      PROVE  RowsGood' /\ \A i \in Jobs : Lives(job[i], job'[i])
  <2>1. \A i \in Jobs : job'[i] \in {job[i], Vacant("gone")}
                       /\ (job'[i] # job[i] => job[i].state = "queued")
    BY <1>6 DEF Discard, DiscardQueued
  <2>2. \A i \in Jobs : Lives(job[i], job'[i])
    BY <1>1, <2>1, RowsLive
  <2>3. job' \in [Jobs -> GoodRow]
    BY <1>6, <2>2 DEF Discard, DiscardQueued, Lives
  <2> QED
    BY <2>2, <2>3 DEF RowsGood
<1>7. ASSUME NEW w \in Workers, Record(w)
      PROVE  RowsGood' /\ \A i \in Jobs : Lives(job[i], job'[i])
  <2>1. held[w] \in Jobs /\ job[held[w]].state = "running"
    BY <1>1, <1>7 DEF HeldAlone, HeldRuns, Record
  <2>2. PICK r \in {Completed(job[held[w]]), Retried(job[held[w]], 0)} :
             job' = [job EXCEPT ![held[w]] = r]
    BY <1>7 DEF Record
  <2>3. Lives(job[held[w]], r)
    BY <1>1, <2>1, <2>2, RowsLive
  <2> QED
    BY <1>2, <2>1, <2>2, <2>3
<1>8. ASSUME NEW j \in Jobs, Reap(j)
      PROVE  RowsGood' /\ \A i \in Jobs : Lives(job[i], job'[i])
  <2>1. Lives(job[j], Reaped(job[j])) /\ job' = [job EXCEPT ![j] = Reaped(job[j])]
    BY <1>1, <1>8, RowsLive DEF Reap, Orphan
  <2> QED
    BY <1>2, <2>1
<1> QED
  BY <1>3, <1>4, <1>5, <1>6, <1>7, <1>8, JobSteps DEF JobsRest, Queues, RunFails, Crash

LEMMA LifeImplemented ==
  ASSUME RowsGood, \A j \in Jobs : Lives(job[j], job'[j]), RowsGood'
  PROVE  Life!Next
<1>1. /\ [j \in Jobs |-> job'[j].state] \in
            [Jobs -> {"absent", "queued", "running", "gone"} \cup Life!Settled]
      /\ [j \in Jobs |-> job'[j].attempts] \in [Jobs -> 0..MaxAttempts]
  BY DEF RowsGood, GoodRow, JobState, Final, Life!Settled
<1>2. ASSUME NEW j \in Jobs
      PROVE  \/ Life!Submit(j) \/ Life!Hand(j) \/ Life!Settle(j)
             \/ Life!GiveBack(j) \/ Life!Withdraw(j) \/ Life!Forget(j)
             \/ Life!Keep(j)
  BY DEF Lives, LifeMove, Final, Life!Settled, Life!Submit, Life!Hand,
     Life!Settle, Life!GiveBack, Life!Withdraw, Life!Forget, Life!Keep
<1> QED
  BY <1>1, <1>2 DEF Life!Next

\* The reindex jobs implement JobLife for any number of workers, editors and
\* failures: a discarded job was run by nobody, and none is run too often.
THEOREM JobsKeepTheirLife == Spec => KeepsJobLife
<1>1. Init => Life!Init
  BY DEF Init, Life!Init, Vacant
<1>2. Init => LInv
  BY JobTableAssumption, ConstantsTyped
     DEF Init, LInv, Posts, Places, HeldAlone, HeldRuns, RowsGood, GoodRow, Vacant,
         JobState, Final
<1>3. LInv /\ [Next]_vars => LInv' /\ [Life!Next]_(Life!lifeVars)
  <2>1. RowsGood => job \in [Jobs -> AnyRow]
    BY DEF RowsGood, GoodRow, AnyRow
  <2> QED
    BY <2>1, PostsStep, HeldAloneStep, JobsLive, LifeImplemented DEF LInv, HeldAlone
<1> QED
  BY <1>1, <1>2, <1>3, PTL DEF Spec, KeepsJobLife, Life!Spec
=============================================================================
