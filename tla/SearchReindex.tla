---------------------------- MODULE SearchReindex ----------------------------
(***************************************************************************)
(* Keeping products.search_vector up to date.                              *)
(*                                                                         *)
(* A vector is built from the product's own text and from names it shares  *)
(* with other products (brand, category, option labels).  Saving a product *)
(* rebuilds its vector in a row trigger; renaming something shared only    *)
(* queues a reindex_search job, in the same transaction.  The handler      *)
(* (service.Catalog.ReindexSearch) first discards every other queued       *)
(* reindex job and then rebuilds all vectors, a batch per transaction.     *)
(*                                                                         *)
(* PostgreSQL runs this at READ COMMITTED: inside                          *)
(* products_refresh_search_vector the SELECT and the UPDATE see different  *)
(* snapshots, the UPDATE waits for the row's lock, and what a batch wrote  *)
(* is visible only when its statement ends.                                *)
(*                                                                         *)
(* Versions stand for texts.  The jobs are rows of JobTable without the    *)
(* clock: that a row is reaped only when no worker holds it is what        *)
(* JobQueue shows (LeaseHeld).                                             *)
(***************************************************************************)
EXTENDS JobTable

CONSTANTS
    NProducts,   \* products are 1..NProducts, in the order of their ids
    Batch,       \* reindexBatch
    Editors,     \* admins who edit a brand or an option at the same time
    Workers,     \* workers of all runners
    NoJob,
    MaxEdits,    \* bound: committed edits, each queues one job
    MaxFailures  \* bound: failing statements and crashes in one behaviour

Products == 1..NProducts
Jobs == 1..MaxEdits

ASSUME SearchReindexAssumption ==
    /\ NProducts \in Nat \ {0} /\ Batch \in Nat \ {0}
    /\ MaxEdits \in Nat /\ MaxFailures \in Nat
    /\ NoJob \notin Jobs

VARIABLES
    own,      \* version of each product's own text
    names,    \* version of the shared names
    vec,      \* search_vector: the versions it was built from
    seen,     \* the name each open edit of a shared name has read, or NoEdit
    save,     \* the product an admin's open transaction has written, or 0
    saved,    \* the vector its row trigger computed
    job,      \* the reindex_search rows of the jobs table
    pc, held, \* each worker, and the job it runs
    after,    \* ReindexSearch's cursor
    cur,      \* the product products_refresh_search_vector is at
    got,      \* what its SELECT returned
    pend,     \* vectors written by the open batch, row by row
    failures,
    doubt     \* history: an edit may have been lost since a rebuild last started

srcVars == <<own, names, seen, save, saved>>
wVars == <<pc, held, after, cur, got, pend>>
vars == <<srcVars, vec, job, wVars, failures, doubt>>

Vector == [own : 0..MaxEdits, names : 0..MaxEdits]
Unset == [own |-> 0, names |-> 0]
NoEdit == -1
NoRows == [p \in Products |-> <<>>]

\* What a vector built from committed data now would be.
Current(p) == [own |-> own[p], names |-> names]

Init ==
    /\ own = [p \in Products |-> 0] /\ names = 0
    /\ seen = [e \in Editors |-> NoEdit]
    /\ vec = [p \in Products |-> Unset]
    /\ save = 0 /\ saved = Unset
    /\ job = [j \in Jobs |-> Vacant("absent")]
    /\ pc = [w \in Workers |-> "idle"] /\ held = [w \in Workers |-> NoJob]
    /\ after = [w \in Workers |-> 0] /\ cur = [w \in Workers |-> 0]
    /\ got = [w \in Workers |-> Unset]
    /\ pend = [w \in Workers |-> NoRows]
    /\ failures = 0 /\ doubt = FALSE

-----------------------------------------------------------------------------
\* Store.Enqueue, or trg_enqueue_reindex, inside the caller's transaction.
Enqueue == \E j \in Jobs :
    /\ job[j].state = "absent" /\ \A i \in 1..(j - 1) : job[i].state # "absent"
    /\ job' = [job EXCEPT ![j] = Enqueued]

\* UpdateBrand, UpdateOption (and UpdateCategory and DeleteBrand, which admit
\* fewer interleavings): the transaction reads the row it will replace.
EditBegin(e) ==
    /\ seen[e] = NoEdit
    /\ \E j \in Jobs : job[j].state = "absent"
    /\ seen' = [seen EXCEPT ![e] = names]
    /\ UNCHANGED <<own, names, save, saved, vec, job, wVars, failures, doubt>>

\* Mutant of Rename: the job is not queued.
RenameOnly(e) ==
    /\ seen[e] # NoEdit /\ names < MaxEdits
    /\ names' = names + 1
    /\ seen' = [seen EXCEPT ![e] = NoEdit]
    /\ UNCHANGED <<own, save, saved, vec, job, wVars, failures, doubt>>

\* It writes a new name, and because that differs from the name read it queues
\* a job; the number of the job serves as the new name.
Rename(e) ==
    /\ seen[e] # NoEdit
    /\ Enqueue
    /\ names' = CHOOSE j \in Jobs : job'[j] # job[j]
    /\ seen' = [seen EXCEPT ![e] = NoEdit]
    /\ UNCHANGED <<own, save, saved, vec, wVars, failures, doubt>>

\* It writes the name it has read, having changed something else: no job, and a
\* name another admin gave meanwhile is gone again.
KeepName(e) ==
    /\ seen[e] # NoEdit
    /\ names' = seen[e]
    /\ doubt' = (doubt \/ seen[e] # names)
    /\ seen' = [seen EXCEPT ![e] = NoEdit]
    /\ UNCHANGED <<own, save, saved, vec, job, wVars, failures>>

Locked(p) == save = p \/ \E w \in Workers : pend[w][p] # <<>>

\* A product save writes its row, which it locks; the row trigger computes the
\* vector from the new text and the shared names committed by now.
SaveBegin(p) ==
    /\ save = 0 /\ ~ Locked(p) /\ \E j \in Jobs : job[j].state = "absent"
    /\ save' = p
    /\ saved' = [own |-> own[p] + 1, names |-> names]
    /\ UNCHANGED <<own, names, seen, vec, job, wVars, failures, doubt>>

\* It commits; its writes to variants and values have queued a job.
SaveCommit ==
    /\ save # 0
    /\ own' = [own EXCEPT ![save] = @ + 1]
    /\ vec' = [vec EXCEPT ![save] = saved]
    /\ Enqueue
    /\ save' = 0 /\ saved' = Unset
    /\ UNCHANGED <<names, seen, wVars, failures, doubt>>

SaveAbort ==
    /\ save # 0
    /\ save' = 0 /\ saved' = Unset
    /\ UNCHANGED <<own, names, seen, vec, job, wVars, failures, doubt>>

-----------------------------------------------------------------------------
Claim(w, j) ==
    /\ pc[w] = "idle" /\ Runnable(job[j])
    /\ job' = [job EXCEPT ![j] = Claimed(@)]
    /\ pc' = [pc EXCEPT ![w] = "discard"] /\ held' = [held EXCEPT ![w] = j]
    /\ UNCHANGED <<srcVars, vec, after, cur, got, pend, failures, doubt>>

DiscardQueued == [j \in Jobs |-> IF job[j].state = "queued" THEN Vacant("gone")
                                 ELSE job[j]]

InMidBatch(w) == pc[w] \in {"read", "write"}

\* ReindexSearch: DiscardQueuedJobsByKind comes before the first batch.  It covers
\* every edit so far by itself, unless another rebuild is in the middle of a batch:
\* what that one has read may be older than the edits, and may land last.
Discard(w) ==
    /\ pc[w] = "discard"
    /\ doubt' = \E v \in Workers \ {w} : InMidBatch(v)
    /\ job' = DiscardQueued
    /\ pc' = [pc EXCEPT ![w] = "select"]
    /\ after' = [after EXCEPT ![w] = 0]
    /\ UNCHANGED <<srcVars, vec, held, cur, got, pend, failures>>

\* RefreshSearchVectors: the next batch of ids.
SelectBatch(w) ==
    /\ pc[w] = "select" /\ after[w] < NProducts
    /\ pc' = [pc EXCEPT ![w] = "read"]
    /\ cur' = [cur EXCEPT ![w] = after[w] + 1]
    /\ UNCHANGED <<srcVars, vec, job, held, after, got, pend, failures, doubt>>

\* Mutant of NothingLeft: the queued jobs are discarded at the end instead.
DiscardAtEnd(w) ==
    /\ pc[w] = "select" /\ after[w] = NProducts
    /\ job' = DiscardQueued
    /\ pc' = [pc EXCEPT ![w] = "succeeded"]
    /\ UNCHANGED <<srcVars, vec, held, after, cur, got, pend, failures, doubt>>

NothingLeft(w) ==
    /\ pc[w] = "select" /\ after[w] = NProducts
    /\ pc' = [pc EXCEPT ![w] = "succeeded"]
    /\ UNCHANGED <<srcVars, vec, job, held, after, cur, got, pend, failures, doubt>>

\* products_refresh_search_vector: SELECT ... INTO v.
ReadSources(w) ==
    /\ pc[w] = "read"
    /\ got' = [got EXCEPT ![w] = Current(cur[w])]
    /\ pc' = [pc EXCEPT ![w] = "write"]
    /\ UNCHANGED <<srcVars, vec, job, held, after, cur, pend, failures, doubt>>

InBatch(w) == cur[w] < NProducts /\ cur[w] < after[w] + Batch

\* Its UPDATE, once the row is free; another row of the batch follows.
WriteVector(w) ==
    /\ pc[w] = "write" /\ ~ Locked(cur[w]) /\ InBatch(w)
    /\ pend' = [pend EXCEPT ![w][cur[w]] = <<got[w]>>]
    /\ cur' = [cur EXCEPT ![w] = @ + 1]
    /\ pc' = [pc EXCEPT ![w] = "read"]
    /\ got' = [got EXCEPT ![w] = Unset]
    /\ UNCHANGED <<srcVars, vec, job, held, after, failures, doubt>>

Commit(w) ==
    vec' = [p \in Products |-> IF p = cur[w] THEN got[w]
                               ELSE IF pend[w][p] # <<>> THEN pend[w][p][1]
                               ELSE vec[p]]

\* The UPDATE of the batch's last row, with which the statement commits.
CommitBatch(w) ==
    /\ pc[w] = "write" /\ ~ Locked(cur[w]) /\ ~ InBatch(w)
    /\ Commit(w)
    /\ pend' = [pend EXCEPT ![w] = NoRows]
    /\ after' = [after EXCEPT ![w] = cur[w]]
    /\ cur' = [cur EXCEPT ![w] = 0]
    /\ pc' = [pc EXCEPT ![w] = "select"]
    /\ got' = [got EXCEPT ![w] = Unset]
    /\ UNCHANGED <<srcVars, job, held, failures, doubt>>

Working(w) == pc[w] \in {"discard", "select", "read", "write"}

\* A run ends: its open statement, if any, is rolled back.
LeaveAt(w, where) ==
    /\ pc' = [pc EXCEPT ![w] = where]
    /\ after' = [after EXCEPT ![w] = 0] /\ cur' = [cur EXCEPT ![w] = 0]
    /\ got' = [got EXCEPT ![w] = Unset] /\ pend' = [pend EXCEPT ![w] = NoRows]

\* A statement of the run fails, or the run's deadline passes.
RunFails(w) ==
    /\ Working(w) /\ failures < MaxFailures
    /\ failures' = failures + 1
    /\ LeaveAt(w, "failed")
    /\ UNCHANGED <<srcVars, vec, job, held, doubt>>

\* The job j is given up: its last attempt has failed.
GivesUp(j) == doubt' = (doubt \/ job'[j].state = "dead")

\* CompleteJob or RetryJob.
Record(w) ==
    /\ pc[w] \in {"succeeded", "failed"}
    /\ job' = [job EXCEPT ![held[w]] =
                 IF pc[w] = "succeeded" THEN Completed(@) ELSE Retried(@, 0)]
    /\ GivesUp(held[w])
    /\ LeaveAt(w, "idle")
    /\ held' = [held EXCEPT ![w] = NoJob]
    /\ UNCHANGED <<srcVars, vec, failures>>

\* The worker's process dies, or the result of the run cannot be recorded.
Crash(w) ==
    /\ pc[w] # "idle" /\ failures < MaxFailures
    /\ failures' = failures + 1
    /\ LeaveAt(w, "idle")
    /\ held' = [held EXCEPT ![w] = NoJob]
    /\ UNCHANGED <<srcVars, vec, job, doubt>>

Orphan(j) == job[j].state = "running" /\ \A w \in Workers : held[w] # j

Reap(j) ==
    /\ Orphan(j)
    /\ job' = [job EXCEPT ![j] = Reaped(@)]
    /\ GivesUp(j)
    /\ UNCHANGED <<srcVars, vec, wVars, failures>>

-----------------------------------------------------------------------------
WorkerStep(w) ==
    \/ \E j \in Jobs : Claim(w, j)
    \/ Discard(w) \/ SelectBatch(w) \/ NothingLeft(w) \/ ReadSources(w)
    \/ WriteVector(w) \/ CommitBatch(w) \/ Record(w)

Next ==
    \/ \E e \in Editors : EditBegin(e) \/ Rename(e) \/ KeepName(e)
    \/ SaveCommit \/ SaveAbort
    \/ \E p \in Products : SaveBegin(p)
    \/ \E w \in Workers : WorkerStep(w) \/ RunFails(w) \/ Crash(w)
    \/ \E j \in Jobs : Reap(j)

Spec == Init /\ [][Next]_vars

\* Workers poll and run, transactions end, the maintenance loop reaps.  The
\* server grants a row lock in the order it was asked for: a rebuild that waits
\* for a product's row is not overtaken by saves for ever.
FairSpec ==
    /\ Spec
    /\ WF_vars(SaveCommit \/ SaveAbort)
    /\ \A w \in Workers :
         WF_vars(WorkerStep(w)) /\ SF_vars(WriteVector(w) \/ CommitBatch(w))
    /\ \A j \in Jobs : WF_vars(Reap(j))

-----------------------------------------------------------------------------
TypeOK ==
    /\ own \in [Products -> 0..MaxEdits] /\ names \in 0..MaxEdits
    /\ seen \in [Editors -> 0..MaxEdits \cup {NoEdit}]
    /\ vec \in [Products -> Vector]
    /\ save \in Products \cup {0} /\ saved \in Vector
    /\ job \in [Jobs -> Row]
    /\ pc \in [Workers -> {"idle", "discard", "select", "read", "write",
                           "succeeded", "failed"}]
    /\ held \in [Workers -> Jobs \cup {NoJob}]
    /\ after \in [Workers -> 0..NProducts] /\ cur \in [Workers -> 0..NProducts]
    /\ got \in [Workers -> Vector]
    /\ pend \in [Workers -> [Products -> {<<>>} \cup {<<v>> : v \in Vector}]]
    /\ failures \in 0..MaxFailures /\ doubt \in BOOLEAN

Stale(p) == vec[p] # Current(p)

\* The run of w will still bring p up to date: it has yet to read p's sources,
\* or has read the current ones and has yet to commit them.
WillRefresh(w, p) ==
    \/ pc[w] \in {"discard", "failed"}
    \/ pc[w] = "select" /\ after[w] < p
    \/ pc[w] = "read" /\ cur[w] <= p
    \/ pc[w] = "write" /\ cur[w] < p
    \/ pc[w] = "write" /\ cur[w] = p /\ got[w] = Current(p)
    \/ pend[w][p] = <<Current(p)>>

(* "This run reads the current state, so it covers all of them" (catalog.go,
   jobs.sql): however edits interleave with the rebuilds of several workers, and
   rebuilds fail, a product whose vector is stale has a job queued, or abandoned
   and about to be reaped, or a run that will still refresh it.  Excepted, until
   the next rebuild starts, are the three ways in which the code does lose an
   edit: a rebuild that discards jobs while another is in the middle of a batch,
   an admin who puts back the name another has just changed, and a job given up
   after its last attempt (doubt). *)
StaleIsCovered ==
    ~ doubt => \A p \in Products : Stale(p) =>
        \/ \E j \in Jobs : job[j].state = "queued" \/ Orphan(j)
        \/ \E w \in Workers : WillRefresh(w, p)

(* When no reindex job waits or runs, search finds every product under its
   current names: nothing an edit queued was lost by coalescing, with no
   exception.  The code does not keep this. *)
QuietIsFresh ==
    (\A j \in Jobs : job[j].state \notin {"queued", "running"}) =>
        \A p \in Products : ~ Stale(p)

(* "It covers all of them" (catalog.go) without exception: the newest name, when a
   run has discarded its job, is in every vector, or on its way there, however
   often that run fails. *)
DiscardedIsCovered ==
    names # 0 /\ job[names].state = "gone" =>
        \A p \in Products :
            \/ vec[p].names = names
            \/ \E j \in Jobs : job[j].state = "queued" \/ Orphan(j)
            \/ \E w \in Workers : WillRefresh(w, p)

(* The reindex jobs, discarded, retried, reaped and run by several workers, live as
   JobLife says: coalescing withdraws only jobs nobody runs. *)
Life == INSTANCE JobLife WITH
          phase <- [j \in Jobs |-> job[j].state],
          runs  <- [j \in Jobs |-> job[j].attempts]
KeepsJobLife == Life!Spec

(* After the last edit every vector becomes, and stays, current, with two workers
   and two admins as with one: unless the last rebuild left a doubt (see
   StaleIsCovered), it ends what the edits began. *)
EventuallyFresh == <>[](doubt \/ \A p \in Products : ~ Stale(p))
=============================================================================
