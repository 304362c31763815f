---------------------------- MODULE ImportReview ----------------------------
(***************************************************************************)
(* Reviewing, aborting and committing one import batch                     *)
(* (internal/importer/importer.go, db/queries/imports.sql), by several     *)
(* admins at once.                                                         *)
(*                                                                         *)
(* Every request is one transaction at READ COMMITTED: each statement sees *)
(* what is committed when it starts, an UPDATE locks its row until the     *)
(* transaction ends, and a transaction's own writes become visible when it *)
(* commits.  A request's steps are its statements; statements that read    *)
(* what never changes are merged with their neighbours.                    *)
(***************************************************************************)
EXTENDS Integers

CONSTANTS
    NRows,      \* the rows of the batch are 1..NRows, in id order
    Faulty,     \* rows with an error among their issues
    Mergeable,  \* rows with a TargetVariantID in their proposal
    Admins,     \* concurrent requests
    Nobody

Rows == 1..NRows

ASSUME ImportReviewAssumption ==
    /\ NRows \in Nat /\ Faulty \subseteq Rows /\ Mergeable \subseteq Rows
    /\ Nobody \notin Admins

VARIABLES
    status,     \* import_batches.status
    decision,   \* import_rows.decision
    target,     \* whether import_rows.target_product_id is set
    applied,    \* what a commit has done with the row in the catalogue
    pc, row, want, \* each admin's request, and the row and decision of SetDecision
    batchLock,  \* who has updated the batch row
    rowLock,    \* who has updated each import row
    list,       \* what Commit's ListAllImportRows returned
    at,         \* the row Commit is about to apply
    raced       \* history: rows decided while a commit was under way

table == <<status, decision, target, applied>>
locks == <<batchLock, rowLock>>
vars == <<table, pc, row, want, locks, list, at, raced>>

Open == {"dry_run", "reviewing"}
Decision == {"pending", "accept", "skip", "merge"}
Applying == {"accept", "merge"}
Listing == [decision : [Rows -> Decision], target : [Rows -> BOOLEAN]]

\* The decisions Stage proposes: none is an accept or a merge of a faulty row.
Staged(r) == CASE r \in Faulty    -> {"pending", "skip"}
               [] r \in Mergeable -> {"merge"}
               [] OTHER           -> {"accept", "pending", "skip"}

Unlisted == [decision |-> [r \in Rows |-> "pending"],
             target   |-> [r \in Rows |-> FALSE]]

StagedStatus == "dry_run"

Init ==
    /\ status = StagedStatus
    /\ decision \in [Rows -> Decision] /\ \A r \in Rows : decision[r] \in Staged(r)
    /\ target = [r \in Rows |-> r \in Mergeable]
    /\ applied = [r \in Rows |-> "no"]
    /\ pc = [a \in Admins |-> "idle"]
    /\ row = [a \in Admins |-> 0] /\ want = [a \in Admins |-> "pending"]
    /\ batchLock = Nobody /\ rowLock = [r \in Rows |-> Nobody]
    /\ list = [a \in Admins |-> Unlisted] /\ at = [a \in Admins |-> 0]
    /\ raced = {}

-----------------------------------------------------------------------------
\* The request of a ends: its transaction's locks go, its memory too.
End(a) ==
    /\ pc' = [pc EXCEPT ![a] = "idle"]
    /\ row' = [row EXCEPT ![a] = 0] /\ want' = [want EXCEPT ![a] = "pending"]
    /\ batchLock' = IF batchLock = a THEN Nobody ELSE batchLock
    /\ rowLock' = [r \in Rows |-> IF rowLock[r] = a THEN Nobody ELSE rowLock[r]]
    /\ list' = [list EXCEPT ![a] = Unlisted] /\ at' = [at EXCEPT ![a] = 0]

Goto(a, where) ==
    /\ pc' = [pc EXCEPT ![a] = where]
    /\ UNCHANGED <<table, row, want, list, raced>>

Committing(a) == pc[a] \in {"close", "list", "apply"}

\* SetDecision's checks of the row, whose issues and proposal never change.
MayDecide(r, d) ==
    /\ d = "accept" => r \notin Faulty
    /\ d = "merge" => r \in Mergeable

\* SetDecision: the batch, read without a lock, is open, and d is acceptable.
Decide(a, r, d) ==
    /\ pc[a] = "idle" /\ status \in Open /\ MayDecide(r, d)
    /\ row' = [row EXCEPT ![a] = r] /\ want' = [want EXCEPT ![a] = d]
    /\ pc' = [pc EXCEPT ![a] = "decide"]
    /\ UNCHANGED <<table, locks, list, at, raced>>

\* SetImportRowDecision.
WriteDecision(a) ==
    /\ pc[a] = "decide" /\ rowLock[row[a]] = Nobody
    /\ rowLock' = [rowLock EXCEPT ![row[a]] = a]
    /\ Goto(a, "mark")
    /\ UNCHANGED <<batchLock, at>>

\* SetImportBatchStatus to reviewing: it waits for the batch row only when it
\* finds it in dry_run, and changes nothing otherwise.  Then the commit.
MarkReviewing(a) ==
    /\ pc[a] = "mark" /\ (status = "dry_run" => batchLock = Nobody)
    /\ status' = IF status = "dry_run" THEN "reviewing" ELSE status
    /\ decision' = [decision EXCEPT ![row[a]] = want[a]]
    /\ raced' = IF status \notin Open \/ \E b \in Admins : Committing(b)
                THEN raced \cup {row[a]} ELSE raced
    /\ End(a)
    /\ UNCHANGED <<target, applied>>

\* Abort: one guarded UPDATE, which waits for the batch row.
Abort(a) ==
    /\ pc[a] = "idle" /\ status \in Open /\ batchLock = Nobody
    /\ status' = "aborted"
    /\ UNCHANGED <<decision, target, applied, pc, row, want, locks, list, at, raced>>

\* Mutant of Commit: the pending rows are not counted.
CommitUncounted(a) ==
    /\ pc[a] = "idle" /\ status \in Open
    /\ pc' = [pc EXCEPT ![a] = "close"]
    /\ raced' = IF \E b \in Admins : Committing(b) THEN raced ELSE {}
    /\ UNCHANGED <<table, row, want, locks, list, at>>

\* Commit: the batch is open and no row is pending, read without a lock.
Commit(a) ==
    /\ pc[a] = "idle" /\ status \in Open
    /\ \A r \in Rows : decision[r] # "pending"
    /\ pc' = [pc EXCEPT ![a] = "close"]
    /\ raced' = IF \E b \in Admins : Committing(b) THEN raced ELSE {}
    /\ UNCHANGED <<table, row, want, locks, list, at>>

\* Mutants of Close: a commit that lost goes on; it waits for the batch to reopen.
CloseAnyway(a) ==
    /\ pc[a] = "close" /\ batchLock = Nobody
    /\ batchLock' = a
    /\ Goto(a, "list")
    /\ UNCHANGED <<rowLock, at>>

CloseRetries(a) ==
    /\ pc[a] = "close" /\ batchLock = Nobody /\ status \in Open
    /\ batchLock' = a
    /\ Goto(a, "list")
    /\ UNCHANGED <<rowLock, at>>

\* SetImportBatchStatus to committed: it waits for the batch row, and what it
\* then finds decides between going on and errBatchClosed.
Close(a) ==
    /\ pc[a] = "close" /\ batchLock = Nobody
    /\ \/ /\ status \in Open
          /\ batchLock' = a
          /\ Goto(a, "list")
          /\ UNCHANGED <<rowLock, at>>
       \/ /\ status \notin Open
          /\ End(a)
          /\ UNCHANGED <<table, raced>>

\* ListAllImportRows.
ListRows(a) ==
    /\ pc[a] = "list"
    /\ list' = [list EXCEPT ![a] = [decision |-> decision, target |-> target]]
    /\ at' = [at EXCEPT ![a] = 1]
    /\ pc' = [pc EXCEPT ![a] = "apply"]
    /\ UNCHANGED <<table, row, want, locks, raced>>

Advance(a) == at' = [at EXCEPT ![a] = @ + 1]

\* apply: rows that are neither accepted nor merged are passed over.
PassOver(a) ==
    /\ pc[a] = "apply" /\ at[a] \in Rows
    /\ list[a].decision[at[a]] \notin Applying
    /\ Advance(a)
    /\ UNCHANGED <<table, pc, row, want, locks, list, raced>>

\* applyGroup on a merge: UpdateVariantInTx on the target product.
ApplyMerge(a) ==
    /\ pc[a] = "apply" /\ at[a] \in Rows
    /\ list[a].decision[at[a]] = "merge"
    /\ list[a].target[at[a]] /\ target[at[a]]
    /\ Advance(a)
    /\ UNCHANGED <<table, pc, row, want, locks, list, raced>>

\* applyGroup on an accept: it creates or extends a product, and
\* SetImportRowTarget updates the row, waiting for it if need be.
ApplyAccept(a) ==
    /\ pc[a] = "apply" /\ at[a] \in Rows
    /\ list[a].decision[at[a]] = "accept" /\ rowLock[at[a]] = Nobody
    /\ rowLock' = [rowLock EXCEPT ![at[a]] = a]
    /\ Advance(a)
    /\ UNCHANGED <<table, pc, row, want, batchLock, list, raced>>

\* The whole transaction commits.
Committed(a) ==
    /\ pc[a] = "apply" /\ at[a] = NRows + 1
    /\ status' = "committed"
    /\ applied' = [r \in Rows |-> IF list[a].decision[r] \in Applying
                                  THEN list[a].decision[r] ELSE applied[r]]
    /\ target' = [r \in Rows |-> target[r] \/ list[a].decision[r] = "accept"]
    /\ raced' = raced \cup {row[b] : b \in {x \in Admins : pc[x] \in {"decide", "mark"}}}
    /\ End(a)
    /\ UNCHANGED decision

\* A statement fails, a document does not validate, a merge finds its product
\* gone (with the target NULL the handler panics): everything is rolled back.
Rollback(a) ==
    /\ pc[a] # "idle"
    /\ End(a)
    /\ UNCHANGED <<table, raced>>

\* A merge that cannot be applied always ends so.
MergeFails(a) ==
    /\ pc[a] = "apply" /\ at[a] \in Rows
    /\ list[a].decision[at[a]] = "merge"
    /\ ~ (list[a].target[at[a]] /\ target[at[a]])
    /\ Rollback(a)

-----------------------------------------------------------------------------
\* Someone deletes the product a row matched: ON DELETE SET NULL, which locks
\* the row, and waits for a commit that has already updated the product.
DeleteTarget(r) ==
    /\ r \in Mergeable /\ target[r] /\ rowLock[r] = Nobody
    /\ ~ \E a \in Admins :
          pc[a] = "apply" /\ at[a] > r /\ list[a].decision[r] \in Applying
    /\ target' = [target EXCEPT ![r] = FALSE]
    /\ UNCHANGED <<status, decision, applied, pc, row, want, locks, list, at, raced>>

\* Whom a waits for.
WaitsFor(a, b) ==
    \/ pc[a] = "decide" /\ rowLock[row[a]] = b
    \/ pc[a] = "mark" /\ status = "dry_run" /\ batchLock = b
    \/ pc[a] = "close" /\ batchLock = b
    \/ /\ pc[a] = "apply" /\ at[a] \in Rows
       /\ list[a].decision[at[a]] = "accept" /\ rowLock[at[a]] = b

\* The server ends a cycle of two waiting transactions, whichever it picks.
BreakDeadlock(a) ==
    /\ \E b \in Admins \ {a} : WaitsFor(a, b) /\ WaitsFor(b, a)
    /\ Rollback(a)

Proceeds(a) ==
    \/ WriteDecision(a) \/ MarkReviewing(a)
    \/ Close(a) \/ ListRows(a)
    \/ PassOver(a) \/ ApplyMerge(a) \/ ApplyAccept(a) \/ Committed(a)
    \/ MergeFails(a)

Next ==
    \/ \E a \in Admins :
         \/ \E r \in Rows, d \in Decision : Decide(a, r, d)
         \/ Abort(a) \/ Commit(a)
         \/ Proceeds(a) \/ Rollback(a) \/ BreakDeadlock(a)
    \/ \E r \in Rows : DeleteTarget(r)

Spec == Init /\ [][Next]_vars

\* Transactions go on, locks are granted in turn, deadlocks are broken.
FairSpec ==
    /\ Spec
    /\ WF_vars(\E a \in Admins : BreakDeadlock(a))
    /\ \A a \in Admins : SF_vars(Proceeds(a))

-----------------------------------------------------------------------------
TypeOK ==
    /\ status \in Open \cup {"committed", "aborted"}
    /\ decision \in [Rows -> Decision] /\ target \in [Rows -> BOOLEAN]
    /\ applied \in [Rows -> Applying \cup {"no"}]
    /\ pc \in [Admins -> {"idle", "decide", "mark", "close", "list", "apply"}]
    /\ row \in [Admins -> Rows \cup {0}] /\ want \in [Admins -> Decision]
    /\ batchLock \in Admins \cup {Nobody}
    /\ rowLock \in [Rows -> Admins \cup {Nobody}]
    /\ list \in [Admins -> Listing]
    /\ at \in [Admins -> 0..(NRows + 1)]
    /\ raced \subseteq Rows

(* "A concurrent commit or abort won": a batch is closed once.  Whatever is
   applied is applied by the one commit that closes it, and never again, and an
   aborted batch leaves the catalogue alone. *)
ClosedOnce ==
    [][/\ status \notin Open => status' = status /\ applied' = applied
       /\ applied' # applied => status' = "committed"]_vars

(* The commit carries out the review: every row whose decision nobody was
   changing at the time is applied exactly if it was accepted or merged, as it
   was decided, and none of them is pending. *)
CommitFollowsReview ==
    status = "committed" =>
        \A r \in Rows \ raced :
            /\ decision[r] # "pending"
            /\ applied[r] = IF decision[r] \in Applying THEN decision[r] ELSE "no"

(* Every request is answered, although SetDecision locks a row and then the
   batch, and Commit the batch and then the rows. *)
RequestsEnd == \A a \in Admins : pc[a] # "idle" ~> pc[a] = "idle"

(* "Rows still pending block the commit" (Importer.Commit). *)
PendingBlocksCommit ==
    status = "committed" => \A r \in Rows : decision[r] # "pending"
=============================================================================
