--------------------------- MODULE ImporterProofs ---------------------------
(***************************************************************************)
(* Proofs about the importer: the review of a batch (ImportReview), the    *)
(* rows of a workbook (SheetGroups) and the prices in them (Money).        *)
(*                                                                         *)
(* ImportReview: for any number of rows and admins, whichever rows are     *)
(* faulty or may be merged.                                                *)
(*                                                                         *)
(* SheetGroups: for any workbook of any length, edited in any way and      *)
(* imported any number of times.  What carries the proof is that a row's   *)
(* SKU, and whether it repeats another, depend on the rows before it       *)
(* alone, and not even on them while the rows of its product have SKUs of  *)
(* their own: such a row leaves what became of it where it is found.       *)
(*                                                                         *)
(* Money: for an int64 of any width that has room for 99 hundredths, any   *)
(* texts and any fractions: for every amount there is, not for a table of  *)
(* examples.  A price is always one that ParseMoney has returned, so its   *)
(* whole part leaves room for the hundredths, and Decimal and ParseMoney   *)
(* are inverse on such amounts; ParseMoneyRounded may return more, but     *)
(* what it returns only becomes a price through ParseMoney.                *)
(***************************************************************************)
EXTENDS ImportReview, MCSmallParts, FiniteSetTheorems, WellFoundedInduction, TLAPS

-----------------------------------------------------------------------------
(* The review.                                                             *)


\* A request that decides is about a row.
RowInHand == \A a \in Admins : pc[a] \in {"decide", "mark"} => row[a] \in Rows

Typed == TypeOK /\ RowInHand

\* The commit that has closed the batch holds the lock on it, and nobody else has
\* closed it.
CloserHoldsBatch ==
  \A a \in Admins : pc[a] \in {"list", "apply"} => batchLock = a /\ status \in Open

\* Nothing is applied before the batch is closed.
NothingAppliedYet == status \in Open => \A r \in Rows : applied[r] = "no"

\* While a commit is under way, the rows that nobody has decided since are those
\* it has counted ...
CountedIsDecided ==
  (\E a \in Admins : Committing(a)) /\ status \in Open =>
    \A r \in Rows \ raced : decision[r] # "pending"

\* ... and, once it has listed them, those it goes on to apply.
ListedIsDecided ==
  \A a \in Admins : pc[a] = "apply" =>
    \A r \in Rows \ raced : list[a].decision[r] = decision[r]

ReviewInv ==
  /\ CloserHoldsBatch /\ NothingAppliedYet
  /\ CountedIsDecided /\ ListedIsDecided /\ CommitFollowsReview

-----------------------------------------------------------------------------
\* A request that ends forgets what it had, and leaves the others alone.
LEMMA EndStep ==
  ASSUME TypeOK, NEW a \in Admins, End(a)
  PROVE  /\ pc' = [pc EXCEPT ![a] = "idle"]
         /\ pc' \in [Admins -> {"idle", "decide", "mark", "close", "list", "apply"}]
         /\ row' \in [Admins -> Rows \cup {0}] /\ want' \in [Admins -> Decision]
         /\ batchLock' \in Admins \cup {Nobody}
         /\ rowLock' \in [Rows -> Admins \cup {Nobody}]
         /\ list' \in [Admins -> Listing] /\ at' \in [Admins -> 0..(NRows + 1)]
         /\ \A b \in Admins \ {a} : pc'[b] = pc[b] /\ row'[b] = row[b] /\ list'[b] = list[b]
         /\ \A b \in Admins \ {a} : batchLock = b => batchLock' = b
<1>1. Unlisted \in Listing /\ "pending" \in Decision
  BY DEF Unlisted, Listing, Decision
<1>2. 0 \in 0..(NRows + 1)
  BY ImportReviewAssumption
<1> QED
  BY <1>1, <1>2 DEF TypeOK, End

LEMMA TypedStep ==
  ASSUME Typed, [Next]_vars
  PROVE  Typed'
<1> USE ImportReviewAssumption DEF Typed, RowInHand
<1>1. ASSUME NEW a \in Admins, End(a), UNCHANGED <<table, raced>>
      PROVE  Typed'
  BY <1>1, EndStep DEF TypeOK, table
<1>2. ASSUME NEW a \in Admins, MarkReviewing(a)
      PROVE  Typed'
  BY <1>2, EndStep DEF TypeOK, MarkReviewing, Open
<1>3. ASSUME NEW a \in Admins, Committed(a)
      PROVE  Typed'
  <2>1. \A r \in Rows : list[a].decision[r] \in Decision
    BY DEF TypeOK, Listing
  <2>2. applied' \in [Rows -> Applying \cup {"no"}]
    BY <1>3, <2>1 DEF TypeOK, Committed
  <2>3. target' \in [Rows -> BOOLEAN] /\ raced' \subseteq Rows
    BY <1>3 DEF TypeOK, Committed
  <2> QED
    BY <1>3, <2>2, <2>3, EndStep DEF TypeOK, Committed
<1>4. ASSUME NEW a \in Admins, ListRows(a)
      PROVE  Typed'
  <2>1. [decision |-> decision, target |-> target] \in Listing
    BY DEF TypeOK, Listing
  <2>2. 1 \in 0..(NRows + 1)
    OBVIOUS
  <2> QED
    BY <1>4, <2>1, <2>2 DEF TypeOK, ListRows, table, locks
<1>5. ASSUME NEW a \in Admins, NEW r \in Rows, NEW d \in Decision, Decide(a, r, d)
      PROVE  Typed'
  BY <1>5 DEF TypeOK, Decide, table, locks
<1>6. ASSUME NEW a \in Admins, WriteDecision(a)
      PROVE  Typed'
  BY <1>6 DEF TypeOK, WriteDecision, Goto, table
<1>7. ASSUME NEW a \in Admins, Commit(a)
      PROVE  Typed'
  BY <1>7 DEF TypeOK, Commit, table, locks
<1>8. ASSUME NEW a \in Admins, Close(a)
      PROVE  Typed'
  BY <1>1, <1>8 DEF TypeOK, Close, Goto, table
<1>9. ASSUME NEW a \in Admins, PassOver(a) \/ ApplyMerge(a) \/ ApplyAccept(a)
      PROVE  Typed'
  <2>1. at[a] + 1 \in 0..(NRows + 1)
    BY <1>9 DEF PassOver, ApplyMerge, ApplyAccept, Rows
  <2>2. at' \in [Admins -> 0..(NRows + 1)]
    BY <1>9, <2>1 DEF TypeOK, PassOver, ApplyMerge, ApplyAccept, Advance
  <2> QED
    BY <1>9, <2>2 DEF TypeOK, PassOver, ApplyMerge, ApplyAccept, table, locks
<1>10. ASSUME NEW a \in Admins, Abort(a)
       PROVE  Typed'
  BY <1>10 DEF TypeOK, Abort, locks
<1>11. ASSUME NEW r \in Rows, DeleteTarget(r)
       PROVE  Typed'
  BY <1>11 DEF TypeOK, DeleteTarget, locks
<1>12. CASE UNCHANGED vars
  BY <1>12 DEF TypeOK, vars, table, locks
<1> QED
  BY <1>1, <1>2, <1>3, <1>4, <1>5, <1>6, <1>7, <1>8, <1>9, <1>10, <1>11, <1>12
     DEF Next, Proceeds, MergeFails, BreakDeadlock, Rollback

LEMMA LockStep ==
  ASSUME Typed, CloserHoldsBatch, [Next]_vars
  PROVE  CloserHoldsBatch'
<1> USE ImportReviewAssumption DEF CloserHoldsBatch
<1>0. TypeOK
  BY DEF Typed
<1>1. ASSUME NEW a \in Admins, End(a), UNCHANGED status
      PROVE  CloserHoldsBatch'
  BY <1>0, <1>1, EndStep DEF TypeOK
<1>2. ASSUME NEW a \in Admins, MarkReviewing(a)
      PROVE  CloserHoldsBatch'
  BY <1>0, <1>2, EndStep DEF TypeOK, MarkReviewing, Open
<1>3. ASSUME NEW a \in Admins, Committed(a)
      PROVE  CloserHoldsBatch'
  <2>1. \A b \in Admins \ {a} : pc[b] \notin {"list", "apply"}
    BY <1>3 DEF Committed
  <2> QED
    BY <1>0, <1>3, <2>1, EndStep DEF TypeOK, Committed
<1>4. ASSUME NEW a \in Admins, Close(a)
      PROVE  CloserHoldsBatch'
  BY <1>0, <1>1, <1>4 DEF TypeOK, Close, Goto, table
<1>5. ASSUME NEW a \in Admins, ListRows(a) \/ WriteDecision(a) \/ Commit(a)
      PROVE  CloserHoldsBatch'
  BY <1>0, <1>5 DEF TypeOK, ListRows, WriteDecision, Commit, Goto, table, locks
<1>6. ASSUME NEW a \in Admins, Abort(a)
      PROVE  CloserHoldsBatch'
  BY <1>0, <1>6 DEF TypeOK, Abort, locks
<1>7. ASSUME NEW a \in Admins, NEW r \in Rows, NEW d \in Decision, Decide(a, r, d)
      PROVE  CloserHoldsBatch'
  BY <1>0, <1>7 DEF TypeOK, Decide, table, locks
<1>8. ASSUME UNCHANGED <<status, pc, batchLock>>
      PROVE  CloserHoldsBatch'
  BY <1>8
<1> QED
  BY <1>1, <1>2, <1>3, <1>4, <1>5, <1>6, <1>7, <1>8
     DEF Next, Proceeds, MergeFails, BreakDeadlock, Rollback, PassOver, ApplyMerge,
         ApplyAccept, DeleteTarget, vars, table, locks

\* Committed applies what was listed, which is what has been decided of every row
\* that was left alone.
LEMMA CommitStep ==
  ASSUME Typed, ReviewInv, NEW a \in Admins, Committed(a)
  PROVE  ReviewInv'
<1> USE DEF ReviewInv
<1>0. TypeOK
  BY DEF Typed
<1>1. CloserHoldsBatch'
  BY LockStep DEF Next, Proceeds
<1>2. pc[a] = "apply" /\ batchLock = a /\ status \in Open /\ status' = "committed"
  BY DEF Committed, CloserHoldsBatch
<1>3. raced \subseteq raced' /\ decision' = decision
  BY DEF Committed
<1>4. \A r \in Rows \ raced : decision[r] # "pending" /\ list[a].decision[r] = decision[r]
  BY <1>2 DEF CountedIsDecided, ListedIsDecided, Committing
<1>5. \A r \in Rows :
        applied'[r] = IF list[a].decision[r] \in Applying THEN list[a].decision[r] ELSE "no"
  BY <1>2 DEF Committed, NothingAppliedYet
<1>6. CommitFollowsReview'
  BY <1>3, <1>4, <1>5 DEF CommitFollowsReview
<1>7. \A b \in Admins : pc'[b] # "apply"
  BY <1>0, <1>1, <1>2, EndStep DEF Committed, CloserHoldsBatch, Open
<1> QED
  BY <1>1, <1>2, <1>6, <1>7
     DEF NothingAppliedYet, CountedIsDecided, ListedIsDecided, Open

LEMMA ReviewStep ==
  ASSUME Typed, ReviewInv, [Next]_vars
  PROVE  ReviewInv'
<1> USE DEF ReviewInv
<1>0. TypeOK
  BY DEF Typed
<1>1. CloserHoldsBatch'
  BY LockStep
<1> DEFINE RowsInv == /\ NothingAppliedYet /\ CountedIsDecided
                      /\ ListedIsDecided /\ CommitFollowsReview
<1>2. ASSUME UNCHANGED <<status, decision, applied, raced>>,
             \A a \in Admins : Committing(a)' => Committing(a),
             \A a \in Admins : pc'[a] = "apply" => pc[a] = "apply" /\ list'[a] = list[a]
      PROVE  RowsInv'
  BY <1>2 DEF NothingAppliedYet, CountedIsDecided, ListedIsDecided, CommitFollowsReview
<1>3. ASSUME NEW a \in Admins, End(a), UNCHANGED <<table, raced>>
      PROVE  RowsInv'
  BY <1>0, <1>2, <1>3, EndStep DEF Committing, table
<1>4. ASSUME NEW a \in Admins, MarkReviewing(a)
      PROVE  RowsInv'
  <2>1. row[a] \in Rows /\ pc'[a] = "idle"
    BY <1>0, <1>4, EndStep DEF MarkReviewing, Typed, RowInHand, TypeOK
  <2>2. \A r \in Rows : r # row[a] => decision'[r] = decision[r]
    BY <1>0, <1>4, <2>1 DEF MarkReviewing, TypeOK
  <2>3. /\ status' \in Open <=> status \in Open
        /\ status' = "committed" => status = "committed"
        /\ raced \subseteq raced' /\ applied' = applied
    BY <1>4 DEF MarkReviewing, Open
  <2>4. \A b \in Admins : Committing(b)' => Committing(b)
    BY <1>0, <1>4, EndStep DEF MarkReviewing, Committing
  <2>5. \A b \in Admins : pc'[b] = "apply" => pc[b] = "apply" /\ list'[b] = list[b]
    BY <1>0, <1>4, EndStep DEF MarkReviewing
  <2>6. status \notin Open \/ (\E b \in Admins : Committing(b)) => row[a] \in raced'
    BY <1>4 DEF MarkReviewing
  <2> QED
    BY <2>1, <2>2, <2>3, <2>4, <2>5, <2>6
       DEF NothingAppliedYet, CountedIsDecided, ListedIsDecided, CommitFollowsReview,
           Committing, Open
<1>5. ASSUME NEW a \in Admins, Commit(a)
      PROVE  RowsInv'
  BY <1>0, <1>5
     DEF Commit, TypeOK, table, NothingAppliedYet, CountedIsDecided, ListedIsDecided,
         CommitFollowsReview, Committing, Open
<1>6. ASSUME NEW a \in Admins, Close(a)
      PROVE  RowsInv'
  BY <1>0, <1>2, <1>3, <1>6 DEF Close, Goto, TypeOK, Committing, table
<1>7. ASSUME NEW a \in Admins, ListRows(a)
      PROVE  RowsInv'
  BY <1>0, <1>7
     DEF ListRows, TypeOK, table, NothingAppliedYet, CountedIsDecided, ListedIsDecided,
         CommitFollowsReview, Committing
<1>8. ASSUME NEW a \in Admins, Abort(a)
      PROVE  RowsInv'
  BY <1>8
     DEF Abort, NothingAppliedYet, CountedIsDecided, ListedIsDecided,
         CommitFollowsReview, Open
<1>9. ASSUME NEW a \in Admins,
             WriteDecision(a) \/ \E r \in Rows, d \in Decision : Decide(a, r, d)
      PROVE  RowsInv'
  BY <1>0, <1>2, <1>9 DEF WriteDecision, Decide, Goto, TypeOK, Committing, table
<1>10. ASSUME UNCHANGED <<status, decision, applied, raced, pc, list>>
       PROVE  RowsInv'
  BY <1>2, <1>10 DEF Committing
<1>11. ASSUME NEW a \in Admins, Committed(a)
       PROVE  RowsInv'
  BY <1>11, CommitStep
<1>12. RowsInv'
  BY <1>3, <1>4, <1>5, <1>6, <1>7, <1>8, <1>9, <1>10, <1>11
     DEF Next, Proceeds, MergeFails, BreakDeadlock, Rollback, PassOver, ApplyMerge,
         ApplyAccept, DeleteTarget, vars, table
<1> QED
  BY <1>1, <1>12

-----------------------------------------------------------------------------
LEMMA InvInductive == Spec => [](Typed /\ ReviewInv)
<1>1. Init => Typed /\ ReviewInv
  BY ImportReviewAssumption
     DEF Init, Typed, TypeOK, RowInHand, ReviewInv, CloserHoldsBatch, NothingAppliedYet,
         CountedIsDecided, ListedIsDecided, CommitFollowsReview, Committing, StagedStatus,
         Open, Unlisted, Listing, Decision
<1>2. Typed /\ ReviewInv /\ [Next]_vars => (Typed /\ ReviewInv)'
  BY TypedStep, ReviewStep
<1> QED
  BY <1>1, <1>2, PTL DEF Spec

\* A commit carries out the review of every row that was left alone meanwhile,
\* however many admins decide, commit, abort and delete at once.
THEOREM CommitsFollowTheReview == Spec => []CommitFollowsReview
<1>1. ReviewInv => CommitFollowsReview
  BY DEF ReviewInv
<1> QED
  BY <1>1, InvInductive, PTL

\* A batch is closed once: what follows changes neither its status nor what has
\* been applied, and only the commit that closes it applies anything.
THEOREM ClosesOnce == Spec => ClosedOnce
<1>1. Typed /\ ReviewInv /\ [Next]_vars =>
        /\ status \notin Open => status' = status /\ applied' = applied
        /\ applied' # applied => status' = "committed"
  BY DEF ReviewInv, CloserHoldsBatch, Open, Next, Proceeds, Decide, WriteDecision,
         MarkReviewing, Abort, Commit, Close, ListRows, PassOver, ApplyMerge,
         ApplyAccept, Committed, MergeFails, Rollback, BreakDeadlock, DeleteTarget,
         Goto, vars, table
<1> QED
  BY <1>1, InvInductive, PTL DEF Spec, ClosedOnce

-----------------------------------------------------------------------------
(* The rows of a workbook.                                                 *)

\* A set of numbers that contains 0 and every successor contains them all.
LEMMA CountsUp ==
    ASSUME NEW S, 0 \in S, \A n \in Nat : n \in S => n + 1 \in S
    PROVE  \A n \in Nat : n \in S
  <1> DEFINE R == OpToRel(<, Nat)
             T == Nat \ S
  <1>1. IsWellFoundedOn(R, Nat)
    BY NatLessThanWellFounded
  <1>2. \A y, x \in Nat : y < x => <<y, x>> \in R
    BY DEF OpToRel
  <1> HIDE DEF R
  <1> SUFFICES ASSUME T # {}  PROVE FALSE
    OBVIOUS
  <1>3. PICK x \in T : \A y \in T : <<y, x>> \notin R
    BY <1>1, WFMin
  <1>4. x - 1 \in T /\ x - 1 < x
    BY <1>3
  <1> QED  BY <1>2, <1>3, <1>4

SheetTyped == sheet \in Seq(ParsedRows)

\* The SKU of row r, when those before it are as f says.
Renamed(f, r) ==
    LET n == Cardinality({s \in Members(sheet[r].group) :
                            s < r /\ ~ Repeats(s) /\ f[s] = Entered(r)})
    IN IF Sound(r) /\ ~ Repeats(r) /\ n > 0
       THEN Append(Entered(r), n + 1) ELSE Entered(r)

\* It does not depend on the rows from r on.
LEMMA RenamedIs ==
    ASSUME NEW f, NEW g, NEW r, \A s \in SheetRows : s < r => f[s] = g[s]
    PROVE  Renamed(f, r) = Renamed(g, r)
  <1>1. {s \in Members(sheet[r].group) :
            s < r /\ ~ Repeats(s) /\ f[s] = Entered(r)}
        = {s \in Members(sheet[r].group) :
            s < r /\ ~ Repeats(s) /\ g[s] = Entered(r)}
    BY DEF Members
  <1> QED  BY <1>1 DEF Renamed

\* FinalSKU is what it is defined to be: each row's SKU from those before it.
SKUsAreFinal == FinalSKU = [r \in SheetRows |-> Renamed(FinalSKU, r)]

LEMMA FinalSKUIs == SheetTyped => SKUsAreFinal
  <1> SUFFICES ASSUME SheetTyped  PROVE  SKUsAreFinal
    OBVIOUS
  <1> DEFINE N == Len(sheet)
             Upto(f, n) == f = [r \in 1..n |-> Renamed(f, r)]
             Good == {n \in Nat : n <= N => \E f : Upto(f, n)}
             sku == CHOOSE f : f = [r \in SheetRows |-> Renamed(f, r)]
  <1>0. N \in Nat /\ SheetRows = 1..N
    BY DEF SheetTyped, SheetRows
  <1>1. 0 \in Good
    <2>1. Upto([r \in 1..0 |-> {}], 0)
      OBVIOUS
    <2> QED  BY <2>1
  <1>2. ASSUME NEW n \in Nat, n \in Good
        PROVE  n + 1 \in Good
    <2> SUFFICES ASSUME n + 1 <= N
                 PROVE  \E f : Upto(f, n + 1)
      OBVIOUS
    <2>1. PICK f : Upto(f, n)
      BY <1>0, <1>2
    <2> DEFINE g == [r \in 1..(n + 1) |-> Renamed(f, r)]
    <2>2. \A r \in 1..n : g[r] = f[r]
      <3> SUFFICES ASSUME NEW r \in 1..n  PROVE  g[r] = f[r]
        OBVIOUS
      <3>1. r \in 1..(n + 1)
        OBVIOUS
      <3> QED  BY <2>1, <3>1
    <2>3. /\ \A r \in 1..(n + 1) : g[r] = Renamed(f, r)
          /\ g = [r \in 1..(n + 1) |-> g[r]]
      OBVIOUS
    <2> HIDE DEF g
    <2>4. ASSUME NEW r \in 1..(n + 1)
          PROVE  g[r] = Renamed(g, r)
      <3>1. \A s \in SheetRows : s < r => f[s] = g[s]
        <4> SUFFICES ASSUME NEW s \in SheetRows, s < r  PROVE  f[s] = g[s]
          OBVIOUS
        <4>1. s \in 1..n
          BY <1>0
        <4> QED  BY <2>2, <4>1
      <3>2. Renamed(f, r) = Renamed(g, r)
        BY <3>1, RenamedIs
      <3> QED  BY <2>3, <3>2
    <2>5. g = [r \in 1..(n + 1) |-> Renamed(g, r)]
      BY <2>3, <2>4
    <2> QED  BY <2>5
  <1>3. \E f : f = [r \in SheetRows |-> Renamed(f, r)]
    <2> HIDE DEF Good
    <2>1. N \in Good
      BY <1>0, <1>1, <1>2, CountsUp
    <2> QED  BY <1>0, <2>1 DEF Good
  <1>4. sku = [r \in SheetRows |-> Renamed(sku, r)]
    BY <1>3
  <1>5. FinalSKU = [r \in SheetRows |-> sku[r]]
    BY DEF FinalSKU, Renamed
  <1> HIDE DEF sku
  <1>6. FinalSKU = sku
    BY <1>4, <1>5
  <1> QED  BY <1>4, <1>6 DEF SKUsAreFinal

\* What is entered is a SKU.
LEMMA EnteredIs ==
    ASSUME SheetTyped, NEW r \in SheetRows
    PROVE  /\ sheet[r].severity \in {"none", "warning", "error"}
           /\ \A n \in Nat : Append(Entered(r), n) # Entered(r)
  <1>1. sheet[r] \in ParsedRows
    BY DEF SheetTyped, SheetRows
  <1>2. /\ sheet[r].severity \in {"none", "warning", "error"}
        /\ Len(Entered(r)) \in Nat /\ Entered(r) = [i \in 1..Len(Entered(r)) |-> Entered(r)[i]]
    BY <1>1, SheetAssumption DEF Entered
  <1> DEFINE e == Entered(r)
             Pieces == {e[i] : i \in 1..Len(e)}
  <1> HIDE DEF Entered
  <1>3. e \in Seq(Pieces)
    <2>1. e \in [1..Len(e) -> Pieces]
      BY <1>2
    <2> QED  BY <1>2, <2>1
  <1>4. \A n \in Nat : Len(Append(Entered(r), n)) = Len(Entered(r)) + 1
    BY <1>3
  <1>5. \A n \in Nat : Append(Entered(r), n) # Entered(r)
    <2> SUFFICES ASSUME NEW n \in Nat, Append(e, n) = e  PROVE FALSE
      OBVIOUS
    <2>1. Len(e) = Len(e) + 1 /\ Len(e) \in Nat
      BY <1>2, <1>4
    <2> QED  BY <2>1
  <1> QED  BY <1>2, <1>5

\* The first of several equal rows repeats none.
LEMMA FirstRepeatsNone ==
    ASSUME SheetTyped, NEW r \in SheetRows, Repeats(r)
    PROVE  \E s \in SheetRows : s < r /\ SameLine(s, r) /\ ~ Repeats(s)
  <1> DEFINE Good == {n \in Nat : \A q \in SheetRows : q <= n /\ Repeats(q) =>
                        \E s \in SheetRows : s < q /\ SameLine(s, q) /\ ~ Repeats(s)}
  <1>0. SheetRows \subseteq Nat \ {0}
    BY DEF SheetTyped, SheetRows
  <1>1. 0 \in Good
    BY <1>0
  <1>2. ASSUME NEW n \in Nat, n \in Good
        PROVE  n + 1 \in Good
    <2> SUFFICES ASSUME NEW q \in SheetRows, q <= n + 1, Repeats(q)
                 PROVE  \E s \in SheetRows : s < q /\ SameLine(s, q) /\ ~ Repeats(s)
      OBVIOUS
    <2>1. PICK t \in SheetRows : t < q /\ SameLine(t, q)
      BY DEF Repeats
    <2>2. CASE Repeats(t)
      <3>1. t <= n
        BY <1>0, <2>1
      <3>2. PICK s \in SheetRows : s < t /\ SameLine(s, t) /\ ~ Repeats(s)
        BY <1>2, <2>2, <3>1
      <3>3. s < q /\ SameLine(s, q)
        BY <1>0, <2>1, <3>2 DEF SameLine
      <3> QED  BY <3>2, <3>3
    <2>3. CASE ~ Repeats(t)
      BY <2>1, <2>3
    <2> QED  BY <2>2, <2>3
  <1> HIDE DEF Good
  <1>3. r \in Good
    BY <1>0, <1>1, <1>2, CountsUp
  <1>4. r <= r
    BY <1>0
  <1> QED  BY <1>3, <1>4 DEF Good

\* Two rows of a product that are left with the SKU they share are one line.
LEMMA LeftAlone ==
    ASSUME SheetTyped, NEW r \in SheetRows, NEW s \in SheetRows, r < s,
           Sound(r), Sound(s), sheet[r].group = sheet[s].group,
           ~ Repeats(r), ~ Repeats(s), FinalSKU[r] = Entered(s)
    PROVE  FinalSKU[s] # Entered(s)
  <1> DEFINE before == {q \in Members(sheet[s].group) :
                          q < s /\ ~ Repeats(q) /\ FinalSKU[q] = Entered(s)}
             n == Cardinality(before)
  <1>1. r \in before
    BY DEF Members
  <1>2. IsFiniteSet(before)
    <2>1. Len(sheet) \in Nat
      BY DEF SheetTyped
    <2>2. IsFiniteSet(SheetRows)
      BY <2>1, FS_Interval DEF SheetRows
    <2> QED  BY <2>2, FS_Subset DEF Members
  <1>3. n \in Nat /\ n # 0
    BY <1>1, <1>2, FS_CardinalityType, FS_EmptySet
  <1>4. FinalSKU[s] = Renamed(FinalSKU, s)
    BY FinalSKUIs DEF SKUsAreFinal
  <1>5. FinalSKU[s] = IF n > 0 THEN Append(Entered(s), n + 1) ELSE Entered(s)
    BY <1>4 DEF Renamed
  <1> HIDE DEF n
  <1>6. n > 0 /\ n + 1 \in Nat
    BY <1>3
  <1> QED  BY <1>5, <1>6, EnteredIs

\* Rows whose product has a SKU for each repeat none and keep theirs.
ApartKeep ==
    \A r \in SheetRows : Sound(r) /\ Apart(sheet, sheet[r].group) =>
        ~ Repeats(r) /\ FinalSKU[r] = Entered(r)

LEMMA ApartIs == SheetTyped => ApartKeep
  <1> SUFFICES ASSUME SheetTyped, NEW r \in SheetRows, Sound(r), Apart(sheet, sheet[r].group)
               PROVE  ~ Repeats(r) /\ FinalSKU[r] = Entered(r)
    BY DEF ApartKeep
  <1> DEFINE Good == {n \in Nat : \A q \in Members(sheet[r].group) : q <= n => FinalSKU[q] = Entered(q)}
  <1>0. SheetRows \subseteq Nat \ {0} /\ SheetRows = DOMAIN sheet
    BY DEF SheetTyped, SheetRows
  <1>1. \A p, q \in Members(sheet[r].group) : p # q => Entered(p) # Entered(q)
    BY <1>0 DEF Members, Apart, Sound, Entered
  <1>2. \A q \in Members(sheet[r].group) : ~ Repeats(q)
    <2> SUFFICES ASSUME NEW q \in Members(sheet[r].group), NEW p \in SheetRows, p < q, SameLine(p, q)
                 PROVE  FALSE
      BY DEF Repeats
    <2>1. p \in Members(sheet[r].group) /\ Entered(p) = Entered(q)
      BY DEF SameLine, Members, Entered
    <2>2. p # q
      BY <1>0 DEF Members
    <2> QED  BY <1>1, <2>1, <2>2
  <1>3. 0 \in Good
    BY <1>0 DEF Members
  <1>4. ASSUME NEW n \in Nat, n \in Good
        PROVE  n + 1 \in Good
    <2> SUFFICES ASSUME NEW q \in Members(sheet[r].group), q <= n + 1
                 PROVE  FinalSKU[q] = Entered(q)
      OBVIOUS
    <2>1. q \in SheetRows /\ sheet[q].group = sheet[r].group
      BY DEF Members
    <2> DEFINE before == {p \in Members(sheet[q].group) :
                            p < q /\ ~ Repeats(p) /\ FinalSKU[p] = Entered(q)}
               k == Cardinality(before)
    <2>2. before = {}
      <3> SUFFICES ASSUME NEW p \in Members(sheet[r].group), p < q, FinalSKU[p] = Entered(q)
                   PROVE  FALSE
        BY <2>1
      <3>1. p <= n /\ p # q
        BY <1>0, <2>1 DEF Members
      <3>2. FinalSKU[p] = Entered(p)
        BY <1>4, <3>1
      <3> QED  BY <1>1, <3>1, <3>2
    <2>3. FinalSKU[q] = Renamed(FinalSKU, q)
      BY <2>1, FinalSKUIs DEF SKUsAreFinal
    <2>4. k = 0
      BY <2>2, FS_EmptySet
    <2>5. FinalSKU[q] = IF Sound(q) /\ ~ Repeats(q) /\ k > 0
                        THEN Append(Entered(q), k + 1) ELSE Entered(q)
      BY <2>3 DEF Renamed
    <2> HIDE DEF k
    <2> QED  BY <2>4, <2>5
  <1> HIDE DEF Good
  <1>5. r \in Good
    BY <1>0, <1>3, <1>4, CountsUp
  <1>6. r \in Members(sheet[r].group) /\ r <= r
    BY <1>0 DEF Members
  <1> QED  BY <1>2, <1>5, <1>6 DEF Good

\* Rows that are staged to be published leave nothing to ask.
LEMMA WhatIsUnseenIsClear ==
    ASSUME SheetTyped, NEW r \in SheetRows, Sound(r), StagedRow(r).status = "active"
    PROVE  ~ Unclear(sheet[r].group)
  <1>2. ~ NeedsReview(sheet[r].group)
    BY DEF StagedRow
  <1>3. ASSUME NEW q \in Members(sheet[r].group)
        PROVE  /\ q \in SheetRows /\ Sound(q) /\ sheet[q].group = sheet[r].group
               /\ ~ Repeats(q) /\ ~ Warned(q)
    <2>1. q \in SheetRows /\ Sound(q) /\ sheet[q].group = sheet[r].group
      BY DEF Members
    <2>2. ASSUME Repeats(q)
          PROVE  FALSE
      <3>1. PICK t \in SheetRows : t < q /\ SameLine(t, q) /\ ~ Repeats(t)
        BY <2>1, <2>2, FirstRepeatsNone
      <3>2. t \in Members(sheet[r].group)
        BY <2>1, <3>1 DEF Members, SameLine
      <3>3. Warned(t)
        <4>1. q > t
          BY <2>1, <3>1 DEF SheetRows, SheetTyped
        <4>2. Repeated(t)
          BY <2>1, <3>1, <4>1 DEF Repeated
        <4> QED  BY <4>2 DEF Warned
      <3> QED  BY <1>2, <3>1, <3>2, <3>3 DEF NeedsReview
    <2>3. ~ Warned(q)
      BY <1>2, <2>2 DEF NeedsReview
    <2> QED  BY <2>1, <2>2, <2>3
  <1>4. ASSUME NEW p \in Members(sheet[r].group), NEW q \in Members(sheet[r].group), p < q
        PROVE  Entered(p) # Entered(q)
    <2>1. /\ p \in SheetRows /\ Sound(p) /\ ~ Repeats(p) /\ FinalSKU[p] = Entered(p)
          /\ q \in SheetRows /\ Sound(q) /\ ~ Repeats(q) /\ FinalSKU[q] = Entered(q)
          /\ sheet[p].group = sheet[q].group
      BY <1>3 DEF Warned
    <2> QED  BY <1>4, <2>1, LeftAlone
  <1>5. Apart(sheet, sheet[r].group)
    <2> SUFFICES ASSUME NEW p \in DOMAIN sheet, NEW q \in DOMAIN sheet, p # q,
                        sheet[p].group = sheet[r].group, sheet[q].group = sheet[r].group,
                        sheet[p].severity # "error", sheet[q].severity # "error"
                 PROVE  sheet[p].sku # sheet[q].sku
      BY DEF Apart
    <2>1. p \in Members(sheet[r].group) /\ q \in Members(sheet[r].group)
      BY DEF Members, Sound, SheetRows, SheetTyped
    <2>2. p < q \/ q < p
      BY DEF SheetTyped
    <2> QED  BY <1>4, <2>1, <2>2 DEF Entered
  <1>6. \A q \in Members(sheet[r].group) : sheet[q].severity # "warning"
    BY <1>3 DEF Warned
  <1> QED  BY <1>5, <1>6 DEF Unclear

-----------------------------------------------------------------------------
\* Each row is a line of its own.
LinesTyped ==
    /\ newest \in Nat /\ lines \in [SheetRows -> 1..newest]
    /\ \A q, r \in SheetRows : lines[q] = lines[r] => q = r

\* A row that has been imported and not disturbed has its variant, under its SKU; and
\* whatever a row became has its item number.
BecameVariants ==
    \A r \in SheetRows :
        /\ lines[r] \in steady => /\ Sound(r) /\ ~ Repeats(r)
                                  /\ \E v \in variants : v.row = lines[r] /\ v.sku = FinalSKU[r]
        /\ \A v \in variants : v.row = lines[r] => Sound(r) /\ v.item = sheet[r].item

\* What is recorded is of the past.
Recorded ==
    /\ commits \in Nat /\ steady \subseteq 1..newest
    /\ \A v \in variants : v.row \in 1..newest
    /\ \A p \in public \cup warned : p[2] \in 0..commits

SheetInv ==
    /\ SheetTyped /\ LinesTyped /\ IsFiniteSet(variants)
    /\ BecameVariants /\ Recorded /\ UnseenIsClear

\* A row stays as it is while the rows up to it do.
LEMMA RowStays ==
    ASSUME SheetTyped, SheetTyped', NEW k \in SheetRows, k \in SheetRows',
           \A s \in 1..k : sheet'[s] = sheet[s]
    PROVE  /\ Sound(k)' <=> Sound(k)
           /\ Repeats(k)' <=> Repeats(k)
           /\ FinalSKU'[k] = FinalSKU[k]
  <1> DEFINE Upto == 1..k
  <1>2. k \in Nat /\ Upto \subseteq SheetRows /\ Upto \subseteq SheetRows' /\ k \in Upto
    BY DEF SheetTyped, SheetRows
  <1>3. \A r \in Upto : sheet'[r] = sheet[r] /\ r \in Nat
    OBVIOUS
  <1>4. \A r \in Upto : Sound(r)' <=> Sound(r)
    BY <1>3 DEF Sound
  <1>5. \A r, s \in Upto : SameLine(r, s)' <=> SameLine(r, s)
    BY <1>3, <1>4 DEF SameLine
  <1>6. /\ \A r \in Upto : \A s \in SheetRows : s <= r => s \in Upto
        /\ \A r \in Upto : \A s \in SheetRows' : s <= r => s \in Upto
    BY <1>2 DEF SheetRows, SheetTyped
  <1>7. \A r \in Upto : Repeats(r)' <=> Repeats(r)
    BY <1>2, <1>3, <1>5, <1>6 DEF Repeats, SheetRows, SheetTyped
  <1> DEFINE Good == {n \in Nat : \A r \in Upto : r <= n => FinalSKU'[r] = FinalSKU[r]}
  <1>8. 0 \in Good
    OBVIOUS
  <1>9. ASSUME NEW n \in Nat, n \in Good
        PROVE  n + 1 \in Good
    <2> SUFFICES ASSUME NEW r \in Upto, r <= n + 1
                 PROVE  FinalSKU'[r] = FinalSKU[r]
      OBVIOUS
    <2> DEFINE before == {s \in Members(sheet[r].group) :
                            s < r /\ ~ Repeats(s) /\ FinalSKU[s] = Entered(r)}
    <2>1. before' = before
      <3>1. ASSUME NEW s
            PROVE  s \in before' <=> s \in before
        <4>1. s \in Members(sheet[r].group) <=>
                s \in SheetRows /\ Sound(s) /\ sheet[s].group = sheet[r].group
          BY DEF Members
        <4>2. s \in Members(sheet[r].group)' <=>
                s \in SheetRows' /\ Sound(s)' /\ sheet'[s].group = sheet'[r].group
          BY DEF Members
        <4>3. Entered(r)' = Entered(r)
          BY <1>3 DEF Entered
        <4>4. ASSUME s \in SheetRows \/ s \in SheetRows', s < r
              PROVE  /\ s \in Upto /\ s \in SheetRows /\ s \in SheetRows'
                     /\ sheet'[s] = sheet[s] /\ sheet'[r] = sheet[r]
                     /\ FinalSKU'[s] = FinalSKU[s]
          <5>1. s \in Nat
            BY <4>4 DEF SheetRows, SheetTyped
          <5>2. s \in Upto /\ s <= n
            BY <1>2, <1>6, <4>4, <5>1
          <5> QED  BY <1>2, <1>3, <1>9, <5>2
        <4> QED  BY <1>3, <1>4, <1>7, <4>1, <4>2, <4>3, <4>4
      <3> QED  BY <3>1
    <2>2. FinalSKU[r] = Renamed(FinalSKU, r)
      BY <1>2, FinalSKUIs DEF SKUsAreFinal
    <2>3. FinalSKU'[r] = Renamed(FinalSKU, r)'
      <3>1. SKUsAreFinal'
        BY FinalSKUIs, PTL
      <3> QED  BY <1>2, <3>1 DEF SKUsAreFinal
    <2>4. Renamed(FinalSKU, r)' = Renamed(FinalSKU, r)
      BY <1>3, <1>4, <1>7, <2>1 DEF Renamed, Entered
    <2> QED  BY <2>2, <2>3, <2>4
  <1> HIDE DEF Good
  <1>10. \A n \in Nat : n \in Good
    BY <1>8, <1>9, CountsUp
  <1>11. FinalSKU'[k] = FinalSKU[k]
    <2>1. k <= k
      BY <1>2
    <2> QED  BY <1>2, <1>10, <2>1 DEF Good
  <1> HIDE DEF FinalSKU
  <1> QED  BY <1>2, <1>4, <1>7, <1>11

LEMMA SheetInvInit == SheetInit => SheetInv
  <1> SUFFICES ASSUME SheetInit  PROVE SheetInv
    OBVIOUS
  <1>1. SheetRows = {} /\ SheetTyped
    BY DEF SheetInit, SheetRows, SheetTyped
  <1>2. LinesTyped
    BY <1>1 DEF SheetInit, LinesTyped
  <1> QED
    BY <1>1, <1>2, FS_EmptySet DEF SheetInit, SheetInv, BecameVariants, Recorded, UnseenIsClear

\* An edit of the workbook, whose rows are new or come from where they were, leaves
\* what the rows have become where it is found.
LEMMA EditStep ==
    ASSUME SheetInv, SheetTyped', LinesTyped', newest <= newest',
           steady' = Undisturbed(sheet', lines'),
           UNCHANGED <<variants, public, commits, warned>>,
           \A q \in SheetRows' : \/ lines'[q] = newest + 1
                                 \/ \E r \in SheetRows : lines'[q] = lines[r] /\ sheet'[q] = sheet[r]
    PROVE  SheetInv'
  <1>0. /\ newest \in Nat /\ newest' \in Nat /\ 1..newest \subseteq 1..newest'
        /\ SheetTyped /\ SheetRows' = DOMAIN sheet'
    BY DEF SheetInv, LinesTyped, SheetTyped, SheetRows
  <1>1. steady' \subseteq steady
    BY DEF Undisturbed
  <1>2. Recorded'
    BY <1>0, <1>1 DEF SheetInv, Recorded
  <1>3. ASSUME NEW q \in SheetRows', lines'[q] \in steady'
        PROVE  /\ Sound(q)' /\ ~ Repeats(q)'
               /\ \E v \in variants : v.row = lines'[q] /\ v.sku = FinalSKU'[q]
    <2>1. lines'[q] \in steady /\ lines'[q] # newest + 1
      BY <1>0, <1>1, <1>3 DEF SheetInv, Recorded
    <2>2. PICK r \in SheetRows : lines'[q] = lines[r] /\ sheet'[q] = sheet[r]
      BY <2>1
    <2>3. /\ Sound(r) /\ ~ Repeats(r)
          /\ \E v \in variants : v.row = lines[r] /\ v.sku = FinalSKU[r]
      BY <2>1, <2>2 DEF SheetInv, BecameVariants
    <2>4. \/ \A s \in 1..q : s \in SheetRows /\ sheet'[s] = sheet[s] /\ lines'[s] = lines[s]
          \/ Apart(sheet, sheet'[q].group) /\ Apart(sheet', sheet'[q].group)
      BY <1>0, <1>3 DEF Undisturbed
    <2>5. CASE \A s \in 1..q : s \in SheetRows /\ sheet'[s] = sheet[s] /\ lines'[s] = lines[s]
      <3>1. q \in 1..q
        BY <1>0 DEF SheetTyped, SheetRows
      <3>2. q \in SheetRows /\ lines[q] = lines[r]
        BY <2>2, <2>5, <3>1
      <3>3. q = r
        BY <3>2 DEF SheetInv, LinesTyped
      <3>4. (Sound(q)' <=> Sound(q)) /\ (Repeats(q)' <=> Repeats(q)) /\ FinalSKU'[q] = FinalSKU[q]
        BY <1>0, <2>5, <3>2, RowStays
      <3> QED  BY <2>2, <2>3, <3>3, <3>4
    <2>6. CASE Apart(sheet, sheet'[q].group) /\ Apart(sheet', sheet'[q].group)
      <3>1. ApartKeep /\ ApartKeep'
        BY <1>0, ApartIs, PTL
      <3>2. Sound(q)' /\ Entered(q)' = Entered(r)
        BY <2>2, <2>3 DEF Sound, Entered
      <3>3. FinalSKU[r] = Entered(r)
        BY <2>2, <2>3, <2>6, <3>1 DEF ApartKeep
      <3>4. ~ Repeats(q)' /\ FinalSKU'[q] = Entered(q)'
        BY <2>6, <3>1, <3>2 DEF ApartKeep
      <3> QED  BY <2>2, <2>3, <3>2, <3>3, <3>4
    <2> QED  BY <2>4, <2>5, <2>6
  <1>4. ASSUME NEW q \in SheetRows', NEW v \in variants, v.row = lines'[q]
        PROVE  Sound(q)' /\ v.item = sheet'[q].item
    <2>1. lines'[q] # newest + 1
      BY <1>0, <1>4 DEF SheetInv, Recorded
    <2>2. PICK r \in SheetRows : lines'[q] = lines[r] /\ sheet'[q] = sheet[r]
      BY <2>1
    <2> QED  BY <1>4, <2>2 DEF SheetInv, BecameVariants, Sound
  <1>5. BecameVariants'
    BY <1>3, <1>4 DEF BecameVariants
  <1> QED  BY <1>2, <1>5 DEF SheetInv, UnseenIsClear

\* A row that is put anywhere moves those after it by one.
LEMMA ParseStep ==
    ASSUME SheetInv, ParseRow
    PROVE  SheetInv'
  <1>0. SheetTyped /\ LinesTyped /\ Len(sheet) \in Nat /\ SheetRows = 1..Len(sheet)
        /\ lines \in Seq(1..newest) /\ Len(lines) = Len(sheet)
    BY DEF SheetInv, SheetTyped, LinesTyped, SheetRows
  <1>1. PICK entry \in ParsedRows, i \in 1..(Len(sheet) + 1) :
          sheet' = Inserted(sheet, i, entry) /\ lines' = Inserted(lines, i, newest')
    BY DEF ParseRow
  <1>2. newest' = newest + 1 /\ newest \in Nat
    BY <1>0 DEF ParseRow, LinesTyped
  <1> DEFINE N == Len(sheet) + 1
             old(q) == IF q < i THEN q ELSE q - 1
  <1>3. /\ sheet' = [q \in 1..N |-> IF q < i THEN sheet[q] ELSE IF q = i THEN entry ELSE sheet[q - 1]]
        /\ lines' = [q \in 1..N |-> IF q < i THEN lines[q] ELSE IF q = i THEN newest + 1 ELSE lines[q - 1]]
    BY <1>0, <1>1, <1>2 DEF Inserted
  <1>4. \A q \in 1..N : q # i => old(q) \in 1..Len(sheet)
    BY <1>0, <1>1
  <1>5. \A q \in 1..N : q # i => sheet'[q] = sheet[old(q)] /\ lines'[q] = lines[old(q)]
    BY <1>0, <1>1, <1>3
  <1>6. sheet'[i] = entry /\ lines'[i] = newest + 1
    BY <1>0, <1>1, <1>3
  <1>7. sheet' \in [1..N -> ParsedRows] /\ lines' \in [1..N -> 1..newest']
    <2>1. \A q \in 1..N : sheet'[q] \in ParsedRows
      BY <1>0, <1>1, <1>4, <1>5, <1>6 DEF SheetTyped
    <2>2. \A q \in 1..N : lines'[q] \in 1..newest'
      BY <1>0, <1>1, <1>2, <1>4, <1>5, <1>6 DEF LinesTyped
    <2> QED  BY <1>3, <2>1, <2>2
  <1>8. SheetTyped' /\ SheetRows' = 1..N
    BY <1>0, <1>7 DEF SheetTyped, SheetRows
  <1>9. LinesTyped'
    <2>1. ASSUME NEW p \in 1..N, NEW q \in 1..N, lines'[p] = lines'[q]
          PROVE  p = q
      <3>1. \A s \in 1..N : s # i => lines'[s] # newest + 1
        BY <1>0, <1>2, <1>4, <1>5 DEF LinesTyped
      <3>2. ASSUME p # i, q # i
            PROVE  p = q
        <4>1. lines[old(p)] = lines[old(q)] /\ old(p) \in SheetRows /\ old(q) \in SheetRows
          BY <1>0, <1>4, <1>5, <2>1, <3>2
        <4>2. old(p) = old(q)
          <5> HIDE DEF old
          <5> QED  BY <1>0, <4>1 DEF LinesTyped
        <4> QED  BY <1>0, <1>1, <3>2, <4>2
      <3> QED  BY <1>6, <2>1, <3>1, <3>2
    <2> QED  BY <1>2, <1>7, <1>8, <2>1 DEF LinesTyped
  <1>10. \A q \in SheetRows' : \/ lines'[q] = newest + 1
                               \/ \E r \in SheetRows : lines'[q] = lines[r] /\ sheet'[q] = sheet[r]
    BY <1>0, <1>4, <1>5, <1>6, <1>8
  <1> QED
    <2>1. newest <= newest' /\ steady' = Undisturbed(sheet', lines')
          /\ UNCHANGED <<variants, public, commits, warned>>
      BY <1>2 DEF ParseRow
    <2> QED  BY <1>8, <1>9, <1>10, <2>1, EditStep

LEMMA MoveStep ==
    ASSUME SheetInv, MoveRows
    PROVE  SheetInv'
  <1>0. SheetTyped /\ LinesTyped /\ Len(sheet) \in Nat /\ SheetRows = 1..Len(sheet)
    BY DEF SheetInv, SheetTyped, SheetRows
  <1>1. PICK n \in 0..Len(sheet) : \E old \in [1..n -> SheetRows] :
          /\ \A r, s \in 1..n : r # s => old[r] # old[s]
          /\ sheet' = [r \in 1..n |-> sheet[old[r]]]
          /\ lines' = [r \in 1..n |-> lines[old[r]]]
    BY DEF MoveRows
  <1> PICK old \in [1..n -> SheetRows] :
          /\ \A r, s \in 1..n : r # s => old[r] # old[s]
          /\ sheet' = [r \in 1..n |-> sheet[old[r]]]
          /\ lines' = [r \in 1..n |-> lines[old[r]]]
    BY <1>1
  <1>2. sheet' \in [1..n -> ParsedRows] /\ lines' \in [1..n -> 1..newest] /\ n \in Nat
    BY <1>0, <1>1 DEF SheetTyped, LinesTyped
  <1>3. SheetTyped' /\ SheetRows' = 1..n
    BY <1>2 DEF SheetTyped, SheetRows
  <1>4. newest' = newest /\ newest \in Nat
    BY <1>0 DEF MoveRows, LinesTyped
  <1>5. LinesTyped'
    <2>1. \A p, q \in 1..n : lines'[p] = lines'[q] => p = q
      BY <1>0, <1>1 DEF LinesTyped
    <2> QED  BY <1>2, <1>3, <1>4, <2>1 DEF LinesTyped
  <1>6. \A q \in SheetRows' : \E r \in SheetRows : lines'[q] = lines[r] /\ sheet'[q] = sheet[r]
    BY <1>1, <1>3
  <1> QED
    <2>1. newest <= newest' /\ steady' = Undisturbed(sheet', lines')
          /\ UNCHANGED <<variants, public, commits, warned>>
      BY <1>4 DEF MoveRows
    <2> QED  BY <1>3, <1>5, <1>6, <2>1, EditStep

LEMMA CommitRowsStep ==
    ASSUME SheetInv, CommitRows
    PROVE  SheetInv'
  <1> DEFINE batch == [r \in SheetRows |-> StagedRow(r)]
  <1>1. PICK accepted \in SUBSET {r \in SheetRows : Sound(r)},
             merged \in SUBSET {r \in SheetRows : batch[r].variant # NoMatch} :
          LET goal    == [r \in accepted |-> CommittedTo(batch, r, accepted \cup merged)]
              made    == [r \in accepted |-> Created(batch, r, goal[r], commits')]
              new     == {r \in accepted : goal[r] = NoMatch}
              unclear == {r \in accepted : Unclear(sheet[r].group)}
              Products(rows) == {made[r].product : r \in rows}
          IN /\ variants' = variants \cup {made[r] : r \in accepted}
             /\ public' = public \cup Products({r \in new : batch[r].status = "active"})
             /\ steady' = steady \cup {lines[r] : r \in {s \in accepted : ~ Repeats(s)}}
             /\ warned' = warned \cup Products(unclear \cap new)
    BY DEF CommitRows
  <1> DEFINE goal    == [r \in accepted |-> CommittedTo(batch, r, accepted \cup merged)]
             made    == [r \in accepted |-> Created(batch, r, goal[r], commits')]
             new     == {r \in accepted : goal[r] = NoMatch}
             unclear == {r \in accepted : Unclear(sheet[r].group)}
  <1>2. /\ variants' = variants \cup {made[r] : r \in accepted}
        /\ public' = public \cup {made[r].product : r \in {s \in new : batch[s].status = "active"}}
        /\ steady' = steady \cup {lines[r] : r \in {s \in accepted : ~ Repeats(s)}}
        /\ warned' = warned \cup {made[r].product : r \in unclear \cap new}
    BY <1>1
  <1>3. UNCHANGED <<sheet, newest, lines>> /\ commits' = commits + 1
    BY DEF CommitRows
  <1>4. SheetTyped /\ LinesTyped /\ SheetTyped' /\ LinesTyped' /\ SheetRows' = SheetRows
    BY <1>3 DEF SheetInv, SheetTyped, LinesTyped, SheetRows
  <1>5. \A r \in SheetRows : batch[r].sku = FinalSKU[r] /\ batch[r].status = StagedRow(r).status
    BY DEF StagedRow
  <1>6. ASSUME NEW r \in accepted
        PROVE  /\ r \in SheetRows /\ Sound(r)
               /\ made[r].row = lines[r] /\ made[r].sku = FinalSKU[r] /\ made[r].item = sheet[r].item
               /\ r \in new => made[r].product = <<sheet[r].group, commits + 1>>
    <2>1. r \in SheetRows /\ Sound(r)
      OBVIOUS
    <2>2. made[r] = Created(batch, r, goal[r], commits')
      OBVIOUS
    <2> HIDE DEF made, goal, batch
    <2> QED  BY <1>3, <1>5, <2>1, <2>2 DEF Created
  <1> HIDE DEF made, goal, batch
  <1>7. IsFiniteSet(variants')
    <2>1. IsFiniteSet(accepted)
      <3>1. Len(sheet) \in Nat
        BY <1>4 DEF SheetTyped
      <3>2. IsFiniteSet(SheetRows)
        BY <3>1, FS_Interval DEF SheetRows
      <3> QED  BY <3>2, FS_Subset
    <2> DEFINE T == {made[r] : r \in accepted}
               f == [r \in accepted |-> made[r]]
    <2>2. f \in Surjection(accepted, T)
      BY DEF Surjection
    <2>3. IsFiniteSet(T)
      BY <2>1, <2>2, FS_Surjection
    <2> QED  BY <1>2, <2>3, FS_Union DEF SheetInv
  <1>8. BecameVariants'
    <2>1. \A r \in SheetRows : /\ (Sound(r)' <=> Sound(r)) /\ (Repeats(r)' <=> Repeats(r))
                               /\ FinalSKU'[r] = FinalSKU[r]
      BY <1>3, <1>4, RowStays
    <2>2. ASSUME NEW r \in SheetRows, lines[r] \in steady'
          PROVE  /\ Sound(r) /\ ~ Repeats(r)
                 /\ \E v \in variants' : v.row = lines[r] /\ v.sku = FinalSKU[r]
      <3>1. CASE lines[r] \in steady
        BY <1>2, <3>1 DEF SheetInv, BecameVariants
      <3>2. CASE lines[r] \notin steady
        <4>1. PICK s \in accepted : ~ Repeats(s) /\ lines[r] = lines[s]
          BY <1>2, <2>2, <3>2
        <4>2. s = r
          BY <1>4, <1>6, <4>1 DEF LinesTyped
        <4> QED  BY <1>2, <1>6, <4>1, <4>2
      <3> QED  BY <3>1, <3>2
    <2>3. ASSUME NEW r \in SheetRows, NEW v \in variants', v.row = lines[r]
          PROVE  Sound(r) /\ v.item = sheet[r].item
      <3>1. CASE v \in variants
        BY <2>3, <3>1 DEF SheetInv, BecameVariants
      <3>2. CASE v \notin variants
        <4>1. PICK s \in accepted : v = made[s]
          BY <1>2, <3>2
        <4>2. s = r
          BY <1>4, <1>6, <2>3, <4>1 DEF LinesTyped
        <4> QED  BY <1>6, <4>1, <4>2
      <3> QED  BY <3>1, <3>2
    <2> QED  BY <1>3, <1>4, <2>1, <2>2, <2>3 DEF BecameVariants
  <1>9. commits \in Nat /\ commits' \in Nat /\ 0..commits \subseteq 0..commits' /\ commits + 1 \in 0..commits'
    BY <1>3 DEF SheetInv, Recorded
  <1>10. Recorded'
    <2>1. steady' \subseteq 1..newest
      <3>1. \A r \in accepted : lines[r] \in 1..newest
        BY <1>4, <1>6 DEF LinesTyped
      <3> QED  BY <1>2, <3>1 DEF SheetInv, Recorded
    <2>2. \A v \in variants' : v.row \in 1..newest
      BY <1>2, <1>4, <1>6 DEF SheetInv, Recorded, LinesTyped
    <2>3. \A p \in public' \cup warned' : p[2] \in 0..commits'
      BY <1>2, <1>6, <1>9 DEF SheetInv, Recorded
    <2> QED  BY <1>3, <1>9, <2>1, <2>2, <2>3 DEF Recorded
  <1>11. UnseenIsClear'
    <2> SUFFICES ASSUME NEW p \in public', p \in warned'
                 PROVE  FALSE
      BY DEF UnseenIsClear
    <2>1. p \in public \/ p \in warned
          => p[2] # commits + 1
      BY <1>9 DEF SheetInv, Recorded
    <2>2. \A r \in new : made[r].product[2] = commits + 1
      BY <1>6
    <2>3. PICK r \in new : batch[r].status = "active" /\ p = made[r].product
      BY <1>2, <2>1, <2>2 DEF SheetInv, UnseenIsClear
    <2>4. PICK s \in unclear \cap new : p = made[s].product
      BY <1>2, <2>1, <2>2, <2>3
    <2>5. sheet[r].group = sheet[s].group
      <3>1. r \in accepted /\ s \in accepted
        OBVIOUS
      <3>2. <<sheet[r].group, commits + 1>> = <<sheet[s].group, commits + 1>>
        BY <1>6, <2>3, <2>4, <3>1
      <3> QED  BY <3>2
    <2>6. ~ Unclear(sheet[r].group)
      BY <1>4, <1>5, <1>6, <2>3, WhatIsUnseenIsClear
    <2> QED  BY <2>4, <2>5, <2>6
  <1> QED  BY <1>4, <1>7, <1>8, <1>10, <1>11 DEF SheetInv

LEMMA SheetInvNext == SheetInv /\ [SheetNext]_sheetVars => SheetInv'
  <1> SUFFICES ASSUME SheetInv, [SheetNext]_sheetVars  PROVE SheetInv'
    OBVIOUS
  <1>1. CASE UNCHANGED sheetVars
    <2>1. SheetTyped /\ SheetTyped' /\ SheetRows' = SheetRows
      BY <1>1 DEF SheetInv, SheetTyped, SheetRows, sheetVars
    <2>2. \A r \in SheetRows : /\ (Sound(r)' <=> Sound(r)) /\ (Repeats(r)' <=> Repeats(r))
                               /\ FinalSKU'[r] = FinalSKU[r]
      BY <1>1, <2>1, RowStays DEF sheetVars
    <2>3. BecameVariants'
      BY <1>1, <2>1, <2>2 DEF SheetInv, BecameVariants, sheetVars
    <2> QED  BY <1>1, <2>1, <2>3 DEF SheetInv, LinesTyped, Recorded, UnseenIsClear, sheetVars
  <1> QED  BY <1>1, ParseStep, MoveStep, CommitRowsStep DEF SheetNext

LEMMA WhatWasImportedIsFound == SheetInv => TwiceIsOnce
  <1> SUFFICES ASSUME SheetInv, NEW r \in SheetRows,
                      \/ lines[r] \in steady
                      \/ sheet[r].item # NoItem /\ ~ Repeats(r) /\ \E v \in variants : v.row = lines[r]
               PROVE  \/ StagedRow(r).decision = "merge" /\ StagedRow(r).variant = lines[r]
                      \/ StagedRow(r).decision = "pending"
    BY DEF TwiceIsOnce
  <1>1. /\ Sound(r) /\ ~ Repeats(r)
        /\ \E v \in variants : /\ v.row = lines[r]
                               /\ \/ v.sku = FinalSKU[r]
                                  \/ sheet[r].item # NoItem /\ v.item = sheet[r].item
    BY DEF SheetInv, BecameVariants
  <1>2. PICK v \in Matching(r) : v.row = lines[r]
    BY <1>1 DEF Matching
  <1>3. IsFiniteSet(Matching(r))
    BY FS_Subset DEF SheetInv, Matching
  <1>4. Cardinality(Matching(r)) \in Nat /\ Cardinality(Matching(r)) # 0
    BY <1>2, <1>3, FS_CardinalityType, FS_EmptySet
  <1>5. StagedRow(r).decision = DecisionOf(r)
        /\ (Matched(r) => StagedRow(r).variant = Match(r).row)
    BY DEF StagedRow
  <1>6. CASE Cardinality(Matching(r)) > 1
    <2>1. DecisionOf(r) = "pending"
      BY <1>1, <1>6 DEF DecisionOf
    <2> QED  BY <1>5, <2>1
  <1>7. CASE Cardinality(Matching(r)) = 1
    <2>1. \E x : Matching(r) = {x}
      BY <1>3, <1>7, FS_Singleton
    <2>2. Match(r) = v
      BY <1>2, <2>1 DEF Match
    <2>3. Matched(r) /\ DecisionOf(r) = "merge"
      BY <1>1, <1>7 DEF Matched, DecisionOf
    <2> QED  BY <1>2, <1>5, <2>2, <2>3
  <1> QED  BY <1>4, <1>6, <1>7

(* However a workbook is edited between its imports, a row is imported at most once
   while no row that shares its SKU in its product comes before it or goes, or if it
   has an item number; and no product is created in public from rows that leave
   something to ask (groupRows, matchExisting, Stage, applyGroup). *)
THEOREM LinesImportOnce == SheetSpec => []ImportedOnce
  <1>1. SheetInv => ImportedOnce
    BY WhatWasImportedIsFound DEF SheetInv, ImportedOnce
  <1> QED  BY SheetInvInit, SheetInvNext, <1>1, PTL DEF SheetSpec
-----------------------------------------------------------------------------
(* Money.                                                                  *)

\* What ParseMoney returns when it is not negative.
Fits(minor) == minor \in Nat /\ minor <= MaxInt /\ WholeFits(minor \div 100)

IsText(text) == text \in [neg : BOOLEAN, whole : Nat, frac : Seq(0..9)]

IsTyped(of) == of.num \in Int /\ of.den \in Nat \ {0} /\ of.rounded \in BOOLEAN

PriceInv ==
    /\ price # NoAmount => Fits(price) /\ IsTyped(typed) /\ Nearest(price, typed)
    /\ staged # NoAmount =>
         /\ IsTyped(staged)
         /\ \E minor \in Nat : staged.text = Decimal(minor) /\ Nearest(minor, staged)

-----------------------------------------------------------------------------
(* What int64 holds is not changed by its arithmetic. *)
LEMMA Int64Is ==
    ASSUME NEW n \in Int, -MaxInt - 1 <= n, n <= MaxInt
    PROVE  Int64(n) = n
  BY MoneyAssumption DEF Int64

(* A hundred or more hundredths cannot be written. *)
LEMMA HundredthsType ==
    ASSUME NEW frac \in Seq(0..9)
    PROVE  Hundredths(frac) \in 0..99
  <1>1. Len(frac) > 0 => frac[1] \in 0..9
    OBVIOUS
  <1>2. Len(frac) > 1 => frac[2] \in 0..9
    OBVIOUS
  <1> DEFINE tens == IF Len(frac) > 0 THEN 10 * frac[1] ELSE 0
             units == IF Len(frac) > 1 THEN frac[2] ELSE 0
  <1>3. tens \in 0..90
    <2>1. CASE Len(frac) > 0
      <3>1. PICK n \in 0..9 : frac[1] = n
        BY <1>1, <2>1
      <3>2. tens = 10 * n
        BY <2>1, <3>1
      <3>3. 10 * n \in 0..90
        OBVIOUS
      <3> HIDE DEF tens
      <3> QED
        BY <3>2, <3>3
    <2> QED
      BY <2>1
  <1>4. units \in 0..9
    BY <1>2
  <1>5. Hundredths(frac) = tens + units
    BY DEF Hundredths
  <1> HIDE DEF tens, units
  <1> QED
    BY <1>3, <1>4, <1>5

(* The text of an amount that is not negative. *)
LEMMA DecimalIs ==
    ASSUME NEW minor \in Nat
    PROVE  /\ IsText(Decimal(minor))
           /\ Decimal(minor).neg = FALSE /\ Decimal(minor).whole = minor \div 100
           /\ Len(Decimal(minor).frac) = 2
           /\ minor = Decimal(minor).whole * 100 + Hundredths(Decimal(minor).frac)
  <1> DEFINE w == minor \div 100
             d == (minor % 100) \div 10
             u == minor % 10
  <1>1. w \in Nat /\ d \in 0..9 /\ u \in 0..9 /\ minor = w * 100 + (10 * d + u)
    OBVIOUS
  <1>2. Abs(minor) = minor /\ (minor < 0) = FALSE
    BY DEF Abs
  <1> DEFINE text == [neg |-> FALSE, whole |-> w, frac |-> <<d, u>>]
  <1>3. Decimal(minor) = text
    BY <1>2, Zenon DEF Decimal
  <1> HIDE DEF w, d, u
  <1>4. text.neg = FALSE /\ text.whole = w /\ text.frac = <<d, u>>
    OBVIOUS
  <1>5. Len(<<d, u>>) = 2 /\ <<d, u>>[1] = d /\ <<d, u>>[2] = u /\ <<d, u>> \in Seq(0..9)
    BY <1>1
  <1>6. Hundredths(<<d, u>>) = 10 * d + u
    BY <1>1, <1>5 DEF Hundredths
  <1>7. IsText(text)
    BY <1>1, <1>5 DEF IsText
  <1> HIDE DEF text
  <1> QED
    BY <1>1, <1>3, <1>4, <1>5, <1>6, <1>7 DEF w, d, u

(* ParseMoney returns the amount that is written, whatever the width: there is no
   overflow. *)
THEOREM ParsedIsWritten ==
    ASSUME NEW text, IsText(text), NEW m \in ParseMoney(text)
    PROVE  /\ m = Signed(text.neg, text.whole * 100 + Hundredths(text.frac))
           /\ m >= 0 => Fits(m)
  <1> DEFINE h == Hundredths(text.frac)
             w == text.whole
  <1>1. w \in Nat /\ WholeFits(w) /\ h \in 0..99 /\ text.neg \in BOOLEAN
    BY HundredthsType DEF IsText, ParseMoney
  <1> HIDE DEF h, w
  <1>2. w * 100 + 99 <= MaxInt
    BY <1>1, MoneyAssumption DEF WholeFits
  <1>3. Int64(w * 100) = w * 100 /\ Int64(w * 100 + h) = w * 100 + h
    BY <1>1, <1>2, Int64Is, MoneyAssumption
  <1>4. Int64(Signed(text.neg, w * 100 + h)) = Signed(text.neg, w * 100 + h)
    BY <1>1, <1>2, Int64Is, MoneyAssumption DEF Signed
  <1>5. m = Signed(text.neg, w * 100 + h)
    BY <1>3, <1>4 DEF ParseMoney, h, w
  <1>6. m >= 0 => m = w * 100 + h
    BY <1>1, <1>5 DEF Signed
  <1>7. (w * 100 + h) \div 100 = w
    BY <1>1
  <1>8. m >= 0 => Fits(m)
    BY <1>1, <1>2, <1>6, <1>7, MoneyAssumption DEF Fits
  <1> QED
    BY <1>5, <1>8 DEF h, w

(* An amount that ParseMoney can return is returned for what it is displayed as. *)
THEOREM DisplayedReadsBack ==
    ASSUME NEW minor, Fits(minor)
    PROVE  ParseMoney(Decimal(minor)) = {minor}
  <1> DEFINE text == Decimal(minor)
  <1>1. minor \in Nat /\ WholeFits(minor \div 100)
    BY DEF Fits
  <1>2. /\ IsText(text) /\ text.neg = FALSE /\ text.whole = minor \div 100 /\ Len(text.frac) = 2
        /\ minor = text.whole * 100 + Hundredths(text.frac)
    BY <1>1, DecimalIs
  <1> HIDE DEF text
  <1>3. \A m \in ParseMoney(text) : m = minor
    <2> TAKE m \in ParseMoney(text)
    <2>1. m = Signed(text.neg, text.whole * 100 + Hundredths(text.frac))
      BY <1>2, ParsedIsWritten
    <2> QED
      BY <1>2, <2>1 DEF Signed
  <1>4. WholeFits(text.whole) /\ Len(text.frac) <= 2
    BY <1>1, <1>2
  <1>5. ParseMoney(text) # {}
    BY <1>4 DEF ParseMoney
  <1> QED
    BY <1>3, <1>5 DEF text

(* ParseMoneyRounded returns the nearest amount and says when it is another. *)
THEOREM RoundedIsNearest ==
    ASSUME NEW f \in [num : Int, den : Nat \ {0}], NEW read \in ParseMoneyRounded(f)
    PROVE  /\ read.amount \in Int /\ read.rounded \in BOOLEAN
           /\ 2 * Abs(read.amount * f.den - 100 * f.num) <= f.den
           /\ ~ read.rounded => read.amount * f.den = 100 * f.num
  <1> DEFINE den == f.den
             num == f.num
             cents == Abs(100 * num)
             q == cents \div den
             r == cents % den
             up == IF 2 * r >= den THEN 1 ELSE 0
  <1>1. num \in Int /\ den \in Nat /\ den > 0 /\ cents \in Nat
    BY DEF Abs
  <1>2. read.amount = Signed(num < 0, q + up) /\ read.rounded = (r # 0)
    BY DEF ParseMoneyRounded
  <1>3. cents = IF num < 0 THEN -(100 * num) ELSE 100 * num
    BY <1>1 DEF Abs
  <1> HIDE DEF den, num, cents
  <1>4. q \in Nat /\ r \in Nat /\ r < den /\ cents = den * q + r
    BY <1>1
  <1>5. up \in {0, 1} /\ (up = 1 <=> 2 * r >= den)
    BY <1>1, <1>4
  <1> HIDE DEF q, r, up
  <1>6. (q + up) * den - cents = up * den - r
    BY <1>1, <1>4, <1>5
  <1>7. /\ 2 * (up * den - r) <= den
        /\ 2 * (r - up * den) <= den
    BY <1>1, <1>4, <1>5
  <1> DEFINE off == (q + up) * den - cents
  <1>8. off \in Int /\ 2 * off <= den /\ 2 * (-off) <= den /\ (r = 0 => off = 0)
    BY <1>1, <1>4, <1>5, <1>6, <1>7
  <1>9. read.amount \in Int
    BY <1>2, <1>4, <1>5 DEF Signed
  <1>10. read.amount * den - 100 * num = IF num < 0 THEN -off ELSE off
    <2>1. CASE num < 0
      BY <1>1, <1>2, <1>3, <1>4, <1>5, <2>1 DEF Signed
    <2>2. CASE ~ (num < 0)
      BY <1>1, <1>2, <1>3, <1>4, <1>5, <2>2 DEF Signed
    <2> QED
      BY <2>1, <2>2
  <1> HIDE DEF off
  <1> DEFINE a == read.amount * den
             b == 100 * num
  <1>11. a \in Int /\ b \in Int /\ a - b = IF num < 0 THEN -off ELSE off
    BY <1>1, <1>9, <1>10
  <1> HIDE DEF a, b
  <1>12. 2 * Abs(a - b) <= den
    BY <1>1, <1>8, <1>11 DEF Abs
  <1>13. r = 0 => a = b
    BY <1>8, <1>11
  <1> QED
    BY <1>2, <1>9, <1>12, <1>13 DEF den, num, a, b

-----------------------------------------------------------------------------
(* The invariant holds at first and is kept by each of the four actions. *)
LEMMA PriceInitially == MoneyInit => PriceInv
  BY DEF MoneyInit, PriceInv

LEMMA SaveInv ==
    ASSUME PriceInv, Save
    PROVE  PriceInv'
  <1>0. PICK text \in Texts : \E m \in ParseMoney(text) :
          /\ m >= 0
          /\ price' = m
          /\ typed' = [num |-> Signed(text.neg, text.whole * 100 + Hundredths(text.frac)), den |-> 100,
                       rounded |-> FALSE]
          /\ UNCHANGED staged
    BY DEF Save
  <1>1. PICK m \in ParseMoney(text) :
          /\ m >= 0
          /\ price' = m
          /\ typed' = [num |-> Signed(text.neg, text.whole * 100 + Hundredths(text.frac)), den |-> 100,
                       rounded |-> FALSE]
          /\ UNCHANGED staged
    BY <1>0
  <1>2. IsText(text)
    BY MoneyAssumption DEF IsText
  <1>3. m = typed'.num /\ Fits(m)
    BY <1>1, <1>2, ParsedIsWritten
  <1>4. m \in Nat /\ IsTyped(typed') /\ typed'.den = 100 /\ typed'.rounded = FALSE
    BY <1>1, <1>3 DEF IsTyped, Fits
  <1>5. Nearest(m, typed')
    BY <1>3, <1>4 DEF Nearest, Abs
  <1> QED
    BY <1>1, <1>3, <1>4, <1>5 DEF PriceInv

LEMMA SaveAsReadInv ==
    ASSUME PriceInv, SaveAsRead
    PROVE  PriceInv'
  <1>1. price' = price
    BY DisplayedReadsBack DEF SaveAsRead, PriceInv
  <1> QED
    BY <1>1 DEF SaveAsRead, PriceInv

LEMMA StageInv ==
    ASSUME PriceInv, Stage
    PROVE  PriceInv'
  <1>0. PICK f \in Fractions : \E read \in ParseMoneyRounded(f) :
          /\ read.amount >= 0
          /\ staged' = [text |-> Decimal(read.amount), num |-> f.num, den |-> f.den, rounded |-> read.rounded]
          /\ UNCHANGED <<price, typed>>
    BY DEF Stage
  <1>1. PICK read \in ParseMoneyRounded(f) :
          /\ read.amount >= 0
          /\ staged' = [text |-> Decimal(read.amount), num |-> f.num, den |-> f.den, rounded |-> read.rounded]
          /\ UNCHANGED <<price, typed>>
    BY <1>0
  <1>2. f \in [num : Int, den : Nat \ {0}]
    BY MoneyAssumption
  <1>3. read.amount \in Nat /\ IsTyped(staged')
    BY <1>1, <1>2, RoundedIsNearest DEF IsTyped
  <1>4. Nearest(read.amount, staged')
    BY <1>1, <1>2, RoundedIsNearest DEF Nearest
  <1>5. staged'.text = Decimal(read.amount)
    BY <1>1
  <1> QED
    BY <1>1, <1>3, <1>4, <1>5 DEF PriceInv

LEMMA ImportInv ==
    ASSUME PriceInv, Import
    PROVE  PriceInv'
  <1>1. PICK m \in ParseMoney(staged.text) : m >= 0 /\ price' = m
    BY DEF Import
  <1>2. /\ staged # NoAmount /\ staged' = NoAmount
        /\ typed' = [num |-> staged.num, den |-> staged.den, rounded |-> staged.rounded]
    BY DEF Import
  <1>3. PICK minor \in Nat : staged.text = Decimal(minor) /\ Nearest(minor, staged)
    BY <1>2 DEF PriceInv
  <1>4. /\ IsText(staged.text) /\ staged.text.neg = FALSE
        /\ minor = staged.text.whole * 100 + Hundredths(staged.text.frac)
    <2>1. /\ IsText(Decimal(minor)) /\ Decimal(minor).neg = FALSE
          /\ minor = Decimal(minor).whole * 100 + Hundredths(Decimal(minor).frac)
      BY DecimalIs
    <2> QED
      BY <1>3, <2>1
  <1>5. m = Signed(staged.text.neg, staged.text.whole * 100 + Hundredths(staged.text.frac)) /\ Fits(m)
    BY <1>1, <1>4, ParsedIsWritten
  <1>6. m = minor /\ Fits(m)
    BY <1>4, <1>5 DEF Signed
  <1>7. IsTyped(staged)
    BY <1>2 DEF PriceInv
  <1>8. IsTyped(typed') /\ Nearest(m, typed')
    BY <1>2, <1>3, <1>6, <1>7 DEF IsTyped, Nearest
  <1> QED
    BY <1>1, <1>2, <1>6, <1>8 DEF PriceInv

LEMMA PriceInductive == PriceInv /\ [MoneyNext]_moneyVars => PriceInv'
  <1> SUFFICES ASSUME PriceInv, [MoneyNext]_moneyVars
               PROVE  PriceInv'
    OBVIOUS
  <1>1. CASE UNCHANGED moneyVars
    BY <1>1 DEF PriceInv, moneyVars
  <1> QED
    BY <1>1, SaveInv, SaveAsReadInv, StageInv, ImportInv DEF MoneyNext

(* A price is what was typed, rounded only where the review says so, and can be
   saved as it is read (platform.ParseMoney, ParseMoneyRounded, Decimal). *)
THEOREM ThmAmountsAreExact == MoneySpec => []AmountsAreExact
  <1>1. PriceInv => AmountsAreExact
    BY DisplayedReadsBack DEF PriceInv, AmountsAreExact
  <1> QED
    BY <1>1, PriceInitially, PriceInductive, PTL DEF MoneySpec
=============================================================================
