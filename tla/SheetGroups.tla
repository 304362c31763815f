---------------------------- MODULE SheetGroups -----------------------------
(***************************************************************************)
(* How a workbook becomes a batch of staged rows (internal/importer):      *)
(* rows are grouped into products, exact duplicates are skipped, SKUs that *)
(* collide are renamed (groupRows, sheet.go), rows are matched with the    *)
(* variants in the catalogue (matchExisting, importer.go), and what needs  *)
(* a person is left pending (Stage).  A batch is decided on, committed,    *)
(* possibly in part (applyGroup), and the workbook is imported again after *)
(* rows were added, moved or removed in it.                                *)
(*                                                                         *)
(* A SKU is a sequence: <<sku>> as it is entered, <<sku, 2>> renamed, and  *)
(* the latter may be entered as well.  A row's group stands for its        *)
(* category, name, brand and product-level attributes (groupKey), its line *)
(* for the model number, stock, variant attributes and prices.  A row that *)
(* is corrected is another row.  A batch is committed before the next one  *)
(* is staged, and nobody edits the catalogue but through imports; what     *)
(* happens between the staging and the commit is in ImportReview.          *)
(***************************************************************************)
EXTENDS Naturals, Sequences, FiniteSets

CONSTANTS
    ParsedRows,   \* the rows that parseRow may make of the workbook's rows
    NoItem,       \* no supplier item number
    NoMatch,      \* no target
    MaxRows,      \* bound: rows that are ever entered in the workbook
    MaxCommits    \* bound: how often a batch is committed

\* A SKU is a sequence; a row is without an issue, with a warning or with an error.
ASSUME SheetAssumption ==
    \A row \in ParsedRows :
        /\ row.severity \in {"none", "warning", "error"}
        /\ Len(row.sku) \in Nat /\ row.sku = [i \in 1..Len(row.sku) |-> row.sku[i]]

VARIABLES
    sheet,      \* the rows, in the order of the workbook
    variants,   \* the catalogue: what rows of earlier imports have become
    public,     \* the products whose status is active
    commits,
    newest,     \* history: the last row that was entered, counting from 1
    lines,      \* history: which of them each row of the workbook is
    steady,     \* history: those that were imported and not disturbed since
    warned,     \* history: the products created from rows that are unclear
    grown       \* history: the products that unclear rows were added to

sheetVars == <<sheet, variants, public, commits, newest, lines, steady, warned, grown>>

SheetRows == 1..Len(sheet)
Entered(r) == sheet[r].sku

-----------------------------------------------------------------------------
\* Rows with an error are left out of the grouping.
Sound(r) == sheet[r].severity # "error"
Members(g) == {r \in SheetRows : Sound(r) /\ sheet[r].group = g}

\* signature, within a group.
SameLine(r, s) ==
    /\ Sound(r) /\ Sound(s) /\ sheet[r].group = sheet[s].group
    /\ <<sheet[r].sku, sheet[r].item, sheet[r].line>> = <<sheet[s].sku, sheet[s].item, sheet[s].line>>

\* duplicate_row, and the row it repeats: has_duplicates.
Repeats(r) == \E s \in SheetRows : s < r /\ SameLine(s, r)
Repeated(r) == \E s \in SheetRows : s > r /\ SameLine(r, s)

\* The SKU of a row as groupRows leaves it.  skus counts the rows of the group
\* before it under the SKUs they were left with.
FinalSKU ==
    LET sku[r \in SheetRows] ==
            LET n == Cardinality({s \in Members(sheet[r].group) :
                                    s < r /\ ~ Repeats(s) /\ sku[s] = Entered(r)})
            IN IF Sound(r) /\ ~ Repeats(r) /\ n > 0 THEN Append(Entered(r), n + 1) ELSE Entered(r)
    IN [r \in SheetRows |-> sku[r]]

\* Mutant of Warned: the first of several equal rows is not flagged.
WarnedUnflagged(r) == sheet[r].severity = "warning" \/ FinalSKU[r] # Entered(r)

\* Warnings: of the parser, has_duplicates, ambiguous_variant.
Warned(r) == sheet[r].severity = "warning" \/ Repeated(r) \/ FinalSKU[r] # Entered(r)

\* "Any warning in a group sends the whole product to review."
NeedsReview(g) == \E r \in Members(g) : ~ Repeats(r) /\ Warned(r)

-----------------------------------------------------------------------------
\* The variants that matchExisting finds for a row, by SKU or by item number.
Matching(r) ==
    LET sku == FinalSKU[r] IN
    {v \in variants :
        \/ v.sku = sku
        \/ sheet[r].item # NoItem /\ (v.item = sheet[r].item \/ v.sku = <<sheet[r].item>>)}

Matched(r) == ~ Repeats(r) /\ Cardinality(Matching(r)) = 1
Match(r) == CHOOSE v \in Matching(r) : TRUE

\* GroupKey, which rows with an error do not have.
GroupKey(r) == IF Sound(r) THEN sheet[r].group ELSE NoMatch

\* groupTarget: the product of the group's last row that matched.
Target(r) ==
    LET matched == {s \in SheetRows : Matched(s) /\ GroupKey(s) = GroupKey(r)}
    IN IF matched = {} THEN NoMatch
       ELSE Match(CHOOSE s \in matched : \A q \in matched : q <= s).product

\* matchExisting, then Stage: "a person must decide".
DecisionOf(r) ==
    IF Repeats(r) THEN "skip"
    ELSE IF ~ Sound(r) \/ Cardinality(Matching(r)) > 1 THEN "pending"
    ELSE IF Matched(r) THEN "merge" ELSE "accept"

\* What a row is staged with.
StagedRow(r) ==
    [decision |-> DecisionOf(r),
     sku      |-> FinalSKU[r],
     status   |-> IF Sound(r) /\ NeedsReview(sheet[r].group) THEN "needs_review" ELSE "active",
     product  |-> IF ~ Repeats(r) /\ Matched(r) THEN Match(r).product
                  ELSE IF ~ Repeats(r) /\ Matching(r) = {} THEN Target(r) ELSE NoMatch,
     variant  |-> IF Matched(r) THEN Match(r).row ELSE NoMatch]

-----------------------------------------------------------------------------
\* The rows of product g in a workbook have SKUs of their own.
Apart(rows, g) ==
    \A r, s \in DOMAIN rows :
        /\ r # s /\ rows[r].group = g /\ rows[s].group = g
        /\ rows[r].severity # "error" /\ rows[s].severity # "error"
        => rows[r].sku # rows[s].sku

\* Something about product g is left to ask: a row was warned about, appears twice
\* or shares its SKU with another.
Unclear(g) == ~ Apart(sheet, g) \/ \E r \in Members(g) : sheet[r].severity = "warning"

\* The imported rows that an edit of the workbook leaves undisturbed: those before
\* the edit, and those whose SKU is not and was not shared in their product.
Undisturbed(rows, ofLines) ==
    {x \in steady : \A r \in DOMAIN rows : ofLines[r] = x =>
        \/ \A s \in 1..r : s \in SheetRows /\ rows[s] = sheet[s] /\ ofLines[s] = lines[s]
        \/ Apart(sheet, rows[r].group) /\ Apart(rows, rows[r].group)}

SheetInit ==
    /\ sheet = <<>> /\ variants = {} /\ public = {} /\ commits = 0
    /\ newest = 0 /\ lines = <<>> /\ steady = {} /\ warned = {} /\ grown = {}

\* A sequence with one more element at place i.
Inserted(seq, i, e) ==
    [r \in 1..(Len(seq) + 1) |-> IF r < i THEN seq[r] ELSE IF r = i THEN e ELSE seq[r - 1]]

\* parseRow, of a row that was entered somewhere in the workbook.
ParseRow ==
    /\ newest < MaxRows /\ newest' = newest + 1
    /\ \E row \in ParsedRows, i \in 1..(Len(sheet) + 1) :
         /\ sheet' = Inserted(sheet, i, row)
         /\ lines' = Inserted(lines, i, newest')
    /\ steady' = Undisturbed(sheet', lines')
    /\ UNCHANGED <<variants, public, commits, warned, grown>>

\* Rows are sorted, moved or removed.
MoveRows ==
    /\ \E n \in 0..Len(sheet) : \E old \in [1..n -> SheetRows] :
         /\ \A r, s \in 1..n : r # s => old[r] # old[s]
         /\ sheet' = [r \in 1..n |-> sheet[old[r]]]
         /\ lines' = [r \in 1..n |-> lines[old[r]]]
    /\ steady' = Undisturbed(sheet', lines')
    /\ UNCHANGED <<variants, public, commits, newest, warned, grown>>

\* The product that a row's group is committed to: that of its last decided row with
\* a target.  Without one, a new product is created.
CommittedTo(batch, r, decided) ==
    LET pointed == {s \in decided : GroupKey(s) = GroupKey(r) /\ batch[s].product # NoMatch}
    IN IF pointed = {} THEN NoMatch
       ELSE batch[CHOOSE s \in pointed : \A q \in pointed : q <= s].product

\* The variant that applyGroup makes of an accepted row.
Created(batch, r, target, n) ==
    [sku     |-> batch[r].sku, item |-> sheet[r].item, row |-> lines[r],
     product |-> IF target # NoMatch THEN target ELSE <<sheet[r].group, n>>]

\* Commit, of a batch that was reviewed: any row without an error may have been
\* accepted, any row that matches a variant left to be merged with it (which changes
\* its prices and stock), and the others skipped.  A product has one variant of a
\* SKU, or the commit fails.  A new product has the status its rows are staged with,
\* one that is extended keeps its own.
CommitRows ==
    /\ commits < MaxCommits /\ commits' = commits + 1
    /\ LET batch == [r \in SheetRows |-> StagedRow(r)] IN
       \E accepted \in SUBSET {r \in SheetRows : Sound(r)},
          merged \in SUBSET {r \in SheetRows : batch[r].variant # NoMatch} :
         LET target  == [r \in accepted |-> CommittedTo(batch, r, accepted \cup merged)]
             made    == [r \in accepted |-> Created(batch, r, target[r], commits')]
             new     == {r \in accepted : target[r] = NoMatch}
             unclear == {r \in accepted : Unclear(sheet[r].group)}
             Products(rows) == {made[r].product : r \in rows}
         IN /\ accepted # {} /\ accepted \cap merged = {}
            /\ variants' = variants \cup {made[r] : r \in accepted}
            /\ Cardinality({<<v.product, v.sku>> : v \in variants'})
                   = Cardinality(variants) + Cardinality(accepted)
            /\ public' = public \cup Products({r \in new : batch[r].status = "active"})
            /\ steady' = steady \cup {lines[r] : r \in {s \in accepted : ~ Repeats(s)}}
            /\ warned' = warned \cup Products(unclear \cap new)
            /\ grown' = grown \cup Products(unclear \ new)
    /\ UNCHANGED <<sheet, newest, lines>>

SheetNext == ParseRow \/ MoveRows \/ CommitRows

SheetSpec == SheetInit /\ [][SheetNext]_sheetVars

-----------------------------------------------------------------------------
(* A product is created in public only if its rows leave nothing to ask: none of
   them appears twice, was warned about, or shares its SKU with another.  (Rows that
   extend a product are another matter: WarnedAreReviewed.) *)
UnseenIsClear == public \cap warned = {}

(* What a row has become is found again, or a person is asked which of several it
   is; it is not created a second time and not merged with what another row has
   become.  This is so of a row whose SKU no other row of its product shares, however
   rows are added, moved and removed; of any row while the rows before it stay as they
   are; and of a row with an item number that does not repeat another. *)
TwiceIsOnce ==
    \A r \in SheetRows :
        \/ lines[r] \in steady
        \/ sheet[r].item # NoItem /\ ~ Repeats(r) /\ \E v \in variants : v.row = lines[r]
        => \/ StagedRow(r).decision = "merge" /\ StagedRow(r).variant = lines[r]
           \/ StagedRow(r).decision = "pending"

(* What TwiceIsOnce says of the rows of a workbook that is imported again, and
   UnseenIsClear of the products that are created from them. *)
ImportedOnce == UnseenIsClear /\ TwiceIsOnce

(* "Any warning in a group sends the whole product to review instead of publishing
   it", the rows that are added to a product included.  TLC refutes it: a product that
   is extended keeps its status, and an active one shows the added rows at once. *)
WarnedAreReviewed == public \cap (warned \cup grown) = {}

(* Wherever rows are put, no row that was imported is staged as another variant.  TLC
   refutes it: a row with the same SKU that is put before it takes its SKU, and is
   merged with its variant, while the row itself is renamed and added. *)
FoundWhereverMoved ==
    \A r \in SheetRows :
        ~ Repeats(r) /\ (\E v \in variants : v.row = lines[r]) => StagedRow(r).decision # "accept"

(* "Rows that collide on SKU without being identical keep distinct SKUs". *)
SKUsStayDistinct ==
    \A r, s \in SheetRows :
        r # s /\ GroupKey(r) = GroupKey(s) /\ Sound(r) /\ ~ Repeats(r) /\ ~ Repeats(s)
            => FinalSKU[r] # FinalSKU[s]
=============================================================================
