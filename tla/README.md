# Verification of the Khan's Bike Zone catalogue backend

This directory holds TLA+ models of the Go backend: the catalogue API, its
background jobs, the price-list importer and the mailing list. TLC checks the
models on small instances. TLAPS proves for every instance what TLC checks as
an invariant or an action property, except for the forms of attribute values and
for liveness. `PROJECT.json` is the machine-readable index: components, runs, mutants, the source lines behind every
definition, findings, hazards and theorems.

## 1. Inventory

The system is one PostgreSQL database at READ COMMITTED. Around it run an API
process (`cmd/api`, which also runs job workers), an optional worker process
(`cmd/worker`), an importer command line and a React front end. Nearly all state
is in the database. What makes the program hard is that every request is a short
transaction that reads without locks and writes later, and that every slow
action is a job whose handler may run twice.

| Component | State | Operations | Hard behaviours | What makes it correct |
|---|---|---|---|---|
| Job queue (`internal/jobs/runner.go`, `db/queries/jobs.sql`) | `jobs` rows: state, attempts, run_after, locked_at | enqueue, claim, complete, retry, fail, reap, sweep, shutdown | crashes, lost replies, leases and timeouts, several processes | bounded attempts, one run at a time, no success forgotten, every job settles |
| Search index (`catalog.go`, `search.sql`, triggers of 00008) | `search_vector` of each product, `reindex_search` jobs | product save (trigger), rename of a brand, category or option, coalescing rebuild in batches | two snapshots inside one trigger function, discarded sibling jobs, failure half-way | an edit is never lost; vectors become current |
| Mailing list (`subscribers.go`) | one row per address, two token hashes, expiry | subscribe, send job, confirm, unsubscribe | mail accepted but reported failed, re-issued tokens, cooldown clock | double opt-in, a confirmed subscriber can leave |
| Import review (`importer.go`) | batch status, row decisions, targets | stage, decide, abort, commit | requests interleave statement by statement, row locks in opposite orders, rollback | a batch is closed once and as reviewed |
| Media (`service/media.go`, `internal/media`) | asset status, renditions, blobs | upload, process | blob store outside the transaction, duplicate uploads, crash half-way | what is shown can be served; every upload is finished |
| Category tree (`taxonomy.go`, `categories.sql`) | parent, slug, materialised path, visibility | create, update with subtree move, delete | optimistic write guarded by the row alone, redundant path | path and parent agree; no cycle |
| Registry (`taxonomy.go`, `brands.sql`, `attributes.sql`) and audit log | brands, suppliers, attributes with options, `audit_log` | create, update, delete, ETags, slugs | snapshots read without a lock and in two statements | log and data agree, edits chain, an ETag covers the options |
| Products (`products.go`, `assemble.go`) | product, variants, prices, values, projections | save, merge and extend from an import, attach images | optimistic save, opposite lock orders, prices compared with stale ones | no lost update; projections mirror values |
| Attribute schema (`taxonomy.go`, `schema.go`) | bindings, options, values | bind, unbind, one value in API, rows, filters and cells | races with product saves, a value spread over rows | no value at the wrong level; what is read can be saved |
| Public catalogue (`catalog.go`, `listing.go`, `store/catalog.go`) | read only | keyset pages, facets, counts | tied keys, edits between pages, filters met by different variants | no page skips or repeats; counts are those of the listings |
| Authentication (`internal/auth`) | users, sessions, devices, pairing codes | login with lockout, change password, pair, revoke | counts read before slow hashing and used after it | failures lock; a changed password ends other sessions; a code is used once |
| Sheet parser (`importer/sheet.go`, `cells.go`) | none (pure) | parse rows, group, generate SKUs, match | duplicates and collisions, the workbook again after rows were added, moved or removed | a line is imported once; a product is created in public only when clear |
| Money (`platform/money.go`) | none (pure) | parse, round, render | int64's ends, half a hundredth | a price is what was typed |
| Rate limiter (`middleware/ratelimit.go`) | bucket and last-seen time per address | allow, sweep | sweeping resets a bucket; the clock is read before the mutex | sweeping never gives extra requests; the map is bounded |
| HTTP, config, commands, front end, seed | request scope only | | | thin translations, see section 9 |

Interactions. A service enqueues a job in the transaction that makes it
necessary, so a job exists exactly if its cause was committed. A Runner claims
jobs and calls the handlers `Catalog.ReindexSearch`, `Media.ProcessJob` and
`Subscribers.SendConfirmationJob`. `Importer.Commit` calls the product service
inside its own transaction. Renaming a category, brand or option touches the
search vectors of every product only through a `reindex_search` job.

## 2. Modules

| Module | Models | Uses |
|---|---|---|
| `JobTable` | one row of `jobs`, and what each statement of `jobs.sql` does to it | |
| `JobLife` | abstract specification: what the queue promises about each job | |
| `JobQueue` | Runner, workers, maintenance loop, shutdown, crashes, clock | `JobTable`, refines `JobLife` |
| `SearchReindex` | search vectors, their triggers, ReindexSearch | `JobTable`, refines `JobLife` |
| `DoubleOptIn` | abstract specification: what the mailing list promises an address | |
| `Subscribers` | the mailing list as seen from one address | `JobTable`, refines `DoubleOptIn` and `JobLife` |
| `ImportReview` | SetDecision, Abort, Commit, row locks | |
| `MediaAssets` | uploads and processing of one digest | `JobTable`, refines `JobLife` |
| `CategoryTree` | create, move, hide, delete; two visibility computations | |
| `Registry` | brands, suppliers, attributes, options, audit log, ETags | |
| `Products` | one product under saves, merges, images and bindings | |
| `AttributeValues` | the forms of an attribute value, saves, required attributes, options, units, bindings, filters, cells | |
| `Catalog` | pages of a listing during edits, facets, counts | |
| `Auth` | logins, passwords, sessions, pairing codes, devices | |
| `SheetGroups` | grouping, SKUs, matching, staging, reviewed commits, edits of the workbook and repeated imports | |
| `Money` | an amount between cell, client and database | |
| `RateLimit` | buckets, sweep, handlers that overtake each other | |
| `MCJobQueue`, `MCTaxonomy`, `MCCatalog`, `MCMediaAssets`, `MCSmallParts` | instances for TLC | |
| `JobQueueProofs`, `SearchReindexProofs`, `SubscribersProofs`, `ProductsProofs`, `AuthProofs` | theorems about one module each | the module, `TLAPS` |
| `TaxonomyProofs` | theorems about `CategoryTree` and `Registry` | `MCTaxonomy` |
| `ServingProofs` | theorems about `Catalog`, `RateLimit`, `MediaAssets` and `AttributeValues` | `MCCatalog`, `MCMediaAssets` |
| `ImporterProofs` | theorems about `ImportReview`, `SheetGroups` and `Money` | `MCSmallParts` |

`MCTaxonomy` puts `CategoryTree` beside `Registry`, `MCCatalog` puts `Catalog`
beside `AttributeValues`, and `MCSmallParts` puts `RateLimit`, `SheetGroups` and
`Money` side by side. These parts share no variable, and a behaviour moves in
one of them only, so that such a run explores the sum of their state spaces and
not the product.

A step of a model is one SQL statement where other transactions can see the
difference, and one whole transaction where they cannot. The latter is the case
when the transaction's first statement locks the row that all the others use, or
when it has only one writing statement. Each module says which of the two it
does and why in its opening comment.

### How state and actions correspond to the code

*JobTable and JobQueue.* A row has `state`, `attempts`, `age` (since
`updated_at`) and `due` (until `run_after`). Times are relative to now and
saturate, so the clock can run for ever in a finite state space. Columns that no
statement reads back (`locked_by`, `last_error`) are left out. A worker's `pc`
is its place in `work`/`ProcessNext`: `head` (the loop's context test), `claim`,
`run`, `record`. A process is `up`, `draining` (signal received), `cancelled`
(grace over) or `down`. `ClaimReplyLost` and `RecordFails` are the two ways a
statement can succeed for one side only. `Tick` ages all rows. While
`HonourDeadline` is TRUE it does not pass the deadline of a running handler.
`ok` and `lost` are history variables that only properties read.

*SearchReindex.* Versions stand for texts: `own[p]` for a product's text,
`names` for the shared names. `ReadSources` and `WriteVector` are the SELECT and
the UPDATE inside `products_refresh_search_vector`, which see two snapshots;
`pend` holds what the open batch has written and others cannot see yet.
`SaveBegin` is a product save whose row trigger has already computed the vector;
it holds the row lock until `SaveCommit` or `SaveAbort`. `Rename` queues a job,
`KeepName` does not: it writes back the name it has read, and with it, perhaps,
over what another admin has just written. The history variable `doubt` is set by
the three steps at which the code may lose an edit, and reset when a rebuild starts
while no other is inside a batch (section 4).

*Subscribers.* The n-th token pair issued is the number n, and a hash column
holds the number of its pair. The history variable `issued` records for each pair
how often the address had left the list when it was issued. `IssueTokens` is the job's transaction, `SendMail`
the SMTP exchange with all four outcomes of "accepted" and "reported". Links in
the inbox may be used at any time, in any order and more than once.

*ImportReview.* `Decide`, `WriteDecision`, `MarkReviewing` are the statements of
`SetDecision`; `Commit`, `Close`, `ListRows`, then one of `PassOver`,
`ApplyAccept`, `ApplyMerge`, `MergeFails` for each row, then `Committed` are those of
`Commit`. `batchLock` and `rowLock` are row locks held to the end of a
transaction. A statement that needs a lock another transaction holds is
disabled. `BreakDeadlock` is PostgreSQL's deadlock detector. `DeleteTarget` is the product
service deleting a matched product (the foreign key sets the column to NULL).

*MediaAssets.* One digest: images share nothing else. `PutOriginal` and
`PutRendition` act on the blob store at once; `InsertPending` and `RecordReady`
are transactions. Whether the bytes decode is fixed at the start.

*CategoryTree.* `CreateBegin` and `UpdateBegin` are the unlocked reads,
`CreateInsert` and `UpdateWrite` the writing statements up to the commit.
`changed[a]` stands for "the `updated_at` that a has read is no longer the
row's". `Moved` is MoveCategorySubtree on ltree paths, which are sequences of
slugs here. Null also stands for the columns of ids not in use.

*Registry.* A request's record is `req[r]`: what it is about, what it has read of
it, and the attribute its client held before. `GetAttribute` names the two
statements of `getAttribute` in their order. `Replay` carries out the entries of
the log one after the other; only the property uses it. `Write` is the changing statement
with the audit entry of the same transaction; `version` is `updated_at`. A
deletion may be refused at any time, which stands for the foreign keys.

*Products.* Each request is one transaction, `pc` its next statement and `locks`
the rows it has locked. A document is the set of requests whose changes it
contains, so that a lost update is a set that shrinks. `Save` is the whole
document with If-Match (a PUT without it overwrites, as it asks to), `Extend` and `Merge` are what an import does
to a product it has matched, `ChangeMedia` attaches an image, `Bind` and `Unbind`
change the category. `FindValues` and `DeleteCategoryAttributeValues` are one
statement with its snapshot and its locks.

*AttributeValues.* A value is JSON (a shape and contents), a row for each option,
a key in the projection, or a cell. A step is a whole request. What trimming and
slugs make of a text is given by the constant `Forms`, of which
`ValuesAssumption` says only what trimming and collapsing blanks do. `SavedAsRead`
is what a client does that reads a product and saves it. `OptionsOf` lists chosen
options in the attribute's order; `CellMeans` is `parseAttributeCell` type by type.
`Forms` also says which texts are longer than `maxTextValue`, and `UnitForms` what
the cells' patterns make of a unit. `Accepts` is `validateDocument`, with the
required attributes of a product that is published; `raised` remembers that more
is required of the product than when it was saved.

*Catalog.* `ListProducts` is one page: the rows after the cursor, in the order of
the sort keys, ending in the id. Between two pages an admin edits a product or
switches a category. Facets and counts are functions of the state.

*Auth.* The steps are what happens between two accesses to the database:
`Login` reads the account, `Verify` hashes, `RecordFailedLogin` or `OpenSession`
and `CommitLogin` follow. A hash is a password and whether its parameters are
old.

*SheetGroups.* `FinalSKU` is the loop of `groupRows` over a product's rows, with
its counter; `StagedRow` puts together what `matchExisting` and `Stage` decide.
`ParseRow` puts a row anywhere into the workbook, `MoveRows` sorts, moves and
removes rows. `CommitRows` is `apply` with `applyGroup`: a reviewer may have
accepted any row without an error, a repeated or matched one included, and have
left any match to be merged; the target is that of the rows decided so, a new
product gets the status its rows were staged with, and one that is extended keeps
its own. `lines` tells which row is which when rows move, `steady` which imported
rows no edit has disturbed, `warned` and `grown` into which products rows have gone
that left something to ask.

*Money.* `Stage` and `Import` are the price cell of a row; `Save` and
`SaveAsRead` a client's document. `int64` is a constant width.

*RateLimit.* `Arrive` reads the clock, `Admit` or `Reject` is the call of `allow`
under the mutex with its sweep. The token bucket is the library's.

## 3. Runs that pass

| Run | Instance | Question |
|---|---|---|
| `job_queue` | 2 jobs, 2 processes with a worker each, 2 attempts, one stop | Are attempts bounded, leases exclusive, successes accounted for, and does the queue implement `JobLife`? |
| `job_queue_live` | 1 job, 2 processes, two stops | Does every job settle and every shutdown end? |
| `search_reindex` | 2 products, batch of 2, 2 edits, one failure, 2 workers, 2 admins | Is a stale vector always covered by a job or a run, and does every vector become current, but for the code's three ways to lose an edit? |
| `subscribers` | 2 signups' jobs of 2 attempts, 2 workers, expiry 3, cooldown 1 | Link expiry, cooldown, the way out, and is the mail sent? Does all of it implement `DoubleOptIn`? |
| `import_review` | 2 rows (one faulty and matched, one clean), 2 requests | Is a batch closed once, as reviewed, and does every request end? |
| `media_assets` | 2 uploads of the same bytes, 2 renditions, 2 workers | Is what is shown servable, and is every asset finished? |
| `taxonomy` | up to 3 categories, 3 slugs, one admin who restructures and one who edits; beside it 3 requests over 2 brands, a supplier and an attribute with 2 options | Do paths follow parents and both visibilities agree? Do log and data agree, do attribute edits chain, does an ETag cover what the client saw? |
| `products` | 3 requests, 2 at a time, of every kind; 2 attributes, one tier, 2 amounts | Is no save lost, do values fit the bindings and projections the values, are saved prices in force, does every request end? |
| `auth` | 3 requests, 2 at a time; 2 passwords, 2 codes, a clock of 2 minutes, lockout after 2 failures | Do failures lock, does a changed password end other sessions, does a code yield one device? |
| `catalog` | 3 products whose keys tie, 5 orders, pages of one, one edit; beside it one product with 2 variants, an attribute of each data type in turn and one of texts, 2 options, numbers of both signs, 4 kinds of unit, a text that is too long | Does no page skip or repeat? Are counts those of the listings? Do the forms of a value agree, and do displayed values read back from a cell? |
| `small_parts` | 2 addresses, 2 handlers, 6 units of time; workbooks of 3 rows, edited anywhere, 2 commits; amounts around half a hundredth and around an 11-bit integer's end | Is the rate kept and are idle entries forgotten? Is a line imported once, and no product created in public with something to ask? Is a price what was typed? |

All runs are exhaustive within their bounds. For every property in them there is
a mutant: a small, plausible change of one definition (named `...` after the
definition it replaces, with a comment "Mutant of") under which TLC finds the
property violated. A property that no mistake in the code could break is not
kept. Before it was proved, that the jobs of the other three modules live as
`JobLife` says was checked with `MCSearchReindexJobs.cfg` (two rebuilds at a time
and a failure), `MCSubscribersJobs.cfg` and `MCMediaAssetsJobs.cfg`, which pass; no
run repeats it. The `TypeOK` of each module states the types of its variables; the runs
spend their properties on the hazards. `TypeOK` of `JobQueue` and of `Auth` is
proved; the other proofs carry the types that they need in their invariants.

### Bounds, and why they are enough

- `MaxAttempts` is 2 or 3 instead of 5: the code compares `attempts` with
  `max_attempts` only, so the cases are "one left", "none left" and "more left".
- Two workers in two processes: a race over one row is between two runs, and a
  shutdown distinguishes only "mine" and "the others'".
- `Lease = 2`, `Timeout = 1`, `Slack = 1` keep the order of the code's 10-minute
  lease and its shorter timeout, and meet `Timeout + Slack <= Lease` with
  equality, the tightest case. `AgeCap` is above every threshold that is
  compared with an age, so saturation is not visible.
- `MaxStops` and `MaxFailures` bound how often the environment fails. A job that
  fails on its last attempt gives `search_reindex` a doubt and ends both promises
  until the next rebuild, so one failure, which is retried, is the case that matters
  there; `StaleIsCovered` is proved for any number.
- `SearchReindex`: two products fill a batch, which an empty one follows; inside it
  one is written before the other is read, so a product is in front of and behind
  an edit. `StaleIsCovered` is proved for any number and any batch (section 5).
  Two workers are the default (`WORKER_CONCURRENCY`), and
  two rebuilds can overlap; two edits are one that is lost and one that loses it.
- `ImportReview`: lock cycles are between two requests, and a request touches
  one row (decide) or all of them (commit): two rows give one before and one
  after any place.
- `CategoryTree`: three categories give a chain of three, hence a descendant that
  is not a child; a third slug lets a category be renamed while two others exist.
  Symmetry in categories and slugs is sound: no statement orders either and every
  property quantifies over them. `Movers` names the admins who may restructure.
- `Registry`: three requests are an edit that reads, one that changes what was
  read, and one before or between them; two options let one be read and the other
  be added in between.
- `Products`: a lost update, a stale price or a stale projection needs two
  transactions that overlap, and a third that has changed the start. One
  attribute is bound as a variant axis and one to the product. Several variants
  would multiply the rows, each of which is written like the first.
- `Auth`: two open requests race; the third logs in, changes or redeems before
  them. The clock reaches the end of every lock, session and code.
- `Catalog`: three products and pages of one put a product before, at and after
  the cursor; the keys tie in every sort order. One edit may happen between any
  two pages.
- `AttributeValues`: two variants and the product itself are the places a value
  may be at; two options make a value several rows and give an order to change;
  labels are the value of another option, its slug, and a text with a comma. The
  bindings are of either level, and required or not. The numbers are -1, 1, 2 and 3,
  for ranges below and above zero; a unit is none, of letters, with another sign, or
  one that reads as the end of a range. One text is longer than a product may have.
- `SheetGroups`: a collision needs two rows, a renamed SKU that collides again a
  third. Two commits are the first import and the next one. Until the first, rows
  are only appended: which row is which does not matter before anything is imported.
- `RateLimit`: a bucket that a request empties and that is seen half full while it
  refills, and `IdleTTL` at its tightest, `Full + 2 * MaxDelay`; the code has ten minutes where half a minute would do.
- `Money`: `MaxInt = 1023`, so that whole parts of 9 and 10 are on the two sides
  of the limit; thousandths and thirds of a hundredth around zero, one and the
  limit. The theorem has no bound.
- `Subscribers`: `TTL = 3 > Cooldown = 1` keeps the order of 48 hours and the
  cooldown, with time for a resend before the expiry.

Deadlock is checked in the job queue runs, where the system never stops. In the
others a bounded supply of requests, edits, signups, uploads or rows ends, and
with it the behaviour: there CHECK_DEADLOCK is FALSE, and liveness
properties say what must have happened by then.

### Fairness

`Spec` has none. `FairSpec` of each module adds only this:

- a goroutine that can go on does (weak fairness of each worker's steps);
- a handler returns: `ProcessNext` runs it under a context with a timeout, and
  the handlers of this code pass that context to every query;
- a claim is strongly fair in `JobQueue`: a worker polls and sleeps, so its claim
  is enabled again and again but not always; the database does not lose the reply
  to every claim for ever;
- the maintenance loop's timer fires (weak fairness of `Reap`), the clock
  advances, and a supervisor restarts a stopped process;
- a statement that waits for a row lock gets it (strong fairness, in
  `ImportReview`): PostgreSQL grants row locks in the order of waiting;
- in `Products`, less: as long as some request can go on or is in a deadlock, one
  of them does. The requests are bounded, so no more is needed;
- a deadlock is detected and broken.

Nothing is assumed about edits, signups, shutdowns, crashes or failures: they may
happen or not. `RequestsEnd` therefore also covers the case that nobody else
ever comes.

## 4. Where the code does not do what it says

The run `category_cycle` is expected to end in a violation of `NoCycle`, a comment
of the code ("A category cannot become its own ancestor") that `PROJECT.json` quotes
under "findings": two admins who move A under B and B under A at once both succeed,
because only the moved row's `updated_at` is compared.

The configurations below reproduce other counterexamples. Each checks one
property that states a sentence of the repository without the exception that the
property of the passing run makes.

| Configuration | Module | Property | What TLC shows |
|---|---|---|---|
| `MCJobQueueHung.cfg` | `MCJobQueue` | `DoneStaysDone` | `CompleteJob`, `RetryJob` and `FailJob` update by id alone: a worker that outlives its lease records its result over the run that replaced it. `AND locked_by = ... AND attempts = ...` would prevent it. |
| `MCSearchReindexTwo.cfg` | `SearchReindex` | `DiscardedIsCovered` | "this run reads the current state, so it covers" the jobs it discards (`catalog.go:410`): with the default two workers another rebuild may be inside a batch. It has read the names of before the edits and writes its vectors last, and no job is left. |
| `MCSearchReindexPutBack.cfg` | `SearchReindex` | `QuietIsFresh` | `UpdateBrand` and `UpdateOption` decide whether to queue a rebuild by comparing with a row they read without a lock: an admin who puts back the name that another has just changed queues none. |
| `MCSearchReindexLast.cfg` | `SearchReindex` | `DiscardedIsCovered` | A run discards a newer job and then fails on its last attempt: the newer edit has no job left, and never had an attempt of its own. |
| `MCSubscribersOldLink.cfg` | `Subscribers` | `ToldMeansGone` | Every send replaces the unsubscribe hash. The link of an earlier email then answers "success" and changes nothing. |
| `MCImportReviewRace.cfg` | `ImportReview` | `PendingBlocksCommit` | `Commit` counts pending rows without locking them: a row becomes pending again and the batch closes without it. |
| `MCProductsExtend.cfg` | `Products` | `NothingIsLost` | An import that extends a product reads the document and then, in a later statement, the version it checks against: a save in between is overwritten. |
| `MCRegistryLog.cfg` | `Registry` | `EveryEditChains` | Only attribute edits are conditional: the others log as "before" what they read, not what they overwrote, and a second deletion is logged like the first. |
| `MCCatalogRanges.cfg` | `MCCatalog` | `RangesAreObserved` | A numeric facet no product has a value of is offered as 0 to 0. |
| `MCCatalogGuess.cfg` | `MCCatalog` | `NeverAGuess` | A cell that is the slug of several options takes the first of them. |
| `MCCatalogLong.cfg` | `MCCatalog` | `UnderstoodIsSavable` | "so a problem surfaces during" review (`sheet.go:63`): `parseAttributeCell` takes a text of any length and the row is staged without an issue; `decodeValue` refuses more than 1000 characters when the batch is committed, and the commit fails. |
| `MCSmallPartsReview.cfg` | `MCSmallParts` | `WarnedAreReviewed` | "Any warning in a group sends the whole product to review instead of publishing it" (`sheet.go:394`): a row with a warning, or one that was renamed, that extends an active product is public at once. `applyGroup` uses the status of the staged rows only for a product it creates. |
| `MCSmallPartsMoved.cfg` | `MCSmallParts` | `FoundWhereverMoved` | Rows of a product that share a SKU are renamed in their order. One that is put before an imported one takes its SKU and is merged with its variant; the imported row is renamed and added once more. |

TLC refutes these too, when the property is put in the place of those of the
passing run: `FailuresAlwaysLock` and `ChangesSignOut` in `Auth` (a login that
had read the account before another request changed it), `RateIsStrict` in
`RateLimit` (overtaking refills the same time twice), and in `SheetGroups`
`SKUsStayDistinct` (the counter is kept under the new name, so that an entered
`A-2` and a renamed `A` can meet); and with two `Movers` `PathsFollowParents`
fails as `NoCycle` does. A displayed value may also be refused as a cell
(`Readable` in `AttributeValues` says which: a range below zero, and a unit that is
neither letters nor quotes), and one whose unit begins with a hyphen or the like
and a number may be misread (`Legible`); `CellsReadBack` says what happens to each.

Seen, and not a property: an amount between `ParseMoneyRounded`'s limit and
`ParseMoney`'s is staged without an issue, and its import is then refused; the
audit listing orders by `created_at`, the start of the transaction, which may
differ from the order of the commits that `Registry` keeps.

## 5. What is proved

Eight modules hold proofs. The theorems hold for all values of the constants that
meet the assumptions named in the modules, and under the hypotheses that a
statement below names. Almost no property is inductive by itself: each section
says what had to be added to it, since that is what the code relies on.

### JobQueueProofs: any number of jobs, processes and workers

| Theorem | Statement |
|---|---|
| `TypeCorrect` | `Spec => []TypeOK` |
| `AttemptsAreBounded` | `Spec => []AttemptsBounded` |
| `LeasesAreHeld` | `HonourDeadline => (Spec => []LeaseHeld)` |
| `SuccessesAreAccounted` | `HonourDeadline => (Spec => []SuccessAccounted)` |
| `ImplementsJobLife` | `HonourDeadline => (Spec => KeepsJobLife)` |

The argument. `TypeOK` alone is not inductive: the claim adds one to `attempts`,
which stays in range only if a queued row has an attempt left. `TypeInv`
therefore strengthens it with the counting condition on each row (`GoodRow`) and
with `HeldWasClaimed`: the row of a job that some worker holds, unless retention
has deleted it, has been claimed at least once, so that recording a result on it
gives a `done` row with a positive count. `RowMoves` says once, row by row, that
every statement of `jobs.sql` preserves the condition; the proof for `JobQueue`
then goes through the actions. `TypeInv` needs no assumption about deadlines.
Both `TypeCorrect` and `AttemptsAreBounded` follow from it.

`LeaseInv` is the invariant behind the lease. A worker that holds a job knows
that the row is running, that the row is exactly as old as the run
(`age = ran`), and that nobody else holds it. A run's clock stays within
`Timeout + Slack <= Lease < AgeCap` (`WorkersTyped`), so a held row is never
stuck and the reaper cannot take it. This is where `HonourDeadline` is used:
without it `Tick` would let a run outlive its lease, and `MCJobQueueHung.cfg`
shows what happens then. `SuccessesAreAccounted` uses `LeaseInv` to know that a
result is recorded on the row of the run that produced it. `ImplementsJobLife`
shows that the initial state maps to `JobLife`'s and every step maps to a step of
`JobLife` or a stutter; again `LeaseInv` excludes recording a result on a settled
row.

### SearchReindexProofs: any number of products, any batch, any edits

| Theorem | Statement |
|---|---|
| `NoEditIsForgotten` | `Spec => []StaleIsCovered` |
| `JobsKeepTheirLife` | `Spec => KeepsJobLife` |

There may be any number of workers, rebuilds that overlap, admins who rename at
once, and failures. `StaleIsCovered` says that a stale product has a job or a run to
come unless `doubt` is set, and `doubt` is set by exactly three steps: a rebuild
that discards jobs while another is inside a batch, an admin who puts back the name
that another has just changed, and a job whose last attempt fails. The next
rebuild that starts alone resets it. TLC shows of each of the three that the code
does lose an edit there (`MCSearchReindexTwo.cfg`, `MCSearchReindexPutBack.cfg`,
`MCSearchReindexLast.cfg`).

The argument is that without a doubt one of two things holds of every worker inside
a batch (`BatchIsCurrent`): what it has read and what it has written and not yet
committed is current, or some rebuild is yet to start (`Pending`: a job is queued,
about to be reaped, or claimed by a worker that has not discarded yet). An edit
makes the batch stale and queues a job in the same transaction. `Pending` ends only
when a rebuild discards (`PendingStays`), and then nobody else is inside a batch, or
a doubt is set.

The second theorem has no exception. The rows of `jobs` that the three modules
of job handlers keep without the queue's clock live as `JobLife` says, like those
of `JobQueue`: with any number of overlapping rebuilds, a discarded job is one that
nobody runs. The invariant is that a worker holds a running row and holds it alone
(`HeldAlone`), and that a queued row has an attempt left (`GoodRow`); the lemma
`RowsLive` says of each statement of `jobs.sql` that it moves such a row as
`JobLife` does. `SubscribersProofs` and `ServingProofs` prove the same of
confirmation and media jobs, the latter with `QueuesLast`: an upload that has not
ended has no job yet, so that queueing one is a job's first step.

### SubscribersProofs: any number of signups, workers, attempts and emails

| Theorem | Statement |
|---|---|
| `ConfirmedCanAlwaysLeave` | `Spec => []ConfirmedCanLeave` |
| `LinksExpireInTime` | `Spec => []LinksExpire` |
| `OldLinksStayDead` | `Spec => OldLinksAreDead` |
| `CooldownIsKept` | `Spec => OneEmailPerCooldown` |
| `ImplementsDoubleOptIn` | `Spec => KeepsOptIn` |
| `JobsKeepTheirLife` | `Spec => KeepsJobLife` |

A row knows two hashes and an expiry; the properties speak of emails sent long
ago. `PairIsCurrent` connects them: a pair that can still confirm is the latest,
is the one that unsubscribes, and was issued since the address last left.
`ExpiryFollowsAge` says that the expiry runs with the age of the pair unless a
signup has put it off, and then a job is on its way that will issue another
(`WillIssue`); `ExpiryIsFresh` that within the cooldown it is still close to its
full length, which is how the code tells that a signup is too soon.

`DoubleOptIn` is the list as the address sees it: off, asked or on, with its newest
link, whether that was issued since it last left, and what has been mailed. The
row's `unsubscribe_token_hash` is the newest link and the departures counted in
`issued` say whether it is fresh; jobs, retries, crashes, repeated signups and the
clock are stutters. Joining maps because a pair that confirms is the one that
unsubscribes (`PairIsCurrent`), and leaving because no pair is newer than the last
departure (`PairsExist`).

### ProductsProofs: any number of requests, attributes, tiers and amounts

| Theorem | Statement |
|---|---|
| `ValuesFitTheSchema` | `Spec => []ValuesFit` |
| `ProjectionsAgree` | `Spec => []ProjectionAgrees` |
| `NoSaveLosesAnEdit` | `Spec => SavesLoseNothing` |
| `PricesAreAsSaved` | `Spec => PricesAsSaved` |

The invariant is a statement about each request at each of its places, and one
about each two. A save that is past its conditional UPDATE holds the product's row
(`HoldsProduct`), so its document was made from all there is (`BaseIsCurrent`)
and remains so; a price it has compared is what it wants, is still to be recorded,
or is locked (`PricesAreSeen`); an unbinding holds the attribute and has found all
its values (`UnbindingFits`). `Apart` says that a save that has deleted the
product's values and an unbinding that has deleted some of them exclude each
other: nothing but the order of their row locks sees to that.

### AuthProofs: any number of requests, passwords and codes, any times

| Theorem | Statement |
|---|---|
| `LocksEnd` | `Spec => []TypeOK`: also, no lock lasts longer than the maximum |
| `LocksFollowFailures` | `Spec => []FailuresLock` |
| `PasswordChangesHold` | `Spec => []ChangesTakeHold` |
| `CodesAreSingleUse` | `Spec => []OneDevicePerCode` |

For the sessions: a login that opens one was made with the password it has read,
which is the newest unless it was in flight during a change (`ReadsNewest`);
whatever is in flight has read the account since its last change or is known to
be late (`LoginsAreKnown`); a change that has listed the sessions it removes has
listed all but its own and those of late logins (`ListedSessionsGo`). For the
codes: a redemption that has consumed a code holds its row, and nobody has a
device for it (`Claims`). That the doubling lockout stays in 1..LockMax for any
number of failures is an induction of its own.

### TaxonomyProofs: any categories, slugs and admins; any requests and records

| Theorem | Statement |
|---|---|
| `PathsStayTrue` | `OneMover` implies `Spec => []PathsFollowParents` |
| `RenderingsAgree` | `OneMover, IsFiniteSet(Cats)` imply `Spec => []VisibilityAgrees` |
| `LogTellsTheData` | `Registers!Spec => []LogAndDataAgree` |
| `AttributeLogChains` | `Registers!Spec => []AttributeEditsChain` |
| `ETagsTell` | `Registers!Spec => []ETagTells` |

The tree. `OneMover` says that at most one admin restructures at a time; others
may edit, hide and delete. With two movers the statement is false
(`category_cycle`). `ReadsHold` is what a request's unlocked reads are still good
for when it writes: the mover's knowledge of the parent it moves to, and the
others' of the parent there is. `SubtreeMoves` is the fact behind
MoveCategorySubtree: when a subtree is hung where no part of it is, replacing the
prefix of all paths under it leaves every path the parent's and its own slug. For
the two renderings, a category's depth is the length of its path; its ancestors
have the depths below it, so there are no more levels than categories, and the
levels reached from the roots are those whose prefixes are all visible.

The registry. `Recorded` says that there is a history of states, one for each
entry, of which each follows from the one before by its entry; the replayed log
is that history. `Knows` says what a request has read: while the version it has
read is the attribute's, the row, and after it the options, are still the
attribute's, although they were read in two statements. It rests on versions being
names of requests that have ended (`Closed`), so that none is used again.

### ServingProofs: any products, any order, any pages; any rate; any upload; any value

| Theorem | Statement |
|---|---|
| `PagesServeOnce` | `Spec => []ServedOnce` |
| `CountsAreTrue` | `Spec => []CountsAgree` |
| `KeepsTheRate` | `RateSpec => []RateIsKept` |
| `ForgetsTheIdle` | `RateSpec => IdleAreForgotten` |
| `WhatIsShownIsServed` | `MediaSpec => []ShownIsServable` |
| `MediaJobsKeepTheirLife` | `MediaSpec => MediaKeepsJobLife` |
| `FormatsStayOne` | `ValuesSpec => []FormatsAgree` |
| `CellsAreReadBack` | `ValuesSpec => []CellsReadBack` |

Listings. Every sort ends in the id, so the order of the keys is total.
`ReaderIsAt` says that a product that has kept its place has been served once
exactly if it is not beyond the cursor; a page takes the least of those beyond it,
and its last row becomes the cursor. `CatalogAssumption` says what products there
can be: one entry for each id and at least one variant ("at least one variant is
required", `validateDocument`). Without the latter the count of a facet over
variants and the listing would differ.

Counts. What is counted on variant rows and what is listed with EXISTS are the
same set of products once a facet's own filter is left out. The tree's counts
are about ancestors: that a category is visible exactly when its parent's chain
is, and that a product counts for those it is under, are inductions along that
chain.

The rate. `RateIsKept` speaks of the clock, which moves without the bucket.
`RateInv` therefore keeps each client's account at the last use of its bucket:
what it was granted and what the bucket held then is at most a full bucket, the
time up to then and the gain by overtaking. For a client the map has forgotten,
the account must leave room for the full bucket that it will begin with. Two facts
give it: `last <= lastSeen + MaxDelay` for every entry, and a handler on its way
has read the clock at most `MaxDelay` ago. So a swept entry's bucket was last used
at least `IdleTTL - 2 * MaxDelay >= Full` ago, and had refilled by itself. The
assumption `Full + 2 * MaxDelay <= IdleTTL` is met by the code (ten minutes
against half a minute); with a shorter idle time the theorem is false.

Media. What a run has put into the blob store stays there, whoever puts it again,
so a run that has counted to the end finds all of it (`Written`), also when it is
one of several and the others die.

Values. `FormatsAgree` speaks of what would be read, rendered and listed; it is
kept by what is stored. `ValuesInv` says that a product has one value of an
attribute at a place, where its binding has it (`Leveled`), which fits its data
type: something inline, or options that exist, of which only `multi_enum` has
several (`Fits`); that the rows are those that `insertValues` makes of these values
(`Stored`); that options are told apart by id and by value (`SchemaFits`); and that
a projection renders the values, but for the order of options (`Projected`). Each
conjunct leans on another operation's care: that DeleteOption is refused for
options with rows, that UpdateOption cannot change a value, that BindAttribute
cannot change the level of an attribute with values, and that UnbindAttribute
deletes them.

From it, `DecodesBack`: what a value is rendered as is accepted, and decoded as
that value; so a product saved as it was read has its rows again (`SavesAsRead`),
and a filter, which looks at a rendering, finds what the page shows
(`RenderedAnswers`). `ValuesAssumption` says of `Forms` that trimming twice is
trimming once and that only a blank text collapses to nothing; slugs and compact
forms may be anything, also equal for different texts.

A product that is published must have its required attributes. `Complete` says
that it has what was required when it was saved, which is what `SavedAsRead` needs;
when a binding has since come to require more (`raised`), the product as it is read
can be saved as a draft only, and the property says no more.

For `CellsReadBack`, a displayed option's label is matched by `matchOption` as that
option and no other, since no other has its slug (`LabelMatches`; the value, label
and loose matches that come before or after in the code cannot get in between);
several labels are joined and split again, which is `FlattenSeq` on texts of one
part each (`FlattenSingles`, by induction along the cell). A number or a range, of
either sign and with any unit, is read back as it was (`DisplayedIsParsed`) or
refused, as `Readable` says of it. The second half of the property, that a value a
cell is understood as can be saved, excepts the long text of section 4.

### ImporterProofs: any batch, any workbook, any amount

| Theorem | Statement |
|---|---|
| `CommitsFollowTheReview` | `Spec => []CommitFollowsReview` |
| `ClosesOnce` | `Spec => ClosedOnce` |
| `LinesImportOnce` | `SheetSpec => []ImportedOnce` |
| `ParsedIsWritten` | what `ParseMoney` returns is what is written; nothing wraps |
| `DisplayedReadsBack` | `ParseMoney(Decimal(m)) = {m}` for every amount `ParseMoney` can return |
| `RoundedIsNearest` | `ParseMoneyRounded` returns the nearest amount and reports every rounding |
| `ThmAmountsAreExact` | `MoneySpec => []AmountsAreExact` |

The review. The commit that has closed the batch holds its lock
(`CloserHoldsBatch`), nothing is applied before (`NothingAppliedYet`), and off the
rows whose decision raced it what it has counted, and then listed, is what is
decided (`CountedIsDecided`, `ListedIsDecided`). There may be any number of rows
and admins, and any rows may be faulty.

The workbook. `ImportedOnce` has two halves. `UnseenIsClear`: no product that was
created in public came from rows with something to ask. A product has the status its
rows were staged with, and what is staged as active is clear in every sheet
(`WhatIsUnseenIsClear`): the first of several equal rows repeats none, so it is in
the group and flagged (`FirstRepeatsNone`); two rows that keep the SKU they share
cannot both do so, since the second finds the first in its counter (`LeftAlone`).
A later commit creates products of its own (`Recorded`), so what was clear stays so.
Products that are extended are excepted, as section 4 shows that they must be.

`TwiceIsOnce` rests on an invariant (`BecameVariants`): each undisturbed imported
row has its variant under its final SKU, and whatever a row became has its item
number. An edit of the workbook may do anything (`EditStep`); it leaves a row
undisturbed in two cases. A row's SKU, and whether it repeats another, depend on
the rows up to it only, so it stays while they do (`RowStays`, by induction along
the sheet). And a row whose product has a SKU for each of its rows keeps the SKU it
was entered with wherever it is (`ApartIs`). Rows with an item number need neither.
The commit may accept any rows without an error, and merge any.

Amounts. `AmountsAreExact` is not inductive, since it does not say what a staged
text is worth, nor that a price is in `ParseMoney`'s range. `PriceInv` adds both: a
staged text is the display of the amount nearest to its cell, and a price `Fits`.
It is `Fits`, and not the range of the integer, under which display and parser are
inverse: a price only ever comes out of `ParseMoney`, also when it was rounded by
`ParseMoneyRounded`, which returns more.

## 6. What is only model-checked

- Liveness (`EveryJobSettles`, `ShutdownCompletes`, `EventuallyFresh`,
  `EventuallyMailed`, `RequestsEnd`, `EventuallyFinished`): the prover has no
  rules for fairness and ENABLED that would reach it.
- `NoCycle` is not an invariant (section 4). With one mover it follows from
  `PathsFollowParents`: a path is longer than its parent's.

The library states induction with operators as parameters, which the provers
cannot instantiate. Where a proof needs induction (the doubling of a lockout, the
levels of the category tree, the replayed log, the SKUs of a sheet, a path's
prefixes, the words of a cell) it is stated with a set of numbers instead: one that contains 0 and
every successor contains them all, by the library's theorem that < is
well-founded.

## 7. Hazards

`PROJECT.json` lists each hazard at the line where it bites, with the properties
that would catch it. A hazard without a property, or one that a property covers
with an exception, has a note that says why and where TLC shows the exception.

## 8. Plan

The components whose state matters are modelled, and their safety properties are
proved. What is left, the most useful first:

1. An abstract batch (open, closed as reviewed) with `ImportReview` as a refinement.
2. Models: several variants in `Products`, with adding and removing them; two
   batches staged before either is committed in `SheetGroups`; Suggest and grouped
   search.

## 9. Not modelled, and why

- HTTP routing, DTOs, problem details, logging and headers: translation without
  state. Which principals a request may have is decided by `Auth`'s tables.
- Generated store code has no row of its own in the models: each query is
  translated where a step executes it, and mapped there.
- The export of subscribers pages by `(created_at, id)`, which never change, with
  the keyset that `Catalog` checks.
- In `SheetGroups`, edits of the catalogue other than by imports, and batches that
  are staged before an earlier one is committed: the matches of a batch are those
  of its staging.
- `Add`, `Sub` and `MulRatio` of `Money`: only their tests call them.
- Validation of fields, wording, the text of a search: no property depends on
  them.
- Image decoding and encoding, SMTP, argon2 and the blob stores' internals:
  libraries; their outcomes (success, failure, success reported as failure) are
  choices of the models.
- The order of statements inside a transaction that no other transaction can
  observe.
- Migrations (advisory lock), configuration, seed data, the front end: no
  concurrent state of their own.

## 10. Running

    tlc -workers 2 -config MCJobQueue.cfg MCJobQueue.tla
    tlapm JobQueueProofs.tla

`PROJECT.json` names the module and the configuration of each run. A
configuration of section 4 is used with the module of its row. The longest runs,
`search_reindex`, `catalog` and `small_parts`, take two to four minutes each on two
cores, a module of proofs up to ten minutes from nothing.
