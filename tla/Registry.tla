------------------------------ MODULE Registry ------------------------------
(***************************************************************************)
(* Brands, suppliers, attributes and their options                         *)
(* (internal/service/taxonomy.go, db/queries/brands.sql, attributes.sql)   *)
(* and the audit log that every edit of them writes in its own transaction *)
(* (internal/store/writes.go).                                             *)
(*                                                                         *)
(* A request reads the record it is about, without a lock, and writes it   *)
(* later: the snapshot it logs as "before" is what it read.  Only the edit *)
(* of an attribute is conditional, on updated_at, which is its ETag and is *)
(* also written by every edit of its options.  A client that sends         *)
(* If-Match has read the attribute in an earlier request.                  *)
(*                                                                         *)
(* The statements that write, with the log entry and the commit, are one   *)
(* step: another transaction sees none of them before the commit and waits *)
(* for the row.  The input is chosen when it is written.  Reindex jobs are *)
(* in SearchReindex, bindings to categories in Products.                   *)
(***************************************************************************)
EXTENDS Integers, Sequences

CONSTANTS
    Brands, Suppliers, Attributes,   \* ids, never used a second time
    Options,      \* ids of an attribute's options
    Names,        \* names and labels
    First,        \* the name of what there is at first
    Existing,     \* the records and options there are at first
    None,         \* no such row
    NRequests     \* bound: requests

VARIABLES
    data,      \* the rows; a record's options are its own
    version,   \* updated_at of the attributes: now() of a transaction, which tells it from others
    log,       \* audit_log, in the order of the commits
    req

registryVars == <<data, version, log, req>>

Records == Brands \cup Suppliers \cup Attributes
Requests == 1..NRequests

\* Slugs derived from a name: alone, and with the number 2.
NumberedSlugs == Names \X {1, 2}

NoOptions == [o \in Options |-> None]
Record(row) == [row |-> row, options |-> NoOptions]

WithOptions(label, options) ==
    [row |-> label, options |-> [o \in Options |-> IF o \in options THEN label ELSE None]]

Initially(e) ==
    CASE e \notin Existing  -> None
      [] e \in Brands       -> Record([name |-> First, slug |-> <<First, 1>>])
      [] e \in Suppliers    -> Record(First)
      [] e \in Attributes   ->
            WithOptions(First, Options \cap Existing)

\* What a request has read of its record, and of the attribute before it.
Unread == [row |-> None, options |-> NoOptions, version |-> 0]

Init ==
    /\ data = [e \in Records |-> Initially(e)]
    /\ version = [a \in Attributes |-> 0]
    /\ log = <<>>
    /\ req = [r \in Requests |->
                    [op |-> "none", on |-> None, left |-> <<>>, seen |-> Unread, held |-> None]]

-----------------------------------------------------------------------------
\* Mutant of GetAttribute: the options are read first.
GetAttributeBackwards == <<"options", "row">>

\* getAttribute's statements.
GetAttribute == <<"row", "options">>

\* What each operation does after its validation; the writes are one step.
Statements ==
    [brand_create |-> <<"slug", "write">>, brand_update |-> <<"row", "write">>,
     brand_delete |-> <<"row", "write">>,
     supplier_create |-> <<"write">>, supplier_update |-> <<"row", "write">>,
     supplier_delete |-> <<"row", "write">>,
     attribute_create |-> <<"write">>, attribute_update |-> GetAttribute \o <<"write">>,
     attribute_delete |-> GetAttribute \o <<"write">>,
     option_create |-> GetAttribute \o <<"write">>, option_update |-> GetAttribute \o <<"write">>,
     option_delete |-> <<"write">>]

Creates == {"brand_create", "supplier_create", "attribute_create"}
About(op) ==
    CASE op \in {"brand_create", "brand_update", "brand_delete"} -> Brands
      [] op \in {"supplier_create", "supplier_update", "supplier_delete"} -> Suppliers
      [] OTHER -> Attributes

Open == {r \in Requests : req[r].left # <<>>}

\* NewID: nobody has used the id.
Fresh(e) == data[e] = None /\ \A r \in Requests : req[r].on # e

Begin(r, op, e, statements) ==
    /\ req[r].op = "none" /\ \A q \in 1..(r - 1) : req[q].op # "none"
    /\ e \in About(op) /\ (op \in Creates) = Fresh(e)
    /\ req' = [req EXCEPT ![r].op = op, ![r].on = e, ![r].left = statements]
    /\ UNCHANGED <<data, version, log>>

Arrive(r) == \E op \in DOMAIN Statements, e \in Records : Begin(r, op, e, Statements[op])

\* A client reads an attribute and will send its ETag with the edit.
ArriveWithETag(r) ==
    \E a \in Attributes :
        Begin(r, "attribute_update", a, GetAttribute \o <<"respond">> \o Statements.attribute_update)

At(r, statement) == req[r].left # <<>> /\ Head(req[r].left) = statement

Sees(r, what) ==
    /\ req' = [req EXCEPT ![r].left = Tail(@), ![r].seen = what]
    /\ UNCHANGED <<data, version, log>>

\* The row, or not found (Refuse).
ReadRow(r) ==
    LET e == req[r].on
    IN /\ At(r, "row") /\ data[e] # None
       /\ Sees(r, [req[r].seen EXCEPT !.row = data[e].row,
                     !.version = IF e \in Attributes THEN version[e] ELSE 0])

LoadOptions(r) ==
    LET a == req[r].on
    IN /\ At(r, "options")
       /\ Sees(r, [req[r].seen EXCEPT !.options = IF data[a] = None THEN NoOptions ELSE data[a].options])

\* The client has the attribute with its ETag; the edit reads it again.
Respond(r) ==
    /\ At(r, "respond")
    /\ req' = [req EXCEPT ![r].left = Tail(@), ![r].held = req[r].seen, ![r].seen = Unread]
    /\ UNCHANGED <<data, version, log>>

Ended(r) == [req EXCEPT ![r].left = <<>>, ![r].seen = Unread, ![r].held = None]

\* Not found, conflict with a slug or a reference, version mismatch, or a
\* statement that fails: nothing is written.
Refuse(r) ==
    /\ r \in Open
    /\ req' = Ended(r)
    /\ UNCHANGED <<data, version, log>>

-----------------------------------------------------------------------------
SlugTaken(slug, b) == \E other \in Brands \ {b} : data[other] # None /\ data[other].row.slug = slug

\* uniqueSlug: name, name-2, ... by statements of their own.
UniqueSlug(r) ==
    \E name \in Names, slug \in NumberedSlugs :
        /\ At(r, "slug")
        /\ slug[1] = name /\ ~ SlugTaken(slug, None)
        /\ slug[2] = 2 => SlugTaken(<<name, 1>>, None)
        /\ Sees(r, [req[r].seen EXCEPT !.row = [name |-> name, slug |-> slug]])

\* Request r makes new of its record, or of its option o, and logs it (Audit).
Write(r, o, before, after, new) ==
    LET e == req[r].on
    IN /\ At(r, "write")
       /\ data' = [data EXCEPT ![e] = new]
       /\ log' = Append(log, [op |-> req[r].op, on |-> e, option |-> o, before |-> before,
                              after |-> after, held |-> req[r].held])
       /\ req' = Ended(r)

WriteRecord(r, before, new) == Write(r, None, before, new, new)

Op(r, op) == req[r].op = op /\ At(r, "write")
Target(r) == data[req[r].on]
Seen(r) == [row |-> req[r].seen.row, options |-> req[r].seen.options]

\* CreateBrandInTx; slugs are unique.
CreateBrand(r) ==
    /\ Op(r, "brand_create") /\ ~ SlugTaken(req[r].seen.row.slug, req[r].on)
    /\ WriteRecord(r, None, Seen(r))
    /\ UNCHANGED version

\* UpdateBrand; a slug that is left out stays as it was read.
UpdateBrand(r) ==
    /\ Op(r, "brand_update") /\ Target(r) # None
    /\ \E name \in Names, slug \in {Seen(r).row.slug} \cup NumberedSlugs :
         /\ ~ SlugTaken(slug, req[r].on)
         /\ WriteRecord(r, Seen(r), Record([name |-> name, slug |-> slug]))
    /\ UNCHANGED version

\* DeleteBrand, which does not look at the number of rows deleted.
DeleteBrand(r) ==
    /\ Op(r, "brand_delete")
    /\ WriteRecord(r, Seen(r), None)
    /\ UNCHANGED version

CreateSupplier(r) ==
    /\ Op(r, "supplier_create")
    /\ \E name \in Names : WriteRecord(r, None, Record(name))
    /\ UNCHANGED version

UpdateSupplier(r) ==
    /\ Op(r, "supplier_update") /\ Target(r) # None
    /\ \E name \in Names : WriteRecord(r, Seen(r), Record(name))
    /\ UNCHANGED version

DeleteSupplier(r) ==
    /\ Op(r, "supplier_delete")
    /\ WriteRecord(r, Seen(r), None)
    /\ UNCHANGED version

-----------------------------------------------------------------------------
\* TouchAttribute, and updated_at of an attribute that is written.
Touch(r) == version' = [version EXCEPT ![req[r].on] = r]

\* Mutant of CreateAttribute: the entry is written before the options are.
CreateAttributeLogsEarly(r) ==
    /\ Op(r, "attribute_create")
    /\ \E label \in Names, options \in SUBSET Options :
         Write(r, None, None, Record(label), WithOptions(label, options))
    /\ Touch(r)

\* CreateAttribute, with its options.
CreateAttribute(r) ==
    /\ Op(r, "attribute_create")
    /\ \E label \in Names, options \in SUBSET Options :
         WriteRecord(r, None, WithOptions(label, options))
    /\ Touch(r)

\* checkIfMatch.
IfMatch(r) == req[r].held # None => req[r].held.version = req[r].seen.version

\* Mutant of Unchanged: the UPDATE is not conditional.
UnchangedOrNot(r) == Target(r) # None

\* UpdateAttribute's condition: updated_at is what the transaction has read.
Unchanged(r) == Target(r) # None /\ version[req[r].on] = req[r].seen.version

\* The options it logs as they are after are read again, with the row locked.
UpdateAttribute(r) ==
    /\ Op(r, "attribute_update") /\ IfMatch(r) /\ Unchanged(r)
    /\ \E label \in Names : WriteRecord(r, Seen(r), [Target(r) EXCEPT !.row = label])
    /\ Touch(r)

\* With its options, by ON DELETE CASCADE; the number of rows is not looked at.
DeleteAttribute(r) ==
    /\ Op(r, "attribute_delete")
    /\ WriteRecord(r, Seen(r), None)
    /\ UNCHANGED version

OptionIn(options, o) == options[o] # None

WriteOption(r, o, before, after) ==
    Write(r, o, before, after, [Target(r) EXCEPT !.options[o] = after])

NewOption(r, o) == ~ \E i \in DOMAIN log : log[i].on = req[r].on /\ log[i].option = o

CreateOption(r) ==
    \E o \in Options, label \in Names :
        /\ Op(r, "option_create")
        /\ Target(r) # None /\ ~ OptionIn(Target(r).options, o) /\ NewOption(r, o)
        /\ WriteOption(r, o, None, label)
        /\ Touch(r)

UpdateOption(r) ==
    \E o \in Options, label \in Names :
        /\ Op(r, "option_update") /\ OptionIn(req[r].seen.options, o)
        /\ Target(r) # None /\ OptionIn(Target(r).options, o)
        /\ WriteOption(r, o, req[r].seen.options[o], label)
        /\ Touch(r)

\* Its log entry names the option only.
DeleteOption(r) ==
    \E o \in Options :
        /\ Op(r, "option_delete") /\ Target(r) # None /\ OptionIn(Target(r).options, o)
        /\ WriteOption(r, o, None, None)
        /\ Touch(r)

-----------------------------------------------------------------------------
Edit(r) ==
    \/ CreateBrand(r) \/ UpdateBrand(r) \/ DeleteBrand(r)
    \/ CreateSupplier(r) \/ UpdateSupplier(r) \/ DeleteSupplier(r)
    \/ CreateAttribute(r) \/ UpdateAttribute(r) \/ DeleteAttribute(r)
    \/ CreateOption(r) \/ UpdateOption(r) \/ DeleteOption(r)

Next ==
    \E r \in Requests :
        \/ Arrive(r) \/ ArriveWithETag(r)
        \/ ReadRow(r) \/ LoadOptions(r) \/ Respond(r) \/ UniqueSlug(r)
        \/ Edit(r) \/ Refuse(r)

Spec == Init /\ [][Next]_registryVars

-----------------------------------------------------------------------------
\* What the first n entries say there is, from what there was at first.
Apply(d, x) ==
    [d EXCEPT ![x.on] = IF x.option = None THEN x.after ELSE [@ EXCEPT !.options[x.option] = x.after]]
Replay(entries, n) ==
    LET after[i \in 0..n] ==
          IF i = 0 THEN [e \in Records |-> Initially(e)] ELSE Apply(after[i - 1], entries[i])
    IN after[n]
Previous(i) == Replay(log, i - 1)[log[i].on]

(* "Call it inside the transaction that makes the change, so the log and the data
   agree" (store.Audit): the entries, carried out one after the other, give the
   records and options there are, although requests overlap, read what others
   then change, and do not look at what their DELETE has deleted. *)
LogAndDataAgree == Replay(log, Len(log)) = data

(* "before and after are JSON snapshots of the entity around the change": what an
   edit of an attribute has logged as before, in two statements, is the attribute
   with all of its options as the entry before it left them. *)
AttributeEditsChain ==
    \A i \in DOMAIN log : log[i].op = "attribute_update" => log[i].before = Previous(i)

(* "So clients holding the attribute see a new ETag" (TouchAttribute): an edit is
   accepted with a client's ETag only when the client held the attribute and its
   options as they were when they were overwritten, although it has read them in
   two statements outside any transaction. *)
ETagTells ==
    \A i \in DOMAIN log :
        LET held == log[i].held
        IN held # None => [row |-> held.row, options |-> held.options] = Previous(i)

(* The same of every operation: false, because the others' writes are not
   conditional on what was read, and a second DELETE is logged like the first. *)
EveryEditChains ==
    \A i \in DOMAIN log :
        log[i].option = None /\ log[i].before # None => log[i].before = Previous(i)
=============================================================================
