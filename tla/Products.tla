------------------------------ MODULE Products ------------------------------
(***************************************************************************)
(* One product and the admins who edit it at once: whole-document saves    *)
(* and an import's merges and extensions (internal/service/products.go),   *)
(* attached images, and the binding of attributes to its category          *)
(* (internal/service/taxonomy.go), over the tables products,               *)
(* product_variants, product_attribute_values, prices and                  *)
(* category_attributes.                                                    *)
(*                                                                         *)
(* Every request is one transaction at READ COMMITTED.  Its steps are its  *)
(* statements: each sees what is committed when it starts, an UPDATE or    *)
(* DELETE waits for the locks on its rows, and what it wrote becomes       *)
(* visible when the transaction commits.                                   *)
(*                                                                         *)
(* The product has one variant.  A document is what it was made from: the  *)
(* set of requests whose changes it contains.  updated_at is now(), the    *)
(* start of the transaction, which tells transactions apart: it is named   *)
(* after the request.  A value is only there or not, a price is one of a   *)
(* few amounts.                                                            *)
(***************************************************************************)
EXTENDS Naturals, FiniteSets

CONSTANTS
    NRequests,  \* bound: requests in one behaviour, numbered as they arrive
    Attributes,
    Axes,       \* those that are bound as variant axes at first
    Tiers,      \* price tiers
    Amounts,    \* prices
    Keep,       \* "a tier that is omitted keeps its current price"
    MaxOpen     \* bound: requests open at a time

ASSUME ProductsAssumption ==
    /\ NRequests \in Nat /\ MaxOpen \in Nat
    /\ Axes \subseteq Attributes /\ Keep \notin Amounts
    /\ Attributes # {} /\ Amounts # {}
    \* The rows that are locked are rows of different tables.
    /\ Tiers \cap Attributes = {} /\ {"product", "variant"} \cap (Tiers \cup Attributes) = {}

Requests == 1..NRequests
NoOne == 0      \* the transaction that created the product

VARIABLES
    version,    \* products.updated_at
    edits,      \* the requests whose changes the product and its variant contain
    values,     \* product_attribute_values
    attrs,      \* the attrs projections on the product and on the variant
    price,      \* the variant's current price of each tier
    binding,    \* category_attributes: unbound, or the level the attribute is for
    req,        \* the requests
    mixed       \* history: attributes whose binding changed beside a writer of their values

tables == <<version, edits, values, attrs, price, binding>>
vars == <<tables, req, mixed>>

Level == {"product", "variant"}
Place == [attr : Attributes, level : Level]
Value == [place : Place, by : Requests \cup {NoOne}]

Saves == {"save", "extend"}
Kind == Saves \cup {"merge", "media", "bind", "unbind"}
Lock == {"product", "variant"} \cup Tiers \cup Attributes

NewRequest ==
    [kind |-> "none", pc |-> "new", base |-> {}, seen |-> NoOne, doc |-> {},
     rows |-> {}, want |-> [t \in Tiers |-> Keep], todo |-> {},
     attr |-> CHOOSE a \in Attributes : TRUE, level |-> "product", locks |-> {}]

Init ==
    /\ version = NoOne /\ edits = {}
    /\ binding = [a \in Attributes |-> IF a \in Axes THEN "variant" ELSE "product"]
    /\ \E places \in {{}, {p \in Place : binding[p.attr] = p.level}} :
         /\ values = {[place |-> p, by |-> NoOne] : p \in places}
         /\ attrs = places
    /\ price = [t \in Tiers |-> CHOOSE a \in Amounts : TRUE]
    /\ req = [r \in Requests |-> NewRequest]
    /\ mixed = {}

-----------------------------------------------------------------------------
Open(r) == req[r].pc \notin {"new", "done"}
At(r, kinds, pc) == req[r].kind \in kinds /\ req[r].pc = pc
Free(r, lock) == \A s \in Requests \ {r} : lock \notin req[s].locks

\* The transaction has deleted some of these rows (at "delete" it still waits).
Deletes(s, rows) == req[s].pc # "delete" /\ req[s].rows \cap rows # {}
RowsFree(r, rows) == \A s \in Requests \ {r} : ~ Deletes(s, rows)

Goes(r, to) == req' = [req EXCEPT ![r].pc = to]
Locks(r, lock, to) == req' = [req EXCEPT ![r].pc = to, ![r].locks = @ \cup {lock}]

\* The request is answered; its locks go and it is forgotten.
Ends(r) == req' = [req EXCEPT ![r] = [NewRequest EXCEPT !.pc = "done"]]

Begins(r, kind, pc) ==
    /\ req[r].pc = "new" /\ \A s \in Requests : s < r => req[s].pc # "new"
    /\ Cardinality({s \in Requests : Open(s)}) < MaxOpen
    /\ \E a \in Attributes, l \in Level :
         /\ kind \in {"bind", "unbind"} \/ a = NewRequest.attr
         /\ kind = "bind" \/ l = NewRequest.level
         /\ req' = [req EXCEPT ![r] = [NewRequest EXCEPT
                      !.kind = kind, !.pc = pc, !.attr = a, !.level = l,
                      !.base = IF kind \in Saves THEN edits ELSE {},
                      !.seen = IF kind = "save" THEN version ELSE NoOne]]
    /\ UNCHANGED <<tables, mixed>>

\* A PUT with If-Match: the document and the version come from the client's GET.  (A
\* PUT without it is checked against nothing and overwrites whatever there is.)
Save(r) == Begins(r, "save", "load")

\* applyGroup extends the product: the document comes from GetInTx, and
\* UpdateInTx is given no version.
Extend(r) == Begins(r, "extend", "load")

\* UpdateVariantInTx, called by an import for a matched row.
Merge(r) == Begins(r, "merge", "current")

\* AttachMedia, UpdateMedia, DetachMedia.
ChangeMedia(r) == Begins(r, "media", "touch")

Bind(r) == Begins(r, "bind", "check")
Unbind(r) == Begins(r, "unbind", "unbind")

-----------------------------------------------------------------------------
\* UpdateInTx: GetProductByID and checkIfMatch.
Load(r) ==
    /\ At(r, Saves, "load")
    /\ \/ /\ req[r].kind = "save" => req[r].seen = version
          /\ req' = [req EXCEPT ![r].pc = "validate", ![r].seen = version]
       \/ /\ req[r].kind = "save" /\ req[r].seen # version
          /\ Ends(r)
    /\ UNCHANGED <<tables, mixed>>

\* validateDocument: every value is of an attribute of the category, at its level.
Fits(places, schema) == \A p \in places : schema[p.attr] = p.level

\* loadCategorySchema, and a document that passes its rules.
Validate(r) ==
    /\ At(r, Saves, "validate")
    /\ \E places \in SUBSET Place :
         /\ Fits(places, binding)
         /\ req' = [req EXCEPT ![r].pc = "update", ![r].doc = places]
    /\ UNCHANGED <<tables, mixed>>

\* UpdateProduct: WHERE updated_at = expected_updated_at.
Current(r) == req[r].seen = version

\* Mutant of UpdateProduct: a save that lost the race tries again for ever.
UpdateProductRetries(r) ==
    /\ At(r, Saves, "update") /\ Free(r, "product") /\ Current(r)
    /\ Locks(r, "product", "variants")
    /\ UNCHANGED <<tables, mixed>>

UpdateProduct(r) ==
    /\ At(r, Saves, "update") /\ Free(r, "product")
    /\ \/ Current(r) /\ Locks(r, "product", "variants")
       \/ ~ Current(r) /\ Ends(r)
    /\ UNCHANGED <<tables, mixed>>

\* DeleteVariantsExcept, ClearDefaultVariant, UpdateVariant.
UpdateVariant(r) ==
    /\ At(r, Saves, "variants") /\ Free(r, "variant")
    /\ Locks(r, "variant", "clear")
    /\ UNCHANGED <<tables, mixed>>

\* DeleteAttributeValuesForProduct.
DeleteValues(r) ==
    /\ At(r, Saves, "clear") /\ RowsFree(r, values)
    /\ req' = [req EXCEPT ![r].pc = "current", ![r].rows = values]
    /\ UNCHANGED <<tables, mixed>>

\* Mutant of ToRecord: the first amount is never recorded.
ToRecordNonZero(want) == {t \in Tiers : want[t] \notin {Keep, CHOOSE a \in Amounts : TRUE}}

\* applyPrices: a price that is unchanged is not recorded again.
ToRecord(want) == {t \in Tiers : want[t] \notin {Keep, price[t]}}

\* currentPrices.
CurrentPrices(r) ==
    /\ At(r, Saves \cup {"merge"}, "current")
    /\ \E want \in [Tiers -> Amounts \cup {Keep}] :
         req' = [req EXCEPT ![r].pc = "price", ![r].want = want,
                            ![r].todo = ToRecord(want)]
    /\ UNCHANGED <<tables, mixed>>

\* UpsertPrice, which waits for another transaction's row of the same key.
UpsertPrice(r, t) ==
    /\ At(r, Saves \cup {"merge"}, "price") /\ t \in req[r].todo /\ Free(r, t)
    /\ req' = [req EXCEPT ![r].todo = @ \ {t}, ![r].locks = @ \cup {t}]
    /\ UNCHANGED <<tables, mixed>>

Priced(r, kinds) == At(r, kinds, "price") /\ req[r].todo = {}

\* UpdateVariantStock, unless the row names no stock status.
UpdateStock(r) ==
    /\ Priced(r, {"merge"})
    /\ \/ Free(r, "variant") /\ Locks(r, "variant", "touch")
       \/ Goes(r, "touch")
    /\ UNCHANGED <<tables, mixed>>

TouchProduct(r) ==
    /\ At(r, {"merge", "media"}, "touch") /\ Free(r, "product")
    /\ Locks(r, "product", "commit")
    /\ UNCHANGED <<tables, mixed>>

-----------------------------------------------------------------------------
\* Mutant of MayBind: the level is changed although values exist.
MayBindAlways(r) == TRUE

\* BindAttribute: CategoryAttributeHasValues forbids to change the level.
MayBind(r) ==
    \/ binding[req[r].attr] \in {"none", req[r].level}
    \/ \A v \in values : v.place.attr # req[r].attr

CheckBinding(r) ==
    /\ At(r, {"bind"}, "check")
    /\ \/ MayBind(r) /\ Goes(r, "bind")
       \/ ~ MayBind(r) /\ Ends(r)
    /\ UNCHANGED <<tables, mixed>>

\* BindCategoryAttribute.
BindCategoryAttribute(r) ==
    /\ At(r, {"bind"}, "bind") /\ Free(r, req[r].attr)
    /\ Locks(r, req[r].attr, "commit")
    /\ UNCHANGED <<tables, mixed>>

\* UnbindCategoryAttribute.
UnbindCategoryAttribute(r) ==
    /\ At(r, {"unbind"}, "unbind") /\ Free(r, req[r].attr)
    /\ \/ binding[req[r].attr] # "none" /\ Locks(r, req[r].attr, "find")
       \/ binding[req[r].attr] = "none" /\ Ends(r)
    /\ UNCHANGED <<tables, mixed>>

\* DeleteCategoryAttributeValues finds its rows ...
FindValues(r) ==
    /\ At(r, {"unbind"}, "find")
    /\ req' = [req EXCEPT ![r].pc = "delete",
                          ![r].rows = {v \in values : v.place.attr = req[r].attr}]
    /\ UNCHANGED <<tables, mixed>>

\* ... and deletes those that are still there when it gets their locks.
DeleteCategoryAttributeValues(r) ==
    /\ At(r, {"unbind"}, "delete") /\ RowsFree(r, req[r].rows)
    /\ LET gone == req[r].rows \cap values IN
       req' = [req EXCEPT ![r].rows = gone,
                          ![r].pc = IF gone = {} THEN "commit" ELSE "rebuild"]
    /\ UNCHANGED <<tables, mixed>>

\* Mutant of Projection: the variant's projection is rebuilt empty.
ProjectionOfProduct(rows, schema) == {v.place : v \in {u \in rows : u.place.level = "product"}}

\* categorySchema.projection: the keys of the bound attributes.
Projection(rows, schema) == {v.place : v \in {u \in rows : schema[u.place.attr] # "none"}}

\* loadCategorySchema and rebuildProjections' read of the values: the
\* transaction sees its own deletions.
ReadValues(r) ==
    /\ At(r, {"unbind"}, "rebuild")
    /\ req' = [req EXCEPT ![r].pc = "product",
                          ![r].doc = Projection(values \ req[r].rows,
                                       [binding EXCEPT ![req[r].attr] = "none"])]
    /\ UNCHANGED <<tables, mixed>>

\* UpdateProductAttrs.
UpdateProductAttrs(r) ==
    /\ At(r, {"unbind"}, "product") /\ Free(r, "product")
    /\ Locks(r, "product", "variants")
    /\ UNCHANGED <<tables, mixed>>

\* UpdateVariantAttrs.
UpdateVariantAttrs(r) ==
    /\ At(r, {"unbind"}, "variants") /\ Free(r, "variant")
    /\ Locks(r, "variant", "commit")
    /\ UNCHANGED <<tables, mixed>>

-----------------------------------------------------------------------------
\* r and s change the binding of an attribute and values of it side by side.
Stores(s, a) == \E p \in req[s].doc : p.attr = a
MixedBy(r, s) ==
    {a \in Attributes :
       \/ req[r].kind \in {"bind", "unbind"} /\ req[r].attr = a
          /\ req[s].kind \in Saves /\ Stores(s, a)
       \/ req[r].kind = "unbind" /\ req[s].kind = "unbind"
          /\ a \in {req[r].attr, req[s].attr}}

Commits(r) ==
    /\ mixed' = mixed \cup UNION {MixedBy(r, s) \cup MixedBy(s, r) :
                                    s \in {u \in Requests \ {r} : Open(u)}}
    /\ Ends(r)

\* InsertAttributeValues, and the transaction commits.
CommitSave(r) ==
    /\ Priced(r, Saves)
    /\ version' = r
    /\ edits' = req[r].base \cup {r}
    /\ values' = {[place |-> p, by |-> r] : p \in req[r].doc}
    /\ attrs' = req[r].doc
    /\ price' = [t \in Tiers |-> IF t \in req[r].locks THEN req[r].want[t] ELSE price[t]]
    /\ Commits(r)
    /\ UNCHANGED binding

\* Mutant of CommitTouch: the version is not bumped.
CommitUntouched(r) ==
    /\ At(r, {"merge", "media"}, "commit")
    /\ edits' = edits \cup {r}
    /\ price' = [t \in Tiers |-> IF t \in req[r].locks THEN req[r].want[t] ELSE price[t]]
    /\ Commits(r)
    /\ UNCHANGED <<version, values, attrs, binding>>

CommitTouch(r) ==
    /\ At(r, {"merge", "media"}, "commit")
    /\ version' = r
    /\ edits' = edits \cup {r}
    /\ price' = [t \in Tiers |-> IF t \in req[r].locks THEN req[r].want[t] ELSE price[t]]
    /\ Commits(r)
    /\ UNCHANGED <<values, attrs, binding>>

CommitBind(r) ==
    /\ At(r, {"bind"}, "commit")
    /\ binding' = [binding EXCEPT ![req[r].attr] = req[r].level]
    /\ Commits(r)
    /\ UNCHANGED <<version, edits, values, attrs, price>>

\* An unbinding that removed values has rebuilt the product's projections.
CommitUnbind(r) ==
    /\ At(r, {"unbind"}, "commit")
    /\ binding' = [binding EXCEPT ![req[r].attr] = "none"]
    /\ values' = values \ req[r].rows
    /\ IF req[r].rows = {} THEN UNCHANGED <<version, edits, attrs>>
       ELSE version' = r /\ edits' = edits \cup {r} /\ attrs' = req[r].doc
    /\ Commits(r)
    /\ UNCHANGED price

\* A document that is refused, a statement that fails, a client that goes away.
Rollback(r) ==
    /\ Open(r)
    /\ Ends(r)
    /\ UNCHANGED <<tables, mixed>>

-----------------------------------------------------------------------------
\* Whom r waits for.
WaitsFor(r, s) ==
    \/ "product" \in req[s].locks
       /\ (At(r, Saves, "update") \/ At(r, {"merge", "media"}, "touch")
           \/ At(r, {"unbind"}, "product"))
    \/ "variant" \in req[s].locks /\ At(r, Saves \cup {"unbind"}, "variants")
    \/ At(r, Saves, "clear") /\ Deletes(s, values)
    \/ At(r, {"unbind"}, "delete") /\ Deletes(s, req[r].rows)
    \/ req[r].pc = "price" /\ req[r].todo \cap req[s].locks # {}
    \/ req[r].attr \in req[s].locks /\ (At(r, {"bind"}, "bind") \/ At(r, {"unbind"}, "unbind"))

\* The server ends a cycle of waiting transactions, whichever of them it picks.
BreakDeadlock(r) ==
    /\ \E S \in SUBSET Requests :
         r \in S /\ \A x \in S : \E y \in S \ {x} : WaitsFor(x, y)
    /\ Rollback(r)

Arrives(r) ==
    \/ Save(r) \/ Extend(r) \/ Merge(r) \/ ChangeMedia(r) \/ Bind(r) \/ Unbind(r)

Proceeds(r) ==
    \/ Load(r) \/ Validate(r) \/ UpdateProduct(r) \/ UpdateVariant(r)
    \/ DeleteValues(r) \/ CurrentPrices(r) \/ (\E t \in Tiers : UpsertPrice(r, t))
    \/ CommitSave(r) \/ UpdateStock(r) \/ TouchProduct(r) \/ CommitTouch(r)
    \/ CheckBinding(r) \/ BindCategoryAttribute(r) \/ CommitBind(r)
    \/ UnbindCategoryAttribute(r) \/ FindValues(r) \/ DeleteCategoryAttributeValues(r)
    \/ ReadValues(r) \/ UpdateProductAttrs(r) \/ UpdateVariantAttrs(r) \/ CommitUnbind(r)

Next == \E r \in Requests : Arrives(r) \/ Proceeds(r) \/ Rollback(r) \/ BreakDeadlock(r)

Spec == Init /\ [][Next]_vars

\* As long as some request can go on, or is in a deadlock, one of them does.
FairSpec == Spec /\ WF_vars(\E r \in Requests : Proceeds(r) \/ BreakDeadlock(r))

-----------------------------------------------------------------------------
Request == [kind : Kind \cup {"none"},
            pc : {"new", "load", "validate", "update", "variants", "clear", "current",
                  "price", "touch", "check", "bind", "unbind", "find", "delete",
                  "rebuild", "product", "commit", "done"},
            base : SUBSET Requests, seen : Requests \cup {NoOne}, doc : SUBSET Place,
            rows : SUBSET Value, want : [Tiers -> Amounts \cup {Keep}],
            todo : SUBSET Tiers, attr : Attributes, level : Level, locks : SUBSET Lock]

TypeOK ==
    /\ version \in Requests \cup {NoOne} /\ edits \subseteq Requests
    /\ values \subseteq Value /\ attrs \subseteq Place
    /\ price \in [Tiers -> Amounts] /\ binding \in [Attributes -> Level \cup {"none"}]
    /\ req \in [Requests -> Request] /\ mixed \subseteq Attributes

(* "a concurrent save in between makes this fail with ErrVersionMismatch instead
   of silently overwriting the other edit" (Products.Update): whatever is being
   saved, merged, attached or unbound at the same time, no change of another
   request is lost, unless an import extends the product.  Saves are PUTs with
   If-Match: one without it asks to overwrite. *)
SavesLoseNothing ==
    [][\/ edits \subseteq edits'
       \/ \E r \in Requests : At(r, {"extend"}, "price") /\ version' = r]_vars

(* The same without the exception: an import that extends a product reads the
   document and then, in another statement, the version it checks against. *)
NothingIsLost == [][edits \subseteq edits']_vars

(* A value belongs to an attribute of the category, at the attribute's level,
   unless the binding was changed while the value was being saved: the level of
   an attribute that has values stays, unbinding it removes them. *)
ValuesFit ==
    \A v \in values : \/ binding[v.place.attr] = v.place.level
                      \/ v.place.attr \in mixed

(* "Saving the whole document keeps the EAV rows and the JSONB filter projections
   consistent by construction" (Products), through unbindings that rebuild them,
   unless two of these overlap. *)
ProjectionAgrees ==
    \A p \in Place : p.attr \notin mixed => (p \in attrs <=> \E v \in values : v.place = p)

(* The prices of a saved document are in force when the save is committed,
   although unchanged ones are not recorded and merges record prices without
   holding the product. *)
PricesAsSaved ==
    [][\A r \in Requests : At(r, Saves, "price") /\ version' = r =>
         \A t \in Tiers : req[r].want[t] \in {Keep, price'[t]}]_vars

(* Every request is answered, although saves lock the product first and merges
   and unbindings last. *)
RequestsEnd == <>[](\A r \in Requests : ~ Open(r))
=============================================================================
