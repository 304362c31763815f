----------------------------- MODULE ProductsProofs -----------------------------
(***************************************************************************)
(* Proofs about Products, for any number of requests, attributes, tiers    *)
(* and amounts.                                                            *)
(***************************************************************************)
EXTENDS Products, TLAPS

SavePc == {"load", "validate", "update", "variants", "clear", "current", "price"}
UnbindPc == {"unbind", "find", "delete", "rebuild", "product", "variants", "commit"}

Saving(q, pcs) == q.kind \in Saves /\ q.pc \in pcs
Unbinding(q, pcs) == q.kind = "unbind" /\ q.pc \in pcs

\* Where the requests of each kind can be.
KnowsItsWay(q) ==
  \/ q.pc \in {"new", "done"} /\ q.locks = {}
  \/ Saving(q, SavePc)
  \/ q.kind = "merge" /\ q.pc \in {"current", "price", "touch", "commit"}
  \/ q.kind = "media" /\ q.pc \in {"touch", "commit"}
  \/ q.kind = "bind" /\ q.pc \in {"check", "bind", "commit"}
  \/ Unbinding(q, UnbindPc)

\* A save that is past its conditional UPDATE holds the product, and so does
\* whoever else is about to write its version.
HoldsProduct(q) ==
  \/ Saving(q, {"variants", "clear", "current", "price"})
  \/ q.kind \in {"merge", "media"} /\ q.pc = "commit"
  \/ Unbinding(q, {"variants", "commit"}) /\ q.rows # {}

HoldsAttribute(q) ==
  \/ q.kind = "bind" /\ q.pc = "commit"
  \/ Unbinding(q, UnbindPc \ {"unbind"})

Holds(q) ==
  /\ HoldsProduct(q) => "product" \in q.locks
  /\ HoldsAttribute(q) => q.attr \in q.locks

\* Versions are names of requests that have committed.
Settled(v) == v = NoOne \/ req[v].pc = "done"

\* The document of a save, if its version is the current one, was made from all
\* there is; past the conditional UPDATE it is the current one.
BaseIsCurrent(q) ==
  /\ Settled(q.seen)
  /\ q.kind = "save" /\ Saving(q, SavePc) /\ q.seen = version => q.base = edits
  /\ Saving(q, {"variants", "clear", "current", "price"}) => q.seen = version

\* The prices a save has not recorded are those it wants.
PricesAreSeen(q) ==
  Saving(q, {"price"}) =>
    \A t \in Tiers : q.want[t] \in {Keep, price[t]} \/ t \in q.todo \cup q.locks

\* The prices that are recorded, and are about to be, are given.
RecordsGiven(q) ==
  /\ \A t \in Tiers \cap q.locks :
       q.want[t] # Keep /\ q.kind \in Saves \cup {"merge"} /\ q.pc \in {"price", "touch", "commit"}
  /\ \A t \in q.todo : q.want[t] # Keep

\* A document that has passed validation fits the schema, a save has deleted all
\* values there are.
DocumentFits(q) ==
  /\ Saving(q, SavePc) => \A p \in q.doc : binding[p.attr] = p.level \/ p.attr \in mixed
  /\ Saving(q, {"current", "price"}) => q.rows = values

\* The values of an attribute that is being bound are at the new level.
BindingFits(q) ==
  q.kind = "bind" /\ q.pc \in {"bind", "commit"} /\ q.attr \notin mixed =>
    \A v \in values : v.place.attr = q.attr => v.place.level = q.level

\* An unbinding has found all values of its attribute; once it has deleted them
\* they are still there for the others; what it has read is what will remain.
UnbindingFits(q) ==
  /\ Unbinding(q, {"delete", "rebuild", "product", "variants", "commit"}) /\ q.attr \notin mixed =>
       \A v \in values : v.place.attr = q.attr => v \in q.rows
  /\ Unbinding(q, UnbindPc) => \A v \in q.rows : v.place.attr = q.attr
  /\ Unbinding(q, {"unbind", "find"}) => q.rows = {}
  /\ Unbinding(q, {"rebuild", "product", "variants", "commit"}) => q.rows \subseteq values
  /\ Unbinding(q, {"rebuild", "product", "variants"}) => q.rows # {}
  /\ Unbinding(q, {"product", "variants", "commit"}) /\ q.rows # {} =>
       \A p \in Place : p.attr \notin mixed =>
         (p \in q.doc <=> \E v \in values \ q.rows : v.place = p)

Good(q) ==
  /\ KnowsItsWay(q) /\ Holds(q) /\ BaseIsCurrent(q) /\ PricesAreSeen(q)
  /\ RecordsGiven(q) /\ DocumentFits(q) /\ BindingFits(q) /\ UnbindingFits(q)

\* No two requests hold one row; a save that has deleted the values and an
\* unbinding that has deleted some of them exclude each other.
Apart(q, s) ==
  /\ q.locks \cap s.locks = {}
  /\ Saving(q, {"current", "price"}) /\ Unbinding(s, {"rebuild", "product", "variants", "commit"})
       => s.rows = {}

IInv ==
  /\ TypeOK /\ Settled(version)
  /\ \A r \in Requests : Good(req[r])
  /\ \A r, s \in Requests : r # s => Apart(req[r], req[s])
  /\ ValuesFit /\ ProjectionAgrees

-----------------------------------------------------------------------------
Gone == [NewRequest EXCEPT !.pc = "done"]

\* A request of r that is answered, or not yet made.
LEMMA NewRequestType ==
  /\ NewRequest \in Request /\ Gone \in Request
  /\ NewRequest.locks = {} /\ NewRequest.attr \in Attributes
  /\ Gone.kind = "none" /\ Gone.pc = "done" /\ Gone.locks = {} /\ Gone.seen = NoOne
  /\ NewRequest.todo = {} /\ Gone.todo = {}
<1>1. (CHOOSE a \in Attributes : TRUE) \in Attributes
  BY ProductsAssumption
<1>2. [t \in Tiers |-> Keep] \in [Tiers -> Amounts \cup {Keep}]
  OBVIOUS
<1> QED
  BY <1>1, <1>2 DEF NewRequest, Gone, Request, Kind, Saves, Level, Requests, NoOne

\* What has settled stays settled while r, which is not done, changes.
LEMMA StaysSettled ==
  ASSUME TypeOK, NEW r \in Requests, req[r].pc # "done",
         \A s \in Requests \ {r} : req'[s] = req[s],
         NEW v \in Requests \cup {NoOne}, Settled(v)
  PROVE  Settled(v)' /\ v # r
BY DEF Settled, Requests, NoOne

\* A step of r that leaves the tables alone keeps the invariant if it does for r.
LEMMA QuietStep ==
  ASSUME IInv, NEW r \in Requests, req[r].pc # "done", UNCHANGED <<tables, mixed>>,
         NEW q \in Request, req' = [req EXCEPT ![r] = q], Good(q),
         \A s \in Requests \ {r} : Apart(q, req[s]) /\ Apart(req[s], q)
  PROVE  IInv'
<1>1. TypeOK'
  BY DEF IInv, TypeOK, tables
<1>2. /\ \A s \in Requests \ {r} : req'[s] = req[s]
      /\ req'[r] = q
  BY DEF IInv, TypeOK
<1>3. ASSUME NEW v \in Requests \cup {NoOne}, Settled(v)
      PROVE  Settled(v)'
  BY <1>2, <1>3, StaysSettled DEF IInv
<1>4. Settled(version)'
  <2>1. version \in Requests \cup {NoOne} /\ Settled(version) /\ version' = version
    BY DEF IInv, TypeOK, tables
  <2> QED
    BY <2>1, <1>3 DEF Settled
<1>5. ASSUME NEW x \in Request, Good(x)
      PROVE  Good(x)'
  <2>1. BaseIsCurrent(x)'
    <3>1. Settled(x.seen)'
      BY <1>3, <1>5 DEF Good, BaseIsCurrent, Request
    <3> QED
      BY <3>1, <1>5 DEF Good, BaseIsCurrent, tables
  <2> QED
    BY <2>1, <1>5 DEF Good, KnowsItsWay, Holds, PricesAreSeen, RecordsGiven, DocumentFits,
       BindingFits, UnbindingFits, tables
<1>6. ASSUME NEW s \in Requests
      PROVE  Good(req[s])'
  <2>1. CASE s = r
    BY <2>1, <1>2, <1>5 DEF Good, KnowsItsWay, Holds, BaseIsCurrent, Settled, PricesAreSeen,
       DocumentFits, BindingFits, UnbindingFits
  <2>2. CASE s # r
    <3>1. req'[s] = req[s] /\ req[s] \in Request /\ Good(req[s])
      BY <2>2, <1>2 DEF IInv, TypeOK
    <3> QED
      BY <3>1, <1>5 DEF Good, KnowsItsWay, Holds, BaseIsCurrent, Settled, PricesAreSeen,
         DocumentFits, BindingFits, UnbindingFits
  <2> QED
    BY <2>1, <2>2
<1>7. ASSUME NEW x \in Requests, NEW s \in Requests, x # s
      PROVE  Apart(req[x], req[s])'
  BY <1>2, <1>7 DEF IInv, Apart
<1>8. ValuesFit' /\ ProjectionAgrees'
  BY DEF IInv, ValuesFit, ProjectionAgrees, tables
<1> QED
  BY <1>1, <1>4, <1>6, <1>7, <1>8 DEF IInv

-----------------------------------------------------------------------------
\* A request that is open, or arrives, is in the state it was left in.
LEMMA OpenRequest ==
  ASSUME IInv, NEW r \in Requests
  PROVE  /\ req[r] \in Request /\ Good(req[r])
         /\ \A s \in Requests \ {r} : Apart(req[r], req[s]) /\ Apart(req[s], req[r])
         /\ version \in Requests \cup {NoOne} /\ Settled(version)
BY DEF IInv, TypeOK

LEMMA BeginsStep ==
  ASSUME IInv, NEW r \in Requests,
         NEW kind \in Kind, NEW pc,
         \/ kind \in Saves /\ pc = "load"
         \/ kind = "merge" /\ pc = "current"
         \/ kind = "media" /\ pc = "touch"
         \/ kind = "bind" /\ pc = "check"
         \/ kind = "unbind" /\ pc = "unbind",
         Begins(r, kind, pc)
  PROVE  IInv'
<1>1. PICK a \in Attributes, l \in Level :
        req' = [req EXCEPT ![r] = [NewRequest EXCEPT
                  !.kind = kind, !.pc = pc, !.attr = a, !.level = l,
                  !.base = IF kind \in Saves THEN edits ELSE {},
                  !.seen = IF kind = "save" THEN version ELSE NoOne]]
  BY DEF Begins
<1> DEFINE q == [NewRequest EXCEPT
                  !.kind = kind, !.pc = pc, !.attr = a, !.level = l,
                  !.base = IF kind \in Saves THEN edits ELSE {},
                  !.seen = IF kind = "save" THEN version ELSE NoOne]
<1>2. /\ q \in Request /\ q.kind = kind /\ q.pc = pc /\ q.locks = {} /\ q.rows = {} /\ q.doc = {}
      /\ q.todo = {}
      /\ q.seen = (IF kind = "save" THEN version ELSE NoOne)
      /\ q.base = (IF kind \in Saves THEN edits ELSE {})
  <2>1. /\ NewRequest \in Request /\ NewRequest.locks = {} /\ NewRequest.rows = {}
        /\ NewRequest.doc = {} /\ NewRequest.todo = {}
    BY NewRequestType DEF NewRequest
  <2>2. pc \in {"load", "current", "touch", "check", "unbind"}
    OBVIOUS
  <2>3. edits \in SUBSET Requests /\ version \in Requests \cup {NoOne}
    BY DEF IInv, TypeOK
  <2> QED
    BY <2>1, <2>2, <2>3 DEF Request
<1> HIDE DEF q
<1>3. Good(q)
  BY <1>2, OpenRequest DEF Good, KnowsItsWay, Holds, HoldsProduct, HoldsAttribute,
     BaseIsCurrent, Settled, PricesAreSeen, RecordsGiven, DocumentFits, BindingFits,
     UnbindingFits, Saving, Unbinding, Saves, SavePc, UnbindPc
<1>4. \A s \in Requests \ {r} : Apart(q, req[s]) /\ Apart(req[s], q)
  BY <1>2, OpenRequest DEF Apart, Saving, Unbinding, Saves
<1>5. req' = [req EXCEPT ![r] = q] /\ req[r].pc # "done" /\ UNCHANGED <<tables, mixed>>
  BY <1>1 DEF q, Begins
<1> QED
  BY <1>2, <1>3, <1>4, <1>5, QuietStep

LEMMA EndsStep ==
  ASSUME IInv, NEW r \in Requests, req[r].pc # "done", Ends(r), UNCHANGED <<tables, mixed>>
  PROVE  IInv'
<1>1. Good(Gone)
  BY NewRequestType DEF Good, KnowsItsWay, Holds, HoldsProduct, HoldsAttribute,
     BaseIsCurrent, Settled, PricesAreSeen, RecordsGiven, DocumentFits, BindingFits,
     UnbindingFits, Saving, Unbinding, Saves
<1>2. \A s \in Requests \ {r} : Apart(Gone, req[s]) /\ Apart(req[s], Gone)
  BY NewRequestType DEF Apart, Saving, Unbinding, Saves
<1>3. req' = [req EXCEPT ![r] = Gone]
  BY DEF Ends, Gone
<1> QED
  BY <1>1, <1>2, <1>3, NewRequestType, QuietStep

\* The steps of a save up to its commit.
LEMMA SaveSteps ==
  ASSUME IInv, NEW r \in Requests,
         \/ Load(r) \/ Validate(r) \/ UpdateProduct(r) \/ UpdateVariant(r)
         \/ DeleteValues(r) \/ CurrentPrices(r) \/ \E t \in Tiers : UpsertPrice(r, t)
  PROVE  IInv'
<1> DEFINE x == req[r]
<1>0. /\ x \in Request /\ Good(x)
      /\ \A s \in Requests \ {r} : Apart(x, req[s]) /\ Apart(req[s], x)
      /\ version \in Requests \cup {NoOne} /\ Settled(version)
      /\ req \in [Requests -> Request]
  BY OpenRequest DEF IInv, TypeOK
<1>1. ASSUME Load(r), x.kind = "save" => x.seen = version,
             req' = [req EXCEPT ![r].pc = "validate", ![r].seen = version]
      PROVE  IInv'
  <2> DEFINE q == [x EXCEPT !.pc = "validate", !.seen = version]
  <2>1. Good(q)
    BY ProductsAssumption, <1>0, <1>1 DEF Good, KnowsItsWay, Holds, HoldsProduct,
       HoldsAttribute, BaseIsCurrent, Settled, PricesAreSeen, RecordsGiven, DocumentFits,
       BindingFits, UnbindingFits, Saving, Unbinding, Saves, SavePc, Load, At, Request
  <2>2. \A s \in Requests \ {r} : Apart(q, req[s]) /\ Apart(req[s], q)
    BY <1>0, <1>1 DEF Apart, Saving, Unbinding, Saves, Load, At, Request
  <2>3. q \in Request /\ req' = [req EXCEPT ![r] = q]
    BY <1>0, <1>1 DEF Request
  <2>4. x.pc # "done" /\ UNCHANGED <<tables, mixed>>
    BY <1>1 DEF Load, At
  <2> QED
    BY <2>1, <2>2, <2>3, <2>4, QuietStep
<1>2. ASSUME Validate(r)
      PROVE  IInv'
  <2>1. PICK places \in SUBSET Place :
          /\ Fits(places, binding)
          /\ req' = [req EXCEPT ![r].pc = "update", ![r].doc = places]
    BY <1>2 DEF Validate
  <2> DEFINE q == [x EXCEPT !.pc = "update", !.doc = places]
  <2>2. Good(q)
    BY ProductsAssumption, <1>0, <1>2, <2>1 DEF Good, KnowsItsWay, Holds, HoldsProduct,
       HoldsAttribute, BaseIsCurrent, Settled, PricesAreSeen, RecordsGiven, DocumentFits,
       BindingFits, UnbindingFits, Saving, Unbinding, Saves, SavePc, Validate, Fits, At,
       Request
  <2>3. \A s \in Requests \ {r} : Apart(q, req[s]) /\ Apart(req[s], q)
    BY <1>0, <1>2 DEF Apart, Saving, Unbinding, Saves, Validate, At, Request
  <2>4. q \in Request /\ req' = [req EXCEPT ![r] = q]
    BY <1>0, <2>1 DEF Request
  <2>5. x.pc # "done" /\ UNCHANGED <<tables, mixed>>
    BY <1>2 DEF Validate, At
  <2> QED
    BY <2>2, <2>3, <2>4, <2>5, QuietStep
<1>3. ASSUME UpdateProduct(r), Current(r), Locks(r, "product", "variants")
      PROVE  IInv'
  <2> DEFINE q == [x EXCEPT !.pc = "variants", !.locks = @ \cup {"product"}]
  <2>1. Good(q)
    BY ProductsAssumption, <1>0, <1>3 DEF Good, KnowsItsWay, Holds, HoldsProduct,
       HoldsAttribute, BaseIsCurrent, Settled, PricesAreSeen, RecordsGiven, DocumentFits,
       BindingFits, UnbindingFits, Saving, Unbinding, Saves, SavePc, UpdateProduct, Current,
       At, Request
  <2>2. \A s \in Requests \ {r} : Apart(q, req[s]) /\ Apart(req[s], q)
    BY <1>0, <1>3 DEF Apart, Saving, Unbinding, Saves, UpdateProduct, Free, At, Request
  <2>3. q \in Request /\ req' = [req EXCEPT ![r] = q]
    BY <1>0, <1>3 DEF Request, Lock, Locks
  <2>4. x.pc # "done" /\ UNCHANGED <<tables, mixed>>
    BY <1>3 DEF UpdateProduct, At
  <2> QED
    BY <2>1, <2>2, <2>3, <2>4, QuietStep
<1>4. ASSUME UpdateVariant(r)
      PROVE  IInv'
  <2> DEFINE q == [x EXCEPT !.pc = "clear", !.locks = @ \cup {"variant"}]
  <2>1. Good(q)
    BY ProductsAssumption, <1>0, <1>4 DEF Good, KnowsItsWay, Holds, HoldsProduct,
       HoldsAttribute, BaseIsCurrent, Settled, PricesAreSeen, RecordsGiven, DocumentFits,
       BindingFits, UnbindingFits, Saving, Unbinding, Saves, SavePc, UpdateVariant, At,
       Request
  <2>2. \A s \in Requests \ {r} : Apart(q, req[s]) /\ Apart(req[s], q)
    BY <1>0, <1>4 DEF Apart, Saving, Unbinding, Saves, UpdateVariant, Free, At, Request
  <2>3. q \in Request /\ req' = [req EXCEPT ![r] = q]
    BY <1>0, <1>4 DEF Request, Lock, Locks, UpdateVariant
  <2>4. x.pc # "done" /\ UNCHANGED <<tables, mixed>>
    BY <1>4 DEF UpdateVariant, At
  <2> QED
    BY <2>1, <2>2, <2>3, <2>4, QuietStep
<1>5. ASSUME DeleteValues(r)
      PROVE  IInv'
  <2> DEFINE q == [x EXCEPT !.pc = "current", !.rows = values]
  <2>1. Good(q)
    BY ProductsAssumption, <1>0, <1>5 DEF Good, KnowsItsWay, Holds, HoldsProduct,
       HoldsAttribute, BaseIsCurrent, Settled, PricesAreSeen, RecordsGiven, DocumentFits,
       BindingFits, UnbindingFits, Saving, Unbinding, Saves, SavePc, DeleteValues, At,
       Request
  <2>2. ASSUME NEW s \in Requests \ {r}
        PROVE  Apart(q, req[s]) /\ Apart(req[s], q)
    <3>1. req[s] \in Request /\ Good(req[s]) /\ ~ Deletes(s, values)
      BY <1>5, OpenRequest DEF DeleteValues, RowsFree
    <3> QED
      BY <1>0, <1>5, <3>1 DEF Apart, Saving, Unbinding, Saves, DeleteValues, Deletes, Good,
         UnbindingFits, At, Request
  <2>3. q \in Request /\ req' = [req EXCEPT ![r] = q]
    BY <1>0, <1>5 DEF Request, DeleteValues, IInv, TypeOK
  <2>4. x.pc # "done" /\ UNCHANGED <<tables, mixed>>
    BY <1>5 DEF DeleteValues, At
  <2> QED
    BY <2>1, <2>2, <2>3, <2>4, QuietStep
<1>6. ASSUME CurrentPrices(r)
      PROVE  IInv'
  <2>1. PICK want \in [Tiers -> Amounts \cup {Keep}] :
          req' = [req EXCEPT ![r].pc = "price", ![r].want = want, ![r].todo = ToRecord(want)]
    BY <1>6 DEF CurrentPrices
  <2> DEFINE q == [x EXCEPT !.pc = "price", !.want = want, !.todo = ToRecord(want)]
  <2>2. Good(q)
    BY ProductsAssumption, <1>0, <1>6 DEF Good, KnowsItsWay, Holds, HoldsProduct,
       HoldsAttribute, BaseIsCurrent, Settled, PricesAreSeen, RecordsGiven, DocumentFits,
       BindingFits, UnbindingFits, Saving, Unbinding, Saves, SavePc, CurrentPrices,
       ToRecord, At, Request
  <2>3. \A s \in Requests \ {r} : Apart(q, req[s]) /\ Apart(req[s], q)
    BY <1>0, <1>6 DEF Apart, Saving, Unbinding, Saves, CurrentPrices, At, Request
  <2>4. q \in Request /\ req' = [req EXCEPT ![r] = q]
    BY <1>0, <2>1 DEF Request, ToRecord
  <2>5. x.pc # "done" /\ UNCHANGED <<tables, mixed>>
    BY <1>6 DEF CurrentPrices, At
  <2> QED
    BY <2>2, <2>3, <2>4, <2>5, QuietStep
<1>7. ASSUME NEW t \in Tiers, UpsertPrice(r, t)
      PROVE  IInv'
  <2> DEFINE q == [x EXCEPT !.todo = @ \ {t}, !.locks = @ \cup {t}]
  <2>1. Good(q)
    BY ProductsAssumption, <1>0, <1>7 DEF Good, KnowsItsWay, Holds, HoldsProduct,
       HoldsAttribute, BaseIsCurrent, Settled, PricesAreSeen, RecordsGiven, DocumentFits,
       BindingFits, UnbindingFits, Saving, Unbinding, Saves, SavePc, UpsertPrice, At,
       Request
  <2>2. \A s \in Requests \ {r} : Apart(q, req[s]) /\ Apart(req[s], q)
    <3>1. \A s \in Requests \ {r} : t \notin req[s].locks
      BY <1>7 DEF UpsertPrice, Free
    <3>2. q.kind = x.kind /\ q.pc = x.pc /\ q.rows = x.rows /\ q.locks = x.locks \cup {t}
      BY <1>0 DEF Request
    <3> QED
      BY <1>0, <3>1, <3>2 DEF Apart, Saving, Unbinding
  <2>3. q \in Request /\ req' = [req EXCEPT ![r] = q]
    BY <1>0, <1>7 DEF Request, Lock, UpsertPrice
  <2>4. x.pc # "done" /\ UNCHANGED <<tables, mixed>>
    BY <1>7 DEF UpsertPrice, At
  <2> QED
    BY <2>1, <2>2, <2>3, <2>4, QuietStep
<1>8. CASE Ends(r) /\ x.pc # "done" /\ UNCHANGED <<tables, mixed>>
  BY <1>8, EndsStep
<1> QED
  BY <1>1, <1>2, <1>3, <1>4, <1>5, <1>6, <1>7, <1>8
     DEF Load, UpdateProduct, At

\* The steps of a merge and of a change of images up to their commit.
LEMMA TouchSteps ==
  ASSUME IInv, NEW r \in Requests, UpdateStock(r) \/ TouchProduct(r)
  PROVE  IInv'
<1> DEFINE x == req[r]
<1>0. /\ x \in Request /\ Good(x)
      /\ \A s \in Requests \ {r} : Apart(x, req[s]) /\ Apart(req[s], x)
      /\ version \in Requests \cup {NoOne} /\ Settled(version)
      /\ req \in [Requests -> Request]
  BY OpenRequest DEF IInv, TypeOK
<1>1. ASSUME UpdateStock(r), Free(r, "variant"), Locks(r, "variant", "touch")
      PROVE  IInv'
  <2> DEFINE q == [x EXCEPT !.pc = "touch", !.locks = @ \cup {"variant"}]
  <2>1. Good(q)
    BY ProductsAssumption, <1>0, <1>1 DEF Good, KnowsItsWay, Holds, HoldsProduct,
       HoldsAttribute, BaseIsCurrent, Settled, PricesAreSeen, RecordsGiven, DocumentFits,
       BindingFits, UnbindingFits, Saving, Unbinding, Saves, SavePc, UnbindPc, UpdateStock,
       Priced, At, Request
  <2>2. \A s \in Requests \ {r} : Apart(q, req[s]) /\ Apart(req[s], q)
    BY <1>0, <1>1 DEF Apart, Saving, Unbinding, Saves, UpdateStock, Priced, Free, At, Request
  <2>3. q \in Request /\ req' = [req EXCEPT ![r] = q]
    BY <1>0, <1>1 DEF Request, Lock, Locks, UpdateStock, Priced
  <2>4. x.pc # "done" /\ UNCHANGED <<tables, mixed>>
    BY <1>1 DEF UpdateStock, Priced, At
  <2> QED
    BY <2>1, <2>2, <2>3, <2>4, QuietStep
<1>2. ASSUME UpdateStock(r), Goes(r, "touch")
      PROVE  IInv'
  <2> DEFINE q == [x EXCEPT !.pc = "touch"]
  <2>1. Good(q)
    BY ProductsAssumption, <1>0, <1>2 DEF Good, KnowsItsWay, Holds, HoldsProduct,
       HoldsAttribute, BaseIsCurrent, Settled, PricesAreSeen, RecordsGiven, DocumentFits,
       BindingFits, UnbindingFits, Saving, Unbinding, Saves, SavePc, UnbindPc, UpdateStock,
       Priced, At, Request
  <2>2. \A s \in Requests \ {r} : Apart(q, req[s]) /\ Apart(req[s], q)
    BY <1>0, <1>2 DEF Apart, Saving, Unbinding, Saves, UpdateStock, Priced, At, Request
  <2>3. q \in Request /\ req' = [req EXCEPT ![r] = q]
    BY <1>0, <1>2 DEF Request, Goes, UpdateStock, Priced
  <2>4. x.pc # "done" /\ UNCHANGED <<tables, mixed>>
    BY <1>2 DEF UpdateStock, Priced, At
  <2> QED
    BY <2>1, <2>2, <2>3, <2>4, QuietStep
<1>3. ASSUME TouchProduct(r)
      PROVE  IInv'
  <2> DEFINE q == [x EXCEPT !.pc = "commit", !.locks = @ \cup {"product"}]
  <2>1. Good(q)
    BY ProductsAssumption, <1>0, <1>3 DEF Good, KnowsItsWay, Holds, HoldsProduct,
       HoldsAttribute, BaseIsCurrent, Settled, PricesAreSeen, RecordsGiven, DocumentFits,
       BindingFits, UnbindingFits, Saving, Unbinding, Saves, SavePc, UnbindPc, TouchProduct,
       At, Request
  <2>2. \A s \in Requests \ {r} : Apart(q, req[s]) /\ Apart(req[s], q)
    BY <1>0, <1>3 DEF Apart, Saving, Unbinding, Saves, TouchProduct, Free, At, Request
  <2>3. q \in Request /\ req' = [req EXCEPT ![r] = q]
    BY <1>0, <1>3 DEF Request, Lock, Locks, TouchProduct
  <2>4. x.pc # "done" /\ UNCHANGED <<tables, mixed>>
    BY <1>3 DEF TouchProduct, At
  <2> QED
    BY <2>1, <2>2, <2>3, <2>4, QuietStep
<1> QED
  BY <1>1, <1>2, <1>3 DEF UpdateStock

\* The steps of a binding up to its commit: the values are at the level that is
\* checked, and go on being so.
LEMMA BindSteps ==
  ASSUME IInv, NEW r \in Requests, CheckBinding(r) \/ BindCategoryAttribute(r)
  PROVE  IInv'
<1> DEFINE x == req[r]
<1>0. /\ x \in Request /\ Good(x)
      /\ \A s \in Requests \ {r} : Apart(x, req[s]) /\ Apart(req[s], x)
      /\ version \in Requests \cup {NoOne} /\ Settled(version)
      /\ req \in [Requests -> Request]
  BY OpenRequest DEF IInv, TypeOK
<1>1. ASSUME CheckBinding(r), MayBind(r), Goes(r, "bind")
      PROVE  IInv'
  <2> DEFINE q == [x EXCEPT !.pc = "bind"]
  <2>1. Good(q)
    BY ProductsAssumption, <1>0, <1>1 DEF Good, KnowsItsWay, Holds, HoldsProduct,
       HoldsAttribute, BaseIsCurrent, Settled, PricesAreSeen, RecordsGiven, DocumentFits,
       BindingFits, UnbindingFits, Saving, Unbinding, Saves, SavePc, UnbindPc, CheckBinding,
       MayBind, IInv, ValuesFit, TypeOK, Value, Place, Level, At, Request
  <2>2. \A s \in Requests \ {r} : Apart(q, req[s]) /\ Apart(req[s], q)
    BY <1>0, <1>1 DEF Apart, Saving, Unbinding, Saves, CheckBinding, At, Request
  <2>3. q \in Request /\ req' = [req EXCEPT ![r] = q]
    BY <1>0, <1>1 DEF Request, Goes, CheckBinding
  <2>4. x.pc # "done" /\ UNCHANGED <<tables, mixed>>
    BY <1>1 DEF CheckBinding, At
  <2> QED
    BY <2>1, <2>2, <2>3, <2>4, QuietStep
<1>2. ASSUME BindCategoryAttribute(r)
      PROVE  IInv'
  <2> DEFINE q == [x EXCEPT !.pc = "commit", !.locks = @ \cup {x.attr}]
  <2>1. Good(q)
    BY ProductsAssumption, <1>0, <1>2 DEF Good, KnowsItsWay, Holds, HoldsProduct,
       HoldsAttribute, BaseIsCurrent, Settled, PricesAreSeen, RecordsGiven, DocumentFits,
       BindingFits, UnbindingFits, Saving, Unbinding, Saves, SavePc, UnbindPc,
       BindCategoryAttribute, At, Request
  <2>2. \A s \in Requests \ {r} : Apart(q, req[s]) /\ Apart(req[s], q)
    BY <1>0, <1>2 DEF Apart, Saving, Unbinding, Saves, BindCategoryAttribute, Free, At, Request
  <2>3. q \in Request /\ req' = [req EXCEPT ![r] = q]
    BY <1>0, <1>2 DEF Request, Lock, Locks, BindCategoryAttribute
  <2>4. x.pc # "done" /\ UNCHANGED <<tables, mixed>>
    BY <1>2 DEF BindCategoryAttribute, At
  <2> QED
    BY <2>1, <2>2, <2>3, <2>4, QuietStep
<1>3. CASE Ends(r) /\ x.pc # "done" /\ UNCHANGED <<tables, mixed>>
  BY <1>3, EndsStep
<1> QED
  BY <1>1, <1>2, <1>3 DEF CheckBinding, At

\* The steps of an unbinding up to its commit.
LEMMA UnbindSteps ==
  ASSUME IInv, NEW r \in Requests,
         \/ UnbindCategoryAttribute(r) \/ FindValues(r) \/ DeleteCategoryAttributeValues(r)
         \/ ReadValues(r) \/ UpdateProductAttrs(r) \/ UpdateVariantAttrs(r)
  PROVE  IInv'
<1> DEFINE x == req[r]
<1>0. /\ x \in Request /\ Good(x)
      /\ \A s \in Requests \ {r} : Apart(x, req[s]) /\ Apart(req[s], x)
      /\ version \in Requests \cup {NoOne} /\ Settled(version)
      /\ req \in [Requests -> Request]
  BY OpenRequest DEF IInv, TypeOK
<1>1. ASSUME UnbindCategoryAttribute(r), Locks(r, x.attr, "find")
      PROVE  IInv'
  <2> DEFINE q == [x EXCEPT !.pc = "find", !.locks = @ \cup {x.attr}]
  <2>1. Good(q)
    BY ProductsAssumption, <1>0, <1>1 DEF Good, KnowsItsWay, Holds, HoldsProduct,
       HoldsAttribute, BaseIsCurrent, Settled, PricesAreSeen, RecordsGiven, DocumentFits,
       BindingFits, UnbindingFits, Saving, Unbinding, Saves, SavePc, UnbindPc,
       UnbindCategoryAttribute, At, Request
  <2>2. \A s \in Requests \ {r} : Apart(q, req[s]) /\ Apart(req[s], q)
    BY <1>0, <1>1 DEF Apart, Saving, Unbinding, Saves, UnbindCategoryAttribute, Free, At,
       Request
  <2>3. q \in Request /\ req' = [req EXCEPT ![r] = q]
    BY <1>0, <1>1 DEF Request, Lock, Locks, UnbindCategoryAttribute
  <2>4. x.pc # "done" /\ UNCHANGED <<tables, mixed>>
    BY <1>1 DEF UnbindCategoryAttribute, At
  <2> QED
    BY <2>1, <2>2, <2>3, <2>4, QuietStep
<1>2. ASSUME FindValues(r)
      PROVE  IInv'
  <2> DEFINE q == [x EXCEPT !.pc = "delete", !.rows = {v \in values : v.place.attr = x.attr}]
  <2>1. Good(q)
    BY ProductsAssumption, <1>0, <1>2 DEF Good, KnowsItsWay, Holds, HoldsProduct,
       HoldsAttribute, BaseIsCurrent, Settled, PricesAreSeen, RecordsGiven, DocumentFits,
       BindingFits, UnbindingFits, Saving, Unbinding, Saves, SavePc, UnbindPc, FindValues,
       At, Request
  <2>2. \A s \in Requests \ {r} : Apart(q, req[s]) /\ Apart(req[s], q)
    BY <1>0, <1>2 DEF Apart, Saving, Unbinding, Saves, FindValues, At, Request
  <2>3. q \in Request /\ req' = [req EXCEPT ![r] = q]
    BY <1>0, <1>2 DEF Request, IInv, TypeOK, FindValues
  <2>4. x.pc # "done" /\ UNCHANGED <<tables, mixed>>
    BY <1>2 DEF FindValues, At
  <2> QED
    BY <2>1, <2>2, <2>3, <2>4, QuietStep
<1>3. ASSUME DeleteCategoryAttributeValues(r)
      PROVE  IInv'
  <2> DEFINE q == [x EXCEPT !.rows = x.rows \cap values,
                            !.pc = IF x.rows \cap values = {} THEN "commit" ELSE "rebuild"]
  <2>1. Good(q)
    BY ProductsAssumption, <1>0, <1>3 DEF Good, KnowsItsWay, Holds, HoldsProduct,
       HoldsAttribute, BaseIsCurrent, Settled, PricesAreSeen, RecordsGiven, DocumentFits,
       BindingFits, UnbindingFits, Saving, Unbinding, Saves, SavePc, UnbindPc,
       DeleteCategoryAttributeValues, At, Request
  <2>2. \A s \in Requests \ {r} : Apart(q, req[s]) /\ Apart(req[s], q)
    BY <1>0, <1>3 DEF Apart, Saving, Unbinding, Saves, DeleteCategoryAttributeValues,
       RowsFree, Deletes, Good, DocumentFits, At, Request
  <2>3. q \in Request /\ req' = [req EXCEPT ![r] = q]
    BY <1>0, <1>3 DEF Request, DeleteCategoryAttributeValues
  <2>4. x.pc # "done" /\ UNCHANGED <<tables, mixed>>
    BY <1>3 DEF DeleteCategoryAttributeValues, At
  <2> QED
    BY <2>1, <2>2, <2>3, <2>4, QuietStep
<1>4. ASSUME ReadValues(r)
      PROVE  IInv'
  <2> DEFINE q == [x EXCEPT !.pc = "product",
                            !.doc = Projection(values \ x.rows, [binding EXCEPT ![x.attr] = "none"])]
  <2>1. Good(q)
    BY ProductsAssumption, <1>0, <1>4 DEF Good, KnowsItsWay, Holds, HoldsProduct,
       HoldsAttribute, BaseIsCurrent, Settled, PricesAreSeen, RecordsGiven, DocumentFits,
       BindingFits, UnbindingFits, Saving, Unbinding, Saves, SavePc, UnbindPc, ReadValues,
       Projection, IInv, ValuesFit, TypeOK, Value, Place, Level, At, Request
  <2>2. \A s \in Requests \ {r} : Apart(q, req[s]) /\ Apart(req[s], q)
    BY <1>0, <1>4 DEF Apart, Saving, Unbinding, Saves, ReadValues, At, Request
  <2>3. q \in Request /\ req' = [req EXCEPT ![r] = q]
    <3>1. Projection(values \ x.rows, [binding EXCEPT ![x.attr] = "none"]) \in SUBSET Place
      BY DEF Projection, IInv, TypeOK, Value
    <3> QED
      BY <1>0, <1>4, <3>1 DEF Request, ReadValues
  <2>4. x.pc # "done" /\ UNCHANGED <<tables, mixed>>
    BY <1>4 DEF ReadValues, At
  <2> QED
    BY <2>1, <2>2, <2>3, <2>4, QuietStep
<1>5. ASSUME UpdateProductAttrs(r)
      PROVE  IInv'
  <2> DEFINE q == [x EXCEPT !.pc = "variants", !.locks = @ \cup {"product"}]
  <2>1. Good(q)
    BY ProductsAssumption, <1>0, <1>5 DEF Good, KnowsItsWay, Holds, HoldsProduct,
       HoldsAttribute, BaseIsCurrent, Settled, PricesAreSeen, RecordsGiven, DocumentFits,
       BindingFits, UnbindingFits, Saving, Unbinding, Saves, SavePc, UnbindPc,
       UpdateProductAttrs, At, Request
  <2>2. \A s \in Requests \ {r} : Apart(q, req[s]) /\ Apart(req[s], q)
    BY <1>0, <1>5 DEF Apart, Saving, Unbinding, Saves, UpdateProductAttrs, Free, At, Request
  <2>3. q \in Request /\ req' = [req EXCEPT ![r] = q]
    BY <1>0, <1>5 DEF Request, Lock, Locks, UpdateProductAttrs
  <2>4. x.pc # "done" /\ UNCHANGED <<tables, mixed>>
    BY <1>5 DEF UpdateProductAttrs, At
  <2> QED
    BY <2>1, <2>2, <2>3, <2>4, QuietStep
<1>6. ASSUME UpdateVariantAttrs(r)
      PROVE  IInv'
  <2> DEFINE q == [x EXCEPT !.pc = "commit", !.locks = @ \cup {"variant"}]
  <2>1. Good(q)
    BY ProductsAssumption, <1>0, <1>6 DEF Good, KnowsItsWay, Holds, HoldsProduct,
       HoldsAttribute, BaseIsCurrent, Settled, PricesAreSeen, RecordsGiven, DocumentFits,
       BindingFits, UnbindingFits, Saving, Unbinding, Saves, SavePc, UnbindPc,
       UpdateVariantAttrs, At, Request
  <2>2. \A s \in Requests \ {r} : Apart(q, req[s]) /\ Apart(req[s], q)
    BY <1>0, <1>6 DEF Apart, Saving, Unbinding, Saves, UpdateVariantAttrs, Free, At, Request
  <2>3. q \in Request /\ req' = [req EXCEPT ![r] = q]
    BY <1>0, <1>6 DEF Request, Lock, Locks, UpdateVariantAttrs
  <2>4. x.pc # "done" /\ UNCHANGED <<tables, mixed>>
    BY <1>6 DEF UpdateVariantAttrs, At
  <2> QED
    BY <2>1, <2>2, <2>3, <2>4, QuietStep
<1>7. CASE Ends(r) /\ x.pc # "done" /\ UNCHANGED <<tables, mixed>>
  BY <1>7, EndsStep
<1> QED
  BY <1>1, <1>2, <1>3, <1>4, <1>5, <1>6, <1>7 DEF UnbindCategoryAttribute, At

-----------------------------------------------------------------------------
\* What the commit of r does besides writing the tables.
LEMMA CommitFrame ==
  ASSUME TypeOK, NEW r \in Requests, Commits(r)
  PROVE  /\ req' = [req EXCEPT ![r] = Gone]
         /\ req'[r] = Gone /\ \A s \in Requests \ {r} : req'[s] = req[s]
         /\ mixed \subseteq mixed' /\ mixed' \subseteq Attributes
         /\ \A s \in Requests \ {r} : Open(s) =>
              MixedBy(r, s) \subseteq mixed' /\ MixedBy(s, r) \subseteq mixed'
<1>1. req' = [req EXCEPT ![r] = Gone]
  BY DEF Commits, Ends, Gone
<1>2. \A u, s \in Requests : MixedBy(u, s) \subseteq Attributes
  BY DEF MixedBy
<1> QED
  BY <1>1, <1>2 DEF Commits, TypeOK

\* A commit keeps the invariant if it does for the others and for the tables.
LEMMA CommitStep ==
  ASSUME IInv, NEW r \in Requests, Open(r), Commits(r),
         version' \in {version, r},
         edits' \subseteq Requests, values' \subseteq Value, attrs' \subseteq Place,
         price' \in [Tiers -> Amounts], binding' \in [Attributes -> Level \cup {"none"}],
         \A s \in Requests \ {r} :
           /\ Saving(req[s], SavePc) /\ req[s].kind = "save" /\ req[s].seen = version'
                => req[s].base = edits'
           /\ Saving(req[s], {"variants", "clear", "current", "price"}) => req[s].seen = version'
           /\ PricesAreSeen(req[s])' /\ DocumentFits(req[s])'
           /\ BindingFits(req[s])' /\ UnbindingFits(req[s])',
         ValuesFit', ProjectionAgrees'
  PROVE  IInv'
<1>1. /\ req' = [req EXCEPT ![r] = Gone] /\ mixed' \subseteq Attributes
      /\ req'[r] = Gone /\ \A s \in Requests \ {r} : req'[s] = req[s]
  BY CommitFrame DEF IInv
<1>2. TypeOK'
  BY <1>1, NewRequestType DEF IInv, TypeOK
<1>3. req[r].pc # "done"
  BY DEF Open
<1>4. Settled(version)'
  <2>1. CASE version' = version
    BY <2>1, <1>1, <1>3, StaysSettled, OpenRequest DEF IInv, Settled
  <2>2. CASE version' = r
    BY <2>2, <1>1, NewRequestType DEF Settled
  <2> QED
    BY <2>1, <2>2
<1>5. ASSUME NEW s \in Requests
      PROVE  Good(req[s])'
  <2>1. CASE s = r
    BY <2>1, <1>1, NewRequestType DEF Good, KnowsItsWay, Holds, HoldsProduct,
       HoldsAttribute, BaseIsCurrent, Settled, PricesAreSeen, RecordsGiven, DocumentFits,
       BindingFits, UnbindingFits, Saving, Unbinding, Saves
  <2>2. CASE s # r
    <3>1. /\ req'[s] = req[s] /\ req[s] \in Request /\ Good(req[s])
      BY <2>2, <1>1, OpenRequest
    <3>2. Settled(req[s].seen)'
      BY <3>1, <1>1, <1>3, StaysSettled DEF Good, BaseIsCurrent, Request, IInv, Settled
    <3>3. KnowsItsWay(req[s])' /\ Holds(req[s])' /\ RecordsGiven(req[s])'
      BY <3>1 DEF Good, KnowsItsWay, Holds, RecordsGiven, HoldsProduct, HoldsAttribute
    <3>4. BaseIsCurrent(req[s])'
      BY <2>2, <3>1, <3>2 DEF BaseIsCurrent, Saving, Settled
    <3> QED
      BY <2>2, <3>3, <3>4 DEF Good
  <2> QED
    BY <2>1, <2>2
<1>6. ASSUME NEW u \in Requests, NEW s \in Requests, u # s
      PROVE  Apart(req[u], req[s])'
  BY <1>1, <1>6, NewRequestType DEF IInv, Apart, Saving, Unbinding, Saves
<1> QED
  BY <1>2, <1>4, <1>5, <1>6 DEF IInv

-----------------------------------------------------------------------------
\* What r and another request s are to each other when r commits.
LEMMA OthersAtCommit ==
  ASSUME IInv, NEW r \in Requests, Open(r), Commits(r), NEW s \in Requests \ {r}
  PROVE  /\ req'[s] = req[s] /\ req[s] \in Request /\ Good(req[s]) /\ Good(req[r])
         /\ Apart(req[r], req[s]) /\ Apart(req[s], req[r]) /\ req[s].seen # r
         /\ mixed \subseteq mixed'
         /\ Open(s) => MixedBy(r, s) \subseteq mixed' /\ MixedBy(s, r) \subseteq mixed'
<1>1. Settled(req[s].seen)
  BY DEF IInv, Good, BaseIsCurrent
<1>2. req[s].seen # r
  BY <1>1 DEF Settled, Open, Requests, NoOne
<1> QED
  BY <1>2, CommitFrame, OpenRequest DEF IInv

\* What r holds keeps the others from saving past their conditional UPDATE.
LEMMA NoOtherSave ==
  ASSUME IInv, NEW r \in Requests, NEW s \in Requests \ {r}, HoldsProduct(req[r])
  PROVE  ~ Saving(req[s], {"variants", "clear", "current", "price"})
BY DEF IInv, Good, Holds, HoldsProduct, Apart

LEMMA CommitSaveStep ==
  ASSUME IInv, NEW r \in Requests, CommitSave(r)
  PROVE  IInv'
<1> DEFINE x == req[r]
<1>1. /\ x.kind \in Saves /\ x.pc = "price" /\ Open(r) /\ Commits(r)
      /\ x \in Request /\ Good(x)
  BY OpenRequest DEF CommitSave, Priced, At, Open
<1>2. HoldsProduct(x)
  BY <1>1 DEF HoldsProduct, Saving
<1>3. mixed \subseteq mixed' /\ \A p \in x.doc : binding[p.attr] = p.level \/ p.attr \in mixed
  BY <1>1, CommitFrame DEF Good, DocumentFits, Saving, SavePc, IInv
<1>4. /\ version' \in {version, r} /\ edits' \subseteq Requests
      /\ values' \subseteq Value /\ attrs' \subseteq Place
      /\ binding' \in [Attributes -> Level \cup {"none"}]
  BY <1>1 DEF CommitSave, Request, Value, IInv, TypeOK
<1>5. price' \in [Tiers -> Amounts]
  <2>1. \A t \in Tiers : t \in x.locks => x.want[t] \in Amounts
    BY <1>1 DEF Good, RecordsGiven, Request
  <2> QED
    BY <2>1 DEF CommitSave, IInv, TypeOK
<1>6. ASSUME NEW s \in Requests \ {r}
      PROVE  /\ Saving(req[s], SavePc) /\ req[s].kind = "save" /\ req[s].seen = version'
                  => req[s].base = edits'
             /\ Saving(req[s], {"variants", "clear", "current", "price"}) => req[s].seen = version'
             /\ PricesAreSeen(req[s])' /\ DocumentFits(req[s])'
             /\ BindingFits(req[s])' /\ UnbindingFits(req[s])'
  <2> DEFINE q == req[s]
  <2>1. /\ q' = q /\ q \in Request /\ Good(q) /\ Apart(x, q) /\ q.seen # r
        /\ ~ Saving(q, {"variants", "clear", "current", "price"})
    BY <1>1, <1>2, OthersAtCommit, NoOtherSave
  <2>2. ASSUME NEW v \in values', q.kind \in {"bind", "unbind"}, q.pc # "done", q.pc # "new",
               v.place.attr = q.attr
        PROVE  q.attr \in mixed'
    <3>1. MixedBy(s, r) \subseteq mixed'
      BY <1>1, <2>2, OthersAtCommit DEF Open
    <3>2. Stores(r, q.attr) /\ q.attr \in Attributes
      BY <2>1, <2>2 DEF CommitSave, Stores, Request
    <3> QED
      BY <1>1, <3>1, <3>2, <2>2 DEF MixedBy
  <2>3. BindingFits(q)'
    BY <2>1, <2>2 DEF BindingFits
  <2>4. UnbindingFits(q)'
    <3>1. /\ Unbinding(q, UnbindPc) => \A v \in q.rows : v.place.attr = q.attr
          /\ Unbinding(q, {"unbind", "find"}) => q.rows = {}
          /\ Unbinding(q, {"rebuild", "product", "variants"}) => q.rows # {}
          /\ Unbinding(q, {"rebuild", "product", "variants", "commit"}) => q.rows = {}
      BY <1>1, <2>1 DEF Good, UnbindingFits, Apart, Saving
    <3>2. Unbinding(q, {"delete", "rebuild", "product", "variants", "commit"})
            /\ q.attr \notin mixed' => \A v \in values' : v.place.attr # q.attr
      BY <2>2 DEF Unbinding
    <3> QED
      BY <2>1, <3>1, <3>2 DEF UnbindingFits, Unbinding
  <2>5. PricesAreSeen(q)' /\ DocumentFits(q)'
    BY <1>3, <2>1 DEF CommitSave, PricesAreSeen, RecordsGiven, DocumentFits, Saving, SavePc,
       Good
  <2> QED
    BY <2>1, <2>3, <2>4, <2>5 DEF CommitSave
<1>7. ValuesFit' /\ ProjectionAgrees'
  <2>1. /\ attrs' = x.doc /\ binding' = binding
        /\ values' = {[place |-> p, by |-> r] : p \in x.doc}
    BY DEF CommitSave
  <2>2. ValuesFit'
    BY <2>1, <1>3 DEF ValuesFit
  <2>3. ASSUME NEW p \in Place
        PROVE  p \in x.doc <=> \E v \in values' : v.place = p
    <3>1. ASSUME p \in x.doc
          PROVE  \E v \in values' : v.place = p
      <4>1. [place |-> p, by |-> r] \in values'
        BY <2>1, <3>1
      <4> QED
        BY <4>1
    <3>2. ASSUME NEW v \in values', v.place = p
          PROVE  p \in x.doc
      BY <2>1, <3>2
    <3> QED
      BY <3>1, <3>2
  <2> QED
    BY <2>1, <2>2, <2>3 DEF ProjectionAgrees
<1> QED
  BY <1>1, <1>4, <1>5, <1>6, <1>7, CommitStep

LEMMA CommitTouchStep ==
  ASSUME IInv, NEW r \in Requests, CommitTouch(r)
  PROVE  IInv'
<1> DEFINE x == req[r]
<1>1. /\ x.kind \in {"merge", "media"} /\ x.pc = "commit" /\ Open(r) /\ Commits(r)
      /\ x \in Request /\ Good(x) /\ HoldsProduct(x) /\ mixed \subseteq mixed'
  BY OpenRequest, CommitFrame DEF CommitTouch, At, Open, HoldsProduct, IInv
<1>2. /\ version' \in {version, r} /\ edits' \subseteq Requests
      /\ values' = values /\ attrs' = attrs /\ binding' = binding
      /\ values' \subseteq Value /\ attrs' \subseteq Place
      /\ binding' \in [Attributes -> Level \cup {"none"}]
  BY DEF CommitTouch, IInv, TypeOK
<1>3. price' \in [Tiers -> Amounts]
  <2>1. \A t \in Tiers : t \in x.locks => x.want[t] \in Amounts
    BY <1>1 DEF Good, RecordsGiven, Request
  <2> QED
    BY <2>1 DEF CommitTouch, IInv, TypeOK
<1>4. ASSUME NEW s \in Requests \ {r}
      PROVE  /\ Saving(req[s], SavePc) /\ req[s].kind = "save" /\ req[s].seen = version'
                  => req[s].base = edits'
             /\ Saving(req[s], {"variants", "clear", "current", "price"}) => req[s].seen = version'
             /\ PricesAreSeen(req[s])' /\ DocumentFits(req[s])'
             /\ BindingFits(req[s])' /\ UnbindingFits(req[s])'
  <2> DEFINE q == req[s]
  <2>1. /\ q' = q /\ q \in Request /\ Good(q) /\ q.seen # r
        /\ ~ Saving(q, {"variants", "clear", "current", "price"})
    BY <1>1, OthersAtCommit, NoOtherSave
  <2>2. PricesAreSeen(q)' /\ DocumentFits(q)'
    BY <1>1, <1>2, <2>1 DEF PricesAreSeen, DocumentFits, Saving, Good
  <2>3. BindingFits(q)' /\ UnbindingFits(q)'
    BY <1>1, <1>2, <2>1 DEF BindingFits, UnbindingFits, Good
  <2> QED
    BY <2>1, <2>2, <2>3 DEF CommitTouch
<1>5. ValuesFit' /\ ProjectionAgrees'
  BY <1>1, <1>2 DEF ValuesFit, ProjectionAgrees, IInv
<1> QED
  BY <1>1, <1>2, <1>3, <1>4, <1>5, CommitStep

LEMMA CommitBindStep ==
  ASSUME IInv, NEW r \in Requests, CommitBind(r)
  PROVE  IInv'
<1> DEFINE x == req[r]
<1>1. /\ x.kind = "bind" /\ x.pc = "commit" /\ Open(r) /\ Commits(r)
      /\ x \in Request /\ Good(x) /\ mixed \subseteq mixed'
  BY OpenRequest, CommitFrame DEF CommitBind, At, Open, IInv
<1>2. /\ UNCHANGED <<version, edits, values, attrs, price>>
      /\ binding' = [binding EXCEPT ![x.attr] = x.level]
      /\ version' \in {version, r} /\ edits' \subseteq Requests
      /\ values' \subseteq Value /\ attrs' \subseteq Place /\ price' \in [Tiers -> Amounts]
      /\ binding' \in [Attributes -> Level \cup {"none"}]
  BY <1>1 DEF CommitBind, IInv, TypeOK, Request
<1>3. \A a \in Attributes : a # x.attr => binding'[a] = binding[a]
  BY <1>2 DEF IInv, TypeOK
<1>4. binding'[x.attr] = x.level
  BY <1>1, <1>2 DEF IInv, TypeOK, Request
<1>5. ASSUME NEW s \in Requests \ {r}
      PROVE  /\ Saving(req[s], SavePc) /\ req[s].kind = "save" /\ req[s].seen = version'
                  => req[s].base = edits'
             /\ Saving(req[s], {"variants", "clear", "current", "price"}) => req[s].seen = version'
             /\ PricesAreSeen(req[s])' /\ DocumentFits(req[s])'
             /\ BindingFits(req[s])' /\ UnbindingFits(req[s])'
  <2> DEFINE q == req[s]
  <2>1. /\ q' = q /\ q \in Request /\ Good(q)
    BY <1>1, OthersAtCommit
  <2>2. ASSUME Saving(q, SavePc), NEW p \in q.doc, p.attr = x.attr
        PROVE  p.attr \in mixed'
    <3>1. MixedBy(r, s) \subseteq mixed'
      BY <1>1, <2>2, OthersAtCommit DEF Open, Saving, SavePc
    <3> QED
      BY <1>1, <2>2, <3>1 DEF MixedBy, Stores, Saving, Request
  <2>3. DocumentFits(q)'
    <3>1. ASSUME Saving(q, SavePc), NEW p \in q.doc
          PROVE  binding'[p.attr] = p.level \/ p.attr \in mixed'
      BY <1>1, <1>3, <2>1, <2>2, <3>1 DEF Good, DocumentFits, Request, Place
    <3> QED
      BY <1>2, <2>1, <3>1 DEF DocumentFits, Good
  <2>4. PricesAreSeen(q)' /\ BindingFits(q)' /\ UnbindingFits(q)'
    BY <1>1, <1>2, <2>1 DEF PricesAreSeen, BindingFits, UnbindingFits, Good
  <2> QED
    BY <1>2, <2>1, <2>3, <2>4 DEF Good, BaseIsCurrent
<1>6. ValuesFit'
  <2>1. ASSUME NEW v \in values, v.place.attr = x.attr
        PROVE  x.level = v.place.level \/ v.place.attr \in mixed
    BY <1>1, <2>1 DEF Good, BindingFits
  <2> QED
    BY <1>1, <1>2, <1>3, <1>4, <2>1 DEF ValuesFit, IInv, TypeOK, Value, Place
<1>7. ProjectionAgrees'
  BY <1>1, <1>2 DEF ProjectionAgrees, IInv
<1> QED
  BY <1>1, <1>2, <1>5, <1>6, <1>7, CommitStep

LEMMA CommitUnbindStep ==
  ASSUME IInv, NEW r \in Requests, CommitUnbind(r)
  PROVE  IInv'
<1> DEFINE x == req[r]
<1>1. /\ x.kind = "unbind" /\ x.pc = "commit" /\ Open(r) /\ Commits(r)
      /\ x \in Request /\ Good(x) /\ mixed \subseteq mixed'
  BY OpenRequest, CommitFrame DEF CommitUnbind, At, Open, IInv
<1>2. /\ values' = values \ x.rows /\ price' = price
      /\ binding' = [binding EXCEPT ![x.attr] = "none"]
      /\ x.rows = {} => UNCHANGED <<version, edits, attrs>>
      /\ x.rows # {} => version' = r /\ edits' = edits \cup {r} /\ attrs' = x.doc
  BY DEF CommitUnbind
<1>3. /\ version' \in {version, r} /\ edits' \subseteq Requests
      /\ values' \subseteq Value /\ attrs' \subseteq Place /\ price' \in [Tiers -> Amounts]
      /\ binding' \in [Attributes -> Level \cup {"none"}]
  BY <1>1, <1>2 DEF IInv, TypeOK, Request
<1>4. /\ \A a \in Attributes : a # x.attr => binding'[a] = binding[a]
      /\ x.attr \notin mixed => \A v \in values : v.place.attr = x.attr => v \in x.rows
      /\ \A v \in x.rows : v.place.attr = x.attr
      /\ x.attr \in x.locks
  BY <1>1, <1>2 DEF IInv, TypeOK, Good, UnbindingFits, Unbinding, UnbindPc, Holds,
     HoldsAttribute
<1>5. ASSUME NEW s \in Requests \ {r}
      PROVE  /\ Saving(req[s], SavePc) /\ req[s].kind = "save" /\ req[s].seen = version'
                  => req[s].base = edits'
             /\ Saving(req[s], {"variants", "clear", "current", "price"}) => req[s].seen = version'
             /\ PricesAreSeen(req[s])' /\ DocumentFits(req[s])'
             /\ BindingFits(req[s])' /\ UnbindingFits(req[s])'
  <2> DEFINE q == req[s]
  <2>1. /\ q' = q /\ q \in Request /\ Good(q) /\ q.seen # r /\ Apart(x, q)
        /\ Open(s) => MixedBy(r, s) \subseteq mixed' /\ MixedBy(s, r) \subseteq mixed'
    BY <1>1, OthersAtCommit
  <2>2. x.rows # {} => ~ Saving(q, {"variants", "clear", "current", "price"})
    BY <1>1, NoOtherSave DEF HoldsProduct, Unbinding
  <2>3. ASSUME Saving(q, SavePc), NEW p \in q.doc, p.attr = x.attr
        PROVE  p.attr \in mixed'
    BY <1>1, <2>1, <2>3 DEF Open, Saving, SavePc, MixedBy, Stores, Request
  <2>4. DocumentFits(q)'
    <3>1. ASSUME Saving(q, SavePc), NEW p \in q.doc
          PROVE  binding'[p.attr] = p.level \/ p.attr \in mixed'
      BY <1>1, <1>4, <2>1, <2>3, <3>1 DEF Good, DocumentFits, Request, Place
    <3> QED
      BY <1>2, <2>1, <2>2, <3>1 DEF DocumentFits, Good, Saving
  <2>5. PricesAreSeen(q)' /\ BindingFits(q)'
    BY <1>1, <1>2, <2>1 DEF PricesAreSeen, BindingFits, Good
  <2>6. UnbindingFits(q)'
    <3>1. ASSUME Unbinding(q, UnbindPc)
          PROVE  q.attr \in mixed' /\ x.attr \in mixed'
      BY <1>1, <2>1, <3>1 DEF Open, Unbinding, UnbindPc, MixedBy, Request
    <3>2. ASSUME Unbinding(q, UnbindPc \ {"unbind"})
          PROVE  \A v \in q.rows : v \notin x.rows
      <4>1. q.attr \in q.locks /\ \A v \in q.rows : v.place.attr = q.attr
        BY <2>1, <3>2 DEF Good, Holds, HoldsAttribute, UnbindingFits, Unbinding, UnbindPc
      <4>2. q.attr # x.attr
        BY <1>4, <2>1, <4>1 DEF Apart
      <4> QED
        BY <1>4, <4>1, <4>2
    <3>3. Unbinding(q, {"rebuild", "product", "variants", "commit"}) => q.rows \subseteq values'
      BY <1>2, <2>1, <3>2 DEF Good, UnbindingFits, Unbinding, UnbindPc
    <3>4. ASSUME Unbinding(q, {"product", "variants", "commit"}), q.rows # {},
                 NEW p \in Place, p.attr \notin mixed'
          PROVE  p \in q.doc <=> \E v \in values' \ q.rows : v.place = p
      <4>1. p \in q.doc <=> \E v \in values \ q.rows : v.place = p
        BY <1>1, <2>1, <3>4 DEF Good, UnbindingFits
      <4>2. p.attr # x.attr
        BY <3>1, <3>4 DEF Unbinding, UnbindPc
      <4> QED
        BY <1>2, <1>4, <4>1, <4>2
    <3>5. /\ Unbinding(q, UnbindPc) => \A v \in q.rows : v.place.attr = q.attr
          /\ Unbinding(q, {"unbind", "find"}) => q.rows = {}
          /\ Unbinding(q, {"rebuild", "product", "variants"}) => q.rows # {}
      BY <2>1 DEF Good, UnbindingFits
    <3> QED
      BY <2>1, <3>1, <3>3, <3>4, <3>5 DEF UnbindingFits, Unbinding, UnbindPc
  <2> QED
    BY <1>2, <2>1, <2>2, <2>4, <2>5, <2>6 DEF Good, BaseIsCurrent
<1>6. ValuesFit'
  BY <1>1, <1>2, <1>4 DEF ValuesFit, IInv, TypeOK, Value, Place
<1>7. ProjectionAgrees'
  <2>1. CASE x.rows = {}
    BY <1>1, <1>2, <2>1 DEF ProjectionAgrees, IInv
  <2>2. CASE x.rows # {}
    BY <1>1, <1>2, <2>2 DEF ProjectionAgrees, Good, UnbindingFits, Unbinding
  <2> QED
    BY <2>1, <2>2
<1> QED
  BY <1>1, <1>3, <1>5, <1>6, <1>7, CommitStep

-----------------------------------------------------------------------------
LEMMA InitHolds == Init => IInv
<1> SUFFICES ASSUME Init PROVE IInv
  OBVIOUS
<1>1. PICK places \in {{}, {p \in Place : binding[p.attr] = p.level}} :
        /\ values = {[place |-> p, by |-> NoOne] : p \in places}
        /\ attrs = places
  BY DEF Init
<1>2. TypeOK
  <2>1. price \in [Tiers -> Amounts]
    BY ProductsAssumption DEF Init
  <2>2. binding \in [Attributes -> Level \cup {"none"}]
    BY DEF Init, Level
  <2>3. values \subseteq Value /\ attrs \subseteq Place
    BY <1>1 DEF Value
  <2>4. req \in [Requests -> Request]
    BY NewRequestType DEF Init
  <2> QED
    BY <2>1, <2>2, <2>3, <2>4 DEF TypeOK, Init
<1>3. Settled(version)
  BY DEF Init, Settled
<1>4. ASSUME NEW r \in Requests
      PROVE  Good(req[r])
  <2>1. req[r] = NewRequest
    BY DEF Init
  <2> QED
    BY <2>1 DEF NewRequest, Good, KnowsItsWay, Holds, HoldsProduct, HoldsAttribute,
       BaseIsCurrent, Settled, PricesAreSeen, RecordsGiven, DocumentFits, BindingFits,
       UnbindingFits, Saving, Unbinding, Saves
<1>5. \A r, s \in Requests : r # s => Apart(req[r], req[s])
  BY DEF Init, NewRequest, Apart, Saving, Saves
<1>6. ValuesFit
  BY <1>1 DEF ValuesFit
<1>7. ProjectionAgrees
  <2>1. \A p \in places : [place |-> p, by |-> NoOne] \in values
    BY <1>1
  <2>2. \A v \in values : v.place \in places
    BY <1>1
  <2>3. \A p \in places : [place |-> p, by |-> NoOne].place = p
    OBVIOUS
  <2> QED
    BY <1>1, <2>1, <2>2, <2>3 DEF ProjectionAgrees
<1> QED
  BY <1>2, <1>3, <1>4, <1>5, <1>6, <1>7 DEF IInv

LEMMA IInvStep == IInv /\ [Next]_vars => IInv'
<1> SUFFICES ASSUME IInv, [Next]_vars PROVE IInv'
  OBVIOUS
<1>1. ASSUME NEW r \in Requests, Arrives(r)
      PROVE  IInv'
  BY <1>1, BeginsStep DEF Arrives, Save, Extend, Merge, ChangeMedia, Bind, Unbind, Kind, Saves
<1>2. ASSUME NEW r \in Requests, Proceeds(r)
      PROVE  IInv'
  <2>1. CASE CommitSave(r) \/ CommitTouch(r) \/ CommitBind(r) \/ CommitUnbind(r)
    BY <2>1, CommitSaveStep, CommitTouchStep, CommitBindStep, CommitUnbindStep
  <2> QED
    BY <1>2, <2>1, SaveSteps, TouchSteps, BindSteps, UnbindSteps DEF Proceeds
<1>3. ASSUME NEW r \in Requests, Rollback(r) \/ BreakDeadlock(r)
      PROVE  IInv'
  BY <1>3, EndsStep DEF Rollback, BreakDeadlock, Open
<1>4. CASE UNCHANGED vars
  BY <1>4 DEF vars, tables, IInv, TypeOK, Settled, Good, KnowsItsWay, Holds, HoldsProduct,
     HoldsAttribute, BaseIsCurrent, PricesAreSeen, RecordsGiven, DocumentFits, BindingFits,
     UnbindingFits, Saving, Unbinding, Apart, ValuesFit, ProjectionAgrees
<1> QED
  BY <1>1, <1>2, <1>3, <1>4 DEF Next

LEMMA IInvHolds == Spec => []IInv
BY InitHolds, IInvStep, PTL DEF Spec

(* A value belongs to an attribute of the category, at the attribute's level,
   whatever is saved, bound and unbound side by side, for attributes whose binding
   is not changed while one of their values is being saved. *)
THEOREM ValuesFitTheSchema == Spec => []ValuesFit
<1>1. IInv => ValuesFit
  BY DEF IInv
<1> QED
  BY <1>1, IInvHolds, PTL

(* The projections name exactly the attributes that have values, through saves and
   through the unbindings that rebuild them. *)
THEOREM ProjectionsAgree == Spec => []ProjectionAgrees
<1>1. IInv => ProjectionAgrees
  BY DEF IInv
<1> QED
  BY <1>1, IInvHolds, PTL

(* Optimistic locking loses no change: a commit that replaces the document contains
   all that is there, unless it is that of an import that extends the product. *)
THEOREM NoSaveLosesAnEdit == Spec => SavesLoseNothing
<1> DEFINE Kept == \/ edits \subseteq edits'
                   \/ \E r \in Requests : At(r, {"extend"}, "price") /\ version' = r
<1>1. IInv /\ [Next]_vars => [Kept]_vars
  <2> SUFFICES ASSUME IInv, Next PROVE Kept
    BY DEF vars, tables
  <2>1. ASSUME NEW r \in Requests, CommitSave(r)
        PROVE  Kept
    <3>1. CASE req[r].kind = "save"
      <4>1. req[r].seen = version /\ req[r].base = edits
        BY <2>1, <3>1, OpenRequest DEF Good, BaseIsCurrent, Saving, SavePc, CommitSave,
           Priced, At
      <4> QED
        BY <2>1, <4>1 DEF CommitSave
    <3>2. CASE req[r].kind # "save"
      BY <2>1, <3>2 DEF CommitSave, Priced, At, Saves
    <3> QED
      BY <3>1, <3>2
  <2>2. ASSUME NEW r \in Requests, CommitTouch(r) \/ CommitUnbind(r) \/ CommitBind(r)
        PROVE  Kept
    BY <2>2 DEF CommitTouch, CommitUnbind, CommitBind
  <2>3. CASE UNCHANGED tables
    BY <2>3 DEF tables
  <2> QED
    BY <2>1, <2>2, <2>3 DEF Next, Arrives, Proceeds, Save, Extend, Merge, ChangeMedia, Bind,
       Unbind, Begins, Load, Validate, UpdateProduct, UpdateVariant, DeleteValues,
       CurrentPrices, UpsertPrice, UpdateStock, TouchProduct, CheckBinding,
       BindCategoryAttribute, UnbindCategoryAttribute, FindValues,
       DeleteCategoryAttributeValues, ReadValues, UpdateProductAttrs, UpdateVariantAttrs,
       Rollback, BreakDeadlock
<1>2. (Spec => SavesLoseNothing) <=> (Spec => [][Kept]_vars)
  BY DEF SavesLoseNothing
<1> QED
  BY <1>1, <1>2, IInvHolds, PTL DEF Spec

(* When the commit of a save has made its version the current one, the prices it
   was given are in force, those it did not record included. *)
THEOREM PricesAreAsSaved == Spec => PricesAsSaved
<1> DEFINE InForce == \A r \in Requests : At(r, Saves, "price") /\ version' = r =>
                        \A t \in Tiers : req[r].want[t] \in {Keep, price'[t]}
<1>1. IInv /\ [Next]_vars => [InForce]_vars
  <2> SUFFICES ASSUME IInv, Next,
                      NEW r \in Requests, At(r, Saves, "price"), version' = r
               PROVE  \A t \in Tiers : req[r].want[t] \in {Keep, price'[t]}
    BY DEF vars, tables
  <2>1. version # r
    BY OpenRequest DEF Settled, Requests, NoOne, At
  <2>2. CommitSave(r)
    <3>1. \A s \in Requests :
            \/ CommitSave(s) \/ CommitTouch(s) \/ CommitUnbind(s) => version' \in {version, s}
      BY DEF CommitSave, CommitTouch, CommitUnbind
    <3>2. ~ CommitTouch(r) /\ ~ CommitUnbind(r)
      BY DEF CommitTouch, CommitUnbind, At
    <3> QED
      BY <2>1, <3>1, <3>2 DEF tables, Next, Arrives, Proceeds, Save, Extend, Merge,
         ChangeMedia, Bind, Unbind, Begins, Load, Validate, UpdateProduct, UpdateVariant,
         DeleteValues, CurrentPrices, UpsertPrice, UpdateStock, TouchProduct, CheckBinding,
         BindCategoryAttribute, UnbindCategoryAttribute, FindValues,
         DeleteCategoryAttributeValues, ReadValues, UpdateProductAttrs, UpdateVariantAttrs,
         Rollback, BreakDeadlock, CommitBind
  <2>3. \A t \in Tiers : req[r].want[t] \in {Keep, price[t]} \/ t \in req[r].locks
    BY <2>2, OpenRequest DEF Good, PricesAreSeen, Saving, CommitSave, Priced, At
  <2> QED
    BY <2>2, <2>3 DEF CommitSave
<1>2. (Spec => PricesAsSaved) <=> (Spec => [][InForce]_vars)
  BY DEF PricesAsSaved
<1> QED
  BY <1>1, <1>2, IInvHolds, PTL DEF Spec

=============================================================================
