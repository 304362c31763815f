------------------------------ MODULE Catalog -------------------------------
(***************************************************************************)
(* What the catalogue shows (internal/store/catalog.go,                    *)
(* internal/service/listing.go, catalog.go): listings read page after page *)
(* by a client while admins edit products and categories, the facets of a  *)
(* category, and the product counts of the category tree.                  *)
(*                                                                         *)
(* An attribute is bound the same way in every category, and filters are   *)
(* evaluated on p.attrs || v.attrs, so that a value stands with each       *)
(* variant whatever its level.  colour stands for the attributes with      *)
(* options, which may hold several (multi_enum), width for the numeric     *)
(* ones (number_range; a number is a range of one value).  An open bound   *)
(* of a range filter is the end of the scale.                              *)
(***************************************************************************)
EXTENDS Integers, Sequences, FiniteSets

CONSTANTS
    NProducts,   \* the products are 1..NProducts, in the order of their ids
    NCategories,
    Parent,      \* [categories -> their parent, or Root]
    Colours,     \* the options of colour
    MaxWidth,    \* bound: the scale of width is 1..MaxWidth
    Catalogues,  \* what the products may be at the beginning
    Stocks,      \* the sets of variants a product may be saved with
    Limit,       \* the page size
    MaxName,     \* bound: names are 1..MaxName, in their order
    MaxEdits,    \* bound: edits in one behaviour
    Walks        \* the listings that are read: their queries

Products == 1..NProducts
Categories == 1..NCategories
Root == 0

VARIABLES
    product,    \* the rows of products, with their variants
    active,     \* categories.is_active
    edits,      \* the clock that updated_at is taken from
    walk,       \* the listing a client reads: its query and where it is
    served,     \* how often each product was on a page of it
    steady      \* history: the products that matched all the time since the
                \* first page, and whose place in the order has not changed

catalogue == <<product, active, edits>>
reader == <<walk, served>>
vars == <<catalogue, reader, steady>>

NoWidth == <<>>     \* no value, and no filter
Widths == {w \in (1..MaxWidth) \X (1..MaxWidth) : w[1] <= w[2]}
Variant == [colour : SUBSET Colours, width : Widths \cup {NoWidth}]
Product == [id : Products, category : Categories, active : BOOLEAN, name : 1..MaxName,
            rank : 0..1, featured : 0..1, created : Nat, updated : 0..MaxEdits,
            variants : SUBSET Variant]

\* A query: category 0 is the whole catalogue, no colours are no filter.
Query == [public : BOOLEAN, category : 0..NCategories, colour : SUBSET Colours,
          width : Widths \cup {NoWidth}]

\* A parent is added before its children; an id is that of one product, and a
\* product has a variant ("at least one variant is required", products.go).
ASSUME CatalogAssumption ==
    /\ {NProducts, NCategories, MaxWidth, MaxName, MaxEdits} \subseteq Nat
    /\ Limit \in Nat \ {0}
    /\ Parent \in [Categories -> Categories \cup {Root}]
    /\ \A c \in Categories : Parent[c] < c
    /\ \A shown \in Catalogues :
         /\ shown \in [Products -> Product]
         /\ \A p \in Products : shown[p].id = p /\ shown[p].variants # {}
    /\ Stocks \subseteq (SUBSET Variant) \ {{}}
    /\ Walks \subseteq Query

-----------------------------------------------------------------------------
\* anc.path @> c.path: the category and what it hangs under.
Ancestors ==
    LET anc[c \in Categories] == {c} \cup (IF Parent[c] = Root THEN {} ELSE anc[Parent[c]])
    IN [c \in Categories |-> anc[c]]

\* CategoryIsVisible.
CategoryIsVisible(c) == \A anc \in Ancestors[c] : active[anc]

\* filterPath: one of the options is wanted; the ranges overlap (boundConds).
ColourPath(v, q) == q.colour = {} \/ v.colour \cap q.colour # {}
BoundConds(w, min, max) == w[2] >= min /\ w[1] <= max
WidthPath(v, q) == q.width = NoWidth \/ (v.width # NoWidth /\ BoundConds(v.width, q.width[1], q.width[2]))

\* Mutant of AttrPaths: each filter may be met by a variant of its own.
AttrPathsApart(p, q) ==
    /\ \E v \in product[p].variants : ColourPath(v, q)
    /\ \E v \in product[p].variants : WidthPath(v, q)

\* The EXISTS of newProductQuery: one variant satisfies every filter.
AttrPaths(p, q) == \E v \in product[p].variants : ColourPath(v, q) /\ WidthPath(v, q)

\* newProductQuery: audience and category.
Base(p, q) ==
    /\ q.public => product[p].active /\ CategoryIsVisible(product[p].category)
    /\ q.category = 0 \/ q.category \in Ancestors[product[p].category]

Matches(p, q) == Base(p, q) /\ AttrPaths(p, q)

CountProducts(q) == Cardinality({p \in Products : Matches(p, q)})

-----------------------------------------------------------------------------
\* Mutant of Except: a facet is counted under its own filter too.
ExceptNothing(q, key) == q

\* compiledQuery.filter: the query without one attribute's filter.
Except(q, key) ==
    IF key = "colour" THEN [q EXCEPT !.colour = {}] ELSE [q EXCEPT !.width = NoWidth]

\* The rows of products JOIN product_variants that a facet is computed from.
FacetRows(q) ==
    {r \in UNION {{<<p, v>> : v \in product[p].variants} : p \in Products} :
        Base(r[1], q) /\ ColourPath(r[2], q) /\ WidthPath(r[2], q)}

\* FacetCounts: products, not variants; an array counts per element.
FacetCount(q, value) ==
    Cardinality({r[1] : r \in {x \in FacetRows(Except(q, "colour")) : value \in x[2].colour}})

\* FacetRanges: the lowest low and the highest high, if there is any value.
FacetRange(q) ==
    LET found == {r[2].width : r \in FacetRows(Except(q, "width"))} \ {NoWidth}
    IN IF found = {} THEN NoWidth
       ELSE <<CHOOSE n \in {w[1] : w \in found} : \A w \in found : n <= w[1],
              CHOOSE n \in {w[2] : w \in found} : \A w \in found : n >= w[2]>>

\* Facets: a filter of one's own has an entry in any case (r[key] of an empty map).
WidthFacet(q) ==
    IF q.width # NoWidth /\ FacetRange(q) = NoWidth THEN <<0, 0>> ELSE FacetRange(q)

-----------------------------------------------------------------------------
\* visibleTree: active categories whose parent is in the tree; parents have
\* been added before their children.
VisibleTree ==
    LET tree[c \in 0..NCategories] == c = Root \/ (active[c] /\ tree[Parent[c]])
    IN {c \in Categories : tree[c]}

\* ListActiveCategoriesWithCounts and rollUp.
ProductCount(c) ==
    Cardinality({p \in Products : /\ product[p].active
                                  /\ product[p].category \in VisibleTree
                                  /\ c \in Ancestors[product[p].category]})

-----------------------------------------------------------------------------
\* sortKeys: fields, and whether they are in descending order.
Sorts == {"featured", "name", "newest", "updated", "relevance"}
Asc(field) == [field |-> field, desc |-> FALSE]
Desc(field) == [field |-> field, desc |-> TRUE]
SortKeys ==
    [featured  |-> <<Desc("featured"), Asc("name"), Asc("id")>>,
     name      |-> <<Asc("name"), Asc("id")>>,
     newest    |-> <<Desc("created"), Desc("id")>>,
     updated   |-> <<Desc("updated"), Desc("id")>>,
     relevance |-> <<Desc("rank"), Asc("id")>>]

\* productCursor: the sort-key values of a row.
Cursor(p, sort) == [i \in DOMAIN SortKeys[sort] |-> product[p][SortKeys[sort][i].field]]

Beyond(key, x, y) == IF key.desc THEN x < y ELSE x > y

\* ORDER BY: q comes before p.
Before(q, p, sort) ==
    LET x == Cursor(p, sort)
        y == Cursor(q, sort)
    IN \E i \in DOMAIN x : /\ SubSeq(x, 1, i - 1) = SubSeq(y, 1, i - 1)
                           /\ Beyond(SortKeys[sort][i], x[i], y[i])

\* Mutant of AfterCursor: the key before the last decides alone.
AfterCursorFirst(p, sort, vals) ==
    LET x == Cursor(p, sort)
    IN Beyond(SortKeys[sort][1], x[1], vals[1])

\* afterCursor: (k1 > v1) OR (k1 = v1 AND k2 > v2) OR ..., with < for DESC.
AfterCursor(p, sort, vals) ==
    LET x == Cursor(p, sort)
    IN \E i \in DOMAIN x : /\ \A j \in 1..(i - 1) : x[j] = vals[j]
                           /\ Beyond(SortKeys[sort][i], x[i], vals[i])

-----------------------------------------------------------------------------
Walk == [query : Walks, sort : Sorts, open : BOOLEAN, after : {<<>>} \cup Seq(Int)]

Init ==
    /\ product \in Catalogues
    /\ active = [c \in Categories |-> TRUE]
    /\ edits = 0
    /\ \E q \in Walks, s \in Sorts : walk = [query |-> q, sort |-> s, open |-> TRUE, after |-> <<>>]
    /\ served = [p \in Products |-> 0]
    /\ steady = {p \in Products : Matches(p, walk.query)}

\* compileQuery: a public listing of a hidden category is not found.
Found(q) == q.public /\ q.category # 0 => CategoryIsVisible(q.category)

\* ListProducts: one page; one row more tells whether there is another.
ListProducts ==
    LET s == walk.sort
        rows == {p \in Products : /\ Matches(p, walk.query)
                                  /\ walk.after = <<>> \/ AfterCursor(p, s, walk.after)}
        items == {p \in rows : Cardinality({q \in rows : Before(q, p, s)}) < Limit}
        last == CHOOSE p \in items : \A q \in items \ {p} : Before(q, p, s)
    IN /\ walk.open /\ Found(walk.query)
       /\ served' = [p \in Products |-> served[p] + (IF p \in items THEN 1 ELSE 0)]
       /\ walk' = IF rows = items THEN [walk EXCEPT !.open = FALSE]
                  ELSE [walk EXCEPT !.after = Cursor(last, s)]
       /\ UNCHANGED <<catalogue, steady>>

\* Which products have kept their place since the first page.
Keeps ==
    steady' = {p \in steady : Matches(p, walk.query)' /\ Cursor(p, walk.sort)' = Cursor(p, walk.sort)}

Saved(p, new) == product' = [product EXCEPT ![p] = [new EXCEPT !.updated = edits + 1]]

\* An admin saves a product.
Rename(p) ==
    \E n \in 1..MaxName, r \in 0..1 : Saved(p, [product[p] EXCEPT !.name = n, !.rank = r])
Feature(p) == Saved(p, [product[p] EXCEPT !.featured = 1 - @])
Publish(p) == Saved(p, [product[p] EXCEPT !.active = ~ @])
Restock(p) ==
    \E vs \in Stocks, c \in Categories :
        Saved(p, [product[p] EXCEPT !.variants = vs, !.category = c])

Edit ==
    /\ edits < MaxEdits /\ edits' = edits + 1
    /\ \/ /\ \E p \in Products : Rename(p) \/ Feature(p) \/ Publish(p) \/ Restock(p)
          /\ UNCHANGED active
       \/ /\ \E c \in Categories : active' = [active EXCEPT ![c] = ~ @]
          /\ UNCHANGED product
    /\ UNCHANGED reader
    /\ Keeps

Next == ListProducts \/ Edit

Spec == Init /\ [][Next]_vars

-----------------------------------------------------------------------------
TypeOK ==
    /\ product \in [Products -> Product] /\ active \in [Categories -> BOOLEAN]
    /\ edits \in 0..MaxEdits /\ walk \in Walk
    /\ served \in [Products -> 0..(MaxEdits + 1)] /\ steady \subseteq Products

(* "A sort order is a list of them ending in a unique key (p.id) so keyset
   pagination never skips or repeats a row": whatever is edited between two
   pages, a product that keeps matching and keeps its place is on one page, and
   when the last page has been read it was on exactly one. *)
ServedOnce ==
    \A p \in steady : served[p] <= 1 /\ (~ walk.open => served[p] = 1)

Listed(c, colour, width) == [public |-> TRUE, category |-> c, colour |-> colour, width |-> width]

(* The category tree promises as many products as the category's listing has. *)
TreeCountsAgree ==
    \A c \in VisibleTree :
        CategoryIsVisible(c) /\ ProductCount(c) = CountProducts(Listed(c, {}, NoWidth))

(* "So the UI can show Black (12)" (domain/search.go): choosing an offered value,
   in place of the facet's own filter, lists as many products as were promised,
   also when variants meet some of the filters only, and the offered range leaves
   out no product that has a value and ends where there is one. *)
FacetCountsAgree ==
    \A c \in VisibleTree, colour \in SUBSET Colours, width \in Widths \cup {NoWidth} :
        LET q == Listed(c, colour, width)
            r == FacetRange(q)
            at(w) == CountProducts([q EXCEPT !.width = w])
        IN /\ \A x \in Colours : FacetCount(q, x) = CountProducts([q EXCEPT !.colour = {x}])
           /\ r = NoWidth => at(<<1, MaxWidth>>) = 0
           /\ r # NoWidth => /\ at(r) = at(<<1, MaxWidth>>)
                             /\ at(<<r[1], r[1]>>) > 0 /\ at(<<r[2], r[2]>>) > 0

(* What the site counts it shows. *)
CountsAgree == TreeCountsAgree /\ FacetCountsAgree

(* "For numeric facets, the observed bounds across the result set"
   (domain/search.go): a range is only offered when a product of the result has
   a value ("no product in the result set has a value", Catalog.Facets). *)
RangesAreObserved ==
    \A c \in VisibleTree, colour \in SUBSET Colours, width \in Widths \cup {NoWidth} :
        WidthFacet(Listed(c, colour, width)) = FacetRange(Listed(c, colour, width))
=============================================================================
