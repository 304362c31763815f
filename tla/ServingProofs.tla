--------------------------- MODULE ServingProofs ---------------------------
(***************************************************************************)
(* Proofs about what serves the public site: Catalog, RateLimit,           *)
(* MediaAssets and AttributeValues, which share nothing.                   *)
(*                                                                         *)
(* Catalog: for any number of products and categories, any sort keys, any  *)
(* page size and any edits.  The keys end in the id, so that the order is  *)
(* a total one, and a cursor splits the rows that have kept their place    *)
(* into those served once and those still to come.  What is counted and    *)
(* what is listed are the same set of products.                            *)
(*                                                                         *)
(* RateLimit: for any number of addresses and handlers and any rate,       *)
(* burst, sweep interval and delay that RateAssumption admits.  The        *)
(* account of a client in the map is kept at the last use of its bucket:   *)
(* what it was granted and what the bucket held then is no more than a     *)
(* full bucket, the time up to then and its requests' overtaking.  That    *)
(* forgetting an entry changes nothing rests on two facts: the bucket was  *)
(* last used no later than MaxDelay after the client was last seen, and    *)
(* any handler still on its way has read the clock at most MaxDelay before *)
(* the sweep; so an entry idle for IdleTTL >= Full + 2 * MaxDelay is one   *)
(* whose bucket has refilled.                                              *)
(*                                                                         *)
(* MediaAssets: for any number of renditions, uploads and workers.  What a *)
(* run has put into the blob store stays there, whoever put it again, so a *)
(* run that has counted to the end finds all of it.                        *)
(*                                                                         *)
(* AttributeValues: for any attributes, bindings, units, ids, texts and    *)
(* numbers and any clients, filters and workbooks that ValuesAssumption    *)
(* admits.                                                                 *)
(* The values of a product are one of an attribute at a place, where its   *)
(* binding has it, and fit its data type; and the projections say what the *)
(* rows say, but for the order of options.  What a value is rendered as is *)
(* accepted as that value, which gives the write format; the projections   *)
(* are rendered values, which gives the filters; and a displayed value is  *)
(* parsed as what it is rendered as, or refused, which gives the           *)
(* workbooks.  That an active product can be saved as it is rests on what  *)
(* its last save asked for: no unbinding takes a value that is required.   *)
(***************************************************************************)
EXTENDS MCCatalog, RateLimit, MCMediaAssets, FiniteSetTheorems, SequenceTheorems, WellFoundedInduction, TLAPS

\* A set of numbers that contains 0 and every successor contains them all.
LEMMA CountsUp ==
    ASSUME NEW S, 0 \in S, \A n \in Nat : n \in S => n + 1 \in S
    PROVE  \A n \in Nat : n \in S
  <1> DEFINE R == OpToRel(<, Nat)
             T == Nat \ S
  <1>1. IsWellFoundedOn(R, Nat)
    BY NatLessThanWellFounded
  <1>2. \A y, x \in Nat : y < x => <<y, x>> \in R
    BY DEF OpToRel
  <1> HIDE DEF R
  <1> SUFFICES ASSUME T # {}  PROVE FALSE
    OBVIOUS
  <1>3. PICK x \in T : \A y \in T : <<y, x>> \notin R
    BY <1>1, WFMin
  <1>4. x - 1 \in T /\ x - 1 < x
    BY <1>3
  <1> QED  BY <1>2, <1>3, <1>4

-----------------------------------------------------------------------------
(* The order of a listing.                                                 *)

Fields == {"featured", "name", "id", "created", "updated", "rank"}

Shelved ==
    /\ product \in [Products -> Product]
    /\ \A p \in Products : product[p].id = p /\ product[p].variants # {}

\* x comes after y in the order of the keys, which compares the first that differ.
Follows(keys, x, y) ==
    \E i \in DOMAIN keys : /\ \A j \in 1..(i - 1) : x[j] = y[j]
                           /\ Beyond(keys[i], x[i], y[i])

Keys == Seq([field : Fields, desc : BOOLEAN])

LEMMA KeysAre ==
    ASSUME NEW s \in Sorts
    PROVE  /\ SortKeys[s] \in Keys
           /\ Len(SortKeys[s]) \in 2..3
           /\ SortKeys[s][Len(SortKeys[s])].field = "id"
  <1> DEFINE Key == [field : Fields, desc : BOOLEAN]
             Is(keys) == /\ keys \in Seq(Key) /\ Len(keys) \in 2..3
                         /\ keys[Len(keys)].field = "id"
  <1>1. \A f \in Fields : Asc(f) \in Key /\ Desc(f) \in Key /\ Asc(f).field = f /\ Desc(f).field = f
    BY DEF Asc, Desc
  <1>3. {"featured", "name", "id", "created", "updated", "rank"} \subseteq Fields
    BY DEF Fields
  <1> HIDE DEF Key
  <1>4. \A k, l \in Key : l.field = "id" => Is(<<k, l>>)
    OBVIOUS
  <1>5. \A k, l, m \in Key : m.field = "id" => Is(<<k, l, m>>)
    OBVIOUS
  <1>6. CASE s = "featured"
    BY <1>1, <1>3, <1>5, <1>6 DEF SortKeys, Keys, Key
  <1>7. CASE s = "name"
    BY <1>1, <1>3, <1>4, <1>7 DEF SortKeys, Keys, Key
  <1>8. CASE s = "newest"
    BY <1>1, <1>3, <1>4, <1>8 DEF SortKeys, Keys, Key
  <1>9. CASE s = "updated"
    BY <1>1, <1>3, <1>4, <1>9 DEF SortKeys, Keys, Key
  <1>10. CASE s = "relevance"
    BY <1>1, <1>3, <1>4, <1>10 DEF SortKeys, Keys, Key
  <1> QED  BY <1>6, <1>7, <1>8, <1>9, <1>10 DEF Sorts

LEMMA CursorIs ==
    ASSUME Shelved, NEW p \in Products, NEW s \in Sorts
    PROVE  /\ Cursor(p, s) \in [DOMAIN SortKeys[s] -> Int]
           /\ Cursor(p, s) \in Seq(Int) /\ Len(Cursor(p, s)) = Len(SortKeys[s])
           /\ Cursor(p, s)[Len(SortKeys[s])] = p
  <1> DEFINE n == Len(SortKeys[s])
  <1>1. SortKeys[s] \in Keys /\ n \in 2..3 /\ SortKeys[s][n].field = "id"
    BY KeysAre
  <1>2. DOMAIN SortKeys[s] = 1..n
    BY <1>1 DEF Keys
  <1>3. \A f \in Fields : product[p][f] \in Int
    BY DEF Shelved, Fields, Product, Products, Categories
  <1>4. product[p]["id"] = p
    BY DEF Shelved
  <1>5. \A i \in 1..n : SortKeys[s][i].field \in Fields
    <2>1. ASSUME NEW keys \in Keys, NEW i \in 1..Len(keys)
          PROVE  keys[i].field \in Fields
      <3> DEFINE Key == [field : Fields, desc : BOOLEAN]
      <3>2. keys \in Seq(Key)
        BY DEF Keys
      <3> HIDE DEF Key
      <3>3. keys[i] \in Key
        BY <3>2
      <3>1. keys[i] \in [field : Fields, desc : BOOLEAN]
        BY <3>3 DEF Key
      <3> QED  BY <3>1
    <2> QED  BY <1>1, <2>1
  <1>6. Cursor(p, s) = [i \in 1..n |-> product[p][SortKeys[s][i].field]]
    BY <1>2 DEF Cursor
  <1> HIDE DEF n
  <1>7. Cursor(p, s) \in [1..n -> Int] /\ Cursor(p, s)[n] = p
    BY <1>1, <1>3, <1>4, <1>5, <1>6
  <1> QED  BY <1>1, <1>2, <1>7 DEF n

\* The order is one: irreflexive, transitive, and total on rows with ids.
LEMMA FollowsIsOrder ==
    ASSUME NEW keys \in Keys,
           NEW x \in [DOMAIN keys -> Int], NEW y \in [DOMAIN keys -> Int],
           NEW z \in [DOMAIN keys -> Int]
    PROVE  /\ ~ Follows(keys, x, x)
           /\ Follows(keys, x, y) /\ Follows(keys, y, z) => Follows(keys, x, z)
  <1>0. DOMAIN keys = 1..Len(keys) /\ Len(keys) \in Nat
    BY DEF Keys
  <1>1. ~ Follows(keys, x, x)
    BY <1>0 DEF Follows, Beyond
  <1>2. ASSUME Follows(keys, x, y), Follows(keys, y, z)
        PROVE  Follows(keys, x, z)
    <2>1. PICK i \in DOMAIN keys : (\A j \in 1..(i - 1) : x[j] = y[j]) /\ Beyond(keys[i], x[i], y[i])
      BY <1>2 DEF Follows
    <2>2. PICK k \in DOMAIN keys : (\A j \in 1..(k - 1) : y[j] = z[j]) /\ Beyond(keys[k], y[k], z[k])
      BY <1>2 DEF Follows
    <2>3. CASE i < k
      <3>1. Beyond(keys[i], x[i], z[i])
        BY <1>0, <2>1, <2>2, <2>3 DEF Beyond
      <3>2. \A j \in 1..(i - 1) : x[j] = z[j]
        BY <1>0, <2>1, <2>2, <2>3
      <3> QED  BY <3>1, <3>2 DEF Follows
    <2>4. CASE k < i
      <3>1. Beyond(keys[k], x[k], z[k])
        BY <1>0, <2>1, <2>2, <2>4 DEF Beyond
      <3>2. \A j \in 1..(k - 1) : x[j] = z[j]
        BY <1>0, <2>1, <2>2, <2>4
      <3> QED  BY <3>1, <3>2 DEF Follows
    <2>5. CASE i = k
      <3>1. Beyond(keys[i], x[i], z[i])
        BY <1>0, <2>1, <2>2, <2>5 DEF Beyond
      <3>2. \A j \in 1..(i - 1) : x[j] = z[j]
        BY <1>0, <2>1, <2>2, <2>5
      <3> QED  BY <3>1, <3>2 DEF Follows
    <2> QED  BY <1>0, <2>3, <2>4, <2>5
  <1> QED  BY <1>1, <1>2

LEMMA FollowsIsTotal ==
    ASSUME NEW keys \in Keys, Len(keys) \in 2..3,
           NEW x \in [DOMAIN keys -> Int], NEW y \in [DOMAIN keys -> Int],
           x[Len(keys)] # y[Len(keys)]
    PROVE  Follows(keys, x, y) \/ Follows(keys, y, x)
  <1> DEFINE n == Len(keys)
             Differ(i) == i \in 1..n /\ x[i] # y[i] /\ \A j \in 1..(i - 1) : x[j] = y[j]
  <1>0. DOMAIN keys = 1..n
    BY DEF Keys
  <1>1. \E i \in 1..n : Differ(i)
    <2>1. CASE x[1] # y[1]
      <3>1. Differ(1)
        BY <2>1
      <3> QED  BY <3>1
    <2>2. CASE x[1] = y[1] /\ x[2] # y[2]
      <3>1. Differ(2)
        BY <2>2
      <3> QED  BY <3>1
    <2>3. CASE x[1] = y[1] /\ x[2] = y[2]
      <3>1. n = 3
        BY <2>3
      <3>2. Differ(3)
        BY <2>3, <3>1
      <3> QED  BY <3>1, <3>2
    <2> QED  BY <2>1, <2>2, <2>3
  <1>2. PICK i \in 1..n : Differ(i)
    BY <1>1
  <1>3. Beyond(keys[i], x[i], y[i]) \/ Beyond(keys[i], y[i], x[i])
    BY <1>0, <1>2 DEF Beyond
  <1>4. \A j \in 1..(i - 1) : y[j] = x[j]
    BY <1>2
  <1> QED  BY <1>0, <1>2, <1>3, <1>4 DEF Follows

LEMMA OrderIs ==
    ASSUME Shelved, NEW s \in Sorts, NEW p \in Products, NEW q \in Products
    PROVE  /\ Before(q, p, s) <=> Follows(SortKeys[s], Cursor(p, s), Cursor(q, s))
           /\ \A vals : AfterCursor(p, s, vals) <=> Follows(SortKeys[s], Cursor(p, s), vals)
  <1> DEFINE x == Cursor(p, s)
             y == Cursor(q, s)
             n == Len(SortKeys[s])
  <1>1. x \in Seq(Int) /\ y \in Seq(Int) /\ Len(x) = n /\ Len(y) = n /\ DOMAIN x = 1..n
        /\ DOMAIN SortKeys[s] = 1..n
    BY CursorIs, KeysAre DEF Keys
  <1> HIDE DEF x, y, n
  <1>2. ASSUME NEW i \in 1..n
        PROVE  SubSeq(x, 1, i - 1) = SubSeq(y, 1, i - 1) <=> \A j \in 1..(i - 1) : x[j] = y[j]
    <2>1. /\ SubSeq(x, 1, i - 1) = [j \in 1..(i - 1) |-> x[j]]
          /\ SubSeq(y, 1, i - 1) = [j \in 1..(i - 1) |-> y[j]]
      BY <1>1
    <2> QED  BY <2>1
  <1> QED  BY <1>1, <1>2 DEF Before, AfterCursor, Follows, x, y

LEMMA BeforeIsTotalOrder ==
    ASSUME Shelved, NEW s \in Sorts
    PROVE  /\ \A p \in Products : ~ Before(p, p, s)
           /\ \A p, q, r \in Products : Before(p, q, s) /\ Before(q, r, s) => Before(p, r, s)
           /\ \A p, q \in Products : p = q \/ Before(p, q, s) \/ Before(q, p, s)
  <1>1. ASSUME NEW p \in Products, NEW q \in Products, NEW r \in Products
        PROVE  /\ ~ Before(p, p, s)
               /\ Before(p, q, s) /\ Before(q, r, s) => Before(p, r, s)
               /\ p = q \/ Before(p, q, s) \/ Before(q, p, s)
    <2>1. /\ Cursor(p, s) \in [DOMAIN SortKeys[s] -> Int]
          /\ Cursor(q, s) \in [DOMAIN SortKeys[s] -> Int]
          /\ Cursor(r, s) \in [DOMAIN SortKeys[s] -> Int]
          /\ Cursor(p, s)[Len(SortKeys[s])] = p /\ Cursor(q, s)[Len(SortKeys[s])] = q
      BY CursorIs
    <2>2. SortKeys[s] \in Keys /\ Len(SortKeys[s]) \in 2..3
      BY KeysAre
    <2>3. /\ Before(p, p, s) <=> Follows(SortKeys[s], Cursor(p, s), Cursor(p, s))
          /\ Before(p, q, s) <=> Follows(SortKeys[s], Cursor(q, s), Cursor(p, s))
          /\ Before(q, p, s) <=> Follows(SortKeys[s], Cursor(p, s), Cursor(q, s))
          /\ Before(q, r, s) <=> Follows(SortKeys[s], Cursor(r, s), Cursor(q, s))
          /\ Before(p, r, s) <=> Follows(SortKeys[s], Cursor(r, s), Cursor(p, s))
      BY OrderIs
    <2>4. ~ Before(p, p, s)
      BY <2>1, <2>2, <2>3, FollowsIsOrder
    <2>5. Before(p, q, s) /\ Before(q, r, s) => Before(p, r, s)
      BY <2>1, <2>2, <2>3, FollowsIsOrder
    <2>6. p = q \/ Before(p, q, s) \/ Before(q, p, s)
      BY <2>1, <2>2, <2>3, FollowsIsTotal
    <2> QED  BY <2>4, <2>5, <2>6
  <1> QED  BY <1>1

\* Rows have a first and a last one.
LEMMA EndsExist ==
    ASSUME Shelved, NEW s \in Sorts, NEW S \in SUBSET Products, S # {}
    PROVE  /\ \E p \in S : \A q \in S \ {p} : Before(q, p, s)
           /\ \E p \in S : \A q \in S \ {p} : Before(p, q, s)
  <1> DEFINE Ends(X) == /\ \E p \in X : \A q \in X \ {p} : Before(q, p, s)
                        /\ \E p \in X : \A q \in X \ {p} : Before(p, q, s)
             Good == {n \in Nat : \A X \in SUBSET Products : X \subseteq 1..n /\ X # {} => Ends(X)}
  <1>0. NProducts \in Nat /\ Products = 1..NProducts
    BY CatalogAssumption DEF Products
  <1>1. 0 \in Good
    OBVIOUS
  <1>2. ASSUME NEW n \in Nat, n \in Good
        PROVE  n + 1 \in Good
    <2> SUFFICES ASSUME NEW X \in SUBSET Products, X \subseteq 1..(n + 1), X # {}
                 PROVE  Ends(X)
      OBVIOUS
    <2> DEFINE Y == X \ {n + 1}
    <2>1. Y \in SUBSET Products /\ Y \subseteq 1..n
      OBVIOUS
    <2>2. CASE Y = {}
      <3>1. X = {n + 1}
        BY <2>2
      <3> QED  BY <3>1
    <2>3. CASE n + 1 \notin X
      <3>1. Y = X
        BY <2>3
      <3> QED  BY <1>2, <2>1, <3>1
    <2>4. CASE Y # {} /\ n + 1 \in X
      <3>1. Ends(Y)
        BY <1>2, <2>1, <2>4
      <3>2. PICK end \in Y : \A q \in Y \ {end} : Before(q, end, s)
        BY <3>1
      <3>3. PICK first \in Y : \A q \in Y \ {first} : Before(first, q, s)
        BY <3>1
      <3> HIDE DEF Ends
      <3>4. \E p \in X : \A q \in X \ {p} : Before(q, p, s)
        <4>1. CASE Before(n + 1, end, s)
          BY <2>4, <3>2, <4>1
        <4>2. CASE Before(end, n + 1, s)
          <5>1. \A q \in X \ {n + 1} : Before(q, n + 1, s)
            BY <2>4, <3>2, <4>2, BeforeIsTotalOrder
          <5> QED  BY <2>4, <5>1
        <4> QED  BY <2>4, <4>1, <4>2, BeforeIsTotalOrder
      <3>5. \E p \in X : \A q \in X \ {p} : Before(p, q, s)
        <4>1. CASE Before(first, n + 1, s)
          BY <2>4, <3>3, <4>1
        <4>2. CASE Before(n + 1, first, s)
          <5>1. \A q \in X \ {n + 1} : Before(n + 1, q, s)
            BY <2>4, <3>3, <4>2, BeforeIsTotalOrder
          <5> QED  BY <2>4, <5>1
        <4> QED  BY <2>4, <4>1, <4>2, BeforeIsTotalOrder
      <3> QED  BY <3>4, <3>5 DEF Ends
    <2> QED  BY <2>2, <2>3, <2>4
  <1> HIDE DEF Good, Ends
  <1>3. NProducts \in Good
    BY <1>0, <1>1, <1>2, CountsUp
  <1> QED  BY <1>0, <1>3 DEF Good, Ends

\* A page is the first rows of a listing.
LEMMA PageIs ==
    ASSUME Shelved, NEW s \in Sorts, NEW all \in SUBSET Products, NEW items,
           items = {p \in all : Cardinality({q \in all : Before(q, p, s)}) < Limit}
    PROVE  /\ all # {} => items # {}
           /\ \A p \in all \ items, q \in items : Before(q, p, s)
  <1>0. Limit \in Nat /\ Limit > 0 /\ IsFiniteSet(Products)
    BY CatalogAssumption, FS_Interval DEF Products
  <1>1. ASSUME all # {}
        PROVE  items # {}
    <2>1. PICK p \in all : \A q \in all \ {p} : Before(p, q, s)
      BY <1>1, EndsExist
    <2>2. {q \in all : Before(q, p, s)} = {}
      BY <2>1, BeforeIsTotalOrder
    <2>3. Cardinality({q \in all : Before(q, p, s)}) = 0
      BY <2>2, FS_EmptySet
    <2> QED  BY <1>0, <2>3
  <1>2. ASSUME NEW p \in all \ items, NEW q \in items, ~ Before(q, p, s)
        PROVE  FALSE
    <2> DEFINE P == {x \in all : Before(x, p, s)}
               Q == {x \in all : Before(x, q, s)}
    <2>1. Before(p, q, s)
      BY <1>2, BeforeIsTotalOrder
    <2>2. P \subseteq Q
      BY <2>1, BeforeIsTotalOrder
    <2>3. IsFiniteSet(Q)
      BY <1>0, FS_Subset
    <2>4. Cardinality(P) <= Cardinality(Q) /\ Cardinality(P) \in Nat /\ Cardinality(Q) \in Nat
      BY <2>2, <2>3, FS_Subset, FS_CardinalityType
    <2>5. Cardinality(Q) < Limit /\ ~ Cardinality(P) < Limit
      BY <1>2
    <2> HIDE DEF P, Q
    <2> QED  BY <1>0, <2>4, <2>5
  <1> QED  BY <1>1, <1>2

-----------------------------------------------------------------------------
(* Pages.                                                                  *)

ListingTyped ==
    /\ Shelved /\ edits \in 0..MaxEdits /\ walk \in Walk
    /\ served \in [Products -> Nat] /\ steady \subseteq Products

\* Where the reader is: before it, a row that has kept its place has been served
\* once, and behind it not at all.
ReaderIsAt ==
    /\ walk.after # <<>> => walk.after \in [DOMAIN SortKeys[walk.sort] -> Int]
    /\ \A p \in steady :
         /\ Matches(p, walk.query)
         /\ served[p] = IF walk.open /\ (walk.after = <<>> \/ AfterCursor(p, walk.sort, walk.after))
                        THEN 0 ELSE 1

ListingInv == ListingTyped /\ ReaderIsAt

LEMMA ListingInitially == Init => ListingInv
  <1> SUFFICES ASSUME Init
               PROVE  ListingInv
    OBVIOUS
  <1>1. PICK q \in Walks, s \in Sorts : walk = [query |-> q, sort |-> s, open |-> TRUE, after |-> <<>>]
    BY DEF Init
  <1>2. walk \in Walk
    BY <1>1 DEF Walk
  <1>3. Shelved
    BY CatalogAssumption DEF Init, Shelved
  <1>4. edits \in 0..MaxEdits /\ served \in [Products -> Nat] /\ steady \subseteq Products
    BY CatalogAssumption DEF Init
  <1>5. ReaderIsAt
    BY <1>1 DEF Init, ReaderIsAt
  <1> QED  BY <1>2, <1>3, <1>4, <1>5 DEF ListingInv, ListingTyped

\* An edit leaves products what they are.
LEMMA EditsKeepShelves ==
    ASSUME ListingTyped, Edit
    PROVE  Shelved' /\ edits' \in 0..MaxEdits
  <1>0. edits \in Nat /\ MaxEdits \in Nat /\ edits + 1 \in 0..MaxEdits /\ edits' = edits + 1
    BY CatalogAssumption DEF Edit, ListingTyped
  <1>1. ASSUME NEW p \in Products, NEW new \in Product, new.id = p, new.variants # {},
               Saved(p, new)
        PROVE  Shelved'
    <2> DEFINE saved == [new EXCEPT !.updated = edits + 1]
    <2>1. saved \in Product /\ saved.id = p /\ saved.variants # {}
      BY <1>0, <1>1 DEF Product
    <2>2. product' = [product EXCEPT ![p] = saved]
      BY <1>1 DEF Saved
    <2> HIDE DEF saved
    <2> QED  BY <2>1, <2>2 DEF Shelved, ListingTyped
  <1>2. ASSUME NEW p \in Products, Rename(p) \/ Feature(p) \/ Publish(p) \/ Restock(p)
        PROVE  Shelved'
    <2>0. product[p] \in Product /\ product[p].id = p /\ product[p].variants # {}
      BY DEF ListingTyped, Shelved
    <2>1. CASE Rename(p)
      <3>1. PICK n \in 1..MaxName, r \in 0..1 : Saved(p, [product[p] EXCEPT !.name = n, !.rank = r])
        BY <2>1 DEF Rename
      <3>2. /\ [product[p] EXCEPT !.name = n, !.rank = r] \in Product
            /\ [product[p] EXCEPT !.name = n, !.rank = r].id = p
            /\ [product[p] EXCEPT !.name = n, !.rank = r].variants # {}
        BY <2>0 DEF Product
      <3> QED  BY <1>1, <3>1, <3>2
    <2>2. CASE Feature(p)
      <3>1. /\ [product[p] EXCEPT !.featured = 1 - @] \in Product
            /\ [product[p] EXCEPT !.featured = 1 - @].id = p
            /\ [product[p] EXCEPT !.featured = 1 - @].variants # {}
        BY <2>0 DEF Product
      <3> QED  BY <1>1, <2>2, <3>1 DEF Feature
    <2>3. CASE Publish(p)
      <3>1. /\ [product[p] EXCEPT !.active = ~ @] \in Product
            /\ [product[p] EXCEPT !.active = ~ @].id = p
            /\ [product[p] EXCEPT !.active = ~ @].variants # {}
        BY <2>0 DEF Product
      <3> QED  BY <1>1, <2>3, <3>1 DEF Publish
    <2>4. CASE Restock(p)
      <3>1. PICK vs \in Stocks, c \in Categories :
              Saved(p, [product[p] EXCEPT !.variants = vs, !.category = c])
        BY <2>4 DEF Restock
      <3>2. vs \in SUBSET Variant /\ vs # {}
        BY CatalogAssumption
      <3>3. /\ [product[p] EXCEPT !.variants = vs, !.category = c] \in Product
            /\ [product[p] EXCEPT !.variants = vs, !.category = c].id = p
            /\ [product[p] EXCEPT !.variants = vs, !.category = c].variants # {}
        BY <2>0, <3>2 DEF Product
      <3> QED  BY <1>1, <3>1, <3>3
    <2> QED  BY <1>2, <2>1, <2>2, <2>3, <2>4
  <1> QED  BY <1>0, <1>2 DEF Edit, ListingTyped, Shelved

LEMMA EditKeepsPlaces ==
    ASSUME ListingInv, Edit
    PROVE  ListingInv'
  <1>1. Shelved' /\ edits' \in 0..MaxEdits
    BY EditsKeepShelves DEF ListingInv
  <1>2. walk' = walk /\ served' = served /\ Keeps
    BY DEF Edit, reader
  <1>3. steady' \subseteq steady
    BY <1>2 DEF Keeps
  <1>4. ListingTyped'
    BY <1>1, <1>2, <1>3 DEF ListingInv, ListingTyped
  <1>5. ASSUME NEW p \in steady'
        PROVE  /\ Matches(p, walk.query)'
               /\ served'[p] = IF walk'.open /\ (walk'.after = <<>> \/ AfterCursor(p, walk.sort, walk.after)')
                               THEN 0 ELSE 1
    <2>1. p \in steady /\ Matches(p, walk.query)' /\ Cursor(p, walk.sort)' = Cursor(p, walk.sort)
      BY <1>5, <1>2 DEF Keeps
    <2>2. AfterCursor(p, walk.sort, walk.after)' <=> AfterCursor(p, walk.sort, walk.after)
      BY <1>2, <2>1 DEF AfterCursor
    <2> QED  BY <1>2, <2>1, <2>2 DEF ListingInv, ReaderIsAt
  <1>6. walk'.after # <<>> => walk'.after \in [DOMAIN SortKeys[walk'.sort] -> Int]
    BY <1>2 DEF ListingInv, ReaderIsAt
  <1>7. ReaderIsAt'
    BY <1>5, <1>6 DEF ReaderIsAt
  <1> QED  BY <1>4, <1>7 DEF ListingInv

LEMMA PageServesOnce ==
    ASSUME ListingInv, ListProducts
    PROVE  ListingInv'
  <1> DEFINE s == walk.sort
             all == {p \in Products : /\ Matches(p, walk.query)
                                      /\ walk.after = <<>> \/ AfterCursor(p, s, walk.after)}
             items == {p \in all : Cardinality({q \in all : Before(q, p, s)}) < Limit}
             end == CHOOSE p \in items : \A q \in items \ {p} : Before(q, p, s)
  <1>1. /\ walk.open
        /\ served' = [p \in Products |-> served[p] + (IF p \in items THEN 1 ELSE 0)]
        /\ walk' = IF all = items THEN [walk EXCEPT !.open = FALSE]
                   ELSE [walk EXCEPT !.after = Cursor(end, s)]
        /\ UNCHANGED <<product, active, edits, steady>>
    BY DEF ListProducts, catalogue
  <1>2. /\ Shelved /\ walk \in Walk /\ s \in Sorts /\ served \in [Products -> Nat]
        /\ steady \subseteq Products
    BY DEF ListingInv, ListingTyped, Walk
  <1>3. all \in SUBSET Products /\ items \subseteq all
    OBVIOUS
  <1>4. all # {} => items # {}
    BY <1>2, <1>3, PageIs
  <1>5. \A p \in all \ items, q \in items : Before(q, p, s)
    BY <1>2, <1>3, PageIs
  <1>6. all # items => end \in items /\ \A q \in items \ {end} : Before(q, end, s)
    BY <1>2, <1>3, <1>4, EndsExist
  <1>7. \A p \in steady : p \in all <=> walk.after = <<>> \/ AfterCursor(p, s, walk.after)
    BY <1>2 DEF ListingInv, ReaderIsAt
  <1>8. \A p \in steady : served[p] = IF p \in all THEN 0 ELSE 1
    BY <1>1, <1>7 DEF ListingInv, ReaderIsAt
  <1>9. walk.after # <<>> => walk.after \in [DOMAIN SortKeys[s] -> Int]
    BY DEF ListingInv, ReaderIsAt
  <1>10. \A p \in all : walk.after = <<>> \/ AfterCursor(p, s, walk.after)
    OBVIOUS
  <1>11. \A p \in all \ items : p \in Products /\ p \notin items
    OBVIOUS
  <1> HIDE DEF s, all, items, end
  <1>12. ASSUME NEW p \in steady
         PROVE  served'[p] = IF p \in all \ items THEN 0 ELSE 1
    <2>1. served'[p] = served[p] + (IF p \in items THEN 1 ELSE 0)
      BY <1>1, <1>2
    <2> QED  BY <1>3, <1>8, <2>1
  <1>13. \A p \in steady : Matches(p, walk.query)'
    <2>1. walk'.query = walk.query
      BY <1>1, <1>2 DEF Walk
    <2>2. \A p \in steady : Matches(p, walk.query)
      BY DEF ListingInv, ReaderIsAt
    <2>3. ASSUME NEW p \in steady
          PROVE  Matches(p, walk.query)'
      BY <1>1, <2>1, <2>2 DEF Matches, Base, AttrPaths, CategoryIsVisible
    <2> QED  BY <2>3
  <1>14. served' \in [Products -> Nat]
    BY <1>1, <1>2
  <1>15. CASE all = items
    <2>1. walk' \in Walk /\ ~ walk'.open /\ walk'.after = walk.after /\ walk'.sort = s
      BY <1>1, <1>2, <1>15 DEF Walk, s
    <2>2. ListingTyped'
      BY <1>1, <1>14, <2>1 DEF ListingInv, ListingTyped, Shelved
    <2>3. ReaderIsAt'
      BY <1>1, <1>9, <1>12, <1>13, <1>15, <2>1 DEF ReaderIsAt
    <2> QED  BY <2>2, <2>3 DEF ListingInv
  <1>16. CASE all # items
    <2>0. end \in items /\ end \in Products /\ end \in all
      BY <1>3, <1>6, <1>16
    <2>1. /\ Cursor(end, s) \in [DOMAIN SortKeys[s] -> Int] /\ Cursor(end, s) \in Seq(Int)
          /\ Cursor(end, s) # <<>>
      <3>1. Len(Cursor(end, s)) # 0 /\ Cursor(end, s) \in Seq(Int)
        <4>1. Len(Cursor(end, s)) = Len(SortKeys[s]) /\ Cursor(end, s) \in Seq(Int)
          BY <1>2, <2>0, CursorIs
        <4>2. \A n \in 2..3 : n # 0
          OBVIOUS
        <4>3. Len(SortKeys[s]) # 0
          BY <1>2, <4>2, KeysAre, Zenon
        <4> QED  BY <4>1, <4>3, Zenon
      <3>2. Len(<<>>) = 0
        OBVIOUS
      <3>3. Cursor(end, s) # <<>>
        BY <3>1, <3>2, Zenon
      <3>4. Cursor(end, s) \in [DOMAIN SortKeys[s] -> Int]
        BY <1>2, <2>0, CursorIs
      <3> QED  BY <3>1, <3>3, <3>4
    <2>2. /\ walk' \in Walk /\ walk'.open /\ walk'.after = Cursor(end, s) /\ walk'.sort = s
      BY <1>1, <1>2, <1>16, <2>1 DEF Walk, s
    <2>3. ASSUME NEW p \in steady
          PROVE  AfterCursor(p, s, Cursor(end, s)) <=> p \in all \ items
      <3>0. p \in Products
        BY <1>2
      <3>1. AfterCursor(p, s, Cursor(end, s)) <=> Before(end, p, s)
        BY <1>2, <2>0, <3>0, OrderIs
      <3>2. CASE p \in items
        <4>1. p = end \/ Before(p, end, s)
          BY <1>6, <1>16, <3>2
        <4> QED  BY <1>2, <2>0, <3>0, <3>1, <3>2, <4>1, BeforeIsTotalOrder
      <3>3. CASE p \in all \ items
        BY <1>5, <2>0, <3>1, <3>3
      <3>4. CASE p \notin all
        <4>1. walk.after # <<>> /\ ~ AfterCursor(p, s, walk.after) /\ AfterCursor(end, s, walk.after)
          BY <1>7, <1>10, <2>0, <3>4
        <4>2. ~ Follows(SortKeys[s], Cursor(p, s), walk.after) /\ Follows(SortKeys[s], Cursor(end, s), walk.after)
          BY <1>2, <2>0, <3>0, <4>1, OrderIs
        <4>3. ASSUME Before(end, p, s)
              PROVE  FALSE
          <5>1. Follows(SortKeys[s], Cursor(p, s), Cursor(end, s))
            BY <1>2, <2>0, <3>0, <4>3, OrderIs
          <5>2. Cursor(p, s) \in [DOMAIN SortKeys[s] -> Int] /\ SortKeys[s] \in Keys
            BY <1>2, <3>0, CursorIs, KeysAre
          <5> QED  BY <1>9, <2>1, <4>1, <4>2, <5>1, <5>2, FollowsIsOrder
        <4> QED  BY <3>1, <3>4, <4>3
      <3> QED  BY <1>3, <3>2, <3>3, <3>4
    <2>5. ListingTyped'
      BY <1>1, <1>14, <2>2 DEF ListingInv, ListingTyped, Shelved
    <2>6. ASSUME NEW p \in steady'
          PROVE  served'[p] = IF walk'.open /\ (walk'.after = <<>> \/ AfterCursor(p, walk.sort, walk.after)')
                             THEN 0 ELSE 1
      <3>1. p \in steady
        BY <1>1
      <3>2. Cursor(p, walk.sort)' = Cursor(p, s)
        BY <1>1, <2>2 DEF Cursor
      <3>3. AfterCursor(p, walk.sort, walk.after)' <=> AfterCursor(p, s, Cursor(end, s))
        BY <2>2, <3>2 DEF AfterCursor
      <3> QED  BY <1>12, <2>1, <2>2, <2>3, <3>1, <3>3
    <2>7. ReaderIsAt'
      BY <1>1, <1>13, <2>1, <2>2, <2>6 DEF ReaderIsAt
    <2> QED  BY <2>5, <2>7 DEF ListingInv
  <1> QED  BY <1>15, <1>16

LEMMA ListingInductive == ListingInv /\ [Next]_vars => ListingInv'
  <1> SUFFICES ASSUME ListingInv, [Next]_vars
               PROVE  ListingInv'
    OBVIOUS
  <1>1. CASE ListProducts
    BY <1>1, PageServesOnce
  <1>2. CASE Edit
    BY <1>2, EditKeepsPlaces
  <1>3. CASE UNCHANGED vars
    <2>1. UNCHANGED <<product, active, edits, walk, served, steady>>
      BY <1>3 DEF vars, catalogue, reader
    <2>2. ListingTyped'
      BY <2>1 DEF ListingInv, ListingTyped, Shelved
    <2>3. \A p \in steady : Matches(p, walk.query)' <=> Matches(p, walk.query)
      BY <2>1 DEF Matches, Base, AttrPaths, CategoryIsVisible
    <2>4. \A p \in steady : Cursor(p, walk.sort)' = Cursor(p, walk.sort)
      BY <2>1 DEF Cursor
    <2>5. \A p \in steady : AfterCursor(p, walk.sort, walk.after)' <=> AfterCursor(p, walk.sort, walk.after)
      BY <2>1, <2>4 DEF AfterCursor
    <2>6. ReaderIsAt'
      BY <2>1, <2>3, <2>5 DEF ListingInv, ReaderIsAt
    <2> QED  BY <2>2, <2>6 DEF ListingInv
  <1> QED  BY <1>1, <1>2, <1>3 DEF Next

(* However many products there are, whatever their keys and the page size, and
   whatever is edited between two pages: a product that keeps matching and keeps
   its place is on one page of a listing, and on exactly one when the end page
   has been read (productCursor, afterCursor, ListProducts). *)
THEOREM PagesServeOnce == Spec => []ServedOnce
  <1>1. ListingInv => ServedOnce
    BY DEF ListingInv, ReaderIsAt, ServedOnce
  <1> QED  BY <1>1, ListingInitially, ListingInductive, PTL DEF Spec

-----------------------------------------------------------------------------
(* Counts.                                                                 *)

\* The tree has no cycle, so that the ancestors of a category are what they say.
LEMMA AncestorsAre ==
    ASSUME NEW c \in Categories
    PROVE  Ancestors[c] = {c} \cup (IF Parent[c] = Root THEN {} ELSE Ancestors[Parent[c]])
  <1> DEFINE up(f, d) == {d} \cup (IF Parent[d] = Root THEN {} ELSE f[Parent[d]])
             Upto(f, n) == f = [d \in 1..n |-> up(f, d)]
             Good == {n \in Nat : n <= NCategories => \E f : Upto(f, n)}
             anc == CHOOSE f : f = [d \in Categories |-> up(f, d)]
  <1>0. /\ NCategories \in Nat /\ Categories = 1..NCategories
        /\ \A d \in Categories : Parent[d] \in Categories \cup {Root} /\ Parent[d] < d
    BY CatalogAssumption DEF Categories
  <1>1. 0 \in Good
    <2>1. Upto([d \in 1..0 |-> {}], 0)
      OBVIOUS
    <2> QED  BY <2>1
  <1>2. ASSUME NEW n \in Nat, n \in Good
        PROVE  n + 1 \in Good
    <2> SUFFICES ASSUME n + 1 <= NCategories
                 PROVE  \E f : Upto(f, n + 1)
      OBVIOUS
    <2>1. PICK f : Upto(f, n)
      BY <1>0, <1>2
    <2> DEFINE g == [d \in 1..(n + 1) |-> up(f, d)]
    <2>2. \A d \in 1..n : f[d] = up(f, d)
      BY <2>1
    <2>3. ASSUME NEW d \in 1..(n + 1)
          PROVE  g[d] = up(g, d)
      <3>1. CASE Parent[d] = Root
        BY <3>1
      <3>2. CASE Parent[d] # Root
        <4>1. Parent[d] \in 1..n
          BY <1>0, <3>2 DEF Root
        <4>2. \A e \in 1..n : g[e] = f[e]
          <5> HIDE DEF up
          <5> QED  BY <2>2
        <4>3. g[Parent[d]] = f[Parent[d]]
          BY <4>1, <4>2
        <4> QED  BY <3>2, <4>3
      <3> QED  BY <3>1, <3>2
    <2>4. Upto(g, n + 1)
      BY <2>3
    <2> QED  BY <2>4
  <1>3. \E f : f = [d \in Categories |-> up(f, d)]
    <2> HIDE DEF Good
    <2>1. NCategories \in Good
      BY <1>0, <1>1, <1>2, CountsUp
    <2> QED  BY <1>0, <2>1 DEF Good
  <1>4. anc = [d \in Categories |-> up(anc, d)]
    BY <1>3
  <1>5. Ancestors = [d \in Categories |-> anc[d]]
    BY DEF Ancestors
  <1> HIDE DEF anc
  <1>6. \A d \in Categories : Ancestors[d] = up(anc, d)
    BY <1>4, <1>5
  <1>7. Parent[c] # Root => Ancestors[Parent[c]] = anc[Parent[c]]
    BY <1>0, <1>5
  <1> QED  BY <1>6, <1>7

LEMMA VisibleIs ==
    ASSUME NEW c \in Categories
    PROVE  CategoryIsVisible(c) <=> active[c] /\ (Parent[c] = Root \/ CategoryIsVisible(Parent[c]))
  BY AncestorsAre DEF CategoryIsVisible

(* Built level by level or decided along the path, the visible tree is the same. *)
LEMMA TreeIsVisible == VisibleTree = {c \in Categories : CategoryIsVisible(c)}
  <1> DEFINE shown(f, c) == c = Root \/ (active[c] /\ f[Parent[c]])
             Tree(f) == f = [c \in 0..NCategories |-> shown(f, c)]
             V == {c \in Categories : CategoryIsVisible(c)}
             g == [c \in 0..NCategories |-> c = Root \/ c \in V]
             tree == CHOOSE f : Tree(f)
             Good == {n \in Nat : \A c \in 0..NCategories : c <= n => (tree[c] <=> g[c])}
  <1>0. /\ NCategories \in Nat /\ Categories = 1..NCategories /\ Root = 0
        /\ \A d \in Categories : Parent[d] \in 0..NCategories /\ Parent[d] < d
    BY CatalogAssumption DEF Categories, Root
  <1>v. \A c \in Categories : c \in V <=> active[c] /\ (Parent[c] = Root \/ Parent[c] \in V)
    BY <1>0, VisibleIs
  <1>u. Root \notin V /\ V \subseteq Categories
    BY <1>0
  <1> HIDE DEF V
  <1>1. \A c \in 0..NCategories : g[c] = shown(g, c)
    <2>1. \A c \in 0..NCategories : g[c] \in BOOLEAN /\ (g[c] <=> c = Root \/ c \in V)
      OBVIOUS
    <2> HIDE DEF g
    <2>2. ASSUME NEW c \in 0..NCategories
          PROVE  g[c] <=> shown(g, c)
      <3>1. CASE c = Root
        BY <1>0, <2>1, <3>1
      <3>2. CASE c # Root
        <4>1. c \in Categories /\ Parent[c] \in 0..NCategories
          BY <1>0, <3>2
        <4>2. g[Parent[c]] <=> Parent[c] = Root \/ Parent[c] \in V
          BY <2>1, <4>1
        <4> QED  BY <1>v, <2>1, <3>2, <4>1, <4>2
      <3> QED  BY <3>1, <3>2
    <2>3. \A c \in 0..NCategories : shown(g, c) \in BOOLEAN
      OBVIOUS
    <2> HIDE DEF shown
    <2> QED  BY <2>1, <2>2, <2>3
  <1>2. Tree(g)
    BY <1>1
  <1>3. Tree(tree)
    BY <1>2
  <1> HIDE DEF tree
  <1>4. \A c \in 0..NCategories : tree[c] = shown(tree, c)
    BY <1>3
  <1>5. 0 \in Good
    BY <1>0, <1>4
  <1>6. ASSUME NEW n \in Nat, n \in Good
        PROVE  n + 1 \in Good
    <2> SUFFICES ASSUME NEW c \in 0..NCategories, c <= n + 1
                 PROVE  tree[c] <=> g[c]
      OBVIOUS
    <2>1. CASE c = 0
      BY <1>0, <1>4, <2>1
    <2>2. CASE c # 0
      <3>1. Parent[c] \in 0..NCategories /\ Parent[c] <= n
        BY <1>0, <2>2
      <3>2. tree[Parent[c]] <=> g[Parent[c]]
        BY <1>6, <3>1
      <3>3. tree[c] <=> shown(tree, c)
        BY <1>4
      <3>4. g[c] <=> shown(g, c)
        BY <1>1
      <3> HIDE DEF g
      <3> QED  BY <3>2, <3>3, <3>4
    <2> QED  BY <2>1, <2>2
  <1> HIDE DEF Good
  <1>7. NCategories \in Good
    BY <1>0, <1>5, <1>6, CountsUp
  <1>8. \A c \in Categories : tree[c] <=> c \in V
    <2>1. \A c \in 0..NCategories : c <= NCategories => (tree[c] <=> g[c])
      BY <1>7 DEF Good
    <2>2. \A c \in 0..NCategories : g[c] <=> c = Root \/ c \in V
      OBVIOUS
    <2> HIDE DEF g
    <2> QED  BY <1>0, <2>1, <2>2
  <1>9. VisibleTree = {c \in Categories : tree[c]}
    BY DEF VisibleTree, tree
  <1> QED  BY <1>8, <1>9, <1>u DEF V

LEMMA TreeCountsHold == ListingTyped => TreeCountsAgree
  <1> SUFFICES ASSUME ListingTyped, NEW c \in VisibleTree
               PROVE  CategoryIsVisible(c) /\ ProductCount(c) = CountProducts(Listed(c, {}, NoWidth))
    BY DEF TreeCountsAgree
  <1> DEFINE q == Listed(c, {}, NoWidth)
  <1>1. c \in Categories /\ CategoryIsVisible(c) /\ c # 0
    BY TreeIsVisible DEF Categories
  <1>2. ASSUME NEW p \in Products
        PROVE  Matches(p, q) <=> /\ product[p].active /\ product[p].category \in VisibleTree
                                 /\ c \in Ancestors[product[p].category]
    <2>1. product[p].category \in Categories /\ product[p].variants # {}
      BY DEF ListingTyped, Shelved, Product
    <2>2. AttrPaths(p, q)
      BY <2>1 DEF AttrPaths, ColourPath, WidthPath, Listed
    <2>3. q.public /\ q.category = c
      BY DEF Listed
    <2> HIDE DEF q
    <2> QED  BY <1>1, <2>1, <2>2, <2>3, TreeIsVisible DEF Matches, Base
  <1> QED  BY <1>1, <1>2 DEF ProductCount, CountProducts

\* A set of some numbers has a least and a greatest one.
LEMMA BoundsExist ==
    ASSUME NEW n \in Nat, NEW S \in SUBSET (1..n), S # {}
    PROVE  /\ \E x \in S : \A y \in S : x <= y
           /\ \E x \in S : \A y \in S : x >= y
  <1> DEFINE Bounded(X) == /\ \E x \in X : \A y \in X : x <= y
                           /\ \E x \in X : \A y \in X : x >= y
             Good == {m \in Nat : \A X \in SUBSET (1..m) : X # {} => Bounded(X)}
  <1>1. 0 \in Good
    <2>1. 1..0 = {}
      OBVIOUS
    <2> QED  BY <2>1
  <1>2. ASSUME NEW m \in Nat, m \in Good
        PROVE  m + 1 \in Good
    <2> SUFFICES ASSUME NEW X \in SUBSET (1..(m + 1)), X # {}
                 PROVE  Bounded(X)
      OBVIOUS
    <2> DEFINE Y == X \ {m + 1}
    <2>1. Y \in SUBSET (1..m)
      OBVIOUS
    <2>2. CASE Y = {}
      <3>1. X = {m + 1}
        BY <2>2
      <3> QED  BY <3>1
    <2>3. CASE Y # {}
      <3>1. Bounded(Y)
        BY <1>2, <2>1, <2>3
      <3>2. PICK low \in Y : \A y \in Y : low <= y
        BY <3>1
      <3>3. PICK high \in Y : \A y \in Y : high >= y
        BY <3>1
      <3>4. \E x \in X : \A y \in X : x <= y
        BY <2>1, <3>2
      <3>5. \E x \in X : \A y \in X : x >= y
        <4>1. CASE m + 1 \in X
          BY <4>1
        <4>2. CASE m + 1 \notin X
          BY <3>3, <4>2
        <4> QED  BY <4>1, <4>2
      <3> QED  BY <3>4, <3>5
    <2> QED  BY <2>2, <2>3
  <1> HIDE DEF Good
  <1>3. n \in Good
    BY <1>1, <1>2, CountsUp
  <1> QED  BY <1>3 DEF Good

\* The range of a facet, from the widths that are found.
LEMMA RangeIs ==
    ASSUME NEW found \in SUBSET Widths, found # {}
    PROVE  LET r == <<CHOOSE n \in {w[1] : w \in found} : \A w \in found : n <= w[1],
                      CHOOSE n \in {w[2] : w \in found} : \A w \in found : n >= w[2]>>
           IN /\ r \in Nat \X Nat
              /\ \E w \in found : w[1] = r[1]
              /\ \E w \in found : w[2] = r[2]
              /\ \A w \in found : r[1] <= w[1] /\ w[2] <= r[2]
  <1> DEFINE lows == {w[1] : w \in found}
             highs == {w[2] : w \in found}
             low == CHOOSE n \in lows : \A w \in found : n <= w[1]
             high == CHOOSE n \in highs : \A w \in found : n >= w[2]
  <1>0. MaxWidth \in Nat
    BY CatalogAssumption
  <1>1. lows \in SUBSET (1..MaxWidth) /\ highs \in SUBSET (1..MaxWidth) /\ lows # {} /\ highs # {}
    BY DEF Widths
  <1>2. low \in lows /\ \A w \in found : low <= w[1]
    <2>1. \E n \in lows : \A w \in found : n <= w[1]
      <3>1. PICK x \in lows : \A y \in lows : x <= y
        <4> HIDE DEF lows
        <4> QED  BY <1>0, <1>1, BoundsExist
      <3> QED  BY <3>1
    <2> QED  BY <2>1
  <1>3. high \in highs /\ \A w \in found : high >= w[2]
    <2>1. \E n \in highs : \A w \in found : n >= w[2]
      <3>1. PICK x \in highs : \A y \in highs : x >= y
        <4> HIDE DEF highs
        <4> QED  BY <1>0, <1>1, BoundsExist
      <3> QED  BY <3>1
    <2> QED  BY <2>1
  <1> HIDE DEF low, high
  <1>4. /\ <<low, high>> \in Nat \X Nat
        /\ \E w \in found : w[1] = low
        /\ \E w \in found : w[2] = high
        /\ \A w \in found : low <= w[1] /\ w[2] <= high
    BY <1>1, <1>2, <1>3 DEF Widths
  <1> QED  BY <1>4 DEF low, high

LEMMA FacetCountsHold == ListingTyped => FacetCountsAgree
  <1> SUFFICES ASSUME ListingTyped, NEW c \in VisibleTree, NEW colour \in SUBSET Colours,
                      NEW width \in Widths \cup {NoWidth}
               PROVE  LET q == Listed(c, colour, width)
                          r == FacetRange(q)
                          at(w) == CountProducts([q EXCEPT !.width = w])
                      IN /\ \A x \in Colours : FacetCount(q, x) = CountProducts([q EXCEPT !.colour = {x}])
                         /\ r = NoWidth => at(<<1, MaxWidth>>) = 0
                         /\ r # NoWidth => /\ at(r) = at(<<1, MaxWidth>>)
                                           /\ at(<<r[1], r[1]>>) > 0 /\ at(<<r[2], r[2]>>) > 0
    BY DEF FacetCountsAgree
  <1> DEFINE q == Listed(c, colour, width)
             r == FacetRange(q)
             with(w) == [q EXCEPT !.width = w]
             listed(w) == {p \in Products : Matches(p, with(w))}
             at(w) == CountProducts([q EXCEPT !.width = w])
  <1>0. /\ product \in [Products -> Product]
        /\ \A p \in Products : product[p].variants \subseteq Variant
    BY DEF ListingTyped, Shelved, Product
  <1>1. ASSUME NEW x \in Colours
        PROVE  FacetCount(q, x) = CountProducts([q EXCEPT !.colour = {x}])
    <2> DEFINE e == Except(q, "colour")
               f == [q EXCEPT !.colour = {x}]
               found == {y \in FacetRows(e) : x \in y[2].colour}
    <2>1. /\ e.public = f.public /\ e.category = f.category /\ e.width = f.width
          /\ e.colour = {} /\ f.colour = {x}
      BY DEF Except, Listed
    <2> HIDE DEF e, f
    <2>2. \A p \in Products : Base(p, e) <=> Base(p, f)
      BY <2>1 DEF Base
    <2>3. ASSUME NEW p \in Products, NEW v \in product[p].variants
          PROVE  /\ WidthPath(v, e) <=> WidthPath(v, f)
                 /\ ColourPath(v, e) /\ (ColourPath(v, f) <=> x \in v.colour)
      BY <2>1 DEF WidthPath, ColourPath
    <2>4. \A p \in Products : (\E y \in found : y[1] = p) <=> Matches(p, f)
      <3>1. \A y : y \in found <=> \E p \in Products : \E v \in product[p].variants :
                      /\ y = <<p, v>> /\ Base(p, e) /\ ColourPath(v, e) /\ WidthPath(v, e)
                      /\ x \in v.colour
        BY DEF FacetRows
      <3>2. ASSUME NEW p \in Products
            PROVE  (\E y \in found : y[1] = p) <=>
                     \E v \in product[p].variants :
                       Base(p, e) /\ ColourPath(v, e) /\ WidthPath(v, e) /\ x \in v.colour
        <4> HIDE DEF found
        <4>1. ASSUME NEW y \in found, y[1] = p
              PROVE  \E v \in product[p].variants :
                       Base(p, e) /\ ColourPath(v, e) /\ WidthPath(v, e) /\ x \in v.colour
          BY <3>1, <4>1
        <4>2. ASSUME NEW v \in product[p].variants,
                     Base(p, e) /\ ColourPath(v, e) /\ WidthPath(v, e) /\ x \in v.colour
              PROVE  \E y \in found : y[1] = p
          <5>1. <<p, v>> \in found
            BY <3>1, <4>2
          <5> QED  BY <5>1
        <4> QED  BY <4>1, <4>2
      <3> HIDE DEF found
      <3> QED  BY <2>2, <2>3, <3>2 DEF Matches, AttrPaths
    <2>5. \A y \in found : y[1] \in Products
      BY DEF FacetRows
    <2> HIDE DEF found
    <2>6. {y[1] : y \in found} = {p \in Products : Matches(p, f)}
      BY <2>4, <2>5
    <2>7. FacetCount(q, x) = Cardinality({y[1] : y \in found})
      BY DEF FacetCount, found, e
    <2> QED  BY <2>6, <2>7 DEF CountProducts, f
  <1> DEFINE e == Except(q, "width")
             found == {y[2].width : y \in FacetRows(e)} \ {NoWidth}
             Offers(p, v) == v \in product[p].variants /\ Base(p, q) /\ ColourPath(v, q) /\ v.width # NoWidth
  <1>2. ASSUME NEW w, w # NoWidth, NEW p \in Products
        PROVE  Matches(p, with(w)) <=>
                 \E v \in product[p].variants : Offers(p, v) /\ BoundConds(v.width, w[1], w[2])
    <2>1. with(w).width = w /\ with(w).colour = q.colour /\ with(w).public = q.public
          /\ with(w).category = q.category
      BY DEF Listed
    <2> HIDE DEF with, q
    <2> QED  BY <1>2, <2>1 DEF Matches, Base, AttrPaths, ColourPath, WidthPath
  <1>3. \A w : w \in found <=> \E p \in Products : \E v \in product[p].variants : Offers(p, v) /\ w = v.width
    <2>1. e.width = NoWidth /\ e.colour = q.colour /\ e.public = q.public /\ e.category = q.category
      BY DEF Except, Listed
    <2> HIDE DEF e, q
    <2>2. \A p \in Products : Base(p, e) <=> Base(p, q)
      BY <2>1 DEF Base
    <2>3. \A v : WidthPath(v, e) /\ (ColourPath(v, e) <=> ColourPath(v, q))
      BY <2>1 DEF WidthPath, ColourPath
    <2>4. \A y : y \in FacetRows(e) <=>
                   \E p \in Products : \E v \in product[p].variants :
                     y = <<p, v>> /\ Base(p, q) /\ ColourPath(v, q)
      BY <2>2, <2>3 DEF FacetRows
    <2>5. ASSUME NEW w \in found
          PROVE  \E p \in Products : \E v \in product[p].variants : Offers(p, v) /\ w = v.width
      <3>1. PICK y \in FacetRows(e) : w = y[2].width
        OBVIOUS
      <3> QED  BY <2>4, <3>1
    <2>6. ASSUME NEW p \in Products, NEW v \in product[p].variants, Offers(p, v)
          PROVE  v.width \in found
      <3>1. <<p, v>> \in FacetRows(e)
        BY <2>4, <2>6
      <3> QED  BY <2>6, <3>1
    <2> QED  BY <2>5, <2>6
  <1>4. found \in SUBSET Widths
    BY <1>0, <1>3 DEF Variant
  <1>5. r = IF found = {} THEN NoWidth
            ELSE <<CHOOSE n \in {w[1] : w \in found} : \A w \in found : n <= w[1],
                   CHOOSE n \in {w[2] : w \in found} : \A w \in found : n >= w[2]>>
    BY DEF FacetRange
  <1>6. \A w : at(w) = Cardinality(listed(w))
    BY DEF CountProducts
  <1>7. \A w : IsFiniteSet(listed(w)) /\ (listed(w) # {} => at(w) > 0)
    <2>1. IsFiniteSet(Products)
      <3>1. NProducts \in Nat
        BY CatalogAssumption
      <3> QED  BY <3>1, FS_Interval DEF Products
    <2>2. ASSUME NEW w
          PROVE  IsFiniteSet(listed(w)) /\ (listed(w) # {} => at(w) > 0)
      <3>1. IsFiniteSet(listed(w))
        BY <2>1, FS_Subset
      <3>2. Cardinality(listed(w)) \in Nat /\ (Cardinality(listed(w)) = 0 <=> listed(w) = {})
        BY <3>1, FS_CardinalityType, FS_EmptySet
      <3> HIDE DEF listed, at
      <3> QED  BY <1>6, <3>1, <3>2
    <2> QED  BY <2>2
  <1>8. \A w : w # NoWidth =>
          listed(w) = {p \in Products : \E v \in product[p].variants :
                         Offers(p, v) /\ BoundConds(v.width, w[1], w[2])}
    BY <1>2
  <1> HIDE DEF q, r, at, listed, found, e, Offers, with
  <1>9. ASSUME r = NoWidth
        PROVE  at(<<1, MaxWidth>>) = 0
    <2>1. found = {}
      BY <1>4, <1>5, <1>9, RangeIs DEF NoWidth
    <2>2. listed(<<1, MaxWidth>>) = {}
      BY <1>3, <1>8, <2>1 DEF NoWidth
    <2> QED  BY <1>6, <2>2, FS_EmptySet
  <1>10. ASSUME r # NoWidth
         PROVE  at(r) = at(<<1, MaxWidth>>) /\ at(<<r[1], r[1]>>) > 0 /\ at(<<r[2], r[2]>>) > 0
    <2>1. found # {}
      BY <1>5, <1>10
    <2>2. /\ r \in Nat \X Nat
          /\ \E w \in found : w[1] = r[1]
          /\ \E w \in found : w[2] = r[2]
          /\ \A w \in found : r[1] <= w[1] /\ w[2] <= r[2]
      BY <1>4, <1>5, <2>1, RangeIs
    <2>3. \A w \in found : w[1] \in 1..MaxWidth /\ w[2] \in 1..MaxWidth /\ w[1] <= w[2]
      BY <1>4 DEF Widths
    <2>4. MaxWidth \in Nat
      BY CatalogAssumption
    <2>5. \A w \in found : BoundConds(w, r[1], r[2]) /\ BoundConds(w, 1, MaxWidth)
      BY <2>2, <2>3, <2>4 DEF BoundConds
    <2>6. listed(r) = listed(<<1, MaxWidth>>)
      <3>1. <<1, MaxWidth>> # NoWidth
        BY DEF NoWidth
      <3>2. \A p \in Products : \A v \in product[p].variants : Offers(p, v) =>
              (BoundConds(v.width, r[1], r[2]) <=> BoundConds(v.width, 1, MaxWidth))
        BY <1>3, <2>5
      <3> QED  BY <1>8, <1>10, <3>1, <3>2
    <2>7. ASSUME NEW w \in found, NEW n \in Nat, w[1] <= n, n <= w[2]
          PROVE  at(<<n, n>>) > 0
      <3>1. BoundConds(w, n, n) /\ <<n, n>> # NoWidth
        BY <2>3, <2>7 DEF BoundConds, NoWidth
      <3>2. PICK p \in Products : \E v \in product[p].variants : Offers(p, v) /\ w = v.width
        BY <1>3
      <3>3. p \in listed(<<n, n>>)
        BY <1>8, <3>1, <3>2
      <3> QED  BY <1>7, <3>3
    <2>8. at(<<r[1], r[1]>>) > 0 /\ at(<<r[2], r[2]>>) > 0
      BY <2>2, <2>3, <2>7
    <2> QED  BY <1>6, <2>6, <2>8
  <1> QED  BY <1>1, <1>9, <1>10 DEF q, r, at

(* For any tree, products, variants and filters: the category tree promises as
   many products as the listing of the category has, a facet as many as choosing
   its value lists, and a range leaves out no product that has a value
   (visibleTree, rollUp, FacetCounts, FacetRanges). *)
THEOREM CountsAreTrue == Spec => []CountsAgree
  <1>1. ListingInv => CountsAgree
    BY TreeCountsHold, FacetCountsHold DEF ListingInv, CountsAgree
  <1> QED  BY <1>1, ListingInitially, ListingInductive, PTL DEF Spec

-----------------------------------------------------------------------------
(* The rate limiter.                                                       *)

RateTyped ==
    /\ clock \in Nat
    /\ from \in [Requests -> Clients \cup {NoClient}] /\ now \in [Requests -> Int]
    /\ tracked \subseteq Clients
    /\ tokens \in [Clients -> Int] /\ last \in [Clients -> Int]
    /\ lastSeen \in [Clients -> Int] /\ lastSweep \in Int
    /\ start \in Int /\ granted \in [Clients -> Int] /\ skew \in [Clients -> Int]

\* A handler on its way has not been so for longer than MaxDelay.
Waits == \A r \in Requests : from[r] # NoClient => now[r] <= clock /\ clock <= now[r] + MaxDelay

\* An entry of the map, with respect to the clock and to the last sweep.
Entry(c) ==
    /\ 0 <= tokens[c] /\ tokens[c] <= Full
    /\ last[c] <= clock /\ last[c] <= lastSeen[c] + MaxDelay
    /\ lastSweep <= lastSeen[c] + IdleTTL

Entries == lastSweep <= clock /\ \A c \in tracked : Entry(c)

Account(c) ==
    /\ granted[c] >= 0 /\ skew[c] >= 0
    /\ start = NotYet => granted[c] = 0
    /\ granted[c] > 0 =>
         /\ c \in tracked => granted[c] + tokens[c] + start <= Full + last[c] + skew[c]
         /\ c \notin tracked => granted[c] + MaxDelay + start <= clock + skew[c]

Accounts == start <= clock /\ \A c \in Clients : Account(c)

RateInv == RateTyped /\ Waits /\ Entries /\ Accounts

USE DEF NotYet

-----------------------------------------------------------------------------
(* A call is about a client and a time that is at most MaxDelay old. *)
LEMMA CallIsRecent ==
    ASSUME RateTyped, Waits, NEW r \in Requests, from[r] # NoClient
    PROVE  /\ from[r] \in Clients
           /\ now[r] \in Int /\ now[r] <= clock /\ clock <= now[r] + MaxDelay
  BY DEF RateTyped, Waits

(* What a call leaves in the map is typed, and Kept is part of it. *)
LEMMA KeptTracked ==
    ASSUME RateTyped, NEW t \in Int
    PROVE  Kept(t) \subseteq tracked /\ Kept(t) \subseteq Clients
  BY DEF RateTyped, Kept

(* The level of a bucket lies between empty and full; that of an entry which is
   not due for the sweep is what it held and at most what has refilled since. *)
LEMMA LevelBounds ==
    ASSUME RateTyped, Entries, NEW c \in Clients, NEW t \in Int
    PROVE  /\ Level(c, t) \in Int /\ 0 <= Level(c, t) /\ Level(c, t) <= Full
           /\ c \in Kept(t) => Level(c, t) <= tokens[c] + Ahead(t, last[c])
           /\ c \notin Kept(t) => Level(c, t) = Full
<1>1. Kept(t) \subseteq tracked
  BY KeptTracked
<1>2. tokens[c] \in Int /\ last[c] \in Int /\ t \in Int /\ Full \in Nat
  BY RateAssumption DEF RateTyped
<1>3. Ahead(t, last[c]) \in Int /\ Ahead(t, last[c]) >= 0
  BY <1>2 DEF Ahead
<1>4. CASE c \in Kept(t)
  <2>1. 0 <= tokens[c]
    BY <1>1, <1>4 DEF Entries, Entry
  <2> QED
    BY <1>2, <1>3, <1>4, <2>1 DEF Level
<1>5. CASE c \notin Kept(t)
  BY <1>2, <1>5 DEF Level
<1> QED
  BY <1>4, <1>5

-----------------------------------------------------------------------------
(* An entry that a sweep at time t drops had refilled by the time of any handler
   still on its way: forgetting it grants nothing. *)
LEMMA DroppedAccount ==
    ASSUME RateTyped, Entries, Accounts,
           NEW c \in tracked, NEW t \in Int, t <= clock, c \notin Kept(t),
           granted[c] > 0
    PROVE  granted[c] + MaxDelay + start <= clock + skew[c]
<1>1. c \in Clients
  BY DEF RateTyped
<1>2. /\ last[c] \in Int /\ lastSeen[c] \in Int /\ tokens[c] \in Int /\ granted[c] \in Int
      /\ skew[c] \in Int /\ start \in Int /\ clock \in Int
  BY <1>1 DEF RateTyped
<1>3. t - lastSeen[c] > IdleTTL
  BY <1>2, RateAssumption DEF Kept
<1>4. last[c] <= lastSeen[c] + MaxDelay /\ 0 <= tokens[c]
  BY DEF Entries, Entry
<1>5. granted[c] + tokens[c] + start <= Full + last[c] + skew[c]
  BY <1>1 DEF Accounts, Account
<1> QED
  BY <1>2, <1>3, <1>4, <1>5, RateAssumption

(* A client whose entry a call does not concern keeps its account, whether the
   call's sweep drops the entry or not. *)
LEMMA OtherAccount ==
    ASSUME RateTyped, Entries, Accounts,
           NEW c \in Clients, NEW t \in Int, t <= clock,
           NEW d \in Clients, d # c,
           tracked' = Kept(t) \cup {c}, UNCHANGED <<clock, start>>,
           tokens'[d] = tokens[d], last'[d] = last[d],
           granted'[d] = granted[d], skew'[d] = skew[d]
    PROVE  Account(d)'
<1>1. Account(d)
  BY DEF Accounts
<1>2. d \in tracked' <=> d \in Kept(t)
  OBVIOUS
<1>3. d \in Kept(t) => d \in tracked
  BY KeptTracked
<1>4. CASE d \in Kept(t)
  BY <1>1, <1>2, <1>3, <1>4 DEF Account
<1>5. CASE d \notin Kept(t) /\ d \notin tracked
  BY <1>1, <1>2, <1>5 DEF Account
<1>6. CASE d \notin Kept(t) /\ d \in tracked
  <2>1. granted[d] > 0 => granted[d] + MaxDelay + start <= clock + skew[d]
    BY <1>6, DroppedAccount
  <2> QED
    BY <1>1, <1>2, <1>6, <2>1 DEF Account
<1> QED
  BY <1>4, <1>5, <1>6

-----------------------------------------------------------------------------
(* After a call, whoever is in the map was seen within the idle time before the
   last sweep, and the last sweep was at most an interval before the call. *)
LEMMA CallSweeps ==
    ASSUME RateTyped, Entries, NEW c \in Clients, NEW t \in Int,
           t <= clock, clock <= t + MaxDelay, Tracks(c, t)
    PROVE  /\ tracked' \subseteq Clients /\ lastSeen' \in [Clients -> Int] /\ lastSweep' \in Int
           /\ lastSweep' <= clock /\ t <= lastSweep' + SweepEvery
           /\ lastSeen'[c] = t
           /\ \A d \in tracked' : lastSweep' <= lastSeen'[d] + IdleTTL
<1>1. /\ lastSweep \in Int /\ clock \in Nat /\ lastSweep <= clock /\ SweepEvery \in Nat
      /\ IdleTTL \in Nat /\ MaxDelay \in Nat /\ MaxDelay <= IdleTTL
  BY RateAssumption DEF RateTyped, Entries
<1>2. Kept(t) \subseteq tracked /\ Kept(t) \subseteq Clients
  BY KeptTracked
<1>3. lastSeen' = [lastSeen EXCEPT ![c] = t] /\ lastSeen \in [Clients -> Int]
  BY DEF Tracks, RateTyped
<1>4. tracked' = Kept(t) \cup {c}
  BY DEF Tracks
<1>5. lastSweep' \in Int /\ lastSweep' <= clock /\ t <= lastSweep' + SweepEvery
  BY <1>1 DEF Tracks, SweepDue
<1>6. lastSweep' <= lastSeen'[c] + IdleTTL
  <2>1. lastSeen'[c] = t
    BY <1>3
  <2> QED
    BY <1>1, <1>5, <2>1
<1>7. ASSUME NEW d \in Kept(t), d # c
      PROVE  lastSweep' <= lastSeen'[d] + IdleTTL
  <2>1. d \in Clients /\ d \in tracked /\ lastSeen'[d] = lastSeen[d] /\ lastSeen[d] \in Int
    BY <1>2, <1>3, <1>7
  <2>2. CASE SweepDue(t)
    <3>1. lastSweep' = t
      BY <2>2 DEF Tracks
    <3>2. t <= lastSeen[d] + IdleTTL
      BY <1>1, <2>1, <2>2 DEF Kept
    <3> QED
      BY <2>1, <3>1, <3>2
  <2>3. CASE ~ SweepDue(t)
    <3>1. lastSweep' = lastSweep
      BY <2>3 DEF Tracks
    <3>2. lastSweep <= lastSeen[d] + IdleTTL
      BY <2>1 DEF Entries, Entry
    <3> QED
      BY <2>1, <3>1, <3>2
  <2> QED
    BY <2>2, <2>3
<1> QED
  BY <1>2, <1>3, <1>4, <1>5, <1>6, <1>7

-----------------------------------------------------------------------------
(* What a client has been granted and what its bucket holds at the time of a call
   are covered by a full bucket, the time up to the call and the overtaking. *)
LEMMA LevelIsCovered ==
    ASSUME RateTyped, Entries, Accounts, NEW c \in Clients, NEW t \in Int,
           t <= clock, clock <= t + MaxDelay
    PROVE  /\ Overtaken(c, t) \in Int /\ Overtaken(c, t) >= 0
           /\ granted[c] + Level(c, t) + start <= Full + t + skew[c] + Overtaken(c, t)
<1>1. /\ clock \in Nat /\ start \in Int /\ tokens[c] \in Int /\ last[c] \in Int
      /\ granted[c] \in Int /\ skew[c] \in Int /\ start <= clock
      /\ Full \in Nat /\ MaxDelay \in Nat
  BY RateAssumption DEF RateTyped, Accounts
<1>2. /\ Level(c, t) \in Int /\ Level(c, t) <= Full
      /\ c \in Kept(t) => Level(c, t) <= tokens[c] + Ahead(t, last[c])
  BY LevelBounds
<1>3. Overtaken(c, t) \in Int /\ Overtaken(c, t) >= 0
  BY <1>1 DEF Overtaken, Ahead
<1>4. Account(c)
  BY DEF Accounts
<1>5. CASE granted[c] = 0
  <2>1. skew[c] >= 0
    BY <1>4 DEF Account
  <2> QED
    BY <1>1, <1>2, <1>3, <1>5, <2>1 DEF Overtaken, Ahead
<1>6. CASE granted[c] # 0 /\ c \in Kept(t)
  <2>1. c \in tracked
    BY <1>6, KeptTracked
  <2>2. granted[c] + tokens[c] + start <= Full + last[c] + skew[c]
    BY <1>1, <1>4, <1>6, <2>1 DEF Account
  <2> QED
    BY <1>1, <1>2, <1>3, <1>6, <2>2 DEF Overtaken, Ahead
<1>7. CASE granted[c] # 0 /\ c \notin Kept(t)
  <2>1. granted[c] > 0
    BY <1>1, <1>4, <1>7 DEF Account
  <2>2. CASE c \in tracked
    <3>1. granted[c] + MaxDelay + start <= clock + skew[c]
      BY <1>7, <2>1, <2>2, DroppedAccount
    <3> QED
      BY <1>1, <1>2, <1>3, <3>1
  <2>3. CASE c \notin tracked
    <3>1. granted[c] + MaxDelay + start <= clock + skew[c]
      BY <1>4, <2>1, <2>3 DEF Account
    <3> QED
      BY <1>1, <1>2, <1>3, <3>1
  <2> QED
    BY <2>2, <2>3
<1> QED
  BY <1>3, <1>5, <1>6, <1>7

(* A grant is paid from the bucket. *)
LEMMA GrantIsPaid ==
    ASSUME NEW g \in Int, NEW l \in Int, NEW s \in Int, NEW t \in Int, NEW k \in Int,
           NEW o \in Int, NEW n \in Int, NEW f \in Int, g + l + s <= f + t + k + o
    PROVE  (g + n) + (l - n) + s <= f + t + (k + o)
  OBVIOUS

(* A call that takes a token leaves the client's account balanced, and the others
   as they were. *)
LEMMA AdmitAccounts ==
    ASSUME RateTyped, Entries, Accounts, NEW c \in Clients, NEW t \in Int,
           t <= clock, clock <= t + MaxDelay, Level(c, t) >= Cost,
           Tracks(c, t), UNCHANGED <<clock, start>>,
           tokens' = [tokens EXCEPT ![c] = Level(c, t) - Cost],
           last' = [last EXCEPT ![c] = t],
           NEW g \in Int, NEW k \in Int,
           granted' = [granted EXCEPT ![c] = g], skew' = [skew EXCEPT ![c] = k],
           start = NotYet => g = granted[c] /\ k = skew[c],
           start # NotYet => g = granted[c] + Cost /\ k = skew[c] + Overtaken(c, t)
    PROVE  \A d \in Clients : Account(d)'
<1>1. Account(c)
  BY DEF Accounts
<1>2. tracked' = Kept(t) \cup {c}
  BY DEF Tracks
<1>3. /\ granted[c] \in Int /\ skew[c] \in Int /\ start \in Int
      /\ Cost \in Nat /\ Full \in Nat /\ Level(c, t) \in Int
  BY RateAssumption, LevelBounds DEF RateTyped
<1>4. /\ Overtaken(c, t) \in Int /\ Overtaken(c, t) >= 0
      /\ granted[c] + Level(c, t) + start <= Full + t + skew[c] + Overtaken(c, t)
  BY LevelIsCovered
<1>5. g >= 0 /\ k >= 0 /\ (start = NotYet => g = 0)
  BY <1>1, <1>3, <1>4 DEF Account
<1>6. start # NotYet => g + (Level(c, t) - Cost) + start <= Full + t + k
  BY <1>3, <1>4, GrantIsPaid
<1>7. c \in tracked' /\ tokens'[c] = Level(c, t) - Cost /\ last'[c] = t /\ granted'[c] = g /\ skew'[c] = k
  BY <1>2 DEF RateTyped
<1>8. Account(c)'
  BY <1>5, <1>6, <1>7 DEF Account
<1>9. ASSUME NEW d \in Clients, d # c
      PROVE  Account(d)'
  <2>1. tokens'[d] = tokens[d] /\ last'[d] = last[d] /\ granted'[d] = granted[d] /\ skew'[d] = skew[d]
    BY <1>9 DEF RateTyped
  <2> QED
    BY <1>2, <1>9, <2>1, OtherAccount
<1> QED
  BY <1>8, <1>9

(* A call that is refused takes nothing from anyone. *)
LEMMA RejectAccounts ==
    ASSUME RateTyped, Entries, Accounts, NEW c \in Clients, NEW t \in Int,
           t <= clock, Level(c, t) < Cost,
           Tracks(c, t), UNCHANGED <<clock, tokens, last, start, granted, skew>>
    PROVE  /\ c \in Kept(t)
           /\ \A d \in Clients : Account(d)'
<1>1. c \in Kept(t)
  BY RateAssumption, LevelBounds
<1>2. tracked' = Kept(t) \cup {c} /\ c \in tracked /\ c \in tracked'
  BY <1>1, KeptTracked DEF Tracks
<1>3. Account(c)'
  <2>1. Account(c)
    BY DEF Accounts
  <2> QED
    BY <1>2, <2>1 DEF Account
<1>4. ASSUME NEW d \in Clients, d # c
      PROVE  Account(d)'
  BY <1>2, <1>4, OtherAccount
<1> QED
  BY <1>1, <1>3, <1>4

-----------------------------------------------------------------------------
(* The calls preserve the invariant. *)
LEMMA AdmitStep ==
    ASSUME RateInv, NEW r \in Requests, Admit(r)
    PROVE  RateInv'
<1> DEFINE c == from[r]
           t == now[r]
<1>1. RateTyped /\ Waits /\ Entries /\ Accounts
  BY DEF RateInv
<1>2. c \in Clients /\ t \in Int /\ t <= clock /\ clock <= t + MaxDelay
  BY <1>1, CallIsRecent DEF Admit
<1>3. /\ Tracks(c, t) /\ Level(c, t) >= Cost /\ UNCHANGED <<clock, start>>
      /\ tokens' = [tokens EXCEPT ![c] = Level(c, t) - Cost]
      /\ last' = [last EXCEPT ![c] = t]
      /\ IF start = NotYet THEN UNCHANGED <<granted, skew>>
         ELSE /\ granted' = [granted EXCEPT ![c] = @ + Cost]
              /\ skew' = [skew EXCEPT ![c] = @ + Overtaken(c, t)]
      /\ from' = [from EXCEPT ![r] = NoClient] /\ now' = [now EXCEPT ![r] = 0]
  BY DEF Admit, Answer
<1> HIDE DEF c, t
<1>4. /\ clock \in Nat /\ Cost \in Nat /\ 0 < Cost /\ MaxDelay \in Nat
      /\ Level(c, t) \in Int /\ Level(c, t) <= Full
      /\ Overtaken(c, t) \in Int /\ granted[c] \in Int /\ skew[c] \in Int
  BY <1>1, <1>2, RateAssumption, LevelBounds, LevelIsCovered DEF RateTyped
<1>5. /\ tracked' \subseteq Clients /\ lastSeen' \in [Clients -> Int] /\ lastSweep' \in Int
      /\ lastSweep' <= clock /\ lastSeen'[c] = t
      /\ \A d \in tracked' : lastSweep' <= lastSeen'[d] + IdleTTL
  BY <1>1, <1>2, <1>3, CallSweeps
<1>6. PICK g \in Int, k \in Int :
        /\ granted' = [granted EXCEPT ![c] = g] /\ skew' = [skew EXCEPT ![c] = k]
        /\ start = NotYet => g = granted[c] /\ k = skew[c]
        /\ start # NotYet => g = granted[c] + Cost /\ k = skew[c] + Overtaken(c, t)
  <2>1. CASE start = NotYet
    <3>1. granted' = [granted EXCEPT ![c] = granted[c]] /\ skew' = [skew EXCEPT ![c] = skew[c]]
      BY <1>1, <1>3, <2>1 DEF RateTyped
    <3> QED
      BY <1>4, <2>1, <3>1
  <2>2. CASE start # NotYet
    BY <1>3, <1>4, <2>2
  <2> QED
    BY <2>1, <2>2
<1>7. RateTyped'
  BY <1>1, <1>2, <1>3, <1>4, <1>5, <1>6 DEF RateTyped
<1>8. Waits'
  BY <1>1, <1>3 DEF Waits, RateTyped
<1>9. ASSUME NEW d \in tracked'
      PROVE  Entry(d)'
  <2>1. CASE d = c
    <3>1. tokens'[c] = Level(c, t) - Cost /\ last'[c] = t
      BY <1>1, <1>2, <1>3 DEF RateTyped
    <3>2. 0 <= Level(c, t) - Cost /\ Level(c, t) - Cost <= Full
      BY <1>3, <1>4, RateAssumption
    <3>3. t <= t + MaxDelay
      BY <1>2, <1>4
    <3> QED
      BY <1>2, <1>3, <1>5, <1>9, <2>1, <3>1, <3>2, <3>3 DEF Entry
  <2>2. CASE d # c
    <3>1. d \in tracked /\ d \in Clients
      BY <1>1, <1>2, <1>3, <1>9, <2>2, KeptTracked DEF Tracks
    <3>2. tokens'[d] = tokens[d] /\ last'[d] = last[d] /\ lastSeen'[d] = lastSeen[d]
      BY <1>1, <1>3, <2>2, <3>1 DEF RateTyped, Tracks
    <3> QED
      BY <1>1, <1>3, <1>5, <1>9, <3>1, <3>2 DEF Entry, Entries
  <2> QED
    BY <2>1, <2>2
<1>10. Entries'
  BY <1>3, <1>5, <1>9 DEF Entries
<1>11. Accounts'
  <2>1. \A d \in Clients : Account(d)'
    BY <1>1, <1>2, <1>3, <1>6, AdmitAccounts
  <2> QED
    BY <1>1, <1>3, <2>1 DEF Accounts
<1> QED
  BY <1>7, <1>8, <1>10, <1>11 DEF RateInv

LEMMA RejectStep ==
    ASSUME RateInv, NEW r \in Requests, Reject(r)
    PROVE  RateInv'
<1> DEFINE c == from[r]
           t == now[r]
<1>1. RateTyped /\ Waits /\ Entries /\ Accounts
  BY DEF RateInv
<1>2. c \in Clients /\ t \in Int /\ t <= clock /\ clock <= t + MaxDelay
  BY <1>1, CallIsRecent DEF Reject
<1>3. /\ Tracks(c, t) /\ Level(c, t) < Cost
      /\ UNCHANGED <<clock, tokens, last, start, granted, skew>>
      /\ from' = [from EXCEPT ![r] = NoClient] /\ now' = [now EXCEPT ![r] = 0]
  BY DEF Reject, Answer, history
<1> HIDE DEF c, t
<1>4. /\ tracked' \subseteq Clients /\ lastSeen' \in [Clients -> Int] /\ lastSweep' \in Int
      /\ lastSweep' <= clock /\ lastSeen'[c] = t
      /\ \A d \in tracked' : lastSweep' <= lastSeen'[d] + IdleTTL
  BY <1>1, <1>2, <1>3, CallSweeps
<1>5. c \in Kept(t) /\ \A d \in Clients : Account(d)'
  BY <1>1, <1>2, <1>3, RejectAccounts
<1>6. RateTyped'
  BY <1>1, <1>3, <1>4 DEF RateTyped
<1>7. Waits'
  BY <1>1, <1>3 DEF Waits, RateTyped
<1>8. ASSUME NEW d \in tracked'
      PROVE  Entry(d)'
  <2>1. d \in tracked /\ d \in Clients
    BY <1>1, <1>2, <1>3, <1>5, <1>8, KeptTracked DEF Tracks
  <2>2. Entry(d)
    BY <1>1, <2>1 DEF Entries
  <2>3. last[d] <= lastSeen'[d] + MaxDelay
    <3>1. /\ clock \in Nat /\ last[d] \in Int /\ MaxDelay \in Nat /\ last[d] <= clock
      BY <1>1, <2>1, <2>2, RateAssumption DEF RateTyped, Entry
    <3>2. CASE d = c
      BY <1>2, <1>4, <3>1, <3>2
    <3>3. CASE d # c
      <4>1. lastSeen'[d] = lastSeen[d]
        BY <1>1, <1>3, <2>1, <3>3 DEF RateTyped, Tracks
      <4> QED
        BY <2>2, <4>1 DEF Entry
    <3> QED
      BY <3>2, <3>3
  <2> QED
    BY <1>3, <1>4, <1>8, <2>2, <2>3 DEF Entry
<1>9. Entries'
  BY <1>3, <1>4, <1>8 DEF Entries
<1>10. Accounts'
  BY <1>1, <1>3, <1>5 DEF Accounts, Account
<1> QED
  BY <1>6, <1>7, <1>9, <1>10 DEF RateInv

-----------------------------------------------------------------------------
(* The invariant holds at first, and every step preserves it. *)
LEMMA RateInitially == RateInit => RateInv
<1> SUFFICES ASSUME RateInit
             PROVE  RateInv
  OBVIOUS
<1>1. RateTyped /\ Waits
  BY RateAssumption DEF RateInit, RateTyped, Waits
<1>2. Entries /\ Accounts
  BY RateAssumption DEF RateInit, Entries, Accounts, Account
<1> QED
  BY <1>1, <1>2 DEF RateInv

LEMMA RateInductive == RateInv /\ [RateNext]_rateVars => RateInv'
<1> SUFFICES ASSUME RateInv, [RateNext]_rateVars
             PROVE  RateInv'
  OBVIOUS
<1>1. RateTyped /\ Waits /\ Entries /\ Accounts /\ MaxDelay \in Nat
  BY RateAssumption DEF RateInv
<1>2. ASSUME NEW r \in Requests, NEW c \in Clients, Arrive(r, c)
      PROVE  RateInv'
  <2>1. UNCHANGED <<clock, limiter, history>> /\ from' = [from EXCEPT ![r] = c] /\ now' = [now EXCEPT ![r] = clock]
    BY <1>2 DEF Arrive
  <2>2. RateTyped'
    BY <1>1, <2>1 DEF RateTyped, limiter, history
  <2>3. Waits'
    BY <1>1, <2>1 DEF Waits, RateTyped
  <2>4. Entries' /\ Accounts'
    BY <1>1, <2>1 DEF Entries, Entry, Accounts, Account, limiter, history
  <2> QED
    BY <2>2, <2>3, <2>4 DEF RateInv
<1>3. ASSUME NEW r \in Requests, Admit(r) \/ Reject(r)
      PROVE  RateInv'
  BY <1>3, AdmitStep, RejectStep
<1>4. CASE Tick
  <2>1. clock' = clock + 1 /\ UNCHANGED <<pending, limiter, history>> /\ clock \in Nat
    BY <1>1, <1>4 DEF Tick, RateTyped
  <2>2. RateTyped'
    BY <1>1, <2>1 DEF RateTyped, pending, limiter, history
  <2>3. Waits'
    <3> SUFFICES ASSUME NEW r \in Requests, from[r] # NoClient
                 PROVE  now[r] <= clock + 1 /\ clock + 1 <= now[r] + MaxDelay
      BY <2>1 DEF Waits, pending
    <3>1. clock - now[r] < MaxDelay /\ now[r] <= clock /\ now[r] \in Int
      BY <1>1, <1>4 DEF Tick, Waits, RateTyped
    <3> QED
      BY <1>1, <2>1, <3>1
  <2>4. Entries'
    <3> SUFFICES ASSUME NEW c \in tracked
                 PROVE  last[c] <= clock + 1 /\ lastSweep <= clock + 1
      BY <1>1, <2>1 DEF Entries, Entry, limiter, RateTyped
    <3>1. last[c] <= clock /\ last[c] \in Int /\ lastSweep <= clock /\ lastSweep \in Int
      BY <1>1 DEF Entries, Entry, RateTyped
    <3> QED
      BY <2>1, <3>1
  <2>5. Accounts'
    <3>1. start <= clock + 1
      BY <1>1, <2>1 DEF Accounts, RateTyped
    <3>2. ASSUME NEW c \in Clients
          PROVE  Account(c)'
      <4>1. granted[c] \in Int /\ skew[c] \in Int /\ start \in Int /\ Account(c)
        BY <1>1 DEF Accounts, RateTyped
      <4> QED
        BY <1>1, <2>1, <4>1 DEF Account, limiter, history
    <3> QED
      BY <2>1, <3>1, <3>2 DEF Accounts, history
  <2> QED
    BY <2>2, <2>3, <2>4, <2>5 DEF RateInv
<1>5. CASE Observe
  <2>1. start = NotYet /\ start' = clock /\ UNCHANGED <<clock, pending, limiter, granted, skew>>
    BY <1>5 DEF Observe
  <2>2. RateTyped' /\ Waits' /\ Entries'
    BY <1>1, <2>1 DEF RateTyped, Waits, Entries, Entry, pending, limiter
  <2>3. Accounts'
    BY <1>1, <2>1 DEF Accounts, Account, RateTyped
  <2> QED
    BY <2>2, <2>3 DEF RateInv
<1>6. CASE UNCHANGED rateVars
  BY <1>1, <1>6 DEF RateInv, RateTyped, Waits, Entries, Entry, Accounts, Account, rateVars, pending, limiter, history
<1> QED
  BY <1>2, <1>3, <1>4, <1>5, <1>6 DEF RateNext

-----------------------------------------------------------------------------
(* What the rate limiter promises: a full bucket and what refills, whatever is
   swept, and more only by as much as requests overtake one another. *)
THEOREM KeepsTheRate == RateSpec => []RateIsKept
<1>1. RateInv => RateIsKept
  <2> SUFFICES ASSUME RateInv, NEW c \in Clients, granted[c] > 0
               PROVE  granted[c] <= Full + (clock - start) + skew[c]
    BY DEF RateIsKept
  <2>1. /\ clock \in Nat /\ start \in Int /\ tokens[c] \in Int /\ last[c] \in Int
        /\ granted[c] \in Int /\ skew[c] \in Int /\ Full \in Nat /\ MaxDelay \in Nat
    BY RateAssumption DEF RateInv, RateTyped
  <2>2. Account(c)
    BY DEF RateInv, Accounts
  <2>3. CASE c \in tracked
    <3>1. 0 <= tokens[c] /\ last[c] <= clock
      BY <2>3 DEF RateInv, Entries, Entry
    <3>2. granted[c] + tokens[c] + start <= Full + last[c] + skew[c]
      BY <2>2, <2>3 DEF Account
    <3> QED
      BY <2>1, <3>1, <3>2
  <2>4. CASE c \notin tracked
    <3>1. granted[c] + MaxDelay + start <= clock + skew[c]
      BY <2>2, <2>4 DEF Account
    <3> QED
      BY <2>1, <3>1
  <2> QED
    BY <2>3, <2>4
<1> QED
  BY <1>1, RateInitially, RateInductive, PTL DEF RateSpec

(* What keeps the map small: a call forgets whoever has been idle for longer
   than the idle time and one sweep interval. *)
THEOREM ForgetsTheIdle == RateSpec => IdleAreForgotten
<1>1. RateInv /\ [RateNext]_rateVars =>
        [\A r \in Requests : from[r] # NoClient /\ from'[r] = NoClient =>
           \A c \in tracked' : now[r] - lastSeen'[c] <= IdleTTL + SweepEvery]_rateVars
  <2> SUFFICES ASSUME RateInv, [RateNext]_rateVars,
                      NEW r \in Requests, from[r] # NoClient, from'[r] = NoClient,
                      NEW c \in tracked'
               PROVE  now[r] - lastSeen'[c] <= IdleTTL + SweepEvery
    OBVIOUS
  <2>1. RateTyped /\ Waits /\ Entries /\ RateTyped' /\ SweepEvery \in Nat /\ IdleTTL \in Nat
    BY RateInductive, RateAssumption DEF RateInv
  <2>2. from[r] \in Clients /\ now[r] \in Int /\ now[r] <= clock /\ clock <= now[r] + MaxDelay
    BY <2>1, CallIsRecent
  <2>3. Tracks(from[r], now[r])
    <3>1. ASSUME NEW q \in Requests, NEW d \in Clients, Arrive(q, d)
          PROVE  FALSE
      BY <2>1, <3>1, RateAssumption DEF Arrive, RateTyped
    <3>2. ASSUME NEW q \in Requests, Admit(q) \/ Reject(q)
          PROVE  q = r /\ Tracks(from[q], now[q])
      BY <2>1, <3>2 DEF Admit, Reject, Answer, RateTyped
    <3>3. ~ Tick /\ ~ Observe /\ ~ UNCHANGED rateVars
      BY DEF Tick, Observe, rateVars, pending
    <3> QED
      BY <3>1, <3>2, <3>3 DEF RateNext
  <2>4. now[r] <= lastSweep' + SweepEvery /\ lastSweep' <= lastSeen'[c] + IdleTTL
    BY <2>1, <2>2, <2>3, CallSweeps
  <2>5. lastSweep' \in Int /\ lastSeen'[c] \in Int
    BY <2>1 DEF RateTyped
  <2>6. now[r] <= lastSeen'[c] + IdleTTL + SweepEvery
    BY <2>1, <2>2, <2>4, <2>5
  <2> QED
    BY <2>1, <2>2, <2>5, <2>6
<1> QED
  BY <1>1, RateInitially, RateInductive, PTL DEF RateSpec, IdleAreForgotten

-----------------------------------------------------------------------------
(* Media.                                                                  *)

RunPlaces == {"idle", "load", "mark", "open", "decode", "put",
           "succeeded", "failed", "permanent"}

\* What a run has written is in the store, and it writes only what decodes.
Written(w) ==
    /\ 1..put[w] \subseteq blobs
    /\ pc[w] = "put" \/ put[w] # 0 => decodable

MediaInv ==
    /\ pc \in [Workers -> RunPlaces] /\ put \in [Workers -> Nat]
    /\ blobs \subseteq Media!Widths /\ renditions \in {{}, Media!Widths}
    /\ \A w \in Workers : Written(w)
    /\ Media!ShownIsServable

LEMMA MediaInitially == Media!Init => MediaInv
  <1> SUFFICES ASSUME Media!Init
               PROVE  MediaInv
    OBVIOUS
  <1>1. 1..0 = {}
    OBVIOUS
  <1>2. \A w \in Workers : Written(w)
    BY <1>1 DEF Media!Init, Written
  <1>3. pc \in [Workers -> RunPlaces] /\ put \in [Workers -> Nat]
    BY DEF Media!Init, RunPlaces
  <1> QED  BY <1>2, <1>3 DEF Media!Init, MediaInv, Media!ShownIsServable

\* A step that writes no rendition and records none.
LEMMA MediaGoesOn ==
    ASSUME MediaInv, NEW w \in Workers, NEW place \in RunPlaces,
           pc' = [pc EXCEPT ![w] = place], place = "put" => decodable,
           put' = put \/ put' = [put EXCEPT ![w] = 0],
           asset' = "ready" => asset = "ready", UNCHANGED <<decodable, blobs, renditions>>
    PROVE  MediaInv'
  <1>1. pc' \in [Workers -> RunPlaces] /\ put' \in [Workers -> Nat]
    BY DEF MediaInv
  <1>2. ASSUME NEW v \in Workers
        PROVE  /\ put'[v] = put[v] \/ put'[v] = 0
               /\ pc'[v] = pc[v] \/ pc'[v] = place
    BY DEF MediaInv
  <1>3. ASSUME NEW v \in Workers
        PROVE  Written(v)'
    <2>1. Written(v) /\ 1..0 = {}
      BY DEF MediaInv
    <2>2. CASE put'[v] = put[v]
      BY <1>2, <2>1, <2>2 DEF Written
    <2>3. CASE put'[v] = 0
      BY <1>2, <2>1, <2>3 DEF Written
    <2> QED  BY <1>2, <2>2, <2>3
  <1>4. Media!ShownIsServable'
    BY DEF MediaInv, Media!ShownIsServable, Media!Widths
  <1> QED  BY <1>1, <1>3, <1>4 DEF MediaInv, Media!Widths

LEMMA MediaPuts ==
    ASSUME MediaAssetsAssumption, MediaInv, NEW w \in Workers, Media!PutRendition(w)
    PROVE  MediaInv'
  <1> DEFINE n == put[w] + 1
  <1>1. /\ NWidths \in Nat /\ n \in Media!Widths
        /\ put' = [put EXCEPT ![w] = n] /\ blobs' = blobs \cup {n}
        /\ decodable /\ UNCHANGED <<decodable, asset, renditions, pc>>
    BY DEF Media!PutRendition, MediaAssetsAssumption, MediaInv, Written, Media!Widths
  <1>2. ASSUME NEW v \in Workers
        PROVE  Written(v)'
    <2>1. put'[v] = IF v = w THEN n ELSE put[v]
      BY <1>1 DEF MediaInv
    <2>2. Written(v) /\ 1..n = 1..put[w] \cup {n}
      BY DEF MediaInv
    <2> QED  BY <1>1, <2>1, <2>2 DEF Written
  <1>3. renditions # {} => blobs' = blobs
    BY <1>1 DEF MediaInv, Media!ShownIsServable
  <1>4. Media!ShownIsServable'
    BY <1>1, <1>3 DEF MediaInv, Media!ShownIsServable, Media!Widths
  <1>5. blobs' \subseteq Media!Widths' /\ renditions' \in {{}, Media!Widths'}
    BY <1>1 DEF MediaInv, Media!Widths
  <1>6. pc' \in [Workers -> RunPlaces] /\ put' \in [Workers -> Nat]
    BY <1>1 DEF MediaInv, Media!Widths
  <1> QED  BY <1>2, <1>4, <1>5, <1>6 DEF MediaInv

LEMMA MediaRecords ==
    ASSUME MediaInv, NEW w \in Workers, Media!RecordReady(w)
    PROVE  MediaInv'
  <1>1. /\ pc[w] = "put" /\ put[w] = NWidths /\ renditions' = Media!Widths
        /\ pc' = [pc EXCEPT ![w] = "succeeded"] /\ UNCHANGED <<decodable, blobs, put>>
    BY DEF Media!RecordReady, Media!RecordRows, Media!Goes
  <1>2. blobs = Media!Widths /\ decodable
    BY <1>1 DEF MediaInv, Written, Media!Widths
  <1>3. \A v \in Workers : Written(v)'
    BY <1>1, <1>2 DEF MediaInv, Written
  <1>4. Media!ShownIsServable'
    BY <1>1, <1>2 DEF Media!ShownIsServable, Media!Widths
  <1>5. blobs' \subseteq Media!Widths' /\ renditions' \in {{}, Media!Widths'}
    BY <1>1 DEF MediaInv, Media!Widths
  <1>6. pc' \in [Workers -> RunPlaces] /\ put' \in [Workers -> Nat]
    BY <1>1 DEF MediaInv, RunPlaces
  <1> QED  BY <1>3, <1>4, <1>5, <1>6 DEF MediaInv

LEMMA MediaInductive ==
    ASSUME MediaAssetsAssumption, MediaInv, [Media!Next]_Media!vars
    PROVE  MediaInv'
  <1>1. UNCHANGED <<decodable, asset, renditions, blobs, pc, put>> => MediaInv'
    BY DEF MediaInv, Written, Media!ShownIsServable, Media!Widths
  <1>2. ASSUME NEW u \in Uploads, Media!UploadStep(u)
        PROVE  MediaInv'
    <2>1. UNCHANGED <<decodable, renditions, blobs, pc, put>> /\ (asset' = asset \/ asset' = "pending")
      BY <1>2 DEF Media!UploadStep, Media!Dedupe, Media!NotSeenYet, Media!PutOriginal,
         Media!InsertPending, Media!InsertFinds, Media!UploadFails, Media!UploadGoes,
         Media!Inserted, Media!store, Media!workerVars
    <2> QED  BY <2>1 DEF MediaInv, Written, Media!ShownIsServable, Media!Widths
  <1>3. ASSUME NEW w \in Workers,
               Media!HandlerStep(w) \/ Media!RunFails(w) \/ Media!Record(w) \/ Media!Crash(w)
                 \/ \E j \in Media!Jobs : Media!Claim(w, j)
        PROVE  MediaInv'
    <2>1. CASE Media!PutRendition(w)
      BY <2>1, MediaPuts
    <2>2. CASE Media!RecordReady(w)
      BY <2>2, MediaRecords
    <2>3. CASE ~ Media!PutRendition(w) /\ ~ Media!RecordReady(w)
      <3> DEFINE Goes(place) ==
              /\ pc' = [pc EXCEPT ![w] = place]
              /\ put' = put \/ put' = [put EXCEPT ![w] = 0]
              /\ asset' = "ready" => asset = "ready"
              /\ UNCHANGED <<decodable, blobs, renditions>>
      <3>1. CASE Media!RunFails(w) \/ Media!Record(w) \/ Media!Crash(w)
                   \/ \E j \in Media!Jobs : Media!Claim(w, j)
        <4>1. \E place \in RunPlaces \ {"put"} : Goes(place)
          BY <3>1 DEF Media!RunFails, Media!Record, Media!Crash, Media!Claim, Media!Goes,
             Media!Release, Media!store, RunPlaces
        <4> QED  BY <4>1, MediaGoesOn
      <3>2. CASE Media!AlreadyReady(w) \/ Media!LoadAsset(w) \/ Media!MarkProcessing(w)
                   \/ Media!OpenOriginal(w) \/ Media!DecodeFails(w)
        <4>1. \E place \in RunPlaces \ {"put"} : Goes(place)
          BY <3>2 DEF Media!AlreadyReady, Media!LoadAsset, Media!MarkProcessing,
             Media!OpenOriginal, Media!DecodeFails, Media!Goes, Media!store, RunPlaces
        <4> QED  BY <4>1, MediaGoesOn
      <3>3. CASE Media!Decode(w)
        <4>1. "put" \in RunPlaces /\ Goes("put") /\ decodable
          BY <3>3 DEF Media!Decode, Media!Goes, Media!store, RunPlaces
        <4> QED  BY <4>1, MediaGoesOn
      <3> QED  BY <1>3, <2>3, <3>1, <3>2, <3>3 DEF Media!HandlerStep
    <2> QED  BY <2>1, <2>2, <2>3
  <1>4. ASSUME NEW j \in Media!Jobs, Media!Reap(j)
        PROVE  MediaInv'
    BY <1>1, <1>4 DEF Media!Reap, Media!store, Media!workerVars
  <1>5. CASE UNCHANGED Media!vars
    BY <1>1, <1>5 DEF Media!vars, Media!store, Media!workerVars
  <1> QED  BY <1>2, <1>3, <1>4, <1>5 DEF Media!Next

(* What the site shows can be served: however many runs work on an asset, whichever *)
(* of them fail or die half-way, its rows are recorded only when all its renditions *)
(* are in the blob store ("a crash in between just means a retry overwrites").      *)
THEOREM WhatIsShownIsServed == MediaSpec => []ShownIsServable
  <1>1. MediaInv => ShownIsServable
    BY DEF MediaInv, ShownIsServable
  <1> QED  BY <1>1, MediaInitially, MediaInductive, MediaAssetsAssumption, PTL DEF MediaSpec, Media!Spec

-----------------------------------------------------------------------------
(* The life of a media job.                                                *)

\* A row that waits has attempts left.
MediaRow == {r \in [state : Media!JobState, attempts : 0..MaxAttempts, age : Int, due : Int] :
               r.state = "queued" => r.attempts < MaxAttempts}

\* JobLife's step, seen by one row.
MediaMove(r, s) ==
    \/ r.state = "absent" /\ s.state = "queued" /\ s.attempts = 0
    \/ /\ r.state = "queued" /\ r.attempts < MaxAttempts
       /\ s.state = "running" /\ s.attempts = r.attempts + 1
    \/ r.state = "running" /\ s.state \in {"done", "failed"} /\ s.attempts = r.attempts
    \/ /\ r.state = "running" /\ s.attempts = r.attempts
       /\ s.state = IF r.attempts < MaxAttempts THEN "queued" ELSE "dead"
    \/ s.state = r.state /\ s.attempts = r.attempts

MediaLives(r, s) == s \in MediaRow /\ MediaMove(r, s)

\* An upload queues its job with its last step.
QueuesLast ==
    \A u \in Uploads : upload[u] # "done" => job[u].state = "absent"

\* A worker that runs a job holds a running row, and holds it alone.
MediaHeldAlone ==
    /\ \A w \in Workers : IF pc[w] = "idle" THEN held[w] = NoJob
                          ELSE held[w] \in Uploads /\ job[held[w]].state = "running"
    /\ \A v, w \in Workers : held[v] = held[w] /\ held[v] # NoJob => v = w

MediaTyped ==
    /\ pc \in [Workers -> RunPlaces] /\ held \in [Workers -> Uploads \cup {NoJob}]
    /\ upload \in [Uploads -> {"new", "put", "insert", "done"}]

MediaJobsInv ==
    /\ MediaTyped /\ job \in [Uploads -> MediaRow]
    /\ MediaHeldAlone /\ QueuesLast

LEMMA MediaRowsLive ==
    ASSUME MediaAssetsAssumption, NEW r \in MediaRow
    PROVE  /\ MediaLives(r, r)
           /\ r.state = "absent" => MediaLives(r, Media!Enqueued)
           /\ Media!Runnable(r) => MediaLives(r, Media!Claimed(r))
           /\ Media!Enqueued.state = "queued" /\ Media!Claimed(r).state = "running"
           /\ r.state = "running" =>
                /\ MediaLives(r, Media!Reaped(r)) /\ MediaLives(r, Media!Retried(r, 0))
                /\ MediaLives(r, Media!Completed(r)) /\ MediaLives(r, Media!Failed(r))
  <1> USE DEF MediaAssetsAssumption, MediaRow, Media!JobState, Media!Final,
              Media!Updated, MediaLives, MediaMove
  <1>1. MediaLives(r, r)
    OBVIOUS
  <1>2. Media!Enqueued.state = "queued" /\ (r.state = "absent" => MediaLives(r, Media!Enqueued))
    BY DEF Media!Enqueued
  <1>3. Media!Claimed(r).state = "running" /\ (Media!Runnable(r) => MediaLives(r, Media!Claimed(r)))
    BY DEF Media!Runnable, Media!Claimed
  <1>4. r.state = "running" => MediaLives(r, Media!Reaped(r)) /\ MediaLives(r, Media!Retried(r, 0))
    BY DEF Media!Reaped, Media!Retried, Media!AfterAttempt, Media!Exists
  <1>5. r.state = "running" => MediaLives(r, Media!Completed(r)) /\ MediaLives(r, Media!Failed(r))
    BY DEF Media!Completed, Media!Failed, Media!Exists
  <1> QED  BY <1>1, <1>2, <1>3, <1>4, <1>5

\* A step that moves one row.
LEMMA MediaRowMoves ==
    ASSUME MediaAssetsAssumption, MediaJobsInv, NEW j \in Uploads, NEW r,
           MediaLives(job[j], r), job' = [job EXCEPT ![j] = r]
    PROVE  /\ job' \in [Uploads -> MediaRow]
           /\ \A i \in Uploads : MediaLives(job[i], job'[i])
  BY MediaRowsLive DEF MediaJobsInv, MediaLives

\* A step that leaves the rows alone and keeps every worker at its job.
LEMMA MediaRowsRest ==
    ASSUME MediaAssetsAssumption, MediaJobsInv, UNCHANGED <<job, held>>, MediaTyped',
           \A u \in Uploads : upload'[u] # "done" => upload[u] # "done",
           \A w \in Workers : pc'[w] = "idle" <=> pc[w] = "idle"
    PROVE  MediaJobsInv' /\ \A i \in Uploads : MediaLives(job[i], job'[i])
  <1>1. \A i \in Uploads : MediaLives(job[i], job'[i])
    BY MediaRowsLive DEF MediaJobsInv
  <1>2. MediaHeldAlone' /\ QueuesLast'
    BY DEF MediaJobsInv, MediaHeldAlone, QueuesLast
  <1> QED  BY <1>1, <1>2 DEF MediaJobsInv

LEMMA MediaUploads ==
    ASSUME MediaAssetsAssumption, MediaJobsInv, NEW u \in Uploads, Media!UploadStep(u)
    PROVE  MediaJobsInv' /\ \A i \in Uploads : MediaLives(job[i], job'[i])
  <1>1. CASE Media!InsertPending(u)
    <2>1. /\ job[u].state = "absent" /\ job' = [job EXCEPT ![u] = Media!Enqueued]
          /\ upload' = [upload EXCEPT ![u] = "done"] /\ UNCHANGED <<pc, held>>
      BY <1>1 DEF Media!InsertPending, Media!UploadGoes, Media!workerVars, MediaJobsInv,
         QueuesLast
    <2>2. MediaLives(job[u], Media!Enqueued)
      BY <2>1, MediaRowsLive DEF MediaJobsInv
    <2>3. /\ job' \in [Uploads -> MediaRow]
          /\ \A i \in Uploads : MediaLives(job[i], job'[i])
      BY <2>1, <2>2, MediaRowMoves
    <2>4. MediaTyped'
      BY <2>1 DEF MediaJobsInv, MediaTyped
    <2>5. QueuesLast'
      BY <2>1 DEF MediaJobsInv, MediaTyped, QueuesLast
    <2>6. MediaHeldAlone'
      <3>1. \A i \in Uploads : job[i].state = "running" => job'[i] = job[i]
        BY <2>1 DEF MediaJobsInv
      <3> QED  BY <2>1, <3>1 DEF MediaJobsInv, MediaHeldAlone
    <2> QED  BY <2>3, <2>4, <2>5, <2>6 DEF MediaJobsInv
  <1>2. CASE ~ Media!InsertPending(u)
    <2>1. /\ UNCHANGED <<job, pc, held>> /\ upload[u] # "done"
          /\ \E to \in {"put", "insert", "done"} : upload' = [upload EXCEPT ![u] = to]
      BY <1>2 DEF Media!UploadStep, Media!Dedupe, Media!NotSeenYet, Media!PutOriginal,
         Media!InsertFinds, Media!UploadFails, Media!UploadGoes, Media!workerVars
    <2>2. MediaTyped'
      BY <2>1 DEF MediaJobsInv, MediaTyped
    <2>3. \A v \in Uploads : upload'[v] # "done" => upload[v] # "done"
      BY <2>1 DEF MediaJobsInv, MediaTyped
    <2> QED  BY <2>1, <2>2, <2>3, MediaRowsRest
  <1> QED  BY <1>1, <1>2

LEMMA MediaWorks ==
    ASSUME MediaAssetsAssumption, MediaJobsInv, NEW w \in Workers,
           \/ Media!HandlerStep(w) \/ Media!RunFails(w) \/ Media!Record(w) \/ Media!Crash(w)
           \/ \E j \in Media!Jobs : Media!Claim(w, j)
    PROVE  MediaJobsInv' /\ \A i \in Uploads : MediaLives(job[i], job'[i])
  <1> USE DEF Media!Goes, Media!Jobs
  <1>1. CASE Media!HandlerStep(w) \/ Media!RunFails(w)
    <2>1. /\ UNCHANGED <<job, upload, held>> /\ pc[w] # "idle"
          /\ pc' = pc \/ \E to \in RunPlaces \ {"idle"} : pc' = [pc EXCEPT ![w] = to]
      BY <1>1 DEF Media!HandlerStep, Media!RunFails, Media!AlreadyReady, Media!LoadAsset,
         Media!MarkProcessing, Media!OpenOriginal, Media!Decode, Media!DecodeFails,
         Media!PutRendition, Media!RecordReady, Media!RecordRows, RunPlaces
    <2>2. MediaTyped'
      BY <2>1 DEF MediaJobsInv, MediaTyped
    <2>3. \A v \in Workers : pc'[v] = "idle" <=> pc[v] = "idle"
      BY <2>1 DEF MediaJobsInv, MediaTyped
    <2> QED  BY <2>1, <2>2, <2>3, MediaRowsRest
  <1>2. ASSUME NEW j \in Uploads, Media!Claim(w, j)
        PROVE  MediaJobsInv' /\ \A i \in Uploads : MediaLives(job[i], job'[i])
    <2>1. /\ job[j].state = "queued" /\ Media!Runnable(job[j])
          /\ job' = [job EXCEPT ![j] = Media!Claimed(job[j])]
          /\ pc' = [pc EXCEPT ![w] = "load"] /\ held' = [held EXCEPT ![w] = j]
          /\ upload' = upload
      BY <1>2 DEF Media!Claim, Media!Runnable
    <2>2. MediaLives(job[j], Media!Claimed(job[j])) /\ Media!Claimed(job[j]).state = "running"
      BY <2>1, MediaRowsLive DEF MediaJobsInv
    <2>3. /\ job' \in [Uploads -> MediaRow]
          /\ \A i \in Uploads : MediaLives(job[i], job'[i])
      BY <2>1, <2>2, MediaRowMoves
    <2>4. MediaTyped'
      BY <2>1 DEF MediaJobsInv, MediaTyped, RunPlaces
    <2>5. QueuesLast'
      BY <2>1 DEF MediaJobsInv, QueuesLast
    <2>6. \A v \in Workers : held[v] # j
      BY <2>1, MediaAssetsAssumption DEF MediaAssetsAssumption, MediaJobsInv, MediaHeldAlone
    <2>7. MediaHeldAlone'
      BY <2>1, <2>2, <2>6 DEF MediaJobsInv, MediaTyped, MediaHeldAlone
    <2> QED  BY <2>3, <2>4, <2>5, <2>7 DEF MediaJobsInv
  <1>3. CASE Media!Record(w)
    <2>1. /\ held[w] \in Uploads /\ job[held[w]].state = "running"
          /\ \A v \in Workers : held[v] = held[w] => v = w
      BY <1>3, MediaAssetsAssumption
         DEF MediaAssetsAssumption, Media!Record, MediaJobsInv, MediaHeldAlone
    <2>2. PICK r \in {Media!Completed(job[held[w]]), Media!Retried(job[held[w]], 0),
                      Media!Failed(job[held[w]])} :
             job' = [job EXCEPT ![held[w]] = r]
      BY <1>3 DEF Media!Record
    <2>3. MediaLives(job[held[w]], r)
      BY <2>1, <2>2, MediaRowsLive DEF MediaJobsInv
    <2>4. /\ job' \in [Uploads -> MediaRow]
          /\ \A i \in Uploads : MediaLives(job[i], job'[i])
      BY <2>1, <2>2, <2>3, MediaRowMoves
    <2>5. /\ pc' = [pc EXCEPT ![w] = "idle"] /\ held' = [held EXCEPT ![w] = NoJob]
          /\ upload' = upload
      BY <1>3 DEF Media!Record, Media!Release
    <2>6. MediaTyped'
      BY <2>5 DEF MediaJobsInv, MediaTyped, RunPlaces
    <2>7. QueuesLast'
      BY <2>1, <2>2, <2>5 DEF MediaJobsInv, QueuesLast
    <2>8. MediaHeldAlone'
      BY <2>1, <2>2, <2>5 DEF MediaJobsInv, MediaTyped, MediaHeldAlone
    <2> QED  BY <2>4, <2>6, <2>7, <2>8 DEF MediaJobsInv
  <1>4. CASE Media!Crash(w)
    <2>1. /\ pc' = [pc EXCEPT ![w] = "idle"] /\ held' = [held EXCEPT ![w] = NoJob]
          /\ UNCHANGED <<upload, job>>
      BY <1>4 DEF Media!Crash, Media!Release
    <2>2. MediaTyped' /\ MediaHeldAlone' /\ QueuesLast'
      BY <2>1 DEF MediaJobsInv, MediaTyped, MediaHeldAlone, QueuesLast, RunPlaces
    <2>3. \A i \in Uploads : MediaLives(job[i], job'[i])
      BY <2>1, MediaRowsLive DEF MediaJobsInv
    <2> QED  BY <2>1, <2>2, <2>3 DEF MediaJobsInv
  <1> QED  BY <1>1, <1>2, <1>3, <1>4

LEMMA MediaReaps ==
    ASSUME MediaAssetsAssumption, MediaJobsInv, NEW j \in Uploads, Media!Reap(j)
    PROVE  MediaJobsInv' /\ \A i \in Uploads : MediaLives(job[i], job'[i])
  <1>1. /\ job[j].state = "running" /\ \A w \in Workers : held[w] # j
        /\ job' = [job EXCEPT ![j] = Media!Reaped(job[j])]
        /\ UNCHANGED <<upload, pc, held>>
    BY DEF Media!Reap, Media!Orphan, Media!workerVars
  <1>2. MediaLives(job[j], Media!Reaped(job[j]))
    BY <1>1, MediaRowsLive DEF MediaJobsInv
  <1>3. /\ job' \in [Uploads -> MediaRow]
        /\ \A i \in Uploads : MediaLives(job[i], job'[i])
    BY <1>1, <1>2, MediaRowMoves
  <1>4. MediaTyped' /\ MediaHeldAlone' /\ QueuesLast'
    BY <1>1 DEF MediaJobsInv, MediaTyped, MediaHeldAlone, QueuesLast
  <1> QED  BY <1>3, <1>4 DEF MediaJobsInv

\* The media jobs implement JobLife: however many uploads of the same bytes, workers,
\* failures and crashes, a job is queued once, run at most as often as it may be, and
\* stays settled.
THEOREM MediaJobsKeepTheirLife == MediaSpec => MediaKeepsJobLife
  <1>1. Media!Init => MediaLife!Init /\ MediaJobsInv
    BY MediaAssetsAssumption
       DEF MediaAssetsAssumption, Media!Init, Media!Jobs, MediaLife!Init, MediaJobsInv, MediaTyped, MediaRow,
           MediaHeldAlone, QueuesLast, RunPlaces, Media!Vacant, Media!JobState, Media!Final
  <1>2. ASSUME MediaJobsInv, [Media!Next]_Media!vars
        PROVE  MediaJobsInv' /\ \A i \in Uploads : MediaLives(job[i], job'[i])
    <2>1. CASE UNCHANGED Media!vars
      <3>1. UNCHANGED <<upload, job, pc, held>>
        BY <2>1 DEF Media!vars, Media!workerVars
      <3>2. MediaTyped'
        BY <1>2, <3>1 DEF MediaJobsInv, MediaTyped
      <3> QED  BY <1>2, <3>1, <3>2, MediaRowsRest, MediaAssetsAssumption
    <2> QED
      BY <1>2, <2>1, MediaUploads, MediaWorks, MediaReaps, MediaAssetsAssumption
         DEF Media!Next, Media!Jobs
  <1>3. ASSUME MediaJobsInv, MediaJobsInv', \A i \in Uploads : MediaLives(job[i], job'[i])
        PROVE  MediaLife!Next
    <2>1. /\ [j \in Uploads |-> job'[j].state] \in
                [Uploads -> {"absent", "queued", "running", "gone"} \cup MediaLife!Settled]
          /\ [j \in Uploads |-> job'[j].attempts] \in [Uploads -> 0..MaxAttempts]
      BY <1>3 DEF MediaJobsInv, MediaRow, Media!JobState, Media!Final, MediaLife!Settled
    <2>2. ASSUME NEW j \in Uploads
          PROVE  \/ MediaLife!Submit(j) \/ MediaLife!Hand(j) \/ MediaLife!Settle(j)
                 \/ MediaLife!GiveBack(j) \/ MediaLife!Withdraw(j) \/ MediaLife!Forget(j)
                 \/ MediaLife!Keep(j)
      BY <1>3 DEF MediaLives, MediaMove, MediaLife!Settled, MediaLife!Submit,
         MediaLife!Hand, MediaLife!Settle, MediaLife!GiveBack, MediaLife!Keep
    <2> QED  BY <2>1, <2>2 DEF MediaLife!Next
  <1>4. MediaJobsInv /\ [Media!Next]_Media!vars =>
          MediaJobsInv' /\ [MediaLife!Next]_(MediaLife!lifeVars)
    BY <1>2, <1>3
  <1> QED
    BY <1>1, <1>4, PTL DEF MediaSpec, Media!Spec, MediaKeepsJobLife, MediaLife!Spec

-----------------------------------------------------------------------------
(* The values of attributes.                                              *)

OptionRecord == [id : Ids, value : Tokens, label : Labels]

LEMMA ValueConstants ==
    /\ DataTypes \subseteq [Attributes -> DOMAIN Shape]
    /\ DOMAIN Shape = {"text", "number", "number_range", "boolean", "enum", "color", "multi_enum"}
    /\ Shape["text"] = "string" /\ Shape["number"] = "number" /\ Shape["number_range"] = "object"
    /\ Shape["boolean"] = "boolean" /\ Shape["enum"] = "string" /\ Shape["color"] = "string"
    /\ Shape["multi_enum"] = "array"
    /\ Numbers \subseteq Int /\ Ids \subseteq Nat \ {None}
  <1>1. DataTypes \subseteq [Attributes -> DOMAIN Shape] /\ Numbers \subseteq Int /\ Ids \subseteq Nat \ {None}
    BY ValuesAssumption, Zenon
  <1> QED  BY <1>1 DEF Shape

LEMMA One == \A x : <<x>>[1] = x /\ Len(<<x>>) = 1 /\ DOMAIN <<x>> = {1}
  OBVIOUS

LEMMA ContentsOf ==
    /\ Contents["string"] = {<<w>> : w \in DOMAIN Forms}
    /\ Contents["number"] = {<<n>> : n \in Numbers}
    /\ Contents["object"] = Numbers \X Numbers
    /\ Contents["boolean"] = {<<b>> : b \in BOOLEAN}
    /\ Contents["array"] = Seq(DOMAIN Forms)
  BY DEF Contents

-----------------------------------------------------------------------------
\* The places of an option in a sequence, counted from those before it.
LEMMA RankOfPlace ==
    ASSUME NEW n \in Nat, NEW at \in SUBSET (1..n)
    PROVE  /\ IsFiniteSet(at) /\ Cardinality(at) \in Nat
           /\ \A i \in at : Cardinality({j \in at : j < i}) + 1 \in 1..Cardinality(at)
           /\ \A i, k \in at : Cardinality({j \in at : j < i}) = Cardinality({j \in at : j < k}) => i = k
  <1> DEFINE before(i) == {j \in at : j < i}
  <1>1. IsFiniteSet(at) /\ Cardinality(at) \in Nat
    <2>1. IsFiniteSet(1..n)
      BY FS_Interval
    <2>2. IsFiniteSet(at)
      BY <2>1, FS_Subset
    <2> QED  BY <2>2, FS_CardinalityType
  <1>2. ASSUME NEW S \in SUBSET at, NEW i \in at, NEW T \in SUBSET at, S \subseteq T, i \in T, i \notin S
        PROVE  Cardinality(S) < Cardinality(T) /\ Cardinality(S) \in Nat
    <2>1. IsFiniteSet(S) /\ IsFiniteSet(T)
      BY <1>1, FS_Subset
    <2>2. Cardinality(S) \in Nat /\ Cardinality(T) \in Nat
      BY <2>1, FS_CardinalityType
    <2>3. S \in SUBSET T /\ S # T
      BY <1>2
    <2>4. Cardinality(S) < Cardinality(T)
      <3>1. Cardinality(S) <= Cardinality(T) /\ Cardinality(T) # Cardinality(S)
        BY <2>1, <2>3, FS_Subset
      <3> QED  BY <3>1, <2>2
    <2> QED  BY <2>2, <2>4
  <1>3. \A i \in at : before(i) \in SUBSET at /\ i \notin before(i)
    OBVIOUS
  <1>4. ASSUME NEW i \in at  PROVE Cardinality(before(i)) + 1 \in 1..Cardinality(at)
    <2> HIDE DEF before
    <2>1. Cardinality(before(i)) < Cardinality(at) /\ Cardinality(before(i)) \in Nat
      BY <1>2, <1>3
    <2> QED  BY <2>1, <1>1
  <1>5. ASSUME NEW i \in at, NEW k \in at, i < k
        PROVE  Cardinality(before(i)) < Cardinality(before(k)) /\ Cardinality(before(i)) \in Nat
    <2>1. i \in 1..n /\ k \in 1..n /\ at \subseteq Int
      OBVIOUS
    <2>2. \A j \in at : j < i => j < k
      BY <2>1, <1>5
    <2>3. before(i) \subseteq before(k) /\ i \in before(k)
      BY <1>5, <2>2
    <2> HIDE DEF before
    <2> QED  BY <2>3, <1>2, <1>3
  <1>6. ASSUME NEW i \in at, NEW k \in at, Cardinality(before(i)) = Cardinality(before(k))
        PROVE  i = k
    <2> HIDE DEF before
    <2>1. ~ (i < k) /\ ~ (k < i)
      BY <1>5, <1>6
    <2> QED  BY <2>1
  <1> QED  BY <1>1, <1>4, <1>6

\* What OptionsOf is: the options of those ids, and as many as there are places.
LEMMA OptionsOfIs ==
    ASSUME NEW S, NEW s \in Seq(S), NEW ids
    PROVE  /\ OptionsOf(s, ids) \in Seq(S)
           /\ ToSet(OptionsOf(s, ids)) = {o \in ToSet(s) : o.id \in ids}
           /\ \A i \in DOMAIN s : (\A k \in DOMAIN s : s[k].id \in ids <=> k = i) => OptionsOf(s, ids) = <<s[i]>>
  <1> DEFINE at == {i \in DOMAIN s : s[i].id \in ids}
             rank(i) == Cardinality({j \in at : j < i})
             N == Cardinality(at)
             place(n) == CHOOSE i \in at : rank(i) = n - 1
  <1>1. at \in SUBSET (1..Len(s)) /\ Len(s) \in Nat
    OBVIOUS
  <1>2. /\ IsFiniteSet(at) /\ N \in Nat
        /\ \A i \in at : rank(i) + 1 \in 1..N /\ rank(i) \in Int
        /\ \A i, k \in at : rank(i) = rank(k) => i = k
    <2> HIDE DEF at
    <2>1. /\ IsFiniteSet(at) /\ N \in Nat
          /\ \A i \in at : rank(i) + 1 \in 1..N
          /\ \A i, k \in at : rank(i) = rank(k) => i = k
      BY <1>1, RankOfPlace
    <2>2. ASSUME NEW i \in at  PROVE rank(i) \in Int
      <3>1. IsFiniteSet({j \in at : j < i})
        BY <2>1, FS_Subset
      <3> QED  BY <3>1, FS_CardinalityType
    <2> QED  BY <2>1, <2>2
  <1> HIDE DEF rank
  <1>3. ASSUME NEW n \in 1..N  PROVE \E i \in at : rank(i) = n - 1
    <2> DEFINE f == [i \in at |-> rank(i) + 1]
    <2>1. f \in Injection(at, 1..N)
      BY <1>2 DEF Injection, IsInjective
    <2>2. IsFiniteSet(1..N) /\ Cardinality(1..N) = N
      BY <1>2, FS_Interval
    <2>3. f \in Surjection(at, 1..N)
      <3> HIDE DEF f, at
      <3> QED  BY <1>2, <2>1, <2>2, FS_Injection
    <2>4. \E i \in at : f[i] = n
      BY <2>3 DEF Surjection
    <2> QED  BY <2>4, <1>2
  <1>4. \A n \in 1..N : place(n) \in at /\ rank(place(n)) = n - 1
    BY <1>3
  <1> HIDE DEF place
  <1>5. ASSUME NEW i \in at  PROVE rank(i) + 1 \in 1..N /\ place(rank(i) + 1) = i
    <2> HIDE DEF at
    <2>1. rank(i) + 1 \in 1..N /\ rank(i) \in Int
      BY <1>2
    <2>2. place(rank(i) + 1) \in at /\ rank(place(rank(i) + 1)) = rank(i)
      BY <2>1, <1>4
    <2> QED  BY <2>1, <2>2, <1>2
  <1>6. OptionsOf(s, ids) = [n \in 1..N |-> s[place(n)]]
    BY DEF OptionsOf, place, rank
  <1>7. OptionsOf(s, ids) \in Seq(S)
    BY <1>1, <1>2, <1>4, <1>6
  <1>8. ToSet(OptionsOf(s, ids)) = {s[i] : i \in at}
    <2> HIDE DEF at
    <2>1. ToSet(OptionsOf(s, ids)) = {s[place(n)] : n \in 1..N}
      BY <1>6 DEF ToSet
    <2> HIDE DEF N
    <2>2. \A n \in 1..N : place(n) \in at
      BY <1>4
    <2>3. \A i \in at : \E n \in 1..N : place(n) = i
      BY <1>5
    <2> QED  BY <2>1, <2>2, <2>3
  <1>9. {s[i] : i \in at} = {o \in ToSet(s) : o.id \in ids}
    BY DEF ToSet
  <1>10. ASSUME NEW i \in DOMAIN s, \A k \in DOMAIN s : s[k].id \in ids <=> k = i
         PROVE  OptionsOf(s, ids) = <<s[i]>>
    <2>1. at = {i}
      BY <1>10
    <2>2. N = 1
      BY <2>1, FS_Singleton
    <2>3. place(1) = i
      BY <2>1, <2>2, <1>4
    <2> HIDE DEF N, at
    <2>4. [n \in 1..N |-> s[place(n)]] = [n \in 1..1 |-> s[i]]
      BY <2>2, <2>3
    <2> QED  BY <1>6, <2>4
  <1> QED  BY <1>7, <1>8, <1>9, <1>10
-----------------------------------------------------------------------------
(* Values of a product, and JSON.                                          *)

\* The schema: no two options of an attribute have the same id or value.
SchemaFits ==
    /\ type \in [Attributes -> DOMAIN Shape]
    /\ options \in [Attributes -> Seq(OptionRecord)]
    /\ \A a \in Attributes : \A i, k \in DOMAIN options[a] :
         options[a][i].id = options[a][k].id \/ options[a][i].value = options[a][k].value => i = k
    /\ unit \in [Attributes -> DOMAIN UnitForms]
    /\ binding = [a \in Attributes |-> binding[a]]
    /\ \A a \in Attributes : binding[a] \in Bindings[a] \cup {Unbound}

\* What a value without options contains.
InlineFits(t, of) ==
    \/ t = "text" /\ \E w \in DOMAIN Forms : of = <<w>> /\ Forms[w].trim = w /\ w # "" /\ ~ Forms[w].long
    \/ t = "number" /\ \E n \in Numbers : of = <<n>>
    \/ t = "number_range" /\ \E l, h \in Numbers : of = <<l, h>> /\ l <= h
    \/ t = "boolean" /\ \E b \in BOOLEAN : of = <<b>>

\* A value that fits its attribute: something inline, or options that exist, of
\* which only multi_enum has several.
Fits(v) ==
    /\ v = [attr |-> v.attr, place |-> v.place, inline |-> v.inline, options |-> v.options]
    /\ v.attr \in Attributes /\ v.place \in Places
    /\ UsesOptions(v.attr) =>
         /\ v.inline = <<>> /\ v.options # {}
         /\ \A x \in v.options : \E o \in ToSet(options[v.attr]) : o.id = x
         /\ type[v.attr] # "multi_enum" => \A x, y \in v.options : x = y
    /\ ~ UsesOptions(v.attr) => v.options = {} /\ InlineFits(type[v.attr], v.inline)

\* The values of a product: one of an attribute at a place.
OneEach(values) ==
    /\ \A v \in values : Fits(v)
    /\ \A v, w \in values : v.attr = w.attr /\ v.place = w.place => v = w

Chosen(v) == {o \in ToSet(options[v.attr]) : o.id \in v.options}

\* JSON that says what v is, but for the order of options.
Renders(json, v) ==
    /\ json = [shape |-> Shape[type[v.attr]], of |-> json.of]
    /\ UsesOptions(v.attr) =>
         /\ json.of \in Seq(Tokens) /\ ToSet(json.of) = {o.value : o \in Chosen(v)}
         /\ type[v.attr] # "multi_enum" => Len(json.of) = 1
    /\ ~ UsesOptions(v.attr) => json.of = v.inline

\* Options are told apart by their ids and by their values.
LEMMA OptionsApart ==
    ASSUME SchemaFits, NEW a \in Attributes,
           NEW o \in ToSet(options[a]), NEW q \in ToSet(options[a]),
           o.id = q.id \/ o.value = q.value
    PROVE  o = q
  <1>1. PICK i \in DOMAIN options[a] : o = options[a][i]
    BY DEF ToSet
  <1>2. PICK k \in DOMAIN options[a] : q = options[a][k]
    BY DEF ToSet
  <1>3. i = k
    BY <1>1, <1>2 DEF SchemaFits
  <1> QED  BY <1>1, <1>2, <1>3

LEMMA OptionsTyped ==
    ASSUME SchemaFits, NEW a \in Attributes
    PROVE  /\ options[a] \in Seq(OptionRecord)
           /\ \A o \in ToSet(options[a]) : o.id \in Ids /\ o.value \in Tokens /\ o.label \in Labels
           /\ type[a] \in DOMAIN Shape
  <1>1. options[a] \in Seq(OptionRecord) /\ type[a] \in DOMAIN Shape
    BY DEF SchemaFits
  <1>2. ToSet(options[a]) \subseteq OptionRecord
    BY <1>1 DEF ToSet
  <1> QED  BY <1>1, <1>2 DEF OptionRecord

\* apiValue: a value that fits is not lost.
LEMMA ApiRenders ==
    ASSUME SchemaFits, NEW v, Fits(v)
    PROVE  Renders(ApiValue(v.attr, v), v) /\ ApiValue(v.attr, v) # Null
  <1> DEFINE a == v.attr
             named == OptionsOf(options[a], v.options)
  <1>1. a \in Attributes /\ type[a] \in DOMAIN Shape /\ Shape[type[a]] # "null"
    BY OptionsTyped, ValueConstants DEF Fits
  <1>2. CASE UsesOptions(a)
    <2>1. named \in Seq(OptionRecord) /\ ToSet(named) = Chosen(v)
      BY <1>1, OptionsTyped, OptionsOfIs DEF Chosen
    <2>2. ASSUME type[a] # "multi_enum"  PROVE Len(named) = 1
      <3>1. PICK x \in v.options : \A y \in v.options : x = y
        BY <1>2, <2>2 DEF Fits
      <3>2. PICK i \in DOMAIN options[a] : options[a][i].id = x
        BY <1>2, <3>1 DEF Fits, ToSet
      <3>3. \A k \in DOMAIN options[a] : options[a][k].id \in v.options <=> k = i
        BY <1>1, <3>1, <3>2 DEF SchemaFits
      <3>4. named = <<options[a][i]>>
        BY <1>1, <3>3, OptionsTyped, OptionsOfIs
      <3> QED  BY <3>4
    <2> DEFINE of == [i \in DOMAIN named |-> named[i].value]
    <2>3. of \in Seq(Tokens) /\ Len(of) = Len(named)
      <3> HIDE DEF named
      <3>1. \A i \in DOMAIN named : named[i].value \in Tokens
        <4>1. \A i \in DOMAIN named : named[i] \in OptionRecord
          BY <2>1
        <4> QED  BY <4>1 DEF OptionRecord
      <3>2. DOMAIN named = 1..Len(named) /\ Len(named) \in Nat
        BY <2>1
      <3> QED  BY <3>1, <3>2
    <2>4. ToSet(of) = {o.value : o \in Chosen(v)}
      <3> HIDE DEF named
      <3> QED  BY <2>1 DEF ToSet
    <2>5. ApiValue(a, v) = [shape |-> Shape[type[a]], of |-> of]
      BY <1>2, <2>2 DEF ApiValue
    <2> HIDE DEF of
    <2> QED  BY <1>1, <1>2, <2>2, <2>3, <2>4, <2>5 DEF Renders, Null
  <1>3. CASE ~ UsesOptions(a)
    <2>1. ApiValue(a, v) = [shape |-> Shape[type[a]], of |-> v.inline]
      BY <1>3 DEF ApiValue
    <2> QED  BY <1>1, <1>3, <2>1 DEF Renders, Null
  <1> QED  BY <1>2, <1>3

\* decodeValue: what it reads of JSON that says what v is, is v.
LEMMA DecodesBack ==
    ASSUME SchemaFits, NEW v, Fits(v), NEW json, Renders(json, v)
    PROVE  Decodes(v.attr, json) /\ DecodeValue(v.attr, v.place, json) = v
  <1> DEFINE a == v.attr
  <1>1. a \in Attributes /\ type[a] \in DOMAIN Shape /\ json.shape = Shape[type[a]]
    BY OptionsTyped DEF Fits, Renders
  <1>2. CASE UsesOptions(a)
    <2>1. json.of \in Seq(Tokens) /\ ToSet(json.of) = {o.value : o \in Chosen(v)}
      BY <1>2 DEF Renders
    <2>2. \A s \in ToSet(json.of) : OptionByValue(a, s) # {} /\ OptionByValue(a, s) \subseteq Chosen(v)
      BY <1>1, <2>1, OptionsApart DEF OptionByValue, Chosen
    <2>3. {o.id : o \in UNION {OptionByValue(a, s) : s \in ToSet(json.of)}} = v.options
      <3>1. \A x \in v.options : \E o \in Chosen(v) : o.id = x
        BY <1>2 DEF Fits, Chosen
      <3>2. \A o \in Chosen(v) : o.value \in ToSet(json.of) /\ o \in OptionByValue(a, o.value) /\ o.id \in v.options
        BY <2>1 DEF Chosen, OptionByValue
      <3> QED  BY <2>2, <3>1, <3>2
    <2>4. Len(json.of) > 0
      <3>1. \E o : o \in Chosen(v)
        BY <1>2 DEF Fits, Chosen
      <3>2. ToSet(json.of) # {}
        BY <2>1, <3>1
      <3> QED  BY <2>1, <3>2 DEF ToSet
    <2>5. NewAttributeValue(a, json.of)
      BY <1>2, <2>4 DEF NewAttributeValue, UsesOptions
    <2>6. DecodeValue(a, v.place, json) = [attr |-> a, place |-> v.place, inline |-> <<>>, options |-> v.options]
      BY <1>2, <2>3 DEF DecodeValue, UsesOptions
    <2>7. type[a] # "text"
      BY <1>2 DEF UsesOptions
    <2> QED  BY <1>1, <1>2, <2>2, <2>5, <2>6, <2>7 DEF Decodes, Fits
  <1>3. CASE ~ UsesOptions(a)
    <2>1. json.of = v.inline /\ InlineFits(type[a], v.inline) /\ v.options = {}
      BY <1>3 DEF Renders, Fits
    <2>2. ASSUME type[a] = "text"
          PROVE  /\ <<Forms[v.inline[1]].trim>> = v.inline /\ Forms[v.inline[1]].trim # ""
                 /\ ~ Forms[v.inline[1]].long
      <3>1. PICK w \in DOMAIN Forms : v.inline = <<w>> /\ Forms[w].trim = w /\ w # "" /\ ~ Forms[w].long
        BY <2>1, <2>2 DEF InlineFits
      <3>2. v.inline[1] = w
        BY <3>1, One
      <3> QED  BY <3>1, <3>2
    <2>3. NewAttributeValue(a, v.inline)
      <3>1. type[a] = "number_range" => v.inline[1] <= v.inline[2]
        BY <2>1 DEF InlineFits
      <3>2. type[a] \in {"number", "boolean"} => Len(v.inline) > 0
        <4>1. type[a] = "number" => \E n : v.inline = <<n>>
          BY <2>1 DEF InlineFits
        <4>2. type[a] = "boolean" => \E b : v.inline = <<b>>
          BY <2>1 DEF InlineFits
        <4> QED  BY <4>1, <4>2
      <3> QED  BY <1>1, <1>3, <2>2, <3>1, <3>2, ValueConstants DEF NewAttributeValue, UsesOptions
    <2>4. DecodeValue(a, v.place, json) = [attr |-> a, place |-> v.place, inline |-> v.inline, options |-> {}]
      BY <1>3, <2>1, <2>2 DEF DecodeValue
    <2> QED  BY <1>1, <1>3, <2>1, <2>2, <2>3, <2>4 DEF Decodes, Fits
  <1> QED  BY <1>2, <1>3

\* decodeValue: what it accepts fits.
LEMMA DecodedFits ==
    ASSUME SchemaFits, NEW a \in Attributes, NEW p \in Places, NEW json,
           json.shape \in DOMAIN Contents, json.of \in Contents[json.shape], Decodes(a, json)
    PROVE  /\ Fits(DecodeValue(a, p, json))
           /\ DecodeValue(a, p, json).attr = a /\ DecodeValue(a, p, json).place = p
  <1> DEFINE v == DecodeValue(a, p, json)
  <1>1. v = [attr |-> a, place |-> p, inline |-> v.inline, options |-> v.options] /\ v.attr = a /\ v.place = p
    BY DEF DecodeValue
  <1>2. type[a] \in DOMAIN Shape /\ json.shape = Shape[type[a]] /\ NewAttributeValue(a, json.of)
    BY OptionsTyped DEF Decodes
  <1>3. CASE UsesOptions(a)
    <2>1. v.inline = <<>> /\ v.options = {o.id : o \in UNION {OptionByValue(a, s) : s \in ToSet(json.of)}}
      BY <1>3 DEF DecodeValue, UsesOptions
    <2>2. \A x \in v.options : \E o \in ToSet(options[a]) : o.id = x
      BY <2>1 DEF OptionByValue
    <2>3. Len(json.of) > 0
      BY <1>2, <1>3 DEF NewAttributeValue, UsesOptions
    <2>4. /\ json.of \in Seq(DOMAIN Forms)
          /\ type[a] # "multi_enum" => \E w \in DOMAIN Forms : json.of = <<w>>
      <3>1. type[a] # "multi_enum" => json.shape = "string"
        BY <1>2, <1>3, ValueConstants DEF UsesOptions
      <3>2. type[a] = "multi_enum" => json.shape = "array"
        BY <1>2, ValueConstants
      <3>3. json.shape = "string" => \E w \in DOMAIN Forms : json.of = <<w>>
        BY ContentsOf
      <3>4. json.shape = "array" => json.of \in Seq(DOMAIN Forms)
        BY ContentsOf
      <3>5. \A w \in DOMAIN Forms : <<w>> \in Seq(DOMAIN Forms)
        OBVIOUS
      <3> QED  BY <3>1, <3>2, <3>3, <3>4, <3>5
    <2>5. v.options # {}
      <3>1. json.of[1] \in ToSet(json.of)
        BY <2>3, <2>4 DEF ToSet
      <3>2. OptionByValue(a, json.of[1]) # {}
        BY <1>3, <3>1 DEF Decodes
      <3>3. PICK o : o \in OptionByValue(a, json.of[1])
        BY <3>2
      <3>4. o.id \in v.options
        BY <2>1, <3>1, <3>3
      <3> QED  BY <3>4
    <2>6. ASSUME type[a] # "multi_enum", NEW x \in v.options, NEW y \in v.options  PROVE x = y
      <3>1. PICK w : json.of = <<w>>
        BY <2>4, <2>6
      <3>2. ToSet(json.of) = {w}
        BY <3>1 DEF ToSet
      <3>3. PICK o \in OptionByValue(a, w), q \in OptionByValue(a, w) : x = o.id /\ y = q.id
        BY <2>1, <2>6, <3>2
      <3> QED  BY <3>3, OptionsApart DEF OptionByValue
    <2> QED  BY <1>1, <1>3, <2>1, <2>2, <2>5, <2>6 DEF Fits
  <1>4. CASE ~ UsesOptions(a)
    <2>1. v.options = {} /\ v.inline = IF type[a] = "text" THEN <<Forms[json.of[1]].trim>> ELSE json.of
      BY <1>4 DEF DecodeValue
    <2>2. InlineFits(type[a], v.inline)
      <3>1. CASE type[a] = "text"
        <4>1. PICK w \in DOMAIN Forms : json.of = <<w>>
          BY <1>2, <3>1, ValueConstants, ContentsOf
        <4>2. v.inline = <<Forms[w].trim>> /\ Forms[w].trim # "" /\ ~ Forms[w].long
          <5>1. json.of[1] = w
            BY <4>1
          <5>2. Forms[json.of[1]].trim # ""
            BY <1>2, <3>1 DEF NewAttributeValue
          <5>3. ~ Forms[json.of[1]].long
            BY <3>1 DEF Decodes
          <5> QED  BY <2>1, <3>1, <5>1, <5>2, <5>3
        <4>3. Forms[w].trim \in DOMAIN Forms /\ Forms[Forms[w].trim].trim = Forms[w].trim
              /\ Forms[Forms[w].trim].long = Forms[w].long
          <5>1. \A x \in DOMAIN Forms : /\ {Forms[x].trim, Forms[x].collapse} \subseteq DOMAIN Forms
                                        /\ Forms[Forms[x].trim].trim = Forms[x].trim
                                        /\ Forms[Forms[x].trim].long = Forms[x].long
            BY ValuesAssumption, Zenon
          <5> QED  BY <4>1, <5>1
        <4> QED  BY <3>1, <4>2, <4>3 DEF InlineFits
      <3>2. CASE type[a] = "number"
        BY <1>2, <2>1, <3>2, ValueConstants, ContentsOf DEF InlineFits
      <3>3. CASE type[a] = "number_range"
        <4>1. json.of \in Numbers \X Numbers /\ json.of[1] <= json.of[2]
          BY <1>2, <3>3, ValueConstants, ContentsOf DEF NewAttributeValue
        <4> QED  BY <4>1, <2>1, <3>3 DEF InlineFits
      <3>4. CASE type[a] = "boolean"
        BY <1>2, <2>1, <3>4, ValueConstants, ContentsOf DEF InlineFits
      <3> QED  BY <1>2, <1>4, <3>1, <3>2, <3>3, <3>4, ValueConstants DEF UsesOptions
    <2> QED  BY <1>1, <1>4, <2>1, <2>2 DEF Fits
  <1> QED  BY <1>1, <1>3, <1>4
-----------------------------------------------------------------------------
(* Rows and projections.                                                   *)

\* insertValues and then mergeValues: what is stored is what is loaded.
LEMMA LoadsBack ==
    ASSUME SchemaFits, NEW values, OneEach(values)
    PROVE  Load(InsertValues(values)) = values
  <1> DEFINE parts == {AttributeValue(r) : r \in InsertValues(values)}
             here(x) == UNION {w.options : w \in {y \in parts : y.attr = x.attr /\ y.place = x.place}}
  <1>0. \A v \in values : \A x \in v.options : x # None
    <2>1. SUFFICES ASSUME NEW v \in values, NEW x \in v.options  PROVE x # None
      OBVIOUS
    <2>2. Fits(v) /\ v.attr \in Attributes
      BY DEF OneEach, Fits
    <2>3. PICK o \in ToSet(options[v.attr]) : o.id = x
      BY <2>2 DEF Fits
    <2>4. o.id \in Ids
      BY <2>2, OptionsTyped
    <2> QED  BY <2>3, <2>4, ValueConstants DEF None
  <1>1. ASSUME NEW v \in values, NEW o
        PROVE  /\ AttributeValue(Row(v, o)) = [attr |-> v.attr, place |-> v.place, inline |-> v.inline,
                                               options |-> IF o = None THEN {} ELSE {o}]
    BY DEF AttributeValue, Row
  <1>2. ASSUME NEW x
        PROVE  x \in parts <=> \E v \in values : \E o \in IF v.options = {} THEN {None} ELSE v.options :
                                 x = AttributeValue(Row(v, o))
    BY DEF InsertValues
  <1> HIDE DEF parts
  <1>3. ASSUME NEW x \in parts
        PROVE  \E v \in values : /\ x.attr = v.attr /\ x.place = v.place /\ x.inline = v.inline
                                 /\ x.options \subseteq v.options
                                 /\ x = [attr |-> v.attr, place |-> v.place, inline |-> v.inline, options |-> x.options]
    <2>1. PICK v \in values : \E o \in IF v.options = {} THEN {None} ELSE v.options : x = AttributeValue(Row(v, o))
      BY <1>2
    <2>2. PICK o \in IF v.options = {} THEN {None} ELSE v.options : x = AttributeValue(Row(v, o))
      BY <2>1
    <2>3. x = [attr |-> v.attr, place |-> v.place, inline |-> v.inline, options |-> IF o = None THEN {} ELSE {o}]
      BY <2>2, <1>1
    <2>4. x.options \subseteq v.options
      BY <2>2, <2>3
    <2> QED  BY <2>3, <2>4
  <1>4. ASSUME NEW v \in values
        PROVE  /\ \E x \in parts : x.attr = v.attr /\ x.place = v.place
               /\ \A id \in v.options : \E x \in parts : x.attr = v.attr /\ x.place = v.place /\ id \in x.options
    <2>1. \E o : o \in IF v.options = {} THEN {None} ELSE v.options
      OBVIOUS
    <2>2. ASSUME NEW o, o \in IF v.options = {} THEN {None} ELSE v.options
          PROVE  AttributeValue(Row(v, o)) \in parts
      BY <1>2, <2>2
    <2>3. ASSUME NEW id \in v.options
          PROVE  \E x \in parts : x.attr = v.attr /\ x.place = v.place /\ id \in x.options
      <3>1. AttributeValue(Row(v, id)) \in parts
        BY <2>2, <2>3
      <3> QED  BY <3>1, <1>0, <1>1
    <2> QED  BY <2>1, <2>2, <2>3, <1>1
  <1>5. ASSUME NEW x \in parts, NEW v \in values, x.attr = v.attr, x.place = v.place
        PROVE  /\ here(x) = v.options
               /\ [x EXCEPT !.options = here(x)] = v
    <2>1. \A y \in parts : y.attr = x.attr /\ y.place = x.place => y.options \subseteq v.options /\ y.inline = v.inline
      BY <1>3, <1>5 DEF OneEach
    <2>2. here(x) = v.options
      <3>1. here(x) \subseteq v.options
        BY <2>1
      <3>2. v.options \subseteq here(x)
        BY <1>4, <1>5
      <3> QED  BY <3>1, <3>2
    <2>3. x = [attr |-> v.attr, place |-> v.place, inline |-> v.inline, options |-> x.options]
      BY <1>3, <1>5 DEF OneEach
    <2>4. v = [attr |-> v.attr, place |-> v.place, inline |-> v.inline, options |-> v.options]
      BY DEF OneEach, Fits
    <2>5. [x EXCEPT !.options = v.options] = [attr |-> v.attr, place |-> v.place, inline |-> v.inline, options |-> v.options]
      BY <2>3
    <2> QED  BY <2>2, <2>4, <2>5
  <1>6. Load(InsertValues(values)) = {[x EXCEPT !.options = here(x)] : x \in parts}
    BY DEF Load, MergeValues, parts
  <1> HIDE DEF here
  <1>7. \A x \in parts : \E v \in values : x.attr = v.attr /\ x.place = v.place
    BY <1>3
  <1>8. \A x \in parts : [x EXCEPT !.options = here(x)] \in values
    BY <1>5, <1>7
  <1>9. \A v \in values : \E x \in parts : v = [x EXCEPT !.options = here(x)]
    BY <1>4, <1>5
  <1> QED  BY <1>6, <1>8, <1>9

\* categorySchema.projection.
LEMMA ProjectionIs ==
    ASSUME NEW values, OneEach(values), NEW p, NEW schema
    PROVE  /\ \A a : a \in DOMAIN Projection(values, p, schema) <=>
                    \E v \in values : v.place = p /\ schema[v.attr] # Unbound /\ v.attr = a
           /\ \A v \in values : v.place = p /\ schema[v.attr] # Unbound =>
                Projection(values, p, schema)[v.attr] = ApiValue(v.attr, v)
  <1> DEFINE here == {v \in values : v.place = p /\ schema[v.attr] # Unbound}
  <1>1. Projection(values, p, schema) = [a \in {v.attr : v \in here} |-> ApiValue(a, CHOOSE v \in here : v.attr = a)]
    BY DEF Projection
  <1>2. ASSUME NEW v \in here  PROVE (CHOOSE w \in here : w.attr = v.attr) = v
    BY DEF OneEach
  <1> HIDE DEF here
  <1>3. \A v \in here : Projection(values, p, schema)[v.attr] = ApiValue(v.attr, v)
    BY <1>1, <1>2
  <1> QED  BY <1>1, <1>3 DEF here

-----------------------------------------------------------------------------
(* The invariant: the rows store values that fit, at the level their       *)
(* attribute is bound at, and the projections say what they are.           *)

Projected ==
    /\ \A p \in Places : \A a : a \in DOMAIN attrs[p] <=> \E v \in View : v.place = p /\ v.attr = a
    /\ \A v \in View : Renders(attrs[v.place][v.attr], v)

Leveled == \A v \in View : binding[v.attr] # Unbound /\ v.place \in AtLevel(v.attr)

Stored == OneEach(View) /\ rows = InsertValues(View)

\* What an active product was saved with is there as long as nothing is added to it.
Complete ==
    published /\ ~ raised =>
        \A a \in Attributes : binding[a] # Unbound /\ binding[a].required =>
            \A p \in AtLevel(a) : \E v \in View : v.attr = a /\ v.place = p

ValuesInv == SchemaFits /\ Stored /\ Leveled /\ Projected /\ Complete

LEMMA ValuesInitially ==
    ValuesInit => ValuesInv
  <1> SUFFICES ASSUME ValuesInit  PROVE ValuesInv
    OBVIOUS
  <1>1. View = {}
    BY DEF ValuesInit, View, Load, MergeValues
  <1>2. SchemaFits
    <2>1. /\ type \in [Attributes -> DOMAIN Shape] /\ unit \in [Attributes -> DOMAIN UnitForms]
          /\ binding = [a \in Attributes |-> binding[a]] /\ \A a \in Attributes : binding[a] = Unbound
      BY ValueConstants DEF ValuesInit
    <2>2. \A a \in Attributes : options[a] = <<>>
      BY DEF ValuesInit
    <2>3. options \in [Attributes -> Seq(OptionRecord)]
      BY DEF ValuesInit
    <2> QED  BY <2>1, <2>2, <2>3 DEF SchemaFits
  <1>3. InsertValues({}) = {}
    BY DEF InsertValues
  <1>4. \A p \in Places : DOMAIN attrs[p] = {}
    BY DEF ValuesInit
  <1>5. Complete
    BY DEF ValuesInit, Complete
  <1> QED  BY <1>1, <1>2, <1>3, <1>4, <1>5 DEF ValuesInv, Stored, OneEach, Leveled, Projected, ValuesInit

\* ToInput: nothing of what is stored is left out.
LEMMA ReadIs ==
    ASSUME ValuesInv
    PROVE  /\ ToInput = [p \in Places |-> [a \in Attributes |-> ToInput[p][a]]]
           /\ \A v \in View : v.place \in Places /\ v.attr \in Attributes /\ ToInput[v.place][v.attr] = ApiValue(v.attr, v)
           /\ \A p \in Places, a \in Attributes : ToInput[p][a] # Null =>
                \E v \in View : v.attr = a /\ v.place = p /\ ToInput[p][a] = ApiValue(v.attr, v)
  <1>1. Shown = View
    BY DEF ValuesInv, Leveled, Shown
  <1>2. \A p \in Places, a \in Attributes :
          ToInput[p][a] = IF \E v \in {v \in View : v.place = p} : v.attr = a
                          THEN ApiValue(a, CHOOSE v \in {v \in View : v.place = p} : v.attr = a) ELSE Null
    BY <1>1 DEF ToInput, RawValues
  <1>3. ASSUME NEW v \in View
        PROVE  v.place \in Places /\ v.attr \in Attributes
               /\ (CHOOSE w \in {w \in View : w.place = v.place} : w.attr = v.attr) = v
    BY DEF ValuesInv, Stored, OneEach, Fits
  <1>4. \A v \in View : v.place \in Places /\ v.attr \in Attributes /\ ToInput[v.place][v.attr] = ApiValue(v.attr, v)
    BY <1>2, <1>3
  <1>5. ToInput = [p \in Places |-> [a \in Attributes |-> ToInput[p][a]]]
    <2>1. ASSUME NEW p \in Places  PROVE ToInput[p] = [a \in Attributes |-> ToInput[p][a]]
      BY DEF ToInput, RawValues
    <2> QED  BY <2>1 DEF ToInput
  <1>6. ASSUME NEW p \in Places, NEW a \in Attributes, ToInput[p][a] # Null
        PROVE  \E v \in View : v.attr = a /\ v.place = p /\ ToInput[p][a] = ApiValue(v.attr, v)
    <2>1. \E v \in {v \in View : v.place = p} : v.attr = a
      BY <1>2, <1>6
    <2> QED  BY <2>1, <1>4
  <1> QED  BY <1>4, <1>5, <1>6

\* Saving what was read: accepted, and the same values.
LEMMA SavesAsRead ==
    ASSUME ValuesInv
    PROVE  /\ Accepts(ToInput, published /\ ~ raised)
           /\ Values(ToInput) = View
  <1>1. ASSUME NEW v \in View
        PROVE  /\ Fits(v) /\ ApiValue(v.attr, v) # Null /\ Decodes(v.attr, ApiValue(v.attr, v))
               /\ DecodeValue(v.attr, v.place, ApiValue(v.attr, v)) = v
               /\ binding[v.attr] # Unbound /\ v.place \in AtLevel(v.attr)
    <2>1. SchemaFits /\ Fits(v)
      BY DEF ValuesInv, Stored, OneEach
    <2> QED  BY <2>1, ApiRenders, DecodesBack DEF ValuesInv, Leveled
  <1>2. Accepts(ToInput, published /\ ~ raised)
    <2>1. ASSUME NEW p \in Places, NEW a \in Attributes, ToInput[p][a] # Null
          PROVE  binding[a] # Unbound /\ p \in AtLevel(a) /\ Decodes(a, ToInput[p][a])
      BY <1>1, <2>1, ReadIs
    <2>2. ASSUME published, ~ raised, NEW a \in Attributes, binding[a] # Unbound, binding[a].required,
                 NEW p \in AtLevel(a)
          PROVE  ToInput[p][a] # Null
      <3>1. PICK v \in View : v.attr = a /\ v.place = p
        BY <2>2 DEF ValuesInv, Complete
      <3> QED  BY <1>1, <3>1, ReadIs
    <2> QED  BY <2>1, <2>2 DEF Accepts
  <1>3. \A v \in View : v \in Values(ToInput)
    <2>1. SUFFICES ASSUME NEW v \in View  PROVE v \in Values(ToInput)
      OBVIOUS
    <2>2. <<v.place, v.attr>> \in {x \in Places \X Attributes : ToInput[x[1]][x[2]] # Null}
      BY <1>1, ReadIs
    <2> QED  BY <1>1, <2>2, ReadIs DEF Values
  <1>4. \A d \in Values(ToInput) : d \in View
    BY <1>1, ReadIs DEF Values
  <1> QED  BY <1>2, <1>3, <1>4

LEMMA RendersSame ==
    ASSUME NEW v, Fits(v), NEW x, NEW y, Renders(x, v), Renders(y, v)
    PROVE  Same(x, y)
  <1>1. x.shape = Shape[type[v.attr]] /\ y.shape = Shape[type[v.attr]]
    BY DEF Renders
  <1>2. CASE UsesOptions(v.attr)
    <2>1. x.of \in Seq(Tokens) /\ y.of \in Seq(Tokens) /\ ToSet(x.of) = ToSet(y.of)
      BY <1>2 DEF Renders
    <2>2. ASSUME x.shape # "array"  PROVE x.of = y.of
      <3>1. Len(x.of) = 1 /\ Len(y.of) = 1
        BY <1>1, <1>2, <2>2, ValueConstants DEF Renders
      <3>2. ToSet(x.of) = {x.of[1]} /\ ToSet(y.of) = {y.of[1]}
        BY <2>1, <3>1 DEF ToSet
      <3>3. x.of[1] = y.of[1]
        <4>1. {x.of[1]} = {y.of[1]}
          BY <2>1, <3>2
        <4> QED  BY <4>1
      <3> QED  BY <2>1, <3>1, <3>3
    <2> QED  BY <1>1, <2>1, <2>2 DEF Same
  <1>3. CASE ~ UsesOptions(v.attr)
    BY <1>1, <1>3 DEF Same, Renders
  <1> QED  BY <1>2, <1>3

LEMMA SavedAsReadHolds ==
    ValuesInv => SavedAsRead
  <1> SUFFICES ASSUME ValuesInv  PROVE SavedAsRead
    OBVIOUS
  <1>1. Accepts(ToInput, published /\ ~ raised) /\ InsertValues(Values(ToInput)) = rows
    BY SavesAsRead DEF ValuesInv, Stored
  <1>2. ASSUME NEW p \in Places
        PROVE  LET shows == Projection(View, p, binding)
               IN DOMAIN shows = DOMAIN attrs[p] /\ \A a \in DOMAIN shows : Same(shows[a], attrs[p][a])
    <2> DEFINE shows == Projection(View, p, binding)
    <2>0. OneEach(View) /\ SchemaFits
      BY DEF ValuesInv, Stored
    <2>1. /\ \A a : a \in DOMAIN shows <=> \E v \in View : v.place = p /\ binding[v.attr] # Unbound /\ v.attr = a
          /\ \A v \in View : v.place = p /\ binding[v.attr] # Unbound => shows[v.attr] = ApiValue(v.attr, v)
      BY <2>0, ProjectionIs
    <2> HIDE DEF shows
    <2>2. \A v \in View : binding[v.attr] # Unbound
      BY DEF ValuesInv, Leveled
    <2>3. \A a : a \in DOMAIN shows <=> \E v \in View : v.place = p /\ v.attr = a
      BY <2>1, <2>2
    <2>4. ASSUME NEW v \in View, v.place = p  PROVE Same(shows[v.attr], attrs[p][v.attr])
      <3>1. Fits(v) /\ Renders(shows[v.attr], v)
        BY <2>0, <2>1, <2>2, <2>4, ApiRenders DEF OneEach
      <3>2. Renders(attrs[p][v.attr], v)
        BY <2>4 DEF ValuesInv, Projected
      <3> QED  BY <3>1, <3>2, RendersSame
    <2>5. DOMAIN attrs[p] = DOMAIN shows
      <3>1. \A a : a \in DOMAIN attrs[p] <=> \E v \in View : v.place = p /\ v.attr = a
        BY DEF ValuesInv, Projected
      <3> QED  BY <2>3, <3>1, Zenon
    <2> QED  BY <2>3, <2>4, <2>5 DEF shows
  <1> QED  BY <1>1, <1>2 DEF SavedAsRead

\* New rows, with projections of what they store.
LEMMA RowsRewritten ==
    ASSUME SchemaFits, SchemaFits', UNCHANGED <<type, options>>, NEW values, OneEach(values),
           rows' = InsertValues(values),
           \A v \in values : binding'[v.attr] # Unbound /\ v.place \in AtLevel(v.attr)',
           \A p \in Places : \A a : a \in DOMAIN attrs'[p] <=> \E v \in values : v.place = p /\ v.attr = a,
           \A v \in values : Renders(attrs'[v.place][v.attr], v),
           published' /\ ~ raised' =>
               \A a \in Attributes : binding'[a] # Unbound /\ binding'[a].required =>
                   \A p \in AtLevel(a)' : \E v \in values : v.attr = a /\ v.place = p
    PROVE  ValuesInv'
  <1>1. View' = values
    BY LoadsBack DEF View
  <1>2. \A v : Fits(v)' <=> Fits(v)
    BY DEF Fits, UsesOptions
  <1>3. \A v, json : Renders(json, v) => Renders(json, v)'
    BY DEF Renders, UsesOptions, Chosen
  <1>4. Stored'
    BY <1>1, <1>2 DEF Stored, OneEach
  <1>5. Leveled'
    BY <1>1 DEF Leveled
  <1>6. Projected'
    BY <1>1, <1>3 DEF Projected
  <1>7. Complete'
    BY <1>1 DEF Complete
  <1> QED  BY <1>4, <1>5, <1>6, <1>7 DEF ValuesInv

LEMMA SaveKeeps ==
    ASSUME ValuesInv, Save
    PROVE  ValuesInv'
  <1>0. SchemaFits /\ OneEach(View)
    BY DEF ValuesInv, Stored
  <1> DEFINE saves(p, a, json, publishing) ==
               LET doc == [ToInput EXCEPT ![p][a] = json]
               IN /\ Accepts(doc, publishing)
                  /\ rows' = InsertValues(Values(doc))
                  /\ attrs' = [q \in Places |-> Projection(Values(doc), q, binding)]
                  /\ published' = publishing /\ raised' = FALSE
                  /\ UNCHANGED <<type, options, unit, binding>>
  <1>1. \E p \in Places, a \in Attributes : \E json \in Json[type[a]], publishing \in BOOLEAN :
          saves(p, a, json, publishing)
    BY DEF Save
  <1>2. PICK p \in Places, a \in Attributes : \E json \in Json[type[a]], publishing \in BOOLEAN :
          saves(p, a, json, publishing)
    BY <1>1
  <1>21. PICK json \in Json[type[a]], publishing \in BOOLEAN : saves(p, a, json, publishing)
    BY <1>2
  <1> DEFINE doc == [ToInput EXCEPT ![p][a] = json]
             values == Values(doc)
             value(q, b) == DecodeValue(b, q, doc[q][b])
  <1>3. /\ Accepts(doc, publishing) /\ rows' = InsertValues(values)
        /\ attrs' = [q \in Places |-> Projection(values, q, binding)]
        /\ published' = publishing /\ raised' = FALSE
        /\ UNCHANGED <<type, options, unit, binding>>
    BY <1>21
  <1> HIDE DEF saves
  <1>4. ASSUME NEW q \in Places, NEW b \in Attributes
        PROVE  doc[q][b] = IF q = p /\ b = a THEN json ELSE ToInput[q][b]
    <2>1. ToInput = [x \in Places |-> [y \in Attributes |-> ToInput[x][y]]]
      BY ReadIs
    <2> QED  BY <2>1
  <1>5. json.shape \in DOMAIN Contents /\ json.of \in Contents[json.shape]
    BY <1>0, OptionsTyped, ValuesAssumption
  <1> HIDE DEF doc
  <1>6. ASSUME NEW q \in Places, NEW b \in Attributes, doc[q][b] # Null
        PROVE  /\ Fits(value(q, b)) /\ value(q, b).attr = b /\ value(q, b).place = q
               /\ binding[b] # Unbound /\ q \in AtLevel(b)
    <2>1. binding[b] # Unbound /\ q \in AtLevel(b) /\ Decodes(b, doc[q][b])
      BY <1>3, <1>6 DEF Accepts
    <2>2. CASE q = p /\ b = a
      BY <1>0, <1>4, <1>5, <2>1, <2>2, DecodedFits
    <2>3. CASE ~ (q = p /\ b = a)
      <3>1. doc[q][b] = ToInput[q][b]
        BY <1>4, <2>3
      <3>2. PICK v \in View : v.attr = b /\ v.place = q /\ ToInput[q][b] = ApiValue(v.attr, v)
        BY <1>6, <3>1, ReadIs
      <3>3. Fits(v)
        BY <1>0 DEF OneEach
      <3>4. DecodeValue(v.attr, v.place, ApiValue(v.attr, v)) = v
        BY <1>0, <3>3, ApiRenders, DecodesBack
      <3> QED  BY <2>1, <3>1, <3>2, <3>3, <3>4
    <2> QED  BY <2>2, <2>3
  <1>7. \A v : v \in values <=> \E q \in Places, b \in Attributes : doc[q][b] # Null /\ v = value(q, b)
    <2>1. ASSUME NEW q \in Places, NEW b \in Attributes, doc[q][b] # Null
          PROVE  value(q, b) \in values
      <3>1. <<q, b>> \in {x \in Places \X Attributes : doc[x[1]][x[2]] # Null}
        BY <2>1
      <3> QED  BY <3>1 DEF Values
    <2>2. ASSUME NEW v \in values
          PROVE  \E q \in Places, b \in Attributes : doc[q][b] # Null /\ v = value(q, b)
      BY DEF Values
    <2> QED  BY <2>1, <2>2
  <1> HIDE DEF values, value
  <1>8. OneEach(values) /\ \A v \in values : binding[v.attr] # Unbound /\ v.place \in AtLevel(v.attr)
    BY <1>6, <1>7 DEF OneEach
  <1>9. \A q \in Places : \A b : b \in DOMAIN attrs'[q] <=> \E v \in values : v.place = q /\ v.attr = b
    BY <1>3, <1>8, ProjectionIs
  <1>10. \A v \in values : Renders(attrs'[v.place][v.attr], v)
    <2>1. SUFFICES ASSUME NEW v \in values  PROVE Renders(attrs'[v.place][v.attr], v)
      OBVIOUS
    <2>2. v.place \in Places /\ Fits(v)
      BY <1>8 DEF OneEach, Fits
    <2>3. attrs'[v.place][v.attr] = ApiValue(v.attr, v)
      BY <1>3, <1>8, <2>2, ProjectionIs
    <2> QED  BY <1>0, <2>2, <2>3, ApiRenders
  <1>11. SchemaFits' /\ \A b : AtLevel(b)' = AtLevel(b)
    BY <1>0, <1>3 DEF SchemaFits, AtLevel
  <1>12. ASSUME published', NEW b \in Attributes, binding[b] # Unbound, binding[b].required, NEW q \in AtLevel(b)
         PROVE  \E v \in values : v.attr = b /\ v.place = q
    <2>1. q \in Places /\ doc[q][b] # Null
      BY <1>3, <1>12, ValuesAssumption DEF Accepts, AtLevel
    <2> QED  BY <1>6, <1>7, <2>1
  <1> QED  BY <1>0, <1>3, <1>8, <1>9, <1>10, <1>11, <1>12, RowsRewritten

LEMMA BindKeeps ==
    ASSUME ValuesInv, NEW a \in Attributes, BindAttribute(a)
    PROVE  ValuesInv'
  <1>1. PICK b \in Bindings[a] :
          /\ binding[a] # Unbound /\ HasValues(a) => binding[a].level = b.level
          /\ binding' = [binding EXCEPT ![a] = b]
          /\ raised' = (raised \/ (published /\ b.required /\ b # binding[a]))
    BY DEF BindAttribute
  <1>2. View' = View /\ UNCHANGED <<type, options, unit, rows, attrs, published>>
    BY DEF BindAttribute, View
  <1>3. b # Unbound /\ SchemaFits
    BY ValuesAssumption DEF ValuesInv
  <1>4. SchemaFits'
    BY <1>1, <1>2, <1>3 DEF SchemaFits
  <1>5. \A v \in View : HasValues(v.attr) /\ v.attr \in Attributes
    <2>1. SUFFICES ASSUME NEW v \in View  PROVE HasValues(v.attr) /\ v.attr \in Attributes
      OBVIOUS
    <2>2. \E o : Row(v, o) \in InsertValues(View)
      BY DEF InsertValues
    <2> QED  BY <2>2 DEF HasValues, Row, ValuesInv, Stored, OneEach, Fits
  <1>6. /\ binding'[a] = b
        /\ \A x \in Attributes : x # a => binding'[x] = binding[x] /\ AtLevel(x)' = AtLevel(x)
    BY <1>1, <1>3 DEF SchemaFits, AtLevel
  <1>7. Leveled'
    <2>1. ASSUME NEW v \in View  PROVE binding'[v.attr] # Unbound /\ v.place \in AtLevel(v.attr)'
      <3>1. binding[v.attr] # Unbound /\ v.place \in AtLevel(v.attr) /\ HasValues(v.attr) /\ v.attr \in Attributes
        BY <1>5 DEF ValuesInv, Leveled
      <3>2. CASE v.attr = a
        BY <1>1, <1>3, <1>6, <3>1, <3>2 DEF AtLevel
      <3> QED  BY <1>6, <3>1, <3>2
    <2> QED  BY <1>2, <2>1 DEF Leveled
  <1>8. Stored' /\ Projected'
    <2>1. \A v : Fits(v)' <=> Fits(v)
      BY <1>2 DEF Fits, UsesOptions
    <2>2. \A v, json : Renders(json, v)' <=> Renders(json, v)
      BY <1>2 DEF Renders, UsesOptions, Chosen
    <2>3. OneEach(View)'
      BY <1>2, <2>1 DEF ValuesInv, Stored, OneEach
    <2> QED  BY <1>2, <2>2, <2>3 DEF ValuesInv, Stored, Projected
  <1>9. Complete'
    <2>1. SUFFICES ASSUME published, ~ raised', NEW x \in Attributes,
                          binding'[x] # Unbound, binding'[x].required, NEW p \in AtLevel(x)'
                   PROVE  \E v \in View : v.attr = x /\ v.place = p
      BY <1>2 DEF Complete
    <2>2. binding'[x] = binding[x] /\ ~ raised
      BY <1>1, <1>6, <2>1
    <2>3. AtLevel(x)' = AtLevel(x)
      BY <2>2 DEF AtLevel
    <2> QED  BY <2>1, <2>2, <2>3 DEF ValuesInv, Complete
  <1> QED  BY <1>4, <1>7, <1>8, <1>9 DEF ValuesInv

LEMMA UnbindKeeps ==
    ASSUME ValuesInv, NEW a \in Attributes, UnbindAttribute(a)
    PROVE  ValuesInv'
  <1> DEFINE values == {v \in View : v.attr # a}
  <1>1. /\ binding' = [binding EXCEPT ![a] = Unbound] /\ rows' = {r \in rows : r.attr # a}
        /\ UNCHANGED <<type, options, unit, published, raised>>
    BY DEF UnbindAttribute
  <1>2. SchemaFits /\ OneEach(View) /\ rows = InsertValues(View)
    BY DEF ValuesInv, Stored
  <1>3. OneEach(values)
    BY <1>2 DEF OneEach
  <1>4. SchemaFits'
    BY <1>1, <1>2 DEF SchemaFits
  <1>5. InsertValues(values) = {r \in InsertValues(View) : r.attr # a}
    <2>1. \A v, o : Row(v, o).attr = v.attr
      BY DEF Row
    <2> QED  BY <2>1 DEF InsertValues
  <1>6. \A v \in View : v.attr \in Attributes /\ v.place \in Places
    BY <1>2 DEF OneEach, Fits
  <1>7. \A v \in values : binding'[v.attr] = binding[v.attr] /\ binding[v.attr] # Unbound /\ v.place \in AtLevel(v.attr)'
    BY <1>1, <1>2, <1>6 DEF SchemaFits, ValuesInv, Leveled, AtLevel
  <1>71. published' /\ ~ raised' =>
           \A b \in Attributes : binding'[b] # Unbound /\ binding'[b].required =>
               \A p \in AtLevel(b)' : \E v \in values : v.attr = b /\ v.place = p
    <2>1. SUFFICES ASSUME published, ~ raised, NEW b \in Attributes, binding'[b] # Unbound, binding'[b].required,
                          NEW p \in AtLevel(b)'
                   PROVE  \E v \in values : v.attr = b /\ v.place = p
      BY <1>1
    <2>2. b # a /\ binding'[b] = binding[b]
      BY <1>1, <1>2, <2>1 DEF SchemaFits
    <2>3. AtLevel(b)' = AtLevel(b)
      BY <2>2 DEF AtLevel
    <2>4. PICK v \in View : v.attr = b /\ v.place = p
      BY <2>1, <2>2, <2>3 DEF ValuesInv, Complete
    <2> QED  BY <2>2, <2>4
  <1>8. CASE HasValues(a)
    <2>1. attrs' = [p \in Places |-> Projection(values, p, binding')]
      BY <1>1, <1>2, <1>3, <1>5, <1>8, LoadsBack DEF UnbindAttribute
    <2> HIDE DEF values
    <2>2. \A p \in Places : \A b : b \in DOMAIN attrs'[p] <=> \E v \in values : v.place = p /\ v.attr = b
      BY <1>3, <1>7, <2>1, ProjectionIs
    <2>3. \A v \in values : Renders(attrs'[v.place][v.attr], v)
      <3>1. SUFFICES ASSUME NEW v \in values  PROVE Renders(attrs'[v.place][v.attr], v)
        OBVIOUS
      <3>2. v.place \in Places /\ Fits(v)
        BY <1>3 DEF OneEach, Fits
      <3>3. attrs'[v.place][v.attr] = ApiValue(v.attr, v)
        BY <1>3, <1>7, <2>1, <3>2, ProjectionIs
      <3> QED  BY <1>2, <3>2, <3>3, ApiRenders
    <2> QED  BY <1>1, <1>2, <1>3, <1>4, <1>5, <1>7, <1>71, <2>2, <2>3, RowsRewritten
  <1>9. CASE ~ HasValues(a)
    <2>1. values = View
      <3>1. ASSUME NEW v \in View, v.attr = a  PROVE FALSE
        <4>1. \E o : Row(v, o) \in InsertValues(View)
          BY DEF InsertValues
        <4> QED  BY <1>2, <1>9, <3>1, <4>1 DEF HasValues, Row
      <3> QED  BY <3>1
    <2>2. attrs' = attrs
      BY <1>9 DEF UnbindAttribute
    <2>3. /\ \A p \in Places : \A b : b \in DOMAIN attrs'[p] <=> \E v \in values : v.place = p /\ v.attr = b
          /\ \A v \in values : Renders(attrs'[v.place][v.attr], v)
      BY <2>1, <2>2 DEF ValuesInv, Projected
    <2> HIDE DEF values
    <2> QED  BY <1>1, <1>2, <1>3, <1>4, <1>5, <1>7, <1>71, <2>3, RowsRewritten
  <1> QED  BY <1>8, <1>9

-----------------------------------------------------------------------------
(* Options.                                                                *)

LEMMA Inserted ==
    ASSUME NEW S, NEW s \in Seq(S), NEW e \in S, NEW i \in 1..(Len(s) + 1)
    PROVE  /\ InsertAt(s, i, e) \in Seq(S)
           /\ Len(InsertAt(s, i, e)) = Len(s) + 1
           /\ \A j \in 1..(Len(s) + 1) :
                InsertAt(s, i, e)[j] = IF j < i THEN s[j] ELSE IF j = i THEN e ELSE s[j - 1]
  <1> DEFINE front == SubSeq(s, 1, i - 1)
             back == SubSeq(s, i, Len(s))
  <1>1. front \in Seq(S) /\ Len(front) = i - 1 /\ \A j \in 1..(i - 1) : front[j] = s[j]
    OBVIOUS
  <1>2. back \in Seq(S) /\ Len(back) = Len(s) - i + 1 /\ \A j \in 1..(Len(s) - i + 1) : back[j] = s[i + j - 1]
    OBVIOUS
  <1>3. InsertAt(s, i, e) = (front \o <<e>>) \o back
    BY DEF InsertAt
  <1> HIDE DEF front, back
  <1>4. /\ front \o <<e>> \in Seq(S) /\ Len(front \o <<e>>) = i
        /\ \A j \in 1..i : (front \o <<e>>)[j] = IF j < i THEN s[j] ELSE e
    BY <1>1
  <1> DEFINE head == front \o <<e>>
  <1> HIDE DEF head
  <1>5. head \in Seq(S) /\ Len(head) = i /\ \A j \in 1..i : head[j] = IF j < i THEN s[j] ELSE e
    BY <1>4 DEF head
  <1>6. /\ head \o back \in Seq(S) /\ Len(head \o back) = Len(s) + 1
        /\ \A j \in 1..(Len(s) + 1) : (head \o back)[j] = IF j <= i THEN head[j] ELSE back[j - i]
    <2>1. /\ head \o back \in Seq(S) /\ Len(head \o back) = Len(head) + Len(back)
          /\ \A j \in 1..(Len(head) + Len(back)) :
               (head \o back)[j] = IF j <= Len(head) THEN head[j] ELSE back[j - Len(head)]
      BY <1>2, <1>5, ConcatProperties
    <2>2. Len(head) + Len(back) = Len(s) + 1
      BY <1>2, <1>5
    <2> QED  BY <1>5, <2>1, <2>2
  <1>7. \A j \in 1..(Len(s) + 1) : j > i => back[j - i] = s[j - 1]
    BY <1>2
  <1>8. ASSUME NEW j \in 1..(Len(s) + 1)
        PROVE  (head \o back)[j] = IF j < i THEN s[j] ELSE IF j = i THEN e ELSE s[j - 1]
    <2>1. CASE j <= i
      <3>1. j \in 1..i /\ (head \o back)[j] = head[j]
        BY <1>6, <2>1
      <3>2. head[j] = IF j < i THEN s[j] ELSE e
        BY <1>5, <3>1
      <3> QED  BY <2>1, <3>1, <3>2
    <2>2. CASE j > i
      <3>1. (head \o back)[j] = back[j - i] /\ back[j - i] = s[j - 1]
        BY <1>6, <1>7, <2>2
      <3> QED  BY <2>2, <3>1
    <2>3. j <= i \/ j > i
      OBVIOUS
    <2> QED  BY <2>1, <2>2, <2>3
  <1> QED  BY <1>3, <1>6, <1>8 DEF head

LEMMA Removed ==
    ASSUME NEW S, NEW s \in Seq(S), NEW i \in 1..Len(s)
    PROVE  /\ RemoveAt(s, i) \in Seq(S)
           /\ Len(RemoveAt(s, i)) = Len(s) - 1
           /\ \A j \in 1..(Len(s) - 1) : RemoveAt(s, i)[j] = IF j < i THEN s[j] ELSE s[j + 1]
  <1> DEFINE front == SubSeq(s, 1, i - 1)
             back == SubSeq(s, i + 1, Len(s))
  <1>1. front \in Seq(S) /\ Len(front) = i - 1 /\ \A j \in 1..(i - 1) : front[j] = s[j]
    OBVIOUS
  <1>2. back \in Seq(S) /\ Len(back) = Len(s) - i /\ \A j \in 1..(Len(s) - i) : back[j] = s[i + j]
    OBVIOUS
  <1>3. RemoveAt(s, i) = front \o back
    BY DEF RemoveAt
  <1> HIDE DEF front, back
  <1>4. /\ front \o back \in Seq(S) /\ Len(front \o back) = Len(s) - 1
        /\ \A j \in 1..(Len(s) - 1) : (front \o back)[j] = IF j < i THEN front[j] ELSE back[j - i + 1]
    <2>1. /\ front \o back \in Seq(S) /\ Len(front \o back) = Len(front) + Len(back)
          /\ \A j \in 1..(Len(front) + Len(back)) :
               (front \o back)[j] = IF j <= Len(front) THEN front[j] ELSE back[j - Len(front)]
      BY <1>1, <1>2, ConcatProperties
    <2>2. Len(front) + Len(back) = Len(s) - 1
      BY <1>1, <1>2
    <2>3. \A j \in 1..(Len(s) - 1) : (j <= Len(front) <=> j < i) /\ j - Len(front) = j - i + 1
      BY <1>1
    <2> QED  BY <2>1, <2>2, <2>3
  <1>5. \A j \in 1..(Len(s) - 1) : j >= i => back[j - i + 1] = s[j + 1]
    BY <1>2
  <1> QED  BY <1>1, <1>3, <1>4, <1>5

\* No two options have the same id or the same value.
Apart(s) == \A i, k \in DOMAIN s : s[i].id = s[k].id \/ s[i].value = s[k].value => i = k

LEMMA InsertedApart ==
    ASSUME NEW S, NEW s \in Seq(S), NEW e \in S, NEW i \in 1..(Len(s) + 1), Apart(s),
           \A o \in ToSet(s) : o.id # e.id /\ o.value # e.value
    PROVE  /\ InsertAt(s, i, e) \in Seq(S) /\ Apart(InsertAt(s, i, e))
           /\ ToSet(InsertAt(s, i, e)) = ToSet(s) \cup {e}
  <1> DEFINE t == InsertAt(s, i, e)
             came(x) == IF x < i THEN x ELSE x - 1
             to(x) == IF x < i THEN x ELSE x + 1
  <1>1. /\ t \in Seq(S) /\ DOMAIN t = 1..(Len(s) + 1)
        /\ \A j \in 1..(Len(s) + 1) : t[j] = IF j < i THEN s[j] ELSE IF j = i THEN e ELSE s[j - 1]
    <2>1. /\ t \in Seq(S) /\ Len(t) = Len(s) + 1
          /\ \A j \in 1..(Len(s) + 1) : t[j] = IF j < i THEN s[j] ELSE IF j = i THEN e ELSE s[j - 1]
      <3> USE DEF t
      <3>1. t \in Seq(S)
        BY Inserted, Zenon
      <3>2. Len(t) = Len(s) + 1
        BY Inserted, SMT
      <3>3. \A j \in 1..(Len(s) + 1) : t[j] = IF j < i THEN s[j] ELSE IF j = i THEN e ELSE s[j - 1]
        BY Inserted, SMT
      <3> QED  BY <3>1, <3>2, <3>3, Zenon
    <2> HIDE DEF t
    <2> QED  BY <2>1
  <1> HIDE DEF t
  <1>2. t[i] = e /\ i \in DOMAIN t
    BY <1>1
  <1>3. ASSUME NEW j \in DOMAIN t, j # i  PROVE t[j] = s[came(j)] /\ came(j) \in DOMAIN s
    <2>1. j \in 1..(Len(s) + 1) /\ t[j] = IF j < i THEN s[j] ELSE s[j - 1]
      BY <1>1, <1>3
    <2> QED  BY <1>3, <2>1
  <1>4. ASSUME NEW j \in DOMAIN s  PROVE s[j] = t[to(j)] /\ to(j) \in DOMAIN t
    <2>1. j \in 1..Len(s)
      OBVIOUS
    <2>2. to(j) \in DOMAIN t
      BY <1>1, <2>1
    <2>3. to(j) # i /\ came(to(j)) = j
      BY <2>1
    <2> QED  BY <1>3, <2>2, <2>3
  <1>5. \A j, k \in DOMAIN t : came(j) = came(k) /\ j # i /\ k # i => j = k
    BY <1>1
  <1> HIDE DEF came, to
  <1>6. ToSet(t) = ToSet(s) \cup {e}
    <2>1. ToSet(t) \subseteq ToSet(s) \cup {e}
      BY <1>2, <1>3 DEF ToSet
    <2>2. ToSet(s) \subseteq ToSet(t)
      BY <1>4 DEF ToSet
    <2>3. e \in ToSet(t)
      BY <1>2 DEF ToSet
    <2> QED  BY <2>1, <2>2, <2>3
  <1>7. \A x \in DOMAIN s : s[x].id # e.id /\ s[x].value # e.value
    BY DEF ToSet
  <1>8. ASSUME NEW j \in DOMAIN t, NEW k \in DOMAIN t, t[j].id = t[k].id \/ t[j].value = t[k].value
        PROVE  j = k
    <2>1. CASE j # i /\ k # i
      <3>1. came(j) = came(k)
        BY <1>3, <1>8, <2>1 DEF Apart
      <3> QED  BY <1>5, <2>1, <3>1
    <2>2. CASE j = i /\ k # i
      BY <1>2, <1>3, <1>7, <1>8, <2>2
    <2>3. CASE j # i /\ k = i
      BY <1>2, <1>3, <1>7, <1>8, <2>3
    <2> QED  BY <2>1, <2>2, <2>3
  <1> QED  BY <1>1, <1>6, <1>8 DEF Apart, t

LEMMA RemovedApart ==
    ASSUME NEW S, NEW s \in Seq(S), NEW i \in 1..Len(s), Apart(s)
    PROVE  /\ RemoveAt(s, i) \in Seq(S) /\ Len(RemoveAt(s, i)) = Len(s) - 1 /\ Apart(RemoveAt(s, i))
           /\ ToSet(RemoveAt(s, i)) = ToSet(s) \ {s[i]}
           /\ \A o \in ToSet(RemoveAt(s, i)) : o.id # s[i].id /\ o.value # s[i].value
  <1> DEFINE t == RemoveAt(s, i)
             came(x) == IF x < i THEN x ELSE x + 1
             to(x) == IF x < i THEN x ELSE x - 1
  <1>1. /\ t \in Seq(S) /\ Len(t) = Len(s) - 1 /\ DOMAIN t = 1..(Len(s) - 1)
        /\ \A j \in 1..(Len(s) - 1) : t[j] = IF j < i THEN s[j] ELSE s[j + 1]
    <2>1. /\ t \in Seq(S) /\ Len(t) = Len(s) - 1
          /\ \A j \in 1..(Len(s) - 1) : t[j] = IF j < i THEN s[j] ELSE s[j + 1]
      BY Removed
    <2> HIDE DEF t
    <2> QED  BY <2>1
  <1> HIDE DEF t
  <1>2. ASSUME NEW j \in DOMAIN t
        PROVE  t[j] = s[came(j)] /\ came(j) \in DOMAIN s /\ came(j) # i
    <2>1. j \in 1..(Len(s) - 1) /\ t[j] = IF j < i THEN s[j] ELSE s[j + 1]
      BY <1>1
    <2> QED  BY <2>1
  <1>3. ASSUME NEW j \in DOMAIN s, j # i  PROVE s[j] = t[to(j)] /\ to(j) \in DOMAIN t
    <2>1. j \in 1..Len(s)
      OBVIOUS
    <2>2. to(j) \in DOMAIN t /\ came(to(j)) = j
      BY <1>1, <1>3, <2>1
    <2> QED  BY <1>2, <2>2
  <1>4. \A j, k \in DOMAIN t : came(j) = came(k) => j = k
    BY <1>1
  <1>0. i \in DOMAIN s
    OBVIOUS
  <1> HIDE DEF came, to
  <1>5. ASSUME NEW o \in ToSet(t)  PROVE o \in ToSet(s) /\ o.id # s[i].id /\ o.value # s[i].value
    <2>1. PICK j \in DOMAIN t : o = t[j]
      BY DEF ToSet
    <2>2. o = s[came(j)] /\ came(j) \in DOMAIN s /\ came(j) # i
      BY <1>2, <2>1
    <2> QED  BY <1>0, <2>2 DEF ToSet, Apart
  <1>6. ASSUME NEW o \in ToSet(s), o # s[i]  PROVE o \in ToSet(t)
    <2>1. PICK j \in DOMAIN s : o = s[j]
      BY DEF ToSet
    <2> QED  BY <1>3, <1>6, <2>1 DEF ToSet
  <1>7. Apart(t)
    BY <1>2, <1>4 DEF Apart
  <1>8. ToSet(t) = ToSet(s) \ {s[i]}
    BY <1>5, <1>6
  <1> QED  BY <1>1, <1>5, <1>7, <1>8 DEF t

\* Of every value stored, the options it refers to keep their values.
OptionsKept ==
    \A v \in View : UsesOptions(v.attr) =>
        \A x \in v.options : \A w :
            (\E o \in ToSet(options[v.attr]) : o.id = x /\ o.value = w)
              <=> (\E o \in ToSet(options'[v.attr]) : o.id = x /\ o.value = w)

LEMMA OptionsRewritten ==
    ASSUME ValuesInv, SchemaFits', UNCHANGED <<type, binding, rows, attrs, published, raised>>, OptionsKept
    PROVE  ValuesInv'
  <1>1. View' = View
    BY DEF View
  <1>2. ASSUME NEW v \in View  PROVE Fits(v)'
    <2>1. Fits(v)
      BY DEF ValuesInv, Stored, OneEach
    <2>2. CASE UsesOptions(v.attr)
      <3>1. ASSUME NEW x \in v.options  PROVE \E o \in ToSet(options'[v.attr]) : o.id = x
        <4>1. PICK o \in ToSet(options[v.attr]) : o.id = x
          BY <2>1, <2>2 DEF Fits
        <4> QED  BY <2>2, <4>1 DEF OptionsKept
      <3> QED  BY <2>1, <2>2, <3>1 DEF Fits, UsesOptions
    <2>3. CASE ~ UsesOptions(v.attr)
      BY <2>1, <2>3 DEF Fits, UsesOptions
    <2> QED  BY <2>2, <2>3
  <1>3. ASSUME NEW v \in View, NEW json, Renders(json, v)  PROVE Renders(json, v)'
    <2>1. CASE UsesOptions(v.attr)
      <3>1. {o.value : o \in Chosen(v)} = {o.value : o \in Chosen(v)'}
        <4>1. \A w : (\E o \in Chosen(v) : o.value = w) <=> (\E o \in Chosen(v)' : o.value = w)
          BY <2>1 DEF OptionsKept, Chosen
        <4> QED  BY <4>1
      <3> QED  BY <1>3, <2>1, <3>1 DEF Renders, UsesOptions
    <2>2. CASE ~ UsesOptions(v.attr)
      BY <1>3, <2>2 DEF Renders, UsesOptions
    <2> QED  BY <2>1, <2>2
  <1>4. Stored'
    BY <1>1, <1>2 DEF ValuesInv, Stored, OneEach
  <1>5. Leveled'
    BY <1>1 DEF ValuesInv, Leveled, AtLevel
  <1>6. Projected'
    BY <1>1, <1>3 DEF ValuesInv, Projected
  <1>7. Complete'
    BY <1>1 DEF ValuesInv, Complete, AtLevel
  <1> QED  BY <1>4, <1>5, <1>6, <1>7 DEF ValuesInv

LEMMA CreateKeeps ==
    ASSUME ValuesInv, NEW a \in Attributes, CreateOption(a)
    PROVE  ValuesInv'
  <1>1. PICK id \in Ids, value \in Tokens, label \in Labels, i \in 1..(Len(options[a]) + 1) :
          /\ \A o \in ToSet(options[a]) : o.id # id /\ o.value # value
          /\ options' = [options EXCEPT ![a] = InsertAt(@, i, Option(id, value, label))]
    BY DEF CreateOption
  <1> DEFINE e == Option(id, value, label)
             t == InsertAt(options[a], i, e)
  <1>2. UNCHANGED <<type, unit, binding, rows, attrs, published, raised>> /\ SchemaFits
    BY DEF CreateOption, ValuesInv
  <1>3. options[a] \in Seq(OptionRecord) /\ e \in OptionRecord /\ e.id = id /\ e.value = value
    BY <1>2, OptionsTyped DEF OptionRecord, Option
  <1>4. options' = [options EXCEPT ![a] = t] /\ options'[a] = t
    BY <1>1, <1>2 DEF SchemaFits
  <1> HIDE DEF e
  <1>5. t \in Seq(OptionRecord) /\ Apart(t) /\ ToSet(t) = ToSet(options[a]) \cup {e}
    BY <1>1, <1>2, <1>3, InsertedApart DEF SchemaFits, Apart
  <1> HIDE DEF t
  <1>6. SchemaFits'
    BY <1>2, <1>4, <1>5 DEF SchemaFits, Apart
  <1>7. OptionsKept
    <2>1. SUFFICES ASSUME NEW v \in View, UsesOptions(v.attr), NEW x \in v.options
                   PROVE  \A w : (\E o \in ToSet(options[v.attr]) : o.id = x /\ o.value = w)
                                  <=> (\E o \in ToSet(options'[v.attr]) : o.id = x /\ o.value = w)
      BY DEF OptionsKept
    <2>2. v.attr \in Attributes /\ \E o \in ToSet(options[v.attr]) : o.id = x
      BY <2>1 DEF ValuesInv, Stored, OneEach, Fits
    <2>3. CASE v.attr = a
      BY <1>1, <1>3, <1>4, <1>5, <2>2, <2>3
    <2>4. CASE v.attr # a
      BY <1>2, <1>4, <2>2, <2>4 DEF SchemaFits
    <2> QED  BY <2>3, <2>4
  <1> QED  BY <1>2, <1>6, <1>7, OptionsRewritten

LEMMA UpdateKeeps ==
    ASSUME ValuesInv, NEW a \in Attributes, UpdateOption(a)
    PROVE  ValuesInv'
  <1>1. PICK i \in DOMAIN options[a], label \in Labels, j \in DOMAIN options[a] :
          options' = [options EXCEPT ![a] =
                        InsertAt(RemoveAt(@, i), j, [options[a][i] EXCEPT !.label = label])]
    BY DEF UpdateOption
  <1> DEFINE old == options[a][i]
             new == [options[a][i] EXCEPT !.label = label]
             rest == RemoveAt(options[a], i)
             t == InsertAt(rest, j, new)
  <1>2. UNCHANGED <<type, unit, binding, rows, attrs, published, raised>> /\ SchemaFits
    BY DEF UpdateOption, ValuesInv
  <1>3. options[a] \in Seq(OptionRecord) /\ Apart(options[a]) /\ i \in 1..Len(options[a]) /\ j \in 1..Len(options[a])
    BY <1>2, OptionsTyped DEF SchemaFits, Apart
  <1>4. old \in OptionRecord /\ old \in ToSet(options[a])
    BY <1>3 DEF ToSet
  <1>5. new \in OptionRecord /\ new.id = old.id /\ new.value = old.value
    BY <1>4 DEF OptionRecord
  <1>6. options' = [options EXCEPT ![a] = t] /\ options'[a] = t
    BY <1>1, <1>2 DEF SchemaFits
  <1>7. /\ rest \in Seq(OptionRecord) /\ Len(rest) = Len(options[a]) - 1 /\ Apart(rest)
        /\ ToSet(rest) = ToSet(options[a]) \ {old}
        /\ \A o \in ToSet(rest) : o.id # old.id /\ o.value # old.value
    BY <1>3, RemovedApart
  <1> HIDE DEF old, new, rest
  <1>8. t \in Seq(OptionRecord) /\ Apart(t) /\ ToSet(t) = ToSet(rest) \cup {new}
    <2>1. j \in 1..(Len(rest) + 1)
      BY <1>3, <1>7
    <2> QED  BY <1>5, <1>7, <2>1, InsertedApart
  <1> HIDE DEF t
  <1>9. SchemaFits'
    BY <1>2, <1>6, <1>8 DEF SchemaFits, Apart
  <1>10. OptionsKept
    <2>1. SUFFICES ASSUME NEW v \in View, NEW x, NEW w
                   PROVE  (\E o \in ToSet(options[v.attr]) : o.id = x /\ o.value = w)
                            <=> (\E o \in ToSet(options'[v.attr]) : o.id = x /\ o.value = w)
      BY DEF OptionsKept
    <2>2. v.attr \in Attributes
      BY DEF ValuesInv, Stored, OneEach, Fits
    <2>3. CASE v.attr = a
      BY <1>4, <1>5, <1>6, <1>7, <1>8, <2>3
    <2>4. CASE v.attr # a
      BY <1>2, <1>6, <2>2, <2>4 DEF SchemaFits
    <2> QED  BY <2>3, <2>4
  <1> QED  BY <1>2, <1>9, <1>10, OptionsRewritten

LEMMA DeleteKeeps ==
    ASSUME ValuesInv, NEW a \in Attributes, DeleteOption(a)
    PROVE  ValuesInv'
  <1>1. PICK i \in DOMAIN options[a] :
          /\ \A r \in rows : ~ (r.attr = a /\ r.option = options[a][i].id)
          /\ options' = [options EXCEPT ![a] = RemoveAt(@, i)]
    BY DEF DeleteOption
  <1> DEFINE old == options[a][i]
             t == RemoveAt(options[a], i)
  <1>2. UNCHANGED <<type, unit, binding, rows, attrs, published, raised>> /\ SchemaFits
    BY DEF DeleteOption, ValuesInv
  <1>3. options[a] \in Seq(OptionRecord) /\ Apart(options[a]) /\ i \in 1..Len(options[a])
    BY <1>2, OptionsTyped DEF SchemaFits, Apart
  <1>4. options' = [options EXCEPT ![a] = t] /\ options'[a] = t
    BY <1>1, <1>2 DEF SchemaFits
  <1>5. t \in Seq(OptionRecord) /\ Apart(t) /\ ToSet(t) = ToSet(options[a]) \ {old}
    BY <1>3, RemovedApart
  <1> HIDE DEF t
  <1>6. SchemaFits'
    BY <1>2, <1>4, <1>5 DEF SchemaFits, Apart
  <1>7. OptionsKept
    <2>1. SUFFICES ASSUME NEW v \in View, UsesOptions(v.attr), NEW x \in v.options
                   PROVE  \A w : (\E o \in ToSet(options[v.attr]) : o.id = x /\ o.value = w)
                                  <=> (\E o \in ToSet(options'[v.attr]) : o.id = x /\ o.value = w)
      BY DEF OptionsKept
    <2>2. v.attr \in Attributes
      BY DEF ValuesInv, Stored, OneEach, Fits
    <2>3. CASE v.attr = a
      <3>1. Row(v, x) \in rows
        BY DEF ValuesInv, Stored, InsertValues
      <3>2. x # old.id
        BY <1>1, <2>3, <3>1 DEF Row
      <3> HIDE DEF old
      <3> QED  BY <1>4, <1>5, <2>3, <3>2
    <2>4. CASE v.attr # a
      BY <1>2, <1>4, <2>2, <2>4 DEF SchemaFits
    <2> QED  BY <2>3, <2>4
  <1> QED  BY <1>2, <1>6, <1>7, OptionsRewritten

LEMMA UnitKeeps ==
    ASSUME ValuesInv, NEW a \in Attributes, UpdateAttribute(a)
    PROVE  ValuesInv'
  <1>1. PICK u \in Units[type[a]] : unit' = [unit EXCEPT ![a] = u]
    BY DEF UpdateAttribute
  <1>2. UNCHANGED <<type, options, binding, rows, attrs, published, raised>>
    BY DEF UpdateAttribute
  <1>3. SchemaFits /\ type[a] \in DOMAIN Shape
    BY OptionsTyped DEF ValuesInv
  <1>4. u \in DOMAIN UnitForms
    <2>1. \A t \in DOMAIN Shape : Units[t] \subseteq DOMAIN UnitForms
      BY ValuesAssumption, Zenon
    <2> QED  BY <1>3, <2>1
  <1>5. SchemaFits'
    BY <1>1, <1>2, <1>3, <1>4 DEF SchemaFits
  <1> QED  BY <1>2, <1>5, OptionsRewritten DEF OptionsKept

LEMMA ValuesInductive ==
    ValuesInv /\ [ValuesNext]_valueVars => ValuesInv'
  <1>1. CASE UNCHANGED valueVars
    <2>1. UNCHANGED <<type, options, unit, binding, rows, attrs, published, raised>> /\ View' = View
      BY <1>1 DEF valueVars, View
    <2>2. (SchemaFits => SchemaFits') /\ OptionsKept
      BY <2>1 DEF SchemaFits, OptionsKept
    <2> QED  BY <2>1, <2>2, OptionsRewritten DEF ValuesInv
  <1> QED  BY <1>1, SaveKeeps, BindKeeps, UnbindKeeps, UnitKeeps, CreateKeeps, UpdateKeeps, DeleteKeeps DEF ValuesNext

-----------------------------------------------------------------------------
(* Filters.                                                                *)

LEMMA FilterShapes ==
    /\ FilterShape["text"] = "string" /\ FilterShape["boolean"] = "boolean"
    /\ FilterShape["number"] = "object" /\ FilterShape["number_range"] = "object"
    /\ FilterShape["enum"] = "array" /\ FilterShape["color"] = "array" /\ FilterShape["multi_enum"] = "array"
    /\ \A t \in DOMAIN Shape : Filters[t] \subseteq Contents[FilterShape[t]]
  BY ValueConstants, ValuesAssumption DEF FilterShape

\* A key of a projection meets a filter exactly if its value answers it.
LEMMA RenderedAnswers ==
    ASSUME SchemaFits, NEW v, Fits(v), NEW json, Renders(json, v),
           NEW f \in Filters[type[v.attr]], Filterable(v.attr, f)
    PROVE  FilterPath(v.attr, f, json) <=> Answers(v.attr, v, f)
  <1> DEFINE a == v.attr
  <1>1. a \in Attributes /\ type[a] \in DOMAIN Shape /\ f \in Contents[FilterShape[type[a]]]
    BY OptionsTyped, FilterShapes DEF Fits
  <1>2. CASE UsesOptions(a)
    <2>1. ToSet(json.of) = {o.value : o \in Chosen(v)}
      BY <1>2 DEF Renders
    <2>2. type[a] \notin {"number", "number_range"}
      BY <1>2 DEF UsesOptions
    <2>3. FilterPath(a, f, json) <=> ToSet(json.of) \cap ToSet(f) # {}
      BY <2>2 DEF FilterPath
    <2>4. Answers(a, v, f) <=> \E o \in ToSet(options[a]) : o.id \in v.options /\ o.value \in ToSet(f)
      BY <1>2, <2>2 DEF Answers, UsesOptions
    <2> QED  BY <2>1, <2>3, <2>4 DEF Chosen
  <1>3. CASE type[a] \in {"number", "number_range"}
    <2>1. json.of = v.inline /\ InlineFits(type[a], v.inline)
      BY <1>3 DEF Renders, Fits, UsesOptions
    <2>2. PICK low, high \in Numbers :
            low <= high /\ v.inline[1] = low /\ v.inline[Len(v.inline)] = high
      <3>1. CASE type[a] = "number"
        <4>1. PICK n \in Numbers : v.inline = <<n>>
          BY <2>1, <3>1 DEF InlineFits
        <4>2. v.inline[1] = n /\ Len(v.inline) = 1 /\ n <= n
          BY <4>1, One, ValueConstants
        <4> QED  BY <4>2
      <3>2. CASE type[a] = "number_range"
        <4>1. PICK l, h \in Numbers : v.inline = <<l, h>> /\ l <= h
          BY <2>1, <3>2 DEF InlineFits
        <4>2. v.inline[1] = l /\ Len(v.inline) = 2 /\ v.inline[2] = h
          BY <4>1
        <4> QED  BY <4>1, <4>2
      <3> QED  BY <1>3, <3>1, <3>2
    <2>3. PICK min, max \in Numbers : f = <<min, max>>
      BY <1>1, <1>3, FilterShapes, ContentsOf
    <2>4. f[1] = min /\ f[2] = max
      BY <2>3
    <2>5. min <= max
      BY <1>3, <2>4, ValueConstants DEF Filterable, UsesOptions
    <2>6. FilterPath(a, f, json) <=> high >= min /\ low <= max
      BY <1>3, <2>1, <2>2, <2>4 DEF FilterPath, InBounds
    <2>7. Answers(a, v, f) <=> \E x \in Numbers : min <= x /\ x <= max /\ low <= x /\ x <= high
      <3>1. Answers(a, v, f) <=> \E x \in Numbers : f[1] <= x /\ x <= f[2]
                                   /\ v.inline[1] <= x /\ x <= v.inline[Len(v.inline)]
        BY <1>3 DEF Answers, UsesOptions
      <3> QED  BY <2>2, <2>4, <3>1
    <2>8. high >= min /\ low <= max => \E x \in Numbers : min <= x /\ x <= max /\ low <= x /\ x <= high
      <3>1. CASE low <= min
        BY <2>5, <3>1, ValueConstants
      <3>2. CASE min <= low
        BY <2>2, <3>2, ValueConstants
      <3>3. low \in Int /\ min \in Int
        BY ValueConstants
      <3>4. low <= min \/ min <= low
        BY <3>3
      <3> QED  BY <3>1, <3>2, <3>4
    <2>9. \A x \in Numbers : min <= x /\ x <= max /\ low <= x /\ x <= high => high >= min /\ low <= max
      BY ValueConstants
    <2> QED  BY <2>6, <2>7, <2>8, <2>9
  <1>4. CASE type[a] \in {"text", "boolean"}
    <2>1. json.of = v.inline /\ InlineFits(type[a], v.inline) /\ ~ UsesOptions(a)
      BY <1>4 DEF Renders, Fits, UsesOptions
    <2>2. PICK x : v.inline = <<x>>
      BY <1>4, <2>1 DEF InlineFits
    <2>3. PICK y : f = <<y>>
      BY <1>1, <1>4, FilterShapes, ContentsOf
    <2>4. ToSet(v.inline) = {x} /\ ToSet(f) = {y}
      BY <2>2, <2>3, One DEF ToSet
    <2>5. FilterPath(a, f, json) <=> x = y
      BY <1>4, <2>1, <2>4 DEF FilterPath
    <2>6. Answers(a, v, f) <=> v.inline = f
      BY <1>4, <2>1 DEF Answers
    <2>7. v.inline = f <=> x = y
      BY <2>2, <2>3, One
    <2> QED  BY <2>5, <2>6, <2>7
  <1> QED  BY <1>1, <1>2, <1>3, <1>4, ValueConstants DEF UsesOptions

LEMMA FilterFindsHolds ==
    ValuesInv => FilterFindsWhatIsShown
  <1> SUFFICES ASSUME ValuesInv, NEW a \in Attributes, NEW f \in Filters[type[a]], Filterable(a, f)
               PROVE  ListedUnder(a, f) <=> \E v \in Shown : v.attr = a /\ Answers(a, v, f)
    BY DEF FilterFindsWhatIsShown
  <1>1. SchemaFits /\ Shown = View
    BY DEF ValuesInv, Leveled, Shown
  <1>2. ASSUME NEW v \in View
        PROVE  /\ Fits(v) /\ v.place \in Places /\ v.attr \in DOMAIN attrs[v.place]
               /\ Renders(attrs[v.place][v.attr], v)
               /\ v.place = Whole <=> binding[v.attr].level # "variant"
    BY DEF ValuesInv, Stored, OneEach, Fits, Projected, Leveled, AtLevel
  <1>3. ASSUME NEW p \in Places \ {Whole}, a \in DOMAIN Combined(p)
        PROVE  \E v \in View : v.attr = a /\ Combined(p)[a] = attrs[v.place][a]
    <2>1. a \in DOMAIN attrs[p] \/ a \in DOMAIN attrs[Whole]
      BY <1>3 DEF Combined
    <2>2. CASE a \in DOMAIN attrs[p]
      <3>1. \E v \in View : v.attr = a /\ v.place = p
        BY <2>2 DEF ValuesInv, Projected
      <3> QED  BY <1>3, <2>2, <3>1 DEF Combined
    <2>3. CASE a \notin DOMAIN attrs[p]
      <3>1. Whole \in Places
        BY ValuesAssumption
      <3>2. \E v \in View : v.attr = a /\ v.place = Whole
        BY <2>1, <2>3, <3>1 DEF ValuesInv, Projected
      <3> QED  BY <1>3, <2>3, <3>2 DEF Combined
    <2> QED  BY <2>2, <2>3
  <1>4. ASSUME NEW v \in View, v.attr = a
        PROVE  \E p \in Places \ {Whole} : a \in DOMAIN Combined(p) /\ Combined(p)[a] = attrs[v.place][a]
    <2>1. CASE v.place # Whole
      <3>1. a \in DOMAIN attrs[v.place] /\ v.place \in Places \ {Whole}
        BY <1>2, <1>4, <2>1
      <3> QED  BY <3>1 DEF Combined
    <2>2. CASE v.place = Whole
      <3>1. PICK p \in Places \ {Whole} : TRUE
        BY ValuesAssumption
      <3>2. a \notin DOMAIN attrs[p]
        BY <1>2, <1>4, <2>2, <3>1 DEF ValuesInv, Projected
      <3>3. a \in DOMAIN attrs[Whole]
        BY <1>2, <1>4, <2>2
      <3> QED  BY <2>2, <3>1, <3>2, <3>3 DEF Combined
    <2> QED  BY <2>1, <2>2
  <1>5. ASSUME NEW v \in View, v.attr = a
        PROVE  FilterPath(a, f, attrs[v.place][a]) <=> Answers(a, v, f)
    BY <1>1, <1>2, <1>5, RenderedAnswers
  <1> QED  BY <1>1, <1>3, <1>4, <1>5 DEF ListedUnder

\* What is read, what is saved and what is filtered by are one form of a value
\* (schema.go): whatever the attributes, their options and their values, whatever is
\* saved and edited, and in whatever order.
THEOREM FormatsStayOne == ValuesSpec => []FormatsAgree
  <1>1. ValuesInv => FormatsAgree
    BY SavedAsReadHolds, FilterFindsHolds DEF FormatsAgree
  <1> QED  BY <1>1, ValuesInitially, ValuesInductive, PTL DEF ValuesSpec

-----------------------------------------------------------------------------
(* Cells.                                                                  *)

\* FlattenSeq is what its recursion says.
LEMMA FlattenSteps ==
    ASSUME NEW s, Len(s) \in Nat, Len(s) > 0
    PROVE  \E f : /\ FlattenSeq(s) = f[Len(s)] /\ f[1] = s[1]
                  /\ \A i \in 2..Len(s) : f[i] = f[i - 1] \o s[i]
  <1> DEFINE N == Len(s)
             Is(g, n) == g = [i \in 1..n |-> IF i = 1 THEN s[i] ELSE g[i - 1] \o s[i]]
             flatten == CHOOSE g : Is(g, N)
  <1> HIDE DEF N
  <1>1. ASSUME NEW n \in Nat, \E g : Is(g, n)  PROVE \E g : Is(g, n + 1)
    <2>1. PICK g : Is(g, n)
      BY <1>1
    <2> DEFINE h == [i \in 1..(n + 1) |-> IF i <= n THEN g[i] ELSE IF i = 1 THEN s[i] ELSE g[i - 1] \o s[i]]
    <2>2. ASSUME NEW i \in 1..(n + 1)  PROVE h[i] = IF i = 1 THEN s[i] ELSE h[i - 1] \o s[i]
      <3>1. CASE i <= n
        <4>0. i \in 1..n
          BY <3>1
        <4>1. g[i] = IF i = 1 THEN s[i] ELSE g[i - 1] \o s[i]
          <5>1. g[i] = [j \in 1..n |-> IF j = 1 THEN s[j] ELSE g[j - 1] \o s[j]][i]
            BY <2>1
          <5> QED  BY <4>0, <5>1
        <4>2. i # 1 => i - 1 \in 1..(n + 1) /\ i - 1 <= n
          BY <3>1
        <4>3. i # 1 => h[i - 1] = g[i - 1]
          BY <4>2
        <4>4. h[i] = g[i]
          BY <3>1
        <4> QED  BY <4>1, <4>3, <4>4
      <3>2. CASE i = n + 1 /\ i # 1
        <4>1. i - 1 \in 1..(n + 1) /\ i - 1 <= n /\ ~ (i <= n)
          BY <3>2
        <4>2. h[i - 1] = g[i - 1]
          BY <4>1
        <4> QED  BY <3>2, <4>1, <4>2
      <3>3. CASE i = n + 1 /\ i = 1
        BY <3>3
      <3> QED  BY <3>1, <3>2, <3>3
    <2>3. Is(h, n + 1)
      <3>1. h = [i \in 1..(n + 1) |-> h[i]]
        OBVIOUS
      <3> HIDE DEF h
      <3> QED  BY <2>2, <3>1
    <2> QED  BY <2>3
  <1>2. \E g : Is(g, 0)
    <2>1. Is([i \in 1..0 |-> 0], 0)
      OBVIOUS
    <2> QED  BY <2>1
  <1>3. \A n \in Nat : \E g : Is(g, n)
    <2> DEFINE S == {n \in Nat : \E g : Is(g, n)}
    <2> HIDE DEF Is
    <2>1. 0 \in S /\ \A n \in Nat : n \in S => n + 1 \in S
      BY <1>1, <1>2
    <2> HIDE DEF S
    <2>2. \A n \in Nat : n \in S
      BY <2>1, CountsUp
    <2> QED  BY <2>2 DEF S
  <1>4. Is(flatten, N)
    <2>1. \E g : Is(g, N)
      BY <1>3 DEF N
    <2> HIDE DEF Is
    <2> QED  BY <2>1
  <1>5. FlattenSeq(s) = flatten[N]
    BY DEF FlattenSeq, N
  <1> HIDE DEF flatten
  <1>6. flatten[1] = s[1] /\ \A i \in 2..N : flatten[i] = flatten[i - 1] \o s[i]
    <2>1. ASSUME NEW i \in 1..N  PROVE flatten[i] = IF i = 1 THEN s[i] ELSE flatten[i - 1] \o s[i]
      <3>1. flatten[i] = [j \in 1..N |-> IF j = 1 THEN s[j] ELSE flatten[j - 1] \o s[j]][i]
        BY <1>4
      <3> QED  BY <3>1
    <2>2. N \in Nat /\ 1 \in 1..N /\ \A i \in 2..N : i \in 1..N /\ i # 1
      BY DEF N
    <2> QED  BY <2>1, <2>2
  <1> QED  BY <1>5, <1>6 DEF N

LEMMA FlattenTyped ==
    ASSUME NEW S, NEW s \in Seq(Seq(S))
    PROVE  FlattenSeq(s) \in Seq(S)
  <1>1. CASE Len(s) = 0
    BY <1>1 DEF FlattenSeq
  <1>2. CASE Len(s) > 0
    <2>0. Len(s) \in Nat
      OBVIOUS
    <2>1. PICK f : /\ FlattenSeq(s) = f[Len(s)] /\ f[1] = s[1]
                   /\ \A i \in 2..Len(s) : f[i] = f[i - 1] \o s[i]
      BY <1>2, <2>0, FlattenSteps, Zenon
    <2> DEFINE D == {n \in Nat : n + 1 <= Len(s) => f[n + 1] \in Seq(S)}
    <2>2. 0 \in D
      BY <1>2, <2>1
    <2>3. ASSUME NEW n \in Nat, n \in D  PROVE n + 1 \in D
      <3>1. CASE n + 2 <= Len(s)
        <4>1. f[n + 2] = f[n + 1] \o s[n + 2] /\ f[n + 1] \in Seq(S) /\ s[n + 2] \in Seq(S)
          <5>1. n + 2 \in 2..Len(s) /\ (n + 2) - 1 = n + 1
            BY <3>1
          <5>2. f[n + 1] \in Seq(S)
            BY <2>3, <3>1
          <5>3. n + 2 \in DOMAIN s
            BY <5>1
          <5>4. s[n + 2] \in Seq(S)
            BY <5>3
          <5>5. f[n + 2] = f[(n + 2) - 1] \o s[n + 2]
            BY <2>1, <5>1
          <5> QED  BY <5>1, <5>2, <5>4, <5>5
        <4>2. f[n + 2] \in Seq(S)
          BY <4>1
        <4> QED  BY <4>2
      <3>2. CASE ~ (n + 2 <= Len(s))
        BY <3>2
      <3> QED  BY <3>1, <3>2
    <2> HIDE DEF D
    <2>4. Len(s) - 1 \in D
      BY <1>2, <2>2, <2>3, CountsUp
    <2> QED  BY <1>2, <2>1, <2>4 DEF D
  <1> QED  BY <1>1, <1>2

LEMMA FlattenSingles ==
    ASSUME NEW S, NEW w \in Seq(S), NEW s \in Seq(Seq(S)), Len(s) = Len(w), \A i \in 1..Len(w) : s[i] = <<w[i]>>
    PROVE  FlattenSeq(s) = w
  <1>1. CASE Len(w) = 0
    BY <1>1 DEF FlattenSeq
  <1>2. CASE Len(w) > 0
    <2>0. Len(s) \in Nat /\ Len(s) > 0 /\ Len(w) \in Nat
      BY <1>2
    <2>1. PICK f : /\ FlattenSeq(s) = f[Len(s)] /\ f[1] = s[1]
                   /\ \A i \in 2..Len(s) : f[i] = f[i - 1] \o s[i]
      BY <2>0, FlattenSteps, Zenon
    <2> DEFINE D == {n \in Nat : n + 1 <= Len(w) => f[n + 1] = SubSeq(w, 1, n + 1)}
    <2>2. 0 \in D
      BY <1>2, <2>1
    <2>3. ASSUME NEW n \in Nat, n \in D  PROVE n + 1 \in D
      <3>1. CASE n + 2 <= Len(w)
        <4>1. f[n + 2] = SubSeq(w, 1, n + 1) \o <<w[n + 2]>>
          <5>1. n + 2 \in 2..Len(w) /\ (n + 2) - 1 = n + 1 /\ n + 1 <= Len(w) /\ n + 2 \in 1..Len(w)
            BY <3>1
          <5> QED  BY <2>1, <2>3, <5>1
        <4>2. SubSeq(w, 1, n + 1) \o <<w[n + 2]>> = SubSeq(w, 1, n + 2)
          BY <3>1
        <4> HIDE DEF D
        <4>3. f[n + 2] = SubSeq(w, 1, n + 2)
          BY <4>1, <4>2, Zenon
        <4>4. (n + 1) + 1 = n + 2
          OBVIOUS
        <4> QED  BY <4>3, <4>4 DEF D
      <3>2. CASE ~ (n + 2 <= Len(w))
        BY <3>2
      <3> QED  BY <3>1, <3>2
    <2> HIDE DEF D
    <2>4. Len(w) - 1 \in D
      <3>1. \A n \in Nat : n \in D
        BY <2>2, <2>3, CountsUp
      <3> QED  BY <1>2, <2>0, <3>1
    <2>5. f[Len(w)] = SubSeq(w, 1, Len(w))
      BY <1>2, <2>4 DEF D
    <2> QED  BY <2>1, <2>5
  <1> QED  BY <1>1, <1>2

-----------------------------------------------------------------------------
LEMMA MatchedIs ==
    ASSUME NEW a, NEW c
    PROVE  MatchOption(a, c) \subseteq ToSet(options[a])
  BY DEF MatchOption, FirstOption, ToSet

\* matchOption: a label with a slug of its own is the option's.
LEMMA LabelMatches ==
    ASSUME SchemaFits, NEW a \in Attributes, NEW o \in ToSet(options[a]),
           \A q \in ToSet(options[a]) \ {o} : Forms[o.label].slug \notin {Forms[q.value].slug, Forms[q.label].slug}
    PROVE  MatchOption(a, o.label) = {o}
  <1> DEFINE c == o.label
             named == {q \in ToSet(options[a]) :
                         q.value = c \/ Forms[c].slug \in {Forms[q.value].slug, Forms[q.label].slug}}
  <1>1. named = {o}
    <2>1. o \in named
      OBVIOUS
    <2>2. ASSUME NEW q \in named  PROVE q = o
      <3>1. q.value = c => Forms[q.value].slug = Forms[c].slug
        OBVIOUS
      <3> QED  BY <3>1
    <2> QED  BY <2>1, <2>2
  <1>2. MatchOption(a, c) = FirstOption(a, named)
    BY <1>1 DEF MatchOption
  <1> HIDE DEF named
  <1>3. PICK i \in DOMAIN options[a] : options[a][i] = o
    BY DEF ToSet
  <1>4. \A k \in DOMAIN options[a] : options[a][k] = o => k = i
    BY <1>3 DEF SchemaFits
  <1>5. i \in 1..Len(options[a]) /\ DOMAIN options[a] = 1..Len(options[a])
    BY <1>3, OptionsTyped
  <1>6. {j \in DOMAIN options[a] : /\ options[a][j] \in named
                                   /\ \A k \in 1..(j - 1) : options[a][k] \notin named} = {i}
    <2>1. ASSUME NEW k \in 1..(i - 1)  PROVE options[a][k] # o
      <3>1. k \in DOMAIN options[a] /\ k # i
        BY <1>5
      <3> QED  BY <1>4, <3>1
    <2> QED  BY <1>1, <1>3, <1>4, <2>1
  <1> QED  BY <1>2, <1>3, <1>6 DEF FirstOption

LEMMA CellsFit ==
    /\ \A w \in DOMAIN Forms : /\ Forms[w].collapse \in DOMAIN Forms /\ Forms[w].parts \in Seq(DOMAIN Forms)
                               /\ Forms[w].trim # "" => Forms[Forms[w].collapse].trim # ""
    /\ \A c \in Cells : /\ c.numbers \in Seq(Numbers) /\ c.words \in Seq(DOMAIN Forms)
                        /\ \A i \in DOMAIN c.words : Forms[c.words[i]].trim # ""
    /\ Forms["Yes"].lower = "yes" /\ Forms["No"].lower = "no"
  <1>1. ASSUME NEW w \in DOMAIN Forms
        PROVE  /\ Forms[w].collapse \in DOMAIN Forms /\ Forms[w].parts \in Seq(DOMAIN Forms)
               /\ Forms[w].trim # "" => Forms[Forms[w].collapse].trim # ""
    <2>1. {Forms[w].trim, Forms[w].collapse} \subseteq DOMAIN Forms /\ Forms[w].parts \in Seq(DOMAIN Forms)
      BY ValuesAssumption, Zenon
    <2>2. Forms[Forms[w].collapse].trim = "" <=> Forms[w].trim = ""
      BY ValuesAssumption, Zenon
    <2> QED  BY <2>1, <2>2
  <1>2. ASSUME NEW c \in Cells
        PROVE  /\ c.numbers \in Seq(Numbers) /\ c.words \in Seq(DOMAIN Forms)
               /\ \A i \in DOMAIN c.words : Forms[c.words[i]].trim # ""
    <2>1. /\ c.numbers \in Seq(Numbers) /\ c.words \in Seq(DOMAIN Forms)
          /\ \A w \in ToSet(c.words) : Forms[w].trim # ""
      BY ValuesAssumption, Zenon
    <2> QED  BY <2>1 DEF ToSet
  <1>3. Forms["Yes"].lower = "yes" /\ Forms["No"].lower = "no"
    BY ValuesAssumption, Zenon
  <1> QED  BY <1>1, <1>2, <1>3

LEMMA UnitsFit ==
    \A u \in DOMAIN UnitForms :
      /\ UnitForms[u].bound \in Seq(Numbers) /\ Len(UnitForms[u].bound) <= 1
      /\ UnitForms[u].plain \in BOOLEAN /\ (UnitForms[u].plain => UnitForms[u].bound = <<>>)
  BY ValuesAssumption, Zenon

LEMMA AtMostOne ==
    ASSUME NEW S, NEW b \in Seq(S), Len(b) <= 1, b # <<>>
    PROVE  Len(b) = 1
  <1>1. Len(b) \in Nat \ {0}
    BY EmptySeq
  <1> QED  BY <1>1

\* CellMeans, type by type.
LEMMA Meanings ==
    ASSUME NEW a, NEW c
    PROVE  /\ type[a] = "number" =>
                CellMeans(a, c) = IF Len(c.numbers) = 1 /\ UnitForms[c.unit].plain THEN {c.numbers} ELSE {}
           /\ type[a] = "multi_enum" => CellMeans(a, c) = PartsMean(a, PartsOf(c.words))
           /\ type[a] \in {"text", "boolean", "enum", "color"} =>
                CellMeans(a, c) = IF Len(c.words) = 1 THEN WordMeans(a, c.words[1]) ELSE {}
  BY DEF CellMeans

LEMMA RangeMeanings ==
    ASSUME NEW a, NEW c, type[a] = "number_range"
    PROVE  CellMeans(a, c) =
             IF Len(c.numbers) = 1 /\ UnitForms[c.unit].plain THEN {<<c.numbers[1], c.numbers[1]>>}
             ELSE IF /\ Len(c.numbers \o UnitForms[c.unit].bound) = 2
                     /\ (UnitForms[c.unit].plain \/ UnitForms[c.unit].bound # <<>>)
                     /\ 0 <= (c.numbers \o UnitForms[c.unit].bound)[1]
                     /\ (c.numbers \o UnitForms[c.unit].bound)[1] <= (c.numbers \o UnitForms[c.unit].bound)[2]
                  THEN {c.numbers \o UnitForms[c.unit].bound} ELSE {}
  BY DEF CellMeans

LEMMA BooleanMeanings ==
    ASSUME NEW a, NEW w, type[a] = "boolean"
    PROVE  /\ \A x \in WordMeans(a, w) : x = <<TRUE>> \/ x = <<FALSE>>
           /\ Forms[w].lower = "yes" => WordMeans(a, w) = {<<TRUE>>}
           /\ Forms[w].lower = "no" => WordMeans(a, w) = {<<FALSE>>}
  <1> DEFINE yes == {"yes", "y", "true", "1", "x"} \cap {Forms[w].lower}
             no == {"no", "n", "false", "0"} \cap {Forms[w].lower}
  <1>1. WordMeans(a, w) = {<<TRUE>> : x \in yes} \cup {<<FALSE>> : x \in no}
    BY DEF WordMeans
  <1>2. Forms[w].lower = "yes" => yes = {"yes"} /\ no = {}
    OBVIOUS
  <1>3. Forms[w].lower = "no" => no = {"no"} /\ yes = {}
    OBVIOUS
  <1> HIDE DEF yes, no
  <1>4. ASSUME NEW x \in WordMeans(a, w)  PROVE x = <<TRUE>> \/ x = <<FALSE>>
    BY <1>1
  <1>5. ASSUME Forms[w].lower = "yes"  PROVE WordMeans(a, w) = {<<TRUE>>}
    BY <1>1, <1>2, <1>5
  <1>6. ASSUME Forms[w].lower = "no"  PROVE WordMeans(a, w) = {<<FALSE>>}
    BY <1>1, <1>3, <1>6
  <1> QED  BY <1>4, <1>5, <1>6

\* parseAttributeCell: what it makes of a cell is accepted, but for a text that is too
\* long.
LEMMA ParsedDecodes ==
    ASSUME SchemaFits, NEW a \in Attributes, NEW c \in Cells, NEW json \in ParseAttributeCell(a, c)
    PROVE  Decodes(a, json) \/ (type[a] = "text" /\ Forms[json.of[1]].long)
  <1>1. type[a] \in DOMAIN Shape
    BY OptionsTyped
  <1>2. PICK x \in CellMeans(a, c) : json = [shape |-> Shape[type[a]], of |-> x]
    BY DEF ParseAttributeCell
  <1>3. json.shape = Shape[type[a]] /\ json.of = x
    BY <1>2
  <1>4. CASE type[a] = "number"
    <2>1. Len(x) = 1
      <3>1. CellMeans(a, c) = IF Len(c.numbers) = 1 /\ UnitForms[c.unit].plain THEN {c.numbers} ELSE {}
        BY <1>4, Meanings
      <3> QED  BY <1>2, <3>1
    <2> QED  BY <1>3, <1>4, <2>1 DEF Decodes, UsesOptions, NewAttributeValue
  <1>5. CASE type[a] = "number_range"
    <2> DEFINE u == UnitForms[c.unit]
               range == c.numbers \o u.bound
    <2>1. \/ Len(c.numbers) = 1 /\ x = <<c.numbers[1], c.numbers[1]>>
          \/ x = range /\ range[1] <= range[2]
      <3>1. CellMeans(a, c) =
              IF Len(c.numbers) = 1 /\ u.plain THEN {<<c.numbers[1], c.numbers[1]>>}
              ELSE IF /\ Len(range) = 2 /\ (u.plain \/ u.bound # <<>>)
                      /\ 0 <= range[1] /\ range[1] <= range[2]
                   THEN {range} ELSE {}
        BY <1>5, RangeMeanings
      <3> HIDE DEF range, u
      <3> QED  BY <1>2, <3>1
    <2> HIDE DEF range
    <2>2. x[1] <= x[2]
      <3>1. Len(c.numbers) = 1 => c.numbers[1] \in Int
        <4>1. c.numbers \in Seq(Numbers)
          BY CellsFit
        <4>2. Len(c.numbers) = 1 => c.numbers[1] \in Numbers
          BY <4>1
        <4> QED  BY <4>2, ValueConstants
      <3> QED  BY <2>1, <3>1
    <2> QED  BY <1>3, <1>5, <2>2 DEF Decodes, UsesOptions, NewAttributeValue
  <1>6. CASE type[a] \in {"text", "boolean", "enum", "color"}
    <2> DEFINE w == c.words[1]
    <2>1. Len(c.words) = 1 /\ x \in WordMeans(a, w)
      BY <1>2, <1>6, Meanings
    <2>2. w \in DOMAIN Forms /\ Forms[w].trim # ""
      <3>1. c.words \in Seq(DOMAIN Forms)
        BY CellsFit
      <3>2. 1 \in DOMAIN c.words
        BY <2>1, <3>1
      <3>3. \A i \in DOMAIN c.words : Forms[c.words[i]].trim # ""
        BY CellsFit, Zenon
      <3>4. c.words[1] \in DOMAIN Forms
        BY <3>1, <3>2
      <3>5. Forms[c.words[1]].trim # ""
        BY <3>2, <3>3, Zenon
      <3> QED  BY <3>4, <3>5
    <2> HIDE DEF w
    <2>3. CASE type[a] = "text"
      <3>1. x[1] = Forms[w].collapse
        <4>1. WordMeans(a, w) = {<<Forms[w].collapse>>}
          BY <2>3 DEF WordMeans
        <4> QED  BY <2>1, <4>1, One
      <3>2. Forms[x[1]].trim # ""
        BY <2>2, <3>1, CellsFit
      <3> QED  BY <1>3, <2>3, <3>2, CellsFit DEF Decodes, UsesOptions, NewAttributeValue
    <2>4. CASE type[a] = "boolean"
      <3>1. Len(x) = 1
        <4>1. x = <<TRUE>> \/ x = <<FALSE>>
          BY <2>1, <2>4, BooleanMeanings
        <4> QED  BY <4>1, One
      <3> QED  BY <1>3, <2>4, <3>1 DEF Decodes, UsesOptions, NewAttributeValue
    <2>5. CASE type[a] \in {"enum", "color"}
      <3>1. PICK o \in MatchOption(a, w) : x = <<o.value>>
        <4>1. WordMeans(a, w) = {<<o.value>> : o \in MatchOption(a, w)}
          BY <2>5 DEF WordMeans
        <4> QED  BY <2>1, <4>1
      <3>2. o \in ToSet(options[a]) /\ ToSet(x) = {o.value} /\ Len(x) = 1
        BY <3>1, MatchedIs, One DEF ToSet
      <3>3. \A s \in ToSet(x) : OptionByValue(a, s) # {}
        BY <3>2 DEF OptionByValue
      <3>4. NewAttributeValue(a, x)
        <4>1. Len(x) > 0 /\ type[a] # "text" /\ type[a] # "number_range"
          BY <2>5, <3>2
        <4> QED  BY <4>1 DEF NewAttributeValue
      <3> QED  BY <1>3, <3>3, <3>4 DEF Decodes
    <2> QED  BY <1>6, <2>3, <2>4, <2>5
  <1>7. CASE type[a] = "multi_enum"
    <2> DEFINE parts == PartsOf(c.words)
    <2>1. parts \in Seq(DOMAIN Forms)
      <3>1. c.words \in Seq(DOMAIN Forms) /\ \A i \in DOMAIN c.words : Forms[c.words[i]].parts \in Seq(DOMAIN Forms)
        <4>1. c.words \in Seq(DOMAIN Forms)
          BY CellsFit
        <4>2. ASSUME NEW i \in DOMAIN c.words  PROVE Forms[c.words[i]].parts \in Seq(DOMAIN Forms)
          <5>1. c.words[i] \in DOMAIN Forms
            BY <4>1
          <5> QED  BY <5>1, CellsFit
        <4> QED  BY <4>1, <4>2
      <3> DEFINE s == [i \in DOMAIN c.words |-> Forms[c.words[i]].parts]
      <3>2. DOMAIN c.words = 1..Len(c.words) /\ Len(c.words) \in Nat
        BY <3>1
      <3>3. s \in Seq(Seq(DOMAIN Forms))
        BY <3>1, <3>2
      <3> HIDE DEF s
      <3>4. FlattenSeq(s) \in Seq(DOMAIN Forms)
        BY <3>3, FlattenTyped
      <3> QED  BY <3>4 DEF s, PartsOf
    <2> HIDE DEF parts
    <2>2. x \in PartsMean(a, parts)
      BY <1>2, <1>7, Meanings DEF parts
    <2>3. /\ parts # <<>> /\ \A i \in DOMAIN parts : MatchOption(a, parts[i]) # {}
          /\ x = [i \in DOMAIN parts |-> (CHOOSE o \in MatchOption(a, parts[i]) : TRUE).value]
      BY <2>2 DEF PartsMean
    <2>4. ASSUME NEW s \in ToSet(x)  PROVE OptionByValue(a, s) # {}
      <3>1. PICK i \in DOMAIN parts : s = (CHOOSE o \in MatchOption(a, parts[i]) : TRUE).value
        BY <2>3 DEF ToSet
      <3>2. PICK o \in MatchOption(a, parts[i]) : o = CHOOSE q \in MatchOption(a, parts[i]) : TRUE
        BY <2>3
      <3>3. o \in ToSet(options[a]) /\ s = o.value
        BY <3>1, <3>2, MatchedIs
      <3> QED  BY <3>3 DEF OptionByValue
    <2>5. Len(x) > 0
      <3>1. DOMAIN parts = 1..Len(parts) /\ Len(parts) \in Nat /\ Len(parts) > 0
        BY <2>1, <2>3
      <3>2. Len(x) = Len(parts)
        BY <2>3, <3>1
      <3> QED  BY <3>1, <3>2
    <2> QED  BY <1>3, <1>7, <2>4, <2>5 DEF Decodes, UsesOptions, NewAttributeValue
  <1> QED  BY <1>1, <1>4, <1>5, <1>6, <1>7, ValueConstants

\* displayValue and then parseAttributeCell.
LEMMA DisplayedIsParsed ==
    ASSUME SchemaFits, NEW v, Fits(v), Legible(v.attr, v)
    PROVE  ParseAttributeCell(v.attr, DisplayValue(v.attr, v))
             = IF Readable(v.attr, v) THEN {ApiValue(v.attr, v)} ELSE {}
  <1> DEFINE a == v.attr
             c == DisplayValue(a, v)
             json(x) == [shape |-> Shape[type[a]], of |-> x]
  <1>1. a \in Attributes /\ type[a] \in DOMAIN Shape
    BY OptionsTyped DEF Fits
  <1>2. SUFFICES \E x : /\ CellMeans(a, c) = IF Readable(a, v) THEN {x} ELSE {}
                        /\ ApiValue(a, v) = json(x)
    BY DEF ParseAttributeCell
  <1>3. CASE ~ UsesOptions(a)
    <2> SUFFICES CellMeans(a, c) = IF Readable(a, v) THEN {v.inline} ELSE {}
      BY <1>3 DEF ApiValue
    <2>0. type[a] \notin {"number", "number_range"} => Readable(a, v)
      BY DEF Readable
    <2>1. InlineFits(type[a], v.inline)
      BY <1>3 DEF Fits
    <2>2. CASE type[a] = "number"
      <3>1. c.numbers = v.inline /\ c.unit = unit[a] /\ Len(v.inline) = 1
        BY <2>1, <2>2, One DEF DisplayValue, InlineFits
      <3>2. Readable(a, v) <=> UnitForms[unit[a]].plain
        BY <2>2 DEF Readable
      <3> HIDE DEF c
      <3> QED  BY <2>2, <3>1, <3>2, Meanings
    <2>3. CASE type[a] = "number_range"
      <3>1. PICK l, h \in Numbers : v.inline = <<l, h>> /\ l <= h
        BY <2>1, <2>3 DEF InlineFits
      <3>2. c.numbers = IF l = h THEN <<l>> ELSE <<l, h>>
        BY <2>3, <3>1 DEF DisplayValue
      <3> DEFINE u == UnitForms[unit[a]]
                 range == c.numbers \o u.bound
      <3>3. c.unit = unit[a]
        BY <2>3 DEF DisplayValue
      <3>4. v.inline[1] = l /\ v.inline[2] = h /\ l \in Int /\ h \in Int
        BY <3>1, ValueConstants
      <3> HIDE DEF c
      <3>5. /\ u.bound \in Seq(Numbers) /\ Len(u.bound) <= 1 /\ (u.plain => u.bound = <<>>)
            /\ u.bound = <<>> \/ l # h
        <4>1. unit[a] \in DOMAIN UnitForms
          BY <1>1 DEF SchemaFits
        <4> QED  BY <2>3, <3>4, <4>1, UnitsFit DEF Legible
      <3>6. CellMeans(a, c) =
              IF Len(c.numbers) = 1 /\ u.plain THEN {<<c.numbers[1], c.numbers[1]>>}
              ELSE IF /\ Len(range) = 2 /\ (u.plain \/ u.bound # <<>>)
                      /\ 0 <= range[1] /\ range[1] <= range[2]
                   THEN {range} ELSE {}
        BY <2>3, <3>3, RangeMeanings
      <3>7. Readable(a, v) <=> u.plain /\ (l = h \/ l >= 0)
        BY <2>3, <3>4 DEF Readable
      <3> HIDE DEF u
      <3>8. CASE l = h
        <4>1. c.numbers = <<l>> /\ u.bound = <<>>
          BY <3>2, <3>5, <3>8
        <4>2. Len(c.numbers) = 1 /\ c.numbers[1] = l /\ range = <<l>> /\ Len(range) = 1
          BY <4>1
        <4> HIDE DEF range
        <4> QED  BY <3>1, <3>6, <3>7, <3>8, <4>2
      <3>9. CASE l # h
        <4>1. c.numbers = <<l, h>> /\ Len(c.numbers) = 2
          BY <3>2, <3>9
        <4>2. CASE u.bound = <<>>
          <5>1. range = <<l, h>> /\ Len(range) = 2 /\ range[1] = l /\ range[2] = h
            BY <4>1, <4>2
          <5> HIDE DEF range
          <5> QED  BY <3>1, <3>4, <3>6, <3>7, <3>9, <4>1, <4>2, <5>1
        <4>3. CASE u.bound # <<>>
          <5>1. Len(range) = 3 /\ ~ u.plain
            <6>1. Len(u.bound) = 1
              <7>1. u.bound \in Seq(Numbers) /\ Len(u.bound) <= 1 /\ u.bound # <<>>
                BY <3>5, <4>3
              <7> QED  BY <7>1, AtMostOne
            <6>2. c.numbers \in Seq(Numbers)
              BY <3>1, <4>1
            <6> QED  BY <3>5, <4>1, <4>3, <6>1, <6>2, ConcatProperties
          <5> HIDE DEF range
          <5> QED  BY <3>6, <3>7, <4>1, <5>1
        <4> QED  BY <4>2, <4>3
      <3> QED  BY <3>8, <3>9
    <2>4. CASE type[a] = "text"
      <3>1. PICK w : v.inline = <<w>>
        BY <2>1, <2>4 DEF InlineFits
      <3>2. c.words = <<w>> /\ Forms[w].collapse = w
        BY <2>4, <3>1, One DEF DisplayValue, Legible
      <3>3. Len(c.words) = 1 /\ c.words[1] = w
        BY <3>2, One
      <3> HIDE DEF c
      <3>4. CellMeans(a, c) = WordMeans(a, w)
        BY <2>4, <3>3, Meanings
      <3> QED  BY <2>0, <2>4, <3>1, <3>2, <3>4 DEF WordMeans
    <2>5. CASE type[a] = "boolean"
      <3>1. PICK b \in BOOLEAN : v.inline = <<b>>
        BY <2>1, <2>5 DEF InlineFits
      <3>2. CASE b = TRUE
        <4>1. v.inline[1]
          BY <3>1, <3>2, One
        <4>2. c.words = <<"Yes">>
          BY <2>5, <4>1 DEF DisplayValue
        <4>3. Len(c.words) = 1 /\ c.words[1] = "Yes"
          BY <4>2, One
        <4> HIDE DEF c
        <4>4. CellMeans(a, c) = {<<TRUE>>}
          <5>1. CellMeans(a, c) = WordMeans(a, c.words[1])
            BY <2>5, <4>3, Meanings
          <5> QED  BY <2>5, <4>3, <5>1, CellsFit, BooleanMeanings
        <4> QED  BY <2>0, <2>5, <3>1, <3>2, <4>4
      <3>3. CASE b = FALSE
        <4>1. ~ v.inline[1]
          BY <3>1, <3>3, One
        <4>2. c.words = <<"No">>
          BY <2>5, <4>1 DEF DisplayValue
        <4>3. Len(c.words) = 1 /\ c.words[1] = "No"
          BY <4>2, One
        <4> HIDE DEF c
        <4>4. CellMeans(a, c) = {<<FALSE>>}
          <5>1. CellMeans(a, c) = WordMeans(a, c.words[1])
            BY <2>5, <4>3, Meanings
          <5> QED  BY <2>5, <4>3, <5>1, CellsFit, BooleanMeanings
        <4> QED  BY <2>0, <2>5, <3>1, <3>3, <4>4
      <3> QED  BY <3>1, <3>2, <3>3
    <2> QED  BY <1>1, <1>3, <2>2, <2>3, <2>4, <2>5, ValueConstants DEF UsesOptions
  <1>4. CASE UsesOptions(a)
    <2> DEFINE named == OptionsOf(options[a], v.options)
               labels == [i \in DOMAIN named |-> named[i].label]
               values == [i \in DOMAIN named |-> named[i].value]
    <2>1. named \in Seq(OptionRecord) /\ ToSet(named) = Chosen(v)
      BY <1>1, OptionsTyped, OptionsOfIs DEF Chosen
    <2>2. c.words = labels
      BY <1>4 DEF DisplayValue, UsesOptions
    <2>3. Renders(ApiValue(a, v), v) /\ ApiValue(a, v) # Null
      BY ApiRenders
    <2>4. ApiValue(a, v) = json(values) /\ (type[a] # "multi_enum" => Len(named) = 1)
      BY <1>4, <2>3 DEF ApiValue
    <2> SUFFICES CellMeans(a, c) = {values}
      BY <1>4, <2>4 DEF Readable, UsesOptions
    <2>5. ASSUME NEW i \in DOMAIN named
          PROVE  /\ MatchOption(a, named[i].label) = {named[i]}
                 /\ Forms[named[i].label].parts = <<named[i].label>>
      <3>1. named[i] \in Chosen(v)
        BY <2>1 DEF ToSet
      <3> HIDE DEF named
      <3>2. named[i] \in ToSet(options[a]) /\ named[i].id \in v.options
        BY <3>1 DEF Chosen
      <3> QED  BY <1>1, <3>2, LabelMatches DEF Legible
    <2> HIDE DEF named, c
    <2>6. named # <<>> /\ DOMAIN named = 1..Len(named) /\ Len(named) \in Nat
      <3>1. \E o : o \in Chosen(v)
        BY <1>4 DEF Fits, Chosen
      <3> QED  BY <2>1, <3>1 DEF ToSet
    <2>7. labels \in Seq(Labels) /\ Len(labels) = Len(named)
      <3>1. \A i \in DOMAIN named : named[i].label \in Labels
        <4>1. \A i \in DOMAIN named : named[i] \in OptionRecord
          BY <2>1
        <4> QED  BY <4>1 DEF OptionRecord
      <3> QED  BY <2>6, <3>1
    <2>8. \A i \in DOMAIN named : labels[i] = named[i].label /\ MatchOption(a, labels[i]) = {named[i]}
      BY <2>5
    <2>9. CASE type[a] \in {"enum", "color"}
      <3>1. Len(named) = 1 /\ 1 \in DOMAIN named
        BY <2>4, <2>6, <2>9
      <3>2. Len(c.words) = 1 /\ c.words[1] = labels[1]
        BY <2>2, <2>7, <3>1
      <3>3. values = <<named[1].value>>
        BY <2>6, <3>1
      <3>4. CellMeans(a, c) = {<<o.value>> : o \in MatchOption(a, labels[1])}
        <4> HIDE DEF labels
        <4>1. CellMeans(a, c) = WordMeans(a, labels[1])
          BY <2>9, <3>2, Meanings
        <4> QED  BY <2>9, <4>1 DEF WordMeans
      <3>5. MatchOption(a, labels[1]) = {named[1]}
        BY <2>8, <3>1
      <3> HIDE DEF labels, values
      <3> QED  BY <3>3, <3>4, <3>5
    <2>10. CASE type[a] = "multi_enum"
      <3>1. PartsOf(c.words) = labels
        <4> DEFINE s == [i \in DOMAIN labels |-> Forms[labels[i]].parts]
        <4>1. \A i \in 1..Len(labels) : s[i] = <<labels[i]>>
          BY <2>5, <2>6, <2>7
        <4>2. s \in Seq(Seq(Labels)) /\ Len(s) = Len(labels)
          <5> HIDE DEF labels
          <5>1. \A i \in 1..Len(labels) : <<labels[i]>> \in Seq(Labels)
            BY <2>7
          <5>2. s = [i \in 1..Len(labels) |-> s[i]] /\ Len(labels) \in Nat
            <6>1. DOMAIN labels = 1..Len(labels) /\ Len(labels) \in Nat
              BY <2>7
            <6> QED  BY <6>1
          <5>3. \A i \in 1..Len(labels) : s[i] \in Seq(Labels)
            BY <4>1, <5>1
          <5> HIDE DEF s
          <5> QED  BY <5>2, <5>3
        <4> HIDE DEF s, labels
        <4>3. FlattenSeq(s) = labels
          BY <2>7, <4>1, <4>2, FlattenSingles
        <4> QED  BY <2>2, <4>3 DEF s, PartsOf
      <3>2. CellMeans(a, c) = PartsMean(a, labels)
        BY <2>10, <3>1, Meanings
      <3>3. labels # <<>> /\ DOMAIN labels = DOMAIN named
        <4>1. DOMAIN labels = DOMAIN named /\ Len(named) # 0
          BY <2>6
        <4> QED  BY <2>7, <4>1
      <3>4. [i \in DOMAIN labels |-> (CHOOSE o \in MatchOption(a, labels[i]) : TRUE).value] = values
        <4> DEFINE first(i) == CHOOSE o \in MatchOption(a, labels[i]) : TRUE
        <4>1. \A i \in DOMAIN named : first(i) = named[i]
          BY <2>8
        <4> HIDE DEF labels, first
        <4>2. [i \in DOMAIN labels |-> first(i).value] = values
          BY <3>3, <4>1
        <4> QED  BY <4>2 DEF first
      <3>5. \A i \in DOMAIN labels : MatchOption(a, labels[i]) # {}
        BY <2>8, <3>3
      <3> HIDE DEF labels, values
      <3> QED  BY <3>2, <3>3, <3>4, <3>5 DEF PartsMean
    <2> QED  BY <1>4, <2>9, <2>10 DEF UsesOptions
  <1> QED  BY <1>3, <1>4

\* What the site displays is imported as what it is, or left to a person, and what a
\* workbook says can be saved (cells.go), with the exceptions CellsReadBack names:
\* whatever the attributes, their units and options, the values, their signs and lengths,
\* and the cells.
THEOREM CellsAreReadBack == ValuesSpec => []CellsReadBack
  <1>1. ValuesInv => CellsReadBack
    <2> SUFFICES ASSUME ValuesInv  PROVE CellsReadBack
      OBVIOUS
    <2>1. SchemaFits /\ \A v \in Shown : Fits(v)
      BY DEF ValuesInv, Stored, OneEach, Shown
    <2> QED  BY <2>1, DisplayedIsParsed, ParsedDecodes DEF CellsReadBack
  <1> QED  BY <1>1, ValuesInitially, ValuesInductive, PTL DEF ValuesSpec
=============================================================================
