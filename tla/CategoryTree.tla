---------------------------- MODULE CategoryTree ----------------------------
(***************************************************************************)
(* The category tree (internal/service/taxonomy.go, catalog.go,            *)
(* db/queries/categories.sql) under edits by several admins.               *)
(*                                                                         *)
(* A category stores its parent and, redundantly, its path: the labels     *)
(* (slugs) from the root down to itself.  A request reads the category and *)
(* the parent it is to hang under, without locks, and writes later in the  *)
(* same transaction.  The write is optimistic in the category's own        *)
(* updated_at, which a move of any ancestor also changes; nothing protects *)
(* the parent that was read.                                               *)
(*                                                                         *)
(* The statements that write, up to the commit, are one step: statements   *)
(* of two such transactions touch the same rows in one order or the other. *)
(***************************************************************************)
EXTENDS Integers, Sequences, FiniteSets

CONSTANTS
    Cats,     \* category ids
    Slugs,
    Null,     \* NULL: the parent_id of a root category, and no category
    Admins,
    Movers    \* the admins who create, move or rename categories

ASSUME CategoryTreeAssumption == Null \notin Cats \cup Slugs /\ Movers \subseteq Admins

VARIABLES
    live,     \* the categories there are
    parent, slug, path, active,   \* their columns
    pc,       \* what each admin's request is about to write
    id,       \* the category it is about
    want,     \* the parent, slug and visibility it asks for
    prefix,   \* the path of that parent, as read
    changed   \* whether the category's updated_at has changed since it was read

tree == <<live, parent, slug, path, active>>
request == <<pc, id, want, prefix, changed>>
vars == <<tree, request>>

NoWant == [parent |-> Null, slug |-> Null, active |-> TRUE]
Wants == [parent : Cats \cup {Null}, slug : Slugs, active : BOOLEAN]

Init ==
    /\ live = {}
    /\ parent = [c \in Cats |-> Null]
    /\ slug = [c \in Cats |-> Null]
    /\ path = [c \in Cats |-> <<>>]
    /\ active = [c \in Cats |-> TRUE]
    /\ pc = [a \in Admins |-> "idle"] /\ id = [a \in Admins |-> Null]
    /\ want = [a \in Admins |-> NoWant] /\ prefix = [a \in Admins |-> <<>>]
    /\ changed = [a \in Admins |-> FALSE]

-----------------------------------------------------------------------------
IsPrefixOf(p, q) == Len(p) <= Len(q) /\ SubSeq(q, 1, Len(p)) = p

\* path <@ p in ltree: the subtree of p, p included.
Under(p) == {c \in live : IsPrefixOf(p, path[c])}

\* parentPath.
PathOf(p) == IF p = Null THEN <<>> ELSE path[p]

Begin(a, to, c, w) ==
    /\ pc' = [pc EXCEPT ![a] = to] /\ id' = [id EXCEPT ![a] = c]
    /\ want' = [want EXCEPT ![a] = w]
    /\ prefix' = [prefix EXCEPT ![a] = PathOf(w.parent)]
    /\ changed' = [changed EXCEPT ![a] = FALSE]
    /\ UNCHANGED tree

\* The request of a ends, and the others learn that rows have changed.
End(a, rows) ==
    /\ pc' = [pc EXCEPT ![a] = "idle"] /\ id' = [id EXCEPT ![a] = Null]
    /\ want' = [want EXCEPT ![a] = NoWant]
    /\ prefix' = [prefix EXCEPT ![a] = <<>>]
    /\ changed' = [b \in Admins |-> b # a /\ (changed[b] \/ id[b] \in rows)]

SlugFree(s, c) == \A d \in live \ {c} : slug[d] # s

\* CreateCategory reads the parent's path.
CreateBegin(a, c, w) ==
    /\ pc[a] = "idle" /\ a \in Movers
    /\ c \notin live /\ w.parent \in live \cup {Null}
    /\ \A b \in Admins : id[b] # c
    /\ Begin(a, "create", c, w)

\* Its INSERT: the slug is unique and the parent still exists.
CreateInsert(a) ==
    /\ pc[a] = "create"
    /\ SlugFree(want[a].slug, id[a]) /\ want[a].parent \in live \cup {Null}
    /\ live' = live \cup {id[a]}
    /\ parent' = [parent EXCEPT ![id[a]] = want[a].parent]
    /\ slug' = [slug EXCEPT ![id[a]] = want[a].slug]
    /\ path' = [path EXCEPT ![id[a]] = Append(prefix[a], want[a].slug)]
    /\ active' = [active EXCEPT ![id[a]] = want[a].active]
    /\ End(a, {})

\* "A category cannot become its own ancestor."
MayHangUnder(c, p) ==
    p # Null => p # c /\ ~ IsPrefixOf(path[c], path[p])

\* UpdateCategory reads the category, then its new parent, and compares.  One
\* step: were the category to change between the reads, the write would be
\* refused.  Admins who are not Movers leave parent and slug alone.
UpdateBegin(a, c, w) ==
    /\ pc[a] = "idle" /\ c \in live /\ w.parent \in live \cup {Null}
    /\ a \in Movers \/ (w.parent = parent[c] /\ w.slug = slug[c])
    /\ MayHangUnder(c, w.parent)
    /\ Begin(a, "update", c, w)

\* Mutant of Moved: the descendants keep their paths.
MovedAlone(old, new) ==
    [c \in Cats |-> IF c \in live /\ path[c] = old THEN new ELSE path[c]]

\* MoveCategorySubtree, from the path read to the new one.
Moved(old, new) ==
    [c \in Cats |-> IF c \in Under(old)
                    THEN new \o SubSeq(path[c], Len(old) + 1, Len(path[c]))
                    ELSE path[c]]

\* Mutant of Touched: the descendants keep their updated_at.
TouchedAlone(c, new) == {c}

\* The rows whose updated_at an update sets to now().
Touched(c, new) == IF new = path[c] THEN {c} ELSE Under(path[c])

\* UpdateCategory's UPDATE, MoveCategorySubtree and commit.  The path read is
\* still path[c]: with it, updated_at would have changed.
UpdateWrite(a) ==
    LET c == id[a]
        new == Append(prefix[a], want[a].slug) IN
    /\ pc[a] = "update" /\ ~ changed[a]
    /\ SlugFree(want[a].slug, c) /\ want[a].parent \in live \cup {Null}
    /\ parent' = [parent EXCEPT ![c] = want[a].parent]
    /\ slug' = [slug EXCEPT ![c] = want[a].slug]
    /\ active' = [active EXCEPT ![c] = want[a].active]
    /\ path' = Moved(path[c], new)
    /\ End(a, Touched(c, new))
    /\ UNCHANGED live

\* A slug is taken, the parent is gone, or the category has changed
\* (ErrVersionMismatch); or any statement fails.
Refuse(a) ==
    /\ pc[a] # "idle"
    /\ End(a, {})
    /\ UNCHANGED tree

\* DeleteCategory: refused, by the foreign key, while it has subcategories.
Delete(c) ==
    /\ c \in live /\ \A d \in live : parent[d] # c
    /\ live' = live \ {c}
    /\ parent' = [parent EXCEPT ![c] = Null]
    /\ slug' = [slug EXCEPT ![c] = Null]
    /\ path' = [path EXCEPT ![c] = <<>>]
    /\ active' = [active EXCEPT ![c] = TRUE]
    /\ changed' = [b \in Admins |-> changed[b] \/ id[b] = c]
    /\ UNCHANGED <<pc, id, want, prefix>>

Next ==
    \/ \E a \in Admins :
         \/ \E c \in Cats, w \in Wants : CreateBegin(a, c, w) \/ UpdateBegin(a, c, w)
         \/ CreateInsert(a) \/ UpdateWrite(a) \/ Refuse(a)
    \/ \E c \in Cats : Delete(c)

Spec == Init /\ [][Next]_vars

-----------------------------------------------------------------------------
\* Mutant of IsVisible: the ancestors are not looked at.
IsVisibleItself(c) == active[c]

\* CategoryIsVisible, and the listings' condition: no inactive ancestor by path.
IsVisible(c) == \A anc \in live : IsPrefixOf(path[anc], path[c]) => active[anc]

\* visibleTree: active categories whose parent is in the tree, level by level.
\* It is one pass in path order, in which parents come first: PathsFollowParents.
VisibleTree ==
    LET upto[n \in 0..Cardinality(Cats)] ==
          IF n = 0 THEN {}
          ELSE {c \in live : active[c] /\ parent[c] \in upto[n - 1] \cup {Null}}
    IN upto[Cardinality(Cats)]

-----------------------------------------------------------------------------
Paths == UNION {[1..n -> Slugs] : n \in 0..Cardinality(Cats)}

TypeOK ==
    /\ live \subseteq Cats
    /\ parent \in [Cats -> Cats \cup {Null}] /\ slug \in [Cats -> Slugs \cup {Null}]
    /\ path \in [Cats -> Paths] /\ active \in [Cats -> BOOLEAN]
    /\ pc \in [Admins -> {"idle", "create", "update"}]
    /\ id \in [Admins -> Cats \cup {Null}]
    /\ want \in [Admins -> Wants \cup {NoWant}] /\ prefix \in [Admins -> Paths]
    /\ changed \in [Admins -> BOOLEAN]

(* "Changing its slug or parent moves its whole subtree": the materialised path
   of every category is its parent's followed by its own slug, so that there is
   no cycle, while one admin restructures the tree and others edit it. *)
PathsFollowParents ==
    \A c \in live :
        /\ parent[c] \in live \cup {Null}
        /\ path[c] = Append(PathOf(parent[c]), slug[c])

(* The two renderings of "hiding a category hides everything under it" agree:
   what CategoryIsVisible and the listings compute from paths is what visibleTree
   computes from parents. *)
VisibilityAgrees == \A c \in live : IsVisible(c) <=> c \in VisibleTree

(* "A category cannot become its own ancestor" (UpdateCategory): going up from a
   category ends at a root. *)
NoCycle ==
    LET up[n \in 0..Cardinality(Cats)] ==
          IF n = 0 THEN live
          ELSE {parent[c] : c \in up[n - 1] \ {Null}}
    IN up[Cardinality(Cats)] \subseteq {Null}
=============================================================================
