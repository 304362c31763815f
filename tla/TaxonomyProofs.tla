--------------------------- MODULE TaxonomyProofs ---------------------------
(***************************************************************************)
(* Proofs about CategoryTree and Registry, which MCTaxonomy puts side by   *)
(* side.                                                                   *)
(***************************************************************************)
EXTENDS MCTaxonomy, SequenceTheorems, FiniteSetTheorems, TLAPS

-----------------------------------------------------------------------------
\* A set of numbers that contains 0 and every successor contains them all.
LEMMA NumbersFromZero ==
    ASSUME NEW S, 0 \in S, \A n \in Nat : n \in S => n + 1 \in S
    PROVE  \A n \in Nat : n \in S
  <1> DEFINE R == OpToRel(<, Nat)
             T == Nat \ S
  <1>1. IsWellFoundedOn(R, Nat)
    BY NatLessThanWellFounded
  <1>2. \A y, x \in Nat : y < x => <<y, x>> \in R
    BY DEF OpToRel
  <1> HIDE DEF R
  <1> SUFFICES ASSUME T # {}  PROVE FALSE
    OBVIOUS
  <1>3. PICK x \in T : \A y \in T : <<y, x>> \notin R
    BY <1>1, WFMin
  <1>4. x - 1 \in T /\ x - 1 < x
    BY <1>3
  <1> QED  BY <1>2, <1>3, <1>4

-----------------------------------------------------------------------------
(* Paths.                                                                  *)

Labels == Slugs \cup {Null}
Trails == Seq(Labels)

\* A label is at the end of the path it is appended to.
LEMMA AppendIs ==
    ASSUME NEW p \in Trails, NEW e \in Labels
    PROVE  /\ Append(p, e) \in Trails /\ Len(Append(p, e)) = Len(p) + 1
           /\ \A i \in 1..Len(p) : Append(p, e)[i] = p[i]
           /\ Append(p, e)[Len(p) + 1] = e
  BY DEF Trails

LEMMA PrefixIs ==
    ASSUME NEW p \in Trails, NEW q \in Trails
    PROVE  IsPrefixOf(p, q) <=> Len(p) <= Len(q) /\ \A i \in 1..Len(p) : q[i] = p[i]
  <1>1. Len(p) \in Nat /\ Len(q) \in Nat
    BY LenProperties DEF Trails
  <1>2. ASSUME Len(p) <= Len(q)
        PROVE  /\ SubSeq(q, 1, Len(p)) \in Trails /\ Len(SubSeq(q, 1, Len(p))) = Len(p)
               /\ \A i \in 1..Len(p) : SubSeq(q, 1, Len(p))[i] = q[i]
    <2>1. \A i \in 1..Len(p) : q[i] \in Labels
      BY <1>1, <1>2, ElementOfSeq DEF Trails
    <2>2. /\ SubSeq(q, 1, Len(p)) \in Seq(Labels)
          /\ Len(SubSeq(q, 1, Len(p))) = IF 1 <= Len(p) THEN Len(p) - 1 + 1 ELSE 0
          /\ \A i \in 1..(Len(p) - 1 + 1) : SubSeq(q, 1, Len(p))[i] = q[1 + i - 1]
      BY <1>1, <2>1, SubSeqProperties
    <2> QED  BY <1>1, <2>2 DEF Trails
  <1>3. ASSUME Len(p) <= Len(q), \A i \in 1..Len(p) : q[i] = p[i]
        PROVE  SubSeq(q, 1, Len(p)) = p
    BY <1>2, <1>3, SeqEqual DEF Trails
  <1> QED  BY <1>2, <1>3 DEF IsPrefixOf

\* What MoveCategorySubtree makes of a path q under old.
Grafted(new, old, q) == new \o SubSeq(q, Len(old) + 1, Len(q))

LEMMA GraftedIs ==
    ASSUME NEW new \in Trails, NEW old \in Trails, NEW q \in Trails, Len(old) <= Len(q)
    PROVE  /\ Grafted(new, old, q) \in Trails
           /\ Len(Grafted(new, old, q)) = Len(new) + Len(q) - Len(old)
           /\ \A i \in 1..(Len(new) + Len(q) - Len(old)) :
                Grafted(new, old, q)[i] =
                  IF i <= Len(new) THEN new[i] ELSE q[i - Len(new) + Len(old)]
  <1> DEFINE rest == SubSeq(q, Len(old) + 1, Len(q))
  <1>1. Len(new) \in Nat /\ Len(old) \in Nat /\ Len(q) \in Nat
    BY LenProperties DEF Trails
  <1>2. \A i \in (Len(old) + 1)..Len(q) : q[i] \in Labels
    BY <1>1, ElementOfSeq DEF Trails
  <1>3. /\ rest \in Seq(Labels)
        /\ Len(rest) = IF Len(old) + 1 <= Len(q) THEN Len(q) - (Len(old) + 1) + 1 ELSE 0
        /\ \A i \in 1..(Len(q) - (Len(old) + 1) + 1) : rest[i] = q[Len(old) + 1 + i - 1]
    BY <1>1, <1>2, SubSeqProperties
  <1>4. Len(rest) = Len(q) - Len(old) /\ \A i \in 1..Len(rest) : rest[i] = q[i + Len(old)]
    BY <1>1, <1>3
  <1> HIDE DEF rest
  <1>5. /\ new \o rest \in Trails /\ Len(new \o rest) = Len(new) + Len(rest)
        /\ \A i \in 1..(Len(new) + Len(rest)) :
             (new \o rest)[i] = IF i <= Len(new) THEN new[i] ELSE rest[i - Len(new)]
    BY <1>3, ConcatProperties DEF Trails
  <1>6. Grafted(new, old, q) = new \o rest
    BY DEF Grafted, rest
  <1>7. ASSUME NEW i \in 1..(Len(new) + Len(q) - Len(old)), ~ i <= Len(new)
        PROVE  rest[i - Len(new)] = q[i - Len(new) + Len(old)]
    BY <1>1, <1>4, <1>7
  <1> QED  BY <1>1, <1>4, <1>5, <1>6, <1>7

LEMMA TrailsEqual ==
    ASSUME NEW p \in Trails, NEW q \in Trails, Len(p) = Len(q),
           \A i \in 1..Len(p) : p[i] = q[i]
    PROVE  p = q
  BY SeqEqual DEF Trails

LEMMA GraftedRoot ==
    ASSUME NEW new \in Trails, NEW old \in Trails
    PROVE  Grafted(new, old, old) = new
  <1>1. Len(new) \in Nat /\ Len(old) \in Nat
    BY LenProperties DEF Trails
  <1>2. /\ Grafted(new, old, old) \in Trails
        /\ Len(Grafted(new, old, old)) = Len(new) + Len(old) - Len(old)
        /\ \A i \in 1..(Len(new) + Len(old) - Len(old)) :
             Grafted(new, old, old)[i] = IF i <= Len(new) THEN new[i] ELSE old[i - Len(new) + Len(old)]
    <2>1. Len(old) <= Len(old)
      BY <1>1
    <2> QED  BY <2>1, GraftedIs
  <1>3. \A i \in 1..Len(new) : Grafted(new, old, old)[i] = new[i]
    BY <1>1, <1>2
  <1> QED  BY <1>1, <1>2, <1>3, TrailsEqual

LEMMA GraftedSame ==
    ASSUME NEW old \in Trails, NEW q \in Trails, IsPrefixOf(old, q)
    PROVE  Grafted(old, old, q) = q
  <1>1. Len(q) \in Nat /\ Len(old) \in Nat /\ Len(old) <= Len(q)
        /\ \A i \in 1..Len(old) : q[i] = old[i]
    BY LenProperties, PrefixIs DEF Trails
  <1>2. /\ Grafted(old, old, q) \in Trails
        /\ Len(Grafted(old, old, q)) = Len(old) + Len(q) - Len(old)
        /\ \A i \in 1..(Len(old) + Len(q) - Len(old)) :
             Grafted(old, old, q)[i] = IF i <= Len(old) THEN old[i] ELSE q[i - Len(old) + Len(old)]
    BY <1>1, GraftedIs
  <1>3. \A i \in 1..Len(q) : Grafted(old, old, q)[i] = q[i]
    BY <1>1, <1>2
  <1> QED  BY <1>1, <1>2, <1>3, TrailsEqual

\* A child moves with its parent.
LEMMA GraftedChild ==
    ASSUME NEW new \in Trails, NEW old \in Trails, NEW q \in Trails, NEW e \in Labels,
           IsPrefixOf(old, q)
    PROVE  Grafted(new, old, Append(q, e)) = Append(Grafted(new, old, q), e)
  <1> DEFINE g == Grafted(new, old, q)
             h == Grafted(new, old, Append(q, e))
  <1>1. Len(new) \in Nat /\ Len(old) \in Nat /\ Len(q) \in Nat /\ Len(old) <= Len(q)
    BY LenProperties, PrefixIs DEF Trails
  <1>2. /\ Append(q, e) \in Trails /\ Len(Append(q, e)) = Len(q) + 1
        /\ \A i \in 1..Len(q) : Append(q, e)[i] = q[i]
        /\ Append(q, e)[Len(q) + 1] = e
    BY AppendIs
  <1>3. /\ g \in Trails /\ Len(g) = Len(new) + Len(q) - Len(old)
        /\ \A i \in 1..Len(g) :
             g[i] = IF i <= Len(new) THEN new[i] ELSE q[i - Len(new) + Len(old)]
    BY <1>1, GraftedIs
  <1>4. /\ h \in Trails /\ Len(h) = Len(g) + 1
        /\ \A i \in 1..(Len(g) + 1) :
             h[i] = IF i <= Len(new) THEN new[i] ELSE Append(q, e)[i - Len(new) + Len(old)]
    <2>1. Len(old) <= Len(Append(q, e))
      BY <1>1, <1>2
    <2>2. /\ h \in Trails /\ Len(h) = Len(new) + Len(Append(q, e)) - Len(old)
          /\ \A i \in 1..(Len(new) + Len(Append(q, e)) - Len(old)) :
               h[i] = IF i <= Len(new) THEN new[i] ELSE Append(q, e)[i - Len(new) + Len(old)]
      BY <1>2, <2>1, GraftedIs
    <2>3. Len(new) + Len(Append(q, e)) - Len(old) = Len(g) + 1
      BY <1>1, <1>2, <1>3
    <2> QED  BY <2>2, <2>3
  <1> HIDE DEF g, h
  <1>5. /\ Append(g, e) \in Trails /\ Len(Append(g, e)) = Len(g) + 1
        /\ \A i \in 1..Len(g) : Append(g, e)[i] = g[i]
        /\ Append(g, e)[Len(g) + 1] = e
    BY <1>3, AppendIs
  <1>6. ASSUME NEW i \in 1..(Len(g) + 1)
        PROVE  h[i] = Append(g, e)[i]
    <2>0. Len(g) \in Nat /\ i \in Nat
      BY <1>1, <1>3
    <2>1. CASE i <= Len(new) /\ i <= Len(g)
      <3>1. i \in 1..Len(g)
        BY <2>0, <2>1
      <3>2. g[i] = new[i] /\ h[i] = new[i]
        BY <1>3, <1>4, <2>1, <3>1
      <3> QED  BY <1>5, <3>1, <3>2
    <2>2. CASE i > Len(new) /\ i <= Len(g)
      <3>1. i - Len(new) + Len(old) \in 1..Len(q)
        BY <1>1, <1>3, <2>2
      <3>2. h[i] = q[i - Len(new) + Len(old)]
        BY <1>2, <1>4, <2>2, <3>1
      <3> QED  BY <1>1, <1>3, <1>5, <2>2, <3>2
    <2>3. CASE i = Len(g) + 1
      <3>1. i > Len(new) /\ i - Len(new) + Len(old) = Len(q) + 1
        BY <1>1, <1>3, <2>3
      <3> QED  BY <1>1, <1>2, <1>4, <1>5, <2>3, <3>1
    <2> QED  BY <1>1, <2>0, <2>1, <2>2, <2>3
  <1>7. h = Append(g, e)
    BY <1>4, <1>5, <1>6, TrailsEqual
  <1> QED  BY <1>7 DEF g, h

\* What is a prefix of a child's path is one of its parent's or the path itself.
LEMMA PrefixOfChild ==
    ASSUME NEW p \in Trails, NEW q \in Trails, NEW e \in Labels
    PROVE  /\ IsPrefixOf(p, q) => IsPrefixOf(p, Append(q, e))
           /\ IsPrefixOf(p, Append(q, e)) => IsPrefixOf(p, q) \/ p = Append(q, e)
           /\ ~ IsPrefixOf(Append(q, e), q)
  <1>1. Len(p) \in Nat /\ Len(q) \in Nat
    BY LenProperties DEF Trails
  <1>2. /\ Append(q, e) \in Trails /\ Len(Append(q, e)) = Len(q) + 1
        /\ \A i \in 1..Len(q) : Append(q, e)[i] = q[i]
    BY AppendIs
  <1>3. ASSUME IsPrefixOf(p, q)
        PROVE  IsPrefixOf(p, Append(q, e))
    <2>1. Len(p) <= Len(q) /\ \A i \in 1..Len(p) : q[i] = p[i]
      BY <1>3, PrefixIs
    <2>2. Len(p) <= Len(Append(q, e)) /\ \A i \in 1..Len(p) : Append(q, e)[i] = p[i]
      BY <1>1, <1>2, <2>1
    <2> QED  BY <1>2, <2>2, PrefixIs
  <1>4. ASSUME IsPrefixOf(p, Append(q, e))
        PROVE  IsPrefixOf(p, q) \/ p = Append(q, e)
    <2>1. Len(p) <= Len(q) + 1 /\ \A i \in 1..Len(p) : Append(q, e)[i] = p[i]
      BY <1>2, <1>4, PrefixIs
    <2>2. CASE Len(p) <= Len(q)
      <3>1. \A i \in 1..Len(p) : q[i] = p[i]
        BY <1>1, <1>2, <2>1, <2>2
      <3> QED  BY <2>2, <3>1, PrefixIs
    <2>3. CASE Len(p) = Len(q) + 1
      BY <1>2, <2>1, <2>3, TrailsEqual
    <2> QED  BY <1>1, <2>1, <2>2, <2>3
  <1>5. ~ IsPrefixOf(Append(q, e), q)
    <2>1. IsPrefixOf(Append(q, e), q) => Len(Append(q, e)) <= Len(q)
      BY <1>2, PrefixIs
    <2> QED  BY <1>1, <1>2, <2>1
  <1> QED  BY <1>3, <1>4, <1>5

\* A path ends in one label, and is not empty.
LEMMA LastLabel ==
    ASSUME NEW p \in Trails, NEW q \in Trails, NEW d \in Labels, NEW e \in Labels
    PROVE  /\ Append(p, d) = Append(q, e) => d = e
           /\ Append(p, d) # <<>>
           /\ ~ IsPrefixOf(Append(p, d), <<>>)
           /\ IsPrefixOf(p, p) /\ IsPrefixOf(<<>>, p) /\ <<>> \in Trails
  <1>1. Len(p) \in Nat /\ Len(q) \in Nat /\ <<>> \in Trails /\ Len(<<>>) = 0
    BY LenProperties, EmptySeq DEF Trails
  <1>2. Append(p, d) \in Trails /\ Len(Append(p, d)) = Len(p) + 1
        /\ Append(p, d)[Len(p) + 1] = d
        /\ Len(Append(q, e)) = Len(q) + 1 /\ Append(q, e)[Len(q) + 1] = e
    BY AppendIs
  <1>3. ~ IsPrefixOf(Append(p, d), <<>>)
    <2>1. IsPrefixOf(Append(p, d), <<>>) => Len(Append(p, d)) <= 0
      BY <1>1, <1>2, PrefixIs
    <2> QED  BY <1>1, <1>2, <2>1
  <1>4. IsPrefixOf(p, p) /\ IsPrefixOf(<<>>, p)
    BY <1>1, PrefixIs
  <1>5. ASSUME Append(p, d) = Append(q, e)
        PROVE  d = e
    <2>1. Len(p) + 1 = Len(q) + 1
      BY <1>2, <1>5
    <2>2. Len(p) = Len(q)
      BY <1>1, <2>1
    <2> QED  BY <1>2, <1>5, <2>2
  <1>6. Append(p, d) # <<>>
    <2>1. Len(Append(p, d)) # Len(<<>>)
      BY <1>1, <1>2
    <2> QED  BY <2>1
  <1> QED  BY <1>1, <1>3, <1>4, <1>5, <1>6

-----------------------------------------------------------------------------
(* The tree, while one admin restructures it.                              *)

OneMover == \A a, b \in Movers : a = b

TreeTyped ==
    /\ live \subseteq Cats
    /\ parent \in [Cats -> Cats \cup {Null}] /\ slug \in [Cats -> Labels]
    /\ path \in [Cats -> Trails] /\ active \in [Cats -> BOOLEAN]
    /\ pc \in [Admins -> {"idle", "create", "update"}]
    /\ id \in [Admins -> Cats \cup {Null}]
    /\ want \in [Admins -> [parent : Cats \cup {Null}, slug : Labels, active : BOOLEAN]]
    /\ prefix \in [Admins -> Trails] /\ changed \in [Admins -> BOOLEAN]

SlugsApart == \A c, d \in live : slug[c] = slug[d] => c = d

\* What a request has read still holds, as far as its write relies on it: the
\* mover's of the parent that it moves to, the others' of the one there is.
ReadsHold(a) ==
    /\ pc[a] # "idle" => id[a] \in Cats /\ want[a].slug \in Slugs
    /\ pc[a] = "create" => a \in Movers /\ id[a] \notin live
    /\ pc[a] = "update" /\ ~ changed[a] => id[a] \in live
    /\ pc[a] # "idle" /\ a \in Movers /\ want[a].parent \in live \cup {Null} =>
         /\ prefix[a] = PathOf(want[a].parent)
         /\ pc[a] = "update" /\ ~ changed[a] => MayHangUnder(id[a], want[a].parent)
    /\ pc[a] = "update" /\ ~ changed[a] /\ a \notin Movers =>
         /\ want[a].parent = parent[id[a]] /\ want[a].slug = slug[id[a]]
         /\ prefix[a] = PathOf(parent[id[a]])

TreeInv ==
    /\ TreeTyped /\ SlugsApart /\ PathsFollowParents
    /\ \A a \in Admins : ReadsHold(a)

LEMMA NullIsApart == Null \notin Cats /\ Null \notin Slugs /\ Movers \subseteq Admins
  BY CategoryTreeAssumption

LEMMA PathOfTyped ==
    ASSUME TreeTyped, NEW p \in Cats \cup {Null}
    PROVE  PathOf(p) \in Trails
  BY NullIsApart, EmptySeq DEF TreeTyped, PathOf, Trails

\* A category's path is not under itself, and no other has it.
LEMMA PathsApart ==
    ASSUME TreeTyped, SlugsApart, PathsFollowParents, NEW c \in live
    PROVE  /\ path[c] \in Trails /\ slug[c] \in Labels /\ c \in Cats
           /\ parent[c] \in live \cup {Null} /\ PathOf(parent[c]) \in Trails
           /\ path[c] = Append(PathOf(parent[c]), slug[c])
           /\ IsPrefixOf(path[c], path[c])
           /\ ~ IsPrefixOf(path[c], PathOf(parent[c]))
           /\ \A d \in live : path[d] = path[c] => d = c
           /\ MayHangUnder(c, parent[c])
  <1>1. path[c] \in Trails /\ slug[c] \in Labels /\ c \in Cats
        /\ parent[c] \in live \cup {Null} /\ path[c] = Append(PathOf(parent[c]), slug[c])
    BY DEF TreeTyped, PathsFollowParents
  <1>2. PathOf(parent[c]) \in Trails
    BY <1>1, PathOfTyped DEF TreeTyped
  <1>3. ~ IsPrefixOf(path[c], PathOf(parent[c])) /\ IsPrefixOf(path[c], path[c])
    BY <1>1, <1>2, PrefixOfChild, LastLabel
  <1>4. ASSUME NEW d \in live, path[d] = path[c]
        PROVE  d = c
    <2>1. /\ PathOf(parent[d]) \in Trails /\ slug[d] \in Labels
          /\ path[d] = Append(PathOf(parent[d]), slug[d])
      BY PathOfTyped DEF TreeTyped, PathsFollowParents
    <2>2. slug[d] = slug[c]
      BY <1>1, <1>2, <1>4, <2>1, LastLabel
    <2> QED  BY <2>2 DEF SlugsApart
  <1>5. MayHangUnder(c, parent[c])
    BY <1>1, <1>3 DEF MayHangUnder, PathOf
  <1> QED  BY <1>1, <1>2, <1>3, <1>4, <1>5

\* A subtree that hangs nowhere in itself moves as a whole.
LEMMA SubtreeMoves ==
    ASSUME TreeTyped, SlugsApart, PathsFollowParents,
           NEW c \in live, NEW p \in live \cup {Null}, NEW s \in Slugs,
           MayHangUnder(c, p), live' = live,
           parent' = [parent EXCEPT ![c] = p], slug' = [slug EXCEPT ![c] = s],
           path' = Moved(path[c], Append(PathOf(p), s))
    PROVE  /\ path' \in [Cats -> Trails] /\ PathsFollowParents'
           /\ \A d \in live : ~ IsPrefixOf(path[c], path[d]) => path'[d] = path[d]
           /\ Append(PathOf(p), s) = path[c] => \A d \in live : path'[d] = path[d]
  <1> DEFINE new == Append(PathOf(p), s)
             old == path[c]
             under(d) == IsPrefixOf(old, path[d])
  <1>0. /\ c \in Cats /\ live \subseteq Cats /\ old \in Trails /\ PathOf(p) \in Trails
        /\ new \in Trails /\ \A d \in Cats : path[d] \in Trails
    BY PathsApart, PathOfTyped, AppendIs DEF TreeTyped, Labels
  <1>1. \A d \in Cats : path'[d] = IF d \in live /\ under(d) THEN Grafted(new, old, path[d])
                                   ELSE path[d]
    BY DEF Moved, Under, Grafted
  <1>2. \A d \in Cats : under(d) => Len(old) <= Len(path[d])
    BY <1>0, PrefixIs
  <1>3. path' \in [Cats -> Trails]
    <2>1. ASSUME NEW d \in Cats
          PROVE  path'[d] \in Trails
      <3>1. CASE d \in live /\ under(d)
        <4>1. path[d] \in Trails /\ Len(old) <= Len(path[d])
          BY <1>0, <1>2, <3>1
        <4>2. Grafted(new, old, path[d]) \in Trails
          BY <1>0, <4>1, GraftedIs
        <4> QED  BY <1>1, <3>1, <4>2
      <3>2. CASE ~ (d \in live /\ under(d))
        BY <1>0, <1>1, <3>2
      <3> QED  BY <3>1, <3>2
    <2> QED  BY <2>1 DEF Moved
  <1>4. \A d \in live : ~ IsPrefixOf(path[c], path[d]) => path'[d] = path[d]
    BY <1>0, <1>1
  <1>5. new = old => \A d \in live : path'[d] = path[d]
    BY <1>0, <1>1, GraftedSame
  <1>6. path'[c] = new
    <2>1. under(c)
      BY PathsApart
    <2> QED  BY <1>0, <1>1, <2>1, GraftedRoot
  <1>7. ASSUME NEW d \in live
        PROVE  parent'[d] \in live' \cup {Null} /\ path'[d] = Append(PathOf(parent[d])', slug'[d])
    <2>1. CASE d = c
      <3>1. parent'[d] = p /\ slug'[d] = s
        BY <1>0, <2>1 DEF TreeTyped
      <3>2. p \in live => ~ under(p)
        BY NullIsApart, <1>0 DEF MayHangUnder
      <3>3. (PathOf(p))' = IF p = Null THEN <<>> ELSE path'[p]
        BY DEF PathOf
      <3>4. p # Null => p \in live /\ path'[p] = path[p]
        BY <1>4, <3>2
      <3>5. (IF p = Null THEN <<>> ELSE path'[p]) = PathOf(p)
        BY <3>4 DEF PathOf
      <3> QED  BY <1>6, <2>1, <3>1, <3>3, <3>5 DEF PathOf
    <2>2. CASE d # c
      <3> DEFINE q == parent[d]
      <3>1. /\ parent'[d] = q /\ slug'[d] = slug[d] /\ q \in live \cup {Null}
            /\ slug[d] \in Labels /\ PathOf(q) \in Trails
            /\ path[d] = Append(PathOf(q), slug[d])
        BY <1>0, <2>2, PathsApart DEF TreeTyped
      <3>2. path[d] # old
        BY <2>2, PathsApart
      <3>3. under(d) <=> IsPrefixOf(old, PathOf(q))
        BY <1>0, <3>1, <3>2, PrefixOfChild
      <3>4. CASE q = Null
        <4>1. PathOf(q) = <<>>
          BY <3>4 DEF PathOf
        <4>2. ~ IsPrefixOf(old, <<>>)
          <5>1. PathOf(parent[c]) \in Trails /\ slug[c] \in Labels
                /\ old = Append(PathOf(parent[c]), slug[c])
            BY PathsApart
          <5> QED  BY <5>1, LastLabel
        <4>3. path'[d] = path[d]
          BY <1>4, <3>3, <4>1, <4>2
        <4> QED  BY <3>1, <3>4, <4>1, <4>3 DEF PathOf
      <3>5. CASE q # Null /\ under(d)
        <4>1. q \in live /\ PathOf(q) = path[q] /\ under(q)
          BY <3>1, <3>3, <3>5 DEF PathOf
        <4>2. path'[q] = Grafted(new, old, path[q]) /\ path'[d] = Grafted(new, old, path[d])
          BY <1>0, <1>1, <3>5, <4>1
        <4>3. path'[d] = Append(path'[q], slug[d])
          BY <1>0, <3>1, <4>1, <4>2, GraftedChild
        <4> QED  BY <3>1, <3>5, <4>1, <4>3 DEF PathOf
      <3>6. CASE q # Null /\ ~ under(d)
        <4>1. q \in live /\ PathOf(q) = path[q] /\ ~ under(q)
          BY <3>1, <3>3, <3>6 DEF PathOf
        <4>2. path'[q] = path[q] /\ path'[d] = path[d]
          BY <1>4, <3>6, <4>1
        <4> QED  BY <3>1, <3>6, <4>1, <4>2 DEF PathOf
      <3> QED  BY <3>4, <3>5, <3>6
    <2> QED  BY <2>1, <2>2
  <1> QED  BY <1>3, <1>4, <1>5, <1>7 DEF PathsFollowParents, PathOf

LEMMA TreeInitially == Init => TreeInv
  <1> SUFFICES ASSUME Init  PROVE TreeInv
    OBVIOUS
  <1>1. <<>> \in Trails /\ Null \in Labels
    BY EmptySeq DEF Trails, Labels
  <1>2. NoWant \in [parent : Cats \cup {Null}, slug : Labels, active : BOOLEAN]
    BY DEF NoWant, Labels
  <1>3. TreeTyped
    BY <1>1, <1>2 DEF Init, TreeTyped
  <1>4. SlugsApart /\ PathsFollowParents
    BY DEF Init, SlugsApart, PathsFollowParents
  <1>5. \A a \in Admins : ReadsHold(a)
    BY DEF Init, ReadsHold
  <1> QED  BY <1>3, <1>4, <1>5 DEF TreeInv

\* What a request has read still holds when others have not disturbed it.
LEMMA OtherReads ==
    ASSUME TreeInv, NEW b \in Admins,
           pc'[b] = pc[b], id'[b] = id[b], want'[b] = want[b], prefix'[b] = prefix[b],
           changed[b] => changed'[b],
           pc[b] = "create" => id[b] \notin live',
           pc[b] = "update" /\ ~ changed'[b] =>
              /\ id[b] \in live'
              /\ parent'[id[b]] = parent[id[b]] /\ slug'[id[b]] = slug[id[b]]
              /\ parent[id[b]] # Null => path'[parent[id[b]]] = path[parent[id[b]]],
           b \in Movers => \A d \in live' : d \in live /\ path'[d] = path[d]
    PROVE  ReadsHold(b)'
  <1>1. ReadsHold(b)
    BY DEF TreeInv
  <1>2. /\ pc[b] # "idle" => id[b] \in Cats /\ want[b].slug \in Slugs
        /\ pc[b] = "create" => b \in Movers
    BY <1>1 DEF ReadsHold
  <1>3. ASSUME pc[b] # "idle", b \in Movers, want[b].parent \in live' \cup {Null}
        PROVE  /\ prefix[b] = (IF want[b].parent = Null THEN <<>> ELSE path'[want[b].parent])
               /\ pc[b] = "update" /\ ~ changed'[b] =>
                    (want[b].parent # Null =>
                       /\ want[b].parent # id[b]
                       /\ ~ IsPrefixOf(path'[id[b]], path'[want[b].parent]))
    <2>1. want[b].parent \in live \cup {Null}
      BY <1>3
    <2>2. /\ prefix[b] = PathOf(want[b].parent)
          /\ pc[b] = "update" /\ ~ changed[b] => MayHangUnder(id[b], want[b].parent)
      BY <1>1, <1>3, <2>1 DEF ReadsHold
    <2>3. want[b].parent # Null => path'[want[b].parent] = path[want[b].parent]
      BY <1>3
    <2>4. prefix[b] = (IF want[b].parent = Null THEN <<>> ELSE path'[want[b].parent])
      BY <2>2, <2>3 DEF PathOf
    <2>5. ASSUME pc[b] = "update", ~ changed'[b], want[b].parent # Null
          PROVE  /\ want[b].parent # id[b]
                 /\ ~ IsPrefixOf(path'[id[b]], path'[want[b].parent])
      <3>1. path'[id[b]] = path[id[b]]
        BY <1>3, <2>5
      <3> QED  BY <2>2, <2>3, <2>5, <3>1 DEF MayHangUnder
    <2> QED  BY <2>4, <2>5
  <1>4. ASSUME pc[b] = "update", ~ changed'[b], b \notin Movers
        PROVE  /\ want[b].parent = parent'[id[b]] /\ want[b].slug = slug'[id[b]]
               /\ prefix[b] = (IF parent'[id[b]] = Null THEN <<>> ELSE path'[parent'[id[b]]])
    <2>1. /\ want[b].parent = parent[id[b]] /\ want[b].slug = slug[id[b]]
          /\ prefix[b] = PathOf(parent[id[b]])
      BY <1>1, <1>4 DEF ReadsHold
    <2> QED  BY <1>4, <2>1 DEF PathOf
  <1> QED  BY <1>2, <1>3, <1>4 DEF ReadsHold, PathOf, MayHangUnder

LEMMA BeginKeeps ==
    ASSUME TreeInv, NEW a \in Admins, NEW c \in Cats, NEW w \in Wants,
           CreateBegin(a, c, w) \/ UpdateBegin(a, c, w)
    PROVE  TreeInv'
  <1>0. /\ TreeTyped /\ SlugsApart /\ PathsFollowParents /\ \A b \in Admins : ReadsHold(b)
        /\ w \in [parent : Cats \cup {Null}, slug : Labels, active : BOOLEAN]
        /\ w.parent \in live \cup {Null} /\ w.slug \in Slugs
    BY DEF TreeInv, CreateBegin, UpdateBegin, Wants, Labels
  <1>1. /\ UNCHANGED tree
        /\ id' = [id EXCEPT ![a] = c] /\ want' = [want EXCEPT ![a] = w]
        /\ prefix' = [prefix EXCEPT ![a] = PathOf(w.parent)]
        /\ changed' = [changed EXCEPT ![a] = FALSE]
    BY DEF CreateBegin, UpdateBegin, Begin
  <1>2. \/ /\ pc' = [pc EXCEPT ![a] = "create"] /\ a \in Movers /\ c \notin live
        \/ /\ pc' = [pc EXCEPT ![a] = "update"] /\ c \in live /\ MayHangUnder(c, w.parent)
           /\ a \in Movers \/ (w.parent = parent[c] /\ w.slug = slug[c])
    BY DEF CreateBegin, UpdateBegin, Begin
  <1>3. PathOf(w.parent) \in Trails
    BY <1>0, PathOfTyped
  <1>4. TreeTyped'
    BY <1>0, <1>1, <1>2, <1>3 DEF TreeTyped, tree
  <1>5. SlugsApart' /\ PathsFollowParents'
    BY <1>0, <1>1 DEF SlugsApart, PathsFollowParents, PathOf, tree
  <1>6. ASSUME NEW b \in Admins
        PROVE  ReadsHold(b)'
    <2>1. CASE b # a
      <3>1. /\ pc'[b] = pc[b] /\ id'[b] = id[b] /\ want'[b] = want[b]
            /\ prefix'[b] = prefix[b] /\ changed'[b] = changed[b]
        BY <1>0, <1>1, <1>2, <2>1 DEF TreeTyped
      <3>2. ReadsHold(b)
        BY <1>0
      <3>3. live' = live /\ path' = path /\ parent' = parent /\ slug' = slug
        BY <1>1 DEF tree
      <3>4. pc[b] = "create" => id[b] \notin live'
        BY <3>2, <3>3 DEF ReadsHold
      <3>5. pc[b] = "update" /\ ~ changed'[b] => id[b] \in live'
        BY <3>1, <3>2, <3>3 DEF ReadsHold
      <3> QED  BY <3>1, <3>3, <3>4, <3>5, OtherReads
    <2>2. CASE b = a
      <3>1. /\ id'[a] = c /\ want'[a] = w /\ prefix'[a] = PathOf(w.parent) /\ ~ changed'[a]
            /\ \/ pc'[a] = "create" /\ a \in Movers /\ c \notin live
               \/ /\ pc'[a] = "update" /\ c \in live /\ MayHangUnder(c, w.parent)
                  /\ a \in Movers \/ (w.parent = parent[c] /\ w.slug = slug[c])
        BY <1>0, <1>1, <1>2 DEF TreeTyped
      <3>2. live' = live /\ path' = path /\ parent' = parent /\ slug' = slug
        BY <1>1 DEF tree
      <3> QED  BY <1>0, <2>2, <3>1, <3>2 DEF ReadsHold, PathOf, MayHangUnder
    <2> QED  BY <2>1, <2>2
  <1> QED  BY <1>4, <1>5, <1>6 DEF TreeInv

\* The end of a request leaves the others' alone, but for telling them.
LEMMA EndKeeps ==
    ASSUME TreeTyped, NEW a \in Admins, NEW rows, End(a, rows)
    PROVE  /\ pc' \in [Admins -> {"idle", "create", "update"}]
           /\ id' \in [Admins -> Cats \cup {Null}]
           /\ want' \in [Admins -> [parent : Cats \cup {Null}, slug : Labels, active : BOOLEAN]]
           /\ prefix' \in [Admins -> Trails] /\ changed' \in [Admins -> BOOLEAN]
           /\ ReadsHold(a)'
           /\ \A b \in Admins \ {a} :
                /\ pc'[b] = pc[b] /\ id'[b] = id[b] /\ want'[b] = want[b]
                /\ prefix'[b] = prefix[b]
                /\ changed[b] => changed'[b]
                /\ changed'[b] \/ id[b] \notin rows
  <1>1. <<>> \in Trails /\ NoWant \in [parent : Cats \cup {Null}, slug : Labels, active : BOOLEAN]
    BY EmptySeq DEF Trails, Labels, NoWant
  <1>2. /\ pc' = [pc EXCEPT ![a] = "idle"] /\ id' = [id EXCEPT ![a] = Null]
        /\ want' = [want EXCEPT ![a] = NoWant] /\ prefix' = [prefix EXCEPT ![a] = <<>>]
        /\ changed' = [b \in Admins |-> b # a /\ (changed[b] \/ id[b] \in rows)]
    BY DEF End
  <1>3. pc'[a] = "idle"
    BY <1>2 DEF TreeTyped
  <1>4. ReadsHold(a)'
    BY <1>3 DEF ReadsHold
  <1>5. changed' \in [Admins -> BOOLEAN]
    BY <1>2
  <1>6. ASSUME NEW b \in Admins \ {a}
        PROVE  /\ pc'[b] = pc[b] /\ id'[b] = id[b] /\ want'[b] = want[b]
               /\ prefix'[b] = prefix[b]
               /\ (changed[b] => changed'[b]) /\ (changed'[b] \/ id[b] \notin rows)
    BY <1>2 DEF TreeTyped
  <1> QED  BY <1>1, <1>2, <1>4, <1>5, <1>6 DEF TreeTyped

LEMMA InsertKeeps ==
    ASSUME OneMover, TreeInv, NEW a \in Admins, CreateInsert(a)
    PROVE  TreeInv'
  <1> DEFINE c == id[a]
             p == want[a].parent
             s == want[a].slug
  <1>0. TreeTyped /\ SlugsApart /\ PathsFollowParents /\ \A b \in Admins : ReadsHold(b)
    BY DEF TreeInv
  <1>1. /\ c \in Cats /\ c \notin live /\ s \in Slugs /\ s \in Labels /\ a \in Movers
        /\ p \in live \cup {Null} /\ prefix[a] = PathOf(p) /\ pc[a] = "create"
        /\ want[a].active \in BOOLEAN /\ p \in Cats \cup {Null} /\ PathOf(p) \in Trails
    <2>1. /\ pc[a] = "create" /\ p \in live \cup {Null} /\ ReadsHold(a)
      BY <1>0 DEF CreateInsert
    <2>2. want[a].active \in BOOLEAN /\ p \in Cats \cup {Null}
      BY <1>0 DEF TreeTyped
    <2> QED  BY <1>0, <2>1, <2>2, PathOfTyped DEF ReadsHold, Labels
  <1>2. /\ live' = live \cup {c} /\ End(a, {})
        /\ parent' = [parent EXCEPT ![c] = p] /\ slug' = [slug EXCEPT ![c] = s]
        /\ path' = [path EXCEPT ![c] = Append(PathOf(p), s)]
        /\ active' = [active EXCEPT ![c] = want[a].active]
    BY <1>1 DEF CreateInsert
  <1>3. /\ parent'[c] = p /\ slug'[c] = s /\ path'[c] = Append(PathOf(p), s)
        /\ \A d \in live : /\ d \in Cats /\ d # c /\ parent'[d] = parent[d]
                           /\ slug'[d] = slug[d] /\ path'[d] = path[d]
    BY <1>0, <1>1, <1>2 DEF TreeTyped
  <1>4. TreeTyped'
    <2>1. Append(PathOf(p), s) \in Trails
      BY <1>1, AppendIs
    <2>2. /\ live' \subseteq Cats /\ parent' \in [Cats -> Cats \cup {Null}]
          /\ slug' \in [Cats -> Labels] /\ path' \in [Cats -> Trails]
          /\ active' \in [Cats -> BOOLEAN]
      BY <1>0, <1>1, <1>2, <2>1 DEF TreeTyped
    <2> QED  BY <1>0, <1>2, <2>2, EndKeeps DEF TreeTyped
  <1>5. SlugsApart'
    <2>1. \A d \in live : slug[d] # s
      BY <1>1 DEF CreateInsert, SlugFree
    <2> QED  BY <1>0, <1>2, <1>3, <2>1 DEF SlugsApart
  <1>6. PathsFollowParents'
    <2>1. ASSUME NEW d \in live
          PROVE  /\ parent'[d] \in live' \cup {Null}
                 /\ path'[d] = Append((IF parent'[d] = Null THEN <<>> ELSE path'[parent'[d]]), slug'[d])
      <3>1. parent[d] \in live \cup {Null} /\ path[d] = Append(PathOf(parent[d]), slug[d])
        BY <1>0 DEF PathsFollowParents
      <3>2. PathOf(parent[d]) = IF parent[d] = Null THEN <<>> ELSE path'[parent[d]]
        BY <1>3, <3>1 DEF PathOf
      <3> QED  BY <1>2, <1>3, <3>1, <3>2
    <2>2. /\ parent'[c] \in live' \cup {Null}
          /\ path'[c] = Append((IF parent'[c] = Null THEN <<>> ELSE path'[parent'[c]]), slug'[c])
      <3>1. p # Null => path'[p] = path[p]
        BY <1>1, <1>3
      <3>2. PathOf(p) = (IF parent'[c] = Null THEN <<>> ELSE path'[parent'[c]])
        BY <1>3, <3>1 DEF PathOf
      <3>3. parent'[c] \in live' \cup {Null}
        BY <1>1, <1>2, <1>3
      <3> QED  BY <1>3, <3>2, <3>3
    <2> QED  BY <1>2, <2>1, <2>2 DEF PathsFollowParents, PathOf
  <1>7. ASSUME NEW b \in Admins
        PROVE  ReadsHold(b)'
    <2>1. CASE b = a
      BY <1>0, <1>2, <2>1, EndKeeps
    <2>2. CASE b # a
      <3>1. b \notin Movers /\ pc[b] # "create" /\ ReadsHold(b)
        BY <1>0, <1>1, <2>2 DEF ReadsHold, OneMover
      <3>2. /\ pc'[b] = pc[b] /\ id'[b] = id[b] /\ want'[b] = want[b]
            /\ prefix'[b] = prefix[b] /\ (changed[b] => changed'[b])
        BY <1>0, <1>2, <2>2, EndKeeps
      <3>3. ASSUME pc[b] = "update", ~ changed'[b]
            PROVE  /\ id[b] \in live'
                   /\ parent'[id[b]] = parent[id[b]] /\ slug'[id[b]] = slug[id[b]]
                   /\ (parent[id[b]] # Null => path'[parent[id[b]]] = path[parent[id[b]]])
        <4>1. id[b] \in live
          BY <3>1, <3>2, <3>3 DEF ReadsHold
        <4>2. parent[id[b]] \in live \cup {Null}
          BY <1>0, <4>1 DEF PathsFollowParents
        <4> QED  BY <1>2, <1>3, <4>1, <4>2
      <3> QED  BY <3>1, <3>2, <3>3, OtherReads
    <2> QED  BY <2>1, <2>2
  <1> QED  BY <1>4, <1>5, <1>6, <1>7 DEF TreeInv

LEMMA UpdateKeeps ==
    ASSUME OneMover, TreeInv, NEW a \in Admins, UpdateWrite(a)
    PROVE  TreeInv'
  <1> DEFINE c == id[a]
             p == want[a].parent
             s == want[a].slug
             new == Append(PathOf(p), s)
  <1>0. TreeTyped /\ SlugsApart /\ PathsFollowParents /\ \A b \in Admins : ReadsHold(b)
    BY DEF TreeInv
  <1>1. /\ c \in live /\ c \in Cats /\ s \in Slugs /\ s \in Labels
        /\ p \in live \cup {Null} /\ p \in Cats \cup {Null} /\ want[a].active \in BOOLEAN
        /\ prefix[a] = PathOf(p) /\ MayHangUnder(c, p)
        /\ a \notin Movers => new = path[c]
    <2>1. pc[a] = "update" /\ ~ changed[a] /\ p \in live \cup {Null} /\ ReadsHold(a)
      BY <1>0 DEF UpdateWrite
    <2>2. want[a].active \in BOOLEAN /\ p \in Cats \cup {Null}
      BY <1>0 DEF TreeTyped
    <2>3. c \in live /\ c \in Cats /\ s \in Slugs /\ s \in Labels
      BY <2>1 DEF ReadsHold, Labels
    <2>4. CASE a \in Movers
      BY <2>1, <2>2, <2>3, <2>4 DEF ReadsHold
    <2>5. CASE a \notin Movers
      <3>1. p = parent[c] /\ s = slug[c] /\ prefix[a] = PathOf(parent[c])
        BY <2>1, <2>5 DEF ReadsHold
      <3>2. path[c] = Append(PathOf(parent[c]), slug[c]) /\ MayHangUnder(c, parent[c])
        BY <1>0, <2>3, PathsApart
      <3> QED  BY <2>1, <2>2, <2>3, <3>1, <3>2
    <2> QED  BY <2>4, <2>5
  <1>2. /\ live' = live /\ End(a, Touched(c, new))
        /\ parent' = [parent EXCEPT ![c] = p] /\ slug' = [slug EXCEPT ![c] = s]
        /\ path' = Moved(path[c], new)
        /\ active' = [active EXCEPT ![c] = want[a].active]
    BY <1>1 DEF UpdateWrite
  <1>3. /\ path' \in [Cats -> Trails] /\ PathsFollowParents'
        /\ \A d \in live : ~ IsPrefixOf(path[c], path[d]) => path'[d] = path[d]
        /\ new = path[c] => \A d \in live : path'[d] = path[d]
    BY <1>0, <1>1, <1>2, SubtreeMoves
  <1>4. TreeTyped'
    <2>1. /\ live' \subseteq Cats /\ parent' \in [Cats -> Cats \cup {Null}]
          /\ slug' \in [Cats -> Labels] /\ active' \in [Cats -> BOOLEAN]
      BY <1>0, <1>1, <1>2 DEF TreeTyped
    <2> QED  BY <1>0, <1>2, <1>3, <2>1, EndKeeps DEF TreeTyped
  <1>5. SlugsApart'
    <2>1. \A d \in live \ {c} : slug[d] # s
      BY <1>1 DEF UpdateWrite, SlugFree
    <2>2. \A d \in live : slug'[d] = IF d = c THEN s ELSE slug[d]
      BY <1>0, <1>1, <1>2 DEF TreeTyped
    <2> QED  BY <1>0, <1>2, <2>1, <2>2 DEF SlugsApart
  <1>6. ASSUME NEW b \in Admins
        PROVE  ReadsHold(b)'
    <2>1. CASE b = a
      BY <1>0, <1>2, <2>1, EndKeeps
    <2>2. CASE b # a
      <3>1. ReadsHold(b)
        BY <1>0
      <3>2. /\ pc'[b] = pc[b] /\ id'[b] = id[b] /\ want'[b] = want[b]
            /\ prefix'[b] = prefix[b] /\ (changed[b] => changed'[b])
            /\ (changed'[b] \/ id[b] \notin Touched(c, new))
        BY <1>0, <1>2, <2>2, EndKeeps
      <3>3. b \in Movers => \A d \in live' : d \in live /\ path'[d] = path[d]
        BY <1>1, <1>2, <1>3, <2>2 DEF OneMover
      <3>4. pc[b] = "create" => id[b] \notin live'
        BY <1>2, <3>1 DEF ReadsHold
      <3>5. ASSUME pc[b] = "update", ~ changed'[b]
            PROVE  /\ id[b] \in live'
                   /\ parent'[id[b]] = parent[id[b]] /\ slug'[id[b]] = slug[id[b]]
                   /\ (parent[id[b]] # Null => path'[parent[id[b]]] = path[parent[id[b]]])
        <4>1. id[b] \in live /\ id[b] \notin Touched(c, new)
          BY <3>1, <3>2, <3>5 DEF ReadsHold
        <4>2. c \in Under(path[c])
          BY <1>0, <1>1, PathsApart DEF Under
        <4>3. id[b] # c
          BY <4>1, <4>2 DEF Touched
        <4>4. parent'[id[b]] = parent[id[b]] /\ slug'[id[b]] = slug[id[b]]
          BY <1>0, <1>2, <4>1, <4>3 DEF TreeTyped
        <4>5. ASSUME parent[id[b]] # Null
              PROVE  path'[parent[id[b]]] = path[parent[id[b]]]
          <5>1. parent[id[b]] \in live
            BY <1>0, <4>1, <4>5 DEF PathsFollowParents
          <5>2. CASE new = path[c]
            BY <1>3, <5>1, <5>2
          <5>3. CASE new # path[c]
            <6>1. ~ IsPrefixOf(path[c], path[id[b]])
              BY <4>1, <5>3 DEF Touched, Under
            <6>2. /\ path[id[b]] = Append(path[parent[id[b]]], slug[id[b]])
                  /\ path[parent[id[b]]] \in Trails /\ slug[id[b]] \in Labels
              BY <1>0, <4>1, <4>5, PathsApart DEF PathOf
            <6>3. path[c] \in Trails
              BY <1>0, <1>1, PathsApart
            <6>4. ~ IsPrefixOf(path[c], path[parent[id[b]]])
              BY <6>1, <6>2, <6>3, PrefixOfChild
            <6> QED  BY <1>3, <5>1, <6>4
          <5> QED  BY <5>2, <5>3
        <4> QED  BY <1>2, <4>1, <4>4, <4>5
      <3> QED  BY <3>2, <3>3, <3>4, <3>5, OtherReads
    <2> QED  BY <2>1, <2>2
  <1> QED  BY <1>3, <1>4, <1>5, <1>6 DEF TreeInv

LEMMA RefuseKeeps ==
    ASSUME TreeInv, NEW a \in Admins, Refuse(a)
    PROVE  TreeInv'
  <1>0. TreeTyped /\ SlugsApart /\ PathsFollowParents /\ \A b \in Admins : ReadsHold(b)
    BY DEF TreeInv
  <1>1. End(a, {}) /\ live' = live /\ parent' = parent /\ slug' = slug /\ path' = path
        /\ active' = active
    BY DEF Refuse, tree
  <1>2. TreeTyped'
    BY <1>0, <1>1, EndKeeps DEF TreeTyped
  <1>3. SlugsApart' /\ PathsFollowParents'
    BY <1>0, <1>1 DEF SlugsApart, PathsFollowParents, PathOf
  <1>4. ASSUME NEW b \in Admins
        PROVE  ReadsHold(b)'
    <2>1. CASE b = a
      BY <1>0, <1>1, <2>1, EndKeeps
    <2>2. CASE b # a
      <3>1. ReadsHold(b)
        BY <1>0
      <3>2. /\ pc'[b] = pc[b] /\ id'[b] = id[b] /\ want'[b] = want[b]
            /\ prefix'[b] = prefix[b] /\ (changed[b] => changed'[b])
        BY <1>0, <1>1, <2>2, EndKeeps
      <3>3. pc[b] = "create" => id[b] \notin live'
        BY <1>1, <3>1 DEF ReadsHold
      <3>4. pc[b] = "update" /\ ~ changed'[b] => id[b] \in live'
        BY <1>1, <3>1, <3>2 DEF ReadsHold
      <3> QED  BY <1>1, <3>2, <3>3, <3>4, OtherReads
    <2> QED  BY <2>1, <2>2
  <1> QED  BY <1>2, <1>3, <1>4 DEF TreeInv

LEMMA DeleteKeeps ==
    ASSUME TreeInv, NEW c \in Cats, Delete(c)
    PROVE  TreeInv'
  <1>0. TreeTyped /\ SlugsApart /\ PathsFollowParents /\ \A b \in Admins : ReadsHold(b)
    BY DEF TreeInv
  <1>1. /\ c \in live /\ (\A d \in live : parent[d] # c) /\ live' = live \ {c}
        /\ parent' = [parent EXCEPT ![c] = Null] /\ slug' = [slug EXCEPT ![c] = Null]
        /\ path' = [path EXCEPT ![c] = <<>>] /\ active' = [active EXCEPT ![c] = TRUE]
        /\ changed' = [b \in Admins |-> changed[b] \/ id[b] = c]
        /\ UNCHANGED <<pc, id, want, prefix>>
    BY DEF Delete
  <1>2. \A d \in live' : /\ d \in live /\ parent'[d] = parent[d] /\ slug'[d] = slug[d]
                         /\ path'[d] = path[d]
    BY <1>0, <1>1 DEF TreeTyped
  <1>3. TreeTyped'
    <2>1. <<>> \in Trails /\ Null \in Labels
      BY EmptySeq DEF Trails, Labels
    <2>2. changed' \in [Admins -> BOOLEAN]
      BY <1>0, <1>1 DEF TreeTyped
    <2> QED  BY <1>0, <1>1, <2>1, <2>2 DEF TreeTyped
  <1>4. SlugsApart'
    BY <1>0, <1>2 DEF SlugsApart
  <1>5. \A d \in live' : parent[d] \in live' \cup {Null}
    BY <1>0, <1>1 DEF PathsFollowParents
  <1>6. PathsFollowParents'
    <2>1. ASSUME NEW d \in live'
          PROVE  /\ parent'[d] \in live' \cup {Null}
                 /\ path'[d] = Append((IF parent'[d] = Null THEN <<>> ELSE path'[parent'[d]]), slug'[d])
      <3>1. path[d] = Append(PathOf(parent[d]), slug[d])
        BY <1>0, <1>2 DEF PathsFollowParents
      <3>2. PathOf(parent[d]) = IF parent[d] = Null THEN <<>> ELSE path'[parent[d]]
        BY <1>2, <1>5 DEF PathOf
      <3> QED  BY <1>2, <1>5, <3>1, <3>2
    <2> QED  BY <2>1 DEF PathsFollowParents, PathOf
  <1>7. ASSUME NEW b \in Admins
        PROVE  ReadsHold(b)'
    <2>1. ReadsHold(b)
      BY <1>0
    <2>2. /\ pc'[b] = pc[b] /\ id'[b] = id[b] /\ want'[b] = want[b] /\ prefix'[b] = prefix[b]
          /\ (changed[b] => changed'[b]) /\ (changed'[b] \/ id[b] # c)
      BY <1>0, <1>1 DEF TreeTyped
    <2>3. pc[b] = "create" => id[b] \notin live'
      BY <1>1, <2>1 DEF ReadsHold
    <2>4. ASSUME pc[b] = "update", ~ changed'[b]
          PROVE  /\ id[b] \in live'
                 /\ parent'[id[b]] = parent[id[b]] /\ slug'[id[b]] = slug[id[b]]
                 /\ (parent[id[b]] # Null => path'[parent[id[b]]] = path[parent[id[b]]])
      <3>1. id[b] \in live'
        BY <1>1, <2>1, <2>2, <2>4 DEF ReadsHold
      <3> QED  BY <1>2, <1>5, <3>1
    <2> QED  BY <1>2, <2>2, <2>3, <2>4, OtherReads
  <1> QED  BY <1>3, <1>4, <1>6, <1>7 DEF TreeInv

LEMMA TreeStep ==
    ASSUME OneMover, TreeInv, [Next]_vars
    PROVE  TreeInv'
  <1>1. ASSUME NEW a \in Admins, NEW c \in Cats, NEW w \in Wants,
               CreateBegin(a, c, w) \/ UpdateBegin(a, c, w)
        PROVE  TreeInv'
    BY <1>1, BeginKeeps
  <1>2. ASSUME NEW a \in Admins, CreateInsert(a)
        PROVE  TreeInv'
    BY <1>2, InsertKeeps
  <1>3. ASSUME NEW a \in Admins, UpdateWrite(a)
        PROVE  TreeInv'
    BY <1>3, UpdateKeeps
  <1>4. ASSUME NEW a \in Admins, Refuse(a)
        PROVE  TreeInv'
    BY <1>4, RefuseKeeps
  <1>5. ASSUME NEW c \in Cats, Delete(c)
        PROVE  TreeInv'
    BY <1>5, DeleteKeeps
  <1>6. CASE UNCHANGED vars
    BY <1>6 DEF TreeInv, TreeTyped, SlugsApart, PathsFollowParents, ReadsHold,
                      MayHangUnder, PathOf, vars, tree, request
  <1> QED  BY <1>1, <1>2, <1>3, <1>4, <1>5, <1>6 DEF Next

(* While one admin restructures the tree, the stored path of every category is
   its parent's followed by its own slug (UpdateCategory, MoveCategorySubtree),
   however many others edit, hide and delete categories meanwhile. *)
THEOREM PathsStayTrue ==
    ASSUME OneMover
    PROVE  Spec => []PathsFollowParents
  <1>1. TreeInv => PathsFollowParents
    BY DEF TreeInv
  <1> QED  BY <1>1, TreeInitially, TreeStep, PTL DEF Spec

-----------------------------------------------------------------------------
(* What is visible.                                                        *)

Depth(c) == Len(path[c])

\* The ancestors of a category, by path, are itself and its parent's.
LEMMA VisibleBelow ==
    ASSUME TreeTyped, SlugsApart, PathsFollowParents, NEW c \in live
    PROVE  /\ IsVisible(c) <=> active[c] /\ (parent[c] # Null => IsVisible(parent[c]))
           /\ Depth(c) \in Nat
           /\ parent[c] = Null => Depth(c) = 1
           /\ parent[c] # Null => parent[c] \in live /\ Depth(c) = Depth(parent[c]) + 1
  <1> DEFINE q == PathOf(parent[c])
  <1>1. /\ q \in Trails /\ slug[c] \in Labels /\ path[c] = Append(q, slug[c])
        /\ parent[c] \in live \cup {Null} /\ path[c] \in Trails
        /\ \A d \in live : path[d] = path[c] => d = c
        /\ IsPrefixOf(path[c], path[c])
    BY PathsApart
  <1>2. Len(q) \in Nat /\ Depth(c) = Len(q) + 1
    BY <1>1, AppendIs, LenProperties DEF Depth, Trails
  <1>3. ASSUME NEW d \in live
        PROVE  IsPrefixOf(path[d], path[c]) <=> d = c \/ IsPrefixOf(path[d], q)
    <2>1. path[d] \in Trails
      BY PathsApart
    <2>2. /\ IsPrefixOf(path[d], q) => IsPrefixOf(path[d], Append(q, slug[c]))
          /\ IsPrefixOf(path[d], Append(q, slug[c])) =>
                IsPrefixOf(path[d], q) \/ path[d] = Append(q, slug[c])
      BY <1>1, <2>1, PrefixOfChild
    <2> QED  BY <1>1, <2>2
  <1>4. CASE parent[c] = Null
    <2>1. q = <<>> /\ Len(q) = 0
      BY <1>4, EmptySeq DEF PathOf
    <2>2. \A d \in live : ~ IsPrefixOf(path[d], q)
      <3>1. ASSUME NEW d \in live
            PROVE  ~ IsPrefixOf(path[d], <<>>)
        <4>1. /\ PathOf(parent[d]) \in Trails /\ slug[d] \in Labels
              /\ path[d] = Append(PathOf(parent[d]), slug[d])
          BY PathsApart
        <4> QED  BY <4>1, LastLabel
      <3> QED  BY <2>1, <3>1
    <2>3. IsVisible(c) <=> active[c]
      BY <1>3, <2>2 DEF IsVisible
    <2> QED  BY <1>2, <1>4, <2>1, <2>3
  <1>5. CASE parent[c] # Null
    <2>1. parent[c] \in live /\ q = path[parent[c]]
      BY <1>1, <1>5 DEF PathOf
    <2>2. IsVisible(c) <=> active[c] /\ IsVisible(parent[c])
      BY <1>3, <2>1 DEF IsVisible
    <2> QED  BY <1>2, <1>5, <2>1, <2>2 DEF Depth
  <1> QED  BY <1>4, <1>5

\* No path is longer than there are categories: its ancestors differ.
LEMMA DepthBounded ==
    ASSUME IsFiniteSet(Cats), TreeTyped, SlugsApart, PathsFollowParents, NEW c \in live
    PROVE  Depth(c) \in Nat /\ Depth(c) <= Cardinality(Cats)
  <1> DEFINE S == {n \in Nat : \A d \in live : Depth(d) = n =>
                                  \A k \in 1..n : \E e \in live : Depth(e) = k}
  <1>1. \A d \in live : Depth(d) \in Nat
    BY VisibleBelow
  <1>2. 0 \in S
    OBVIOUS
  <1>3. ASSUME NEW n \in Nat, n \in S
        PROVE  n + 1 \in S
    <2> SUFFICES ASSUME NEW d \in live, Depth(d) = n + 1, NEW k \in 1..(n + 1)
                 PROVE  \E e \in live : Depth(e) = k
      OBVIOUS
    <2>1. CASE k = n + 1
      BY <2>1
    <2>2. CASE k # n + 1
      <3>1. k \in 1..n /\ n >= 1
        BY <2>2
      <3>2. parent[d] # Null
        BY <3>1, VisibleBelow
      <3>3. parent[d] \in live /\ n + 1 = Depth(parent[d]) + 1 /\ Depth(parent[d]) \in Nat
        BY <1>1, <3>2, VisibleBelow
      <3>4. Depth(parent[d]) = n
        BY <3>3
      <3> QED  BY <1>3, <3>1, <3>3, <3>4
    <2> QED  BY <2>1, <2>2
  <1> HIDE DEF S
  <1>4. Depth(c) \in S
    BY <1>1, <1>2, <1>3, NumbersFromZero
  <1> DEFINE n == Depth(c)
             D == {d \in live : Depth(d) \in 1..n}
             f == [d \in D |-> Depth(d)]
  <1>5. f \in Surjection(D, 1..n)
    <2>1. f \in [D -> 1..n]
      OBVIOUS
    <2>2. \A k \in 1..n : \E e \in D : f[e] = k
      BY <1>4 DEF S
    <2> QED  BY <2>1, <2>2 DEF Surjection
  <1>6. D \in SUBSET Cats
    BY DEF TreeTyped
  <1>7. IsFiniteSet(D) /\ Cardinality(D) <= Cardinality(Cats)
    BY <1>6, FS_Subset
  <1>8. Cardinality(1..n) <= Cardinality(D)
    BY <1>5, <1>7, FS_Surjection
  <1>9. Cardinality(1..n) = n
    BY <1>1, FS_Interval
  <1>10. Cardinality(Cats) \in Nat /\ Cardinality(D) \in Nat
    BY <1>7, FS_CardinalityType
  <1> QED  BY <1>1, <1>7, <1>8, <1>9, <1>10

\* The tree that is built level by level has what is visible by path.
LEMMA LevelsAreVisible ==
    ASSUME IsFiniteSet(Cats), TreeTyped, SlugsApart, PathsFollowParents
    PROVE  VisibilityAgrees
  <1> DEFINE N == Cardinality(Cats)
             below(X) == {c \in live : active[c] /\ parent[c] \in X \cup {Null}}
             level(n) == {c \in live : Depth(c) <= n /\ IsVisible(c)}
             f == [n \in 0..N |-> level(n)]
             Upto(g) == g = [n \in 0..N |-> IF n = 0 THEN {} ELSE below(g[n - 1])]
  <1>0. N \in Nat /\ Null \notin live
    BY FS_CardinalityType, NullIsApart DEF TreeTyped
  <1>1. level(0) = {}
    <2>1. \A c \in live : Depth(c) >= 1
      <3>1. ASSUME NEW c \in live
            PROVE  Depth(c) >= 1
        <4>1. /\ parent[c] = Null => Depth(c) = 1
              /\ parent[c] # Null => parent[c] \in live /\ Depth(c) = Depth(parent[c]) + 1
          BY VisibleBelow
        <4>2. parent[c] # Null => Depth(parent[c]) \in Nat
          BY <4>1, VisibleBelow
        <4> QED  BY <4>1, <4>2
      <3> QED  BY <3>1
    <2> QED  BY <2>1, VisibleBelow
  <1>2. ASSUME NEW n \in 1..N
        PROVE  level(n) = below(level(n - 1))
    <2>1. ASSUME NEW c \in live
          PROVE  c \in level(n) <=> c \in below(level(n - 1))
      <3>1. /\ IsVisible(c) <=> active[c] /\ (parent[c] # Null => IsVisible(parent[c]))
            /\ parent[c] = Null => Depth(c) = 1
            /\ parent[c] # Null => parent[c] \in live /\ Depth(c) = Depth(parent[c]) + 1
        BY VisibleBelow
      <3>2. CASE parent[c] = Null
        BY <1>0, <3>1, <3>2
      <3>3. CASE parent[c] # Null
        <4>1. Depth(parent[c]) \in Nat
          BY <3>1, <3>3, VisibleBelow
        <4>2. Depth(c) <= n <=> Depth(parent[c]) <= n - 1
          BY <1>0, <3>1, <3>3, <4>1
        <4> QED  BY <3>1, <3>3, <4>2
      <3> QED  BY <3>2, <3>3
    <2> QED  BY <2>1
  <1> HIDE DEF below, level
  <1>3. Upto(f)
    BY <1>0, <1>1, <1>2
  <1>4. ASSUME NEW g, Upto(g)
        PROVE  g[N] = level(N)
    <2> DEFINE S == {n \in Nat : n <= N => g[n] = level(n)}
    <2>1. 0 \in S
      BY <1>0, <1>1, <1>4
    <2>2. ASSUME NEW n \in Nat, n \in S
          PROVE  n + 1 \in S
      <3>1. CASE n + 1 <= N
        <4>1. n + 1 \in 1..N /\ n + 1 \in 0..N /\ n + 1 - 1 = n /\ n <= N
          BY <1>0, <3>1
        <4>2. g[n + 1] = below(g[n])
          <5>1. \A k \in 0..N : g[k] = IF k = 0 THEN {} ELSE below(g[k - 1])
            BY <1>4
          <5>2. n + 1 # 0
            OBVIOUS
          <5>3. g[n + 1] = below(g[n + 1 - 1])
            BY <4>1, <5>1, <5>2
          <5> QED  BY <4>1, <5>3
        <4>3. level(n + 1) = below(level(n))
          BY <1>2, <4>1
        <4> QED  BY <2>2, <4>1, <4>2, <4>3
      <3> QED  BY <3>1
    <2> HIDE DEF S
    <2>3. N \in S
      BY <1>0, <2>1, <2>2, NumbersFromZero
    <2> QED  BY <1>0, <2>3 DEF S
  <1>5. VisibleTree = (CHOOSE g : Upto(g))[N]
    BY DEF VisibleTree, below
  <1>6. VisibleTree = level(N)
    BY <1>3, <1>4, <1>5
  <1>7. \A c \in live : Depth(c) <= N
    BY DepthBounded
  <1> QED  BY <1>6, <1>7 DEF VisibilityAgrees, level

(* The storefront's two renderings of "hiding a category hides everything under
   it" agree: what is visible by path (CategoryIsVisible) is what is reached
   level by level from the roots (visibleTree), for any finite tree. *)
THEOREM RenderingsAgree ==
    ASSUME OneMover, IsFiniteSet(Cats)
    PROVE  Spec => []VisibilityAgrees
  <1>1. TreeInv => VisibilityAgrees
    BY LevelsAreVisible DEF TreeInv
  <1> QED  BY <1>1, TreeInitially, TreeStep, PTL DEF Spec

-----------------------------------------------------------------------------
(* The registry and its log.                                               *)

Records == Registers!Records
Requests == Registers!Requests
AtFirst == [e \in Records |-> Registers!Initially(e)]

\* h tells what there was after each of the first n entries.
Tells(h, entries, n) ==
    /\ h[0] = AtFirst
    /\ \A i \in 1..n : h[i] = Registers!Apply(h[i - 1], entries[i])

LEMMA ReplayIs ==
    ASSUME NEW entries, NEW N \in Nat, NEW h, Tells(h, entries, N)
    PROVE  \A n \in 0..N : Registers!Replay(entries, n) = h[n]
  <1> SUFFICES ASSUME NEW n \in 0..N
               PROVE  Registers!Replay(entries, n) = h[n]
    OBVIOUS
  <1> DEFINE Upto(g) == g = [i \in 0..n |-> IF i = 0 THEN AtFirst
                                            ELSE Registers!Apply(g[i - 1], entries[i])]
             f == [i \in 0..n |-> h[i]]
  <1>0. n \in Nat /\ n <= N
    OBVIOUS
  <1>1. Upto(f)
    <2>1. ASSUME NEW i \in 0..n
          PROVE  h[i] = IF i = 0 THEN AtFirst ELSE Registers!Apply(f[i - 1], entries[i])
      <3>1. CASE i = 0
        BY <3>1 DEF Tells
      <3>2. CASE i # 0
        <4>1. i \in 1..N /\ i - 1 \in 0..n
          BY <1>0, <3>2
        <4>2. f[i - 1] = h[i - 1]
          BY <4>1
        <4>3. h[i] = Registers!Apply(h[i - 1], entries[i])
          BY <4>1 DEF Tells
        <4> QED  BY <3>2, <4>2, <4>3
      <3> QED  BY <3>1, <3>2
    <2> QED  BY <2>1
  <1>2. ASSUME NEW g, Upto(g)
        PROVE  g[n] = h[n]
    <2> DEFINE S == {i \in Nat : i <= n => g[i] = h[i]}
    <2>0. \A i \in 0..n : g[i] = IF i = 0 THEN AtFirst
                                 ELSE Registers!Apply(g[i - 1], entries[i])
      BY <1>2
    <2>1. 0 \in S
      BY <2>0, <1>0 DEF Tells
    <2>2. ASSUME NEW i \in Nat, i \in S
          PROVE  i + 1 \in S
      <3>1. CASE i + 1 <= n
        <4>1. i + 1 \in 1..N /\ i + 1 \in 0..n /\ i + 1 - 1 = i /\ i <= n /\ i + 1 # 0
          BY <1>0, <3>1
        <4>2. g[i + 1] = Registers!Apply(g[i + 1 - 1], entries[i + 1])
          BY <2>0, <4>1
        <4>3. h[i + 1] = Registers!Apply(h[i + 1 - 1], entries[i + 1])
          BY <4>1 DEF Tells
        <4> QED  BY <2>2, <4>1, <4>2, <4>3
      <3> QED  BY <3>1
    <2> HIDE DEF S
    <2>3. n \in S
      BY <1>0, <2>1, <2>2, NumbersFromZero
    <2> QED  BY <1>0, <2>3 DEF S
  <1>3. Registers!Replay(entries, n) = (CHOOSE g : Upto(g))[n]
    BY DEF Registers!Replay, AtFirst, Records
  <1> HIDE DEF Upto
  <1>4. Upto(CHOOSE g : Upto(g))
    BY <1>1
  <1> QED  BY <1>2, <1>3, <1>4

-----------------------------------------------------------------------------
\* The statements that requests have, those of other operations than edits of
\* attributes, and of an edit whose client has the ETag: it has some at the end.
Words == {"row", "options", "slug", "write", "respond"}
Plain == {"row", "options", "slug", "write"}
EditSteps == <<"row", "options", "respond", "row", "options", "write">>
LastSteps(left) ==
    /\ left \in Seq(Words) /\ Len(left) <= 6
    /\ \A i \in 1..Len(left) : left[i] = EditSteps[6 - Len(left) + i]

\* What a version can be: a request that has ended, or 0.
Closed == {0} \cup {r \in Requests : req[r].left = <<>> /\ req[r].op # "none"}

\* The attribute there is has the version v.
Current(a, v) == data[a] # None /\ version[a] = v

RegTyped ==
    /\ req = [r \in Requests |-> req[r]]
    /\ \A r \in Requests :
         req[r] = [op |-> req[r].op, on |-> req[r].on, left |-> req[r].left,
                   seen |-> req[r].seen, held |-> req[r].held]
    /\ data = [e \in Records |-> data[e]]
    /\ version = [a \in Attributes |-> version[a]]
    /\ \A a \in Attributes :
         /\ data[a] # None => data[a] = [row |-> data[a].row, options |-> data[a].options]
         /\ version[a] \in Closed
    /\ \E S : log \in Seq(S)

\* What a request knows: it has read the row and then the options, and while the
\* version that it has read is the attribute's they are still the attribute's.
Knows(r) ==
    /\ req[r].seen = [row |-> req[r].seen.row, options |-> req[r].seen.options,
                      version |-> req[r].seen.version]
    /\ req[r].op # "none" => req[r].on \in Registers!About(req[r].op)
    /\ req[r].seen.version \in Closed
    /\ req[r].held # None => req[r].held.version \in Closed
    /\ req[r].op # "attribute_update" => req[r].held = None /\ req[r].left \in Seq(Plain)
    /\ req[r].op = "attribute_update" =>
         /\ LastSteps(req[r].left)
         /\ Current(req[r].on, req[r].seen.version) =>
              /\ Len(req[r].left) \in {1, 2, 4, 5} => req[r].seen.row = data[req[r].on].row
              /\ Len(req[r].left) \in {1, 4} => req[r].seen.options = data[req[r].on].options
         /\ req[r].held # None /\ Current(req[r].on, req[r].held.version) =>
              /\ req[r].held.row = data[req[r].on].row
              /\ req[r].held.options = data[req[r].on].options

Recorded == \E h : Tells(h, log, Len(log)) /\ h[Len(log)] = data

RegInv ==
    /\ RegTyped /\ Recorded /\ \A r \in Requests : Knows(r)
    /\ AttributeEditsChain /\ ETagTells

LEMMA EditStepsAre ==
    /\ EditSteps[1] = "row" /\ EditSteps[2] = "options" /\ EditSteps[3] = "respond"
    /\ EditSteps[4] = "row" /\ EditSteps[5] = "options" /\ EditSteps[6] = "write"
  BY DEF EditSteps

\* The statements with which requests begin.
LEMMA StatementsAre ==
    /\ \A op \in DOMAIN Registers!Statements : op # "attribute_update" =>
         Registers!Statements[op] \in Seq(Plain)
    /\ Registers!Statements.attribute_update = <<"row", "options", "write">>
    /\ Registers!GetAttribute \o <<"respond">> \o Registers!Statements.attribute_update = EditSteps
    /\ "none" \notin DOMAIN Registers!Statements
  <1>0. ASSUME NEW p \in Seq(Words), NEW q \in Seq(Words), NEW z \in Seq(Words),
               Len(z) = Len(p) + Len(q), \A i \in 1..Len(p) : z[i] = p[i],
               \A i \in 1..Len(q) : z[Len(p) + i] = q[i]
        PROVE  p \o q = z
    <2>1. Len(p) \in Nat /\ Len(q) \in Nat
      BY LenProperties
    <2>2. /\ p \o q \in Seq(Words) /\ Len(p \o q) = Len(p) + Len(q)
          /\ \A i \in 1..(Len(p) + Len(q)) :
               (p \o q)[i] = IF i <= Len(p) THEN p[i] ELSE q[i - Len(p)]
      BY ConcatProperties
    <2>3. ASSUME NEW i \in 1..Len(z)
          PROVE  (p \o q)[i] = z[i]
      <3>1. CASE i <= Len(p)
        BY <1>0, <2>1, <2>2, <3>1
      <3>2. CASE ~ i <= Len(p)
        <4>1. i - Len(p) \in 1..Len(q) /\ Len(p) + (i - Len(p)) = i
          BY <1>0, <2>1, <3>2
        <4> QED  BY <1>0, <2>1, <2>2, <3>2, <4>1
      <3> QED  BY <3>1, <3>2
    <2> QED  BY <1>0, <2>2, <2>3, SeqEqual
  <1> DEFINE g == <<"row", "options">>
             w == <<"write">>
             v == <<"respond">>
             e == <<"row", "options", "write">>
             gr == <<"row", "options", "respond">>
  <1>a. /\ g \in Seq(Words) /\ w \in Seq(Words) /\ e \in Seq(Words) /\ gr \in Seq(Words)
        /\ v \in Seq(Words)
    BY DEF Words
  <1>f. EditSteps \in Seq(Words)
    BY DEF EditSteps, Words
  <1>b. Len(g) = 2 /\ Len(w) = 1 /\ Len(e) = 3 /\ Len(gr) = 3 /\ Len(v) = 1
    OBVIOUS
  <1>c. Len(EditSteps) = 6
    BY DEF EditSteps
  <1>d. /\ \A i \in 1..2 : g[i] = e[i] /\ gr[i] = g[i]
        /\ \A i \in 1..1 : e[2 + i] = w[i] /\ gr[2 + i] = v[i]
    <2>1. /\ g[1] = "row" /\ g[2] = "options" /\ e[1] = "row" /\ e[2] = "options"
          /\ gr[1] = "row" /\ gr[2] = "options" /\ e[3] = "write" /\ w[1] = "write"
          /\ gr[3] = "respond" /\ v[1] = "respond"
      OBVIOUS
    <2> HIDE DEF g, e, gr, w, v
    <2>2. \A i \in 1..2 : i = 1 \/ i = 2
      OBVIOUS
    <2>3. \A i \in 1..1 : i = 1 /\ 2 + i = 3
      OBVIOUS
    <2> QED  BY <2>1, <2>2, <2>3
  <1>1. Registers!GetAttribute \o <<"write">> = <<"row", "options", "write">>
    <2>1. g \o w = e
      <3> HIDE DEF g, w, e
      <3>1. Len(e) = Len(g) + Len(w)
        BY <1>b
      <3>2. \A i \in 1..Len(g) : e[i] = g[i]
        BY <1>b, <1>d
      <3>3. \A i \in 1..Len(w) : e[Len(g) + i] = w[i]
        BY <1>b, <1>d
      <3> QED  BY <1>0, <1>a, <3>1, <3>2, <3>3
    <2> QED  BY <2>1 DEF Registers!GetAttribute
  <1>2. Registers!Statements.attribute_update = <<"row", "options", "write">>
    BY <1>1 DEF Registers!Statements
  <1>3. Registers!GetAttribute \o <<"respond">> \o <<"row", "options", "write">> = EditSteps
    <2>1. g \o v = gr
      <3> HIDE DEF g, v, gr
      <3>1. Len(gr) = Len(g) + Len(v)
        BY <1>b
      <3>2. \A i \in 1..Len(g) : gr[i] = g[i]
        BY <1>b, <1>d
      <3>3. \A i \in 1..Len(v) : gr[Len(g) + i] = v[i]
        BY <1>b, <1>d
      <3> QED  BY <1>0, <1>a, <3>1, <3>2, <3>3
    <2>2. gr \o e = EditSteps
      <3>1. \A i \in 1..3 : EditSteps[i] = gr[i] /\ EditSteps[3 + i] = e[i]
        BY EditStepsAre
      <3> QED  BY <1>0, <1>a, <1>b, <1>c, <1>f, <3>1
    <2> QED  BY <2>1, <2>2 DEF Registers!GetAttribute
  <1>4. /\ <<"slug", "write">> \in Seq(Plain) /\ <<"row", "write">> \in Seq(Plain)
        /\ <<"write">> \in Seq(Plain) /\ <<"row", "options", "write">> \in Seq(Plain)
    BY DEF Plain
  <1>5. "none" \notin DOMAIN Registers!Statements
    BY DEF Registers!Statements
  <1>6. ASSUME NEW op \in DOMAIN Registers!Statements
        PROVE  Registers!Statements[op] \in Seq(Plain)
    <2>1. op \in {"brand_create", "brand_update", "brand_delete", "supplier_create",
                  "supplier_update", "supplier_delete", "attribute_create",
                  "attribute_update", "attribute_delete", "option_create",
                  "option_update", "option_delete"}
      BY DEF Registers!Statements
    <2> DEFINE a == Registers!GetAttribute \o <<"write">>
    <2> HIDE DEF a
    <2>2. Registers!Statements =
            [brand_create |-> <<"slug", "write">>, brand_update |-> <<"row", "write">>,
             brand_delete |-> <<"row", "write">>, supplier_create |-> <<"write">>,
             supplier_update |-> <<"row", "write">>, supplier_delete |-> <<"row", "write">>,
             attribute_create |-> <<"write">>, attribute_update |-> a, attribute_delete |-> a,
             option_create |-> a, option_update |-> a, option_delete |-> <<"write">>]
      BY DEF Registers!Statements, a
    <2>3. Registers!Statements[op] \in {<<"slug", "write">>, <<"row", "write">>, <<"write">>, a}
      BY <2>1, <2>2
    <2>4. a = e
      BY <1>1 DEF a
    <2> QED  BY <1>4, <2>3, <2>4
  <1> QED  BY <1>2, <1>3, <1>5, <1>6

LEMMA TailIs ==
    ASSUME NEW S, NEW s \in Seq(S), s # <<>>
    PROVE  /\ Tail(s) \in Seq(S) /\ Len(Tail(s)) = Len(s) - 1 /\ Len(s) \in Nat /\ Len(s) >= 1
           /\ \A i \in 1..(Len(s) - 1) : Tail(s)[i] = s[i + 1]
           /\ Head(s) = s[1] /\ s[1] \in S
  BY HeadTailProperties, EmptySeq, LenProperties, ElementOfSeq

LEMMA RequestIs ==
    ASSUME RegTyped, NEW r \in Requests
    PROVE  /\ req = [q \in Requests |-> req[q]]
           /\ req[r] \in [op : {req[r].op}, on : {req[r].on}, left : {req[r].left},
                          seen : {req[r].seen}, held : {req[r].held}]
  <1>1. req = [q \in Requests |-> req[q]]
    BY DEF RegTyped
  <1>2. req[r] = [op |-> req[r].op, on |-> req[r].on, left |-> req[r].left,
                  seen |-> req[r].seen, held |-> req[r].held]
    BY DEF RegTyped
  <1> QED  BY <1>1, <1>2

\* What a request that reads leaves alone.
Reads(r, x) ==
    /\ req' = [q \in Requests |-> IF q = r THEN x ELSE req[q]]
    /\ UNCHANGED <<data, version, log>>

\* Reading changes what the request itself knows, and nothing else.
LEMMA ReadsKeep ==
    ASSUME RegInv, NEW r \in Requests, NEW x, Reads(r, x),
           x = [op |-> x.op, on |-> x.on, left |-> x.left, seen |-> x.seen, held |-> x.held],
           req[r].left = <<>> /\ req[r].op # "none" => x.left = <<>> /\ x.op # "none",
           Closed \subseteq Closed' => Knows(r)'
    PROVE  RegInv'
  <1>1. /\ req'[r] = x /\ \A q \in Requests : q # r => req'[q] = req[q]
        /\ data' = data /\ version' = version /\ log' = log
    BY DEF Reads
  <1>2. Closed \subseteq Closed'
    BY <1>1 DEF Closed
  <1>3. ASSUME NEW q \in Requests
        PROVE  Knows(q)'
    <2>1. CASE q = r
      BY <1>2, <2>1
    <2>2. CASE q # r
      <3>1. Knows(q) /\ req'[q] = req[q]
        BY <1>1, <2>2 DEF RegInv
      <3>2. req[q].seen.version \in Closed' /\ (req[q].held # None => req[q].held.version \in Closed')
        BY <1>2, <3>1 DEF Knows
      <3> QED  BY <1>1, <3>1, <3>2 DEF Knows, Current
    <2> QED  BY <2>1, <2>2
  <1>4. RegTyped'
    <2>1. RegTyped
      BY DEF RegInv
    <2>2. /\ req' = [q \in Requests |-> req'[q]]
          /\ \A q \in Requests : req'[q] =
                     [op |-> req'[q].op, on |-> req'[q].on, left |-> req'[q].left,
                      seen |-> req'[q].seen, held |-> req'[q].held]
      <3>1. \A q \in Requests : req[q] =
                     [op |-> req[q].op, on |-> req[q].on, left |-> req[q].left,
                      seen |-> req[q].seen, held |-> req[q].held]
        BY <2>1 DEF RegTyped
      <3> QED  BY <1>1, <3>1 DEF Reads
    <2>3. \A a \in Attributes : version'[a] \in Closed'
      BY <1>1, <1>2, <2>1 DEF RegTyped
    <2> QED  BY <1>1, <2>1, <2>2, <2>3 DEF RegTyped
  <1>5. Recorded' /\ AttributeEditsChain' /\ ETagTells'
    BY <1>1 DEF RegInv, Recorded, AttributeEditsChain, ETagTells, Registers!AttributeEditsChain,
                Registers!ETagTells, Registers!Previous
  <1> QED  BY <1>3, <1>4, <1>5 DEF RegInv

LEMMA BeginsKeep ==
    ASSUME RegInv, NEW r \in Requests, NEW op \in DOMAIN Registers!Statements,
           NEW e \in Records, NEW steps, Registers!Begin(r, op, e, steps),
           op # "attribute_update" => steps \in Seq(Plain),
           op = "attribute_update" => steps = <<"row", "options", "write">> \/ steps = EditSteps
    PROVE  RegInv'
  <1> DEFINE x == [op |-> op, on |-> e, left |-> steps, seen |-> req[r].seen, held |-> req[r].held]
  <1>0. RegTyped /\ Knows(r) /\ op # "none"
    BY StatementsAre DEF RegInv
  <1>1. /\ req[r].op = "none" /\ e \in Registers!About(op) /\ UNCHANGED <<data, version, log>>
        /\ req' = [req EXCEPT ![r].op = op, ![r].on = e, ![r].left = steps]
    BY DEF Registers!Begin
  <1>2. Reads(r, x) /\ req'[r] = x
    <2>1. req'[r] = x
      BY <1>0, <1>1, RequestIs
    <2>2. req' = [q \in Requests |-> req'[q]] /\ \A q \in Requests : q # r => req'[q] = req[q]
      BY <1>0, <1>1, RequestIs
    <2> QED  BY <1>1, <2>1, <2>2 DEF Reads
  <1>3. req[r].held = None
    BY <1>0, <1>1 DEF Knows
  <1>4. ASSUME op = "attribute_update"
        PROVE  LastSteps(steps) /\ Len(steps) \in {3, 6}
    <2>1. CASE steps = EditSteps
      <3>1. EditSteps \in Seq(Words) /\ Len(EditSteps) = 6
        BY DEF EditSteps, Words
      <3> QED  BY <2>1, <3>1 DEF LastSteps
    <2>2. CASE steps = <<"row", "options", "write">>
      <3>1. steps \in Seq(Words)
        BY <2>2 DEF Words
      <3>2. Len(steps) = 3 /\ steps[1] = "row" /\ steps[2] = "options" /\ steps[3] = "write"
        BY <2>2
      <3>3. ASSUME NEW i \in 1..3
            PROVE  steps[i] = EditSteps[3 + i]
        BY <3>2, <3>3, EditStepsAre
      <3> QED  BY <3>1, <3>2, <3>3 DEF LastSteps
    <2> QED  BY <1>4, <2>1, <2>2
  <1>5. ASSUME Closed \subseteq Closed'
        PROVE  Knows(r)'
    <2>1. /\ req[r].seen = [row |-> req[r].seen.row, options |-> req[r].seen.options,
                            version |-> req[r].seen.version]
          /\ req[r].seen.version \in Closed'
      BY <1>0, <1>5 DEF Knows
    <2>2. /\ req'[r].seen = req[r].seen /\ req'[r].op = op /\ req'[r].on = e
          /\ req'[r].left = steps /\ req'[r].held = None
      BY <1>2, <1>3
    <2>3. CASE op = "attribute_update"
      <3>1. LastSteps(req'[r].left) /\ Len(req'[r].left) \in {3, 6}
        BY <1>4, <2>2, <2>3
      <3>2. Len(req'[r].left) \notin {1, 2, 4, 5} /\ Len(req'[r].left) \notin {1, 4}
        <4>1. \A k \in {3, 6} : k \notin {1, 2, 4, 5} /\ k \notin {1, 4}
          OBVIOUS
        <4> QED  BY <3>1, <4>1
      <3>3. req'[r].seen = [row |-> req'[r].seen.row, options |-> req'[r].seen.options,
                            version |-> req'[r].seen.version]
        BY <2>1, <2>2
      <3>4. req'[r].op = "attribute_update" /\ req'[r].on \in Registers!About(req'[r].op)
        BY <1>1, <2>2, <2>3
      <3>5. req'[r].seen.version \in Closed'
        BY <2>1, <2>2
      <3> QED  BY <2>2, <3>1, <3>2, <3>3, <3>4, <3>5 DEF Knows
    <2>4. CASE op # "attribute_update"
      BY <1>1, <2>1, <2>2, <2>4 DEF Knows
    <2> QED  BY <2>3, <2>4
  <1> QED  BY <1>1, <1>2, <1>5, ReadsKeep

\* The statement an edit of an attribute is at tells how many are left.
LEMMA EditAt ==
    ASSUME NEW left, LastSteps(left), left # <<>>
    PROVE  /\ LastSteps(Tail(left)) /\ Len(Tail(left)) = Len(left) - 1 /\ Len(left) \in 1..6
           /\ Head(left) = "row" <=> Len(left) \in {3, 6}
           /\ Head(left) = "options" <=> Len(left) \in {2, 5}
           /\ Head(left) = "respond" <=> Len(left) = 4
           /\ Head(left) = "write" <=> Len(left) = 1
           /\ Head(left) # "slug"
  <1> DEFINE n == Len(left)
             t == Tail(left)
  <1>1. /\ t \in Seq(Words) /\ Len(t) = n - 1 /\ n \in Nat /\ n >= 1
        /\ \A i \in 1..(n - 1) : t[i] = left[i + 1]
        /\ Head(left) = left[1]
    BY TailIs DEF LastSteps
  <1>2. n <= 6 /\ \A i \in 1..n : left[i] = EditSteps[6 - n + i]
    BY DEF LastSteps
  <1> HIDE DEF n, t
  <1>3. LastSteps(t)
    <2>1. ASSUME NEW i \in 1..Len(t)
          PROVE  t[i] = EditSteps[6 - Len(t) + i]
      <3>1. i + 1 \in 1..n /\ 6 - n + (i + 1) = 6 - Len(t) + i /\ i \in 1..(n - 1)
        BY <1>1
      <3> QED  BY <1>1, <1>2, <3>1
    <2>2. Len(t) <= 6
      BY <1>1, <1>2
    <2> QED  BY <1>1, <2>1, <2>2 DEF LastSteps
  <1>4. Head(left) = EditSteps[7 - n] /\ n \in {1, 2, 3, 4, 5, 6}
    <2>1. 1 \in 1..n /\ 6 - n + 1 = 7 - n
      BY <1>1
    <2> QED  BY <1>1, <1>2, <2>1
  <1>5. \A k \in {1, 2, 3, 4, 5, 6} :
          EditSteps[7 - k] = IF k \in {3, 6} THEN "row" ELSE IF k \in {2, 5} THEN "options"
                             ELSE IF k = 4 THEN "respond" ELSE "write"
    BY EditStepsAre
  <1>6. n \in 1..6
    BY <1>4
  <1>7. /\ Head(left) = "row" <=> n \in {3, 6}
        /\ Head(left) = "options" <=> n \in {2, 5}
        /\ Head(left) = "respond" <=> n = 4
        /\ Head(left) = "write" <=> n = 1
        /\ Head(left) # "slug"
    <2>1. Head(left) = IF n \in {3, 6} THEN "row" ELSE IF n \in {2, 5} THEN "options"
                       ELSE IF n = 4 THEN "respond" ELSE "write"
      BY <1>4, <1>5
    <2>2. \/ n \in {3, 6} /\ n \notin {2, 5} /\ n # 4 /\ n # 1
          \/ n \notin {3, 6} /\ n \in {2, 5} /\ n # 4 /\ n # 1
          \/ n \notin {3, 6} /\ n \notin {2, 5} /\ n = 4 /\ n # 1
          \/ n \notin {3, 6} /\ n \notin {2, 5} /\ n # 4 /\ n = 1
      BY <1>4
    <2> QED  BY <2>1, <2>2
  <1> QED  BY <1>1, <1>3, <1>6, <1>7 DEF n, t

\* A request at a statement, and when it has done it.
LEMMA AtIs ==
    ASSUME NEW r \in Requests, Knows(r), NEW w, Registers!At(r, w)
    PROVE  /\ req[r].left # <<>>
           /\ req[r].op = "attribute_update" =>
                /\ LastSteps(Tail(req[r].left)) /\ w # "slug"
                /\ Len(Tail(req[r].left)) = Len(req[r].left) - 1
                /\ w = "row" <=> Len(req[r].left) \in {3, 6}
                /\ w = "options" <=> Len(req[r].left) \in {2, 5}
                /\ w = "respond" <=> Len(req[r].left) = 4
                /\ w = "write" <=> Len(req[r].left) = 1
           /\ req[r].op # "attribute_update" =>
                Tail(req[r].left) \in Seq(Plain) /\ w # "respond"
  <1>1. req[r].left # <<>> /\ Head(req[r].left) = w
    BY DEF Registers!At
  <1>2. CASE req[r].op = "attribute_update"
    <2>1. LastSteps(req[r].left)
      BY <1>2 DEF Knows
    <2> QED  BY <1>1, <1>2, <2>1, EditAt
  <1>3. CASE req[r].op # "attribute_update"
    <2>1. req[r].left \in Seq(Plain)
      BY <1>3 DEF Knows
    <2>2. Tail(req[r].left) \in Seq(Plain) /\ Head(req[r].left) \in Plain
      BY <1>1, <2>1, TailIs
    <2> QED  BY <1>1, <1>3, <2>2 DEF Plain
  <1> QED  BY <1>2, <1>3

LEMMA StatementKeeps ==
    ASSUME RegInv, NEW r \in Requests,
           Registers!ReadRow(r) \/ Registers!LoadOptions(r) \/ Registers!UniqueSlug(r)
    PROVE  RegInv'
  <1> DEFINE e == req[r].on
             seen == req[r].seen
             tail == Tail(req[r].left)
             Sees(row, options, v) ==
               Registers!Sees(r, [row |-> row, options |-> options, version |-> v])
  <1>0. RegTyped /\ Knows(r)
    BY DEF RegInv
  <1>1. seen = [row |-> seen.row, options |-> seen.options, version |-> seen.version]
    BY <1>0 DEF Knows
  <1>2. ASSUME NEW w, Registers!At(r, w), NEW row, NEW options, NEW v \in Closed,
               Sees(row, options, v),
               req[r].op = "attribute_update" /\ Current(e, v) =>
                 /\ Len(tail) \in {1, 2, 4, 5} => row = data[e].row
                 /\ Len(tail) \in {1, 4} => options = data[e].options
        PROVE  RegInv'
    <2> DEFINE s == [row |-> row, options |-> options, version |-> v]
               x == [op |-> req[r].op, on |-> e, left |-> tail, seen |-> s, held |-> req[r].held]
    <2>1. req' = [req EXCEPT ![r].left = Tail(@), ![r].seen = s]
          /\ UNCHANGED <<data, version, log>>
      BY <1>2 DEF Registers!Sees
    <2>2. req'[r] = x
      BY <1>0, <2>1, RequestIs
    <2>3. Reads(r, x)
      <3>1. req' = [q \in Requests |-> req'[q]] /\ \A q \in Requests : q # r => req'[q] = req[q]
        BY <1>0, <2>1, RequestIs
      <3> QED  BY <2>1, <2>2, <3>1 DEF Reads
    <2>4. req[r].left # <<>>
      BY <1>0, <1>2, AtIs
    <2>5. ASSUME Closed \subseteq Closed'
          PROVE  Knows(r)'
      <3>1. /\ req'[r].op = req[r].op /\ req'[r].on = e /\ req'[r].left = tail
            /\ req'[r].seen = s /\ req'[r].held = req[r].held
        <4> HIDE DEF s
        <4> QED  BY <2>2
      <3>a. data' = data /\ version' = version
        BY <2>1
      <3> HIDE DEF s
      <3>2. s = [row |-> s.row, options |-> s.options, version |-> s.version]
            /\ s.row = row /\ s.options = options /\ s.version = v
        BY DEF s
      <3>3. CASE req[r].op = "attribute_update"
        <4>1. LastSteps(tail)
          BY <1>0, <1>2, <3>3, AtIs
        <4> QED  BY <1>0, <1>2, <2>5, <3>1, <3>2, <3>3, <3>a, <4>1 DEF Knows, Current
      <3>4. CASE req[r].op # "attribute_update"
        <4>1. tail \in Seq(Plain)
          BY <1>0, <1>2, <3>4, AtIs
        <4> QED  BY <1>0, <1>2, <2>5, <3>1, <3>2, <3>4, <4>1 DEF Knows
      <3> QED  BY <3>3, <3>4
    <2> QED  BY <2>3, <2>4, <2>5, ReadsKeep
  <1>3. CASE Registers!ReadRow(r)
    <2> DEFINE v == IF e \in Attributes THEN version[e] ELSE 0
    <2>1. Registers!At(r, "row") /\ data[e] # None
          /\ Registers!Sees(r, [seen EXCEPT !.row = data[e].row, !.version = v])
      BY <1>3 DEF Registers!ReadRow
    <2>2. Sees(data[e].row, seen.options, v)
      <3>1. [seen EXCEPT !.row = data[e].row, !.version = v] =
              [row |-> data[e].row, options |-> seen.options, version |-> v]
        <4> DEFINE one == [seen EXCEPT !.row = data[e].row]
        <4>1. one = [row |-> data[e].row, options |-> seen.options, version |-> seen.version]
          BY <1>1
        <4> HIDE DEF one
        <4>2. [one EXCEPT !.version = v] =
                [row |-> data[e].row, options |-> seen.options, version |-> v]
          BY <4>1
        <4> QED  BY <4>2 DEF one
      <3> QED  BY <2>1, <3>1
    <2>3. v \in Closed
      BY <1>0 DEF RegTyped, Closed
    <2>4. req[r].op = "attribute_update" => Len(tail) \notin {1, 4}
      <3>1. req[r].op = "attribute_update" =>
              Len(req[r].left) \in {3, 6} /\ Len(tail) = Len(req[r].left) - 1
        BY <1>0, <2>1, AtIs
      <3>2. \A k \in {3, 6} : k - 1 \notin {1, 4}
        OBVIOUS
      <3> QED  BY <3>1, <3>2
    <2> HIDE DEF v
    <2> QED  BY <1>2, <2>1, <2>2, <2>3, <2>4
  <1>4. CASE Registers!LoadOptions(r)
    <2> DEFINE o == IF data[e] = None THEN Registers!NoOptions ELSE data[e].options
    <2>1. Registers!At(r, "options") /\ Registers!Sees(r, [seen EXCEPT !.options = o])
      BY <1>4 DEF Registers!LoadOptions
    <2>2. Sees(seen.row, o, seen.version)
      <3>1. [seen EXCEPT !.options = o] =
              [row |-> seen.row, options |-> o, version |-> seen.version]
        BY <1>1
      <3> QED  BY <2>1, <3>1
    <2>3. seen.version \in Closed
      BY <1>0 DEF Knows
    <2>4. ASSUME req[r].op = "attribute_update", Current(e, seen.version)
          PROVE  seen.row = data[e].row /\ o = data[e].options
      <3>1. Len(req[r].left) \in {2, 5}
        BY <1>0, <2>1, <2>4, AtIs
      <3>2. Len(req[r].left) \in {1, 2, 4, 5}
        <4>1. \A k \in {2, 5} : k \in {1, 2, 4, 5}
          OBVIOUS
        <4> QED  BY <3>1, <4>1
      <3>3. seen.row = data[e].row
        BY <1>0, <2>4, <3>2 DEF Knows
      <3> QED  BY <2>4, <3>3 DEF Current
    <2> HIDE DEF o
    <2> QED  BY <1>2, <2>1, <2>2, <2>3, <2>4
  <1>5. CASE Registers!UniqueSlug(r)
    <2>1. PICK row : Registers!At(r, "slug") /\ Registers!Sees(r, [seen EXCEPT !.row = row])
      BY <1>5 DEF Registers!UniqueSlug
    <2>2. Sees(row, seen.options, seen.version)
      <3>1. [seen EXCEPT !.row = row] =
              [row |-> row, options |-> seen.options, version |-> seen.version]
        BY <1>1
      <3> QED  BY <2>1, <3>1
    <2>3. seen.version \in Closed
      BY <1>0 DEF Knows
    <2>4. req[r].op # "attribute_update"
      BY <1>0, <2>1, AtIs
    <2> QED  BY <1>2, <2>1, <2>2, <2>3, <2>4
  <1> QED  BY <1>3, <1>4, <1>5

LEMMA RespondKeeps ==
    ASSUME RegInv, NEW r \in Requests, Registers!Respond(r)
    PROVE  RegInv'
  <1> DEFINE x == [op |-> req[r].op, on |-> req[r].on, left |-> Tail(req[r].left),
                   seen |-> Registers!Unread, held |-> req[r].seen]
  <1>0. RegTyped /\ Knows(r)
    BY DEF RegInv
  <1>1. /\ Registers!At(r, "respond") /\ UNCHANGED <<data, version, log>>
        /\ req' = [req EXCEPT ![r].left = Tail(@), ![r].held = req[r].seen,
                              ![r].seen = Registers!Unread]
    BY DEF Registers!Respond
  <1>2. req'[r] = x
    BY <1>0, <1>1, RequestIs
  <1>3. Reads(r, x)
    <2>1. req' = [q \in Requests |-> req'[q]] /\ \A q \in Requests : q # r => req'[q] = req[q]
      BY <1>0, <1>1, RequestIs
    <2> QED  BY <1>1, <1>2, <2>1 DEF Reads
  <1>4. /\ req[r].left # <<>> /\ req[r].op = "attribute_update"
        /\ LastSteps(Tail(req[r].left)) /\ Len(req[r].left) = 4 /\ Len(Tail(req[r].left)) = 3
    <2>1. req[r].left # <<>> /\ req[r].op = "attribute_update"
      BY <1>0, <1>1, AtIs
    <2>2. /\ LastSteps(Tail(req[r].left)) /\ Len(req[r].left) = 4
          /\ Len(Tail(req[r].left)) = Len(req[r].left) - 1
      BY <1>0, <1>1, <2>1, AtIs
    <2> QED  BY <2>1, <2>2
  <1>5. ASSUME Closed \subseteq Closed'
        PROVE  Knows(r)'
    <2>1. /\ req'[r].op = req[r].op /\ req'[r].on = req[r].on
          /\ req'[r].left = Tail(req[r].left) /\ req'[r].seen = Registers!Unread
          /\ req'[r].held = req[r].seen
      BY <1>2
    <2>2. data' = data /\ version' = version
      BY <1>1
    <2>3. LET u == Registers!Unread IN
            u = [row |-> u.row, options |-> u.options, version |-> u.version] /\ u.version = 0
      BY DEF Registers!Unread
    <2>4. 0 \in Closed' /\ req[r].seen.version \in Closed'
      BY <1>0, <1>5 DEF Knows, Closed
    <2>5. Current(req[r].on, req[r].seen.version) =>
            /\ req[r].seen.row = data[req[r].on].row
            /\ req[r].seen.options = data[req[r].on].options
      BY <1>0, <1>4 DEF Knows
    <2>6. Len(req'[r].left) \notin {1, 2, 4, 5} /\ Len(req'[r].left) \notin {1, 4}
      <3>1. 3 \notin {1, 2, 4, 5} /\ 3 \notin {1, 4}
        OBVIOUS
      <3> QED  BY <1>4, <2>1, <3>1
    <2>7. req'[r].on \in Registers!About(req'[r].op)
      BY <1>0, <1>4, <2>1 DEF Knows
    <2>8. Current(req[r].on, req[r].seen.version) <=>
            (data'[req'[r].on] # None /\ version'[req'[r].on] = req'[r].held.version)
      BY <2>1, <2>2 DEF Current
    <2> QED  BY <1>4, <2>1, <2>2, <2>3, <2>4, <2>5, <2>6, <2>7, <2>8 DEF Knows, Current
  <1> QED  BY <1>3, <1>4, <1>5, ReadsKeep

LEMMA RefusalKeeps ==
    ASSUME RegInv, NEW r \in Requests, Registers!Refuse(r)
    PROVE  RegInv'
  <1> DEFINE x == [op |-> req[r].op, on |-> req[r].on, left |-> <<>>,
                   seen |-> Registers!Unread, held |-> None]
  <1>0. RegTyped /\ Knows(r)
    BY DEF RegInv
  <1>1. /\ req[r].left # <<>> /\ UNCHANGED <<data, version, log>>
        /\ req' = [req EXCEPT ![r].left = <<>>, ![r].seen = Registers!Unread, ![r].held = None]
    BY DEF Registers!Refuse, Registers!Ended, Registers!Open
  <1>2. req'[r] = x
    BY <1>0, <1>1, RequestIs
  <1>3. Reads(r, x)
    <2>1. req' = [q \in Requests |-> req'[q]] /\ \A q \in Requests : q # r => req'[q] = req[q]
      BY <1>0, <1>1, RequestIs
    <2> QED  BY <1>1, <1>2, <2>1 DEF Reads
  <1>4. Knows(r)'
    <2>1. /\ req'[r].op = req[r].op /\ req'[r].on = req[r].on /\ req'[r].left = <<>>
          /\ req'[r].seen = Registers!Unread /\ req'[r].held = None
      BY <1>2
    <2>2. LET u == Registers!Unread IN
            u = [row |-> u.row, options |-> u.options, version |-> u.version] /\ u.version = 0
      BY DEF Registers!Unread
    <2>3. /\ LastSteps(<<>>) /\ Len(<<>>) \notin {1, 2, 4, 5} /\ Len(<<>>) \notin {1, 4}
          /\ <<>> \in Seq(Plain)
      BY EmptySeq DEF LastSteps
    <2>4. 0 \in Closed'
      BY DEF Closed
    <2> QED  BY <1>0, <2>1, <2>2, <2>3, <2>4 DEF Knows
  <1> QED  BY <1>1, <1>3, <1>4, ReadsKeep

-----------------------------------------------------------------------------
\* What an edit does to what there is.
Entry(r, o, before, after) ==
    [op |-> req[r].op, on |-> req[r].on, option |-> o, before |-> before, after |-> after,
     held |-> req[r].held]

Edits(r, o, before, after) ==
    LET e == req[r].on IN
    /\ Registers!At(r, "write") /\ req[r].op # "none" /\ e \in Records
    /\ req' = Registers!Ended(r)
    /\ log' = Append(log, Entry(r, o, before, after))
    /\ data' = Registers!Apply(data, Entry(r, o, before, after))
    /\ e \in Attributes =>
         /\ (data'[e] = None /\ version' = version) \/ version' = [version EXCEPT ![e] = r]
         /\ data'[e] # None => data'[e] = [row |-> data'[e].row, options |-> data'[e].options]
    /\ e \notin Attributes => version' = version
    /\ req[r].op = "attribute_update" =>
         /\ before = Registers!Seen(r) /\ Current(e, req[r].seen.version)
         /\ req[r].held # None => req[r].held.version = req[r].seen.version

LEMMA AboutIs ==
    ASSUME NEW r \in Requests, Knows(r), req[r].op # "none"
    PROVE  LET op == req[r].op
               e == req[r].on IN
           /\ e \in Records
           /\ op \in {"brand_create", "brand_update", "brand_delete", "supplier_create",
                      "supplier_update", "supplier_delete"} => e \notin Attributes
           /\ op \notin {"brand_create", "brand_update", "brand_delete", "supplier_create",
                         "supplier_update", "supplier_delete"} => e \in Attributes
  <1>1. req[r].on \in Registers!About(req[r].op)
    BY DEF Knows
  <1> QED  BY <1>1, RegistryAssumption DEF Registers!About, Records, Registers!Records

LEMMA WriteIs ==
    ASSUME RegTyped, NEW r \in Requests, NEW o, NEW before, NEW after, NEW new,
           req[r].on \in Records, Registers!Write(r, o, before, after, new),
           o = None => new = after,
           o # None => new = [data[req[r].on] EXCEPT !.options[o] = after]
    PROVE  /\ Registers!At(r, "write") /\ req' = Registers!Ended(r)
           /\ log' = Append(log, Entry(r, o, before, after))
           /\ data' = Registers!Apply(data, Entry(r, o, before, after))
           /\ data'[req[r].on] = new
  <1> DEFINE e == req[r].on
             x == Entry(r, o, before, after)
  <1>1. /\ Registers!At(r, "write") /\ req' = Registers!Ended(r) /\ log' = Append(log, x)
        /\ data' = [data EXCEPT ![e] = new]
    BY DEF Registers!Write, Entry
  <1>2. x.on = e /\ x.option = o /\ x.after = after
    BY DEF Entry
  <1> HIDE DEF x
  <1>3. Registers!Apply(data, x) = [data EXCEPT ![e] = IF o = None THEN after
                                       ELSE [data[e] EXCEPT !.options[o] = after]]
    BY <1>2 DEF Registers!Apply
  <1>4. data' = Registers!Apply(data, x)
    BY <1>1, <1>3
  <1>5. data'[e] = new
    <2>1. data = [d \in Records |-> data[d]]
      BY DEF RegTyped
    <2> QED  BY <1>1, <2>1
  <1> QED  BY <1>1, <1>4, <1>5 DEF x

LEMMA EditIs ==
    ASSUME RegInv, NEW r \in Requests, Registers!Edit(r)
    PROVE  \E o, before, after : Edits(r, o, before, after)
  <1> DEFINE e == req[r].on
             op == req[r].op
             Op(w) == op = w
             tables == {"brand_create", "brand_update", "brand_delete", "supplier_create",
                        "supplier_update", "supplier_delete"}
  <1>0. RegTyped /\ Knows(r)
    BY DEF RegInv
  <1>1. ASSUME NEW before, NEW new, op \in tables, UNCHANGED version,
               Registers!WriteRecord(r, before, new)
        PROVE  Edits(r, None, before, new)
    <2>1. e \in Records /\ e \notin Attributes /\ op # "none" /\ op # "attribute_update"
      BY <1>0, <1>1, AboutIs
    <2>2. Registers!Write(r, None, before, new, new)
      BY <1>1 DEF Registers!WriteRecord
    <2> QED  BY <1>0, <1>1, <2>1, <2>2, WriteIs DEF Edits
  <1>2. ASSUME NEW o, NEW before, NEW after, NEW new, op # "none", op \notin tables,
               Registers!Write(r, o, before, after, new),
               o = None => new = after,
               o # None => new = [data[e] EXCEPT !.options[o] = after],
               new # None => new = [row |-> new.row, options |-> new.options],
               (new = None /\ version' = version) \/ Registers!Touch(r),
               op = "attribute_update" =>
                 /\ before = Registers!Seen(r) /\ Current(e, req[r].seen.version)
                 /\ req[r].held # None => req[r].held.version = req[r].seen.version
        PROVE  Edits(r, o, before, after)
    <2>1. e \in Records /\ e \in Attributes
      BY <1>0, <1>2, AboutIs
    <2>2. /\ Registers!At(r, "write") /\ req' = Registers!Ended(r)
          /\ log' = Append(log, Entry(r, o, before, after))
          /\ data' = Registers!Apply(data, Entry(r, o, before, after))
          /\ data'[e] = new
      BY <1>0, <1>2, <2>1, WriteIs
    <2>3. (data'[e] = None /\ version' = version) \/ version' = [version EXCEPT ![e] = r]
      BY <1>2, <2>2 DEF Registers!Touch
    <2> QED  BY <1>2, <2>1, <2>2, <2>3 DEF Edits
  <1>3. CASE Registers!CreateBrand(r)
    BY <1>1, <1>3 DEF Registers!CreateBrand, Registers!Op
  <1>4. CASE Registers!UpdateBrand(r)
    BY <1>1, <1>4 DEF Registers!UpdateBrand, Registers!Op
  <1>5. CASE Registers!DeleteBrand(r)
    BY <1>1, <1>5 DEF Registers!DeleteBrand, Registers!Op
  <1>6. CASE Registers!CreateSupplier(r)
    BY <1>1, <1>6 DEF Registers!CreateSupplier, Registers!Op
  <1>7. CASE Registers!UpdateSupplier(r)
    BY <1>1, <1>7 DEF Registers!UpdateSupplier, Registers!Op
  <1>8. CASE Registers!DeleteSupplier(r)
    BY <1>1, <1>8 DEF Registers!DeleteSupplier, Registers!Op
  <1>9. CASE Registers!CreateAttribute(r)
    <2>1. PICK label, options :
            Registers!WriteRecord(r, None, Registers!WithOptions(label, options))
      BY <1>9 DEF Registers!CreateAttribute
    <2> DEFINE new == Registers!WithOptions(label, options)
    <2>2. new = [row |-> new.row, options |-> new.options]
      BY DEF Registers!WithOptions
    <2>3. op = "attribute_create" /\ Registers!Touch(r)
      BY <1>9 DEF Registers!CreateAttribute, Registers!Op
    <2>4. Registers!Write(r, None, None, new, new)
      BY <2>1 DEF Registers!WriteRecord
    <2> HIDE DEF new
    <2>5. Edits(r, None, None, new)
      BY <1>2, <2>2, <2>3, <2>4
    <2> QED  BY <2>5
  <1>10. CASE Registers!UpdateAttribute(r)
    <2>1. PICK label : Registers!WriteRecord(r, Registers!Seen(r), [data[e] EXCEPT !.row = label])
      BY <1>10 DEF Registers!UpdateAttribute, Registers!Target
    <2> DEFINE new == [data[e] EXCEPT !.row = label]
    <2>2. /\ op = "attribute_update" /\ Registers!Touch(r) /\ data[e] # None
          /\ Current(e, req[r].seen.version)
          /\ req[r].held # None => req[r].held.version = req[r].seen.version
      BY <1>10 DEF Registers!UpdateAttribute, Registers!Op, Registers!Unchanged,
                   Registers!IfMatch, Registers!Target, Current
    <2>3. new = [row |-> new.row, options |-> new.options]
      <3>1. e \in Attributes
        BY <1>0, <2>2, AboutIs
      <3>2. data[e] = [row |-> data[e].row, options |-> data[e].options]
        BY <1>0, <2>2, <3>1 DEF RegTyped
      <3>3. new = [row |-> label, options |-> data[e].options]
        BY <3>2
      <3> QED  BY <3>3
    <2>4. Registers!Write(r, None, Registers!Seen(r), new, new)
      BY <2>1 DEF Registers!WriteRecord
    <2> HIDE DEF new
    <2>5. Edits(r, None, Registers!Seen(r), new)
      BY <1>2, <2>2, <2>3, <2>4
    <2> QED  BY <2>5
  <1>11. CASE Registers!DeleteAttribute(r)
    <2>1. /\ op = "attribute_delete" /\ version' = version
          /\ Registers!Write(r, None, Registers!Seen(r), None, None)
      BY <1>11 DEF Registers!DeleteAttribute, Registers!Op, Registers!WriteRecord
    <2>2. Edits(r, None, Registers!Seen(r), None)
      BY <1>2, <2>1
    <2> QED  BY <2>2
  <1>12. ASSUME NEW o \in Options, NEW before, NEW after,
                op \in {"option_create", "option_update", "option_delete"},
                Registers!WriteOption(r, o, before, after), data[e] # None, Registers!Touch(r)
         PROVE  Edits(r, o, before, after)
    <2> DEFINE new == [data[e] EXCEPT !.options[o] = after]
    <2>1. o # None /\ e \in Attributes
      BY <1>0, <1>12, AboutIs, RegistryAssumption
    <2>2. data[e] = [row |-> data[e].row, options |-> data[e].options]
      BY <1>0, <1>12, <2>1 DEF RegTyped
    <2>3. new = [row |-> new.row, options |-> new.options]
      BY <2>2
    <2>4. Registers!Write(r, o, before, after, new)
      BY <1>12 DEF Registers!WriteOption, Registers!Target
    <2>5. op # "none" /\ op \notin tables /\ op # "attribute_update"
      BY <1>12
    <2>6. o # None => new = [data[e] EXCEPT !.options[o] = after]
      OBVIOUS
    <2> HIDE DEF new
    <2> QED  BY <1>2, <1>12, <2>1, <2>3, <2>4, <2>5, <2>6
  <1>13. CASE Registers!CreateOption(r)
    BY <1>12, <1>13 DEF Registers!CreateOption, Registers!Op, Registers!Target
  <1>14. CASE Registers!UpdateOption(r)
    BY <1>12, <1>14 DEF Registers!UpdateOption, Registers!Op, Registers!Target
  <1>15. CASE Registers!DeleteOption(r)
    BY <1>12, <1>15 DEF Registers!DeleteOption, Registers!Op, Registers!Target
  <1> QED  BY <1>3, <1>4, <1>5, <1>6, <1>7, <1>8, <1>9, <1>10, <1>11, <1>13, <1>14, <1>15
           DEF Registers!Edit

\* An edit is one more entry, and what there is is what the entries tell.
LEMMA EditRecorded ==
    ASSUME RegInv, NEW r \in Requests, NEW o, NEW before, NEW after, Edits(r, o, before, after)
    PROVE  LET x == Entry(r, o, before, after)
               N == Len(log) IN
           /\ Recorded' /\ (\E S : log' \in Seq(S))
           /\ N \in Nat /\ Len(log') = N + 1 /\ log'[N + 1] = x
           /\ \A i \in 1..N : log'[i] = log[i] /\ Registers!Previous(i)' = Registers!Previous(i)
           /\ \A i \in {N + 1} : Registers!Previous(i)' = data[req[r].on]
  <1> DEFINE x == Entry(r, o, before, after)
             N == Len(log)
  <1>1. PICK S : log \in Seq(S)
    BY DEF RegInv, RegTyped
  <1>2. log' = Append(log, x) /\ data' = Registers!Apply(data, x) /\ x.on = req[r].on
    BY DEF Edits, Entry
  <1> HIDE DEF x
  <1>3. /\ N \in Nat /\ log' \in Seq(S \cup {x}) /\ Len(log') = N + 1 /\ log'[N + 1] = x
        /\ \A i \in 1..N : log'[i] = log[i]
    <2>1. log \in Seq(S \cup {x})
      <3>1. N \in Nat /\ log \in [1..N -> S]
        BY <1>1, LenProperties
      <3>2. log \in [1..N -> S \cup {x}]
        BY <3>1
      <3> QED  BY <3>1, <3>2, SeqDef
    <2>2. N \in Nat
      BY <1>1, LenProperties
    <2> QED  BY <1>2, <2>1, <2>2, AppendProperties
  <1>4. PICK h : Tells(h, log, N) /\ h[N] = data
    BY DEF RegInv, Recorded
  <1> DEFINE g == [i \in 0..(N + 1) |-> IF i = N + 1 THEN data' ELSE h[i]]
  <1>5. /\ g[N + 1] = data' /\ \A i \in 0..N : g[i] = h[i]
    BY <1>3
  <1> HIDE DEF g
  <1>6. Tells(g, log', N + 1)
    <2>1. g[0] = AtFirst
      BY <1>3, <1>4, <1>5 DEF Tells
    <2>2. ASSUME NEW i \in 1..(N + 1)
          PROVE  g[i] = Registers!Apply(g[i - 1], log'[i])
      <3>1. CASE i = N + 1
        <4>1. i - 1 = N /\ N \in 0..N
          BY <1>3, <3>1
        <4>2. g[i - 1] = data /\ log'[i] = x /\ g[i] = data'
          BY <1>3, <1>4, <1>5, <3>1, <4>1
        <4> QED  BY <1>2, <4>2
      <3>2. CASE i # N + 1
        <4>1. i \in 1..N /\ i \in 0..N /\ i - 1 \in 0..N
          BY <1>3, <3>2
        <4>2. g[i] = h[i] /\ g[i - 1] = h[i - 1] /\ log'[i] = log[i]
          BY <1>3, <1>5, <4>1
        <4> QED  BY <1>4, <4>1, <4>2 DEF Tells
      <3> QED  BY <3>1, <3>2
    <2> QED  BY <2>1, <2>2 DEF Tells
  <1>7. Recorded'
    BY <1>3, <1>5, <1>6 DEF Recorded
  <1>8. \A i \in 0..N : Registers!Replay(log, i) = h[i]
    BY <1>3, <1>4, ReplayIs
  <1>9. \A i \in 0..(N + 1) : Registers!Replay(log', i) = g[i]
    <2>1. N + 1 \in Nat
      BY <1>3
    <2> QED  BY <1>6, <2>1, ReplayIs
  <1>10. ASSUME NEW i \in 1..N
         PROVE  Registers!Previous(i)' = Registers!Previous(i)
    <2>1. i - 1 \in 0..N /\ i - 1 \in 0..(N + 1)
      BY <1>3
    <2>2. Registers!Replay(log', i - 1) = Registers!Replay(log, i - 1)
      BY <1>5, <1>8, <1>9, <2>1
    <2>3. Registers!Previous(i)' = Registers!Replay(log', i - 1)[log'[i].on]
      BY DEF Registers!Previous
    <2> QED  BY <1>3, <2>2, <2>3 DEF Registers!Previous
  <1>11. ASSUME NEW i \in {N + 1}
         PROVE  Registers!Previous(i)' = data[req[r].on]
    <2>1. Registers!Replay(log', N) = data
      <3>1. N \in 0..N /\ N \in 0..(N + 1)
        BY <1>3
      <3> QED  BY <1>4, <1>5, <1>9, <3>1
    <2>2. i = N + 1 /\ i - 1 = N
      BY <1>3
    <2>3. Registers!Previous(i)' = Registers!Replay(log', i - 1)[log'[i].on]
      BY DEF Registers!Previous
    <2> QED  BY <1>2, <1>3, <2>1, <2>2, <2>3
  <1> QED  BY <1>3, <1>7, <1>10, <1>11 DEF x

\* An edit of an attribute has changed what others know of it to what was.
LEMMA EditTells ==
    ASSUME RegInv, NEW r \in Requests, NEW o, NEW before, NEW after, Edits(r, o, before, after)
    PROVE  RegTyped' /\ \A q \in Requests : Knows(q)'
  <1> DEFINE e == req[r].on
  <1>0. RegTyped /\ (\A q \in Requests : Knows(q)) /\ 0 \notin Requests
    BY RegistryAssumption DEF RegInv, Requests, Registers!Requests
  <1>1. /\ req[r].left # <<>> /\ req[r].op # "none" /\ e \in Records
        /\ req' = Registers!Ended(r)
        /\ e \in Attributes =>
             /\ (data'[e] = None /\ version' = version) \/ version' = [version EXCEPT ![e] = r]
             /\ data'[e] # None => data'[e] = [row |-> data'[e].row, options |-> data'[e].options]
        /\ e \notin Attributes => version' = version
    BY DEF Edits, Registers!At
  <1>2. data' = [d \in Records |-> data'[d]] /\ \A d \in Records : d # e => data'[d] = data[d]
    <2>1. data = [d \in Records |-> data[d]]
      BY <1>0 DEF RegTyped
    <2>2. PICK new : data' = [data EXCEPT ![e] = new]
      <3> DEFINE x == Entry(r, o, before, after)
      <3>1. data' = Registers!Apply(data, x) /\ x.on = e
        BY DEF Edits, Entry
      <3> HIDE DEF x
      <3> QED  BY <3>1 DEF Registers!Apply
    <2> QED  BY <2>1, <2>2
  <1>3. /\ req' = [q \in Requests |-> req'[q]] /\ \A q \in Requests : q # r => req'[q] = req[q]
        /\ req'[r] = [op |-> req[r].op, on |-> req[r].on, left |-> <<>>,
                      seen |-> Registers!Unread, held |-> None]
    <2>1. req' = [req EXCEPT ![r].left = <<>>, ![r].seen = Registers!Unread, ![r].held = None]
      BY <1>1 DEF Registers!Ended
    <2> QED  BY <1>0, <2>1, RequestIs
  <1>4. Closed \subseteq Closed' /\ r \notin Closed /\ r \in Closed'
    BY <1>0, <1>1, <1>3 DEF Closed
  <1>5. version' = [a \in Attributes |-> version'[a]] /\ \A a \in Attributes : version'[a] \in Closed'
    <2>1. /\ version = [a \in Attributes |-> version[a]]
          /\ \A a \in Attributes : version[a] \in Closed
      BY <1>0 DEF RegTyped
    <2>2. CASE version' = version
      BY <1>4, <2>1, <2>2
    <2>3. CASE version' = [version EXCEPT ![e] = r]
      BY <1>4, <2>1, <2>3
    <2> QED  BY <1>1, <2>2, <2>3
  <1>6. RegTyped'
    <2>1. \E S : log' \in Seq(S)
      BY EditRecorded
    <2>2. ASSUME NEW q \in Requests
          PROVE  req'[q] = [op |-> req'[q].op, on |-> req'[q].on, left |-> req'[q].left,
                            seen |-> req'[q].seen, held |-> req'[q].held]
      <3>1. CASE q = r
        BY <1>3, <3>1
      <3>2. CASE q # r
        BY <1>0, <1>3, <3>2 DEF RegTyped
      <3> QED  BY <3>1, <3>2
    <2>3. ASSUME NEW a \in Attributes, data'[a] # None
          PROVE  data'[a] = [row |-> data'[a].row, options |-> data'[a].options]
      <3>1. CASE a = e
        BY <1>1, <2>3, <3>1
      <3>2. CASE a # e
        <4>1. a \in Records
          BY DEF Records, Registers!Records
        <4>2. data'[a] = data[a]
          BY <1>2, <3>2, <4>1
        <4>3. data[a] # None => data[a] = [row |-> data[a].row, options |-> data[a].options]
          BY <1>0 DEF RegTyped
        <4> QED  BY <2>3, <4>2, <4>3
      <3> QED  BY <3>1, <3>2
    <2> QED  BY <1>2, <1>3, <1>5, <2>1, <2>2, <2>3 DEF RegTyped
  <1>7. ASSUME NEW a \in Attributes, NEW v \in Closed, data'[a] # None, version'[a] = v
        PROVE  Current(a, v) /\ data'[a] = data[a]
    <2>0. a \in Records
      BY DEF Records, Registers!Records
    <2>1. CASE a = e
      <3>1. version' = [version EXCEPT ![e] = r] /\ version = [d \in Attributes |-> version[d]]
        BY <1>0, <1>1, <1>7, <2>1 DEF RegTyped
      <3>2. version'[a] = r
        BY <2>1, <3>1
      <3> QED  BY <1>4, <1>7, <3>2
    <2>2. CASE a # e
      <3>1. data'[a] = data[a]
        BY <1>2, <2>0, <2>2
      <3>2. version'[a] = version[a]
        <4>1. version = [d \in Attributes |-> version[d]]
          BY <1>0 DEF RegTyped
        <4> QED  BY <1>1, <2>2, <4>1
      <3> QED  BY <1>7, <3>1, <3>2 DEF Current
    <2> QED  BY <2>1, <2>2
  <1>8. ASSUME NEW q \in Requests
        PROVE  Knows(q)'
    <2>1. CASE q = r
      <3>1. /\ req'[r].op = req[r].op /\ req'[r].on = req[r].on /\ req'[r].left = <<>>
            /\ req'[r].seen = Registers!Unread /\ req'[r].held = None
        BY <1>3
      <3>2. LET u == Registers!Unread IN
              u = [row |-> u.row, options |-> u.options, version |-> u.version] /\ u.version = 0
        BY DEF Registers!Unread
      <3>3. /\ LastSteps(<<>>) /\ Len(<<>>) \notin {1, 2, 4, 5} /\ Len(<<>>) \notin {1, 4}
            /\ <<>> \in Seq(Plain)
        BY EmptySeq DEF LastSteps
      <3>4. 0 \in Closed'
        BY DEF Closed
      <3>5. Knows(r)
        BY <1>0
      <3> QED  BY <2>1, <3>1, <3>2, <3>3, <3>4, <3>5 DEF Knows
    <2>2. CASE q # r
      <3>1. req'[q] = req[q] /\ Knows(q)
        BY <1>0, <1>3, <2>2
      <3>2. CASE req[q].op = "attribute_update"
        <4>1. req[q].on \in Attributes
          BY <3>1, <3>2, AboutIs
        <4>2. ASSUME NEW v \in Closed, data'[req[q].on] # None, version'[req[q].on] = v
              PROVE  Current(req[q].on, v) /\ data'[req[q].on] = data[req[q].on]
          BY <1>7, <4>1, <4>2
        <4>3. /\ req[q].seen.version \in Closed
              /\ req[q].held # None => req[q].held.version \in Closed
          BY <3>1 DEF Knows
        <4>4. data'[req[q].on] # None /\ version'[req[q].on] = req[q].seen.version =>
                /\ Len(req[q].left) \in {1, 2, 4, 5} => req[q].seen.row = data'[req[q].on].row
                /\ Len(req[q].left) \in {1, 4} => req[q].seen.options = data'[req[q].on].options
          BY <3>1, <3>2, <4>2, <4>3 DEF Knows
        <4>5. req[q].held # None /\ data'[req[q].on] # None
                /\ version'[req[q].on] = req[q].held.version =>
                /\ req[q].held.row = data'[req[q].on].row
                /\ req[q].held.options = data'[req[q].on].options
          BY <3>1, <3>2, <4>2, <4>3 DEF Knows
        <4> QED  BY <1>4, <3>1, <3>2, <4>3, <4>4, <4>5 DEF Knows, Current
      <3>3. CASE req[q].op # "attribute_update"
        BY <1>4, <3>1, <3>3 DEF Knows
      <3> QED  BY <3>2, <3>3
    <2> QED  BY <2>1, <2>2
  <1> QED  BY <1>6, <1>8

LEMMA EditKeeps ==
    ASSUME RegInv, NEW r \in Requests, Registers!Edit(r)
    PROVE  RegInv'
  <1> DEFINE e == req[r].on
             N == Len(log)
  <1>1. PICK o, before, after : Edits(r, o, before, after)
    BY EditIs
  <1> DEFINE x == Entry(r, o, before, after)
  <1>2. /\ N \in Nat /\ Len(log') = N + 1 /\ log'[N + 1] = x /\ Recorded'
        /\ \A i \in 1..N : log'[i] = log[i] /\ Registers!Previous(i)' = Registers!Previous(i)
        /\ \A i \in {N + 1} : Registers!Previous(i)' = data[e]
    BY <1>1, EditRecorded
  <1>3. x.op = req[r].op /\ x.before = before /\ x.held = req[r].held
    BY DEF Entry
  <1>4. DOMAIN log = 1..N /\ DOMAIN log' = 1..(N + 1)
    <2>1. (\E S : log \in Seq(S)) /\ \E S : log' \in Seq(S)
      BY <1>1, EditTells DEF RegInv, RegTyped
    <2> QED  BY <1>2, <2>1, LenProperties
  <1>5. /\ req[r].op = "attribute_update" => before = data[e]
        /\ req[r].held # None => [row |-> req[r].held.row, options |-> req[r].held.options] = data[e]
    <2>1. Knows(r) /\ RegTyped
      BY DEF RegInv
    <2>2. CASE req[r].op = "attribute_update"
      <3>1. /\ before = Registers!Seen(r) /\ Current(e, req[r].seen.version)
            /\ req[r].held # None => req[r].held.version = req[r].seen.version
        BY <1>1, <2>2 DEF Edits
      <3>2. Registers!At(r, "write")
        BY <1>1 DEF Edits
      <3>3. Len(req[r].left) = 1
        BY <2>1, <2>2, <3>2, AtIs
      <3>4. Len(req[r].left) \in {1, 2, 4, 5} /\ Len(req[r].left) \in {1, 4}
        BY <3>3
      <3>5. req[r].seen.row = data[e].row /\ req[r].seen.options = data[e].options
        BY <2>1, <2>2, <3>1, <3>4 DEF Knows
      <3>6. e \in Attributes
        BY <2>1, <2>2, AboutIs
      <3>7. data[e] = [row |-> data[e].row, options |-> data[e].options]
        BY <2>1, <3>1, <3>6 DEF RegTyped, Current
      <3>8. before = data[e]
        BY <3>1, <3>5, <3>7 DEF Registers!Seen
      <3>9. req[r].held # None =>
              req[r].held.row = data[e].row /\ req[r].held.options = data[e].options
        BY <2>1, <2>2, <3>1 DEF Knows
      <3> QED  BY <3>7, <3>8, <3>9
    <2>3. CASE req[r].op # "attribute_update"
      BY <2>1, <2>3 DEF Knows
    <2> QED  BY <2>2, <2>3
  <1> HIDE DEF x
  <1>6. AttributeEditsChain'
    <2>1. ASSUME NEW i \in DOMAIN log', log'[i].op = "attribute_update"
          PROVE  log'[i].before = Registers!Previous(i)'
      <3>1. CASE i \in 1..N
        <4>1. i \in DOMAIN log /\ log'[i] = log[i] /\ Registers!Previous(i)' = Registers!Previous(i)
          BY <1>2, <1>4, <3>1
        <4> QED  BY <2>1, <4>1 DEF RegInv, AttributeEditsChain, Registers!AttributeEditsChain
      <3>2. CASE i \notin 1..N
        <4>1. i = N + 1
          BY <1>2, <1>4, <3>2
        <4>2. Registers!Previous(i)' = data[e] /\ log'[i] = x
          BY <1>2, <4>1
        <4> QED  BY <1>3, <1>5, <2>1, <4>2
      <3> QED  BY <3>1, <3>2
    <2> QED  BY <2>1 DEF AttributeEditsChain, Registers!AttributeEditsChain
  <1>7. ETagTells'
    <2>1. ASSUME NEW i \in DOMAIN log', log'[i].held # None
          PROVE  [row |-> log'[i].held.row, options |-> log'[i].held.options]
                   = Registers!Previous(i)'
      <3>1. CASE i \in 1..N
        <4>1. i \in DOMAIN log /\ log'[i] = log[i] /\ Registers!Previous(i)' = Registers!Previous(i)
          BY <1>2, <1>4, <3>1
        <4> QED  BY <2>1, <4>1 DEF RegInv, ETagTells, Registers!ETagTells
      <3>2. CASE i \notin 1..N
        <4>1. i = N + 1
          BY <1>2, <1>4, <3>2
        <4>2. Registers!Previous(i)' = data[e] /\ log'[i] = x
          BY <1>2, <4>1
        <4> QED  BY <1>3, <1>5, <2>1, <4>2
      <3> QED  BY <3>1, <3>2
    <2> QED  BY <2>1 DEF ETagTells, Registers!ETagTells
  <1> QED  BY <1>1, <1>2, <1>6, <1>7, EditTells DEF RegInv

LEMMA RegInitially == Registers!Init => RegInv
  <1> SUFFICES ASSUME Registers!Init  PROVE RegInv
    OBVIOUS
  <1>1. /\ data = AtFirst /\ version = [a \in Attributes |-> 0] /\ log = <<>>
        /\ req = [r \in Requests |-> [op |-> "none", on |-> None, left |-> <<>>,
                                      seen |-> Registers!Unread, held |-> None]]
    BY DEF Registers!Init, AtFirst, Records, Requests
  <1>2. RegTyped
    <2>1. ASSUME NEW a \in Attributes
          PROVE  data[a] # None => data[a] = [row |-> data[a].row, options |-> data[a].options]
      <3>1. a \in Records /\ a \notin Brands /\ a \notin Suppliers
        BY RegistryAssumption DEF Records, Registers!Records
      <3>2. \/ data[a] = None
            \/ data[a] = Registers!WithOptions(First, Options \cap Existing)
        BY <1>1, <3>1 DEF AtFirst, Registers!Initially
      <3> QED  BY <3>2 DEF Registers!WithOptions
    <2>2. log \in Seq({})
      BY <1>1, EmptySeq
    <2>3. data = [e \in Records |-> data[e]]
      BY <1>1 DEF AtFirst
    <2> QED  BY <1>1, <2>1, <2>2, <2>3 DEF RegTyped, Closed
  <1>3. Recorded
    <2> DEFINE h == [i \in 0..0 |-> AtFirst]
    <2>1. Len(log) = 0
      BY <1>1
    <2>2. Tells(h, log, 0) /\ h[0] = data
      BY <1>1 DEF Tells
    <2> QED  BY <2>1, <2>2 DEF Recorded
  <1>4. ASSUME NEW r \in Requests
        PROVE  Knows(r)
    <2>1. LET u == Registers!Unread IN
            u = [row |-> u.row, options |-> u.options, version |-> u.version] /\ u.version = 0
      BY DEF Registers!Unread
    <2>2. <<>> \in Seq(Plain) /\ 0 \in Closed
      BY EmptySeq DEF Closed
    <2> QED  BY <1>1, <2>1, <2>2 DEF Knows
  <1>5. AttributeEditsChain /\ ETagTells
    <2>1. DOMAIN log = {}
      BY <1>1
    <2> QED  BY <2>1 DEF AttributeEditsChain, ETagTells, Registers!AttributeEditsChain,
                         Registers!ETagTells
  <1> QED  BY <1>2, <1>3, <1>4, <1>5 DEF RegInv

LEMMA RegStep ==
    ASSUME RegInv, [Registers!Next]_(Registers!registryVars)
    PROVE  RegInv'
  <1>1. ASSUME NEW r \in Requests, NEW op \in DOMAIN Registers!Statements, NEW e \in Records,
               Registers!Begin(r, op, e, Registers!Statements[op])
        PROVE  RegInv'
    BY <1>1, StatementsAre, BeginsKeep
  <1>2. ASSUME NEW r \in Requests, Registers!ArriveWithETag(r)
        PROVE  RegInv'
    <2>1. PICK a \in Attributes : Registers!Begin(r, "attribute_update", a, EditSteps)
      BY <1>2, StatementsAre DEF Registers!ArriveWithETag
    <2>2. a \in Records /\ "attribute_update" \in DOMAIN Registers!Statements
      BY DEF Records, Registers!Records, Registers!Statements
    <2> QED  BY <2>1, <2>2, BeginsKeep
  <1>3. CASE UNCHANGED Registers!registryVars
    BY <1>3 DEF Registers!registryVars, RegInv, RegTyped, Recorded, Knows, Closed, Current,
                AttributeEditsChain, ETagTells, Registers!AttributeEditsChain,
                Registers!ETagTells, Registers!Previous
  <1>4. CASE Registers!Next
    <2>1. PICK r \in Requests :
            \/ Registers!Arrive(r) \/ Registers!ArriveWithETag(r)
            \/ Registers!ReadRow(r) \/ Registers!LoadOptions(r) \/ Registers!Respond(r)
            \/ Registers!UniqueSlug(r) \/ Registers!Edit(r) \/ Registers!Refuse(r)
      BY <1>4 DEF Registers!Next, Requests
    <2>2. CASE Registers!Arrive(r)
      BY <1>1, <2>2 DEF Registers!Arrive, Records
    <2> QED  BY <1>2, <2>1, <2>2, StatementKeeps, RespondKeeps, EditKeeps, RefusalKeeps
  <1> QED  BY <1>3, <1>4

\* The registry by itself, and beside the tree.
LEMMA RegAlways == Registers!Spec => []RegInv
  BY RegInitially, RegStep, PTL DEF Registers!Spec

LEMMA RecordedAgrees == RegInv => LogAndDataAgree
  <1> SUFFICES ASSUME RegInv  PROVE LogAndDataAgree
    OBVIOUS
  <1>1. PICK h : Tells(h, log, Len(log)) /\ h[Len(log)] = data
    BY DEF RegInv, Recorded
  <1>2. Len(log) \in Nat
    BY LenProperties DEF RegInv, RegTyped
  <1>3. Registers!Replay(log, Len(log)) = data
    BY <1>1, <1>2, ReplayIs
  <1> QED  BY <1>3 DEF LogAndDataAgree, Registers!LogAndDataAgree

(* The audit log and the data agree (store.Audit): the entries, carried out in
   turn, give the records and options there are, for any number of requests that
   overlap, read stale rows and delete what is gone already. *)
THEOREM LogTellsTheData == Registers!Spec => []LogAndDataAgree
  BY RegAlways, RecordedAgrees, PTL

(* What the edit of an attribute logs as before (UpdateAttribute) is the attribute
   with its options as the entry before it left them, although it has read the
   two in separate statements and without a lock. *)
THEOREM AttributeLogChains == Registers!Spec => []AttributeEditsChain
  <1>1. RegInv => AttributeEditsChain
    BY DEF RegInv
  <1> QED  BY <1>1, RegAlways, PTL

(* An ETag is accepted only of a client that held the attribute and its options
   as they were when they were overwritten (TouchAttribute, checkIfMatch). *)
THEOREM ETagsTell == Registers!Spec => []ETagTells
  <1>1. RegInv => ETagTells
    BY DEF RegInv
  <1> QED  BY <1>1, RegAlways, PTL
=============================================================================
