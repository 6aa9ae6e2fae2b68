-------------------------- MODULE Discovery_proofs --------------------------
(* Theorems about Discovery: no granule is left behind unnoticed, for any    *)
(* catalogue, any number of runs and products, any page size and any limits. *)
EXTENDS Discovery, RankLemmas, SequenceTheorems

-----------------------------------------------------------------------------
(* Sequences *)

LEMMA RangeWithin ==
  ASSUME NEW S, NEW s \in Seq(S)
  PROVE  SeqRange(s) \subseteq S
<1>1. \A i \in 1..Len(s) : s[i] \in S
  BY ElementOfSeq
<1>2. ASSUME NEW x \in SeqRange(s) PROVE x \in S
  <2>1. PICK i \in 1..Len(s) : x = s[i]
    BY DEF SeqRange
  <2> QED BY <1>1, <2>1
<1> QED BY <1>2

LEMMA RangeOfConcat ==
  ASSUME NEW S, NEW s \in Seq(S), NEW t \in Seq(S)
  PROVE  s \o t \in Seq(S) /\ SeqRange(s \o t) = SeqRange(s) \cup SeqRange(t)
<1>1. /\ s \o t \in Seq(S) /\ Len(s) \in Nat /\ Len(t) \in Nat
      /\ Len(s \o t) = Len(s) + Len(t)
      /\ \A i \in 1..(Len(s) + Len(t)) :
           (s \o t)[i] = IF i <= Len(s) THEN s[i] ELSE t[i - Len(s)]
  BY ConcatProperties, LenProperties
<1>2. ASSUME NEW i \in 1..Len(s) PROVE s[i] \in SeqRange(s \o t)
  <2>1. i \in 1..Len(s \o t) /\ (s \o t)[i] = s[i]
    BY <1>1
  <2> QED BY <2>1 DEF SeqRange
<1>3. ASSUME NEW i \in 1..Len(t) PROVE t[i] \in SeqRange(s \o t)
  <2>1. i + Len(s) \in 1..Len(s \o t) /\ (s \o t)[i + Len(s)] = t[i]
    BY <1>1
  <2> QED BY <2>1 DEF SeqRange
<1>4. ASSUME NEW i \in 1..Len(s \o t) PROVE (s \o t)[i] \in SeqRange(s) \cup SeqRange(t)
  <2>1. CASE i <= Len(s)
    BY <1>1, <2>1 DEF SeqRange
  <2>2. CASE ~(i <= Len(s))
    <3>1. i - Len(s) \in 1..Len(t) /\ (s \o t)[i] = t[i - Len(s)]
      BY <1>1, <2>2
    <3> QED BY <3>1 DEF SeqRange
  <2> QED BY <2>1, <2>2
<1> QED BY <1>1, <1>2, <1>3, <1>4 DEF SeqRange

LEMMA RangeOfTail ==
  ASSUME NEW S, NEW s \in Seq(S), s # <<>>
  PROVE  /\ Head(s) \in S /\ Tail(s) \in Seq(S)
         /\ SeqRange(s) = {Head(s)} \cup SeqRange(Tail(s))
<1>1. /\ Head(s) \in S /\ Tail(s) \in Seq(S) /\ Len(Tail(s)) = Len(s) - 1
      /\ \A i \in 1..Len(Tail(s)) : Tail(s)[i] = s[i + 1]
      /\ Head(s) = s[1] /\ Len(s) \in Nat \ {0}
  BY HeadTailProperties, EmptySeq
<1>2. ASSUME NEW i \in 1..Len(s) PROVE s[i] \in {Head(s)} \cup SeqRange(Tail(s))
  <2>1. CASE i = 1
    BY <1>1, <2>1
  <2>2. CASE i # 1
    <3>1. i - 1 \in 1..Len(Tail(s)) /\ Tail(s)[i - 1] = s[i]
      BY <1>1, <2>2
    <3> QED BY <3>1 DEF SeqRange
  <2> QED BY <2>1, <2>2
<1>3. ASSUME NEW i \in 1..Len(Tail(s)) PROVE Tail(s)[i] \in SeqRange(s)
  <2>1. i + 1 \in 1..Len(s)
    BY <1>1
  <2> QED BY <1>1, <2>1 DEF SeqRange
<1>4. Head(s) \in SeqRange(s)
  BY <1>1 DEF SeqRange
<1> QED BY <1>1, <1>2, <1>3, <1>4 DEF SeqRange

LEMMA RangeOfPrefix ==
  ASSUME NEW S, NEW s \in Seq(S), NEW n \in Nat, n < Len(s)
  PROVE  SubSeq(s, 1, n) \in Seq(S) /\ SeqRange(SubSeq(s, 1, n)) \subseteq SeqRange(s)
<1>1. Len(s) \in Nat /\ \A i \in 1..n : s[i] \in S
  BY LenProperties, ElementOfSeq
<1>2. /\ SubSeq(s, 1, n) \in Seq(S) /\ Len(SubSeq(s, 1, n)) = n
      /\ \A i \in 1..n : SubSeq(s, 1, n)[i] = s[i]
  BY <1>1, SubSeqProperties
<1> QED BY <1>1, <1>2 DEF SeqRange

\* parse_product_response: neither loses an entry that parses nor adds one.
LEMMA ParsedKeeps ==
  ASSUME NEW S, NEW e \in Seq(S)
  PROVE  Parsed(e) \in Seq(S) /\ SeqRange(Parsed(e)) = SeqRange(e) \ Unusable
<1> DEFINE kept == {i \in DOMAIN e : e[i] \notin Unusable}
           R == {q \in kept \X kept : q[1] < q[2]}
           n == Cardinality(kept)
           at(k) == CHOOSE i \in kept : Cardinality({j \in kept : j < i}) = k - 1
<1>1. /\ DOMAIN e = 1..Len(e) /\ Len(e) \in Nat /\ \A i \in 1..Len(e) : e[i] \in S
      /\ kept \subseteq 1..Len(e)
  BY LenProperties, ElementOfSeq
<1>2. IsFiniteSet(kept)
  <2>1. IsFiniteSet(1..Len(e))
    BY <1>1, FS_Interval
  <2> HIDE DEF kept
  <2> QED BY <1>1, <2>1, FS_Subset
<1>3. OrdersStrictly(R, kept)
  BY <1>1 DEF OrdersStrictly
<1>4. \A i \in kept : Rank(i, kept, R) = Cardinality({j \in kept : j < i})
  <2> SUFFICES ASSUME NEW i \in kept PROVE Before(i, kept, R) = {j \in kept : j < i}
    BY DEF Rank
  <2> QED BY DEF Before
<1>5. Parsed(e) = [k \in 1..n |-> e[at(k)]]
  BY DEF Parsed
<1> HIDE DEF R
<1>6. n \in Nat
  BY <1>2, FS_CardinalityType
<1>7. ASSUME NEW k \in 1..n
      PROVE  at(k) \in kept /\ Rank(at(k), kept, R) = k - 1
  <2>1. k - 1 \in 0..(n - 1)
    BY <1>6
  <2>2. \E i \in kept : Rank(i, kept, R) = k - 1
    <3> HIDE DEF kept
    <3> QED BY <1>2, <1>3, <2>1, RanksFill
  <2>3. \E i \in kept : Cardinality({j \in kept : j < i}) = k - 1
    BY <1>4, <2>2
  <2> QED BY <1>4, <2>3
<1>8. ASSUME NEW i \in kept
      PROVE  \E k \in 1..n : at(k) = i
  <2>1. Rank(i, kept, R) \in 0..(n - 1)
    <3> HIDE DEF kept
    <3> QED BY <1>2, <1>3, RanksApart
  <2>2. PICK k \in 1..n : k - 1 = Rank(i, kept, R)
    <3> DEFINE place == Rank(i, kept, R) + 1
    <3>1. place \in 1..n /\ place - 1 = Rank(i, kept, R)
      BY <1>6, <2>1
    <3> HIDE DEF place
    <3> QED BY <3>1
  <2>3. at(k) \in kept /\ Rank(at(k), kept, R) = Rank(i, kept, R)
    BY <1>7, <2>2
  <2> HIDE DEF at, kept
  <2> QED BY <1>2, <1>3, <2>3, RanksApart
<1> HIDE DEF at
<1>9. Len(Parsed(e)) = n /\ \A k \in 1..n : Parsed(e)[k] = e[at(k)]
  BY <1>5, <1>6
<1>10. Parsed(e) \in Seq(S)
  <2>1. \A k \in 1..n : e[at(k)] \in S
    BY <1>1, <1>7
  <2> QED BY <1>5, <1>6, <2>1
<1>11. ASSUME NEW k \in 1..n PROVE Parsed(e)[k] \in SeqRange(e) \ Unusable
  BY <1>1, <1>7, <1>9 DEF SeqRange
<1>12. ASSUME NEW i \in 1..Len(e), e[i] \notin Unusable PROVE e[i] \in SeqRange(Parsed(e))
  <2>1. i \in kept
    BY <1>1, <1>12
  <2> QED BY <1>8, <1>9, <2>1 DEF SeqRange
<1> QED BY <1>9, <1>10, <1>11, <1>12 DEF SeqRange

-----------------------------------------------------------------------------
(* The listing CMR makes of a product *)

\* M is what CMR lists of the product p from resume on.
Lists(M, p, resume) == M = Matching(p, resume)

Listing(M) == {q \in M \X M : ListedBefore(q[1], q[2])}

LEMMA ListingIsOrdered ==
  ASSUME catalog \subseteq Granules, NEW p, NEW resume, NEW M, Lists(M, p, resume)
  PROVE  /\ M \subseteq catalog /\ IsFiniteSet(M) /\ OrdersStrictly(Listing(M), M)
         /\ \A g \in M : Position(g, M) = Rank(g, M, Listing(M)) + 1
<1>1. /\ M \subseteq catalog /\ IsFiniteSet(M)
      /\ \A g \in M : Product[g] = p /\ Date[g] \in Nat /\ Tie[g] \in Nat
  BY GranulesAssumption, FS_Subset DEF Matching, Lists
<1>2. \A x \in M : ~ListedBefore(x, x)
  BY <1>1 DEF ListedBefore
<1>3. \A x, y, z \in M : ListedBefore(x, y) /\ ListedBefore(y, z) => ListedBefore(x, z)
  BY <1>1 DEF ListedBefore
<1>4. \A x, y \in M : x # y => ListedBefore(x, y) \/ ListedBefore(y, x)
  BY <1>1, GranulesAssumption DEF ListedBefore
<1>5. \A x, y \in M : <<x, y>> \in Listing(M) <=> ListedBefore(x, y)
  BY DEF Listing
<1>6. \A g \in M : Before(g, M, Listing(M)) = {h \in M : ListedBefore(h, g)}
  BY <1>5 DEF Before
<1> QED BY <1>1, <1>2, <1>3, <1>4, <1>5, <1>6 DEF OrdersStrictly, Position, Rank

\* Each granule of the listing has a position of its own, newer ones the first.
LEMMA Positions ==
  ASSUME catalog \subseteq Granules, NEW p, NEW resume, NEW M, Lists(M, p, resume)
  PROVE  /\ Cardinality(M) \in Nat
         /\ \A g \in M : Position(g, M) \in 1..Cardinality(M)
         /\ \A k \in 1..Cardinality(M) : \E g \in M : Position(g, M) = k
         /\ \A g, h \in M : Position(g, M) = Position(h, M) => g = h
         /\ \A g, h \in M : Date[h] > Date[g] => Position(h, M) < Position(g, M)
<1>1. /\ M \subseteq catalog /\ IsFiniteSet(M) /\ OrdersStrictly(Listing(M), M)
      /\ \A g \in M : Position(g, M) = Rank(g, M, Listing(M)) + 1
  BY ListingIsOrdered
<1>2. /\ Cardinality(M) \in Nat
      /\ \A g \in M : Rank(g, M, Listing(M)) \in 0..(Cardinality(M) - 1)
      /\ \A g, h \in M : <<h, g>> \in Listing(M) <=> Rank(h, M, Listing(M)) < Rank(g, M, Listing(M))
      /\ \A g, h \in M : Rank(g, M, Listing(M)) = Rank(h, M, Listing(M)) => g = h
  BY <1>1, RanksApart
<1>3. \A k \in 0..(Cardinality(M) - 1) : \E g \in M : Rank(g, M, Listing(M)) = k
  BY <1>1, RanksFill
<1>4. ASSUME NEW k \in 1..Cardinality(M) PROVE \E g \in M : Position(g, M) = k
  <2>1. k - 1 \in 0..(Cardinality(M) - 1)
    BY <1>2
  <2>2. PICK g \in M : Rank(g, M, Listing(M)) = k - 1
    BY <1>3, <2>1
  <2> QED BY <1>1, <2>2
<1>5. ASSUME NEW g \in M, NEW h \in M, Date[h] > Date[g] PROVE <<h, g>> \in Listing(M)
  BY <1>5 DEF Listing, ListedBefore, Matching, Lists
<1>6. \A g \in M : Position(g, M) \in 1..Cardinality(M)
  BY <1>1, <1>2
<1>7. \A g, h \in M : Position(g, M) = Position(h, M) => g = h
  BY <1>1, <1>2
<1>8. ASSUME NEW g \in M, NEW h \in M, Date[h] > Date[g]
      PROVE  Position(h, M) < Position(g, M)
  <2>1. Rank(h, M, Listing(M)) < Rank(g, M, Listing(M))
    BY <1>2, <1>5, <1>8
  <2>2. Rank(h, M, Listing(M)) \in Nat /\ Rank(g, M, Listing(M)) \in Nat
    BY <1>2
  <2> QED BY <1>1, <2>1, <2>2
<1> QED BY <1>2, <1>4, <1>6, <1>7, <1>8

\* The positions on the pages before this one.
Skipped(page) == (page - 1) * PageSize

LEMMA SkippedOK ==
  ASSUME NEW page \in Nat \ {0}
  PROVE  Skipped(page) \in Nat /\ Skipped(page + 1) = Skipped(page) + PageSize
<1>1. PageSize \in Nat /\ page - 1 \in Nat /\ (page + 1) - 1 = (page - 1) + 1
  BY LimitsAssumption
<1> QED BY <1>1 DEF Skipped

\* e is the page of the listing that begins after its first entries.
IsPage(e, first, p, resume, page) == first = Skipped(page) /\ e = Page(p, resume, page)

\* A page has the granules at its positions; one that is not full is the last.
LEMMA PageEntries ==
  ASSUME catalog \subseteq Granules, NEW p, NEW resume, NEW M, Lists(M, p, resume),
         NEW page \in Nat \ {0}, NEW first, NEW e, IsPage(e, first, p, resume, page)
  PROVE  /\ e \in Seq(Granules) /\ SeqRange(e) \subseteq M /\ first \in Nat
         /\ \A g \in SeqRange(e) : Position(g, M) > first
         /\ \A g \in M :
              /\ Position(g, M) > first
              /\ Position(g, M) <= first + PageSize \/ ~MorePages(e)
              => g \in SeqRange(e)
<1> DEFINE n == Cardinality(M)
           size == IF n - first < PageSize THEN n - first ELSE PageSize
           at(i) == CHOOSE g \in M : Position(g, M) = first + i
<1>1. first \in Nat /\ PageSize \in Nat /\ PageSize > 0
  BY LimitsAssumption, SkippedOK DEF IsPage
<1>2. /\ n \in Nat
      /\ \A g \in M : Position(g, M) \in 1..n
      /\ \A k \in 1..n : \E g \in M : Position(g, M) = k
      /\ \A g, h \in M : Position(g, M) = Position(h, M) => g = h
  BY Positions
<1>3. e = [i \in 1..size |-> at(i)]
  BY DEF Page, Skipped, Lists, IsPage
<1>4. size \in Int /\ first + size <= n /\ size <= PageSize
  BY <1>1, <1>2
<1>5. ASSUME NEW i \in 1..size PROVE at(i) \in M /\ Position(at(i), M) = first + i
  <2>1. first + i \in 1..n
    BY <1>1, <1>2, <1>4
  <2> QED BY <1>2, <2>1
<1>6. PICK len \in Nat : 1..len = 1..size /\ (size >= 0 => len = size) /\ (size < 0 => len = 0)
  <2>1. CASE size >= 0
    BY <1>4, <2>1
  <2>2. CASE size < 0
    <3>1. 1..0 = 1..size
      BY <1>4, <2>2
    <3> QED BY <1>4, <2>2, <3>1
  <2> QED BY <1>4, <2>1, <2>2
<1> HIDE DEF at
<1>7. e = [i \in 1..len |-> at(i)] /\ \A i \in 1..len : at(i) \in M
  BY <1>3, <1>5, <1>6
<1>8. e \in Seq(Granules) /\ Len(e) = len /\ \A i \in 1..len : e[i] = at(i)
  <2>1. M \subseteq Granules
    BY DEF Matching, Lists
  <2> QED BY <1>7, <2>1
<1>9. ASSUME NEW i \in 1..len PROVE Position(e[i], M) > first
  <2>1. Position(e[i], M) = first + i
    BY <1>5, <1>6, <1>8
  <2> QED BY <1>1, <2>1
<1>10. ASSUME NEW g \in M, Position(g, M) > first,
              Position(g, M) <= first + PageSize \/ ~MorePages(e)
       PROVE  g \in SeqRange(e)
  <2> DEFINE i == Position(g, M) - first
  <2>1. Position(g, M) \in Nat /\ Position(g, M) <= n
    BY <1>2
  <2>2. MorePages(e) \/ len < PageSize
    BY <1>1, <1>8 DEF MorePages
  <2>3. i \in 1..size
    <3>1. CASE n - first < PageSize
      BY <1>1, <1>2, <1>10, <2>1, <3>1
    <3>2. CASE ~(n - first < PageSize)
      <4>1. size = PageSize /\ len = PageSize
        BY <1>1, <1>6, <3>2
      <4> QED BY <1>1, <1>10, <2>1, <2>2, <4>1
    <3> QED BY <3>1, <3>2
  <2>4. at(i) \in M /\ Position(at(i), M) = Position(g, M)
    <3>1. first + i = Position(g, M)
      BY <1>1, <2>1
    <3> QED BY <1>5, <2>3, <3>1
  <2>5. at(i) = g
    BY <1>2, <2>4
  <2>6. i \in 1..len
    BY <1>6, <2>3
  <2> QED BY <1>8, <2>5, <2>6 DEF SeqRange
<1> QED BY <1>1, <1>7, <1>8, <1>9, <1>10 DEF SeqRange

-----------------------------------------------------------------------------
(* The inductive invariant *)

RunStates ==
  [pc : {"idle", "discover", "take"}, resume : [ProductSet -> Nat],
   product : 1..Len(Products), page : Nat \ {0}, found : Seq(Granules)]

Found(r) == SeqRange(run[r].found)

\* Granules that a run has yet to take: they must not fall between the runs.
Waiting == {g \in catalog \ Unusable : row[g] = "none"}

\* Some run will take g, or it is known to be given up; a run that is still
\* discovering may fail without a trace and does not count.
Held(g) == g \in passed \/ \E r \in Runs : At(r, "take") /\ g \in Found(r)

\* r has found a newer granule of the product.
Shown(r, g) == \E h \in Found(r) : Product[h] = Product[g] /\ Date[h] > Date[g]

\* r will come to g on this page or a later one.
Ahead(r, g) ==
  LET p == Product[g]
      M == Matching(p, run[r].resume[p])
  IN  /\ p = Products[run[r].product] /\ g \in M
      /\ Position(g, M) > Skipped(run[r].page)

Covered(r, g) == Held(g) \/ g \in Found(r) \/ Ahead(r, g)

RunOK(r) ==
  /\ Found(r) \subseteq catalog \ Unusable
  /\ At(r, "take") => \A g \in Waiting : Shown(r, g) => Held(g)
  /\ At(r, "discover") =>
       /\ \A g \in Granules : Date[g] < run[r].resume[Product[g]] => Overtaken(g)
       /\ \A g \in Waiting : Shown(r, g) => Covered(r, g)

RowsOK ==
  /\ \A g \in Granules : row[g] # "none" => g \in catalog
  /\ \A g \in Waiting : Overtaken(g) => Held(g)

DInv == TypeOK /\ RowsOK /\ \A r \in Runs : RunOK(r)

\* What holds of the products of granules.
LEMMA ProductsOK ==
  /\ Len(Products) \in Nat \ {0}
  /\ \A g \in Granules : Product[g] \in ProductSet /\ Date[g] \in Nat
  /\ \A i \in 1..Len(Products) : Products[i] \in ProductSet
BY GranulesAssumption, LimitsAssumption DEF ProductSet

\* Rows do not go away, and what is held is held until there is a row.
LEMMA OtherRuns ==
  ASSUME DInv, UNCHANGED catalog, NEW r \in Runs, run'[r] = run[r],
         \A g \in Granules : row[g] # "none" => row'[g] # "none",
         \A g \in Waiting' : Held(g) => Held(g)'
  PROVE  RunOK(r)'
<1>1. catalog \subseteq Granules /\ catalog' = catalog
  BY DEF DInv, TypeOK
<1>2. Waiting' \subseteq Waiting
  BY <1>1 DEF Waiting
<1>3. /\ Found(r)' = Found(r) /\ At(r, "take")' = At(r, "take")
      /\ At(r, "discover")' = At(r, "discover")
  BY DEF Found, At
<1>4. \A g : Overtaken(g) => Overtaken(g)'
  BY DEF Overtaken
<1>5. ASSUME NEW g PROVE Shown(r, g)' = Shown(r, g) /\ Ahead(r, g)' = Ahead(r, g)
  BY <1>1, <1>3 DEF Shown, Ahead, Matching
<1>6. RunOK(r)
  BY DEF DInv
<1>7. Found(r)' \subseteq catalog' \ Unusable
  BY <1>1, <1>3, <1>6 DEF RunOK
<1>8. At(r, "take")' => \A g \in Waiting' : Shown(r, g)' => Held(g)'
  BY <1>2, <1>3, <1>5, <1>6 DEF RunOK
<1>9. At(r, "discover")' =>
        \A g \in Granules : Date[g] < run'[r].resume[Product[g]] => Overtaken(g)'
  BY <1>3, <1>4, <1>6 DEF RunOK
<1>10. At(r, "discover")' => \A g \in Waiting' : Shown(r, g)' => Covered(r, g)'
  BY <1>2, <1>3, <1>5, <1>6 DEF RunOK, Covered
<1> QED BY <1>7, <1>8, <1>9, <1>10 DEF RunOK

\* A step of one run that publishes nothing.
LEMMA RunKeeps ==
  ASSUME DInv, TypeOK', UNCHANGED catalog, NEW r \in Runs,
         \A q \in Runs \ {r} : run'[q] = run[q], RunOK(r)',
         \A g \in Granules : row[g] # "none" => row'[g] # "none",
         \A g \in Granules : row'[g] # "none" => g \in catalog,
         \A g \in Waiting' : Held(g) => Held(g)',
         \A g \in Waiting' : Overtaken(g)' => Overtaken(g) \/ Held(g)'
  PROVE  DInv'
<1>1. \A q \in Runs : RunOK(q)'
  BY OtherRuns
<1>2. Waiting' \subseteq Waiting
  BY DEF Waiting, DInv, TypeOK
<1>3. RowsOK'
  BY <1>2 DEF DInv, RowsOK
<1> QED BY <1>1, <1>3 DEF DInv

-----------------------------------------------------------------------------
(* The surroundings *)

\* What is published late is passed, and a granule that is not has nothing newer.
LEMMA Publishes ==
  ASSUME DInv, TypeOK', NEW g \in Granules, Publish(g)
  PROVE  DInv'
<1>1. /\ catalog' = catalog \cup {g} /\ g \notin catalog /\ UNCHANGED <<row, run, faults>>
      /\ passed \subseteq passed'
      /\ (\E h \in catalog : Product[h] = Product[g] /\ Date[h] > Date[g]) => g \in passed'
      /\ catalog \subseteq Granules
  BY DEF Publish, DInv, TypeOK
<1>2. /\ \A r \in Runs : Found(r)' = Found(r) /\ At(r, "take")' = At(r, "take")
                          /\ At(r, "discover")' = At(r, "discover") /\ RunOK(r)
      /\ \A h : Overtaken(h)' = Overtaken(h)
      /\ Waiting' \subseteq Waiting \cup {g}
  BY <1>1 DEF Found, At, Overtaken, Waiting, DInv
<1>3. \A h : Held(h) => Held(h)'
  BY <1>1, <1>2 DEF Held
<1>4. ASSUME \E h \in catalog : Product[h] = Product[g] /\ Date[h] > Date[g]
      PROVE  Held(g)'
  BY <1>1, <1>4 DEF Held
<1>5. \A r \in Runs : \A h : Shown(r, h)' = Shown(r, h)
  BY <1>2 DEF Shown
<1>6. \A r \in Runs : Shown(r, g) => Held(g)'
  BY <1>2, <1>4 DEF Shown, RunOK
<1>7. Overtaken(g) => Held(g)'
  BY <1>4 DEF Overtaken, DInv, RowsOK
<1>8. ASSUME NEW r \in Runs, NEW h \in Granules, Ahead(r, h)
      PROVE  Ahead(r, h)'
  <2> DEFINE p == Product[h]
             resume == run[r].resume[p]
             M == Matching(p, resume)
             N == Matching(p, resume)'
  <2>1. M \subseteq N /\ N \subseteq catalog' /\ h \in M
    BY <1>1, <1>8 DEF Matching, Ahead
  <2>2. IsFiniteSet(N)
    <3>1. IsFiniteSet(Granules)
      BY GranulesAssumption, Zenon
    <3>2. N \subseteq Granules
      BY <1>1, <2>1 DEF DInv, TypeOK
    <3> HIDE DEF N
    <3> QED BY <3>1, <3>2, FS_Subset, Zenon
  <2>3. /\ {x \in M : ListedBefore(x, h)} \subseteq {x \in N : ListedBefore(x, h)}
        /\ IsFiniteSet({x \in N : ListedBefore(x, h)})
    BY <2>1, <2>2, FS_Subset
  <2>4. /\ Cardinality({x \in M : ListedBefore(x, h)}) \in Nat
        /\ Cardinality({x \in N : ListedBefore(x, h)}) \in Nat
        /\ Cardinality({x \in M : ListedBefore(x, h)}) <= Cardinality({x \in N : ListedBefore(x, h)})
    BY <2>3, FS_Subset, FS_CardinalityType
  <2>5. Position(h, M) \in Nat /\ Position(h, N) \in Nat /\ Position(h, M) <= Position(h, N)
    BY <2>4 DEF Position
  <2>6. p = Products[run[r].product] /\ Position(h, M) > Skipped(run[r].page)
    BY <1>8 DEF Ahead
  <2>7. Skipped(run[r].page) \in Nat
    BY SkippedOK DEF DInv, TypeOK
  <2> HIDE DEF M, N
  <2>8. Position(h, N) > Skipped(run[r].page)
    BY <2>5, <2>6, <2>7
  <2> QED BY <1>1, <2>1, <2>6, <2>8 DEF Ahead, M, N
<1>9. ASSUME NEW r \in Runs
      PROVE  RunOK(r)'
  <2>1. Found(r)' \subseteq catalog' \ Unusable
    BY <1>1, <1>2 DEF RunOK
  <2>2. At(r, "take")' => \A h \in Waiting' : Shown(r, h)' => Held(h)'
    BY <1>2, <1>3, <1>5, <1>6 DEF RunOK
  <2>3. At(r, "discover")' =>
          \A h \in Granules : Date[h] < run'[r].resume[Product[h]] => Overtaken(h)'
    BY <1>1, <1>2 DEF RunOK
  <2>4. ASSUME At(r, "discover")', NEW h \in Waiting', Shown(r, h)'
        PROVE  Covered(r, h)'
    <3>1. CASE h = g
      BY <1>5, <1>6, <2>4, <3>1 DEF Covered
    <3>2. CASE h # g
      <4>1. h \in Waiting /\ h \in Granules /\ Covered(r, h)
        BY <1>1, <1>2, <1>5, <2>4, <3>2 DEF RunOK, Waiting
      <4> QED BY <1>2, <1>3, <1>8, <4>1 DEF Covered
    <3> QED BY <3>1, <3>2
  <2> QED BY <2>1, <2>2, <2>3, <2>4 DEF RunOK
<1>10. RowsOK'
  <2>1. \A h \in Granules : row'[h] # "none" => h \in catalog'
    BY <1>1 DEF DInv, RowsOK
  <2>2. \A h \in Waiting' : Overtaken(h)' => Held(h)'
    BY <1>2, <1>3, <1>7 DEF DInv, RowsOK
  <2> QED BY <2>1, <2>2 DEF RowsOK
<1> QED BY <1>9, <1>10 DEF DInv

LEMMA StatusChanges ==
  ASSUME DInv, TypeOK', NEW g \in Granules, StatusChange(g)
  PROVE  DInv'
<1>1. /\ UNCHANGED <<catalog, run, passed, faults>>
      /\ \A h \in Granules : row'[h] # "none" <=> row[h] # "none"
  BY DEF StatusChange, DInv, TypeOK
<1>2. Waiting' = Waiting /\ \A h : Overtaken(h)' = Overtaken(h)
  BY <1>1 DEF Waiting, Overtaken, DInv, TypeOK
<1>3. \A h : Held(h) => Held(h)'
  BY <1>1 DEF Held, At, Found
<1>4. \A r \in Runs : RunOK(r)'
  BY <1>1, <1>3, OtherRuns
<1>5. RowsOK'
  BY <1>1, <1>2, <1>3 DEF DInv, RowsOK
<1> QED BY <1>4, <1>5 DEF DInv

-----------------------------------------------------------------------------
(* The steps of a run *)

LEMMA IdleOK ==
  /\ IdleRun \in RunStates /\ IdleRun.pc = "idle" /\ IdleRun.page = 1
  /\ IdleRun.found = <<>> /\ SeqRange(IdleRun.found) = {}
<1>1. 1 \in 1..Len(Products) /\ 1 \in Nat \ {0} /\ <<>> \in Seq(Granules)
  BY LimitsAssumption, EmptySeq
<1>2. [p \in ProductSet |-> 0] \in [ProductSet -> Nat]
  OBVIOUS
<1>3. IdleRun \in RunStates
  BY <1>1, <1>2 DEF IdleRun, RunStates
<1>4. SeqRange(<<>>) = {}
  BY DEF SeqRange
<1> QED BY <1>3, <1>4 DEF IdleRun

\* The records a run's steps make of its state.
LEMMA Rewritten ==
  ASSUME NEW x \in RunStates
  PROVE  /\ \A points \in [ProductSet -> Nat] :
              [x EXCEPT !.pc = "discover", !.resume = points] \in RunStates
         /\ \A s \in Seq(Granules) : [x EXCEPT !.found = s] \in RunStates
         /\ \A s \in Seq(Granules) : [x EXCEPT !.pc = "take", !.found = s] \in RunStates
         /\ \A s \in Seq(Granules), n \in Nat \ {0} :
              [x EXCEPT !.found = s, !.page = n] \in RunStates
         /\ \A s \in Seq(Granules), n \in Nat \ {0}, i \in 1..Len(Products) :
              [x EXCEPT !.found = s, !.page = n, !.product = i] \in RunStates
<1> SUFFICES ASSUME NEW P, NEW R, NEW I, NEW N, NEW S,
                    NEW y \in [pc : P, resume : R, product : I, page : N, found : S]
             PROVE  /\ \A c \in P, points \in R :
                         [y EXCEPT !.pc = c, !.resume = points] \in
                           [pc : P, resume : R, product : I, page : N, found : S]
                    /\ \A s \in S : [y EXCEPT !.found = s] \in
                           [pc : P, resume : R, product : I, page : N, found : S]
                    /\ \A c \in P, s \in S : [y EXCEPT !.pc = c, !.found = s] \in
                           [pc : P, resume : R, product : I, page : N, found : S]
                    /\ \A s \in S, n \in N : [y EXCEPT !.found = s, !.page = n] \in
                           [pc : P, resume : R, product : I, page : N, found : S]
                    /\ \A s \in S, n \in N, i \in I :
                         [y EXCEPT !.found = s, !.page = n, !.product = i] \in
                           [pc : P, resume : R, product : I, page : N, found : S]
  BY DEF RunStates
<1> QED OBVIOUS

\* The newest date of rows that count is a date of a row.
LEMMA ResumeOvertakes ==
  ASSUME NEW p
  PROVE  /\ ResumePoint(p) \in Nat
         /\ \A g \in Granules : Product[g] = p /\ Date[g] < ResumePoint(p) => Overtaken(g)
<1> DEFINE dates == {Date[g] : g \in {h \in Granules : Product[h] = p /\ row[h] = "counts"}}
<1>1. dates \in SUBSET Nat /\ IsFiniteSet(dates)
  <2> DEFINE rows == {h \in Granules : Product[h] = p /\ row[h] = "counts"}
  <2>1. rows \subseteq Granules /\ IsFiniteSet(rows)
    BY GranulesAssumption, FS_Subset
  <2> HIDE DEF rows
  <2>2. IsFiniteSet({Date[g] : g \in rows})
    <3> DEFINE f == [g \in rows |-> Date[g]]
               T == {Date[g] : g \in rows}
    <3>1. f \in Surjection(rows, T)
      BY DEF Surjection
    <3> HIDE DEF f, T
    <3>2. IsFiniteSet(T)
      BY <2>1, <3>1, FS_Surjection
    <3> QED BY <3>2 DEF T
  <2>3. dates = {Date[g] : g \in rows}
    BY DEF rows
  <2> QED BY <2>1, <2>2, <2>3, ProductsOK
<1>2. CASE dates = {}
  <2>1. ResumePoint(p) = 0
    BY <1>2 DEF ResumePoint, Newest
  <2> QED BY <2>1, ProductsOK
<1>3. CASE dates # {}
  <2>1. PICK d \in dates : \A e \in dates : e <= d
    BY <1>1, <1>3, HasGreatest
  <2>2. ResumePoint(p) = CHOOSE x \in dates : \A e \in dates : e <= x
    BY <1>3 DEF ResumePoint, Newest
  <2>3. ResumePoint(p) \in dates
    BY <2>1, <2>2
  <2>4. PICK h \in Granules : Product[h] = p /\ row[h] = "counts" /\ Date[h] = ResumePoint(p)
    BY <2>3
  <2>5. ResumePoint(p) \in Nat
    BY <2>4, ProductsOK
  <2>6. ASSUME NEW g \in Granules, Product[g] = p, Date[g] < ResumePoint(p)
        PROVE  Overtaken(g)
    <3>1. Date[h] > Date[g] /\ Product[h] = Product[g] /\ row[h] # "none"
      BY <2>4, <2>5, <2>6, ProductsOK
    <3> QED BY <3>1 DEF Overtaken
  <2> QED BY <2>5, <2>6
<1> QED BY <1>2, <1>3

\* A run begins, or ends, with nothing found.
LEMMA EmptyRunOK ==
  ASSUME NEW r \in Runs, SeqRange(run'[r].found) = {},
         \/ run'[r].pc = "idle"
         \/ \A g \in Granules : Date[g] < run'[r].resume[Product[g]] => Overtaken(g)'
  PROVE  RunOK(r)'
BY DEF RunOK, Found, At, Shown

LEMMA Starts ==
  ASSUME DInv, NEW r \in Runs, StartDiscovery(r)
  PROVE  TypeOK' /\ DInv'
<1>1. PICK points : points = [p \in ProductSet |-> ResumePoint(p)]
  OBVIOUS
<1>2. PICK x : x = [IdleRun EXCEPT !.pc = "discover", !.resume = points]
  OBVIOUS
<1>3. run' = [run EXCEPT ![r] = x] /\ UNCHANGED <<catalog, row, passed, faults>> /\ At(r, "idle")
  BY <1>1, <1>2 DEF StartDiscovery
<1>4. /\ x \in RunStates /\ SeqRange(x.found) = {}
      /\ \A g \in Granules : x.resume[Product[g]] = ResumePoint(Product[g])
  <2>1. points \in [ProductSet -> Nat]
    BY <1>1, ResumeOvertakes
  <2>2. x \in RunStates
    BY <1>2, <2>1, IdleOK, Rewritten
  <2>3. x.found = <<>> /\ x.resume = points
    BY <1>2 DEF IdleRun
  <2> QED BY <1>1, <2>2, <2>3, ProductsOK DEF SeqRange
<1>5. /\ run' \in [Runs -> RunStates] /\ run'[r] = x /\ \A q \in Runs \ {r} : run'[q] = run[q]
  BY <1>3, <1>4 DEF DInv, TypeOK, RunStates
<1>6. TypeOK'
  BY <1>3, <1>5 DEF DInv, TypeOK, RunStates
<1>7. \A g \in Granules : Overtaken(g)' = Overtaken(g)
  BY <1>3 DEF Overtaken
<1>8. RunOK(r)'
  BY <1>4, <1>5, <1>7, ResumeOvertakes, EmptyRunOK
<1>9. \A g : Held(g) => Held(g)'
  BY <1>3, <1>5 DEF Held, At, Found
<1>10. DInv'
  BY <1>3, <1>5, <1>6, <1>7, <1>8, <1>9, RunKeeps DEF DInv, RowsOK, Waiting, TypeOK
<1> QED BY <1>6, <1>10

\* A run that ends gives up what it has found; one that has not taken anything yet
\* had nothing in hand.
LEMMA Ends ==
  ASSUME DInv, NEW r \in Runs, FetchFails(r) \/ FinishRun(r) \/ Crash(r)
  PROVE  TypeOK' /\ DInv'
<1>1. /\ run' = [run EXCEPT ![r] = IdleRun] /\ UNCHANGED <<catalog, row>>
      /\ passed \subseteq passed' /\ passed' \subseteq passed \cup Found(r)
      /\ At(r, "take") => Found(r) \subseteq passed'
      /\ faults' \in 0..MaxFaults
  <2>1. SeqRange(<<>>) = {}
    BY DEF SeqRange
  <2> QED BY <2>1, LimitsAssumption DEF FetchFails, FinishRun, Crash, Fault, Found, At, DInv, TypeOK
<1>2. /\ run' \in [Runs -> RunStates] /\ run'[r] = IdleRun /\ \A q \in Runs \ {r} : run'[q] = run[q]
  BY <1>1, IdleOK DEF DInv, TypeOK, RunStates
<1>3. TypeOK'
  <2>1. Found(r) \subseteq Granules
    BY DEF DInv, RunOK, TypeOK
  <2> QED BY <1>1, <1>2, <2>1 DEF DInv, TypeOK, RunStates
<1>4. RunOK(r)'
  BY <1>2, IdleOK, EmptyRunOK
<1>5. \A g : Held(g) => Held(g)'
  BY <1>1, <1>2 DEF Held, At, Found
<1>6. \A g : Overtaken(g)' = Overtaken(g)
  BY <1>1 DEF Overtaken
<1>7. DInv'
  BY <1>1, <1>2, <1>3, <1>4, <1>5, <1>6, RunKeeps DEF DInv, RowsOK, Waiting, TypeOK
<1> QED BY <1>3, <1>7

LEMMA Takes ==
  ASSUME DInv, NEW r \in Runs, TakeGranule(r)
  PROVE  TypeOK' /\ DInv'
<1>1. PICK s, g, x :
        /\ s = run[r].found /\ g = Head(s) /\ x = [run[r] EXCEPT !.found = Tail(s)]
  OBVIOUS
<1>2. /\ s \in Seq(Granules) /\ s # <<>> /\ run[r] \in RunStates /\ At(r, "take")
  BY <1>1 DEF TakeGranule, DInv, TypeOK, RunStates
<1>3. /\ g \in Granules /\ Tail(s) \in Seq(Granules)
      /\ SeqRange(s) = {g} \cup SeqRange(Tail(s))
  BY <1>1, <1>2, RangeOfTail
<1>4. g \in catalog \ Unusable
  BY <1>1, <1>3 DEF DInv, RunOK, Found
<1>5. /\ row' \in [Granules -> {"none", "counts", "ignored"}]
      /\ \A h \in Granules \ {g} : row'[h] = row[h]
      /\ row[g] # "none" => row'[g] # "none"
      /\ row'[g] # "none" \/ g \in passed'
      /\ passed \subseteq passed' /\ passed' \subseteq passed \cup {g}
      /\ faults' \in 0..MaxFaults
  <2>1. PICK inserted : inserted = IF row[g] = "none" THEN [row EXCEPT ![g] = "counts"] ELSE row
    OBVIOUS
  <2>2. row \in [Granules -> {"none", "counts", "ignored"}] /\ faults \in 0..MaxFaults
    BY DEF DInv, TypeOK
  <2>3. /\ inserted \in [Granules -> {"none", "counts", "ignored"}]
        /\ \A h \in Granules \ {g} : inserted[h] = row[h]
        /\ inserted[g] # "none" /\ (row[g] # "none" => inserted[g] = row[g])
    BY <1>3, <2>1, <2>2
  <2>4. \/ row' = inserted /\ UNCHANGED <<passed, faults>>
        \/ row' \in {row, inserted} /\ Fault /\ passed' = passed \cup {g}
    BY <1>1, <2>1 DEF TakeGranule
  <2>5. Fault => faults' \in 0..MaxFaults
    BY <2>2, LimitsAssumption DEF Fault
  <2> QED BY <2>2, <2>3, <2>4, <2>5
<1>6. UNCHANGED catalog /\ run' = [run EXCEPT ![r] = x]
  BY <1>1 DEF TakeGranule
<1>7. x \in RunStates /\ x.pc = "take" /\ x.found = Tail(s)
  <2>1. x \in RunStates
    BY <1>1, <1>2, <1>3, Rewritten
  <2> QED BY <1>1, <1>2, <2>1 DEF RunStates, At
<1>8. /\ run' \in [Runs -> RunStates] /\ run'[r] = x /\ \A q \in Runs \ {r} : run'[q] = run[q]
  BY <1>6, <1>7 DEF DInv, TypeOK, RunStates
<1>9. TypeOK'
  BY <1>3, <1>5, <1>6, <1>8 DEF DInv, TypeOK, RunStates
<1>10. /\ Found(r) = {g} \cup Found(r)' /\ At(r, "take")'
       /\ Waiting' \subseteq Waiting /\ Waiting \subseteq Granules
  BY <1>1, <1>3, <1>5, <1>6, <1>7, <1>8 DEF Found, At, Waiting, DInv, TypeOK
<1>11. ASSUME NEW h \in Waiting', Held(h)
       PROVE  Held(h)'
  <2>1. CASE h = g
    BY <1>5, <1>11, <2>1 DEF Held, Waiting
  <2>2. CASE h # g
    BY <1>5, <1>8, <1>10, <1>11, <2>2 DEF Held, At, Found
  <2> QED BY <2>1, <2>2
<1>12. \A h \in Waiting' : Shown(r, h) => Held(h)'
  BY <1>2, <1>10, <1>11 DEF DInv, RunOK
<1>13. ASSUME NEW h \in Waiting', Overtaken(h)'
       PROVE  Overtaken(h) \/ Held(h)'
  <2>1. PICK k \in Granules : Product[k] = Product[h] /\ Date[k] > Date[h] /\ row'[k] # "none"
    BY <1>13 DEF Overtaken
  <2>2. CASE k = g
    BY <1>10, <1>12, <2>1, <2>2 DEF Shown
  <2>3. CASE k # g
    BY <1>5, <2>1, <2>3 DEF Overtaken
  <2> QED BY <2>2, <2>3
<1>14. RunOK(r)'
  <2>1. ~At(r, "discover")'
    BY <1>10 DEF At
  <2>2. Found(r)' \subseteq catalog' \ Unusable
    BY <1>6, <1>10 DEF DInv, RunOK
  <2>3. \A h \in Waiting' : Shown(r, h)' => Held(h)'
    BY <1>10, <1>12 DEF Shown
  <2> QED BY <2>1, <2>2, <2>3 DEF RunOK
<1>15. \A h \in Granules : row'[h] # "none" => h \in catalog
  BY <1>4, <1>5 DEF DInv, RowsOK
<1>16. \A h \in Granules : row[h] # "none" => row'[h] # "none"
  BY <1>5
<1>17. DInv'
  BY <1>6, <1>8, <1>9, <1>11, <1>13, <1>14, <1>15, <1>16, RunKeeps
<1> QED BY <1>9, <1>17

\* What a run has found when it has read the page.
Gathered(r, e) == run[r].found \o Parsed(e)

\* What a run reads next: a page e of what matches the product p from resume on,
\* after the first entries; with it the granules found.
Reads(r, p, resume, M, first, e, found) ==
  /\ p = Products[run[r].product] /\ resume = run[r].resume[p]
  /\ Lists(M, p, resume) /\ IsPage(e, first, p, resume, run[r].page)
  /\ found = Gathered(r, e)

\* With the page, whatever lies beyond a granule that was found is held, found,
\* or on a page to come.
LEMMA PageFound ==
  ASSUME DInv, NEW r \in Runs, At(r, "discover"),
         NEW p, NEW resume, NEW M, NEW first, NEW e, NEW found,
         Reads(r, p, resume, M, first, e, found)
  PROVE  /\ found \in Seq(Granules) /\ SeqRange(found) \subseteq catalog \ Unusable
         /\ \A g \in Waiting :
              (\E h \in SeqRange(found) : Product[h] = Product[g] /\ Date[h] > Date[g]) =>
                \/ Held(g) \/ g \in SeqRange(found)
                \/ MorePages(e) /\ Product[g] = p /\ g \in M /\ Position(g, M) > first + PageSize
<1>1. /\ catalog \subseteq Granules /\ run[r].found \in Seq(Granules) /\ run[r].page \in Nat \ {0}
      /\ run[r].product \in 1..Len(Products) /\ resume \in Nat
  BY ProductsOK DEF DInv, TypeOK, Reads
<1>2. M \subseteq catalog /\ \A g \in M : Product[g] = p
  BY DEF Matching, Lists, Reads
<1>3. /\ e \in Seq(Granules) /\ SeqRange(e) \subseteq M /\ first \in Nat
      /\ \A g \in SeqRange(e) : Position(g, M) > first
      /\ \A g \in M :
           /\ Position(g, M) > first
           /\ Position(g, M) <= first + PageSize \/ ~MorePages(e)
           => g \in SeqRange(e)
  <2>1. Lists(M, p, resume) /\ IsPage(e, first, p, resume, run[r].page)
    BY DEF Reads
  <2> QED BY <1>1, <2>1, PageEntries
<1>4. /\ Cardinality(M) \in Nat
      /\ \A g \in M : Position(g, M) \in 1..Cardinality(M)
      /\ \A g, h \in M : Date[h] > Date[g] => Position(h, M) < Position(g, M)
  <2>1. Lists(M, p, resume)
    BY DEF Reads
  <2> QED BY <1>1, <2>1, Positions
<1>5. Parsed(e) \in Seq(Granules) /\ SeqRange(Parsed(e)) = SeqRange(e) \ Unusable
  BY <1>3, ParsedKeeps
<1>6. found \in Seq(Granules) /\ SeqRange(found) = SeqRange(run[r].found) \cup SeqRange(Parsed(e))
  <2>1. \A t, u \in Seq(Granules) :
          t \o u \in Seq(Granules) /\ SeqRange(t \o u) = SeqRange(t) \cup SeqRange(u)
    BY RangeOfConcat
  <2> QED BY <1>1, <1>5, <2>1, Zenon DEF Gathered, Reads
<1>7. SeqRange(found) = Found(r) \cup (SeqRange(e) \ Unusable)
  BY <1>5, <1>6 DEF Found
<1>8. SeqRange(found) \subseteq catalog \ Unusable
  BY <1>2, <1>3, <1>7 DEF DInv, RunOK
<1>9. ASSUME NEW g \in Waiting, Product[g] = p, g \in M, Position(g, M) > first
      PROVE  \/ g \in SeqRange(found)
             \/ MorePages(e) /\ Position(g, M) > first + PageSize
  <2>1. Position(g, M) \in 1..Cardinality(M) /\ first \in Nat
    BY <1>3, <1>4, <1>9, Zenon
  <2>2. CASE Position(g, M) <= first + PageSize \/ ~MorePages(e)
    BY <1>3, <1>7, <1>9, <2>2 DEF Waiting
  <2>3. CASE ~(Position(g, M) <= first + PageSize) /\ MorePages(e)
    BY <2>1, <2>3, LimitsAssumption
  <2> QED BY <2>2, <2>3
<1>10. ASSUME NEW g \in Waiting, NEW h \in SeqRange(found),
              Product[h] = Product[g], Date[h] > Date[g]
       PROVE  \/ Held(g) \/ g \in SeqRange(found)
              \/ MorePages(e) /\ Product[g] = p /\ g \in M /\ Position(g, M) > first + PageSize
  <2>1. CASE h \in Found(r)
    <3>1. Covered(r, g)
      BY <1>10, <2>1 DEF DInv, RunOK, Shown
    <3>2. CASE Ahead(r, g)
      <4>1. Product[g] = p /\ g \in M /\ Position(g, M) > first
        BY <3>2 DEF Ahead, Reads, Lists, IsPage
      <4> QED BY <1>9, <4>1
    <3> QED BY <1>7, <3>1, <3>2 DEF Covered
  <2>2. CASE h \in SeqRange(e)
    <3>1. h \in M /\ Product[g] = p /\ Position(h, M) > first /\ g \in catalog /\ g \in Granules
      BY <1>1, <1>2, <1>3, <1>10, <2>2 DEF Waiting
    <3>2. CASE Date[g] < resume
      <4>1. Overtaken(g)
        BY <3>1, <3>2 DEF DInv, RunOK, Reads, Lists
      <4> QED BY <4>1 DEF DInv, RowsOK
    <3>3. CASE ~(Date[g] < resume)
      <4>1. resume \in Nat /\ Date[g] \in Nat
        BY <1>1, <3>1, ProductsOK
      <4>2. g \in M
        BY <3>1, <3>3, <4>1 DEF Matching, Reads, Lists
      <4>3. Position(h, M) < Position(g, M)
        BY <1>4, <1>10, <3>1, <4>2
      <4>4. Position(g, M) > first
        <5>1. Position(h, M) \in 1..Cardinality(M) /\ Position(g, M) \in 1..Cardinality(M)
          BY <1>4, <3>1, <4>2, Zenon
        <5>2. first \in Nat /\ Position(h, M) > first
          BY <1>3, <3>1, Zenon
        <5> QED BY <4>3, <5>1, <5>2
      <4> QED BY <1>9, <3>1, <4>2, <4>4
    <3> QED BY <3>2, <3>3
  <2> QED BY <1>7, <2>1, <2>2
<1> QED BY <1>6, <1>8, <1>10

\* What FetchPage makes of a run m.
NextPage(m, found) == [m EXCEPT !.found = found, !.page = m.page + 1]
NextProduct(m, found) == [m EXCEPT !.found = found, !.page = 1, !.product = m.product + 1]
Discovered(kept) == [IdleRun EXCEPT !.pc = "take", !.found = kept]

LEMMA NextPageIs ==
  ASSUME NEW m \in RunStates, NEW found \in Seq(Granules)
  PROVE  LET x == NextPage(m, found) IN
         /\ x \in RunStates /\ x.pc = m.pc /\ x.found = found
         /\ x.page = m.page + 1 /\ x.product = m.product /\ x.resume = m.resume
<1>1. m.page + 1 \in Nat \ {0}
  BY DEF RunStates
<1>2. NextPage(m, found) \in RunStates
  BY <1>1, Rewritten DEF NextPage
<1> QED BY <1>1, <1>2 DEF RunStates, NextPage

LEMMA NextProductIs ==
  ASSUME NEW m \in RunStates, NEW found \in Seq(Granules), m.product < Len(Products)
  PROVE  LET x == NextProduct(m, found) IN
         /\ x \in RunStates /\ x.pc = m.pc /\ x.found = found /\ x.resume = m.resume
<1>1. 1 \in Nat \ {0} /\ m.product + 1 \in 1..Len(Products)
  BY LimitsAssumption DEF RunStates
<1>2. NextProduct(m, found) \in RunStates
  BY <1>1, Rewritten DEF NextProduct
<1> QED BY <1>1, <1>2 DEF RunStates, NextProduct

LEMMA DiscoveredIs ==
  ASSUME NEW kept \in Seq(Granules)
  PROVE  LET x == Discovered(kept) IN
         /\ x \in RunStates /\ x.pc = "take" /\ x.found = kept
<1>1. Discovered(kept) \in RunStates
  BY IdleOK, Rewritten DEF Discovered
<1> QED BY <1>1 DEF IdleRun, Discovered

LEMMA Fetches ==
  ASSUME DInv, NEW r \in Runs, FetchPage(r)
  PROVE  TypeOK' /\ DInv'
<1>1. PICK p, resume, M, first, e, found : Reads(r, p, resume, M, first, e, found)
  BY Zenon DEF Reads, Lists, IsPage
<1>2. PICK kept :
        kept = IF Limit[r] # 0 /\ Limit[r] < Len(found) THEN SubSeq(found, 1, Limit[r]) ELSE found
  OBVIOUS
<1>3. At(r, "discover") /\ UNCHANGED <<catalog, row, faults>>
  BY DEF FetchPage
<1>4. /\ found \in Seq(Granules) /\ SeqRange(found) \subseteq catalog \ Unusable
      /\ \A g \in Waiting :
           (\E h \in SeqRange(found) : Product[h] = Product[g] /\ Date[h] > Date[g]) =>
             \/ Held(g) \/ g \in SeqRange(found)
             \/ MorePages(e) /\ Product[g] = p /\ g \in M /\ Position(g, M) > first + PageSize
  BY <1>1, <1>3, PageFound
<1>5. kept \in Seq(Granules) /\ SeqRange(kept) \subseteq SeqRange(found)
  <2>1. Limit[r] \in Nat
    BY LimitsAssumption
  <2> QED BY <1>2, <1>4, <2>1, RangeOfPrefix
<1>6. PICK m : m = run[r]
  OBVIOUS
<1>7. /\ run \in [Runs -> RunStates] /\ m \in RunStates /\ m.pc = "discover"
      /\ m.page \in Nat \ {0}
  BY <1>3, <1>6 DEF DInv, TypeOK, At, RunStates
<1>8. PICK x \in RunStates :
        /\ run' = [run EXCEPT ![r] = x]
        /\ \/ /\ MorePages(e) /\ x.pc = "discover" /\ x.found = found /\ UNCHANGED passed
              /\ x.page = run[r].page + 1 /\ x.product = run[r].product /\ x.resume = run[r].resume
           \/ /\ ~MorePages(e) /\ x.pc = "discover" /\ x.found = found /\ UNCHANGED passed
              /\ x.resume = run[r].resume
           \/ /\ ~MorePages(e) /\ x.pc = "take" /\ x.found = kept
              /\ passed' = passed \cup (SeqRange(found) \ SeqRange(kept))
  <2>1. \/ MorePages(e) /\ UNCHANGED passed /\ run' = [run EXCEPT ![r] = NextPage(m, found)]
        \/ ~MorePages(e) /\ UNCHANGED passed /\ m.product < Len(Products)
           /\ run' = [run EXCEPT ![r] = NextProduct(m, found)]
        \/ ~MorePages(e) /\ passed' = passed \cup (SeqRange(found) \ SeqRange(kept))
           /\ run' = [run EXCEPT ![r] = Discovered(kept)]
    BY <1>1, <1>2, <1>6, Zenon
       DEF FetchPage, NextPage, NextProduct, Discovered, Gathered, Skipped, Reads, Lists,
           IsPage
  <2>2. CASE MorePages(e) /\ UNCHANGED passed /\ run' = [run EXCEPT ![r] = NextPage(m, found)]
    <3>1. PICK x : x = NextPage(m, found)
      OBVIOUS
    <3>2. /\ x \in RunStates /\ x.pc = m.pc /\ x.found = found
          /\ x.page = m.page + 1 /\ x.product = m.product /\ x.resume = m.resume
      BY <1>4, <1>7, <3>1, NextPageIs
    <3>3. run' = [run EXCEPT ![r] = x]
      BY <2>2, <3>1
    <3> QED BY <1>6, <1>7, <2>2, <3>2, <3>3
  <2>3. CASE ~MorePages(e) /\ UNCHANGED passed /\ m.product < Len(Products)
             /\ run' = [run EXCEPT ![r] = NextProduct(m, found)]
    <3>1. PICK x : x = NextProduct(m, found)
      OBVIOUS
    <3>2. x \in RunStates /\ x.pc = m.pc /\ x.found = found /\ x.resume = m.resume
      BY <1>4, <1>7, <2>3, <3>1, NextProductIs
    <3>3. run' = [run EXCEPT ![r] = x]
      BY <2>3, <3>1
    <3> QED BY <1>6, <1>7, <2>3, <3>2, <3>3
  <2>4. CASE ~MorePages(e) /\ passed' = passed \cup (SeqRange(found) \ SeqRange(kept))
             /\ run' = [run EXCEPT ![r] = Discovered(kept)]
    BY <1>5, <1>7, <2>4, DiscoveredIs
  <2> QED BY <2>1, <2>2, <2>3, <2>4
<1>9. run' \in [Runs -> RunStates] /\ run'[r] = x /\ \A q \in Runs \ {r} : run'[q] = run[q]
  BY <1>7, <1>8
<1>10. TypeOK'
  BY <1>3, <1>4, <1>5, <1>8, <1>9 DEF DInv, TypeOK, RunStates
<1>11. /\ passed \subseteq passed' /\ Waiting' = Waiting /\ Waiting \subseteq Granules
       /\ \A g : Overtaken(g)' = Overtaken(g)
  BY <1>3, <1>8 DEF Waiting, Overtaken, DInv, TypeOK
<1>12. \A g : Held(g) => Held(g)'
  BY <1>3, <1>9, <1>11 DEF Held, At, Found
<1>13. Found(r)' = SeqRange(x.found) /\ Found(r)' \subseteq SeqRange(found)
  BY <1>5, <1>8, <1>9 DEF Found
<1>14. \A g \in Waiting : Shown(r, g)' =>
         \/ Held(g)' \/ g \in SeqRange(found)
         \/ MorePages(e) /\ Product[g] = p /\ g \in M /\ Position(g, M) > first + PageSize
  BY <1>4, <1>12, <1>13 DEF Shown
<1>15. RunOK(r)'
  <2>1. Found(r)' \subseteq catalog' \ Unusable
    BY <1>3, <1>4, <1>13
  <2>2. ASSUME At(r, "take")', NEW g \in Waiting', Shown(r, g)'
        PROVE  Held(g)'
    <3>1. ~MorePages(e) /\ x.found = kept /\ passed' = passed \cup (SeqRange(found) \ SeqRange(kept))
      BY <1>8, <1>9, <2>2 DEF At
    <3>2. Held(g)' \/ g \in SeqRange(found)
      BY <1>11, <1>14, <2>2, <3>1
    <3> QED BY <1>13, <2>2, <3>1, <3>2 DEF Held
  <2>3. At(r, "discover")' =>
          /\ x.resume = run[r].resume
          /\ \A g \in Granules : Date[g] < x.resume[Product[g]] => Overtaken(g)'
    <3>1. At(r, "discover")' => x.resume = run[r].resume
      BY <1>8, <1>9 DEF At
    <3>2. \A g \in Granules : Date[g] < run[r].resume[Product[g]] => Overtaken(g)
      BY <1>3 DEF DInv, RunOK
    <3> QED BY <1>11, <3>1, <3>2
  <2>4. ASSUME At(r, "discover")', NEW g \in Waiting', Shown(r, g)'
        PROVE  Covered(r, g)'
    <3>1. x.found = found
      BY <1>8, <1>9, <2>4 DEF At
    <3>2. CASE MorePages(e) /\ Product[g] = p /\ g \in M /\ Position(g, M) > first + PageSize
      <4>1. x.page = run[r].page + 1 /\ x.product = run[r].product /\ x.resume = run[r].resume
        BY <1>8, <1>9, <2>4, <3>2 DEF At
      <4>2. Matching(p, x.resume[p])' = M
        BY <1>1, <1>3, <4>1 DEF Matching, Reads, Lists
      <4>3. Skipped(x.page) = first + PageSize
        BY <1>1, <1>6, <1>7, <4>1, SkippedOK DEF Reads, IsPage
      <4> QED BY <1>1, <1>9, <3>2, <4>1, <4>2, <4>3 DEF Covered, Ahead, Reads, Lists
    <3> QED BY <1>11, <1>13, <1>14, <2>4, <3>1, <3>2 DEF Covered
  <2> QED BY <1>9, <2>1, <2>2, <2>3, <2>4 DEF RunOK
<1>16. DInv'
  BY <1>3, <1>9, <1>10, <1>11, <1>12, <1>15, RunKeeps DEF DInv, RowsOK, TypeOK
<1> QED BY <1>10, <1>16

-----------------------------------------------------------------------------
(* The theorems *)

LEMMA DInit ==
  ASSUME Init
  PROVE  DInv
<1>1. TypeOK
  BY IdleOK, LimitsAssumption DEF Init, TypeOK, RunStates
<1>2. \A r \in Runs : At(r, "idle") /\ Found(r) = {}
  BY IdleOK DEF Init, At, Found
<1>3. \A r \in Runs : RunOK(r)
  BY <1>2 DEF RunOK, At
<1>4. RowsOK
  BY DEF Init, RowsOK, Waiting
<1> QED BY <1>1, <1>3, <1>4 DEF DInv

LEMMA DNext ==
  ASSUME DInv, [Next]_vars
  PROVE  DInv'
<1>1. ASSUME NEW g \in Granules, Publish(g) PROVE DInv'
  <2>1. TypeOK'
    BY <1>1 DEF Publish, DInv, TypeOK
  <2> QED BY <1>1, <2>1, Publishes
<1>2. ASSUME NEW g \in Granules, StatusChange(g) PROVE DInv'
  <2>1. TypeOK'
    BY <1>2 DEF StatusChange, DInv, TypeOK
  <2> QED BY <1>2, <2>1, StatusChanges
<1>3. CASE UNCHANGED vars
  <2>1. UNCHANGED <<catalog, row, run, passed, faults>>
    BY <1>3 DEF vars
  <2>2. TypeOK'
    BY <2>1 DEF DInv, TypeOK
  <2>3. Waiting' = Waiting /\ \A g : Held(g)' = Held(g) /\ Overtaken(g)' = Overtaken(g)
    BY <2>1 DEF Waiting, Held, At, Found, Overtaken
  <2>4. \A r \in Runs : RunOK(r)'
    BY <2>1, <2>3, OtherRuns
  <2>5. RowsOK'
    BY <2>1, <2>3 DEF DInv, RowsOK
  <2> QED BY <2>2, <2>4, <2>5 DEF DInv
<1> QED BY <1>1, <1>2, <1>3, Starts, Fetches, Takes, Ends DEF Next, RunStep

\* Every variable keeps its type, no run holds a granule CMR has not published, a
\* resume point a run works from never lies beyond an older granule that nobody
\* has in hand, and the pages of a listing that changes under a run still cover
\* all the granules older than one it has found.
THEOREM DiscoveryInvariant == Spec => []DInv
BY DInit, DNext, PTL DEF Spec

\* No granule is left behind without a trace: see NoHoles.  An older granule of a
\* product whose newer one has a row was published late, has been given up, or is
\* in the hands of a run (run_ingest_inner, discover_product).
THEOREM NothingLeftBehind == Spec => []NoHoles
<1>1. DInv => NoHoles
  BY DEF DInv, RowsOK, Waiting, NoHoles, Held, Found
<1> QED BY <1>1, DiscoveryInvariant, PTL

=============================================================================
