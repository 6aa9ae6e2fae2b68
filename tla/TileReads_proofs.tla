-------------------------- MODULE TileReads_proofs --------------------------
(* Theorems about TileSetPublication and, on top of them, about TileReads:   *)
(* which tile sets publishers and cleanups keep whole, and what clients are  *)
(* promised meanwhile, for any number of tile sets, versions, publishers,    *)
(* cleanups, clients and faults, any limits and any dates.                   *)
EXTENDS TileReads, RankLemmas, FiniteSetTheorems, TLAPS

-----------------------------------------------------------------------------
(* Publication and retention: the inductive invariant *)

\* created_at orders the rows, a new row comes after all of them, and only rows that
\* are there grow old.
Numbered ==
  /\ aged <= Cardinality(Inserted)
  /\ \A ts \in Inserted : created[ts] <= Cardinality(Inserted)
  /\ \A s, t \in Inserted : created[s] = created[t] => s = t

\* What a publisher has established at each step: its tile set has no row before
\* all of its blobs are there, and a row that has not aged once it has one.
PublisherOK(p) ==
  LET ts == publisher[p].ts IN
  /\ PublisherAt(p, "idle") => ts = NoTileSet
  /\ ~PublisherAt(p, "idle") => ts \in TileSets
  /\ PublisherAt(p, "tiles") \/ PublisherAt(p, "insert") => created[ts] = 0
  /\ PublisherAt(p, "tiles") =>
       /\ publisher[p].left \subseteq TilesOf[ts]
       /\ TilesOf[ts] \subseteq blobs[ts] \cup publisher[p].left
  /\ PublisherAt(p, "insert") => blobs[ts] = Blobs(ts)
  /\ PublisherAt(p, "promote") \/ PublisherAt(p, "commit") \/ PublisherAt(p, "pointer") =>
       created[ts] > aged

\* Every attempt has a tile_set_id of its own.
PublishersApart ==
  \A p, q \in Publishers :
    p # q /\ publisher[p].ts # NoTileSet => publisher[p].ts # publisher[q].ts

\* What a cleaner has in hand may go, and the listing it works through is complete.
CleanerOK(c) ==
  LET ts == cleaner[c].ts IN
  /\ \A s \in cleaner[c].todo : s \in Inserted /\ Expendable(s)
  /\ CleanerAt(c, "tiles") \/ CleanerAt(c, "mark") => ts \in Inserted /\ Expendable(ts)
  /\ CleanerAt(c, "tiles") => blobs[ts] \subseteq cleaner[c].left \cup {Manifest}
  /\ CleanerAt(c, "mark") => blobs[ts] = {}

IInv ==
  /\ TypeOK
  /\ Numbered
  /\ \A p \in Publishers : PublisherOK(p)
  /\ PublishersApart
  /\ \A c \in Cleaners : CleanerOK(c)
  /\ OnlyExpendableLoseBlobs
  /\ RemovedLeavesNothing

-----------------------------------------------------------------------------
(* Counting the newer tile sets *)

\* There are finitely many rows, so their numbers can be compared.
LEMMA RowsCount ==
  /\ IsFiniteSet(Inserted) /\ Cardinality(Inserted) \in Nat
  /\ Cardinality(Inserted) <= Cardinality(TileSets) /\ Cardinality(TileSets) \in Nat
  /\ \A ts : IsFiniteSet(Newer(ts)) /\ Cardinality(Newer(ts)) \in Nat
<1>1. Inserted \subseteq TileSets /\ IsFiniteSet(TileSets)
  BY TileSetsAssumption DEF Inserted
<1>2. \A ts : Newer(ts) \subseteq TileSets
  BY DEF Newer, Inserted
<1> QED BY <1>1, <1>2, FS_Subset, FS_CardinalityType

\* No row is lost that newer ones protect an older one with: a tile set that is
\* removed while it is expendable leaves enough newer ones behind for every other
\* (mark_tile_set_retention_deleted after select_tile_set_retention_candidates).
LEMMA RemovalSparesOthers ==
  ASSUME TypeOK, NEW ts \in Inserted, NEW r \in Inserted, Expendable(ts), Expendable(r),
         removed' = removed \cup {r}, UNCHANGED <<created, latest, aged>>
  PROVE  Expendable(ts)'
<1>1. Newer(ts) \in SUBSET TileSets /\ Newer(r) \in SUBSET TileSets
  BY DEF Newer, Inserted
<1>2. Newer(ts)' = Newer(ts) \ {r}
  BY DEF Newer, Inserted
<1>3. CASE r \notin Newer(ts)
  <2>1. Newer(ts)' = Newer(ts)
    BY <1>2, <1>3
  <2> QED BY <2>1 DEF Expendable
<1>4. CASE r \in Newer(ts)
  <2>1. \A s \in TileSets : created[s] \in Nat
    BY DEF TypeOK
  <2>2. Newer(r) \subseteq Newer(ts)'
    BY <1>2, <1>4, <2>1 DEF Newer, Inserted
  <2>3. IsFiniteSet(Newer(ts)') /\ Cardinality(Newer(ts)') \in Nat
    BY <1>2, RowsCount, FS_Subset, FS_CardinalityType
  <2>4. Cardinality(Newer(r)) <= Cardinality(Newer(ts)')
    BY <2>2, <2>3, FS_Subset
  <2>5. Cardinality(Newer(r)) > ProtectedPrior
    BY DEF Expendable
  <2>6. Cardinality(Newer(ts)') > ProtectedPrior
    BY <2>3, <2>4, <2>5, RowsCount, LimitsAssumption
  <2> QED BY <2>6 DEF Expendable
<1> QED BY <1>3, <1>4

\* A new row, a promotion and time take nothing from an expendable tile set.
LEMMA ExpendableStays ==
  ASSUME TypeOK, NEW ts \in Inserted, Expendable(ts),
         removed' = removed, aged' \in Nat, aged <= aged',
         \A s \in Inserted : created'[s] = created[s],
         latest' # latest => created[latest'] > aged,
         Inserted \subseteq Inserted', Inserted' \subseteq TileSets
  PROVE  Expendable(ts)'
<1>1. created[ts] \in Nat /\ aged \in Nat /\ created[ts] <= aged
  BY DEF TypeOK, Inserted, Expendable
<1>2. created'[ts] <= aged' /\ ts # latest'
  BY <1>1 DEF Expendable
<1>3. Newer(ts) \subseteq Newer(ts)' /\ Newer(ts)' \subseteq TileSets
  BY DEF Newer
<1>4. IsFiniteSet(Newer(ts)') /\ Cardinality(Newer(ts)) <= Cardinality(Newer(ts)')
  BY <1>3, TileSetsAssumption, FS_Subset
<1>5. Cardinality(Newer(ts)') \in Nat
  BY <1>4, FS_CardinalityType
<1>6. Cardinality(Newer(ts)') > ProtectedPrior
  BY <1>4, <1>5, RowsCount, LimitsAssumption DEF Expendable
<1> QED BY <1>2, <1>6 DEF Expendable

-----------------------------------------------------------------------------
(* The steps of a publisher *)

PublisherActs(p) ==
  (\E ts \in TileSets : StartPublishing(p, ts)) \/ PublisherStep(p) \/ PublisherFails(p)

\* What a step of a publisher leaves alone: the other publishers, the cleaners, what
\* was removed, the age of rows, the numbers and blobs of tile sets with a row, and
\* the blobs of tile sets that others are publishing.
PublisherLeaves(p) ==
  /\ \A q \in Publishers \ {p} : publisher'[q] = publisher[q]
  /\ UNCHANGED <<cleaner, removed, aged>>
  /\ Inserted \subseteq Inserted' /\ Inserted' \subseteq Inserted \cup {publisher[p].ts}
  /\ \A ts \in Inserted : created'[ts] = created[ts] /\ blobs'[ts] = blobs[ts]
  /\ \A ts \in TileSets \ {publisher[p].ts} :
       created'[ts] = created[ts] /\ blobs'[ts] = blobs[ts]
  /\ latest' # latest => created[latest'] > aged

PublisherStates ==
  [pc : {"idle", "tiles", "insert", "promote", "commit", "pointer"},
   ts : TileSets \cup {NoTileSet}, left : SUBSET AllBlobs, seen : TileSets \cup {NoTileSet}]

\* Going on to another step changes nothing else of a publisher, or all of it.
LEMMA PublisherGoes ==
  ASSUME TypeOK, NEW p \in Publishers,
         NEW pc \in {"idle", "insert", "promote", "pointer"}, PublisherGoto(p, pc)
  PROVE  /\ publisher' \in [Publishers -> PublisherStates]
         /\ \A q \in Publishers \ {p} : publisher'[q] = publisher[q]
         /\ publisher'[p] = IF pc = "idle" THEN IdlePublisher ELSE [publisher[p] EXCEPT !.pc = pc]
BY DEF TypeOK, PublisherGoto, PublisherStates, IdlePublisher

\* What the steps of a publisher keep of the table, if its numbers stay.
LEMMA TableStays ==
  ASSUME TypeOK, Numbered, UNCHANGED <<created, aged>>
  PROVE  Inserted' = Inserted /\ Numbered'
BY DEF Inserted, Numbered

\* A publisher that keeps its tile set stays apart from the others.
LEMMA ApartStays ==
  ASSUME PublishersApart, NEW p \in Publishers, publisher'[p].ts = publisher[p].ts,
         \A q \in Publishers \ {p} : publisher'[q] = publisher[q]
  PROVE  PublishersApart'
<1> SUFFICES ASSUME NEW q \in Publishers, NEW r \in Publishers,
                    q # r, publisher'[q].ts # NoTileSet
             PROVE  publisher'[q].ts # publisher'[r].ts
  BY DEF PublishersApart
<1>1. publisher'[q].ts = publisher[q].ts /\ publisher'[r].ts = publisher[r].ts
  OBVIOUS
<1> QED BY <1>1 DEF PublishersApart

\* StartPublishing begins with an id that nobody uses.
LEMMA PublisherStarts ==
  ASSUME IInv, NEW p \in Publishers, NEW ts \in TileSets, StartPublishing(p, ts)
  PROVE  TypeOK' /\ Numbered' /\ PublisherOK(p)' /\ PublishersApart' /\ PublisherLeaves(p)
<1> USE DEF IInv
<1>1. publisher' = [publisher EXCEPT ![p] =
        [pc |-> "tiles", ts |-> ts, left |-> TilesOf[ts], seen |-> NoTileSet]]
  BY DEF StartPublishing
<1>2. UNCHANGED <<created, removed, latest, aged, blobs, pointer, cleaner, faults>>
  BY DEF StartPublishing
<1>3. TilesOf[ts] \in SUBSET AllBlobs
  BY DEF AllBlobs, Blobs
<1>4. publisher' \in [Publishers -> PublisherStates]
  BY <1>1, <1>3 DEF TypeOK, PublisherStates
<1>5. TypeOK'
  BY <1>2, <1>4 DEF TypeOK, Inserted, PublisherStates
<1>6. Inserted' = Inserted
  BY <1>2 DEF Inserted
<1>7. publisher'[p] = [pc |-> "tiles", ts |-> ts, left |-> TilesOf[ts], seen |-> NoTileSet]
      /\ \A q \in Publishers \ {p} : publisher'[q] = publisher[q]
  BY <1>1 DEF TypeOK
<1>8. created[ts] = 0
  BY DEF StartPublishing, Inserted
<1>9. PublisherOK(p)'
  BY <1>2, <1>7, <1>8, TileSetsAssumption DEF PublisherOK, PublisherAt
<1>10. PublishersApart'
  <2>1. \A q \in Publishers : publisher[q].ts # ts
    BY DEF StartPublishing
  <2> QED BY <2>1, <1>7 DEF PublishersApart
<1>11. PublisherLeaves(p)
  BY <1>2, <1>6, <1>7 DEF PublisherLeaves
<1> QED BY <1>2, <1>5, <1>6, <1>9, <1>10, <1>11 DEF Numbered

\* UploadTile: a tile of a tile set without a row, which nobody else publishes.
LEMMA TileUploads ==
  ASSUME IInv, NEW p \in Publishers, NEW s \in TileSets, NEW t \in TilesOf[s], UploadTile(p, t)
  PROVE  TypeOK' /\ Numbered' /\ PublisherOK(p)' /\ PublishersApart' /\ PublisherLeaves(p)
<1> USE DEF IInv
<1> DEFINE ts == publisher[p].ts
<1>1. /\ publisher' = [publisher EXCEPT ![p].left = @ \ {t}]
      /\ blobs' = [blobs EXCEPT ![ts] = @ \cup {t}]
      /\ UNCHANGED <<created, removed, latest, aged, pointer, cleaner, faults>>
      /\ PublisherAt(p, "tiles") /\ t \in publisher[p].left
  BY DEF UploadTile, UploadBlob
<1>2. /\ ts \in TileSets /\ ts # NoTileSet /\ created[ts] = 0
      /\ publisher[p].left \subseteq TilesOf[ts]
      /\ TilesOf[ts] \subseteq blobs[ts] \cup publisher[p].left
  BY <1>1, TileSetsAssumption DEF PublisherOK, PublisherAt
<1>3. t \in Blobs(ts) /\ Blobs(ts) \subseteq AllBlobs
  BY <1>1, <1>2 DEF Blobs, AllBlobs
<1>4. /\ blobs' \in [TileSets -> SUBSET AllBlobs]
      /\ blobs'[ts] = blobs[ts] \cup {t}
      /\ \A o \in TileSets \ {ts} : blobs'[o] = blobs[o]
  BY <1>1, <1>2, <1>3 DEF TypeOK
<1>5. /\ publisher' \in [Publishers -> PublisherStates]
      /\ publisher'[p] = [publisher[p] EXCEPT !.left = publisher[p].left \ {t}]
      /\ \A q \in Publishers \ {p} : publisher'[q] = publisher[q]
  BY <1>1 DEF TypeOK, PublisherStates
<1>6. publisher'[p].pc = "tiles" /\ publisher'[p].ts = ts /\ publisher'[p].left = publisher[p].left \ {t}
  BY <1>1, <1>5 DEF TypeOK, PublisherAt
<1>7. Inserted' = Inserted /\ Numbered'
  BY <1>1, TableStays
<1>8. TypeOK'
  BY <1>1, <1>3, <1>4, <1>5, <1>7 DEF TypeOK, PublisherStates
<1>9. PublisherOK(p)'
  BY <1>1, <1>2, <1>4, <1>6 DEF PublisherOK, PublisherAt
<1>10. PublishersApart'
  BY <1>5, <1>6, ApartStays
<1>11. PublisherLeaves(p)
  BY <1>1, <1>2, <1>4, <1>5, <1>7 DEF PublisherLeaves, Inserted
<1> QED BY <1>7, <1>8, <1>9, <1>10, <1>11

\* UploadManifest: the last blob, after which the tile set is whole.
LEMMA ManifestUploads ==
  ASSUME IInv, NEW p \in Publishers, UploadManifest(p)
  PROVE  TypeOK' /\ Numbered' /\ PublisherOK(p)' /\ PublishersApart' /\ PublisherLeaves(p)
<1> USE DEF IInv
<1> DEFINE ts == publisher[p].ts
<1>1. /\ PublisherGoto(p, "insert")
      /\ blobs' = [blobs EXCEPT ![ts] = @ \cup {Manifest}]
      /\ UNCHANGED <<created, removed, latest, aged, pointer, cleaner, faults>>
      /\ PublisherAt(p, "tiles") /\ publisher[p].left = {}
  BY DEF UploadManifest, UploadBlob
<1>2. ts \in TileSets /\ ts # NoTileSet /\ created[ts] = 0 /\ TilesOf[ts] \subseteq blobs[ts]
  BY <1>1, TileSetsAssumption DEF PublisherOK, PublisherAt
<1>3. Manifest \in Blobs(ts) /\ Blobs(ts) \subseteq AllBlobs
  BY <1>2 DEF Blobs, AllBlobs
<1>4. /\ blobs' \in [TileSets -> SUBSET AllBlobs]
      /\ blobs'[ts] = blobs[ts] \cup {Manifest}
      /\ \A o \in TileSets \ {ts} : blobs'[o] = blobs[o]
  BY <1>1, <1>2, <1>3 DEF TypeOK
<1>5. /\ publisher' \in [Publishers -> PublisherStates]
      /\ publisher'[p] = [publisher[p] EXCEPT !.pc = "insert"]
      /\ \A q \in Publishers \ {p} : publisher'[q] = publisher[q]
  BY <1>1, PublisherGoes
<1>6. publisher'[p].pc = "insert" /\ publisher'[p].ts = ts
  BY <1>5 DEF TypeOK
<1>7. Inserted' = Inserted /\ Numbered'
  BY <1>1, TableStays
<1>8. TypeOK'
  BY <1>1, <1>3, <1>4, <1>5, <1>7 DEF TypeOK, PublisherStates
<1>9. blobs'[ts] = Blobs(ts)
  BY <1>2, <1>4 DEF TypeOK, Blobs
<1>10. PublisherOK(p)'
  BY <1>1, <1>2, <1>6, <1>9 DEF PublisherOK, PublisherAt, Blobs
<1>11. PublishersApart'
  BY <1>5, <1>6, ApartStays
<1>12. PublisherLeaves(p)
  BY <1>1, <1>2, <1>4, <1>5, <1>7 DEF PublisherLeaves, Inserted
<1> QED BY <1>7, <1>8, <1>10, <1>11, <1>12

\* InsertTileSet: a row for a whole tile set, after all the others.
LEMMA RowInserts ==
  ASSUME IInv, NEW p \in Publishers, InsertTileSet(p)
  PROVE  TypeOK' /\ Numbered' /\ PublisherOK(p)' /\ PublishersApart' /\ PublisherLeaves(p)
<1> USE DEF IInv
<1> DEFINE ts == publisher[p].ts
           n == Cardinality(Inserted) + 1
<1>1. /\ PublisherGoto(p, "promote")
      /\ created' = [created EXCEPT ![ts] = n]
      /\ UNCHANGED <<removed, latest, aged, blobs, pointer, cleaner, faults>>
      /\ PublisherAt(p, "insert")
  BY DEF InsertTileSet
<1>2. ts \in TileSets /\ ts # NoTileSet /\ created[ts] = 0
  BY <1>1, TileSetsAssumption DEF PublisherOK, PublisherAt
<1>3. /\ \A o \in TileSets \ {ts} : created'[o] = created[o]
      /\ created'[ts] = n
      /\ DOMAIN created' = TileSets /\ created' = [o \in TileSets |-> created'[o]]
  BY <1>1, <1>2 DEF TypeOK
<1>4. Inserted' = Inserted \cup {ts} /\ ts \notin Inserted
  BY <1>2, <1>3, RowsCount DEF Inserted
<1>5. Cardinality(Inserted') = n /\ n <= Cardinality(TileSets) /\ n \in Nat
  <2>1. IsFiniteSet(TileSets) /\ Inserted' \subseteq TileSets
    BY TileSetsAssumption DEF Inserted
  <2>2. IsFiniteSet(Inserted') /\ Cardinality(Inserted') <= Cardinality(TileSets)
    BY <2>1, FS_Subset
  <2>3. Cardinality(Inserted') = n
    BY <1>4, RowsCount, FS_AddElement
  <2> QED BY <2>2, <2>3, RowsCount
<1>6. created' \in [TileSets -> 0..Cardinality(TileSets)]
  BY <1>3, <1>5, RowsCount DEF TypeOK
<1>7. /\ publisher' \in [Publishers -> PublisherStates]
      /\ publisher'[p] = [publisher[p] EXCEPT !.pc = "promote"]
      /\ \A q \in Publishers \ {p} : publisher'[q] = publisher[q]
  BY <1>1, PublisherGoes
<1>8. publisher'[p].pc = "promote" /\ publisher'[p].ts = ts
  BY <1>7 DEF TypeOK
<1>9. TypeOK'
  BY <1>1, <1>4, <1>6, <1>7 DEF TypeOK, PublisherStates
<1>10. Numbered'
  <2>1. \A s \in Inserted : created[s] \in Nat /\ created[s] < n /\ created'[s] = created[s]
    BY <1>3, <1>4, RowsCount DEF Numbered, TypeOK, Inserted
  <2>2. \A s \in Inserted' : created'[s] <= Cardinality(Inserted')
    BY <2>1, <1>3, <1>4, <1>5
  <2>3. \A s, t \in Inserted' : created'[s] = created'[t] => s = t
    BY <2>1, <1>3, <1>4, <1>5 DEF Numbered
  <2>4. aged' <= Cardinality(Inserted')
    BY <1>1, <1>5, RowsCount DEF Numbered, TypeOK
  <2> QED BY <2>2, <2>3, <2>4 DEF Numbered
<1>11. n > aged
  BY RowsCount DEF Numbered, TypeOK
<1>12. PublisherOK(p)'
  BY <1>1, <1>2, <1>3, <1>8, <1>11 DEF PublisherOK, PublisherAt
<1>13. PublishersApart'
  BY <1>7, <1>8, ApartStays
<1>14. PublisherLeaves(p)
  BY <1>1, <1>2, <1>3, <1>4, <1>7 DEF PublisherLeaves
<1> QED BY <1>9, <1>10, <1>12, <1>13, <1>14

\* DemoteLatest, PromoteLatest and UploadPointer: the tile set has a row that has not
\* aged, and no blob changes.
LEMMA Promotes ==
  ASSUME IInv, NEW p \in Publishers, DemoteLatest(p) \/ PromoteLatest(p) \/ UploadPointer(p)
  PROVE  TypeOK' /\ Numbered' /\ PublisherOK(p)' /\ PublishersApart' /\ PublisherLeaves(p)
<1> USE DEF IInv
<1> DEFINE ts == publisher[p].ts
<1>1. /\ UNCHANGED <<created, removed, aged, blobs, cleaner, faults>>
      /\ latest' = latest \/ latest' = ts
      /\ pointer' = pointer \/ pointer' = ts
      /\ ~PublisherAt(p, "idle")
      /\ PublisherAt(p, "promote") \/ PublisherAt(p, "commit") \/ PublisherAt(p, "pointer")
  BY DEF DemoteLatest, PromoteLatest, UploadPointer, PublisherAt
<1>2. ts \in TileSets /\ ts # NoTileSet /\ created[ts] > aged
  BY <1>1, TileSetsAssumption DEF PublisherOK, PublisherAt
<1>3. Inserted' = Inserted /\ Numbered' /\ ts \in Inserted
  BY <1>1, <1>2, TableStays DEF Inserted, TypeOK
<1>4. /\ publisher' \in [Publishers -> PublisherStates]
      /\ \A q \in Publishers \ {p} : publisher'[q] = publisher[q]
      /\ \/ publisher'[p].pc = "idle" /\ publisher'[p].ts = NoTileSet
         \/ publisher'[p].pc \in {"commit", "pointer"} /\ publisher'[p].ts = ts
  <2>1. CASE DemoteLatest(p)
    <3>1. publisher' = [publisher EXCEPT ![p].pc = "commit", ![p].seen = latest]
      BY <2>1 DEF DemoteLatest
    <3>2. latest \in TileSets \cup {NoTileSet}
      BY DEF TypeOK, Inserted
    <3>3. publisher \in [Publishers -> PublisherStates]
      BY DEF TypeOK, PublisherStates
    <3>4. /\ publisher'[p] = [publisher[p] EXCEPT !.pc = "commit", !.seen = latest]
          /\ \A q \in Publishers \ {p} : publisher'[q] = publisher[q]
          /\ publisher' = [q \in Publishers |-> publisher'[q]]
      BY <3>1, <3>3
    <3>5. /\ publisher'[p] \in PublisherStates
          /\ publisher'[p].pc = "commit" /\ publisher'[p].ts = ts
      <4>1. publisher[p] \in PublisherStates
        BY <3>3
      <4>2. publisher'[p] = [pc |-> "commit", ts |-> publisher[p].ts,
                             left |-> publisher[p].left, seen |-> latest]
        BY <3>4, <4>1 DEF PublisherStates
      <4> QED BY <3>2, <4>1, <4>2 DEF PublisherStates
    <3>6. publisher' \in [Publishers -> PublisherStates]
      BY <3>3, <3>4, <3>5
    <3> QED BY <3>4, <3>5, <3>6
  <2>2. CASE PromoteLatest(p) \/ UploadPointer(p)
    <3>1. PublisherGoto(p, "pointer") \/ PublisherGoto(p, "idle")
      BY <2>2 DEF PromoteLatest, UploadPointer
    <3>2. CASE PublisherGoto(p, "pointer")
      <4>1. /\ publisher' \in [Publishers -> PublisherStates]
            /\ \A q \in Publishers \ {p} : publisher'[q] = publisher[q]
            /\ publisher'[p] = [publisher[p] EXCEPT !.pc = "pointer"]
        BY <3>2, PublisherGoes
      <4> QED BY <4>1 DEF TypeOK
    <3>3. CASE PublisherGoto(p, "idle")
      <4>1. /\ publisher' \in [Publishers -> PublisherStates]
            /\ \A q \in Publishers \ {p} : publisher'[q] = publisher[q]
            /\ publisher'[p] = IdlePublisher
        BY <3>3, PublisherGoes
      <4> QED BY <4>1 DEF IdlePublisher
    <3> QED BY <3>1, <3>2, <3>3
  <2> QED BY <2>1, <2>2
<1>5. TypeOK'
  BY <1>1, <1>3, <1>4 DEF TypeOK, PublisherStates
<1>6. PublisherOK(p)'
  BY <1>1, <1>2, <1>4 DEF PublisherOK, PublisherAt
<1>7. PublishersApart'
  BY <1>4 DEF PublishersApart
<1>8. PublisherLeaves(p)
  BY <1>1, <1>2, <1>3, <1>4 DEF PublisherLeaves
<1> QED BY <1>3, <1>5, <1>6, <1>7, <1>8

\* PublisherFails: whatever it has done so far stays.
LEMMA PublisherStops ==
  ASSUME IInv, NEW p \in Publishers, PublisherFails(p)
  PROVE  TypeOK' /\ Numbered' /\ PublisherOK(p)' /\ PublishersApart' /\ PublisherLeaves(p)
<1> USE DEF IInv
<1>1. /\ UNCHANGED <<created, removed, latest, aged, blobs, pointer, cleaner>>
      /\ faults' \in 0..MaxFaults
  BY LimitsAssumption DEF PublisherFails, TypeOK
<1>2. Inserted' = Inserted /\ Numbered'
  BY <1>1, TableStays
<1>3. /\ publisher' \in [Publishers -> PublisherStates]
      /\ \A q \in Publishers \ {p} : publisher'[q] = publisher[q]
      /\ publisher'[p] = IdlePublisher
  BY PublisherGoes DEF PublisherFails
<1>4. TypeOK'
  BY <1>1, <1>2, <1>3 DEF TypeOK, PublisherStates
<1>5. PublisherOK(p)'
  BY <1>3 DEF PublisherOK, PublisherAt, IdlePublisher
<1>6. PublishersApart'
  BY <1>3 DEF PublishersApart, IdlePublisher
<1>7. PublisherLeaves(p)
  BY <1>1, <1>2, <1>3 DEF PublisherLeaves
<1> QED BY <1>2, <1>4, <1>5, <1>6, <1>7

\* Every step of a publisher keeps types, leaves the rest alone and keeps its own part.
LEMMA PublisherSteps ==
  ASSUME IInv, NEW p \in Publishers, PublisherActs(p)
  PROVE  TypeOK' /\ Numbered' /\ PublisherOK(p)' /\ PublishersApart' /\ PublisherLeaves(p)
<1>1. CASE \E ts \in TileSets : StartPublishing(p, ts)
  BY <1>1, PublisherStarts
<1>2. CASE \E ts \in TileSets : \E t \in TilesOf[ts] : UploadTile(p, t)
  BY <1>2, TileUploads
<1>3. CASE UploadManifest(p)
  BY <1>3, ManifestUploads
<1>4. CASE InsertTileSet(p)
  BY <1>4, RowInserts
<1>5. CASE DemoteLatest(p) \/ PromoteLatest(p) \/ UploadPointer(p)
  BY <1>5, Promotes
<1>6. CASE PublisherFails(p)
  BY <1>6, PublisherStops
<1> QED BY <1>1, <1>2, <1>3, <1>4, <1>5, <1>6 DEF PublisherActs, PublisherStep

\* What may go still may after any step of a publisher: it promotes nothing old.
LEMMA PublisherSpares ==
  ASSUME IInv, NEW p \in Publishers, PublisherLeaves(p), TypeOK'
  PROVE  \A ts \in Inserted : Expendable(ts) => Expendable(ts)'
<1> USE DEF IInv
<1> SUFFICES ASSUME NEW ts \in Inserted, Expendable(ts) PROVE Expendable(ts)'
  OBVIOUS
<1>1. aged' \in Nat /\ aged <= aged' /\ removed' = removed
  BY DEF PublisherLeaves, TypeOK
<1>2. Inserted' \subseteq TileSets /\ Inserted \subseteq Inserted'
  BY DEF PublisherLeaves, Inserted
<1> QED BY <1>1, <1>2, ExpendableStays DEF PublisherLeaves

\* A publisher keeps the invariant: what it leaves alone is all that the others'
\* parts of the invariant speak of.
LEMMA PublisherKeeps ==
  ASSUME IInv, NEW p \in Publishers, PublisherActs(p)
  PROVE  IInv'
<1>1. TypeOK' /\ Numbered' /\ PublisherOK(p)' /\ PublishersApart' /\ PublisherLeaves(p)
  BY PublisherSteps
<1> USE DEF IInv
<1>2. \A ts \in Inserted : Expendable(ts) => Expendable(ts)'
  BY <1>1, PublisherSpares
<1>3. \A q \in Publishers : PublisherOK(q)'
  <2> SUFFICES ASSUME NEW q \in Publishers \ {p} PROVE PublisherOK(q)'
    BY <1>1
  <2>1. publisher'[q] = publisher[q] /\ aged' = aged
    BY <1>1 DEF PublisherLeaves
  <2>2. CASE PublisherAt(q, "idle")
    BY <2>1, <2>2 DEF PublisherOK, PublisherAt
  <2>3. CASE ~PublisherAt(q, "idle")
    <3>1. publisher[q].ts \in TileSets \ {publisher[p].ts}
      BY <2>3, TileSetsAssumption DEF PublisherOK, PublishersApart
    <3>2. /\ created'[publisher[q].ts] = created[publisher[q].ts]
          /\ blobs'[publisher[q].ts] = blobs[publisher[q].ts]
      BY <3>1, <1>1 DEF PublisherLeaves
    <3> QED BY <2>1, <2>3, <3>1, <3>2 DEF PublisherOK, PublisherAt, Blobs
  <2> QED BY <2>2, <2>3
<1>4. \A c \in Cleaners : CleanerOK(c)'
  <2> SUFFICES ASSUME NEW c \in Cleaners PROVE CleanerOK(c)'
    OBVIOUS
  <2>1. cleaner' = cleaner /\ Inserted \subseteq Inserted'
        /\ \A ts \in Inserted : blobs'[ts] = blobs[ts]
    BY <1>1 DEF PublisherLeaves
  <2> QED BY <1>2, <2>1 DEF CleanerOK, CleanerAt
<1>5. \A ts \in Inserted' \ Inserted : ts \notin removed' /\ blobs'[ts] = Blobs(ts)
  <2> SUFFICES ASSUME NEW ts \in Inserted' \ Inserted
               PROVE  ts \notin removed' /\ blobs'[ts] = Blobs(ts)
    OBVIOUS
  <2>1. InsertTileSet(p) /\ ts = publisher[p].ts
    <3>1. created' # created /\ ts = publisher[p].ts
      BY <1>1 DEF PublisherLeaves, Inserted
    <3> QED BY <3>1 DEF PublisherActs, PublisherStep, StartPublishing, UploadTile,
                        UploadManifest, DemoteLatest, PromoteLatest, UploadPointer, PublisherFails
  <2>2. blobs[ts] = Blobs(ts) /\ blobs' = blobs /\ removed' = removed
    BY <2>1 DEF InsertTileSet, PublisherOK
  <2> QED BY <2>2 DEF TypeOK
<1>6. OnlyExpendableLoseBlobs'
  BY <1>1, <1>2, <1>5 DEF OnlyExpendableLoseBlobs, PublisherLeaves, Blobs
<1>7. RemovedLeavesNothing'
  BY <1>1 DEF RemovedLeavesNothing, PublisherLeaves, TypeOK
<1> QED BY <1>1, <1>3, <1>4, <1>6, <1>7

-----------------------------------------------------------------------------
(* The steps of a cleaner *)

CleanerActs(c) == CleanerStep(c) \/ CleanerFails(c)

CleanerStates ==
  [pc : {"idle", "list", "tiles", "mark"},
   ts : TileSets \cup {NoTileSet}, left : SUBSET AllBlobs, todo : SUBSET TileSets]

\* What a step of a cleaner leaves alone, and the two things it may do: take a blob
\* from, or mark, a tile set that may go.
CleanerLeaves(c) ==
  /\ \A d \in Cleaners \ {c} : cleaner'[d] = cleaner[d]
  /\ UNCHANGED <<created, latest, aged, pointer, publisher>>
  /\ \A ts \in TileSets : blobs'[ts] \subseteq blobs[ts]
  /\ \A ts \in TileSets : blobs'[ts] # blobs[ts] => ts \in Inserted /\ Expendable(ts)
  /\ \/ removed' = removed
     \/ \E r \in Inserted : removed' = removed \cup {r} /\ Expendable(r) /\ blobs[r] = {}

\* SelectCandidates: every candidate may go.
LEMMA Selects ==
  ASSUME IInv, NEW c \in Cleaners, SelectCandidates(c)
  PROVE  TypeOK' /\ CleanerLeaves(c) /\ CleanerOK(c)'
<1> USE DEF IInv
<1>1. /\ UNCHANGED <<created, removed, latest, aged, blobs, pointer, publisher, faults>>
      /\ cleaner' = [cleaner EXCEPT ![c].pc = "list", ![c].todo = Batch]
  BY DEF SelectCandidates
<1>2. \A ts \in Batch : ts \in Inserted /\ Expendable(ts)
  <2> SUFFICES ASSUME NEW ts \in Batch PROVE ts \in Inserted /\ Expendable(ts)
    OBVIOUS
  <2>1. ts \in Inserted /\ Stale(ts)
    BY DEF Batch, Candidates
  <2>2. Cardinality(Newer(ts)) \in Nat
    BY RowsCount
  <2> QED BY <2>1, <2>2, LimitsAssumption DEF Stale, Expendable, TypeOK
<1>3. Batch \in SUBSET TileSets
  BY <1>2 DEF Inserted
<1>4. cleaner[c] \in CleanerStates /\ cleaner \in [Cleaners -> CleanerStates]
  BY DEF TypeOK, CleanerStates
<1>5. /\ cleaner'[c] = [cleaner[c] EXCEPT !.pc = "list", !.todo = Batch]
      /\ \A d \in Cleaners \ {c} : cleaner'[d] = cleaner[d]
      /\ cleaner' = [d \in Cleaners |-> cleaner'[d]]
  BY <1>1, <1>4
<1>6. cleaner'[c] = [pc |-> "list", ts |-> cleaner[c].ts, left |-> cleaner[c].left, todo |-> Batch]
  BY <1>4, <1>5 DEF CleanerStates
<1>7. cleaner'[c] \in CleanerStates
  BY <1>3, <1>4, <1>6 DEF CleanerStates
<1>8. cleaner' \in [Cleaners -> CleanerStates]
  BY <1>4, <1>5, <1>7
<1>9. TypeOK'
  BY <1>1, <1>8 DEF TypeOK, Inserted, CleanerStates
<1>10. CleanerLeaves(c)
  BY <1>1, <1>5 DEF CleanerLeaves
<1>11. \A s \in TileSets : (s \in Inserted /\ Expendable(s)) => (s \in Inserted /\ Expendable(s))'
  BY <1>1 DEF Inserted, Expendable, Newer
<1>12. cleaner'[c].pc = "list" /\ cleaner'[c].todo = Batch
  BY <1>6
<1>13. CleanerOK(c)'
  BY <1>2, <1>3, <1>11, <1>12 DEF CleanerOK, CleanerAt
<1> QED BY <1>9, <1>10, <1>13

\* ListTiles: the listing is complete, and the tile set was selected.
LEMMA Lists ==
  ASSUME IInv, NEW c \in Cleaners, NEW o \in TileSets, ListTiles(c, o)
  PROVE  TypeOK' /\ CleanerLeaves(c) /\ CleanerOK(c)'
<1> USE DEF IInv
<1> DEFINE todo == cleaner[c].todo \ {o}
           skipped == [cleaner[c] EXCEPT !.todo = todo]
           listed == [pc |-> "tiles", ts |-> o, left |-> TileListing(o), todo |-> todo]
<1>1. /\ UNCHANGED <<created, removed, latest, aged, blobs, pointer, publisher, faults>>
      /\ cleaner' = [cleaner EXCEPT ![c] =
           IF Cardinality(TileListing(o)) > TileBlobLimit THEN skipped ELSE listed]
      /\ CleanerAt(c, "list") /\ o \in cleaner[c].todo
  BY DEF ListTiles
<1>2. \A s \in cleaner[c].todo : s \in Inserted /\ Expendable(s)
  BY DEF CleanerOK
<1>3. cleaner[c] \in CleanerStates /\ cleaner \in [Cleaners -> CleanerStates]
  BY DEF TypeOK, CleanerStates
<1>4. /\ cleaner'[c] = skipped \/ cleaner'[c] = listed
      /\ \A d \in Cleaners \ {c} : cleaner'[d] = cleaner[d]
      /\ cleaner' = [d \in Cleaners |-> cleaner'[d]]
  BY <1>1, <1>3
<1>5. skipped = [pc |-> "list", ts |-> cleaner[c].ts, left |-> cleaner[c].left, todo |-> todo]
  BY <1>1, <1>3 DEF CleanerStates, CleanerAt
<1>6. TileListing(o) \in SUBSET AllBlobs /\ todo \in SUBSET TileSets
  BY <1>3 DEF TypeOK, TileListing, CleanerStates
<1>7. skipped \in CleanerStates /\ listed \in CleanerStates
  BY <1>3, <1>5, <1>6 DEF CleanerStates
<1>8. cleaner' \in [Cleaners -> CleanerStates]
  BY <1>3, <1>4, <1>7
<1>9. TypeOK'
  BY <1>1, <1>8 DEF TypeOK, Inserted, CleanerStates
<1>10. CleanerLeaves(c)
  BY <1>1, <1>4 DEF CleanerLeaves
<1>11. \A s \in TileSets : (s \in Inserted /\ Expendable(s)) => (s \in Inserted /\ Expendable(s))'
  BY <1>1 DEF Inserted, Expendable, Newer
<1>12. \A s \in cleaner[c].todo : (s \in Inserted /\ Expendable(s))'
  BY <1>2, <1>11 DEF Inserted
<1>13. CASE cleaner'[c] = skipped
  <2>1. cleaner'[c].pc = "list" /\ cleaner'[c].todo = todo
    BY <1>5, <1>13
  <2> QED BY <1>9, <1>10, <1>12, <2>1 DEF CleanerOK, CleanerAt
<1>14. CASE cleaner'[c] = listed
  <2>1. /\ cleaner'[c].pc = "tiles" /\ cleaner'[c].ts = o
        /\ cleaner'[c].left = TileListing(o) /\ cleaner'[c].todo = todo
    BY <1>14
  <2>2. blobs'[o] \subseteq TileListing(o) \cup {Manifest}
    BY <1>1 DEF TileListing
  <2> QED BY <1>1, <1>9, <1>10, <1>12, <2>1, <2>2 DEF CleanerOK, CleanerAt
<1> QED BY <1>4, <1>9, <1>10, <1>13, <1>14

\* DeleteTile and DeleteManifest: a blob of a tile set that was selected; the manifest
\* goes last, so that nothing is left when the row is marked.
LEMMA BlobGoes ==
  ASSUME IInv, NEW c \in Cleaners,
         DeleteManifest(c) \/ \E s \in TileSets : \E t \in TilesOf[s] : DeleteTile(c, t)
  PROVE  TypeOK' /\ CleanerLeaves(c) /\ CleanerOK(c)'
<1> USE DEF IInv
<1> DEFINE ts == cleaner[c].ts
<1>1. UNCHANGED <<created, removed, latest, aged, pointer, publisher, faults>>
      /\ CleanerAt(c, "tiles")
  BY DEF DeleteManifest, DeleteTile
<1>2. cleaner[c] \in CleanerStates /\ cleaner \in [Cleaners -> CleanerStates]
  BY DEF TypeOK, CleanerStates
<1>3. /\ ts \in Inserted /\ Expendable(ts) /\ ts \in TileSets
      /\ blobs[ts] \subseteq cleaner[c].left \cup {Manifest}
      /\ \A s \in cleaner[c].todo : s \in Inserted /\ Expendable(s)
  BY <1>1 DEF CleanerOK, CleanerAt, Inserted
<1>4. \A s \in TileSets : (s \in Inserted /\ Expendable(s)) => (s \in Inserted /\ Expendable(s))'
  BY <1>1 DEF Inserted, Expendable, Newer
<1>5. CASE DeleteManifest(c)
  <2>1. /\ blobs' = [blobs EXCEPT ![ts] = @ \ {Manifest}]
        /\ cleaner' = [cleaner EXCEPT ![c].pc = "mark"]
        /\ cleaner[c].left = {}
    BY <1>5 DEF DeleteManifest, DeleteBlob, CleanerGoto
  <2>2. /\ cleaner' \in [Cleaners -> CleanerStates]
        /\ \A d \in Cleaners \ {c} : cleaner'[d] = cleaner[d]
        /\ cleaner'[c].pc = "mark" /\ cleaner'[c].ts = ts /\ cleaner'[c].todo = cleaner[c].todo
    BY <1>2, <2>1 DEF CleanerStates
  <2>3. /\ blobs' \in [TileSets -> SUBSET AllBlobs]
        /\ blobs'[ts] = blobs[ts] \ {Manifest}
        /\ \A o \in TileSets \ {ts} : blobs'[o] = blobs[o]
    BY <1>3, <2>1 DEF TypeOK
  <2>4. blobs'[ts] = {}
    BY <1>3, <2>1, <2>3
  <2>5. TypeOK'
    BY <1>1, <2>2, <2>3 DEF TypeOK, Inserted, CleanerStates, Blobs
  <2>6. CleanerLeaves(c)
    BY <1>1, <1>3, <2>2, <2>3 DEF CleanerLeaves
  <2>7. CleanerOK(c)'
    BY <1>3, <1>4, <2>2, <2>4 DEF CleanerOK, CleanerAt, Inserted
  <2> QED BY <2>5, <2>6, <2>7
<1>6. CASE \E s \in TileSets : \E t \in TilesOf[s] : DeleteTile(c, t)
  <2>1. PICK s \in TileSets : \E t \in TilesOf[s] : DeleteTile(c, t)
    BY <1>6
  <2>2. PICK t \in TilesOf[s] : DeleteTile(c, t)
    BY <2>1
  <2>3. /\ blobs' = [blobs EXCEPT ![ts] = @ \ {t}]
        /\ cleaner' = [cleaner EXCEPT ![c].left = @ \ {t}]
    BY <2>2 DEF DeleteTile, DeleteBlob
  <2>4. /\ cleaner' \in [Cleaners -> CleanerStates]
        /\ \A d \in Cleaners \ {c} : cleaner'[d] = cleaner[d]
        /\ cleaner'[c].pc = "tiles" /\ cleaner'[c].ts = ts /\ cleaner'[c].todo = cleaner[c].todo
        /\ cleaner'[c].left = cleaner[c].left \ {t}
    BY <1>1, <1>2, <2>3 DEF CleanerStates, CleanerAt
  <2>5. /\ blobs' \in [TileSets -> SUBSET AllBlobs]
        /\ blobs'[ts] = blobs[ts] \ {t}
        /\ \A o \in TileSets \ {ts} : blobs'[o] = blobs[o]
    BY <1>3, <2>3 DEF TypeOK
  <2>6. TypeOK'
    BY <1>1, <2>4, <2>5 DEF TypeOK, Inserted, CleanerStates, Blobs
  <2>7. CleanerLeaves(c)
    BY <1>1, <1>3, <2>4, <2>5 DEF CleanerLeaves
  <2>8. CleanerOK(c)'
    BY <1>3, <1>4, <2>4, <2>5 DEF CleanerOK, CleanerAt, Inserted
  <2> QED BY <2>6, <2>7, <2>8
<1> QED BY <1>5, <1>6

\* MarkRemoved: a marked row has no blob left, and every other that may go still may.
LEMMA Marks ==
  ASSUME IInv, NEW c \in Cleaners, MarkRemoved(c)
  PROVE  TypeOK' /\ CleanerLeaves(c) /\ CleanerOK(c)'
<1> USE DEF IInv
<1> DEFINE r == cleaner[c].ts
<1>1. /\ UNCHANGED <<created, latest, aged, blobs, pointer, publisher, faults>>
      /\ CleanerAt(c, "mark")
  BY DEF MarkRemoved
<1>2. /\ r \in Inserted /\ Expendable(r) /\ blobs[r] = {}
      /\ \A s \in cleaner[c].todo : s \in Inserted /\ Expendable(s)
  BY <1>1 DEF CleanerOK, CleanerAt
<1>3. cleaner[c] \in CleanerStates /\ cleaner \in [Cleaners -> CleanerStates]
  BY DEF TypeOK, CleanerStates
<1>4. Inserted' = Inserted
  BY <1>1 DEF Inserted
<1>5. CASE /\ removed' = removed \cup {r}
           /\ cleaner' = [cleaner EXCEPT ![c].pc = "list", ![c].ts = NoTileSet]
  <2>1. /\ cleaner'[c] = [cleaner[c] EXCEPT !.pc = "list", !.ts = NoTileSet]
        /\ \A d \in Cleaners \ {c} : cleaner'[d] = cleaner[d]
        /\ cleaner' = [d \in Cleaners |-> cleaner'[d]]
    BY <1>3, <1>5
  <2>2. cleaner'[c] = [pc |-> "list", ts |-> NoTileSet, left |-> cleaner[c].left, todo |-> cleaner[c].todo]
    BY <1>3, <2>1 DEF CleanerStates
  <2>3. cleaner'[c] \in CleanerStates
    BY <1>3, <2>2 DEF CleanerStates
  <2>4. cleaner' \in [Cleaners -> CleanerStates]
    BY <1>3, <2>1, <2>3
  <2>5. TypeOK'
    BY <1>1, <1>2, <1>4, <1>5, <2>4 DEF TypeOK, CleanerStates
  <2>6. CleanerLeaves(c)
    BY <1>1, <1>2, <1>5, <2>1 DEF CleanerLeaves
  <2>7. \A s \in cleaner[c].todo : s \in Inserted' /\ Expendable(s)'
    BY <1>1, <1>2, <1>4, <1>5, RemovalSparesOthers
  <2>8. CleanerOK(c)'
    BY <2>2, <2>7 DEF CleanerOK, CleanerAt
  <2> QED BY <2>5, <2>6, <2>8
<1>6. CASE UNCHANGED removed /\ cleaner' = [cleaner EXCEPT ![c] = IdleCleaner]
  <2>1. /\ cleaner' \in [Cleaners -> CleanerStates] /\ cleaner'[c] = IdleCleaner
        /\ \A d \in Cleaners \ {c} : cleaner'[d] = cleaner[d]
    BY <1>3, <1>6 DEF CleanerStates, IdleCleaner
  <2>2. TypeOK'
    BY <1>1, <1>4, <1>6, <2>1 DEF TypeOK, CleanerStates
  <2>3. CleanerLeaves(c)
    BY <1>1, <1>6, <2>1 DEF CleanerLeaves
  <2>4. CleanerOK(c)'
    BY <2>1 DEF CleanerOK, CleanerAt, IdleCleaner
  <2> QED BY <2>2, <2>3, <2>4
<1> QED BY <1>5, <1>6 DEF MarkRemoved

\* FinishCleanup and CleanerFails: what was not done is left to the next cleanup.
LEMMA CleanerStops ==
  ASSUME IInv, NEW c \in Cleaners, FinishCleanup(c) \/ CleanerFails(c)
  PROVE  TypeOK' /\ CleanerLeaves(c) /\ CleanerOK(c)'
<1> USE DEF IInv
<1>1. /\ UNCHANGED <<created, removed, latest, aged, blobs, pointer, publisher>>
      /\ cleaner' = [cleaner EXCEPT ![c] = IdleCleaner]
      /\ faults' \in 0..MaxFaults
  BY LimitsAssumption DEF FinishCleanup, CleanerFails, TypeOK
<1>2. cleaner \in [Cleaners -> CleanerStates]
  BY DEF TypeOK, CleanerStates
<1>3. /\ cleaner' \in [Cleaners -> CleanerStates] /\ cleaner'[c] = IdleCleaner
      /\ \A d \in Cleaners \ {c} : cleaner'[d] = cleaner[d]
  BY <1>1, <1>2 DEF CleanerStates, IdleCleaner
<1>4. TypeOK'
  BY <1>1, <1>3 DEF TypeOK, Inserted, CleanerStates
<1>5. CleanerLeaves(c)
  BY <1>1, <1>3 DEF CleanerLeaves
<1>6. CleanerOK(c)'
  BY <1>3 DEF CleanerOK, CleanerAt, IdleCleaner
<1> QED BY <1>4, <1>5, <1>6

\* Every step of a cleaner keeps types, leaves the rest alone and keeps its own part.
LEMMA CleanerSteps ==
  ASSUME IInv, NEW c \in Cleaners, CleanerActs(c)
  PROVE  TypeOK' /\ CleanerLeaves(c) /\ CleanerOK(c)'
<1>1. CASE SelectCandidates(c)
  BY <1>1, Selects
<1>2. CASE \E ts \in TileSets : ListTiles(c, ts)
  BY <1>2, Lists
<1>3. CASE DeleteManifest(c) \/ \E s \in TileSets : \E t \in TilesOf[s] : DeleteTile(c, t)
  BY <1>3, BlobGoes
<1>4. CASE MarkRemoved(c)
  BY <1>4, Marks
<1>5. CASE FinishCleanup(c) \/ CleanerFails(c)
  BY <1>5, CleanerStops
<1> QED BY <1>1, <1>2, <1>3, <1>4, <1>5 DEF CleanerActs, CleanerStep

\* What may go still may after any step of a cleaner, so that cleaners at work at the
\* same time do not together remove what each of them alone would keep.
LEMMA CleanerSpares ==
  ASSUME IInv, NEW c \in Cleaners, CleanerLeaves(c)
  PROVE  Inserted' = Inserted /\ \A ts \in Inserted : Expendable(ts) => Expendable(ts)'
<1> USE DEF IInv
<1>1. UNCHANGED <<created, latest, aged>>
  BY DEF CleanerLeaves
<1>2. Inserted' = Inserted
  BY <1>1 DEF Inserted
<1>3. CASE removed' = removed
  BY <1>1, <1>2, <1>3 DEF Expendable, Newer
<1>4. CASE \E r \in Inserted : removed' = removed \cup {r} /\ Expendable(r) /\ blobs[r] = {}
  BY <1>1, <1>2, <1>4, RemovalSparesOthers
<1> QED BY <1>2, <1>3, <1>4 DEF CleanerLeaves

\* A cleaner keeps the invariant: publishers hold tile sets that are not expendable,
\* or have no row, and whatever others have in hand may still go.
LEMMA CleanerKeeps ==
  ASSUME IInv, NEW c \in Cleaners, CleanerActs(c)
  PROVE  IInv'
<1>1. TypeOK' /\ CleanerLeaves(c) /\ CleanerOK(c)'
  BY CleanerSteps
<1>2. Inserted' = Inserted /\ \A ts \in Inserted : Expendable(ts) => Expendable(ts)'
  BY <1>1, CleanerSpares
<1> USE DEF IInv
<1>3. /\ UNCHANGED <<created, latest, aged, publisher>>
      /\ \A ts \in TileSets : blobs'[ts] \subseteq blobs[ts]
      /\ \A ts \in TileSets : blobs'[ts] # blobs[ts] => ts \in Inserted /\ Expendable(ts)
      /\ \A d \in Cleaners \ {c} : cleaner'[d] = cleaner[d]
  BY <1>1 DEF CleanerLeaves
<1>4. Numbered'
  BY <1>3, TableStays
<1>5. PublishersApart'
  BY <1>3 DEF PublishersApart
<1>6. \A p \in Publishers : PublisherOK(p)'
  <2> SUFFICES ASSUME NEW p \in Publishers PROVE PublisherOK(p)'
    OBVIOUS
  <2>1. CASE PublisherAt(p, "tiles") \/ PublisherAt(p, "insert")
    <3>1. publisher[p].ts \in TileSets /\ created[publisher[p].ts] = 0
      BY <2>1 DEF PublisherOK, PublisherAt
    <3>2. blobs'[publisher[p].ts] = blobs[publisher[p].ts]
      BY <1>3, <3>1 DEF Inserted
    <3> QED BY <1>3, <2>1, <3>1, <3>2 DEF PublisherOK, PublisherAt, Blobs
  <2>2. CASE ~(PublisherAt(p, "tiles") \/ PublisherAt(p, "insert"))
    BY <1>3, <2>2 DEF PublisherOK, PublisherAt
  <2> QED BY <2>1, <2>2
<1>7. \A d \in Cleaners : CleanerOK(d)'
  <2> SUFFICES ASSUME NEW d \in Cleaners \ {c} PROVE CleanerOK(d)'
    BY <1>1
  <2>1. cleaner'[d] = cleaner[d]
    BY <1>3
  <2>2. \A ts \in Inserted : blobs'[ts] \subseteq blobs[ts]
    BY <1>3 DEF Inserted
  <2> QED BY <1>2, <2>1, <2>2 DEF CleanerOK, CleanerAt
<1>8. OnlyExpendableLoseBlobs'
  <2> SUFFICES ASSUME NEW ts \in Inserted', ts \in removed' \/ blobs'[ts] # Blobs(ts)
               PROVE  Expendable(ts)'
    BY DEF OnlyExpendableLoseBlobs, Blobs
  <2>1. ts \in Inserted /\ ts \in TileSets
    BY <1>2 DEF Inserted
  <2>2. Expendable(ts)
    <3>1. CASE ts \in removed \/ blobs[ts] # Blobs(ts)
      BY <2>1, <3>1 DEF OnlyExpendableLoseBlobs
    <3>2. CASE blobs'[ts] # blobs[ts]
      BY <1>3, <2>1, <3>2
    <3>3. CASE ts \in removed' /\ ts \notin removed
      BY <1>1, <3>3 DEF CleanerLeaves
    <3> QED BY <3>1, <3>2, <3>3
  <2> QED BY <1>2, <2>1, <2>2
<1>9. RemovedLeavesNothing'
  <2> SUFFICES ASSUME NEW ts \in removed' PROVE blobs'[ts] = {}
    BY DEF RemovedLeavesNothing
  <2>1. ts \in TileSets
    BY <1>1, <1>2 DEF TypeOK, Inserted
  <2>2. blobs[ts] = {}
    BY <1>1 DEF CleanerLeaves, RemovedLeavesNothing
  <2> QED BY <1>3, <2>1, <2>2
<1> QED BY <1>1, <1>4, <1>5, <1>6, <1>7, <1>8, <1>9

-----------------------------------------------------------------------------
(* Time *)

\* What may go still may when another row grows old.
LEMMA AgeSpares ==
  ASSUME IInv, Age
  PROVE  Inserted' = Inserted /\ \A ts \in Inserted : Expendable(ts) => Expendable(ts)'
<1>1. UNCHANGED <<created, removed, latest>> /\ aged' = aged + 1 /\ aged \in Nat
  BY DEF Age, IInv, TypeOK
<1>2. Inserted' = Inserted /\ Inserted' \subseteq TileSets
  BY <1>1 DEF Inserted
<1>3. aged' \in Nat /\ aged <= aged'
  BY <1>1
<1> QED BY <1>1, <1>2, <1>3, ExpendableStays DEF IInv

\* Age: no row that a publication in progress holds grows old.
LEMMA AgeKeeps ==
  ASSUME IInv, Age
  PROVE  IInv'
<1> USE DEF IInv
<1>1. /\ UNCHANGED <<created, removed, latest, blobs, pointer, publisher, cleaner, faults>>
      /\ aged' = aged + 1
  BY DEF Age
<1>2. PICK o \in Inserted : created[o] = aged + 1 /\ \A p \in Publishers : publisher[p].ts # o
  BY DEF Age
<1>3. Inserted' = Inserted
  BY <1>1 DEF Inserted
<1>4. aged + 1 <= Cardinality(Inserted) /\ aged \in Nat
  BY <1>2 DEF Numbered, TypeOK
<1>5. aged' \in 0..Cardinality(TileSets) /\ Numbered'
  BY <1>1, <1>3, <1>4, RowsCount DEF Numbered
<1>6. TypeOK'
  BY <1>1, <1>3, <1>5 DEF TypeOK
<1>7. \A ts \in Inserted : Expendable(ts) => Expendable(ts)'
  BY AgeSpares
<1>8. \A p \in Publishers : PublisherOK(p)'
  <2> SUFFICES ASSUME NEW p \in Publishers PROVE PublisherOK(p)'
    OBVIOUS
  <2>1. CASE PublisherAt(p, "promote") \/ PublisherAt(p, "commit") \/ PublisherAt(p, "pointer")
    <3>1. publisher[p].ts \in TileSets /\ created[publisher[p].ts] > aged
      BY <2>1 DEF PublisherOK, PublisherAt
    <3>2. created[publisher[p].ts] \in Nat /\ publisher[p].ts \in Inserted
      BY <1>4, <3>1 DEF TypeOK, Inserted
    <3>3. created[publisher[p].ts] # aged + 1
      BY <1>2, <3>2 DEF Numbered
    <3>4. created[publisher[p].ts] > aged + 1
      BY <1>4, <3>1, <3>2, <3>3
    <3> QED BY <1>1, <2>1, <3>4 DEF PublisherOK, PublisherAt
  <2>2. CASE ~(PublisherAt(p, "promote") \/ PublisherAt(p, "commit") \/ PublisherAt(p, "pointer"))
    BY <1>1, <2>2 DEF PublisherOK, PublisherAt, Blobs
  <2> QED BY <2>1, <2>2
<1>9. PublishersApart'
  BY <1>1 DEF PublishersApart
<1>10. \A c \in Cleaners : CleanerOK(c)'
  BY <1>1, <1>3, <1>7 DEF CleanerOK, CleanerAt
<1>11. OnlyExpendableLoseBlobs'
  BY <1>1, <1>3, <1>7 DEF OnlyExpendableLoseBlobs, Blobs
<1>12. RemovedLeavesNothing'
  BY <1>1 DEF RemovedLeavesNothing
<1> QED BY <1>5, <1>6, <1>8, <1>9, <1>10, <1>11, <1>12

-----------------------------------------------------------------------------
(* Theorems of the specification *)

\* Nothing is published at first.
LEMMA InitOK ==
  ASSUME Init
  PROVE  IInv
<1>1. Inserted = {}
  BY DEF Init, Inserted
<1>2. created \in [TileSets -> 0..Cardinality(TileSets)] /\ 0 \in 0..Cardinality(TileSets)
  BY RowsCount DEF Init
<1>3. TypeOK
  BY <1>1, <1>2, LimitsAssumption DEF Init, TypeOK, IdlePublisher, IdleCleaner
<1>4. Numbered
  BY <1>1, RowsCount DEF Init, Numbered
<1>5. \A p \in Publishers : PublisherOK(p)
  BY DEF Init, PublisherOK, PublisherAt, IdlePublisher
<1>6. PublishersApart
  BY DEF Init, PublishersApart, IdlePublisher
<1>7. \A c \in Cleaners : CleanerOK(c)
  BY DEF Init, CleanerOK, CleanerAt, IdleCleaner
<1>8. OnlyExpendableLoseBlobs /\ RemovedLeavesNothing
  BY <1>1 DEF Init, OnlyExpendableLoseBlobs, RemovedLeavesNothing
<1> QED BY <1>3, <1>4, <1>5, <1>6, <1>7, <1>8 DEF IInv

\* Every step is one of a publisher, of a cleaner or of time.
LEMMA StepsActs ==
  ASSUME Next
  PROVE  \/ \E p \in Publishers : PublisherActs(p)
         \/ \E c \in Cleaners : CleanerActs(c)
         \/ Age
BY DEF Next, PublisherActs, CleanerActs

\* The inductive invariant is one.
THEOREM Retaining == Spec => []IInv
<1>1. Init => IInv
  BY InitOK
<1>2. IInv /\ [Next]_vars => IInv'
  <2> SUFFICES ASSUME IInv, [Next]_vars PROVE IInv'
    OBVIOUS
  <2>1. CASE Next
    BY <2>1, StepsActs, PublisherKeeps, CleanerKeeps, AgeKeeps
  <2>2. CASE UNCHANGED vars
    <3>1. TypeOK' /\ Numbered' /\ PublishersApart'
      BY <2>2 DEF IInv, vars, TypeOK, Numbered, PublishersApart, Inserted
    <3>2. Inserted' = Inserted /\ \A ts : Expendable(ts) => Expendable(ts)'
      BY <2>2 DEF vars, Inserted, Expendable, Newer
    <3>3. \A p \in Publishers : PublisherOK(p)'
      BY <2>2 DEF IInv, vars, PublisherOK, PublisherAt, Blobs
    <3>4. \A c \in Cleaners : CleanerOK(c)'
      BY <2>2, <3>2 DEF IInv, vars, CleanerOK, CleanerAt
    <3>5. OnlyExpendableLoseBlobs' /\ RemovedLeavesNothing'
      BY <2>2, <3>2 DEF IInv, vars, OnlyExpendableLoseBlobs, RemovedLeavesNothing, Blobs
    <3> QED BY <3>1, <3>3, <3>4, <3>5 DEF IInv
  <2> QED BY <2>1, <2>2
<1> QED BY <1>1, <1>2, PTL DEF Spec

\* Types: in particular, only tile sets with a row are latest, named by the pointer
\* or marked as removed.
THEOREM Typing == Spec => []TypeOK
<1>1. IInv => TypeOK
  BY DEF IInv
<1> QED BY <1>1, Retaining, PTL

\* "Latest plus two prior tile sets per classification version are protected", from
\* any number of cleanups at the same time and whatever is published meanwhile.
THEOREM ExpendableOnly == Spec => []OnlyExpendableLoseBlobs
<1>1. IInv => OnlyExpendableLoseBlobs
  BY DEF IInv
<1> QED BY <1>1, Retaining, PTL

\* No cleanup leaves a blob behind that no later cleanup would find, whatever fails.
THEOREM RemovedIsGone == Spec => []RemovedLeavesNothing
<1>1. IInv => RemovedLeavesNothing
  BY DEF IInv
<1> QED BY <1>1, Retaining, PTL

-----------------------------------------------------------------------------
(* Publishers and cleaners implement the catalogue *)

\* Both modules count with the operator of FiniteSets.
LEMMA SameCardinality == \A S : Catalog!Cardinality(S) = Cardinality(S)
BY DEF Catalog!Cardinality, Cardinality

\* The catalogue counts rows and protected tile sets as the table does.
LEMMA CatalogReads ==
  ASSUME IInv
  PROVE  /\ Catalog!Entered = Inserted
         /\ \A ts \in Inserted : Expendable(ts) => Catalog!Expendable(ts)
<1>1. Catalog!Entered = Inserted
  BY DEF Catalog!Entered, Inserted
<1>2. \A ts : Catalog!Newer(ts) = Newer(ts)
  BY <1>1 DEF Catalog!Newer, Newer
<1>3. \A ts \in Inserted : Expendable(ts) => created[ts] \in 1..aged
  BY DEF IInv, TypeOK, Inserted, Expendable
<1> QED BY <1>1, <1>2, <1>3, SameCardinality DEF Catalog!Expendable, Expendable

Whole == {ts \in Inserted : blobs[ts] = Blobs(ts)}

\* A publisher enters its tile set whole, promotes it while it is whole, or takes a
\* step that the catalogue does not show.
LEMMA PublisherImplements ==
  ASSUME IInv, NEW p \in Publishers, PublisherActs(p)
  PROVE  [Catalog!Next]_(Catalog!vars)
<1> DEFINE ts == publisher[p].ts
<1>1. PublisherLeaves(p)
  BY PublisherSteps
<1>2. CASE InsertTileSet(p)
  <2>1. /\ ts \in TileSets /\ created[ts] = 0 /\ blobs[ts] = Blobs(ts)
        /\ created' = [created EXCEPT ![ts] = Cardinality(Inserted) + 1]
        /\ UNCHANGED <<removed, latest, aged, blobs>>
    BY <1>2 DEF InsertTileSet, IInv, PublisherOK, PublisherAt
  <2>2. Inserted' = Inserted \cup {ts}
    <3>1. created'[ts] # 0 /\ \A o \in TileSets \ {ts} : created'[o] = created[o]
      BY <2>1, RowsCount DEF IInv, TypeOK
    <3> QED BY <2>1, <3>1 DEF Inserted
  <2>3. Whole' = Whole \cup {ts}
    BY <2>1, <2>2 DEF Whole, Blobs
  <2>4. \E s \in TileSets : Catalog!Enter(s)
    BY <2>1, <2>3, CatalogReads, SameCardinality DEF Catalog!Enter, Whole
  <2> QED BY <2>4 DEF Catalog!Next
<1>3. CASE PromoteLatest(p) /\ latest' = ts
  <2>1. /\ ts \in TileSets /\ created[ts] > aged
        /\ UNCHANGED <<created, removed, aged, blobs>>
    BY <1>3 DEF PromoteLatest, IInv, PublisherOK, PublisherAt
  <2>2. ts \in Inserted /\ ~Expendable(ts)
    BY <2>1 DEF IInv, TypeOK, Inserted, Expendable
  <2>3. ts \in Whole
    BY <2>2 DEF IInv, OnlyExpendableLoseBlobs, Whole
  <2>4. Whole' = Whole
    BY <2>1 DEF Whole, Blobs, Inserted
  <2>5. Catalog!Promote(ts)
    BY <1>3, <2>1, <2>3, <2>4 DEF Catalog!Promote, Whole
  <2> QED BY <2>1, <2>5 DEF Catalog!Next
<1>4. CASE ~InsertTileSet(p) /\ ~(PromoteLatest(p) /\ latest' = ts)
  <2>1. UNCHANGED <<created, removed, latest, aged>>
    BY <1>4 DEF PublisherActs, PublisherStep, StartPublishing, UploadTile, UploadManifest,
                DemoteLatest, PromoteLatest, UploadPointer, PublisherFails
  <2>2. Inserted' = Inserted
    BY <2>1 DEF Inserted
  <2>3. Whole' = Whole
    BY <1>1, <2>2 DEF PublisherLeaves, Whole, Blobs
  <2> QED BY <2>1, <2>3 DEF Catalog!vars, Whole
<1> QED BY <1>2, <1>3, <1>4

\* A cleaner withdraws a tile set with its first blob, removes it once nothing is
\* left, or takes a step that the catalogue does not show.
LEMMA CleanerImplements ==
  ASSUME IInv, NEW c \in Cleaners, CleanerActs(c)
  PROVE  [Catalog!Next]_(Catalog!vars)
<1>1. CleanerLeaves(c) /\ Inserted' = Inserted
  BY CleanerSteps, CleanerSpares
<1>2. UNCHANGED <<created, latest, aged>>
  BY <1>1 DEF CleanerLeaves
<1>3. CASE DeleteManifest(c) \/ \E s \in TileSets : \E t \in TilesOf[s] : DeleteTile(c, t)
  <2> DEFINE ts == cleaner[c].ts
  <2>1. ts \in Inserted /\ ts \in TileSets /\ Expendable(ts) /\ removed' = removed
    BY <1>3 DEF DeleteManifest, DeleteTile, IInv, CleanerOK, CleanerAt, Inserted
  <2>2. PICK b : blobs' = [blobs EXCEPT ![ts] = @ \ {b}]
    BY <1>3 DEF DeleteManifest, DeleteTile, DeleteBlob
  <2>3. /\ blobs'[ts] = blobs[ts] \ {b}
        /\ \A o \in TileSets \ {ts} : blobs'[o] = blobs[o]
    BY <2>1, <2>2 DEF IInv, TypeOK
  <2>4. blobs[ts] \subseteq Blobs(ts)
    BY <2>1 DEF IInv, TypeOK
  <2>5. CASE blobs'[ts] = blobs[ts]
    <3>1. Whole' = Whole
      BY <1>1, <2>3, <2>5 DEF Whole, Blobs, Inserted
    <3> QED BY <1>2, <2>1, <3>1 DEF Catalog!vars, Whole
  <2>6. CASE blobs'[ts] # blobs[ts] /\ ts \notin Whole
    <3>1. blobs'[ts] # Blobs(ts)
      BY <2>3, <2>4, <2>6
    <3>2. Whole' = Whole
      BY <1>1, <2>1, <2>3, <2>6, <3>1 DEF Whole, Blobs, Inserted
    <3> QED BY <1>2, <2>1, <3>2 DEF Catalog!vars, Whole
  <2>7. CASE blobs'[ts] # blobs[ts] /\ ts \in Whole
    <3>1. blobs'[ts] # Blobs(ts)
      BY <2>7 DEF Whole
    <3>2. Whole' = Whole \ {ts}
      BY <1>1, <2>1, <2>3, <3>1 DEF Whole, Blobs, Inserted
    <3>3. \E s \in TileSets : Catalog!Withdraw(s)
      BY <1>2, <2>1, <2>7, <3>2, CatalogReads DEF Catalog!Withdraw, Whole
    <3> QED BY <3>3 DEF Catalog!Next
  <2> QED BY <2>5, <2>6, <2>7
<1>4. CASE MarkRemoved(c)
  <2> DEFINE ts == cleaner[c].ts
  <2>1. /\ ts \in Inserted /\ ts \in TileSets /\ Expendable(ts) /\ blobs[ts] = {}
        /\ blobs' = blobs
        /\ removed' = removed \/ (ts \notin removed /\ removed' = removed \cup {ts})
    BY <1>4 DEF MarkRemoved, IInv, CleanerOK, CleanerAt, Inserted
  <2>2. ts \notin Whole /\ Whole' = Whole
    BY <1>1, <2>1 DEF Whole, Blobs
  <2>3. CASE removed' = removed
    BY <1>2, <2>2, <2>3 DEF Catalog!vars, Whole
  <2>4. CASE ts \notin removed /\ removed' = removed \cup {ts}
    <3>1. Catalog!Remove(ts)
      BY <1>2, <2>1, <2>2, <2>4, CatalogReads DEF Catalog!Remove, Whole
    <3> QED BY <2>1, <3>1 DEF Catalog!Next
  <2> QED BY <2>1, <2>3, <2>4
<1>5. CASE \/ SelectCandidates(c) \/ FinishCleanup(c) \/ CleanerFails(c)
           \/ \E ts \in TileSets : ListTiles(c, ts)
  <2>1. UNCHANGED <<removed, blobs>>
    BY <1>5 DEF SelectCandidates, FinishCleanup, CleanerFails, ListTiles
  <2>2. Whole' = Whole
    BY <1>1, <2>1 DEF Whole, Blobs
  <2> QED BY <1>2, <2>1, <2>2 DEF Catalog!vars, Whole
<1> QED BY <1>3, <1>4, <1>5 DEF CleanerActs, CleanerStep

\* Time passes in the catalogue as it does for the cleanup.
LEMMA AgeImplements ==
  ASSUME IInv, Age
  PROVE  Catalog!Age
<1>1. UNCHANGED <<created, removed, latest, blobs>> /\ aged' = aged + 1
  BY DEF Age
<1>2. \E ts \in TileSets : created[ts] = aged + 1
  BY DEF Age, Inserted
<1>3. Whole' = Whole
  BY <1>1 DEF Whole, Blobs, Inserted
<1> QED BY <1>1, <1>2, <1>3 DEF Catalog!Age, Whole

\* Clients see a catalogue of whole tile sets: what publishers and cleaners do to the
\* table and to the container, one request at a time, is a behaviour of TileCatalog.
THEOREM Implements == Spec => ImplementsCatalog
<1>1. Init => Catalog!Init
  BY DEF Init, Catalog!Init, Inserted
<1>2. IInv /\ [Next]_vars => [Catalog!Next]_(Catalog!vars)
  <2> SUFFICES ASSUME IInv, [Next]_vars PROVE [Catalog!Next]_(Catalog!vars)
    OBVIOUS
  <2>1. CASE Next
    BY <2>1, StepsActs, PublisherImplements, CleanerImplements, AgeImplements DEF Catalog!Next
  <2>2. CASE UNCHANGED vars
    BY <2>2 DEF vars, Catalog!vars, Inserted, Blobs
  <2> QED BY <2>1, <2>2
<1> QED BY <1>1, <1>2, Retaining, PTL DEF Spec, ImplementsCatalog, Catalog!Spec

-----------------------------------------------------------------------------
(* Clients: the inductive invariant *)

ReadStates ==
  [pc : {"idle", "manifest", "answered", "failed", "redirected", "fetched"},
   route : {"none", "latest", "by_id", "redirect"},
   ts : TileSets \cup {NoTileSet}, tile : Tiles \cup {NoTile},
   status : {0, 200, 302, 400, 404, 503}]
WalkStates ==
  [pc : {"idle", "page", "done"}, offset : Nat, seen : SUBSET TileSets,
   listed : SUBSET TileSets, removed : SUBSET TileSets, latest : TileSets \cup {NoTileSet}]

\* A client is turned away only from what may go.
Served(r) ==
  \/ /\ r.pc = "answered" /\ r.ts # NoTileSet
     /\ r.tile \in TilesOf[r.ts] \cup {NoTile} /\ r.status # 200
  \/ r.pc = "fetched" /\ r.status # 200
  => Expendable(r.ts)

\* What a client asks for has a row, and a redirect leads to a tile of it.
ReadOK(r) ==
  /\ r \in ReadStates
  /\ r.ts \in Inserted \cup {NoTileSet}
  /\ r.route = "redirect" => r.tile \in Tiles
  /\ r.pc \in {"redirected", "fetched"} => r.ts \in Inserted /\ r.tile \in TilesOf[r.ts]
  /\ Served(r)

\* Nobody is about to promote ts: what was latest once is never made latest again.
Unpromoted(p) == publisher[p].pc \in {"tiles", "insert", "promote", "commit"}
Settled(ts) ==
  /\ ts \in Inserted \cup {NoTileSet}
  /\ \A p \in Publishers : Unpromoted(p) => publisher[p].ts # ts

\* The number of rows listed before ts.
Place(ts) == Cardinality({o \in Listed : ListedBefore(o, ts)})

\* A walk has passed nothing that it has not seen, as long as no row was removed or
\* promoted; both are for good.
Undisturbed(w) == w.removed = removed /\ w.latest = latest
WalkOK(w) ==
  /\ w \in WalkStates
  /\ Settled(w.latest)
  /\ w.removed \subseteq removed
  /\ w.listed \subseteq Inserted
  /\ Undisturbed(w) =>
       /\ w.listed \subseteq Listed
       /\ w.pc = "page" => \A ts \in w.listed \ w.seen : Place(ts) >= w.offset
       /\ w.pc = "done" => w.listed \subseteq w.seen

ReadsInv ==
  /\ IInv
  /\ Settled(latest)
  /\ read \in [Clients -> ReadStates] /\ walk \in [Clients -> WalkStates]
  /\ \A c \in Clients : ReadOK(read[c]) /\ WalkOK(walk[c])

-----------------------------------------------------------------------------
(* The list of tile sets and its pages *)

Order == {p \in Listed \X Listed : ListedBefore(p[1], p[2])}

\* ORDER BY leaves no ties: created_at tells apart what the rest does not.
LEMMA ListIsOrdered ==
  ASSUME IInv
  PROVE  /\ IsFiniteSet(Listed) /\ OrdersStrictly(Order, Listed)
         /\ \A ts \in Listed : Place(ts) = Rank(ts, Listed, Order)
<1>1. Listed \subseteq Inserted /\ Listed \subseteq TileSets /\ IsFiniteSet(Listed)
  BY TileSetsAssumption, FS_Subset DEF Listed, Inserted
<1>2. \A ts \in Listed : created[ts] \in Nat /\ DatasetDate[ts] \in Nat
  BY <1>1, ReadsAssumption DEF IInv, TypeOK
<1>3. \A s, t \in Listed : created[s] = created[t] => s = t
  BY <1>1 DEF IInv, Numbered
<1>4. OrdersStrictly(Order, Listed)
  <2>1. \A x \in Listed : ~ListedBefore(x, x)
    BY <1>2 DEF ListedBefore
  <2>2. \A x, y, z \in Listed : ListedBefore(x, y) /\ ListedBefore(y, z) => ListedBefore(x, z)
    BY <1>2 DEF ListedBefore
  <2>3. \A x, y \in Listed : x # y => ListedBefore(x, y) \/ ListedBefore(y, x)
    BY <1>2, <1>3 DEF ListedBefore
  <2>4. \A x, y \in Listed : <<x, y>> \in Order <=> ListedBefore(x, y)
    BY DEF Order
  <2> QED BY <2>1, <2>2, <2>3, <2>4 DEF OrdersStrictly
<1>5. \A ts \in Listed : {o \in Listed : ListedBefore(o, ts)} = Before(ts, Listed, Order)
  BY DEF Before, Order
<1> QED BY <1>1, <1>4, <1>5 DEF Place, Rank

\* list_tile_sets and paged_response: a page shows the rows at its places, and the
\* one row too many is there whenever a further page is.
LEMMA PageShows ==
  ASSUME IInv, NEW offset \in Nat
  PROVE  /\ Page(offset) \subseteq Listed
         /\ \A ts \in Listed : Place(ts) \in Nat
         /\ \A ts \in Listed :
              Place(ts) >= offset /\ Place(ts) < offset + PageLimit => ts \in Page(offset)
         /\ ~(Cardinality(Rows(offset)) > PageLimit) =>
              \A ts \in Listed : Place(ts) < offset + PageLimit
<1> DEFINE between(a, b) == Between(a, b, Listed, Order)
<1>1. PageLimit \in Nat /\ PageLimit > 0
  BY ReadsAssumption
<1>2. Rows(offset) = {x \in Listed : Place(x) \in offset..(offset + PageLimit)}
  BY DEF Rows, Place
<1>3. \A ts \in Listed : Place(ts) \in 0..(Cardinality(Listed) - 1)
  BY ListIsOrdered, RanksApart
<1>4. Cardinality(Listed) \in Nat
  BY ListIsOrdered, FS_CardinalityType
<1>5. ASSUME NEW ts \in Listed, Place(ts) >= offset, Place(ts) < offset + PageLimit
      PROVE  ts \in Page(offset)
  <2> DEFINE earlier == {o \in Rows(offset) : ListedBefore(o, ts)}
  <2>1. Place(ts) \in Nat
    BY <1>3
  <2>2. ASSUME NEW o \in earlier
        PROVE  o \in between(offset, Place(ts))
    <3>1. o \in Listed /\ Place(o) \in Nat /\ Place(o) >= offset
      BY <1>2
    <3>2. <<o, ts>> \in Order
      BY <3>1 DEF Order
    <3>3. Place(o) < Place(ts)
      BY <3>1, <3>2, ListIsOrdered, RanksApart
    <3> QED BY <2>1, <3>1, <3>3, ListIsOrdered DEF Between
  <2>3. /\ IsFiniteSet(between(offset, Place(ts)))
        /\ Cardinality(between(offset, Place(ts))) \in Nat
        /\ Cardinality(between(offset, Place(ts))) <= Place(ts) - offset
    BY <1>5, <2>1, ListIsOrdered, RanksBetween
  <2>4. /\ IsFiniteSet(earlier)
        /\ Cardinality(earlier) <= Cardinality(between(offset, Place(ts)))
    BY <2>2, <2>3, FS_Subset
  <2>5. Cardinality(earlier) \in Nat
    BY <2>4, FS_CardinalityType
  <2>6. Cardinality(earlier) < PageLimit
    BY <1>1, <1>5, <2>1, <2>3, <2>4, <2>5
  <2>7. ts \in Rows(offset)
    BY <1>1, <1>2, <1>5, <2>1
  <2> QED BY <2>6, <2>7 DEF Page
<1>6. ASSUME ~(Cardinality(Rows(offset)) > PageLimit), NEW ts \in Listed
      PROVE  Place(ts) < offset + PageLimit
  <2> SUFFICES ASSUME Place(ts) >= offset + PageLimit PROVE FALSE
    BY <1>1, <1>3
  <2> DEFINE end == offset + PageLimit + 1
  <2>1. end \in Nat /\ offset <= end /\ end <= Cardinality(Listed) /\ end - offset = PageLimit + 1
    BY <1>1, <1>3, <1>4
  <2>2. Rows(offset) = between(offset, end)
    <3>1. end - 1 = offset + PageLimit
      BY <1>1
    <3> HIDE DEF end
    <3> QED BY <1>2, <3>1, ListIsOrdered DEF Between
  <2> HIDE DEF end
  <2>3. Cardinality(between(offset, end)) = end - offset
    BY <2>1, ListIsOrdered, RanksBetween
  <2> QED BY <1>1, <1>6, <2>1, <2>2, <2>3
<1>7. Page(offset) \subseteq Listed
  BY <1>2 DEF Page
<1>8. \A ts \in Listed : Place(ts) \in Nat
  BY <1>3
<1> QED BY <1>5, <1>6, <1>7, <1>8

\* A new row does not move another one to the front.
LEMMA PlacesGrow ==
  ASSUME IInv, IInv', UNCHANGED <<removed, latest>>, Inserted \subseteq Inserted',
         \A ts \in Inserted : created'[ts] = created[ts]
  PROVE  \A ts \in Listed : ts \in Listed' /\ Place(ts)' >= Place(ts)
<1>1. Listed \subseteq Listed'
  BY DEF Listed
<1>2. ASSUME NEW ts \in Listed
      PROVE  Place(ts)' >= Place(ts)
  <2> DEFINE old == {o \in Listed : ListedBefore(o, ts)}
             new == {o \in Listed' : ListedBefore(o, ts)'}
  <2>1. old \subseteq new
    BY <1>1 DEF ListedBefore, Listed
  <2>2. IsFiniteSet(Listed')
    BY TileSetsAssumption, FS_Subset DEF Listed, Inserted
  <2>3. IsFiniteSet(new) /\ IsFiniteSet(old) /\ Cardinality(old) <= Cardinality(new)
    BY <2>1, <2>2, FS_Subset
  <2>4. Cardinality(old) \in Nat /\ Cardinality(new) \in Nat
    BY <2>3, FS_CardinalityType
  <2> HIDE DEF old, new
  <2>5. Cardinality(new) >= Cardinality(old)
    BY <2>3, <2>4
  <2> QED BY <2>5 DEF Place, old, new
<1> QED BY <1>1, <1>2

-----------------------------------------------------------------------------
(* What a step of publishers and cleanups means to clients *)

\* Rows are only added, removed rows stay removed, and what may go still may.
LEMMA SystemSteps ==
  ASSUME IInv, Next
  PROVE  /\ IInv'
         /\ Inserted \subseteq Inserted' /\ removed \subseteq removed'
         /\ \A ts \in Inserted : created'[ts] = created[ts]
         /\ \A ts \in Inserted : Expendable(ts) => Expendable(ts)'
<1>1. CASE \E p \in Publishers : PublisherActs(p)
  <2>1. PICK p \in Publishers : PublisherActs(p)
    BY <1>1
  <2>2. IInv' /\ TypeOK' /\ PublisherLeaves(p)
    BY <2>1, PublisherSteps, PublisherKeeps
  <2> QED BY <2>2, PublisherSpares DEF PublisherLeaves
<1>2. CASE \E c \in Cleaners : CleanerActs(c)
  <2>1. PICK c \in Cleaners : CleanerActs(c)
    BY <1>2
  <2>2. IInv' /\ CleanerLeaves(c)
    BY <2>1, CleanerSteps, CleanerKeeps
  <2>3. created' = created /\ removed \subseteq removed'
    BY <2>2 DEF CleanerLeaves
  <2> QED BY <2>2, <2>3, CleanerSpares
<1>3. CASE Age
  <2>1. IInv' /\ UNCHANGED <<created, removed>>
    BY <1>3, AgeKeeps DEF Age
  <2> QED BY <1>3, <2>1, AgeSpares
<1> QED BY <1>1, <1>2, <1>3, StepsActs

\* A publisher comes to a tile set that has no row, and goes on until it has
\* promoted it; a promotion is the step of a publisher that has not promoted yet.
LEMMA PublisherProgress ==
  ASSUME IInv, Next
  PROVE  /\ \A p \in Publishers : Unpromoted(p)' =>
              \/ Unpromoted(p) /\ publisher'[p].ts = publisher[p].ts
              \/ publisher'[p].ts \in TileSets \ Inserted
         /\ latest' = latest \/
              \E p \in Publishers : /\ Unpromoted(p) /\ ~Unpromoted(p)'
                                    /\ latest' = publisher[p].ts /\ latest' \in Inserted
                                    /\ \A q \in Publishers \ {p} : publisher'[q] = publisher[q]
<1>1. CASE \E p \in Publishers, ts \in TileSets : StartPublishing(p, ts)
  BY <1>1 DEF StartPublishing, IInv, TypeOK, Unpromoted
<1>2. CASE \E p \in Publishers : \E ts \in TileSets : \E t \in TilesOf[ts] : UploadTile(p, t)
  BY <1>2 DEF UploadTile, IInv, TypeOK, Unpromoted, PublisherAt
<1>3. CASE \E p \in Publishers :
             UploadManifest(p) \/ InsertTileSet(p) \/ UploadPointer(p) \/ PublisherFails(p)
  <2>1. PICK p \in Publishers :
          UploadManifest(p) \/ InsertTileSet(p) \/ UploadPointer(p) \/ PublisherFails(p)
    BY <1>3
  <2>2. PICK pc \in {"idle", "insert", "promote"} :
          PublisherGoto(p, pc) /\ (pc # "idle" => Unpromoted(p)) /\ latest' = latest
    BY <2>1 DEF UploadManifest, InsertTileSet, UploadPointer, PublisherFails, Unpromoted, PublisherAt
  <2>3. /\ publisher'[p] = IF pc = "idle" THEN IdlePublisher ELSE [publisher[p] EXCEPT !.pc = pc]
        /\ \A q \in Publishers \ {p} : publisher'[q] = publisher[q]
    BY <2>2, PublisherGoes DEF IInv
  <2> QED BY <2>2, <2>3 DEF Unpromoted, IdlePublisher, IInv, TypeOK
<1>4. CASE \E p \in Publishers : DemoteLatest(p)
  BY <1>4 DEF DemoteLatest, IInv, TypeOK, Unpromoted, PublisherAt
<1>5. CASE \E p \in Publishers : PromoteLatest(p)
  <2>1. PICK p \in Publishers : PromoteLatest(p)
    BY <1>5
  <2>2. /\ \/ PublisherGoto(p, "pointer") /\ latest' = publisher[p].ts
           \/ PublisherGoto(p, "idle") /\ latest' = latest
        /\ PublisherAt(p, "commit")
    BY <2>1 DEF PromoteLatest
  <2>3. publisher[p].ts \in Inserted
    BY <2>2 DEF IInv, TypeOK, PublisherOK, PublisherAt, Inserted
  <2>4. /\ publisher'[p] = IdlePublisher \/ publisher'[p] = [publisher[p] EXCEPT !.pc = "pointer"]
        /\ \A q \in Publishers \ {p} : publisher'[q] = publisher[q]
    BY <2>2, PublisherGoes DEF IInv
  <2>5. ~Unpromoted(p)' /\ Unpromoted(p)
    BY <2>2, <2>4 DEF Unpromoted, IdlePublisher, PublisherAt, IInv, TypeOK
  <2> QED BY <2>2, <2>3, <2>4, <2>5 DEF Unpromoted
<1>6. CASE Age \/ \E c \in Cleaners : CleanerActs(c)
  <2>1. UNCHANGED <<publisher, latest>>
    BY <1>6, CleanerSteps DEF Age, CleanerLeaves
  <2> QED BY <2>1 DEF Unpromoted
<1> QED BY <1>1, <1>2, <1>3, <1>4, <1>5, <1>6 DEF Next, PublisherStep, CleanerActs

\* What is settled stays so, and is not promoted once it is not latest.
LEMMA SettledStays ==
  ASSUME IInv, Next, NEW ts, Settled(ts)
  PROVE  Settled(ts)' /\ (latest' # latest => latest' # ts)
<1>1. Inserted \subseteq Inserted' /\ NoTileSet \notin TileSets
  BY SystemSteps, TileSetsAssumption
<1>2. ASSUME NEW p \in Publishers, Unpromoted(p)'
      PROVE  publisher'[p].ts # ts
  BY <1>1, <1>2, PublisherProgress DEF Settled
<1>3. latest' # latest => latest' # ts
  BY PublisherProgress DEF Settled
<1> QED BY <1>1, <1>2, <1>3 DEF Settled

\* The latest tile set is settled, since every publisher has one of its own.
LEMMA LatestIsSettled ==
  ASSUME IInv, Next, Settled(latest)
  PROVE  Settled(latest)'
<1>1. CASE latest' = latest
  BY <1>1, SettledStays DEF Settled
<1>2. CASE latest' # latest
  <2>1. PICK p \in Publishers :
          /\ Unpromoted(p) /\ ~Unpromoted(p)' /\ latest' = publisher[p].ts /\ latest' \in Inserted
          /\ \A q \in Publishers \ {p} : publisher'[q] = publisher[q]
    BY <1>2, PublisherProgress
  <2>2. latest' \in Inserted' /\ publisher[p].ts # NoTileSet
    BY <2>1, SystemSteps, TileSetsAssumption DEF Inserted
  <2>3. ASSUME NEW q \in Publishers, Unpromoted(q)'
        PROVE  publisher'[q].ts # latest'
    <3>1. q # p
      BY <2>1, <2>3
    <3> QED BY <2>1, <2>2, <3>1 DEF IInv, PublishersApart
  <2> QED BY <2>2, <2>3 DEF Settled
<1> QED BY <1>1, <1>2

-----------------------------------------------------------------------------
(* The invariant under both kinds of steps *)

\* Publishers and cleanups break no promise made to a client.
LEMMA ReadStays ==
  ASSUME IInv, Next, NEW r, ReadOK(r)
  PROVE  ReadOK(r)'
<1>1. Inserted \subseteq Inserted' /\ \A ts \in Inserted : Expendable(ts) => Expendable(ts)'
  BY SystemSteps
<1>2. (r.pc = "answered" /\ r.ts # NoTileSet) \/ r.pc = "fetched" => r.ts \in Inserted
  BY DEF ReadOK
<1>3. Served(r)'
  BY <1>1, <1>2 DEF ReadOK, Served
<1> QED BY <1>1, <1>3 DEF ReadOK, ReadStates

\* A walk loses nothing to what is inserted meanwhile; what is removed or promoted
\* disturbs it for good.
LEMMA WalkStays ==
  ASSUME IInv, Next, NEW w, WalkOK(w), Settled(latest)
  PROVE  WalkOK(w)'
<1>1. /\ IInv' /\ Inserted \subseteq Inserted' /\ removed \subseteq removed'
      /\ \A ts \in Inserted : created'[ts] = created[ts]
  BY SystemSteps
<1>2. w \in WalkStates /\ w.removed \subseteq removed' /\ w.listed \subseteq Inserted'
  BY <1>1 DEF WalkOK
<1>3. Settled(w.latest)' /\ (latest' # latest => latest' # w.latest)
  BY SettledStays DEF WalkOK
<1>4. ASSUME Undisturbed(w)'
      PROVE  /\ w.listed \subseteq Listed'
             /\ w.pc = "page" => \A ts \in w.listed \ w.seen : Place(ts)' >= w.offset
             /\ w.pc = "done" => w.listed \subseteq w.seen
  <2>1. w.removed = removed' /\ w.latest = latest'
    BY <1>4 DEF Undisturbed
  <2>2. removed' = removed /\ latest' = latest
    BY <1>1, <1>3, <2>1 DEF WalkOK
  <2>3. Undisturbed(w)
    BY <2>1, <2>2 DEF Undisturbed
  <2>4. \A ts \in Listed : ts \in Listed' /\ Place(ts)' >= Place(ts)
    BY <1>1, <2>2, PlacesGrow
  <2>5. \A ts \in Listed : Place(ts) \in Nat /\ Place(ts)' \in Nat
    <3>1. \A ts \in Listed : Place(ts) \in Nat
      BY PageShows
    <3>2. \A ts \in Listed' : Place(ts)' \in Nat
      <4>1. IsFiniteSet(Listed')
        BY TileSetsAssumption, FS_Subset DEF Listed, Inserted
      <4> QED BY <4>1, FS_Subset, FS_CardinalityType DEF Place
    <3> QED BY <2>4, <3>1, <3>2
  <2>6. w.offset \in Nat
    BY <1>2 DEF WalkStates
  <2> QED BY <2>3, <2>4, <2>5, <2>6 DEF WalkOK
<1> QED BY <1>2, <1>3, <1>4 DEF WalkOK, WalkStates, Undisturbed

\* What makes reads and walks all right is their own, and the system's.
LEMMA ClientAlone ==
  ASSUME NEW r, UNCHANGED vars
  PROVE  ReadOK(r)' = ReadOK(r) /\ WalkOK(r)' = WalkOK(r) /\ IInv' = IInv
         /\ \A ts : Settled(ts)' = Settled(ts)
<1> QED
  BY DEF vars, ReadOK, ReadStates, Served, WalkOK, WalkStates, Settled, Unpromoted, Undisturbed, Place,
      Listed, ListedBefore, Inserted, Expendable, Newer, IInv, TypeOK, Numbered, PublisherOK,
      PublisherAt, PublishersApart, CleanerOK, CleanerAt, OnlyExpendableLoseBlobs,
      RemovedLeavesNothing, Blobs, AllBlobs

\* The state of a client after a step is all right if what it is then is.
LEMMA Becomes ==
  ASSUME NEW c \in Clients, NEW r, NEW w, read'[c] = r, walk'[c] = w, ReadOK(r)', WalkOK(w)'
  PROVE  ReadOK(read[c])' /\ WalkOK(walk[c])'
<1>1. ReadOK(read[c])'
  BY DEF ReadOK, ReadStates, Served, Inserted, Expendable, Newer
<1>2. WalkOK(walk[c])'
  BY DEF WalkOK, WalkStates, Settled, Unpromoted, Undisturbed, Place, Listed, ListedBefore, Inserted
<1> QED BY <1>1, <1>2

\* A step of one client, of which it is known what its request and its walk become.
LEMMA ClientKeeps ==
  ASSUME ReadsInv, UNCHANGED vars, NEW c \in Clients, NEW r, NEW w, ReadOK(r), WalkOK(w),
         read' = [read EXCEPT ![c] = r], walk' = [walk EXCEPT ![c] = w]
  PROVE  ReadsInv'
<1>1. r \in ReadStates /\ w \in WalkStates
  BY DEF ReadOK, WalkOK
<1>2. read' \in [Clients -> ReadStates] /\ walk' \in [Clients -> WalkStates]
  BY <1>1 DEF ReadsInv, ReadStates, WalkStates
<1>3. IInv' /\ Settled(latest)'
  <2>1. IInv'
    BY ClientAlone DEF ReadsInv
  <2>2. Settled(latest)'
    BY DEF ReadsInv, vars, Settled, Unpromoted, Inserted
  <2> QED BY <2>1, <2>2
<1>4. ASSUME NEW d \in Clients PROVE ReadOK(read[d])' /\ WalkOK(walk[d])'
  <2>1. PICK x, y : (x = IF d = c THEN r ELSE read[d]) /\ (y = IF d = c THEN w ELSE walk[d])
    OBVIOUS
  <2>2. read'[d] = x /\ walk'[d] = y
    <3>1. read \in [Clients -> ReadStates] /\ walk \in [Clients -> WalkStates]
      BY DEF ReadsInv
    <3> QED BY <2>1, <3>1
  <2>3. ReadOK(x) /\ WalkOK(y)
    <3>1. ReadOK(read[d]) /\ WalkOK(walk[d])
      BY DEF ReadsInv
    <3> QED BY <2>1, <3>1
  <2>4. ReadOK(x)' /\ WalkOK(y)'
    BY <2>3, ClientAlone
  <2> QED BY <2>2, <2>4, Becomes
<1> QED BY <1>2, <1>3, <1>4 DEF ReadsInv

-----------------------------------------------------------------------------
(* The steps of a client *)

\* A request that gets on.
Moved(r, pc, status) == [r EXCEPT !.pc = pc, !.status = status]

LEMMA RequestMoves ==
  ASSUME NEW r \in ReadStates, NEW pc \in {"answered", "failed", "redirected", "fetched"},
         NEW status \in {200, 302, 400, 404, 503}
  PROVE  /\ Moved(r, pc, status) \in ReadStates
         /\ Moved(r, pc, status).pc = pc /\ Moved(r, pc, status).status = status
         /\ Moved(r, pc, status).ts = r.ts /\ Moved(r, pc, status).tile = r.tile
         /\ Moved(r, pc, status).route = r.route
<1>1. ASSUME NEW P, NEW R, NEW T, NEW I, NEW S, pc \in P, status \in S,
             r \in [pc : P, route : R, ts : T, tile : I, status : S]
      PROVE  Moved(r, pc, status) \in [pc : P, route : R, ts : T, tile : I, status : S]
  BY <1>1 DEF Moved
<1>2. Moved(r, pc, status) \in ReadStates
  <2> DEFINE P == {"idle", "manifest", "answered", "failed", "redirected", "fetched"}
             R == {"none", "latest", "by_id", "redirect"}
             T == TileSets \cup {NoTileSet}
             I == Tiles \cup {NoTile}
             S == {0, 200, 302, 400, 404, 503}
  <2>1. ReadStates = [pc : P, route : R, ts : T, tile : I, status : S]
    BY DEF ReadStates
  <2>2. pc \in P /\ status \in S
    OBVIOUS
  <2> HIDE DEF P, R, T, I, S
  <2> QED BY <1>1, <2>1, <2>2
<1>3. /\ Moved(r, pc, status).pc = pc /\ Moved(r, pc, status).status = status
      /\ Moved(r, pc, status).ts = r.ts /\ Moved(r, pc, status).tile = r.tile
      /\ Moved(r, pc, status).route = r.route
  BY DEF ReadStates, Moved
<1> QED BY <1>2, <1>3

\* An answer, whatever route it is on, if it turns nobody away from what is kept.
LEMMA Responds ==
  ASSUME ReadsInv, NEW c \in Clients, UNCHANGED <<vars, walk>>,
         NEW status \in {200, 400, 404, 503}, Respond(c, status),
         \/ status = 200
         \/ read[c].ts = NoTileSet
         \/ read[c].tile \notin TilesOf[read[c].ts] \cup {NoTile}
         \/ Expendable(read[c].ts)
  PROVE  ReadsInv'
<1>0. PICK r : r = Moved(read[c], "answered", status)
  OBVIOUS
<1>1. ReadOK(read[c]) /\ WalkOK(walk[c]) /\ read[c] \in ReadStates
  BY DEF ReadsInv, ReadOK
<1>2. /\ r \in ReadStates /\ r.pc = "answered" /\ r.status = status
      /\ r.ts = read[c].ts /\ r.tile = read[c].tile /\ r.route = read[c].route
  BY <1>0, <1>1, RequestMoves
<1>3. read' = [read EXCEPT ![c] = r] /\ walk' = [walk EXCEPT ![c] = walk[c]]
  BY <1>0 DEF Respond, ReadsInv, Moved
<1>4. Served(r)
  BY <1>2 DEF Served
<1>5. ReadOK(r)
  BY <1>1, <1>2, <1>4 DEF ReadOK
<1>6. UNCHANGED vars /\ WalkOK(walk[c])
  BY <1>1
<1>7. PICK w : w = walk[c]
  OBVIOUS
<1>8. ReadOK(r) /\ WalkOK(w) /\ read' = [read EXCEPT ![c] = r] /\ walk' = [walk EXCEPT ![c] = w]
  BY <1>3, <1>5, <1>6, <1>7
<1>9. UNCHANGED vars
  BY <1>6
<1> QED BY <1>8, <1>9, ClientKeeps

\* latest_manifest, tile_manifest_by_id and tile_redirect, up to the first read.
LEMMA Requests ==
  ASSUME ReadsInv, NEW c \in Clients,
         \/ LatestTileManifest(c)
         \/ \E ts \in TileSets \cup {NoTileSet} :
              TileManifestById(c, ts) \/ \E t \in Tiles : TileRedirect(c, ts, t)
  PROVE  ReadsInv'
<1>1. ASSUME NEW r \in ReadStates, r.ts \in Inserted \cup {NoTileSet}, UNCHANGED <<vars, walk>>,
             \/ r.pc = "manifest" /\ (r.route = "redirect" => r.tile \in Tiles)
             \/ r.pc = "answered" /\ r.ts = NoTileSet /\ r.route # "redirect",
             read' = [read EXCEPT ![c] = r]
      PROVE  ReadsInv'
  <2>1. Served(r)
    BY <1>1 DEF Served
  <2>2. ReadOK(r)
    BY <1>1, <2>1 DEF ReadOK
  <2>3. walk' = [walk EXCEPT ![c] = walk[c]] /\ WalkOK(walk[c])
    BY <1>1 DEF ReadsInv
  <2> QED BY <1>1, <2>2, <2>3, ClientKeeps
<1>2. CASE LatestTileManifest(c)
  <2>1. pointer \in Inserted \cup {NoTileSet}
    BY DEF ReadsInv, IInv, TypeOK
  <2>2. PICK r : r = [pc |-> IF pointer = NoTileSet THEN "answered" ELSE "manifest",
                      route |-> "latest", ts |-> pointer, tile |-> NoTile,
                      status |-> IF pointer = NoTileSet THEN 503 ELSE 0]
    OBVIOUS
  <2>3. r \in ReadStates /\ r.ts = pointer /\ r.route = "latest"
        /\ r.pc = IF pointer = NoTileSet THEN "answered" ELSE "manifest"
    BY <2>1, <2>2 DEF ReadStates, Inserted
  <2> QED BY <1>1, <1>2, <2>1, <2>2, <2>3 DEF LatestTileManifest
<1>3. ASSUME NEW ts \in TileSets \cup {NoTileSet}, TileManifestById(c, ts)
      PROVE  ReadsInv'
  <2>1. PICK r : r = [pc |-> "manifest", route |-> "by_id", ts |-> ts, tile |-> NoTile, status |-> 0]
    OBVIOUS
  <2>2. r \in ReadStates /\ r.ts = ts /\ r.route = "by_id" /\ r.pc = "manifest"
    BY <2>1 DEF ReadStates
  <2> QED BY <1>1, <1>3, <2>1, <2>2 DEF TileManifestById
<1>4. ASSUME NEW ts \in TileSets \cup {NoTileSet}, NEW t \in Tiles, TileRedirect(c, ts, t)
      PROVE  ReadsInv'
  <2>1. PICK r : r = [pc |-> "manifest", route |-> "redirect", ts |-> ts, tile |-> t, status |-> 0]
    OBVIOUS
  <2>2. r \in ReadStates /\ r.ts = ts /\ r.route = "redirect" /\ r.pc = "manifest" /\ r.tile = t
    BY <2>1 DEF ReadStates
  <2> QED BY <1>1, <1>4, <2>1, <2>2 DEF TileRedirect
<1> QED BY <1>2, <1>3, <1>4

\* read_json_blob: a tile set without its manifest may go.
LEMMA ManifestReads ==
  ASSUME ReadsInv, NEW c \in Clients, ReadManifest(c)
  PROVE  ReadsInv'
<1> DEFINE ts == read[c].ts
           t == read[c].tile
<1>1. /\ ReadOK(read[c]) /\ WalkOK(walk[c]) /\ read[c] \in ReadStates
      /\ read[c].pc = "manifest" /\ UNCHANGED <<vars, walk>>
  BY DEF ReadsInv, ReadOK, ReadManifest, ReadAt
<1>2. CASE ~HasManifest(ts)
  <2>1. Respond(c, 503) \/ Respond(c, 404)
    BY <1>2 DEF ReadManifest
  <2>2. ts = NoTileSet \/ Expendable(ts)
    <3> SUFFICES ASSUME ts # NoTileSet PROVE Expendable(ts)
      OBVIOUS
    <3>1. ts \in Inserted /\ ts \in TileSets
      BY <1>1 DEF ReadOK, Inserted
    <3>2. blobs[ts] # Blobs(ts)
      BY <1>2, <3>1 DEF HasManifest, Blobs
    <3> QED BY <3>1, <3>2 DEF ReadsInv, IInv, OnlyExpendableLoseBlobs
  <2> QED BY <1>1, <2>1, <2>2, Responds
<1>3. CASE HasManifest(ts) /\ read[c].route # "redirect"
  BY <1>1, <1>3, Responds DEF ReadManifest
<1>4. CASE HasManifest(ts) /\ read[c].route = "redirect" /\ ~Covers(ts, t)
  <2>1. PICK status \in {400, 404} : Respond(c, status)
    BY <1>4 DEF ReadManifest
  <2>2. t \notin TilesOf[ts] /\ t # NoTile
    BY <1>1, <1>4, ReadsAssumption DEF Covers, ReadOK
  <2> QED BY <1>1, <2>1, <2>2, Responds
<1>5. CASE HasManifest(ts) /\ read[c].route = "redirect" /\ Covers(ts, t)
  <2>0. PICK r : r = Moved(read[c], "redirected", 302)
    OBVIOUS
  <2>1. /\ r \in ReadStates /\ r.pc = "redirected"
        /\ r.ts = ts /\ r.tile = t /\ r.route = "redirect"
    BY <1>1, <1>5, <2>0, RequestMoves
  <2>2. read' = [read EXCEPT ![c] = r] /\ walk' = [walk EXCEPT ![c] = walk[c]]
    <3>1. read' = [read EXCEPT ![c].pc = "redirected", ![c].status = 302]
      BY <1>1, <1>5, Zenon DEF ReadManifest
    <3>2. read \in [Clients -> ReadStates] /\ walk \in [Clients -> WalkStates] /\ walk' = walk
      BY <1>1 DEF ReadsInv
    <3> QED BY <2>0, <3>1, <3>2, Zenon DEF Moved
  <2>3. ts \in Inserted /\ t \in TilesOf[ts]
    BY <1>1, <1>5, TileSetsAssumption DEF HasManifest, Covers, ReadOK
  <2>4. ReadOK(r)
    <3>1. Served(r)
      BY <2>1 DEF Served
    <3> QED BY <1>1, <1>5, <2>1, <2>3, <3>1 DEF ReadOK
  <2> QED BY <1>1, <2>2, <2>4, ClientKeeps
<1> QED BY <1>2, <1>3, <1>4, <1>5

\* The client follows the redirect: a tile set that lacks the tile may go.
LEMMA TileFetched ==
  ASSUME ReadsInv, NEW c \in Clients, FetchTile(c)
  PROVE  ReadsInv'
<1> DEFINE ts == read[c].ts
           t == read[c].tile
           status == IF t \in blobs[ts] THEN 200 ELSE 404
<1>0. PICK r : r = Moved(read[c], "fetched", status)
  OBVIOUS
<1>1. /\ ReadOK(read[c]) /\ WalkOK(walk[c]) /\ read[c] \in ReadStates
      /\ read[c].pc = "redirected" /\ UNCHANGED <<vars, walk>>
  BY DEF ReadsInv, ReadOK, FetchTile, ReadAt
<1>2. ts \in Inserted /\ t \in TilesOf[ts]
  BY <1>1 DEF ReadOK
<1>3. status # 200 => Expendable(ts)
  <2> SUFFICES ASSUME t \notin blobs[ts] PROVE Expendable(ts)
    OBVIOUS
  <2>1. blobs[ts] # Blobs(ts)
    BY <1>2 DEF Blobs
  <2> QED BY <1>2, <2>1 DEF ReadsInv, IInv, OnlyExpendableLoseBlobs
<1>4. read' = [read EXCEPT ![c] = r] /\ walk' = [walk EXCEPT ![c] = walk[c]]
  BY <1>0, <1>1 DEF FetchTile, ReadsInv, Moved
<1>5. /\ r \in ReadStates /\ r.pc = "fetched" /\ r.status = status
      /\ r.ts = ts /\ r.tile = t /\ r.route = read[c].route
  <2>1. status \in {200, 404}
    OBVIOUS
  <2> HIDE DEF status
  <2> QED BY <1>0, <1>1, <2>1, RequestMoves
<1> HIDE DEF status
<1>6. ReadOK(r)
  <2>1. Served(r)
    BY <1>3, <1>5 DEF Served
  <2> QED BY <1>1, <1>2, <1>5, <2>1 DEF ReadOK
<1> QED BY <1>1, <1>4, <1>6, ClientKeeps

\* A read that fails says nothing of the tile set.
LEMMA ReadFails ==
  ASSUME ReadsInv, NEW c \in Clients, StorageReadFails(c)
  PROVE  ReadsInv'
<1>0. PICK r : r = Moved(read[c], "failed", 503)
  OBVIOUS
<1>1. ReadOK(read[c]) /\ WalkOK(walk[c]) /\ read[c] \in ReadStates /\ UNCHANGED <<vars, walk>>
  BY DEF ReadsInv, ReadOK, StorageReadFails
<1>2. /\ r \in ReadStates /\ r.pc = "failed"
      /\ r.ts = read[c].ts /\ r.tile = read[c].tile /\ r.route = read[c].route
  BY <1>0, <1>1, RequestMoves
<1>3. read' = [read EXCEPT ![c] = r] /\ walk' = [walk EXCEPT ![c] = walk[c]]
  BY <1>0 DEF StorageReadFails, ReadsInv, Moved
<1>4. Served(r)
  BY <1>2 DEF Served
<1>5. ReadOK(r)
  BY <1>1, <1>2, <1>4 DEF ReadOK
<1> QED BY <1>1, <1>3, <1>5, ClientKeeps

\* The next request forgets the last one.
LEMMA ReadForgotten ==
  ASSUME ReadsInv, NEW c \in Clients, NextRequest(c)
  PROVE  ReadsInv'
<1>1. read' = [read EXCEPT ![c] = NoRead] /\ walk' = [walk EXCEPT ![c] = walk[c]] /\ UNCHANGED vars
  BY DEF NextRequest, ReadsInv
<1>2. ReadOK(NoRead) /\ WalkOK(walk[c])
  BY DEF ReadsInv, ReadOK, ReadStates, NoRead, Served
<1> QED BY <1>1, <1>2, ClientKeeps

\* What a page adds to a walk: what it has not seen is at the next offset or further
\* on, and nothing is if there is no row too many.
LEMMA PageAdvances ==
  ASSUME IInv, NEW w, WalkOK(w), w.pc = "page", Undisturbed(w),
         NEW more, more = (Cardinality(Rows(w.offset)) > PageLimit),
         NEW ts \in w.listed \ (w.seen \cup Page(w.offset))
  PROVE  more /\ Place(ts) >= w.offset + PageLimit
<1>1. w.offset \in Nat /\ PageLimit \in Nat
  BY ReadsAssumption DEF WalkOK, WalkStates
<1>2. ts \in Listed /\ Place(ts) >= w.offset
  BY DEF WalkOK
<1>3. Place(ts) \in Nat /\ ~(Place(ts) < w.offset + PageLimit)
  BY <1>1, <1>2, PageShows
<1>4. more
  BY <1>1, <1>2, <1>3, PageShows
<1> QED BY <1>1, <1>3, <1>4

\* A walk that gets on.
Paged(w, seen, pc, offset) == [w EXCEPT !.seen = seen, !.pc = pc, !.offset = offset]

LEMMA WalkMoves ==
  ASSUME NEW w \in WalkStates, NEW seen \in SUBSET TileSets, NEW pc \in {"page", "done"},
         NEW offset \in Nat
  PROVE  /\ Paged(w, seen, pc, offset) \in WalkStates
         /\ Paged(w, seen, pc, offset).seen = seen /\ Paged(w, seen, pc, offset).pc = pc
         /\ Paged(w, seen, pc, offset).offset = offset
         /\ Paged(w, seen, pc, offset).listed = w.listed
         /\ Paged(w, seen, pc, offset).removed = w.removed
         /\ Paged(w, seen, pc, offset).latest = w.latest
<1>1. ASSUME NEW P, NEW S, NEW L, pc \in P, seen \in S,
             w \in [pc : P, offset : Nat, seen : S, listed : S, removed : S, latest : L]
      PROVE  Paged(w, seen, pc, offset)
               \in [pc : P, offset : Nat, seen : S, listed : S, removed : S, latest : L]
  BY <1>1 DEF Paged
<1>2. Paged(w, seen, pc, offset) \in WalkStates
  <2> DEFINE P == {"idle", "page", "done"}
             S == SUBSET TileSets
             L == TileSets \cup {NoTileSet}
  <2>1. WalkStates = [pc : P, offset : Nat, seen : S, listed : S, removed : S, latest : L]
    BY DEF WalkStates
  <2>2. pc \in P /\ seen \in S
    OBVIOUS
  <2> HIDE DEF P, S, L
  <2> QED BY <1>1, <2>1, <2>2
<1>3. /\ Paged(w, seen, pc, offset).seen = seen /\ Paged(w, seen, pc, offset).pc = pc
      /\ Paged(w, seen, pc, offset).offset = offset
      /\ Paged(w, seen, pc, offset).listed = w.listed
      /\ Paged(w, seen, pc, offset).removed = w.removed
      /\ Paged(w, seen, pc, offset).latest = w.latest
  BY DEF WalkStates, Paged
<1> QED BY <1>2, <1>3

\* list_tile_sets by a client that walks through the list.
LEMMA WalkSteps ==
  ASSUME ReadsInv, NEW c \in Clients, StartWalk(c) \/ ListTileSets(c) \/ EndWalk(c)
  PROVE  ReadsInv'
<1>1. /\ ReadOK(read[c]) /\ WalkOK(walk[c]) /\ UNCHANGED <<vars, read>>
      /\ walk[c] \in WalkStates /\ IInv /\ Settled(latest)
  BY DEF ReadsInv, WalkOK, StartWalk, ListTileSets, EndWalk
<1>2. ASSUME NEW w, WalkOK(w), walk' = [walk EXCEPT ![c] = w]
      PROVE  ReadsInv'
  <2>1. PICK r : r = read[c]
    OBVIOUS
  <2>2. ReadOK(r) /\ read' = [read EXCEPT ![c] = r]
    BY <1>1, <2>1 DEF ReadsInv
  <2>3. UNCHANGED vars
    BY <1>1
  <2> QED BY <1>2, <2>2, <2>3, ClientKeeps
<1>3. CASE StartWalk(c)
  <2>1. PICK w : w = [pc |-> "page", offset |-> 0, seen |-> {}, listed |-> Listed,
                      removed |-> removed, latest |-> latest]
    OBVIOUS
  <2>2. removed \subseteq TileSets /\ Listed \subseteq Inserted /\ Inserted \subseteq TileSets
    BY <1>1 DEF IInv, TypeOK, Listed, Inserted
  <2>3. w \in WalkStates
    BY <1>1, <2>1, <2>2 DEF WalkStates, Settled
  <2>4. \A ts \in Listed : Place(ts) >= 0
    BY <1>1, PageShows
  <2>5. WalkOK(w)
    BY <1>1, <2>1, <2>2, <2>3, <2>4 DEF WalkOK
  <2> QED BY <1>2, <1>3, <2>1, <2>5 DEF StartWalk
<1>4. CASE ListTileSets(c)
  <2>1. PICK old : old = walk[c]
    OBVIOUS
  <2>2. PICK more : more = (Cardinality(Rows(old.offset)) > PageLimit)
    OBVIOUS
  <2>3. PICK pc, offset : /\ pc = (IF more THEN "page" ELSE "done")
                          /\ offset = (IF more THEN old.offset + PageLimit ELSE old.offset)
    OBVIOUS
  <2>4. PICK w : w = Paged(old, old.seen \cup Page(old.offset), pc, offset)
    OBVIOUS
  <2>5. old \in WalkStates /\ WalkOK(old) /\ old.pc = "page"
    BY <1>1, <1>4, <2>1 DEF ListTileSets, WalkAt
  <2>6. walk' = [walk EXCEPT ![c] = w]
    BY <1>4, <2>1, <2>2, <2>3, <2>4 DEF ListTileSets, Paged
  <2>7. PageLimit \in Nat /\ Page(old.offset) \subseteq TileSets
    BY ReadsAssumption DEF Page, Rows, Listed, Inserted
  <2>8. old.offset \in Nat /\ old.seen \subseteq TileSets
    BY <2>5 DEF WalkStates
  <2>9. /\ w \in WalkStates /\ w.pc = pc /\ w.offset = offset
        /\ w.seen = old.seen \cup Page(old.offset)
        /\ w.listed = old.listed /\ w.removed = old.removed /\ w.latest = old.latest
    <3>1. pc \in {"page", "done"} /\ offset \in Nat
      BY <2>3, <2>7, <2>8
    <3>2. PICK seen : seen = old.seen \cup Page(old.offset)
      OBVIOUS
    <3>3. seen \in SUBSET TileSets /\ w = Paged(old, seen, pc, offset)
      BY <2>4, <2>7, <2>8, <3>2
    <3>4. old \in WalkStates
      BY <2>5
    <3>5. /\ w \in WalkStates /\ w.seen = seen /\ w.pc = pc /\ w.offset = offset
          /\ w.listed = old.listed /\ w.removed = old.removed /\ w.latest = old.latest
      BY ONLY <3>1, <3>3, <3>4, WalkMoves
    <3> QED BY <3>2, <3>5
  <2>10. ASSUME Undisturbed(w)
         PROVE  /\ w.listed \subseteq Listed
                /\ w.pc = "page" => \A ts \in w.listed \ w.seen : Place(ts) >= w.offset
                /\ w.pc = "done" => w.listed \subseteq w.seen
    <3>1. Undisturbed(old)
      BY <2>9, <2>10 DEF Undisturbed
    <3>2. \A ts \in w.listed \ w.seen : more /\ Place(ts) >= old.offset + PageLimit
      BY <1>1, <2>2, <2>5, <2>9, <3>1, PageAdvances
    <3> QED BY <2>3, <2>5, <2>9, <3>1, <3>2 DEF WalkOK
  <2>11. WalkOK(w)
    BY <2>5, <2>9, <2>10 DEF WalkOK
  <2> QED BY <1>2, <2>6, <2>11
<1>5. CASE EndWalk(c)
  <2>1. NoWalk \in WalkStates
    BY DEF NoWalk, WalkStates
  <2>2. WalkOK(NoWalk)
    <3>1. Settled(NoTileSet)
      <4>1. ASSUME NEW p \in Publishers, Unpromoted(p) PROVE publisher[p].ts \in TileSets
        BY <1>1, <4>1 DEF Unpromoted, IInv, PublisherOK, PublisherAt
      <4> QED BY <4>1, TileSetsAssumption DEF Settled
    <3> QED BY <2>1, <3>1 DEF WalkOK, NoWalk
  <2> QED BY <1>2, <1>5, <2>2 DEF EndWalk
<1> QED BY <1>3, <1>4, <1>5

-----------------------------------------------------------------------------
(* The theorems *)

LEMMA ReadsInit_OK ==
  ASSUME ReadsInit
  PROVE  ReadsInv
<1>1. IInv
  BY InitOK DEF ReadsInit
<1>2. Settled(NoTileSet) /\ latest = NoTileSet
  BY <1>1 DEF ReadsInit, Init, Settled, Unpromoted, IdlePublisher
<1>3. ReadOK(NoRead)
  BY DEF ReadOK, ReadStates, NoRead, Served
<1>4. WalkOK(NoWalk)
  BY <1>2 DEF WalkOK, WalkStates, NoWalk
<1>5. NoRead \in ReadStates /\ NoWalk \in WalkStates
  BY <1>3, <1>4 DEF ReadOK, WalkOK
<1> QED BY <1>1, <1>2, <1>3, <1>4, <1>5 DEF ReadsInit, ReadsInv

LEMMA ReadsKept ==
  ASSUME ReadsInv, [ReadsNext]_readVars
  PROVE  ReadsInv'
<1>1. CASE Next /\ UNCHANGED <<read, walk>>
  <2>1. IInv' /\ Settled(latest)'
    BY <1>1, SystemSteps, LatestIsSettled DEF ReadsInv
  <2>2. ASSUME NEW c \in Clients
        PROVE  ReadOK(read[c])' /\ WalkOK(walk[c])'
    <3>1. PICK r, w : r = read[c] /\ w = walk[c]
      OBVIOUS
    <3>2. ReadOK(r) /\ WalkOK(w)
      BY <3>1 DEF ReadsInv
    <3>3. ReadOK(r)' /\ WalkOK(w)'
      BY <1>1, <3>2, ReadStays, WalkStays DEF ReadsInv
    <3>4. read'[c] = r /\ walk'[c] = w
      BY <1>1, <3>1
    <3> QED BY <3>3, <3>4, Becomes
  <2> QED BY <1>1, <2>1, <2>2 DEF ReadsInv, ReadStates, WalkStates
<1>2. ASSUME NEW c \in Clients, ClientStep(c)
      PROVE  ReadsInv'
  BY <1>2, Requests, ManifestReads, TileFetched, ReadFails, ReadForgotten, WalkSteps DEF ClientStep
<1>3. CASE UNCHANGED readVars
  <2>1. UNCHANGED vars /\ UNCHANGED <<read, walk>>
    BY <1>3 DEF readVars, vars
  <2>2. IInv' /\ Settled(latest)'
    BY <2>1, ClientAlone DEF ReadsInv, vars, Settled, Unpromoted, Inserted
  <2>3. ASSUME NEW c \in Clients
        PROVE  ReadOK(read[c])' /\ WalkOK(walk[c])'
    <3>1. PICK r, w : r = read[c] /\ w = walk[c]
      OBVIOUS
    <3>2. ReadOK(r)' /\ WalkOK(w)'
      BY <2>1, <3>1, ClientAlone DEF ReadsInv
    <3> QED BY <2>1, <3>1, <3>2, Becomes
  <2> QED BY <2>1, <2>2, <2>3 DEF ReadsInv, ReadStates, WalkStates
<1> QED BY <1>1, <1>2, <1>3 DEF ReadsNext

\* The inductive invariant: requests and walks beside that of publication and
\* retention (latest_manifest, tile_redirect, list_tile_sets).
THEOREM ReadsInvariant == ReadsSpec => []ReadsInv
<1> QED BY ReadsInit_OK, ReadsKept, PTL DEF ReadsSpec

\* Whoever is turned away from what it was promised, or sent to a tile that is not
\* there, asked for a tile set that the retention policy has given up
\* (latest_manifest, tile_redirect, execute_tile_set_cleanup).
THEOREM UnservedAreExpendable == ReadsSpec => []UnservedIsExpendable
<1>1. ReadsInv => UnservedIsExpendable
  BY DEF ReadsInv, ReadOK, Served, UnservedIsExpendable
<1> QED BY <1>1, ReadsInvariant, PTL

\* A walk that nothing removed or promoted disturbs shows every tile set that was
\* there when it began, for every page limit (list_tile_sets, paged_response).
THEOREM CompleteWalks == ReadsSpec => []WalksAreComplete
<1>1. ReadsInv => WalksAreComplete
  BY DEF ReadsInv, WalkOK, Undisturbed, WalksAreComplete, WalkAt
<1> QED BY <1>1, ReadsInvariant, PTL

=============================================================================
