----------------------------- MODULE Discovery -----------------------------
(***************************************************************************)
(* ingest-svc: which granules the "ingest" command finds.  A run reads the *)
(* resume point of each product, fetches the product's CMR listing page by *)
(* page, newest first, and then takes the granules one by one.  Meanwhile  *)
(* CMR publishes, other runs take granules, and the rows change status.    *)
(*                                                                         *)
(* Of a row's status only whether it counts for the resume point matters;  *)
(* how it changes is the subject of IngestPipeline.                        *)
(***************************************************************************)
EXTENDS Integers, Sequences, FiniteSets

CONSTANTS
  Granules,     \* logical granules
  Product,      \* the product of each
  Date,         \* granule_date, from 1 on
  Tie,          \* the order CMR lists granules of one date in
  Unusable,     \* granules whose CMR entry parse_entry turns down
  Products,     \* ingest_products, in order
  Runs,         \* processes executing "ingest"
  Limit,        \* ingest_max_granules of each, 0 when it is not set
  PageSize,     \* PAGE_SIZE
  MaxFaults     \* bound: requests that fail plus processes that die

ASSUME GranulesAssumption ==
  /\ IsFiniteSet(Granules) /\ Unusable \subseteq Granules
  /\ Product \in [Granules -> {Products[i] : i \in 1..Len(Products)}]
  /\ Date \in [Granules -> Nat \ {0}]
  /\ Tie \in [Granules -> Nat]
  /\ \A g, h \in Granules :
       g # h /\ Product[g] = Product[h] /\ Date[g] = Date[h] => Tie[g] # Tie[h]
ASSUME LimitsAssumption ==
  /\ Len(Products) \in Nat \ {0}
  /\ Limit \in [Runs -> Nat]
  /\ PageSize \in Nat \ {0}
  /\ MaxFaults \in Nat

VARIABLES
  catalog,   \* granules CMR has published
  row,       \* "none"; "counts" for the resume point; "ignored": failed or rejected
  run,       \* local state of each run
  passed,    \* history: granules published late, or given up by a run
  faults     \* faults so far

vars == <<catalog, row, run, passed, faults>>

ProductSet == {Products[i] : i \in 1..Len(Products)}
SeqRange(s) == {s[i] : i \in 1..Len(s)}
IdleRun ==
  [pc |-> "idle", resume |-> [p \in ProductSet |-> 0], product |-> 1, page |-> 1,
   found |-> <<>>]

Init ==
  /\ catalog = {}
  /\ row = [g \in Granules |-> "none"]
  /\ run = [r \in Runs |-> IdleRun]
  /\ passed = {}
  /\ faults = 0

Fault == faults < MaxFaults /\ faults' = faults + 1

\* A granule of the same product that CMR lists before g.
ListedBefore(h, g) ==
  /\ Product[h] = Product[g]
  /\ Date[h] > Date[g] \/ (Date[h] = Date[g] /\ Tie[h] < Tie[g])

-----------------------------------------------------------------------------
(* The surroundings: CMR, and whatever sets the status of a row.           *)

\* Publishing an older granule after a newer one is publishing it late.
Publish(g) ==
  /\ g \notin catalog
  /\ catalog' = catalog \cup {g}
  /\ passed' = IF \E h \in catalog : Product[h] = Product[g] /\ Date[h] > Date[g]
               THEN passed \cup {g} ELSE passed
  /\ UNCHANGED <<row, run, faults>>

\* The row fails, is rejected, is replayed, or is marked by a late recovery.
StatusChange(g) ==
  /\ row[g] # "none"
  /\ row' = [row EXCEPT ![g] = IF @ = "counts" THEN "ignored" ELSE "counts"]
  /\ UNCHANGED <<catalog, run, passed, faults>>

-----------------------------------------------------------------------------
(* run_ingest_inner *)

At(r, pc) == run[r].pc = pc

Newest(dates) == IF dates = {} THEN 0 ELSE CHOOSE d \in dates : \A e \in dates : e <= d

\* Defect: rows count whatever their status.
ResumePointOfAnyRow(p) ==
  Newest({Date[g] : g \in {h \in Granules : Product[h] = p /\ row[h] # "none"}})

\* get_discovery_resume_points_for_products; 0 when the product has no row
\* that counts.
ResumePoint(p) ==
  Newest({Date[g] : g \in {h \in Granules : Product[h] = p /\ row[h] = "counts"}})

\* Defect: pages counted from 0.
StartDiscoveryAtZero(r) ==
  /\ At(r, "idle")
  /\ run' = [run EXCEPT ![r] =
       [IdleRun EXCEPT !.pc = "discover", !.page = 0,
                       !.resume = [p \in ProductSet |-> ResumePoint(p)]]]
  /\ UNCHANGED <<catalog, row, passed, faults>>

StartDiscovery(r) ==
  /\ At(r, "idle")
  /\ run' = [run EXCEPT ![r] =
       [IdleRun EXCEPT !.pc = "discover", !.resume = [p \in ProductSet |-> ResumePoint(p)]]]
  /\ UNCHANGED <<catalog, row, passed, faults>>

\* What discovery_url asks for: temporal from the resume point on, sorted by
\* -start_date.  The listing is made anew for every page.
Matching(p, resume) == {g \in catalog : Product[g] = p /\ Date[g] >= resume}
Position(g, matching) == Cardinality({h \in matching : ListedBefore(h, g)}) + 1
Page(p, resume, page) ==
  LET matching == Matching(p, resume)
      first == (page - 1) * PageSize
      size == IF Cardinality(matching) - first < PageSize
              THEN Cardinality(matching) - first ELSE PageSize
  IN [i \in 1..size |-> CHOOSE g \in matching : Position(g, matching) = first + i]

\* parse_product_response keeps the entries that parse, in their order.
Parsed(entries) ==
  LET kept == {i \in DOMAIN entries : entries[i] \notin Unusable}
  IN  [k \in 1..Cardinality(kept) |->
         entries[CHOOSE i \in kept : Cardinality({j \in kept : j < i}) = k - 1]]
\* Defect: a page with entries that do not parse looks like the last.
MorePagesParsed(entries) == Len(Parsed(entries)) >= PageSize
\* should_fetch_next_page counts entries, parsed or not.
MorePages(entries) == Len(entries) >= PageSize

\* discover_product, one page; then the next page, product, or the granules,
\* of which a limit takes the first.
FetchPage(r) ==
  LET me == run[r]
      entries == Page(Products[me.product], me.resume[Products[me.product]], me.page)
      found == me.found \o Parsed(entries)
      kept == IF Limit[r] # 0 /\ Limit[r] < Len(found)
              THEN SubSeq(found, 1, Limit[r]) ELSE found
  IN
  /\ At(r, "discover")
  /\ \/ /\ MorePages(entries)
        /\ run' = [run EXCEPT ![r] = [me EXCEPT !.found = found, !.page = me.page + 1]]
        /\ UNCHANGED passed
     \/ /\ ~MorePages(entries)
        /\ me.product < Len(Products)
        /\ run' = [run EXCEPT ![r] = [me EXCEPT !.found = found, !.page = 1,
                                                !.product = me.product + 1]]
        /\ UNCHANGED passed
     \/ /\ ~MorePages(entries)
        /\ me.product = Len(Products)
        /\ run' = [run EXCEPT ![r] = [IdleRun EXCEPT !.pc = "take", !.found = kept]]
        /\ passed' = passed \cup (SeqRange(found) \ SeqRange(kept))
  /\ UNCHANGED <<catalog, row, faults>>

\* A page that cannot be had ends the run before it has taken anything.
FetchFails(r) ==
  /\ At(r, "discover")
  /\ Fault
  /\ run' = [run EXCEPT ![r] = IdleRun]
  /\ UNCHANGED <<catalog, row, passed>>

\* insert_downloading_row for the next granule; an existing row or an error
\* skips it.
TakeGranule(r) ==
  LET g == Head(run[r].found)
      inserted == IF row[g] = "none" THEN [row EXCEPT ![g] = "counts"] ELSE row
  IN
  /\ At(r, "take")
  /\ run[r].found # <<>>
  /\ \/ row' = inserted /\ UNCHANGED <<passed, faults>>
     \/ row' \in {row, inserted} /\ Fault /\ passed' = passed \cup {g}
  /\ run' = [run EXCEPT ![r].found = Tail(run[r].found)]
  /\ UNCHANGED catalog

FinishRun(r) ==
  /\ At(r, "take")
  /\ run[r].found = <<>>
  /\ run' = [run EXCEPT ![r] = IdleRun]
  /\ UNCHANGED <<catalog, row, passed, faults>>

Crash(r) ==
  /\ ~At(r, "idle")
  /\ Fault
  /\ passed' = passed \cup SeqRange(run[r].found)
  /\ run' = [run EXCEPT ![r] = IdleRun]
  /\ UNCHANGED <<catalog, row>>

RunStep(r) == FetchPage(r) \/ TakeGranule(r) \/ FinishRun(r)

-----------------------------------------------------------------------------

Next ==
  \/ \E g \in Granules : Publish(g) \/ StatusChange(g)
  \/ \E r \in Runs : StartDiscovery(r) \/ RunStep(r) \/ FetchFails(r) \/ Crash(r)

Spec == Init /\ [][Next]_vars

\* Runs under way go on, and the operator keeps scheduling "ingest".  Nothing
\* obliges CMR to publish or a row to change its status.
Fairness == \A r \in Runs : WF_vars(RunStep(r)) /\ WF_vars(StartDiscovery(r))

LiveSpec == Spec /\ Fairness

-----------------------------------------------------------------------------
(* Properties *)

\* Every variable keeps its type.
TypeOK ==
  /\ catalog \subseteq Granules
  /\ row \in [Granules -> {"none", "counts", "ignored"}]
  /\ run \in [Runs -> [pc : {"idle", "discover", "take"},
                       resume : [ProductSet -> Nat],
                       product : 1..Len(Products),
                       page : Nat \ {0},
                       found : Seq(Granules)]]
  /\ passed \subseteq Granules
  /\ faults \in 0..MaxFaults

\* A row for a newer granule of the product moves the resume point past g.
Overtaken(g) ==
  \E h \in Granules : Product[h] = Product[g] /\ Date[h] > Date[g] /\ row[h] # "none"

\* Newest first and a resume point at the newest leave no hole by themselves:
\* an older granule without a row is still in some run's hands, unless it was
\* published late or a run gave it up (limit, insert error, death) - however
\* runs, pages and publications interleave (run_ingest_inner, discover_product).
NoHoles ==
  \A g \in catalog \ Unusable :
    row[g] = "none" /\ Overtaken(g) =>
      g \in passed \/ \E r \in Runs : g \in SeqRange(run[r].found)

\* "Rejected rows must not advance discovery resume points", nor failed ones: a
\* granule that a run gave up is taken by a later one, unless a newer granule
\* was, at some time, neither failed nor rejected.
OnlySuccessOvertakes ==
  \A g \in Granules \ Unusable :
    g \in catalog ~>
      \/ row[g] # "none"
      \/ \E h \in Granules : Product[h] = Product[g] /\ Date[h] > Date[g] /\ row[h] = "counts"

=============================================================================
