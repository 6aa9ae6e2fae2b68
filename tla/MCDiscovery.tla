---------------------------- MODULE MCDiscovery ----------------------------
(* Instances of Discovery for TLC. *)
EXTENDS Discovery, TLC
CONSTANTS r1, r2

\* Three granules of product "A", of which the second does not parse; nothing
\* is published of product "B".
TwoProducts == <<"A", "B">>
OneProduct == [g \in Granules |-> "A"]
ThreeDates == ("a1" :> 1) @@ ("a2" :> 2) @@ ("a3" :> 3)
NoTies == [g \in Granules |-> 1]

\* INGEST_MAX_GRANULES is set for one of the runs.
OneLimited == [r \in Runs |-> IF r = r2 THEN 1 ELSE 0]
=============================================================================
