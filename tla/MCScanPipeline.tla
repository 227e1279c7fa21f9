--------------------------- MODULE MCScanPipeline ---------------------------
(* Instances of ScanPipeline for TLC: the walks a run allows.              *)
EXTENDS ScanPipeline, TLC

Only(classes) ==
    {p \in PlanSpace : \A c \in Classes \ classes : p[c] = {}}
Always(plans) == [new \in BOOLEAN |-> plans]

\* Every walk.
AnyPlans == Always(PlanSpace)
\* Walks of a device seen for the first time.
FirstPlans == Always(Only({"new"}))
\* First walks whose files fill every buffer they start.
FullFirstPlans ==
    {p \in Only({"new"}) : Cardinality(p["new"]) % FlushCount = 0}
\* Rescans that find changed files, but no deleted ones.
CachedPlans == Only({"new", "hit"})
\* Rescans that find deleted files, fewer than a buffer holds, and some others.
DeletePlans ==
    {p \in Only({"hit", "gone"}) :
        p["hit"] # {} /\ Cardinality(p["gone"]) < FlushCount}
\* Rescans without a cache of an unchanged device that fits a buffer.
SamePlans ==
    {p \in Only({"same"}) : Cardinality(p["same"]) < FlushCount}
\* First scans and rescans that complete.
CompletingPlans ==
    [new \in BOOLEAN |-> IF new THEN FullFirstPlans
                         ELSE CachedPlans \cup DeletePlans \cup SamePlans]
\* Unchanged devices without a cache, of any size.
AllSamePlans == Always(Only({"same"}))
Symmetry == Permutations(Files)
=============================================================================
