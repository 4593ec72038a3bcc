--------------------------- MODULE MCScanPipeline ---------------------------
(***************************************************************************)
(* Executions of small scans for TLC.                                      *)
(***************************************************************************)
EXTENDS ScanPipeline, SequencesExt

CONSTANTS MaxAssets, MaxEdges, MaxLinks, MaxFindings

Places == 1..MaxAssets

\* Every scan within the bounds, links only where there are no findings;
\* edges and links lead from the first asset, as those of the connectors do.
AllScans ==
  {s \in [assets : BoundedSeq(AssetKeys, MaxAssets),
          edges : BoundedSeq([from : {1}, to : Places \ {1}], MaxEdges),
          links : BoundedSeq([from : {1}, key : AssetKeys], MaxLinks),
          findings : BoundedSeq([on : Places, source : Sources], MaxFindings)] :
     /\ s.assets # <<>>
     /\ \A i \in 1..Len(s.edges) : {s.edges[i].from, s.edges[i].to} \subseteq 1..Len(s.assets)
     /\ \A i \in 1..Len(s.links) : s.links[i].from \in 1..Len(s.assets)
     /\ \A i \in 1..Len(s.findings) : s.findings[i].on \in 1..Len(s.assets)
     /\ s.links # <<>> => s.edges = <<>> /\ s.findings = <<>>}
=============================================================================
