------------------------------ MODULE MCStTopo ------------------------------
(***************************************************************************)
(* StTopo for TLC: a prefix for each of the three topologies.              *)
(***************************************************************************)
EXTENDS StTopo

TopoByPrefix ==
    [p \in Prefix |-> CASE p = "st" -> "team" [] p = "xx" -> "plain" [] p = "yy" -> "bridge"]
=============================================================================
