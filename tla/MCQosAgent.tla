----------------------------- MODULE MCQosAgent -----------------------------
(***************************************************************************)
(* Model checking QosAgent: two filter identifiers, each with two contents *)
(* of which one can be above and one below the other identifier's.         *)
(* Cells, addresses and bearer ids of a kind are interchangeable.          *)
(***************************************************************************)
EXTENDS QosAgent

MCFilters ==
  {[pfid |-> 1, prec |-> 1, dir |-> "UL", flow |-> 1],
   [pfid |-> 1, prec |-> 3, dir |-> "BI", flow |-> 2],
   [pfid |-> 2, prec |-> 2, dir |-> "UL", flow |-> 1],
   [pfid |-> 2, prec |-> 4, dir |-> "DL", flow |-> 2]}

MCSymmetry == Permutations(Nodes) \cup Permutations(Addrs)
                \cup Permutations(DefaultIds) \cup Permutations(DedicatedIds)
=============================================================================
