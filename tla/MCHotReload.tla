---------------------------- MODULE MCHotReload ----------------------------
(* Instances of HotReload for TLC.                                         *)
EXTENDS HotReload

\* Addresses are interchangeable: of those the allocator may return, explore one (a
\* reduction by symmetry that liveness checking permits).
FirstFresh ==
  \A p \in Policies : reg[p] # "built" /\ reg'[p] = "built"
                        => p = CHOOSE q \in Policies : Fresh(q)
=============================================================================
