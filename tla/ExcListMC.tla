------------------------------- MODULE ExcListMC ------------------------------
(* Instances of ExcList for TLC. *)
EXTENDS ExcList

(* A first-fit allocator: the lowest free address, so that addresses are    *)
(* reused as soon as they are freed; nothing when the heap is used up.      *)
FirstFit(L) == {a \in Addr \ L : \A b \in Addr \ L : a <= b}
=============================================================================
