---------------------------- MODULE MCInterfaces ----------------------------
(***************************************************************************)
(* Three interchangeable processes, a resource with one instance and one   *)
(* interface.                                                              *)
(***************************************************************************)
EXTENDS Interfaces, TLC

CONSTANTS p1, p2, p3, r1, io1

PidsMC    == {p1, p2, p3}
NombresMC == {r1}
IosMC     == {io1}
InstanciasMC == [r \in NombresMC |-> 1]
Simetria  == Permutations(PidsMC)
=============================================================================
