--------------------------- MODULE MCPlanificacion ---------------------------
(***************************************************************************)
(* The planners on small instances.  io1 is an interface of the kernel,    *)
(* io2 a name that programs use and no interface has.                      *)
(***************************************************************************)
EXTENDS Garantias

CONSTANTS io1, io2

ASSUME ListRemoveElementAssumption ==
  \A lista \in SeqOf({1, 2, 3}, 4), e \in 1..3 :
    ListRemoveElement(lista, e) = RemoveFirst(lista, e)

=============================================================================
