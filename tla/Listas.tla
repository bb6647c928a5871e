-------------------------------- MODULE Listas --------------------------------
(***************************************************************************)
(* The lists of the commons library (t_list), as sequences: those that the *)
(* kernel keeps its PCBs and the names of the resources of a process in,   *)
(* and the files of an interface.                                          *)
(***************************************************************************)
EXTENDS Naturals, Sequences, FiniteSets

(* list_remove_element, and list_remove_and_destroy_by_condition by name:   *)
(* the first e goes, if there is one.  It is RemoveFirst of SequencesExt     *)
(* with the elements of the result given one by one.                         *)
ListRemoveElement(lista, e) ==
  IF \A i \in 1..Len(lista) : lista[i] # e THEN lista
  ELSE [j \in 1..(Len(lista) - 1) |->
          IF \E i \in 1..j : lista[i] = e THEN lista[j + 1] ELSE lista[j]]

(* How often e is in the list *)
Veces(lista, e) == Cardinality({k \in DOMAIN lista : lista[k] = e})

\* One if b, to count with
Uno(b) == IF b THEN 1 ELSE 0
=============================================================================
