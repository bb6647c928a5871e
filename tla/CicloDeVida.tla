----------------------------- MODULE CicloDeVida -----------------------------
(***************************************************************************)
(* The five-state life of a process that the kernel promises: how many     *)
(* processes may be admitted at once, that only one executes, and which    *)
(* changes of state exist.  Threads, lists and semaphores do not appear.   *)
(***************************************************************************)
EXTENDS Naturals, FiniteSets

CONSTANTS
  Procesos,
  Grado            (* the degree of multiprogramming *)

VARIABLE estado

Init == estado = [p \in Procesos |-> "NINGUNO"]

Admitidos == {p \in Procesos : estado[p] \in {"READY", "EXEC", "BLOCKED"}}

Pasar(p, de, a) == estado[p] = de /\ estado' = [estado EXCEPT ![p] = a]

Crear(p) == Pasar(p, "NINGUNO", "NEW")
Admitir(p) == Cardinality(Admitidos) < Grado /\ Pasar(p, "NEW", "READY")
Despachar(p) == (\A q \in Procesos : estado[q] # "EXEC") /\ Pasar(p, "READY", "EXEC")
Desalojar(p) == Pasar(p, "EXEC", "READY")
Bloquear(p) == Pasar(p, "EXEC", "BLOCKED")
Desbloquear(p) == Pasar(p, "BLOCKED", "READY")
Terminar(p) == Pasar(p, "EXEC", "EXIT")

Next ==
  \E p \in Procesos :
    Crear(p) \/ Admitir(p) \/ Despachar(p) \/ Desalojar(p) \/ Bloquear(p)
    \/ Desbloquear(p) \/ Terminar(p)

Spec == Init /\ [][Next]_estado

=============================================================================
