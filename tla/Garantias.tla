------------------------------ MODULE Garantias ------------------------------
(***************************************************************************)
(* What the planners and the CPU promise together.                         *)
(***************************************************************************)
EXTENDS Planificacion, FiniteSets

-----------------------------------------------------------------------------
(* The CPU *)

(* Messages and threads that hold the CPU: SEM_CPU, the dispatcher between  *)
(* its sem_wait and pcb_execute, a PCB on its way to or from the CPU, the   *)
(* CPU itself, and the dispatch server until it posts SEM_CPU.              *)
ManosEnCpu ==
  sem["CPU"] + Uno(pc["corto"] \in {"ready", "aux", "ejecutar"})
  + Len(aCpu) + Uno(pedida) + Len(deCpu) + Uno(pc["despacho"] # "recibir")

(* SEM_CPU lets one process at a time be between pcb_execute and the end of *)
(* the handler of the message that returns it.                              *)
TokenCpu == ManosEnCpu = 1

EnVuelo ==
  {aCpu[k] : k \in DOMAIN aCpu} \cup {deCpu[k].pid : k \in DOMAIN deCpu}
  \cup (IF pedida THEN {pcbExecute} ELSE {})

(* EXECUTE names the process that is on its way to the CPU, runs there or   *)
(* is coming back, and is NULL when there is none: FINALIZAR_PROCESO and    *)
(* the quantum thread decide by it whom to interrupt.                       *)
ExecuteCoherente == EnVuelo = IF execute = Nulo THEN {} ELSE {execute}

-----------------------------------------------------------------------------
(* The lists *)

(* How many places hold the process p *)
Lugares(p) ==
  Veces(cola["NEW"], p) + Veces(cola["READY"], p) + Veces(cola["AUX_READY"], p)
  + Uno(local["largo"] = p) + Uno(pc["corto"] = "ejecutar" /\ local["corto"] = p)
  + Uno(p \in EnVuelo)
  + Uno(pc["despacho"] \in {"cancelar", "exit", "bloquear", "encolar", "interrumpido", "aReady"}
        /\ mensaje.pid = p)
  + Cardinality({i \in Interfaces : ioPid[i] = p})
  + Cardinality(UNION {({i} \X {k \in DOMAIN ioCola[i] : ioCola[i][k] = p}) : i \in Interfaces})
  + Cardinality({k \in DOMAIN colaExit : colaExit[k].pid = p})
  + finMemoria[p]

(* Without FINALIZAR_PROCESO, every process created is in exactly one place *)
(* until the memory is told, once, to release it.                           *)
UnLugar == \A p \in Pids : Lugares(p) = Uno(p < identificador)

-----------------------------------------------------------------------------
(* Multiprogramming *)

(* The degree in force while MULTIPROGRAMACION moves SEM_MULTIPROGRAMACION  *)
GradoEfectivo ==
  IF \E k \in Cambios : cambio[k].paso = "ajuste"
  THEN LET k == CHOOSE k \in Cambios : cambio[k].paso = "ajuste"
       IN  cambio[k].nuevo - cambio[k].falta
  ELSE grado

Admitidos == {p \in Pids : /\ tabla[p] # "NINGUNO"
                           /\ Veces(cola["NEW"], p) = 0
                           /\ local["largo"] # p
                           /\ finMemoria[p] = 0}

(* Without FINALIZAR_PROCESO, the units of SEM_MULTIPROGRAMACION are the     *)
(* degree less the processes admitted, counting the one being admitted,     *)
(* whatever the changes of degree that are half done.                       *)
ConteoMultiprogramacion ==
  sem["MULTIPROGRAMACION"] + Cardinality(Admitidos) + Uno(pc["largo"] \in {"sacar", "agregar"})
    = GradoEfectivo

-----------------------------------------------------------------------------
(* DETENER_PLANIFICACION and INICIAR_PLANIFICACION *)

Mostrando == {i \in Interfaces : ioPc[i] = "mostrar"}

(* The threads between the wait and the post of a planning semaphore *)
EnSeccion(s) ==
  Uno(s = "PLAN_NEW_READY" /\ pc["largo"] \in {"agregar", "mostrar"})
  + (IF s = "PLAN_READY" THEN Uno(pc["despacho"] = "mostrar") + Cardinality(Mostrando) ELSE 0)
  + Uno(s = "PLAN_BLOCKED" /\ pc["despacho"] = "encolar")

(* However DETENER and INICIAR alternate, each planning semaphore has the    *)
(* one unit of a running planner plus one per stopping thread still waiting. *)
CuentaPlanes ==
  \A s \in SemPlanes : sem[s] + EnSeccion(s) = Uno(status) + deteniendo[s]

(* Once the four threads of DETENER_PLANIFICACION have their semaphores, no *)
(* process changes from NEW to READY, into READY, to EXEC or to BLOCKED.    *)
Detenida == ~status /\ \A s \in SemPlanes : deteniendo[s] = 0

DetenidaNoAvanza ==
  [][Detenida => /\ execute' \in {execute, Nulo}
                 /\ \A c \in {"READY", "AUX_READY"} : Len(cola'[c]) <= Len(cola[c])
                 /\ \A i \in Interfaces : Len(ioCola'[i]) <= Len(ioCola[i])]_vars

-----------------------------------------------------------------------------
(* No thread of the kernel takes from an empty list or follows a pointer    *)
(* that is NULL or freed, and no interruption reaches a CPU without PCB.    *)
SinCaidas == vivo /\ cpuViva

(* Under FIFO, and without FINALIZAR_PROCESO, the one thing that can bring   *)
(* the kernel down is the unlocked walk of a READY list that shrank: every   *)
(* unit of a semaphore stands for an element that its list still has.        *)
CaeSoloListando ==
  [][~SinCaidas' => \E l \in Lectores : listado[l].rota /\ ~listado'[l].rota]_<<vivo, cpuViva>>

-----------------------------------------------------------------------------
(* The state of a process as its position shows it *)
EstadoDe(p) ==
  CASE Veces(cola["NEW"], p) > 0 \/ local["largo"] = p -> "NEW"
    [] \/ Veces(cola["READY"], p) + Veces(cola["AUX_READY"], p) > 0
       \/ pc["corto"] = "ejecutar" /\ local["corto"] = p -> "READY"
    [] \/ p \in EnVuelo
       \/ pc["despacho"] \in {"cancelar", "exit", "bloquear", "interrumpido", "aReady"} /\ mensaje.pid = p
         -> "EXEC"
    [] \/ \E i \in Interfaces : ioPid[i] = p \/ Veces(ioCola[i], p) > 0
       \/ pc["despacho"] = "encolar" /\ mensaje.pid = p -> "BLOCKED"
    [] OTHER -> IF p < identificador THEN "EXIT" ELSE "NINGUNO"

Ciclo == INSTANCE CicloDeVida WITH
  Procesos <- Pids, Grado <- GradoInicial, estado <- [p \in Pids |-> EstadoDe(p)]

(* Without FINALIZAR_PROCESO nor MULTIPROGRAMACION, the kernel and the CPU  *)
(* implement the five-state life of a process.                              *)
CicloRespetado == Ciclo!Spec

-----------------------------------------------------------------------------
(* Progress, under the fairness of SpecJusta *)

(* Every process created ends and the memory is told, once, to release it. *)
TodosTerminan == \A p \in Pids : tabla[p] = "NEW" ~> finMemoria[p] = 1

(* The same of a run in which neither the kernel nor the CPU falls: the     *)
(* quantum thread races the return of its own process.                      *)
TodosTerminanSinCaidas == []SinCaidas => TodosTerminan

(* A process in COLA_AUX_READY, the list VRR puts first, gets the CPU. *)
AuxiliarAtendida ==
  []SinCaidas => \A p \in Pids : Veces(cola["AUX_READY"], p) > 0 ~> execute = p

(* Every PCB the kernel sends is received by the CPU. *)
PcbRecibido == aCpu # <<>> ~> aCpu = <<>>

-----------------------------------------------------------------------------
(* FINALIZAR_PROCESO *)

(* The memory of a process is not released while the CPU has its PCB. *)
LiberaTrasRetorno ==
  [][\A p \in Pids : finMemoria'[p] # finMemoria[p] => p \notin EnVuelo]_vars

(* The lists whose semaphore a planner waits for, and the units of each: the *)
(* semaphore, the thread that took a unit and has not yet taken the process, *)
(* and the threads that added one and log the list before they post.        *)
Colas == {"NEW", "READY", "AUX_READY"}
EnLista(c) == {l \in Lectores : listado[l].lista = c}
Pendientes(c) ==
  sem[c] + Uno(c = "NEW" /\ pc["largo"] \in {"orden", "multi", "sacar"}) + Cardinality(EnLista(c))
PendientesIo(i) == ioSem[i] + Uno(ioPc[i] = "obtener")

(* No process is left in a list whose semaphore will not be posted for it,  *)
(* even if FINALIZAR_PROCESO takes others out of the lists.                 *)
UnidadesAlcanzan ==
  /\ \A c \in Colas : Pendientes(c) >= Len(cola[c])
  /\ sem["EXIT"] = Len(colaExit)
  /\ \A i \in Interfaces : PendientesIo(i) >= Len(ioCola[i])

(* FINALIZAR_PROCESO commands that are past the lists: each may have taken a *)
(* process out of a list and left its unit behind.                          *)
Eliminaciones ==
  finalizaciones - Uno(pc["consola"] \in {"verificar", "comparar", "eliminar"})

(* No list has more units than processes but for those: nothing else posts  *)
(* a semaphore twice, takes a process without its unit, or loses one, and   *)
(* without FINALIZAR_PROCESO no planner wakes up for an empty list.         *)
SobrantesAcotados ==
  /\ \A c \in Colas : Pendientes(c) <= Len(cola[c]) + Eliminaciones
  /\ \A i \in Interfaces : PendientesIo(i) <= Len(ioCola[i]) + Eliminaciones

=============================================================================
