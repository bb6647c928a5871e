---------------------------- MODULE Planificacion ----------------------------
(***************************************************************************)
(* The planners of the kernel (src/kernel) running against the CPU of      *)
(* module Cpu.  One process component per thread:                          *)
(*   consola   the console commands, run one at a time by the main thread  *)
(*   largo     planificador_largo_plazo: send_new_to_ready; end_process    *)
(*   corto     planificador_FIFO / planificador_RR / planificador_VRR      *)
(*   quantum   funcion_hilo_quantum, created and joined by corto           *)
(*   despacho  atender_kernel_cpu_dispatch                                 *)
(*   one atender_kernel_IO thread for each connected interface             *)
(*   the detached threads of DETENER_PLANIFICACION and MULTIPROGRAMACION   *)
(*                                                                         *)
(* A step of a thread ends where another thread can tell the difference: a *)
(* critical section of a mutex is one step, a semaphore that is taken and  *)
(* given back around one step is a guard.  Time is left out: a quantum may *)
(* end at any moment, an I/O takes any number of steps.                    *)
(***************************************************************************)
EXTENDS Cpu, Integers, SequencesExt, Listas

CONSTANTS
  Interfaces,      (* the interfaces connected to the kernel                *)
  Algoritmo,       (* ALGORITMO_PLANIFICACION of kernel.config              *)
  GradoInicial,    (* GRADO_MULTIPROGRAMACION of kernel.config              *)
  Grados,          (* arguments given to MULTIPROGRAMACION                  *)
  MaxCambios,      (* bounds the MULTIPROGRAMACION commands                 *)
  MaxFinalizar,    (* bounds the FINALIZAR_PROCESO commands                 *)
  MaxDetener       (* bounds the DETENER_PLANIFICACION commands             *)

ASSUME InterfacesAssumption ==
  Interfaces \subseteq NombresIO /\ IsFiniteSet(Interfaces) /\ SinInterfaz \notin NombresIO
ASSUME AlgoritmoAssumption == Algoritmo \in {"FIFO", "RR", "VRR"}
ASSUME GradosAssumption == GradoInicial \in Nat /\ Grados \subseteq Nat
ASSUME CotasAssumption == MaxCambios \in Nat /\ MaxFinalizar \in Nat /\ MaxDetener \in Nat

Hilos == {"consola", "largo", "corto", "quantum", "despacho"}

ASSUME NombresAssumption == Interfaces \cap Hilos = {}

(* The threads that add to COLA_READY and COLA_AUX_READY, and log them *)
Lectores == {"largo", "despacho"} \cup Interfaces

(* The SEM_PLANIFICACION_*_INICIADA semaphores and all the others *)
SemPlanes == {"PLAN_NEW_READY", "PLAN_READY", "PLAN_EXEC", "PLAN_BLOCKED"}
Semaforos == SemPlanes \cup
  {"NEW", "READY", "AUX_READY", "EXIT", "MULTIPROGRAMACION", "CPU", "ORDEN"}

Estados == {"NINGUNO", "NEW", "READY", "EXEC", "BLOCKED", "FINISHED"}
Cambios == 1..MaxCambios

(* An element of COLA_EXIT points to the PCB of the table, to the PCB just   *)
(* received that is not in the table yet, or to a PCB update_pcb has freed.  *)
Salidas == [pid : Pids, objeto : {"tabla", "nuevo", "liberado"}]
Listados == [lista : {"NINGUNA", "READY", "AUX_READY"}, rota : BOOLEAN]
SinListado == [lista |-> "NINGUNA", rota |-> FALSE]
SinMensaje == [motivo |-> "NINGUNO", pid |-> Nulo, interfaz |-> SinInterfaz]

VARIABLES
  sem,             (* the semaphores of syncro.c                            *)
  cola,            (* COLA_NEW, COLA_READY, COLA_AUX_READY                  *)
  colaExit,        (* COLA_EXIT                                             *)
  tabla,           (* table_pcb: the state of the PCB stored under each pid *)
  listado,         (* the list each thread logs, and if it lost an element  *)
  pc,              (* what each thread does next                            *)
  local,           (* the pid of the PCB each thread holds a pointer to     *)
  colgados,        (* threads whose pointer is to a PCB already freed       *)
  execute,         (* EXECUTE                                               *)
  mensaje,         (* the message despacho is working on                    *)
  datos,           (* datos_hilo_quantum                                    *)
  enviada,         (* interrupcion_enviada                                  *)
  parcial,         (* pids whose PCB has less than a whole quantum left     *)
  ioCola, ioSem,   (* cola_procesos_bloqueados and its semaphore            *)
  ioPc, ioPid,     (* the atender_kernel_IO threads                         *)
  identificador,   (* identificador_PID                                     *)
  dic,             (* MUTEX_DICTIONARY: free, or locked by nobody alive     *)
  finalizaciones,  (* FINALIZAR_PROCESO commands given                      *)
  status,          (* planificador_status                                   *)
  deteniendo,      (* stopping threads still waiting for their semaphore    *)
  detenciones,     (* DETENER_PLANIFICACION commands given                  *)
  grado,           (* grado_multiprogramacion                               *)
  cambio,          (* the cambiar_grado_multiprogramacion threads           *)
  finMemoria,      (* end-of-process messages sent to the memory, per pid   *)
  vivo             (* FALSE once the kernel dereferenced a bad pointer      *)

listas == <<cola, colaExit, tabla, listado>>
hilos == <<pc, local, colgados>>
quantumVars == <<datos, enviada, parcial>>
ioVars == <<ioCola, ioSem, ioPc, ioPid>>
consolaVars == <<identificador, dic, finalizaciones>>
planVars == <<status, deteniendo, detenciones, grado, cambio>>
gestionVars == <<consolaVars, planVars, finMemoria>>
turnoVars == <<execute, mensaje>>
kernelVars == <<sem, listas, hilos, turnoVars, quantumVars, ioVars, gestionVars, vivo>>
vars == <<cpuVars, kernelVars>>

SemTypeOK == sem \in [Semaforos -> Nat]

ListasTypeOK ==
  /\ cola \in [{"NEW", "READY", "AUX_READY"} -> Seq(Pids)]
  /\ colaExit \in Seq(Salidas)
  /\ tabla \in [Pids -> Estados]
  /\ listado \in [Lectores -> Listados]

PasosConsola == {"listo", "verificar", "comparar", "eliminar", "encolar", "trabada"}
PasosLargo == {"espera", "orden", "multi", "sacar", "agregar", "mostrar"}
PasosCorto == {"elegir", "cpu", "cpuAux", "ready", "aux", "ejecutar", "quantum", "unir"}
PasosQuantum == {"ninguno", "crear", "dormir", "fin"}
PasosDespacho ==
  {"recibir", "cancelar", "exit", "actualizar", "bloquear", "encolar", "interrumpido", "aReady",
   "mostrar"}
Pasos == PasosConsola \cup PasosLargo \cup PasosCorto \cup PasosQuantum \cup PasosDespacho

HilosTypeOK ==
  /\ pc \in [Hilos -> Pasos]
  /\ pc["consola"] \in PasosConsola
  /\ pc["largo"] \in PasosLargo
  /\ pc["corto"] \in PasosCorto
  /\ pc["quantum"] \in PasosQuantum
  /\ pc["despacho"] \in PasosDespacho
  /\ local \in [Hilos -> PidsONulo]
  /\ colgados \subseteq {"consola", "corto"}

TurnoTypeOK ==
  /\ execute \in PidsONulo
  /\ mensaje \in Mensajes \cup {SinMensaje}
  /\ datos \in [estado : {"nulo", "vivo", "liberado"}, pid : PidsONulo]
  /\ enviada \in BOOLEAN
  /\ parcial \subseteq Pids
  /\ vivo \in BOOLEAN

IoTypeOK ==
  /\ ioCola \in [Interfaces -> Seq(Pids)]
  /\ ioSem \in [Interfaces -> Nat]
  /\ ioPc \in [Interfaces -> {"esperar", "obtener", "servicio", "agregar", "mostrar", "fin"}]
  /\ ioPid \in [Interfaces -> PidsONulo]

GestionTypeOK ==
  /\ identificador \in 1..(MaxPid + 1)
  /\ dic \in {"libre", "abandonado"}
  /\ finalizaciones \in 0..MaxFinalizar
  /\ status \in BOOLEAN
  /\ deteniendo \in [SemPlanes -> Nat]
  /\ detenciones \in 0..MaxDetener
  /\ grado \in Nat
  /\ cambio \in [Cambios -> [paso : {"libre", "orden", "ajuste", "hecho"},
                             nuevo : Nat, falta : Int]]
  /\ finMemoria \in [Pids -> Nat]

TypeOK ==
  CpuTypeOK /\ SemTypeOK /\ ListasTypeOK /\ HilosTypeOK /\ TurnoTypeOK /\ IoTypeOK /\ GestionTypeOK

KernelInit ==
  /\ sem = [s \in Semaforos |->
              IF s = "MULTIPROGRAMACION" THEN GradoInicial
              ELSE IF s \in SemPlanes \cup {"CPU", "ORDEN"} THEN 1 ELSE 0]
  /\ cola = [c \in {"NEW", "READY", "AUX_READY"} |-> <<>>]
  /\ colaExit = <<>>
  /\ tabla = [p \in Pids |-> "NINGUNO"]
  /\ listado = [l \in Lectores |-> SinListado]
  /\ pc = [consola |-> "listo", largo |-> "espera", corto |-> "elegir",
           quantum |-> "ninguno", despacho |-> "recibir"]
  /\ local = [h \in Hilos |-> Nulo]
  /\ colgados = {}
  /\ execute = Nulo
  /\ mensaje = SinMensaje
  /\ datos = [estado |-> "nulo", pid |-> Nulo]
  /\ enviada = FALSE
  /\ parcial = {}
  /\ ioCola = [i \in Interfaces |-> <<>>]
  /\ ioSem = [i \in Interfaces |-> 0]
  /\ ioPc = [i \in Interfaces |-> "esperar"]
  /\ ioPid = [i \in Interfaces |-> Nulo]
  /\ identificador = 1
  /\ dic = "libre"
  /\ finalizaciones = 0
  /\ status = TRUE
  /\ deteniendo = [s \in SemPlanes |-> 0]
  /\ detenciones = 0
  /\ grado = GradoInicial
  /\ cambio = [k \in Cambios |-> [paso |-> "libre", nuevo |-> 0, falta |-> 0]]
  /\ finMemoria = [p \in Pids |-> 0]
  /\ vivo = TRUE

Init == CpuInit /\ KernelInit

-----------------------------------------------------------------------------
(* Semaphores, threads and the PCB table.  An operator with a variant right *)
(* before it (EsperarSinBloquear, ListGet...) has there the mistake that the  *)
(* properties must tell from it; no action uses the variants.               *)

EsperarSinBloquear(s) == sem' = [sem EXCEPT ![s] = @ - 1]
EsperarSinTomar(s) == sem[s] > 0 /\ UNCHANGED sem
Esperar(s) == sem[s] > 0 /\ sem' = [sem EXCEPT ![s] = @ - 1]
Publicar(s) == sem' = [sem EXCEPT ![s] = @ + 1]

(* sem_wait and sem_post around one step: the semaphore is only a guard *)
AbiertoSiempre(s) == sem[s] >= 0
Abierto(s) == sem[s] > 0

(* list_remove(lista, 0), where list_get would leave the element in place *)
ListGet(lista) == lista
ListRemove(lista) == Tail(lista)

En(h, paso) == pc[h] = paso
Ir(h, paso) == pc' = [pc EXCEPT ![h] = paso]
Tener(h, p) == local' = [local EXCEPT ![h] = p] /\ colgados' = colgados \ {h}

(* A dereferenced NULL or freed pointer takes the whole process down. *)
Caer == vivo' = FALSE

(* update_pcb: the PCB of the table is freed and the received one, whose    *)
(* state is e, takes its place.  Whoever still points to the old one is     *)
(* left with a dangling pointer.                                            *)
Reemplazado(s, p) ==
  [i \in DOMAIN s |->
     IF s[i].pid # p THEN s[i]
     ELSE [s[i] EXCEPT !.objeto = IF @ = "nuevo" THEN "tabla" ELSE "liberado"]]

ActualizarTabla(p, e) ==
  /\ dic = "libre"
  /\ tabla' = [tabla EXCEPT ![p] = e]
  /\ colaExit' = Reemplazado(colaExit, p)
  /\ colgados' = colgados \cup {h \in {"consola", "corto"} : local[h] = p}

(* mostrar_elementos_de_cola walks a READY list with no lock, once the PCB   *)
(* is in it and before its semaphore is posted: an element removed meanwhile *)
(* is read as NULL, or after its free, unless the walk is already past it.   *)
Listar(l, c) == listado' = [listado EXCEPT ![l] = [lista |-> c, rota |-> FALSE]]
RomperListados(c) ==
  listado' = [l \in Lectores |->
                IF listado[l].lista = c THEN [listado[l] EXCEPT !.rota = TRUE] ELSE listado[l]]
TerminarListado(l) ==
  /\ listado' = [listado EXCEPT ![l] = SinListado]
  /\ vivo' \in IF listado[l].rota THEN BOOLEAN ELSE {vivo}

(* agregar_a_cola_ready, or agregar_a_cola_ready_VRR under VRR *)
ColaAuxiliarDe(p) == IF p \in Pids THEN "AUX_READY" ELSE "READY"
ColaReadyDe(p) == IF Algoritmo = "VRR" /\ p \in parcial THEN "AUX_READY" ELSE "READY"
-----------------------------------------------------------------------------
(* Console: INICIAR_PROCESO, DETENER_, INICIAR_PLANIFICACION, MULTIPROGRAMACION *)

IniciarProceso ==
  /\ En("consola", "listo") /\ dic = "libre"
  /\ status
  /\ identificador <= MaxPid
  /\ identificador' = identificador + 1
  /\ tabla' = [tabla EXCEPT ![identificador] = "NEW"]
  /\ cola' = [cola EXCEPT !["NEW"] = Append(@, identificador)]
  /\ Publicar("NEW")
  /\ UNCHANGED <<cpuVars, colaExit, listado, hilos, turnoVars, quantumVars, ioVars, dic, finalizaciones,
                 planVars, finMemoria, vivo>>

(* INICIAR_PROCESO or FINALIZAR_PROCESO after get_pcb kept MUTEX_DICTIONARY *)
ConsolaTrabada ==
  /\ En("consola", "listo") /\ dic = "abandonado"
  /\ Ir("consola", "trabada")
  /\ UNCHANGED <<cpuVars, sem, listas, local, colgados, turnoVars, quantumVars, ioVars, gestionVars,
                 vivo>>

DetenerPlanificacion ==
  /\ En("consola", "listo")
  /\ status
  /\ detenciones < MaxDetener
  /\ detenciones' = detenciones + 1
  /\ status' = FALSE
  /\ deteniendo' = [s \in SemPlanes |-> deteniendo[s] + 1]
  /\ UNCHANGED <<cpuVars, sem, listas, hilos, turnoVars, quantumVars, ioVars, consolaVars, grado,
                 cambio, finMemoria, vivo>>

(* detener_cola_new, _ready, _exec and _blocked, each in a detached thread *)
DetenerCola(s) ==
  /\ deteniendo[s] > 0
  /\ Esperar(s)
  /\ deteniendo' = [deteniendo EXCEPT ![s] = @ - 1]
  /\ UNCHANGED <<cpuVars, listas, hilos, turnoVars, quantumVars, ioVars, consolaVars, status,
                 detenciones, grado, cambio, finMemoria, vivo>>

IniciarSinMirar ==
  /\ En("consola", "listo")
  /\ status' = TRUE
  /\ sem' = [s \in Semaforos |-> IF s \in SemPlanes THEN sem[s] + 1 ELSE sem[s]]
  /\ UNCHANGED <<cpuVars, listas, hilos, turnoVars, quantumVars, ioVars, consolaVars, deteniendo,
                 detenciones, grado, cambio, finMemoria, vivo>>
IniciarPlanificacion ==
  /\ En("consola", "listo")
  /\ ~status
  /\ status' = TRUE
  /\ sem' = [s \in Semaforos |-> IF s \in SemPlanes THEN sem[s] + 1 ELSE sem[s]]
  /\ UNCHANGED <<cpuVars, listas, hilos, turnoVars, quantumVars, ioVars, consolaVars, deteniendo,
                 detenciones, grado, cambio, finMemoria, vivo>>

CambiarGrado(k, g) ==
  /\ En("consola", "listo")
  /\ cambio[k].paso = "libre"
  /\ cambio' = [cambio EXCEPT ![k] = [paso |-> "orden", nuevo |-> g, falta |-> 0]]
  /\ UNCHANGED <<cpuVars, sem, listas, hilos, turnoVars, quantumVars, ioVars, consolaVars, status,
                 deteniendo, detenciones, grado, finMemoria, vivo>>

(* cambiar_grado_multiprogramacion: falta is what remains of diferencia *)
CambioTomarSinOrden(k) ==
  /\ cambio[k].paso = "orden"
  /\ cambio' = [cambio EXCEPT ![k].paso = "ajuste", ![k].falta = cambio[k].nuevo - grado]
  /\ UNCHANGED <<cpuVars, sem, listas, hilos, turnoVars, quantumVars, ioVars, consolaVars, status,
                 deteniendo, detenciones, grado, finMemoria, vivo>>
CambioTomar(k) ==
  /\ cambio[k].paso = "orden"
  /\ Esperar("ORDEN")
  /\ cambio' = [cambio EXCEPT ![k].paso = "ajuste", ![k].falta = cambio[k].nuevo - grado]
  /\ UNCHANGED <<cpuVars, listas, hilos, turnoVars, quantumVars, ioVars, consolaVars, status,
                 deteniendo, detenciones, grado, finMemoria, vivo>>

CambioAjustar(k) ==
  /\ cambio[k].paso = "ajuste"
  /\ \/ /\ cambio[k].falta > 0
        /\ Publicar("MULTIPROGRAMACION")
        /\ cambio' = [cambio EXCEPT ![k].falta = @ - 1]
     \/ /\ cambio[k].falta < 0
        /\ Esperar("MULTIPROGRAMACION")
        /\ cambio' = [cambio EXCEPT ![k].falta = @ + 1]
  /\ UNCHANGED <<cpuVars, listas, hilos, turnoVars, quantumVars, ioVars, consolaVars, status,
                 deteniendo, detenciones, grado, finMemoria, vivo>>

CambioTerminar(k) ==
  /\ cambio[k].paso = "ajuste" /\ cambio[k].falta = 0
  /\ grado' = cambio[k].nuevo
  /\ Publicar("ORDEN")
  /\ cambio' = [cambio EXCEPT ![k].paso = "hecho"]
  /\ UNCHANGED <<cpuVars, listas, hilos, turnoVars, quantumVars, ioVars, consolaVars, status,
                 deteniendo, detenciones, finMemoria, vivo>>
-----------------------------------------------------------------------------
(* Console: FINALIZAR_PROCESO.  The command reads the table, the state of   *)
(* the PCB, EXECUTE and the lists one after the other with no lock held.    *)

FinalizarBuscar(p) ==
  /\ En("consola", "listo") /\ dic = "libre"
  /\ finalizaciones < MaxFinalizar
  /\ finalizaciones' = finalizaciones + 1
  /\ \/ /\ identificador = 1                      (* table_pcb is empty *)
        /\ dic' = "abandonado"
        /\ UNCHANGED hilos
     \/ /\ tabla[p] # "NINGUNO"
        /\ Ir("consola", "verificar") /\ Tener("consola", p)
        /\ UNCHANGED dic
  /\ UNCHANGED <<cpuVars, sem, listas, turnoVars, quantumVars, ioVars, identificador, planVars,
                 finMemoria, vivo>>

(* The state a pointer shows: anything at all once the PCB was freed *)
EstadoLeido(h) == IF h \in colgados THEN Estados ELSE {tabla[local[h]]}

FinalizarVerificar ==
  /\ En("consola", "verificar")
  /\ \E e \in EstadoLeido("consola") :
       \/ e = "FINISHED" /\ Ir("consola", "listo") /\ Tener("consola", Nulo)
       \/ /\ e # "FINISHED"
          /\ Ir("consola", IF execute = Nulo THEN "eliminar" ELSE "comparar")
          /\ UNCHANGED <<local, colgados>>
  /\ UNCHANGED <<cpuVars, sem, listas, turnoVars, quantumVars, ioVars, gestionVars, vivo>>

(* EXECUTE is read again to compare its pid. *)
FinalizarComparar ==
  /\ En("consola", "comparar")
  /\ \/ /\ execute = Nulo
        /\ Caer
        /\ UNCHANGED <<hilos, canalInt, enviada>>
     \/ /\ execute = local["consola"]
        /\ Len(canalInt) < MaxCanal
        /\ canalInt' = Append(canalInt, [tipo |-> "EXIT", pid |-> execute])
        /\ enviada' = TRUE
        /\ Ir("consola", "listo") /\ Tener("consola", Nulo)
        /\ UNCHANGED vivo
     \/ /\ execute \notin {Nulo, local["consola"]}
        /\ Ir("consola", "eliminar")
        /\ UNCHANGED <<local, colgados, canalInt, enviada, vivo>>
  /\ UNCHANGED <<aCpu, deCpu, cpuInterna, sem, listas, turnoVars, datos, parcial, ioVars, gestionVars>>

(* eliminar_de_listas_de_estado: NEW and READY by pointer, BLOCKED by pid in *)
(* every interface.  COLA_AUX_READY and the semaphores are left alone, and a *)
(* freed PCB is found in no list.                                            *)
FinalizarEliminar ==
  /\ En("consola", "eliminar")
  /\ Ir("consola", "encolar")
  /\ LET p == local["consola"]
         e == IF "consola" \in colgados THEN "NINGUNO" ELSE tabla[p]
     IN  /\ cola' = IF e \in {"NEW", "READY"}
                    THEN [cola EXCEPT ![e] = ListRemoveElement(@, p)] ELSE cola
         /\ ioCola' = IF e = "BLOCKED"
                      THEN [i \in Interfaces |-> ListRemoveElement(ioCola[i], p)] ELSE ioCola
  /\ IF cola'["READY"] # cola["READY"] THEN RomperListados("READY") ELSE UNCHANGED listado
  /\ UNCHANGED <<cpuVars, sem, colaExit, tabla, local, colgados, turnoVars, quantumVars, ioSem,
                 ioPc, ioPid, gestionVars, vivo>>

(* agregar_a_cola_exit *)
FinalizarEncolar ==
  /\ En("consola", "encolar")
  /\ LET p == local["consola"]
         libre == "consola" \in colgados
     IN  /\ colaExit' = Append(colaExit,
                          [pid |-> p, objeto |-> IF libre THEN "liberado" ELSE "tabla"])
         /\ tabla' = IF libre THEN tabla ELSE [tabla EXCEPT ![p] = "FINISHED"]
  /\ Publicar("EXIT")
  /\ Ir("consola", "listo") /\ Tener("consola", Nulo)
  /\ UNCHANGED <<cpuVars, cola, listado, turnoVars, quantumVars, ioVars, gestionVars, vivo>>

-----------------------------------------------------------------------------
(* send_new_to_ready *)

LargoEsperar ==
  /\ En("largo", "espera")
  /\ Esperar("NEW")
  /\ Ir("largo", IF cola["NEW"] = <<>> THEN "espera" ELSE "orden")
  /\ UNCHANGED <<cpuVars, listas, local, colgados, turnoVars, quantumVars, ioVars, gestionVars,
                 vivo>>

(* SEM_ORDEN_CAMBIO_MULTIPROGRAMACION is taken and given back at once. *)
LargoOrden ==
  /\ En("largo", "orden")
  /\ Abierto("ORDEN")
  /\ Ir("largo", "multi")
  /\ UNCHANGED <<cpuVars, sem, listas, local, colgados, turnoVars, quantumVars, ioVars, gestionVars,
                 vivo>>

LargoMulti ==
  /\ En("largo", "multi")
  /\ Esperar("MULTIPROGRAMACION")
  /\ Ir("largo", "sacar")
  /\ UNCHANGED <<cpuVars, listas, local, colgados, turnoVars, quantumVars, ioVars, gestionVars,
                 vivo>>

LargoSacar ==
  /\ En("largo", "sacar")
  /\ Esperar("PLAN_NEW_READY")
  /\ Ir("largo", "agregar")
  /\ \/ /\ cola["NEW"] = <<>>
        /\ Caer
        /\ UNCHANGED <<cola, local, colgados>>
     \/ /\ cola["NEW"] # <<>>
        /\ cola' = [cola EXCEPT !["NEW"] = ListRemove(@)]
        /\ Tener("largo", Head(cola["NEW"]))
        /\ UNCHANGED vivo
  /\ UNCHANGED <<cpuVars, colaExit, tabla, listado, turnoVars, quantumVars, ioVars, gestionVars>>

LargoAgregar ==
  /\ En("largo", "agregar")
  /\ LET p == local["largo"]
     IN  /\ tabla' = [tabla EXCEPT ![p] = "READY"]
         /\ cola' = [cola EXCEPT !["READY"] = Append(@, p)]
  /\ Listar("largo", "READY")
  /\ Ir("largo", "mostrar") /\ Tener("largo", Nulo)
  /\ UNCHANGED <<cpuVars, sem, colaExit, turnoVars, quantumVars, ioVars, gestionVars, vivo>>

LargoMostrar ==
  /\ En("largo", "mostrar")
  /\ TerminarListado("largo")
  /\ sem' = [sem EXCEPT !["READY"] = @ + 1, !["PLAN_NEW_READY"] = @ + 1]
  /\ Ir("largo", "espera")
  /\ UNCHANGED <<cpuVars, cola, colaExit, tabla, local, colgados, turnoVars, quantumVars, ioVars,
                 gestionVars>>

(* end_process.  The pid of a freed PCB is garbage and names no process.    *)
(* Every unit of SEM_EXIT has its element (UnidadesAlcanzan of Garantias).  *)
EndProcess ==
  /\ sem["EXIT"] > 0
  /\ colaExit # <<>>
  /\ sem' = [sem EXCEPT !["EXIT"] = @ - 1, !["MULTIPROGRAMACION"] = @ + 1]
  /\ colaExit' = ListRemove(colaExit)
  /\ finMemoria' = IF Head(colaExit).objeto = "liberado" THEN finMemoria
                   ELSE [finMemoria EXCEPT ![Head(colaExit).pid] = @ + 1]
  /\ UNCHANGED <<cpuVars, cola, tabla, listado, hilos, turnoVars, quantumVars, ioVars, consolaVars, planVars,
                 vivo>>
-----------------------------------------------------------------------------
(* planificador_FIFO, planificador_RR, planificador_VRR *)

(* Only VRR looks at COLA_AUX_READY, and it does so before waiting SEM_CPU. *)
CortoElegir ==
  /\ En("corto", "elegir")
  /\ Ir("corto", IF Algoritmo = "VRR" /\ cola["AUX_READY"] # <<>> THEN "cpuAux" ELSE "cpu")
  /\ UNCHANGED <<cpuVars, sem, listas, local, colgados, turnoVars, quantumVars, ioVars, gestionVars,
                 vivo>>

CortoCpu ==
  /\ pc["corto"] \in {"cpu", "cpuAux"}
  /\ Esperar("CPU")
  /\ Ir("corto", IF pc["corto"] = "cpu" THEN "ready" ELSE "aux")
  /\ UNCHANGED <<cpuVars, listas, local, colgados, turnoVars, quantumVars, ioVars, gestionVars,
                 vivo>>

(* From COLA_READY, VRR gives the process a whole quantum again. *)
CortoSacar(paso, c) ==
  /\ En("corto", paso)
  /\ Esperar(c)
  /\ Ir("corto", "ejecutar")
  /\ \/ /\ cola[c] = <<>>
        /\ Caer
        /\ UNCHANGED <<cola, listado, local, colgados, parcial>>
     \/ /\ cola[c] # <<>>
        /\ cola' = [cola EXCEPT ![c] = ListRemove(@)]
        /\ RomperListados(c)
        /\ Tener("corto", Head(cola[c]))
        /\ parcial' = IF c = "READY" THEN parcial \ {Head(cola[c])} ELSE parcial
        /\ UNCHANGED vivo
  /\ UNCHANGED <<cpuVars, colaExit, tabla, turnoVars, datos, enviada, ioVars, gestionVars>>

(* pcb_execute *)
CortoEjecutar ==
  /\ En("corto", "ejecutar")
  /\ Abierto("PLAN_EXEC")
  /\ LET p == local["corto"]
     IN  /\ execute' = p
         /\ tabla' = [tabla EXCEPT ![p] = "EXEC"]
         /\ aCpu' = Append(aCpu, p)
  /\ IF Algoritmo = "FIFO"
     THEN Ir("corto", "elegir") /\ Tener("corto", Nulo)
     ELSE Ir("corto", "quantum") /\ UNCHANGED <<local, colgados>>
  /\ UNCHANGED <<deCpu, canalInt, cpuInterna, sem, cola, colaExit, listado, mensaje, quantumVars, ioVars,
                 gestionVars, vivo>>

(* RR reads EXECUTE->pid, VRR the pid of the PCB it has just sent: either    *)
(* may be gone by now.                                                       *)
PidDelQuantum ==
  IF Algoritmo = "RR" THEN {execute}
  ELSE IF "corto" \in colgados THEN PidsONulo ELSE {local["corto"]}

InterrupcionQuantum ==
  /\ En("corto", "quantum")
  /\ \/ /\ Algoritmo = "RR" /\ execute = Nulo
        /\ Caer
        /\ UNCHANGED hilos
     \/ /\ Algoritmo = "RR" => execute # Nulo
        /\ pc' = [pc EXCEPT !.corto = "unir", !.quantum = "crear"]
        /\ \E p \in PidDelQuantum : local' = [local EXCEPT !.corto = Nulo, !.quantum = p]
        /\ colgados' = colgados \ {"corto"}
        /\ UNCHANGED vivo
  /\ UNCHANGED <<cpuVars, sem, listas, turnoVars, quantumVars, ioVars, gestionVars>>

(* funcion_hilo_quantum *)
QuantumCrear ==
  /\ En("quantum", "crear")
  /\ datos' = [estado |-> "vivo", pid |-> local["quantum"]]
  /\ enviada' = FALSE
  /\ Ir("quantum", "dormir") /\ Tener("quantum", Nulo)
  /\ UNCHANGED <<cpuVars, sem, listas, turnoVars, parcial, ioVars, gestionVars, vivo>>

QuantumVencer ==
  /\ En("quantum", "dormir")
  /\ Ir("quantum", "fin")
  /\ \/ /\ execute # Nulo /\ execute = datos.pid
        /\ Len(canalInt) < MaxCanal
        /\ canalInt' = Append(canalInt, [tipo |-> "QUANTUM", pid |-> execute])
        /\ enviada' = TRUE
     \/ /\ execute = Nulo \/ execute # datos.pid
        /\ UNCHANGED <<canalInt, enviada>>
  /\ UNCHANGED <<aCpu, deCpu, cpuInterna, sem, listas, local, colgados, turnoVars, datos, parcial, ioVars,
                 gestionVars, vivo>>

(* pthread_join: corto goes on only when the quantum thread is over. *)
CortoUnir ==
  /\ En("corto", "unir") /\ En("quantum", "fin")
  /\ pc' = [pc EXCEPT !.corto = "elegir", !.quantum = "ninguno"]
  /\ UNCHANGED <<cpuVars, sem, listas, local, colgados, turnoVars, quantumVars, ioVars, gestionVars,
                 vivo>>

-----------------------------------------------------------------------------
(* atender_kernel_cpu_dispatch *)

(* cancelar_quantum_si_corresponde(p), after which despacho is at destino.  *)
(* A datos_hilo_quantum freed before is read and freed again, and a thread  *)
(* already joined is cancelled: the program may go on or be aborted.        *)
CancelarQuantum(p, destino) ==
  \/ /\ Algoritmo = "FIFO"
     /\ Ir("despacho", destino)
     /\ UNCHANGED <<datos, vivo>>
  \/ /\ Algoritmo # "FIFO" /\ datos.estado = "nulo"
     /\ Ir("despacho", destino)
     /\ Caer
     /\ UNCHANGED datos
  \/ /\ Algoritmo # "FIFO" /\ datos.estado = "liberado"
     /\ Ir("despacho", destino)
     /\ vivo' \in BOOLEAN
     /\ UNCHANGED datos
  \/ /\ Algoritmo # "FIFO" /\ datos.estado = "vivo"
     /\ LET cancela == datos.pid = p /\ ~enviada
        IN  /\ pc' = [pc EXCEPT !.despacho = destino,
                                !.quantum = IF cancela /\ @ = "dormir" THEN "fin" ELSE @]
            /\ vivo' \in IF cancela /\ pc["quantum"] \in {"ninguno", "crear"}
                         THEN BOOLEAN ELSE {vivo}
     /\ datos' = [estado |-> "liberado", pid |-> Nulo]

(* actualizar_quantum: only VRR runs the chronometer *)
ActualizarQuantum(p) ==
  IF Algoritmo = "VRR" THEN parcial' \in {parcial \cup {p}, parcial \ {p}} ELSE UNCHANGED parcial

ExecuteIntacto == execute' = execute
ExecuteToNull == execute' = Nulo

RecibirDe(motivos) ==
  /\ En("despacho", "recibir")
  /\ deCpu # <<>>
  /\ Head(deCpu).motivo \in motivos
  /\ mensaje' = Head(deCpu)
  /\ deCpu' = Tail(deCpu)
  /\ ExecuteToNull
  /\ UNCHANGED <<aCpu, canalInt, cpuInterna>>

(* procesar_pcb_exit and procesar_ios_*, up to execute_to_null *)
RecibirPcbOSolicitud ==
  /\ RecibirDe({"EXIT", "FINISH_PROCESS", "OUT_OF_MEMORY", "IO"})
  /\ Ir("despacho", "cancelar")
  /\ UNCHANGED <<sem, listas, local, colgados, quantumVars, ioVars, gestionVars, vivo>>

(* The quantum thread is cancelled once MUTEX_EXECUTE has been released.  An *)
(* I/O on an interface the kernel does not know ends the process.            *)
Cancelar ==
  /\ En("despacho", "cancelar")
  /\ CancelarQuantum(mensaje.pid,
       IF mensaje.motivo = "IO" /\ mensaje.interfaz \in Interfaces THEN "bloquear" ELSE "exit")
  /\ IF mensaje.motivo = "IO" THEN ActualizarQuantum(mensaje.pid) ELSE UNCHANGED parcial
  /\ UNCHANGED <<cpuVars, sem, listas, local, colgados, turnoVars, enviada, ioVars, gestionVars>>

(* procesar_interrupcion_quantum *)
RecibirInterrumpido ==
  /\ RecibirDe({"QUANTUM"})
  /\ Ir("despacho", "interrumpido")
  /\ ActualizarQuantum(Head(deCpu).pid)
  /\ UNCHANGED <<sem, listas, local, colgados, datos, enviada, ioVars, gestionVars, vivo>>
(* The PCB received was built by pcb_create: its state is NEW until it is    *)
(* queued again, and update_pcb shows it in the table.                       *)
ActualizarPcbQuantum ==
  /\ En("despacho", "interrumpido")
  /\ ActualizarTabla(mensaje.pid, "NEW")
  /\ Ir("despacho", "aReady")
  /\ UNCHANGED <<cpuVars, sem, cola, listado, local, turnoVars, quantumVars, ioVars, gestionVars, vivo>>

(* despacho gives SEM_CPU back and waits for the next message. *)
Terminar == Ir("despacho", "recibir") /\ mensaje' = SinMensaje

(* agregar_de_execute_a_ready, with SEM_PLANIFICACION_READY_INICIADA taken *)
AgregarDeExecuteAReady ==
  /\ En("despacho", "aReady")
  /\ Esperar("PLAN_READY")
  /\ LET p == mensaje.pid
         c == ColaReadyDe(p)
     IN  /\ tabla' = [tabla EXCEPT ![p] = "READY"]
         /\ cola' = [cola EXCEPT ![c] = Append(@, p)]
         /\ Listar("despacho", c)
  /\ Ir("despacho", "mostrar")
  /\ UNCHANGED <<cpuVars, colaExit, local, colgados, turnoVars, quantumVars, ioVars, gestionVars,
                 vivo>>

MostrarExecuteAReady ==
  /\ En("despacho", "mostrar")
  /\ TerminarListado("despacho")
  /\ sem' = [sem EXCEPT ![listado["despacho"].lista] = @ + 1, !["PLAN_READY"] = @ + 1,
                         !["CPU"] = @ + 1]
  /\ Terminar
  /\ UNCHANGED <<cpuVars, cola, colaExit, tabla, local, colgados, execute, quantumVars, ioVars,
                 gestionVars>>

(* procesar_pcb_exit: agregar_a_cola_exit, and later update_pcb *)
AgregarAExit ==
  /\ En("despacho", "exit")
  /\ colaExit' = Append(colaExit, [pid |-> mensaje.pid, objeto |-> "nuevo"])
  /\ Publicar("EXIT")
  /\ Ir("despacho", "actualizar")
  /\ UNCHANGED <<cpuVars, cola, tabla, listado, local, colgados, turnoVars, quantumVars, ioVars, gestionVars,
                 vivo>>

ActualizarPcbFinal ==
  /\ En("despacho", "actualizar")
  /\ ActualizarTabla(mensaje.pid, "FINISHED")
  /\ Publicar("CPU")
  /\ Terminar
  /\ UNCHANGED <<cpuVars, cola, listado, local, execute, quantumVars, ioVars, gestionVars, vivo>>

(* proceso_solicita_io, with SEM_PLANIFICACION_BLOCKED_INICIADA in between *)
Bloquear ==
  /\ En("despacho", "bloquear")
  /\ Esperar("PLAN_BLOCKED")
  /\ ActualizarTabla(mensaje.pid, "BLOCKED")
  /\ Ir("despacho", "encolar")
  /\ UNCHANGED <<cpuVars, cola, listado, local, turnoVars, quantumVars, ioVars, gestionVars, vivo>>

AgregarProcesoBloqueado ==
  /\ En("despacho", "encolar")
  /\ ioCola' = [ioCola EXCEPT ![mensaje.interfaz] = Append(@, mensaje.pid)]
  /\ ioSem' = [ioSem EXCEPT ![mensaje.interfaz] = @ + 1]
  /\ sem' = [sem EXCEPT !["PLAN_BLOCKED"] = @ + 1, !["CPU"] = @ + 1]
  /\ Terminar
  /\ UNCHANGED <<cpuVars, listas, local, colgados, execute, quantumVars, ioPc, ioPid, gestionVars,
                 vivo>>

-----------------------------------------------------------------------------
(* atender_kernel_IO of a connected interface *)

IrIO(i, paso) == ioPc' = [ioPc EXCEPT ![i] = paso]

(* A semaphore posted for a request that is no longer there ends the thread. *)
IoEsperar(i) ==
  /\ ioPc[i] = "esperar"
  /\ ioSem[i] > 0
  /\ ioSem' = [ioSem EXCEPT ![i] = @ - 1]
  /\ IrIO(i, IF ioCola[i] = <<>> THEN "fin" ELSE "obtener")
  /\ UNCHANGED <<cpuVars, sem, listas, hilos, turnoVars, quantumVars, ioCola, ioPid, gestionVars,
                 vivo>>

IoObtener(i) ==
  /\ ioPc[i] = "obtener"
  /\ \/ /\ ioCola[i] = <<>>
        /\ Caer
        /\ UNCHANGED <<ioCola, ioPc, ioPid>>
     \/ /\ ioCola[i] # <<>>
        /\ ioCola' = [ioCola EXCEPT ![i] = ListRemove(@)]
        /\ ioPid' = [ioPid EXCEPT ![i] = Head(ioCola[i])]
        /\ IrIO(i, "servicio")
        /\ UNCHANGED vivo
  /\ UNCHANGED <<cpuVars, sem, listas, hilos, turnoVars, quantumVars, ioSem, gestionVars>>

(* The interface answers and the thread looks at the state of the PCB. *)
IoResponder(i) ==
  /\ ioPc[i] = "servicio"
  /\ IF tabla[ioPid[i]] = "FINISHED"
     THEN IrIO(i, "esperar") /\ ioPid' = [ioPid EXCEPT ![i] = Nulo]
     ELSE IrIO(i, "agregar") /\ UNCHANGED ioPid
  /\ UNCHANGED <<cpuVars, sem, listas, hilos, turnoVars, quantumVars, ioCola, ioSem, gestionVars,
                 vivo>>

(* agregar_de_blocked_a_ready *)
AgregarDeBlockedAReady(i) ==
  /\ ioPc[i] = "agregar"
  /\ Esperar("PLAN_READY")
  /\ LET p == ioPid[i]
         c == ColaReadyDe(p)
     IN  /\ tabla' = [tabla EXCEPT ![p] = "READY"]
         /\ cola' = [cola EXCEPT ![c] = Append(@, p)]
         /\ Listar(i, c)
  /\ IrIO(i, "mostrar") /\ ioPid' = [ioPid EXCEPT ![i] = Nulo]
  /\ UNCHANGED <<cpuVars, colaExit, hilos, turnoVars, quantumVars, ioCola, ioSem, gestionVars,
                 vivo>>

MostrarBlockedAReady(i) ==
  /\ ioPc[i] = "mostrar"
  /\ TerminarListado(i)
  /\ sem' = [sem EXCEPT ![listado[i].lista] = @ + 1, !["PLAN_READY"] = @ + 1]
  /\ IrIO(i, "esperar")
  /\ UNCHANGED <<cpuVars, cola, colaExit, tabla, hilos, turnoVars, quantumVars, ioCola, ioSem,
                 ioPid, gestionVars>>

-----------------------------------------------------------------------------
(* The threads, and the whole system *)

Consola ==
  \/ IniciarProceso \/ ConsolaTrabada \/ DetenerPlanificacion \/ IniciarPlanificacion
  \/ \E k \in Cambios, g \in Grados : CambiarGrado(k, g)
  \/ \E p \in Pids : FinalizarBuscar(p)
  \/ FinalizarVerificar \/ FinalizarComparar \/ FinalizarEliminar \/ FinalizarEncolar

Cambio(k) == CambioTomar(k) \/ CambioAjustar(k) \/ CambioTerminar(k)

LargoPlazo == LargoEsperar \/ LargoOrden \/ LargoMulti \/ LargoSacar \/ LargoAgregar \/ LargoMostrar

CortoPlazo ==
  \/ CortoElegir \/ CortoCpu \/ CortoSacar("ready", "READY") \/ CortoSacar("aux", "AUX_READY")
  \/ CortoEjecutar \/ InterrupcionQuantum \/ CortoUnir

Quantum == QuantumCrear \/ QuantumVencer

Despacho ==
  \/ RecibirPcbOSolicitud \/ Cancelar \/ RecibirInterrumpido \/ ActualizarPcbQuantum
  \/ AgregarDeExecuteAReady \/ MostrarExecuteAReady \/ AgregarAExit \/ ActualizarPcbFinal
  \/ Bloquear \/ AgregarProcesoBloqueado

HiloIO(i) ==
  \/ IoEsperar(i) \/ IoObtener(i) \/ IoResponder(i)
  \/ AgregarDeBlockedAReady(i) \/ MostrarBlockedAReady(i)

Cpu == CpuNext /\ UNCHANGED kernelVars

Kernel ==
  \/ Consola \/ LargoPlazo \/ EndProcess \/ CortoPlazo \/ Quantum \/ Despacho
  \/ \E s \in SemPlanes : DetenerCola(s)
  \/ \E k \in Cambios : Cambio(k)
  \/ \E i \in Interfaces : HiloIO(i)

Next == vivo /\ (Cpu \/ Kernel)

Spec == Init /\ [][Next]_vars

-----------------------------------------------------------------------------
(* Every thread goes on while it can.  The instruction cycle always reaches *)
(* an instruction that leaves it, and a process that keeps getting the CPU  *)
(* ends up executing its EXIT: programs are finite.                         *)
Viva(A) == vivo /\ A

CicloCpu ==
  \/ AtenderInterrupcion \/ EnviarPcbFinalizado \/ DesestimarInterrupcion \/ InformarKernelError
  \/ \E i \in NombresIO : SolicitarIO(i)

HiloInterrupcion == RecibirInterrupcion \/ AnotarInterrupcion

Justicia ==
  /\ WF_vars(Viva(LargoPlazo)) /\ WF_vars(Viva(EndProcess)) /\ WF_vars(Viva(CortoPlazo))
  /\ WF_vars(Viva(Quantum)) /\ WF_vars(Viva(Despacho))
  /\ \A i \in Interfaces : WF_vars(Viva(HiloIO(i)))
  /\ WF_vars(Viva(Cpu /\ RecibirPcb)) /\ WF_vars(Viva(Cpu /\ HiloInterrupcion))
  /\ WF_vars(Viva(Cpu /\ CicloCpu))
  /\ \A p \in Pids : SF_vars(Viva(Cpu /\ EnviarPcbFinalizado /\ pcbExecute = p))

SpecJusta == Spec /\ Justicia

=============================================================================
