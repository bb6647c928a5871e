----------------------------- MODULE Interfaces -----------------------------
(***************************************************************************)
(* The IO interfaces of the kernel composed with its resources: where a    *)
(* process waits, who brings it back to READY, and what happens when the   *)
(* process behind an interface closes its connection or fails a request    *)
(* (kernel_server.c, manager_ios.c, io_interface.c, gestion_conexiones_io) *)
(*                                                                         *)
(* A name has at most one entry in io_connections, made by the first       *)
(* connection with that name. An interface that comes back under the same  *)
(* name gets a thread and a queue that no request ever reaches, so only    *)
(* the first connection is part of the state.                              *)
(***************************************************************************)
EXTENDS Recursos

CONSTANT Ios        \* the names processes ask for

VARIABLES
    conexion,       \* the socket: ausente, conectada or cerrada
    bloqueados,     \* cola_procesos_bloqueados
    semBloqueados,  \* sem_cola_bloqueados
    hiloIo,         \* the thread atender_kernel_IO of the connection
    atendido,       \* the process whose request it took
    pedido          \* the request at the interface: libre, enCurso, hecho

ioVars == <<conexion, bloqueados, semBloqueados, hiloIo, atendido, pedido>>
todas  == <<vars, ioVars>>

InterfacesInit ==
    /\ Init
    /\ conexion = [i \in Ios |-> "ausente"]
    /\ bloqueados = [i \in Ios |-> <<>>]
    /\ semBloqueados = [i \in Ios |-> 0]
    /\ hiloIo = [i \in Ios |-> "no_creado"]
    /\ atendido = [i \in Ios |-> Nadie]
    /\ pedido = [i \in Ios |-> "libre"]

(***************************************************************************)
(* esperar_conexiones_IO: an interface connects, agregar_IO_connection     *)
(* puts it under its name and its thread starts.                           *)
(***************************************************************************)
Conectar(i) ==
    /\ conexion[i] = "ausente"
    /\ conexion' = [conexion EXCEPT ![i] = "conectada"]
    /\ hiloIo' = [hiloIo EXCEPT ![i] = "espera"]
    /\ UNCHANGED <<bloqueados, semBloqueados, atendido, pedido>>
    /\ UNCHANGED <<planVars, recursoVars, mutexRecursos, hilo, caido, regalos>>

\* The interface ends; what it was doing is lost.
Desconectar(i) ==
    /\ conexion[i] = "conectada"
    /\ conexion' = [conexion EXCEPT ![i] = "cerrada"]
    /\ pedido' = [pedido EXCEPT ![i] = IF @ = "hecho" THEN @ ELSE "libre"]
    /\ UNCHANGED <<bloqueados, semBloqueados, hiloIo, atendido>>
    /\ UNCHANGED <<planVars, recursoVars, mutexRecursos, hilo, caido, regalos>>

\* The interface answers the request with its response.
Responder(i) ==
    /\ conexion[i] = "conectada"
    /\ pedido[i] = "enCurso"
    /\ pedido' = [pedido EXCEPT ![i] = "hecho"]
    /\ UNCHANGED <<conexion, bloqueados, semBloqueados, hiloIo, atendido>>
    /\ UNCHANGED <<planVars, recursoVars, mutexRecursos, hilo, caido, regalos>>

\* atender_solicitud_dialfs sends no response when its operation failed.
Callar(i) ==
    /\ conexion[i] = "conectada"
    /\ pedido[i] = "enCurso"
    /\ pedido' = [pedido EXCEPT ![i] = "callado"]
    /\ UNCHANGED <<conexion, bloqueados, semBloqueados, hiloIo, atendido>>
    /\ UNCHANGED <<planVars, recursoVars, mutexRecursos, hilo, caido, regalos>>

(***************************************************************************)
(* procesar_ios_*: the dispatch thread receives a request; a name without  *)
(* a connection ends the process, a closed connection still has its entry. *)
(***************************************************************************)
PedirIo(i) ==
    /\ hilo["dispatch"].pc = "reposo"
    /\ enCpu # <<>>
    /\ enCpu' = Tail(enCpu)
    /\ semCpu' = semCpu + 1
    /\ IF conexion[i] = "ausente"
       THEN /\ exit' = Append(exit, Head(enCpu))
            /\ UNCHANGED <<bloqueados, semBloqueados>>
       ELSE /\ bloqueados' = [bloqueados EXCEPT ![i] = Append(@, Head(enCpu))]
            /\ semBloqueados' = [semBloqueados EXCEPT ![i] = @ + 1]
            /\ UNCHANGED exit
    /\ UNCHANGED <<conexion, hiloIo, atendido, pedido>>
    /\ UNCHANGED <<ready, liberados, recursoVars, mutexRecursos, hilo, caido,
                   regalos>>

(***************************************************************************)
(* atender_kernel_IO, the thread of a connection.                          *)
(***************************************************************************)
TomarSinSacar(i) ==
    /\ atendido' = [atendido EXCEPT ![i] = Head(bloqueados[i])]
    /\ UNCHANGED bloqueados

ObtenerProcesoBloqueado(i) ==
    /\ atendido' = [atendido EXCEPT ![i] = Head(bloqueados[i])]
    /\ bloqueados' = [bloqueados EXCEPT ![i] = Tail(@)]

AtenderTomar(i) ==
    /\ hiloIo[i] = "espera"
    /\ semBloqueados[i] > 0
    /\ semBloqueados' = [semBloqueados EXCEPT ![i] = @ - 1]
    /\ IF bloqueados[i] = <<>>
       THEN /\ hiloIo' = [hiloIo EXCEPT ![i] = "terminado"]
            /\ UNCHANGED <<bloqueados, atendido>>
       ELSE /\ hiloIo' = [hiloIo EXCEPT ![i] = "enviar"]
            /\ ObtenerProcesoBloqueado(i)
    /\ UNCHANGED <<conexion, pedido>>
    /\ UNCHANGED <<planVars, recursoVars, mutexRecursos, hilo, caido, regalos>>

\* The send to a closed socket may be taken by the kernel of the system.
AtenderEnviar(i) ==
    /\ hiloIo[i] = "enviar"
    /\ hiloIo' = [hiloIo EXCEPT ![i] = "recibir"]
    /\ pedido' = [pedido EXCEPT
                    ![i] = IF conexion[i] = "conectada" THEN "enCurso" ELSE @]
    /\ UNCHANGED <<conexion, bloqueados, semBloqueados, atendido>>
    /\ UNCHANGED <<planVars, recursoVars, mutexRecursos, hilo, caido, regalos>>

\* Or it fails: the process ends and the thread goes on.
AtenderEnvioFallido(i) ==
    /\ hiloIo[i] = "enviar"
    /\ conexion[i] = "cerrada"
    /\ exit' = Append(exit, atendido[i])
    /\ atendido' = [atendido EXCEPT ![i] = Nadie]
    /\ hiloIo' = [hiloIo EXCEPT ![i] = "espera"]
    /\ UNCHANGED <<conexion, bloqueados, semBloqueados, pedido>>
    /\ UNCHANGED <<ready, enCpu, semCpu, liberados, recursoVars,
                   mutexRecursos, hilo, caido, regalos>>

\* An answer, or the end of the connection, which also ends the thread: in
\* both cases the process goes to READY.
AtenderRespuesta(i) ==
    /\ hiloIo[i] = "recibir"
    /\ \/ /\ pedido[i] = "hecho"
          /\ hiloIo' = [hiloIo EXCEPT ![i] = "espera"]
       \/ /\ pedido[i] # "hecho"
          /\ conexion[i] = "cerrada"
          /\ hiloIo' = [hiloIo EXCEPT ![i] = "terminado"]
    /\ ready' = ready \cup {atendido[i]}
    /\ atendido' = [atendido EXCEPT ![i] = Nadie]
    /\ pedido' = [pedido EXCEPT ![i] = "libre"]
    /\ UNCHANGED <<conexion, bloqueados, semBloqueados>>
    /\ UNCHANGED <<enCpu, semCpu, exit, liberados, recursoVars,
                   mutexRecursos, hilo, caido, regalos>>

AtenderKernelIO(i) ==
    AtenderTomar(i) \/ AtenderEnviar(i) \/ AtenderEnvioFallido(i)
      \/ AtenderRespuesta(i)

InterfacesNext ==
    /\ ~caido
    /\ \E i \in Ios :
         Conectar(i) \/ Desconectar(i) \/ Responder(i) \/ Callar(i)
           \/ PedirIo(i) \/ AtenderKernelIO(i)

BloqueosNext ==
    /\ (RecursosNext /\ UNCHANGED ioVars) \/ InterfacesNext
    /\ carrera' = carrera \cup Coinciden'

BloqueosSpec == InterfacesInit /\ [][BloqueosNext]_todas

-----------------------------------------------------------------------------
(***************************************************************************)
(* TYPE.                                                                   *)
(***************************************************************************)
PcHilo == {"reposo", "wait", "signal", "wait_buscar", "wait_leer",
           "wait_asignar", "wait_bloquear", "soltar", "signal_buscar",
           "inc_leer", "inc_escribir", "mirar_cola", "desbloquear",
           "signal_soltar", "signal_enviar", "liberar"}

TypeRecursos ==
    /\ ready \subseteq Pids /\ liberados \subseteq Pids
    /\ enCpu \in Seq(Pids) /\ exit \in Seq(Pids)
    /\ semCpu \in Nat
    /\ instancias \in [Nombres -> Nat]
    /\ cola \in [Nombres -> Seq(Pids)]
    /\ asignados \in [Pids -> Seq(Nombres) \cup {SinLista}]
    /\ regalos \in [Nombres -> Nat]

Locales == [pc : PcHilo, pid : Pids \cup {Nadie},
            recurso : Nombres \cup {Desconocido},
            pcb : Pids \cup {Nadie}, leido : Nat]

TypeHilos ==
    /\ hilo \in [Hilos -> Locales]
    /\ mutexRecursos \in Hilos \cup {Nadie}
    /\ caido \in BOOLEAN
    /\ carrera \subseteq {"datos", "cesion"}

TypeInterfaces ==
    /\ conexion \in [Ios -> {"ausente", "conectada", "cerrada"}]
    /\ bloqueados \in [Ios -> Seq(Pids)]
    /\ semBloqueados \in [Ios -> Nat]
    /\ hiloIo \in [Ios -> {"no_creado", "espera", "enviar", "recibir",
                           "terminado"}]
    /\ atendido \in [Ios -> Pids \cup {Nadie}]
    /\ pedido \in [Ios -> {"libre", "enCurso", "hecho", "callado"}]

TypeBloqueos == TypeRecursos /\ TypeHilos /\ TypeInterfaces

(***************************************************************************)
(* SAFETY.  The instances of a resource, those its holders were assigned   *)
(* and the one on its way back add up to those of the configuration plus   *)
(* the ones given by a SIGNAL of a process that did not have any, as long  *)
(* as the long-term planner and the dispatch thread were never on the same *)
(* resource at the same time.                                              *)
(***************************************************************************)
Lista(p)    == IF asignados[p] = SinLista THEN <<>> ELSE asignados[p]
Mano(p, r)  == {p} \X {k \in DOMAIN Lista(p) : Lista(p)[k] = r}
EnManos(r)  == Cardinality(UNION {Mano(p, r) : p \in Pids})
EnCamino(r) == Cardinality({h \in Hilos : /\ hilo[h].recurso = r
                                          /\ hilo[h].pc \in {"inc_leer",
                                                             "inc_escribir"}})

Conservacion ==
    "datos" \notin carrera =>
      \A r \in Nombres :
        instancias[r] + EnManos(r) + EnCamino(r) = Instancias[r] + regalos[r]

(***************************************************************************)
(* SAFETY.  A process is in exactly one place: a READY list, the CPU, the  *)
(* hands of a thread, the queue of one resource or of one interface,       *)
(* COLA_EXIT or freed. Nothing that unblocks it, ends it or gives it back  *)
(* loses it or does so twice, not even when the two threads race.          *)
(***************************************************************************)
PideWait == {"wait", "wait_buscar", "wait_leer", "wait_asignar",
             "wait_bloquear"}

\* The processes a thread has: the one that waits or was unblocked, the one
\* that signals until it returns to the CPU, the one that ends.
EnMano(h) ==
    (IF hilo[h].pc \in PideWait \cup {"signal_soltar"}
     THEN {hilo[h].pcb} ELSE {})
      \cup (IF \/ hilo[h].pc = "reposo"
                \/ (h = "dispatch" /\ ~DesdeSignal(h) /\ hilo[h].pc \in
                       PideWait \cup {"soltar"})
            THEN {} ELSE {hilo[h].pid})

Puestos(p) ==
    LET en(lugar, s) == {<<lugar, k>> : k \in {j \in DOMAIN s : s[j] = p}}
    IN  en("cpu", enCpu) \cup en("exit", exit)
          \cup {<<"ready", 0>> : q \in ready \cap {p}}
          \cup {<<"liberado", 0>> : q \in liberados \cap {p}}
          \cup {<<h, 0>> : h \in {x \in Hilos : p \in EnMano(x)}}
          \cup (UNION {en(r, cola[r]) : r \in Nombres})
          \cup (UNION {en(i, bloqueados[i]) : i \in Ios})
          \cup {<<i, 0>> : i \in {j \in Ios : atendido[j] = p}}

UnSoloPuesto == \A p \in Pids : Cardinality(Puestos(p)) = 1

(***************************************************************************)
(* SAFETY.  SEM_CPU, the CPU and the dispatch thread hold between them one *)
(* turn: WAIT and SIGNAL never put two processes in the CPU, unless both   *)
(* threads were on the same resource, when a process that a SIGNAL         *)
(* unblocked may find no instance and posts SEM_CPU once more.             *)
(***************************************************************************)
ConTurno ==
    \/ hilo["dispatch"].pc \notin {"reposo", "soltar"}
    \/ hilo["dispatch"].pc = "soltar" /\ DesdeSignal("dispatch")

UnTurno ==
    carrera = {} => semCpu + Len(enCpu) + (IF ConTurno THEN 1 ELSE 0) = 1

(***************************************************************************)
(* SAFETY.  A process does not wait for a resource that has instances,     *)
(* once no thread is working on that resource; unless both were on it at   *)
(* the same time, when the planner may look at the queue just before the   *)
(* dispatch thread adds a process to it.                                   *)
(***************************************************************************)
SinEsperaInutil ==
    "datos" \notin carrera =>
      \A r \in Nombres :
        (\A h \in Hilos : hilo[h].recurso # r \/ hilo[h].pc \in
                           {"reposo", "soltar", "liberar", "signal",
                            "signal_buscar", "signal_enviar"})
          => (cola[r] = <<>> \/ instancias[r] = 0)

(***************************************************************************)
(* SAFETY.  The kernel uses a NULL PCB only if both threads saw the same   *)
(* last process of a queue.                                                *)
(***************************************************************************)
CaeSoloPorCarrera == caido => "datos" \in carrera

(***************************************************************************)
(* SAFETY.  A thread that works under MUTEX_RECURSOS is the one that has   *)
(* it, also after another one returned without releasing it.               *)
(***************************************************************************)
BajoMutex(h, pc) ==
    \/ pc \in {"wait_buscar", "wait_leer", "wait_asignar", "wait_bloquear",
               "soltar"}
    \/ h = "dispatch" /\ pc \in
          {"signal_buscar", "inc_leer", "inc_escribir", "mirar_cola",
           "desbloquear", "signal_soltar"}

DuenoDelMutex == \A h \in Hilos : BajoMutex(h, hilo[h].pc) => mutexRecursos = h
=============================================================================
