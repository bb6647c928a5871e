------------------------------ MODULE Recursos ------------------------------
(***************************************************************************)
(* WAIT and SIGNAL of the kernel (recursos.c): the dispatch thread serves  *)
(* the requests of the CPU under MUTEX_RECURSOS, while the long-term       *)
(* planner gives back the resources of each finished process without it.   *)
(*                                                                         *)
(* instancias++ and instancias-- are a read and a write. The rest of the   *)
(* planning is reduced to where each process is: READY, on its way to or   *)
(* in the CPU, COLA_EXIT, or freed. Planning is never stopped here.        *)
(***************************************************************************)
EXTENDS Naturals, Sequences, FiniteSets, SequencesExt, Listas

CONSTANTS Pids,
          Nombres,      \* the resources of the configuration
          Instancias,   \* their instances in the configuration
          Desconocido,  \* a resource name that is not in the configuration
          Nadie,        \* NULL
          SinLista,     \* no entry in recursos_asignados_por_pid
          MaxRegalos    \* bound: SIGNALs of a resource the process lacks

Hilos == {"dispatch", "largo"}

ASSUME RecursosAssumption ==
    /\ Instancias \in [Nombres -> Nat]
    /\ Desconocido \notin Nombres
    /\ Nadie \notin Pids \cup Hilos
    /\ SinLista \notin Seq(Nombres)
    /\ MaxRegalos \in Nat

VARIABLES
    ready,          \* processes in a READY list
    enCpu,          \* PCBs sent to the CPU and not returned, oldest first
    semCpu,         \* SEM_CPU
    exit,           \* COLA_EXIT with SEM_EXIT
    liberados,      \* processes free_resource is done with
    instancias,     \* recurso->instancias
    cola,           \* recurso->cola_bloqueados
    asignados,      \* recursos_asignados_por_pid
    mutexRecursos,  \* who holds MUTEX_RECURSOS
    hilo,           \* the local variables of the two threads
    caido,          \* a NULL PCB was used
    regalos,        \* history: SIGNALs of a resource the process lacked
    carrera         \* history: how both threads met on a resource

planVars    == <<ready, enCpu, semCpu, exit, liberados>>
recursoVars == <<instancias, cola, asignados>>
vars        == <<planVars, recursoVars, mutexRecursos, hilo, caido, regalos,
                 carrera>>

EnReposo == [pc |-> "reposo", pid |-> Nadie, recurso |-> Desconocido,
             pcb |-> Nadie, leido |-> 0]

Init ==
    /\ ready = Pids
    /\ enCpu = <<>>
    /\ semCpu = 1
    /\ exit = <<>>
    /\ liberados = {}
    /\ instancias = Instancias
    /\ cola = [r \in Nombres |-> <<>>]
    /\ asignados = [p \in Pids |-> SinLista]
    /\ mutexRecursos = Nadie
    /\ hilo = [h \in Hilos |-> EnReposo]
    /\ caido = FALSE
    /\ regalos = [r \in Nombres |-> 0]
    /\ carrera = {}

Poner(h, pc) == hilo' = [hilo EXCEPT ![h].pc = pc]

-----------------------------------------------------------------------------
(***************************************************************************)
(* The planning around the resources.                                      *)
(***************************************************************************)
\* The short-term planner takes SEM_CPU and sends a READY process.
Ejecutar(p) ==
    /\ semCpu > 0
    /\ p \in ready
    /\ semCpu' = semCpu - 1
    /\ ready' = ready \ {p}
    /\ enCpu' = Append(enCpu, p)
    /\ UNCHANGED <<exit, liberados, recursoVars, mutexRecursos, hilo, caido,
                   regalos>>

\* The dispatch thread receives the PCB of a process at the end of its quantum.
Desalojar ==
    /\ hilo["dispatch"].pc = "reposo"
    /\ enCpu # <<>>
    /\ ready' = ready \cup {Head(enCpu)}
    /\ enCpu' = Tail(enCpu)
    /\ semCpu' = semCpu + 1
    /\ UNCHANGED <<exit, liberados, recursoVars, mutexRecursos, hilo, caido,
                   regalos>>

\* It receives a PCB with MSG_PCB_KERNEL_EXIT or MSG_CPU_OUT_OF_MEMORY.
Salir ==
    /\ hilo["dispatch"].pc = "reposo"
    /\ enCpu # <<>>
    /\ exit' = Append(exit, Head(enCpu))
    /\ enCpu' = Tail(enCpu)
    /\ semCpu' = semCpu + 1
    /\ UNCHANGED <<ready, liberados, recursoVars, mutexRecursos, hilo, caido,
                   regalos>>

\* It receives a request for a resource and the PCB of who asks.
PedirWait(r) ==
    /\ hilo["dispatch"].pc = "reposo"
    /\ enCpu # <<>>
    /\ hilo' = [hilo EXCEPT !["dispatch"] =
                  [EnReposo EXCEPT !.pc = "wait", !.pid = Head(enCpu),
                                   !.pcb = Head(enCpu), !.recurso = r]]
    /\ enCpu' = Tail(enCpu)
    /\ UNCHANGED <<ready, semCpu, exit, liberados, recursoVars,
                   mutexRecursos, caido, regalos>>

PedirSignal(r) ==
    /\ hilo["dispatch"].pc = "reposo"
    /\ enCpu # <<>>
    /\ hilo' = [hilo EXCEPT !["dispatch"] =
                  [EnReposo EXCEPT !.pc = "signal", !.pid = Head(enCpu),
                                   !.recurso = r]]
    /\ enCpu' = Tail(enCpu)
    /\ UNCHANGED <<ready, semCpu, exit, liberados, recursoVars,
                   mutexRecursos, caido, regalos>>

-----------------------------------------------------------------------------
(***************************************************************************)
(* handle_wait(pcb, nombre_recurso, from_signal), called by the dispatch   *)
(* thread for a WAIT and for the process a SIGNAL unblocks, and by the     *)
(* long-term planner for the process a freed resource unblocks.            *)
(***************************************************************************)
DesdeSignal(h) == h = "largo" \/ hilo[h].pcb # hilo[h].pid

\* Where a thread goes on when handle_wait returns.
Volver(h) ==
    hilo' = [hilo EXCEPT
               ![h] = IF h = "largo"
                      THEN [EnReposo EXCEPT !.pc = "liberar", !.pid = hilo[h].pid]
                      ELSE IF DesdeSignal(h)
                           THEN [@ EXCEPT !.pc = "signal_enviar"]
                           ELSE EnReposo]

TomarMutexSinMirar(h, desde, hacia) ==
    /\ hilo[h].pc = desde
    /\ mutexRecursos' = h
    /\ Poner(h, hacia)
    /\ UNCHANGED <<planVars, recursoVars, caido, regalos>>

TomarMutex(h, desde, hacia) ==
    /\ hilo[h].pc = desde
    /\ mutexRecursos = Nadie
    /\ mutexRecursos' = h
    /\ Poner(h, hacia)
    /\ UNCHANGED <<planVars, recursoVars, caido, regalos>>

\* An unknown resource ends the process and returns with the mutex held.
EnviarAExitSinPost(p) ==
    /\ exit' = Append(exit, p)
    /\ UNCHANGED <<ready, enCpu, semCpu, liberados>>

EnviarAExit(p) ==
    /\ exit' = Append(exit, p)
    /\ semCpu' = semCpu + 1
    /\ UNCHANGED <<ready, enCpu, liberados>>

WaitDesconocido(h) ==
    /\ hilo[h].pc = "wait_buscar"
    /\ hilo[h].recurso \notin Nombres
    /\ EnviarAExit(hilo[h].pcb)
    /\ Volver(h)
    /\ UNCHANGED <<recursoVars, mutexRecursos, caido, regalos>>

WaitMirarDeMas(h) ==
    /\ hilo[h].pc = "wait_buscar"
    /\ hilo[h].recurso \in Nombres
    /\ Poner(h, "wait_leer")
    /\ UNCHANGED <<planVars, recursoVars, mutexRecursos, caido, regalos>>

WaitMirar(h) ==
    /\ hilo[h].pc = "wait_buscar"
    /\ hilo[h].recurso \in Nombres
    /\ Poner(h, IF instancias[hilo[h].recurso] > 0 THEN "wait_leer"
                ELSE "wait_bloquear")
    /\ UNCHANGED <<planVars, recursoVars, mutexRecursos, caido, regalos>>

\* decrementar_recurso reads ...
WaitLeer(h) ==
    /\ hilo[h].pc = "wait_leer"
    /\ hilo' = [hilo EXCEPT ![h].leido = instancias[hilo[h].recurso],
                            ![h].pc = "wait_asignar"]
    /\ UNCHANGED <<planVars, recursoVars, mutexRecursos, caido, regalos>>

\* ... and writes; the resource is noted and the process goes on.
AnotarNada(p, r) == UNCHANGED asignados

Anotar(p, r) ==
    asignados' = [asignados EXCEPT
                    ![p] = IF @ = SinLista THEN <<r>> ELSE Append(@, r)]

WaitAsignar(h) ==
    LET p == hilo[h].pcb
        r == hilo[h].recurso
    IN  /\ hilo[h].pc = "wait_asignar"
        /\ instancias' = [instancias EXCEPT ![r] = hilo[h].leido - 1]
        /\ Anotar(p, r)
        /\ IF DesdeSignal(h)
           THEN /\ ready' = ready \cup {p}
                /\ UNCHANGED enCpu
           ELSE /\ enCpu' = Append(enCpu, p)
                /\ UNCHANGED ready
        /\ Poner(h, "soltar")
        /\ UNCHANGED <<semCpu, exit, liberados, cola, mutexRecursos, caido,
                       regalos>>

\* SEM_CPU is posted also when the process did not come from the CPU.
WaitBloquear(h) ==
    LET r == hilo[h].recurso
    IN  /\ hilo[h].pc = "wait_bloquear"
        /\ cola' = [cola EXCEPT ![r] = Append(@, hilo[h].pcb)]
        /\ semCpu' = semCpu + 1
        /\ Poner(h, "soltar")
        /\ UNCHANGED <<ready, enCpu, exit, liberados, instancias, asignados,
                       mutexRecursos, caido, regalos>>

Soltar(h) ==
    /\ hilo[h].pc = "soltar"
    /\ mutexRecursos' = Nadie
    /\ Volver(h)
    /\ UNCHANGED <<planVars, recursoVars, caido, regalos>>

HandleWait(h) ==
    \/ TomarMutex(h, "wait", "wait_buscar")
    \/ WaitDesconocido(h)
    \/ WaitMirar(h)
    \/ WaitLeer(h)
    \/ WaitAsignar(h)
    \/ WaitBloquear(h)
    \/ Soltar(h)

-----------------------------------------------------------------------------
(***************************************************************************)
(* handle_signal(pcb, nombre_recurso), in the dispatch thread.             *)
(***************************************************************************)
\* An unknown resource, or a process that never had any, ends the process
\* and returns with the mutex held.
SignalRechazar ==
    LET p == hilo["dispatch"].pid
    IN  /\ hilo["dispatch"].pc = "signal_buscar"
        /\ hilo["dispatch"].recurso \notin Nombres \/ asignados[p] = SinLista
        /\ EnviarAExit(p)
        /\ hilo' = [hilo EXCEPT !["dispatch"] = EnReposo]
        /\ UNCHANGED <<recursoVars, mutexRecursos, caido, regalos>>

\* remover_recurso_de_proceso answers TRUE to any process that has a list,
\* also when the resource is not in it.
Tiene(p, r) == asignados[p] # SinLista /\ r \in Range(asignados[p])

SignalRemover ==
    LET p == hilo["dispatch"].pid
        r == hilo["dispatch"].recurso
    IN  /\ hilo["dispatch"].pc = "signal_buscar"
        /\ r \in Nombres
        /\ asignados[p] # SinLista
        /\ IF Tiene(p, r)
           THEN /\ asignados' = [asignados EXCEPT
                                   ![p] = ListRemoveElement(@, r)]
                /\ UNCHANGED regalos
           ELSE /\ regalos[r] < MaxRegalos
                /\ regalos' = [regalos EXCEPT ![r] = @ + 1]
                /\ UNCHANGED asignados
        /\ Poner("dispatch", "inc_leer")
        /\ UNCHANGED <<planVars, instancias, cola, mutexRecursos, caido>>

\* incrementar_recurso, by either thread, reads ...
IncLeer(h) ==
    /\ hilo[h].pc = "inc_leer"
    /\ hilo' = [hilo EXCEPT ![h].leido = instancias[hilo[h].recurso],
                            ![h].pc = "inc_escribir"]
    /\ UNCHANGED <<planVars, recursoVars, mutexRecursos, caido, regalos>>

\* ... and writes.
IncEscribir(h) ==
    /\ hilo[h].pc = "inc_escribir"
    /\ instancias' = [instancias EXCEPT
                        ![hilo[h].recurso] = hilo[h].leido + 1]
    /\ Poner(h, "mirar_cola")
    /\ UNCHANGED <<planVars, cola, asignados, mutexRecursos, caido, regalos>>

\* list_is_empty, without the mutex of the list; nobody to unblock.
NadieEsperaSinMirar(h, hacia) ==
    /\ hilo[h].pc = "mirar_cola"
    /\ Poner(h, hacia)
    /\ UNCHANGED <<planVars, recursoVars, mutexRecursos, caido, regalos>>

NadieEspera(h, hacia) ==
    /\ hilo[h].pc = "mirar_cola"
    /\ cola[hilo[h].recurso] = <<>>
    /\ Poner(h, hacia)
    /\ UNCHANGED <<planVars, recursoVars, mutexRecursos, caido, regalos>>

AlguienEsperaSinMirar(h) ==
    /\ hilo[h].pc = "mirar_cola"
    /\ Poner(h, "desbloquear")
    /\ UNCHANGED <<planVars, recursoVars, mutexRecursos, caido, regalos>>

AlguienEspera(h) ==
    /\ hilo[h].pc = "mirar_cola"
    /\ cola[hilo[h].recurso] # <<>>
    /\ Poner(h, "desbloquear")
    /\ UNCHANGED <<planVars, recursoVars, mutexRecursos, caido, regalos>>

\* desbloquear_proceso uses the PCB it takes, also when there is none left.
Desbloquear(h, hacia) ==
    LET r == hilo[h].recurso
    IN  /\ hilo[h].pc = "desbloquear"
        /\ IF cola[r] = <<>>
           THEN /\ caido' = TRUE
                /\ UNCHANGED <<cola, hilo>>
           ELSE /\ hilo' = [hilo EXCEPT ![h].pcb = Head(cola[r]),
                                        ![h].pc = hacia]
                /\ cola' = [cola EXCEPT ![r] = Tail(@)]
                /\ UNCHANGED caido
        /\ UNCHANGED <<planVars, instancias, asignados, mutexRecursos,
                       regalos>>

\* The mutex is released; handle_wait takes it again for the unblocked one.
SignalSoltar ==
    /\ hilo["dispatch"].pc = "signal_soltar"
    /\ mutexRecursos' = Nadie
    /\ Poner("dispatch", IF hilo["dispatch"].pcb = Nadie THEN "signal_enviar"
                         ELSE "wait")
    /\ UNCHANGED <<planVars, recursoVars, caido, regalos>>

SignalEnviar ==
    /\ hilo["dispatch"].pc = "signal_enviar"
    /\ enCpu' = Append(enCpu, hilo["dispatch"].pid)
    /\ hilo' = [hilo EXCEPT !["dispatch"] = EnReposo]
    /\ UNCHANGED <<ready, semCpu, exit, liberados, recursoVars,
                   mutexRecursos, caido, regalos>>

HandleSignal ==
    \/ TomarMutex("dispatch", "signal", "signal_buscar")
    \/ SignalRechazar
    \/ SignalRemover
    \/ IncLeer("dispatch")
    \/ IncEscribir("dispatch")
    \/ NadieEspera("dispatch", "signal_soltar")
    \/ AlguienEspera("dispatch")
    \/ Desbloquear("dispatch", "signal_soltar")
    \/ SignalSoltar
    \/ SignalEnviar

-----------------------------------------------------------------------------
(***************************************************************************)
(* end_process and free_resource, in the long-term planner.                *)
(***************************************************************************)
EndProcess ==
    /\ hilo["largo"].pc = "reposo"
    /\ exit # <<>>
    /\ hilo' = [hilo EXCEPT !["largo"] =
                  [EnReposo EXCEPT !.pc = "liberar", !.pid = Head(exit)]]
    /\ exit' = Tail(exit)
    /\ UNCHANGED <<ready, enCpu, semCpu, liberados, recursoVars,
                   mutexRecursos, caido, regalos>>

\* liberar_recursos_de_proceso: the next resource of the process, no mutex.
LiberarUno ==
    LET p == hilo["largo"].pid
    IN  /\ hilo["largo"].pc = "liberar"
        /\ asignados[p] \notin {SinLista, <<>>}
        /\ hilo' = [hilo EXCEPT !["largo"].recurso = Head(asignados[p]),
                                !["largo"].pcb = Nadie,
                                !["largo"].pc = "inc_leer"]
        /\ asignados' = [asignados EXCEPT ![p] = Tail(@)]
        /\ UNCHANGED <<planVars, instancias, cola, mutexRecursos, caido,
                       regalos>>

\* remover_proceso_de_colas_bloqueados and the end of the entry of the process.
FreeResource ==
    LET p == hilo["largo"].pid
    IN  /\ hilo["largo"].pc = "liberar"
        /\ asignados[p] \in {SinLista, <<>>}
        /\ cola' = [r \in Nombres |-> ListRemoveElement(cola[r], p)]
        /\ asignados' = [asignados EXCEPT ![p] = SinLista]
        /\ liberados' = liberados \cup {p}
        /\ hilo' = [hilo EXCEPT !["largo"] = EnReposo]
        /\ UNCHANGED <<ready, enCpu, semCpu, exit, instancias, mutexRecursos,
                       caido, regalos>>

LargoPlazo ==
    \/ EndProcess
    \/ LiberarUno
    \/ IncLeer("largo")
    \/ IncEscribir("largo")
    \/ NadieEspera("largo", "liberar")
    \/ AlguienEspera("largo")
    \/ Desbloquear("largo", "wait")
    \/ FreeResource

-----------------------------------------------------------------------------
(***************************************************************************)
(* The long-term planner gives a resource back without MUTEX_RECURSOS      *)
(* while the dispatch thread works on it: both may be on its instances and *)
(* its queue, or the dispatch thread may come between the instance that    *)
(* was given back and the process it was given back for.                   *)
(***************************************************************************)
ConMutex == {"wait_buscar", "wait_leer", "wait_asignar", "wait_bloquear",
             "inc_leer", "inc_escribir", "mirar_cola", "desbloquear"}
SinMutex == {"inc_leer", "inc_escribir", "mirar_cola", "desbloquear"}

Coinciden ==
    {k \in {"datos", "cesion"} :
       /\ hilo["largo"].pc \in
            (IF k = "datos" THEN SinMutex ELSE {"desbloquear", "wait"})
       /\ hilo["dispatch"].pc \in ConMutex
       /\ hilo["largo"].recurso = hilo["dispatch"].recurso}

Dispatch == HandleWait("dispatch") \/ HandleSignal
Largo    == HandleWait("largo") \/ LargoPlazo

RecursosNext ==
    /\ ~caido
    /\ \/ \E p \in Pids : Ejecutar(p)
       \/ Desalojar
       \/ Salir
       \/ \E r \in Nombres \cup {Desconocido} : PedirWait(r) \/ PedirSignal(r)
       \/ Dispatch
       \/ Largo

Next == RecursosNext /\ carrera' = carrera \cup Coinciden'

Spec == Init /\ [][Next]_vars
=============================================================================
