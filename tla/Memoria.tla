------------------------------- MODULE Memoria -------------------------------
(***************************************************************************)
(* The memory program: page tables, the bitmap of frames and the images of *)
(* the processes, served by the thread of the CPU (requests_cpu) and the   *)
(* thread of the kernel (requests_kernel). Both use the tables and the     *)
(* bitmap; each access to the dictionary or to one bit takes its mutex,    *)
(* and the loops over pages and frames are not atomic.                     *)
(*                                                                         *)
(* The bytes of the frames are left out: who may touch which frame is not. *)
(***************************************************************************)
EXTENDS Naturals, Sequences, FiniteSets

CONSTANTS Pids,        \* in the order the console gives them
          NumFrames,   \* espacio_memoria->num_frames
          PageSize,    \* espacio_memoria->page_size
          Claves,      \* how many keys uint8_to_string tells apart
          SinMarco     \* UINT32_MAX: the page has no frame

ASSUME MemoriaAssumption ==
    /\ Pids \subseteq Nat
    /\ NumFrames \in Nat
    /\ PageSize \in Nat \ {0}
    /\ Claves \in Nat \ {0, 1}
    /\ SinMarco \notin 0 .. NumFrames - 1

Marcos == 0 .. NumFrames - 1

VARIABLES
    tablas,      \* the pages of a process, also while they are only local
    existe,      \* keys of diccionario_tablas_de_paginas_por_proceso
    marcos,      \* bitarray_marcos_de_memoria
    hiloCpu,     \* resize, while it runs
    hiloKernel,  \* finalizar_proceso, while it runs
    soltados,    \* history: the frames a process gave back
    imagenes,    \* keys of tabla_procesos
    mudos,       \* history: processes that asked for an instruction the
                 \* program does not have
    colaCpu,     \* the socket from the CPU
    respuesta,   \* the socket to the CPU
    colaKernel,  \* the socket from the kernel
    caida        \* exit(EXIT_FAILURE) or a page that is not in the list

tablaVars   == <<tablas, existe, marcos, hiloCpu, hiloKernel, soltados>>
memoriaVars == <<tablaVars, imagenes, mudos, colaCpu, respuesta, colaKernel,
                 caida>>

Pedido(tipo, pid) == [tipo |-> tipo, pid |-> pid, pagina |-> 0, marco |-> 0,
                      desp |-> 0, cant |-> 0]
SinRespuesta == [tipo |-> "nada", valor |-> 0]
CpuLibre     == [paso |-> "espera", pid |-> 0, meta |-> 0, i |-> 0]
KernelLibre  == [paso |-> "espera", pid |-> 0, i |-> 0]

MemoriaInit ==
    /\ tablas = [p \in Pids |-> <<>>]
    /\ existe = {}
    /\ marcos = [f \in Marcos |-> FALSE]
    /\ hiloCpu = CpuLibre
    /\ hiloKernel = KernelLibre
    /\ soltados = [p \in Pids |-> {}]
    /\ imagenes = {}
    /\ mudos = {}
    /\ colaCpu = <<>>
    /\ respuesta = SinRespuesta
    /\ colaKernel = <<>>
    /\ caida = FALSE

-----------------------------------------------------------------------------
(***************************************************************************)
(* requests_cpu.                                                           *)
(***************************************************************************)
RecibeDeCpu(tipo) ==
    /\ hiloCpu.paso = "espera"
    /\ colaCpu # <<>> /\ Head(colaCpu).tipo = tipo
    /\ colaCpu' = Tail(colaCpu)

\* obtener_proceso makes its key with uint8_to_string.
Clave(pid) == pid % Claves

\* retornar_siguiente_instruccion: no image, no answer; and none either when
\* the program has no such line, its file is missing or the line names no
\* instruction.
RetornarSiguienteInstruccion ==
    /\ RecibeDeCpu("fetch")
    /\ LET pid   == Head(colaCpu).pid
           clave == Clave(pid)
       IN  \/ /\ clave \in imagenes
              /\ respuesta' = [tipo |-> "instruccion", valor |-> clave]
              /\ UNCHANGED mudos
           \/ /\ clave \in imagenes
              /\ mudos' = mudos \cup {pid}
              /\ UNCHANGED respuesta
           \/ /\ clave \notin imagenes
              /\ UNCHANGED <<respuesta, mudos>>
    /\ UNCHANGED <<tablaVars, imagenes, colaKernel, caida>>

\* process_message_cpu_page: the page must be in the table of the process.
MensajePagina ==
    /\ RecibeDeCpu("pagina")
    /\ LET m == Head(colaCpu)
           n == m.pagina + 1
       IN  IF m.pid \in existe /\ n \in DOMAIN tablas[m.pid]
           THEN /\ respuesta' = [tipo |-> "marco", valor |-> tablas[m.pid][n]]
                /\ UNCHANGED caida
           ELSE caida' = TRUE /\ UNCHANGED respuesta
    /\ UNCHANGED <<tablaVars, imagenes, mudos, colaKernel>>

MensajeLeer ==
    /\ RecibeDeCpu("leer")
    /\ respuesta' = [tipo |-> "dato", valor |-> 0]
    /\ UNCHANGED <<tablaVars, imagenes, mudos, colaKernel, caida>>

EscribirConfirmado ==
    /\ RecibeDeCpu("escribir")
    /\ respuesta' = [tipo |-> "dato", valor |-> 1]
    /\ UNCHANGED <<tablaVars, imagenes, mudos, colaKernel, caida>>

\* process_message_data_write gives no answer.
MensajeEscribir ==
    /\ RecibeDeCpu("escribir")
    /\ UNCHANGED <<tablaVars, imagenes, mudos, respuesta, colaKernel, caida>>

-----------------------------------------------------------------------------
(***************************************************************************)
(* resize.                                                                 *)
(***************************************************************************)
PaginasPara(size) == (size + PageSize - 1) \div PageSize

SuficientesDeMas(requeridos) ==
    LET libres == {f \in Marcos : ~marcos[f]}
    IN  libres # {} /\ Cardinality(libres) + 1 >= requeridos

\* has_sufficient_frames reads the bits without the mutex. It only says yes
\* when it meets a free frame, also if none is required.
SuficientesMarcos(requeridos) ==
    LET libres == {f \in Marcos : ~marcos[f]}
    IN  libres # {} /\ Cardinality(libres) >= requeridos

Contesta(ok) == respuesta' = [tipo |-> "resize", valor |-> ok]

\* A process has no table until its first RESIZE. create_process keeps the
\* mutex of the dictionary until its table is complete.
Resize ==
    /\ RecibeDeCpu("resize")
    /\ LET p    == Head(colaCpu).pid
           meta == PaginasPara(Head(colaCpu).cant)
           viejas == Len(tablas[p])
       IN  \/ /\ p \notin existe \/ meta > viejas
              /\ LET faltan == IF p \in existe THEN meta - viejas ELSE meta
                 IN  \/ /\ SuficientesMarcos(faltan)
                        /\ hiloCpu' = [paso |-> IF p \in existe THEN "ampliar"
                                                               ELSE "crear",
                                       pid |-> p, meta |-> meta, i |-> 0]
                        /\ UNCHANGED respuesta
                     \/ /\ ~SuficientesMarcos(faltan)
                        /\ Contesta(0)
                        /\ UNCHANGED hiloCpu
           \/ /\ p \in existe /\ meta < viejas
              /\ hiloCpu' = [paso |-> "achicar", pid |-> p, meta |-> meta,
                             i |-> meta + 1]
              /\ UNCHANGED respuesta
           \/ /\ p \in existe /\ meta = viejas
              /\ Contesta(1)
              /\ UNCHANGED hiloCpu
    /\ UNCHANGED <<tablas, existe, marcos, hiloKernel, soltados, imagenes,
                   mudos, colaKernel, caida>>

CrearTieneMutex == hiloCpu.paso = "crear"

Agrega == /\ hiloCpu.paso \in {"ampliar", "crear"}
          /\ Len(tablas[hiloCpu.pid]) < hiloCpu.meta

\* _frame_disponible passes over a frame in use.
MirarMarco ==
    /\ Agrega
    /\ hiloCpu.i \in Marcos /\ marcos[hiloCpu.i]
    /\ hiloCpu' = [hiloCpu EXCEPT !.i = @ + 1]
    /\ UNCHANGED <<tablas, existe, marcos, hiloKernel, soltados, imagenes,
                   mudos, colaCpu, respuesta, colaKernel, caida>>

\* It stops at a free frame or after the last one, and the next page of
\* agregar_pagina_a_memoria has that frame or none.
AgregarPagina ==
    /\ Agrega
    /\ hiloCpu.i \in Marcos => ~marcos[hiloCpu.i]
    /\ LET hay == hiloCpu.i \in Marcos
       IN  /\ marcos' = IF hay THEN [marcos EXCEPT ![hiloCpu.i] = TRUE]
                               ELSE marcos
           /\ tablas' = [tablas EXCEPT ![hiloCpu.pid] =
                            Append(@, IF hay THEN hiloCpu.i ELSE SinMarco)]
    /\ hiloCpu' = [hiloCpu EXCEPT !.i = 0]
    /\ UNCHANGED <<existe, hiloKernel, soltados, imagenes, mudos, colaCpu,
                   respuesta, colaKernel, caida>>

\* create_process puts its table in the dictionary; resize answers.
TerminarDeAgregar ==
    /\ hiloCpu.paso \in {"ampliar", "crear"}
    /\ Len(tablas[hiloCpu.pid]) >= hiloCpu.meta
    /\ existe' = existe \cup {hiloCpu.pid}
    /\ hiloCpu' = CpuLibre
    /\ Contesta(1)
    /\ UNCHANGED <<tablas, marcos, hiloKernel, soltados, imagenes, mudos,
                   colaCpu, colaKernel, caida>>

\* The frames past the new size are freed one by one ...
AchicarMarco ==
    /\ hiloCpu.paso = "achicar"
    /\ hiloCpu.i \in DOMAIN tablas[hiloCpu.pid]
    /\ LET f == tablas[hiloCpu.pid][hiloCpu.i]
       IN  /\ marcos' = IF f = SinMarco THEN marcos
                                        ELSE [marcos EXCEPT ![f] = FALSE]
           /\ soltados' = [soltados EXCEPT ![hiloCpu.pid] = @ \cup {f}]
    /\ hiloCpu' = [hiloCpu EXCEPT !.i = @ + 1]
    /\ UNCHANGED <<tablas, existe, hiloKernel, imagenes, mudos, colaCpu,
                   respuesta, colaKernel, caida>>

\* ... and then their pages leave the list.
TerminarDeAchicar ==
    /\ hiloCpu.paso = "achicar"
    /\ hiloCpu.i \notin DOMAIN tablas[hiloCpu.pid]
    /\ tablas' = [tablas EXCEPT ![hiloCpu.pid] = SubSeq(@, 1, hiloCpu.meta)]
    /\ hiloCpu' = CpuLibre
    /\ Contesta(1)
    /\ UNCHANGED <<existe, marcos, hiloKernel, soltados, imagenes, mudos,
                   colaCpu, colaKernel, caida>>

-----------------------------------------------------------------------------
(***************************************************************************)
(* requests_kernel.                                                        *)
(***************************************************************************)
RecibeDeKernel(tipo) ==
    /\ hiloKernel.paso = "espera"
    /\ colaKernel # <<>> /\ Head(colaKernel).tipo = tipo
    /\ colaKernel' = Tail(colaKernel)

\* crear_imagen_proceso. eliminar_proceso is never called.
CrearImagen ==
    /\ RecibeDeKernel("crear")
    /\ imagenes' = imagenes \cup {Head(colaKernel).pid}
    /\ UNCHANGED <<tablaVars, mudos, colaCpu, respuesta, caida>>

FinalizarDesdeLaSegunda ==
    /\ RecibeDeKernel("terminar")
    /\ ~CrearTieneMutex
    /\ LET p == Head(colaKernel).pid
       IN  /\ existe' = existe \ {p}
           /\ hiloKernel' = IF p \in existe
                            THEN [paso |-> "liberar", pid |-> p, i |-> 2]
                            ELSE hiloKernel
    /\ UNCHANGED <<tablas, marcos, hiloCpu, soltados, imagenes, mudos,
                   colaCpu, respuesta, caida>>

\* finalizar_proceso takes the table out of the dictionary ...
FinalizarProceso ==
    /\ RecibeDeKernel("terminar")
    /\ ~CrearTieneMutex
    /\ LET p == Head(colaKernel).pid
       IN  /\ existe' = existe \ {p}
           /\ hiloKernel' = IF p \in existe
                            THEN [paso |-> "liberar", pid |-> p, i |-> 1]
                            ELSE hiloKernel
    /\ UNCHANGED <<tablas, marcos, hiloCpu, soltados, imagenes, mudos,
                   colaCpu, respuesta, caida>>

\* ... frees the frames one by one ...
LiberarMarco ==
    /\ hiloKernel.paso = "liberar"
    /\ hiloKernel.i \in DOMAIN tablas[hiloKernel.pid]
    /\ LET f == tablas[hiloKernel.pid][hiloKernel.i]
       IN  /\ marcos' = IF f = SinMarco THEN marcos
                                        ELSE [marcos EXCEPT ![f] = FALSE]
           /\ soltados' = [soltados EXCEPT ![hiloKernel.pid] = @ \cup {f}]
    /\ hiloKernel' = [hiloKernel EXCEPT !.i = @ + 1]
    /\ UNCHANGED <<tablas, existe, hiloCpu, imagenes, mudos, colaCpu,
                   respuesta, colaKernel, caida>>

\* ... and destroys the list.
TerminarDeLiberar ==
    /\ hiloKernel.paso = "liberar"
    /\ hiloKernel.i \notin DOMAIN tablas[hiloKernel.pid]
    /\ tablas' = [tablas EXCEPT ![hiloKernel.pid] = <<>>]
    /\ hiloKernel' = KernelLibre
    /\ UNCHANGED <<existe, marcos, hiloCpu, soltados, imagenes, mudos,
                   colaCpu, respuesta, colaKernel, caida>>

MemoriaNext ==
    \/ RetornarSiguienteInstruccion \/ MensajePagina
    \/ MensajeLeer \/ MensajeEscribir
    \/ Resize \/ MirarMarco \/ AgregarPagina \/ TerminarDeAgregar
    \/ AchicarMarco \/ TerminarDeAchicar
    \/ CrearImagen \/ FinalizarProceso \/ LiberarMarco \/ TerminarDeLiberar
=============================================================================
