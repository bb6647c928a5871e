--------------------------------- MODULE Mmu ---------------------------------
(***************************************************************************)
(* The CPU side of the memory: the TLB, the translation of addresses and   *)
(* the transfers of MOV_IN, MOV_OUT, COPY_STRING and the IO instructions,  *)
(* with the memory program, the kernel and the interfaces that use the     *)
(* frames of a request.                                                    *)
(*                                                                         *)
(* Registers and programs are inputs: an instruction takes any address and *)
(* size. Of the kernel this keeps where a process is. A process in the CPU *)
(* is not ended: FINALIZAR_PROCESO interrupts it (see Planificacion).      *)
(***************************************************************************)
EXTENDS Memoria, FiniteSetsExt, SequencesExt

CONSTANTS CantidadEntradasTlb,
          AlgoritmoTlb,      \* "FIFO" or "LRU"
          Direcciones,       \* logical addresses the programs use
          Destinos,          \* those in DI for COPY_STRING
          Tamanos,           \* sizes of their transfers, in bytes
          TamanosResize,     \* sizes they RESIZE to
          MaxInstrucciones   \* bound: instructions of a process before EXIT

ASSUME MmuAssumption ==
    /\ CantidadEntradasTlb \in Nat
    /\ AlgoritmoTlb \in {"FIFO", "LRU"}
    /\ Direcciones \subseteq Nat /\ Destinos \subseteq Nat
    /\ Tamanos \subseteq Nat /\ TamanosResize \subseteq Nat
    /\ MaxInstrucciones \in Nat

VARIABLES
    tlb,         \* the used entries of TLB_list, the next victim first
    cpu,         \* the thread of the cycle and the transfer it makes
    estado,      \* where the kernel has each process
    io,          \* the request of a process at its interface
    enVuelo,     \* writes of the interfaces the memory has not applied
    hechas,      \* bound: instructions executed by each process
    achicados    \* history: processes that shrank

cpuVars   == <<tlb, cpu, achicados>>
restoVars == <<estado, io, enVuelo, hechas>>
vars      == <<memoriaVars, cpuVars, restoVars>>

SinPedido == [activo |-> FALSE, lectura |-> TRUE, trozos |-> <<>>]
Ocioso == [fase |-> "ocioso", pid |-> 0, op |-> "nada", dir |-> 0, tam |-> 0,
           destino |-> 0, lectura |-> TRUE, resta |-> 0, pagina |-> 0,
           desp |-> 0, trozos |-> <<>>]

Init ==
    /\ MemoriaInit
    /\ tlb = <<>>
    /\ cpu = Ocioso
    /\ estado = [p \in Pids |-> "nuevo"]
    /\ io = [p \in Pids |-> SinPedido]
    /\ enVuelo = {}
    /\ hechas = [p \in Pids |-> 0]
    /\ achicados = {}

Pide(m) == colaCpu' = Append(colaCpu, m)

Recibe(tipo) == respuesta.tipo = tipo /\ respuesta' = SinRespuesta

-----------------------------------------------------------------------------
(***************************************************************************)
(* The kernel.                                                             *)
(***************************************************************************)
\* The console sends the creation to the memory.
CrearProceso(p) ==
    /\ estado[p] = "nuevo" /\ \A q \in Pids : q < p => estado[q] # "nuevo"
    /\ estado' = [estado EXCEPT ![p] = "listo"]
    /\ colaKernel' = Append(colaKernel, Pedido("crear", p))
    /\ UNCHANGED <<tablaVars, imagenes, mudos, colaCpu, respuesta, caida, cpuVars,
                   io, enVuelo, hechas>>

\* FINALIZAR_PROCESO of a process that is not in the CPU.
Finalizar(p) ==
    /\ estado[p] \in {"listo", "io"}
    /\ estado' = [estado EXCEPT ![p] = "exit"]
    /\ UNCHANGED <<memoriaVars, cpuVars, io, enVuelo, hechas>>

\* end_process
EndProcess(p) ==
    /\ estado[p] = "exit"
    /\ estado' = [estado EXCEPT ![p] = "fin"]
    /\ colaKernel' = Append(colaKernel, Pedido("terminar", p))
    /\ UNCHANGED <<tablaVars, imagenes, mudos, colaCpu, respuesta, caida, cpuVars,
                   io, enVuelo, hechas>>

-----------------------------------------------------------------------------
(***************************************************************************)
(* The cycle of the CPU.                                                   *)
(***************************************************************************)
\* recibir_pcb asks for the first instruction.
RecibirPcb(p) ==
    /\ cpu.fase = "ocioso"
    /\ estado[p] = "listo"
    /\ estado' = [estado EXCEPT ![p] = "cpu"]
    /\ cpu' = [Ocioso EXCEPT !.fase = "fetch", !.pid = p]
    /\ Pide(Pedido("fetch", p))
    /\ UNCHANGED <<tablaVars, imagenes, mudos, respuesta, colaKernel, caida, tlb,
                   achicados, io, enVuelo, hechas>>

RecvInstruction ==
    /\ cpu.fase = "fetch"
    /\ Recibe("instruccion")
    /\ cpu' = [cpu EXCEPT !.fase = "instruccion"]
    /\ hechas' = [hechas EXCEPT ![cpu.pid] = @ + 1]
    /\ UNCHANGED <<tablaVars, imagenes, mudos, colaCpu, colaKernel, caida, tlb,
                   achicados, estado, io, enVuelo>>

\* The end of manejar_ciclo_de_instruccion: no interruption, next fetch.
SolicitarInstruccion ==
    /\ cpu.fase = "siguiente"
    /\ cpu' = [Ocioso EXCEPT !.fase = "fetch", !.pid = cpu.pid]
    /\ Pide(Pedido("fetch", cpu.pid))
    /\ UNCHANGED <<tablaVars, imagenes, mudos, respuesta, colaKernel, caida, tlb,
                   achicados, restoVars>>

\* manejar_interrupcion returns the process.
ManejarInterrupcion ==
    /\ cpu.fase = "siguiente"
    /\ cpu' = Ocioso
    /\ estado' = [estado EXCEPT ![cpu.pid] = "listo"]
    /\ UNCHANGED <<memoriaVars, tlb, achicados, io, enVuelo, hechas>>

\* EXIT, and the return of a process that ran out of memory.
EnviarPcbFinalizado ==
    /\ cpu.fase \in {"instruccion", "out_of_memory"}
    /\ cpu' = Ocioso
    /\ estado' = [estado EXCEPT ![cpu.pid] = "exit"]
    /\ UNCHANGED <<memoriaVars, tlb, achicados, io, enVuelo, hechas>>

Ejecuta == cpu.fase = "instruccion" /\ hechas[cpu.pid] <= MaxInstrucciones

\* RESIZE: ajustar_tamano_proceso waits for the answer of the memory.
EjecutarResize(t) ==
    /\ Ejecuta
    /\ cpu' = [cpu EXCEPT !.fase = "resize", !.tam = t]
    /\ Pide([Pedido("resize", cpu.pid) EXCEPT !.cant = t])
    /\ achicados' = IF PaginasPara(t) < Len(tablas[cpu.pid])
                    THEN achicados \cup {cpu.pid} ELSE achicados
    /\ UNCHANGED <<tablaVars, imagenes, mudos, respuesta, colaKernel, caida, tlb,
                   restoVars>>

RecibirResize ==
    /\ cpu.fase = "resize"
    /\ Recibe("resize")
    /\ cpu' = [cpu EXCEPT !.fase = IF respuesta.valor = 1 THEN "siguiente"
                                                        ELSE "out_of_memory"]
    /\ UNCHANGED <<tablaVars, imagenes, mudos, colaCpu, colaKernel, caida, tlb,
                   achicados, restoVars>>

\* crear_dir_logica
NumPagina(dir)      == dir \div PageSize
Desplazamiento(dir) == dir % PageSize

Empezar(op, dir, tam, lectura, destino) ==
    /\ Ejecuta
    /\ cpu' = [cpu EXCEPT !.fase = "trozo", !.op = op, !.dir = dir,
                          !.tam = tam, !.lectura = lectura, !.destino = destino,
                          !.resta = tam, !.pagina = NumPagina(dir),
                          !.desp = Desplazamiento(dir)]
    /\ UNCHANGED <<memoriaVars, tlb, achicados, restoVars>>

MovIn(dir, tam)  == Empezar("mov", dir, tam, TRUE, 0)
MovOut(dir, tam) == Empezar("mov", dir, tam, FALSE, 0)

CopyString(origen, destino, tam) ==
    Empezar("copiar", origen, tam, TRUE, destino)

\* IO_STDOUT_WRITE and IO_FS_WRITE read the frames, IO_STDIN_READ and
\* IO_FS_READ write them.
ExecIoFrames(dir, tam, lectura) == Empezar("io", dir, tam, lectura, 0)

-----------------------------------------------------------------------------
(***************************************************************************)
(* The loop of read_from_memory, write_into_memory and exec_io_frames.     *)
(***************************************************************************)
EnTlbSinPid(e, pid, pagina) == e.pagina = pagina

EnTlb(e, pid, pagina) == e.pid = pid /\ e.pagina = pagina

Aciertos == {k \in DOMAIN tlb : EnTlb(tlb[k], cpu.pid, cpu.pagina)}

\* bytes_disponibles: a write that starts inside of a page counts one more.
DisponiblesDeMas == PageSize - cpu.desp + (IF cpu.desp = 0 THEN 0 ELSE 1)

Disponibles == PageSize - cpu.desp
                 + (IF cpu.desp = 0 \/ cpu.lectura THEN 0 ELSE 1)

\* One piece with its frame: a read waits for its data, a write does not,
\* an IO keeps it for the request.
Transferir(marco) ==
    LET cant  == Min({cpu.resta, Disponibles})
        trozo == [marco |-> marco, desp |-> cpu.desp, cant |-> cant]
        m     == [Pedido(IF cpu.lectura THEN "leer" ELSE "escribir", cpu.pid)
                    EXCEPT !.marco = marco, !.desp = cpu.desp, !.cant = cant]
    IN  /\ cpu' = [cpu EXCEPT
                     !.fase = IF cpu.op # "io" /\ cpu.lectura THEN "dato"
                                                             ELSE "trozo",
                     !.trozos = Append(@, trozo),
                     !.resta = @ - cant, !.pagina = @ + 1, !.desp = 0]
        /\ IF cpu.op = "io" THEN UNCHANGED colaCpu ELSE Pide(m)

\* A TLB hit; with LRU the entry becomes the last victim.
ObtenerMarco ==
    /\ cpu.fase = "trozo" /\ cpu.resta > 0
    /\ \E k \in Aciertos :
         /\ Transferir(tlb[k].marco)
         /\ tlb' = IF AlgoritmoTlb = "LRU"
                   THEN Append(RemoveAt(tlb, k), tlb[k]) ELSE tlb
    /\ UNCHANGED <<tablaVars, imagenes, mudos, respuesta, colaKernel, caida,
                   achicados, restoVars>>

\* A TLB miss.
PedirMarco ==
    /\ cpu.fase = "trozo" /\ cpu.resta > 0
    /\ Aciertos = {}
    /\ cpu' = [cpu EXCEPT !.fase = "marco"]
    /\ Pide([Pedido("pagina", cpu.pid) EXCEPT !.pagina = cpu.pagina])
    /\ UNCHANGED <<tablaVars, imagenes, mudos, respuesta, colaKernel, caida, tlb,
                   achicados, restoVars>>

ReemplazarSinVictima(entrada) == Append(tlb, entrada)

Reemplazar(entrada) ==
    IF CantidadEntradasTlb = 0 THEN tlb
    ELSE Append(IF Len(tlb) < CantidadEntradasTlb THEN tlb ELSE Tail(tlb),
                entrada)

RecibirMarco ==
    /\ cpu.fase = "marco"
    /\ Recibe("marco")
    /\ tlb' = Reemplazar([pid |-> cpu.pid, pagina |-> cpu.pagina,
                          marco |-> respuesta.valor])
    /\ Transferir(respuesta.valor)
    /\ UNCHANGED <<tablaVars, imagenes, mudos, colaKernel, caida, achicados,
                   restoVars>>

RecibirDato ==
    /\ cpu.fase = "dato"
    /\ Recibe("dato")
    /\ cpu' = [cpu EXCEPT !.fase = "trozo"]
    /\ UNCHANGED <<tablaVars, imagenes, mudos, colaCpu, colaKernel, caida, tlb,
                   achicados, restoVars>>

Transferido == cpu.fase = "trozo" /\ cpu.resta = 0

TerminarMov ==
    /\ Transferido /\ (cpu.op = "mov" \/ (cpu.op = "copiar" /\ ~cpu.lectura))
    /\ cpu' = [Ocioso EXCEPT !.fase = "siguiente", !.pid = cpu.pid]
    /\ UNCHANGED <<memoriaVars, tlb, achicados, restoVars>>

\* copiar_cadena writes what it read.
CopiarADestino ==
    /\ Transferido /\ cpu.op = "copiar" /\ cpu.lectura
    /\ cpu' = [cpu EXCEPT !.dir = cpu.destino, !.lectura = FALSE,
                          !.resta = cpu.tam,
                          !.pagina = NumPagina(cpu.destino),
                          !.desp = Desplazamiento(cpu.destino),
                          !.trozos = <<>>]
    /\ UNCHANGED <<memoriaVars, tlb, achicados, restoVars>>

\* The request and the PCB go to the kernel, and the request to its interface.
SolicitarIo ==
    /\ Transferido /\ cpu.op = "io"
    /\ cpu' = Ocioso
    /\ estado' = [estado EXCEPT ![cpu.pid] = "io"]
    /\ io' = [io EXCEPT ![cpu.pid] = [activo |-> TRUE,
                                      lectura |-> cpu.lectura,
                                      trozos |-> cpu.trozos]]
    /\ UNCHANGED <<memoriaVars, tlb, achicados, enVuelo, hechas>>

-----------------------------------------------------------------------------
(***************************************************************************)
(* The interfaces, each on its own connection to the memory.               *)
(***************************************************************************)
\* The interface answers the kernel, whether the process still waits or not.
Responder(p) ==
    estado' = IF estado[p] = "io" THEN [estado EXCEPT ![p] = "listo"]
                                  ELSE estado

\* escribir_memoria sends its writes and waits for no answer.
EscribirMemoria(p) ==
    /\ io[p].activo /\ ~io[p].lectura
    /\ enVuelo' = enVuelo \cup {[pid |-> p, trozo |-> t] : t \in ToSet(io[p].trozos)}
    /\ io' = [io EXCEPT ![p] = SinPedido]
    /\ Responder(p)
    /\ UNCHANGED <<memoriaVars, cpuVars, hechas>>

\* leer_memoria reads piece by piece.
LeerMemoria(p) ==
    /\ io[p].activo /\ io[p].lectura /\ io[p].trozos # <<>>
    /\ io' = [io EXCEPT ![p].trozos = Tail(@)]
    /\ UNCHANGED <<memoriaVars, cpuVars, estado, enVuelo, hechas>>

ResponderStdout(p) ==
    /\ io[p].activo /\ io[p].lectura /\ io[p].trozos = <<>>
    /\ io' = [io EXCEPT ![p] = SinPedido]
    /\ Responder(p)
    /\ UNCHANGED <<memoriaVars, cpuVars, enVuelo, hechas>>

\* atender_memoria_IO applies one.
EscribirDeIo ==
    /\ \E e \in enVuelo : enVuelo' = enVuelo \ {e}
    /\ UNCHANGED <<memoriaVars, cpuVars, estado, io, hechas>>

-----------------------------------------------------------------------------
Next ==
    /\ ~caida
    /\ \/ MemoriaNext /\ UNCHANGED <<cpuVars, restoVars>>
       \/ \E p \in Pids : CrearProceso(p) \/ Finalizar(p) \/ EndProcess(p)
                            \/ RecibirPcb(p) \/ EscribirMemoria(p)
                            \/ LeerMemoria(p) \/ ResponderStdout(p)
       \/ EscribirDeIo
       \/ RecvInstruction \/ SolicitarInstruccion \/ ManejarInterrupcion
       \/ EnviarPcbFinalizado
       \/ \E t \in TamanosResize : EjecutarResize(t)
       \/ RecibirResize
       \/ \E dir \in Direcciones, tam \in Tamanos :
            \/ MovIn(dir, tam) \/ MovOut(dir, tam)
            \/ \E destino \in Destinos : CopyString(dir, destino, tam)
            \/ \E lectura \in BOOLEAN : ExecIoFrames(dir, tam, lectura)
       \/ ObtenerMarco \/ PedirMarco \/ RecibirMarco \/ RecibirDato
       \/ TerminarMov \/ CopiarADestino \/ SolicitarIo

Spec == Init /\ [][Next]_vars

-----------------------------------------------------------------------------
(***************************************************************************)
(* TYPE.                                                                   *)
(***************************************************************************)
Pedidos == [tipo : {"fetch", "pagina", "leer", "escribir", "resize", "crear",
                    "terminar"},
            pid : Pids, pagina : Nat, marco : Marcos \cup {SinMarco, 0},
            desp : Nat, cant : Nat]
Trozos  == [marco : Marcos \cup {SinMarco}, desp : Nat, cant : Nat]

TypeTablas ==
    /\ tablas \in [Pids -> Seq(Marcos \cup {SinMarco})]
    /\ existe \subseteq Pids
    /\ marcos \in [Marcos -> BOOLEAN]
    /\ hiloCpu \in [paso : {"espera", "crear", "ampliar", "achicar"},
                    pid : Nat, meta : Nat, i : Nat]
    /\ hiloCpu.paso # "espera" => hiloCpu.pid \in Pids
    /\ hiloKernel \in [paso : {"espera", "liberar"}, pid : Nat, i : Nat]
    /\ hiloKernel.paso # "espera" => hiloKernel.pid \in Pids
    /\ soltados \in [Pids -> SUBSET (Marcos \cup {SinMarco})]
    /\ imagenes \subseteq Pids /\ mudos \subseteq Pids
    /\ colaCpu \in Seq(Pedidos) /\ colaKernel \in Seq(Pedidos)
    /\ caida \in BOOLEAN

TypeMemoria ==
    /\ TypeTablas
    /\ tlb \in Seq([pid : Pids, pagina : Nat, marco : Marcos \cup {SinMarco}])
    /\ Len(tlb) <= CantidadEntradasTlb
    /\ cpu.trozos \in Seq(Trozos)
    /\ cpu.fase # "ocioso" => cpu.pid \in Pids
    /\ estado \in [Pids -> {"nuevo", "listo", "cpu", "io", "exit", "fin"}]
    /\ \A p \in Pids : io[p].trozos \in Seq(Trozos)
    /\ enVuelo \subseteq [pid : Pids, trozo : Trozos]
    /\ hechas \in [Pids -> Nat]
    /\ achicados \subseteq Pids

(***************************************************************************)
(* SAFETY.  A page that is still in its table has a frame no other page    *)
(* has, and the frames marked as used are those: none is lost and none is  *)
(* given twice, while one thread allocates and both free, bit by bit.      *)
(***************************************************************************)
Liberada(p, n) ==
    \/ /\ hiloKernel.paso = "liberar" /\ hiloKernel.pid = p
       /\ n < hiloKernel.i
    \/ /\ hiloCpu.paso = "achicar" /\ hiloCpu.pid = p
       /\ hiloCpu.meta < n /\ n < hiloCpu.i

Tiene(p, n) == /\ n \in DOMAIN tablas[p]
               /\ tablas[p][n] # SinMarco
               /\ ~Liberada(p, n)

MarcosCuadran ==
    /\ \A p, q \in Pids :
         \A n \in DOMAIN tablas[p], m \in DOMAIN tablas[q] :
           Tiene(p, n) /\ Tiene(q, m) /\ tablas[p][n] = tablas[q][m]
             => p = q /\ n = m
    /\ \A f \in Marcos :
         marcos[f] <=> \E p \in Pids : \E n \in DOMAIN tablas[p] :
                         Tiene(p, n) /\ tablas[p][n] = f

(***************************************************************************)
(* SAFETY.  RESIZE never leaves a page without a frame, although it counts *)
(* the free frames without the mutex and takes them one by one later.      *)
(***************************************************************************)
PaginasPresentes ==
    \A p \in existe : SinMarco \notin ToSet(tablas[p])

(***************************************************************************)
(* SAFETY.  When a transfer is over, byte k of it was at the physical      *)
(* place of logical address dir + k, in order and each once; hits, misses  *)
(* and replacements of the TLB included. The exceptions are a process that *)
(* shrank, whose entries are never dropped, and a write that goes on to    *)
(* another page from inside of one, which puts one byte past a frame.      *)
(***************************************************************************)
Fisicas ==
    FlattenSeq([k \in DOMAIN cpu.trozos |->
                  LET t == cpu.trozos[k]
                  IN  [j \in 1 .. t.cant |-> <<t.marco, t.desp + j - 1>>]])

CruzaDesdeAdentro ==
    LET d == Desplazamiento(cpu.dir)
    IN  d # 0 /\ cpu.tam > PageSize - d

CadaByteEnSuLugar ==
    Transferido =>
      /\ Len(Fisicas) = cpu.tam
      /\ Cardinality({k \in 1 .. cpu.tam : Fisicas[k][2] = PageSize}) <= 1
      /\ \/ cpu.pid \in achicados
         \/ ~cpu.lectura /\ CruzaDesdeAdentro
         \/ \A k \in 1 .. cpu.tam :
              LET dir == cpu.dir + k - 1
              IN  Fisicas[k] = <<tablas[cpu.pid][NumPagina(dir) + 1],
                                 Desplazamiento(dir)>>

(***************************************************************************)
(* SAFETY.  What was resolved to a frame (a piece of the transfer of the   *)
(* CPU, a message it sent, a request or an unacknowledged write of an      *)
(* interface) is for a frame its process has or had: it can be of another  *)
(* one only after its own process gave it back, by a RESIZE or because it  *)
(* ended. And what the CPU sent cannot be of another one even then, unless *)
(* the process shrank: END_PROCESS frees the frames, but nobody is given   *)
(* them before the messages that came first are read.                      *)
(***************************************************************************)
Suyo(p, f) ==
    \/ f \in ToSet(tablas[p])
    \/ f \in soltados[p] /\ (p \in achicados \/ estado[p] = "fin")

DeOtro(p, f) ==
    \E q \in Pids \ {p} : \E n \in DOMAIN tablas[q] :
      Tiene(q, n) /\ tablas[q][n] = f

EnVueloPropio ==
    /\ \A p \in Pids : \A t \in ToSet(io[p].trozos) : Suyo(p, t.marco)
    /\ \A e \in enVuelo : Suyo(e.pid, e.trozo.marco)
    /\ cpu.fase = "trozo" =>
         \A t \in ToSet(cpu.trozos) : Suyo(cpu.pid, t.marco)
    /\ \A k \in DOMAIN colaCpu :
         LET m == colaCpu[k]
         IN  m.tipo \in {"leer", "escribir"} =>
               /\ Suyo(m.pid, m.marco)
               /\ m.pid \notin achicados => ~DeOtro(m.pid, m.marco)

(***************************************************************************)
(* SAFETY.  The CPU and the memory never lose step, although some of the   *)
(* messages have no answer: while the CPU waits, one question of that kind *)
(* and of its process is on its way, being served or answered, and there   *)
(* is none when it does not wait. Only a fetch can be left without an      *)
(* answer, which leaves the CPU waiting forever: when the program has no   *)
(* such instruction, or at the first one of the process, which came before *)
(* the creation of the image its key names. An instruction that comes is   *)
(* of that image, the own one of every pid uint8_to_string keeps.          *)
(***************************************************************************)
PreguntaDe  == [fetch |-> "fetch", marco |-> "pagina", dato |-> "leer",
                resize |-> "resize"]
RespuestaDe == [fetch |-> "instruccion", marco |-> "marco", dato |-> "dato",
                resize |-> "resize"]

Preguntas  == {k \in DOMAIN colaCpu : colaCpu[k].tipo # "escribir"}
Atendida   == hiloCpu.paso # "espera"
Contestada == respuesta # SinRespuesta
Colgada    == /\ cpu.fase = "fetch"
              /\ Preguntas = {} /\ ~Contestada

UnaPregunta ==
    /\ \A k \in Preguntas :
         /\ cpu.fase \in DOMAIN PreguntaDe /\ colaCpu[k].pid = cpu.pid
         /\ colaCpu[k].tipo = PreguntaDe[cpu.fase]
         /\ k = Len(colaCpu) /\ ~Atendida /\ ~Contestada
    /\ Atendida => /\ cpu.fase = "resize" /\ hiloCpu.pid = cpu.pid
                   /\ ~Contestada
    /\ Contestada => /\ cpu.fase \in DOMAIN RespuestaDe
                     /\ respuesta.tipo = RespuestaDe[cpu.fase]
    /\ cpu.fase \in DOMAIN PreguntaDe =>
         caida \/ Colgada \/ Preguntas # {} \/ Atendida \/ Contestada

RespuestaPropia ==
    /\ UnaPregunta
    /\ respuesta.tipo = "instruccion" =>
         /\ respuesta.valor = Clave(cpu.pid)
         /\ cpu.pid < Claves => respuesta.valor = cpu.pid
    /\ Colgada /\ cpu.pid \notin mudos => hechas[cpu.pid] = 0
=============================================================================
