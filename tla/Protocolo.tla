------------------------------ MODULE Protocolo ------------------------------
(***************************************************************************)
(* The messages the modules exchange over their sockets: what each send_*  *)
(* packs into a t_buffer of a size computed beforehand, how a package      *)
(* travels, and what the handler of its header reads back.                 *)
(*                                                                         *)
(* buffer_add_data drops in silence what does not fit and buffer_read_data *)
(* leaves its destination untouched when there is nothing to read, so a    *)
(* wrong size or a different order of the fields shows only as a wrong     *)
(* value somewhere else. Every size, every order of writing and every      *)
(* order of reading is translated apart from the others.                   *)
(*                                                                         *)
(* A written value is a part: its field, its width in bytes and, when the  *)
(* reader uses it to go on (a length, a count, an operation), its number.  *)
(* f is the shape of the data: l1 and l2 are the lengths of its strings    *)
(* with their final zero, n the length of its list, op its DialFS          *)
(* operation.                                                              *)
(***************************************************************************)
EXTENDS Naturals, Sequences, SequencesExt

CONSTANTS Largos,       \* bound: lengths of a string, final zero included
          Cuentas,      \* bound: lengths of a list
          MaxEnVuelo    \* bound: messages sent and not read yet

ASSUME FormasAssumption ==
    /\ Largos \subseteq Nat \ {0}
    /\ Cuentas \subseteq Nat
    /\ MaxEnVuelo \in Nat \ {0}

VARIABLES conexion,     \* which connection this behaviour is about
          canal,        \* the parts in the socket, oldest first
          lector,       \* the receiving thread
          enVuelo       \* history: the messages sent and not read yet

vars == <<conexion, canal, lector, enVuelo>>

(***************************************************************************)
(* Writing: the parts each serialize_* adds, in its order.                 *)
(***************************************************************************)
Parte(c, n, v) == [campo |-> c, ancho |-> n, valor |-> v]
U32(c)         == <<Parte(c, 4, 0)>>
U8(c)          == <<Parte(c, 1, 0)>>
Numero(c, v)   == <<Parte(c, 4, v)>>
Cadena(c, l)   == Numero("largo", l) \o <<Parte(c, l, 0)>>
U32s(cs)       == [i \in DOMAIN cs |-> Parte(cs[i], 4, 0)]

TamanoRegistros == 4 * 7 + 1 * 4
TamanoPcb       == 4 * 3 + TamanoRegistros + 4

EscribirRegistros ==
    U32("pc") \o U8("ax") \o U8("bx") \o U8("cx") \o U8("dx")
      \o U32s(<<"eax", "ebx", "ecx", "edx", "si", "di">>)

EscribirPcb ==
    U32s(<<"pid", "quantum", "program_counter">>)
      \o Numero("tamano_registros", TamanoRegistros) \o EscribirRegistros

TamanoProceso(f)   == 4 + f.l1 + 4
EscribirProceso(f) == U32("pid") \o Cadena("path", f.l1)

TamanoInstruccion(f) == 4 + 4 + f.n * (4 + f.l1)
EscribirInstruccion(f) ==
    U32("name") \o Numero("num_params", f.n)
      \o FlattenSeq([i \in 1..f.n |-> Cadena("param", f.l1)])

TamanoSiguiente   == 4 + 4
EscribirSiguiente == U32("pid") \o U32("program_counter")

TamanoInterrupcion   == 4 + 4
EscribirInterrupcion == U32("name") \o U32("pid")

TamanoRecurso(f)   == 4 + f.l1 + TamanoPcb
EscribirRecurso(f) == EscribirPcb \o Cadena("nombre_recurso", f.l1)

TamanoInterfaz(f)   == 4 + f.l1 + 4
EscribirInterfaz(f) == Cadena("nombre_interfaz", f.l1) \o U32("tipo")

TamanoRespuestaLargo == 4 + 4
TamanoRespuesta == 1 + 4
EscribirRespuesta == U32("pid") \o U8("process")

TamanoGenerica(f)   == (4 + f.l2) + 4 + 4
EscribirGenerica(f) ==
    Cadena("nombre_interfaz", f.l2) \o U32("tiempo_sleep") \o U32("pid")

TamanoFrames(f)   == 4 + 4 + 4 + f.n * (4 * 3)
EscribirFrames(f) ==
    U32("pid") \o U32("tamano_total") \o Numero("size_list", f.n)
      \o FlattenSeq([i \in 1..f.n |->
                       U32s(<<"frame", "tamano", "desplazamiento">>)])

(***************************************************************************)
(* The DialFS operations are numbered CREATE 1, DELETE 2, TRUNCATE 3,      *)
(* WRITE 4 and READ 5.                                                     *)
(***************************************************************************)
Operaciones == 1..5

TamanoDialfs(f) ==
    4 + 4 + (4 + f.l1) + (4 + f.l2)
      + (CASE f.op \in {1, 2} -> 0
           [] f.op = 3        -> 4
           [] f.op \in {4, 5} -> 4 + TamanoFrames(f) + 4)

EscribirDialfsCd(f) ==
    Cadena("nombre_interfaz", f.l1) \o Cadena("nombre_archivo", f.l2)
EscribirDialfsTruncate(f) ==
    Cadena("nombre_interfaz", f.l1) \o Cadena("nombre_archivo", f.l2)
      \o U32("tamanio")
EscribirDialfsRw(f) ==
    Cadena("nombre_interfaz", f.l1) \o Cadena("nombre_archivo", f.l2)
      \o U32("tamanio") \o EscribirFrames(f) \o U32("puntero_archivo")

\* serialize_t_io_dialfs, which nobody calls, writes the same.
EscribirDialfs(f) ==
    U32("pid") \o Numero("operacion", f.op)
      \o (CASE f.op \in {1, 2} -> EscribirDialfsCd(f)
            [] f.op = 3        -> EscribirDialfsTruncate(f)
            [] f.op \in {4, 5} -> EscribirDialfsRw(f))

\* A request carries the PCB and the name of the interface before its data.
Solicitud(f, datos) ==
    EscribirPcb \o Cadena("nombre_interfaz", f.l1) \o datos

TamanoSolicitudGenerica(f) == TamanoPcb + (4 + f.l1) + TamanoGenerica(f)
TamanoSolicitudStdin(f)    == TamanoPcb + (4 + f.l1) + TamanoFrames(f)
TamanoSolicitudStdout(f)   == TamanoPcb + (4 + f.l1) + TamanoFrames(f)
TamanoSolicitudDialfs(f)   == TamanoPcb + (4 + f.l1) + TamanoDialfs(f)

EscribirSolicitudGenerica(f) == Solicitud(f, EscribirGenerica(f))
EscribirSolicitudStdin(f)    == Solicitud(f, EscribirFrames(f))
EscribirSolicitudStdout(f)   == Solicitud(f, EscribirFrames(f))
EscribirSolicitudDialfs(f)   == Solicitud(f, EscribirDialfs(f))

(***************************************************************************)
(* Reading: the steps each deserialize_* takes. A step reads a value of a  *)
(* known width, a string after its length, a list after its count, or the  *)
(* fields of the operation it has just read.                               *)
(***************************************************************************)
Paso(l, c, n, cuerpo) ==
    [lee |-> l, campo |-> c, ancho |-> n, cuerpo |-> cuerpo]
Lee32(c)           == <<Paso("fijo", c, 4, <<>>)>>
Lee8(c)            == <<Paso("fijo", c, 1, <<>>)>>
LeeBytes(c, n)     == <<Paso("fijo", c, n, <<>>)>>
LeeCadena(c)       == <<Paso("cadena", "largo", 4, c)>>
LeeLista(c, cuerpo) == <<Paso("lista", c, 4, cuerpo)>>
LeeSegun(c, casos) == <<Paso("segun", c, 4, casos)>>
Lee32s(cs)         == [i \in DOMAIN cs |-> Paso("fijo", cs[i], 4, <<>>)]

LeerRegistros ==
    Lee32("pc") \o Lee8("ax") \o Lee8("bx") \o Lee8("cx") \o Lee8("dx")
      \o Lee32s(<<"eax", "ebx", "ecx", "edx", "si", "di">>)

LeerPcb ==
    Lee32s(<<"pid", "quantum", "program_counter", "tamano_registros">>)
      \o LeerRegistros

LeerProceso == Lee32("pid") \o LeeCadena("path")

LeerInstruccion ==
    Lee32("name") \o LeeLista("num_params", LeeCadena("param"))

LeerSiguiente    == Lee32s(<<"pid", "program_counter">>)
LeerInterrupcionAlReves == Lee32s(<<"pid", "name">>)
LeerInterrupcion == Lee32s(<<"name", "pid">>)
LeerRecurso      == LeerPcb \o LeeCadena("nombre_recurso")
LeerInterfaz     == LeeCadena("nombre_interfaz") \o Lee32("tipo")
LeerRespuesta    == Lee32("pid") \o Lee8("process")
LeerGenerica     ==
    LeeCadena("nombre_interfaz") \o Lee32s(<<"tiempo_sleep", "pid">>)

LeerFrames ==
    Lee32s(<<"pid", "tamano_total">>)
      \o LeeLista("size_list",
                  Lee32s(<<"frame", "tamano", "desplazamiento">>))

LeerDialfsCd ==
    LeeCadena("nombre_interfaz") \o LeeCadena("nombre_archivo")
LeerDialfsTruncate ==
    LeeCadena("nombre_interfaz") \o LeeCadena("nombre_archivo")
      \o Lee32("tamanio")
LeerDialfsRw ==
    LeeCadena("nombre_interfaz") \o LeeCadena("nombre_archivo")
      \o Lee32("tamanio") \o LeerFrames \o Lee32("puntero_archivo")

CasosDialfs == <<LeerDialfsCd, LeerDialfsCd, LeerDialfsTruncate,
                 LeerDialfsRw, LeerDialfsRw>>

\* What the kernel reads inside a request.
LeerDialfsDeSolicitud == Lee32("pid") \o LeeSegun("operacion", CasosDialfs)
\* What the interface reads.
LeerDialfs            == Lee32("pid") \o LeeSegun("operacion", CasosDialfs)

LeerSolicitudGenerica ==
    LeerPcb \o LeeCadena("nombre_interfaz") \o LeerGenerica
LeerSolicitudStdin ==
    LeerPcb \o LeeCadena("nombre_interfaz") \o LeerFrames
LeerSolicitudStdout ==
    LeerPcb \o LeeCadena("nombre_interfaz") \o LeerFrames
LeerSolicitudDialfs ==
    LeerPcb \o LeeCadena("nombre_interfaz") \o LeerDialfsDeSolicitud

(***************************************************************************)
(* Sending: each send_* chooses the header, the size and the parts.        *)
(***************************************************************************)
Mensaje(h, tamano, partes) ==
    [header |-> h, tamano |-> tamano, partes |-> partes]

SendPcb(h)          == Mensaje(h, TamanoPcb, EscribirPcb)
SendInterruption(h) == Mensaje(h, TamanoInterrupcion, EscribirInterrupcion)
SendInstruction(f)  == Mensaje("MSG_INSTRUCTION_MEMORIA",
                               TamanoInstruccion(f), EscribirInstruccion(f))
SendNextInstruction == Mensaje("MSG_NEXT_INSTRUCTION_CPU", TamanoSiguiente,
                               EscribirSiguiente)
SendNewProcess(f)   == Mensaje("MSG_KERNEL_CREATE_PROCESS",
                               TamanoProceso(f), EscribirProceso(f))
SendEndProcess      == Mensaje("MSG_KERNEL_END_PROCESS", 4, U32("pid"))
SendRecurso(h, f)   == Mensaje(h, TamanoRecurso(f), EscribirRecurso(f))
SendSolicitudGenerica(f) ==
    Mensaje("MSG_CPU_IO_GEN_SLEEP", TamanoSolicitudGenerica(f),
            EscribirSolicitudGenerica(f))
SendSolicitudStdin(f) ==
    Mensaje("MSG_CPU_IO_STDIN_READ", TamanoSolicitudStdin(f),
            EscribirSolicitudStdin(f))
SendSolicitudStdout(f) ==
    Mensaje("MSG_CPU_IO_STDOUT_WRITE", TamanoSolicitudStdout(f),
            EscribirSolicitudStdout(f))
SendSolicitudDialfs(f) ==
    Mensaje("MSG_CPU_IO_DIALFS", TamanoSolicitudDialfs(f),
            EscribirSolicitudDialfs(f))
SendIoGenerica(f) == Mensaje("MSG_KERNEL_IO_GENERICA", TamanoGenerica(f),
                             EscribirGenerica(f))
SendIoStdin(f)    == Mensaje("MSG_KERNEL_IO_STDIN", TamanoFrames(f),
                             EscribirFrames(f))
SendIoStdout(f)   == Mensaje("MSG_KERNEL_IO_STDOUT", TamanoFrames(f),
                             EscribirFrames(f))
SendIoDialfs(f)   == Mensaje("MSG_KERNEL_IO_DIALFS", TamanoDialfs(f),
                             EscribirDialfs(f))
SendInterfaz(h, f) == Mensaje(h, TamanoInterfaz(f), EscribirInterfaz(f))
SendResponse(h)    == Mensaje(h, TamanoRespuesta, EscribirRespuesta)
SendDataWrite(f) ==
    Mensaje("MSG_GENERIC_MEMORIA_DATA_WRITE", 4 * 4 + f.l1,
            U32s(<<"pid", "frame", "offset">>) \o Cadena("dato", f.l1))
SendDataRead ==
    Mensaje("MSG_GENERIC_MEMORIA_DATA_READ", 4 * 4,
            U32s(<<"pid", "frame", "offset", "size_value">>))
SendDato(f) == Mensaje("MSG_MEMORIA_GENERIC_DATA_READ", f.l1,
                       <<Parte("dato", f.l1, 0)>>)
SendInit     == Mensaje("MSG_CPU_MEMORIA_INIT", 4, U32("handshake"))
SendPageSize == Mensaje("MSG_MEMORIA_CPU_INIT", 4, U32("page_size"))
SendPage     == Mensaje("MSG_CPU_MEMORIA_PAGE", 4 * 2,
                        U32s(<<"pid", "page">>))
SendFrame    == Mensaje("MSG_MEMORIA_CPU_FRAME", 4, U32("frame"))
SendResize   == Mensaje("MSG_CPU_MEMORIA_RESIZE", 4 * 2,
                        U32s(<<"pid", "new_size">>))
SendResizeResponse == Mensaje("MSG_MEMORIA_CPU_RESIZE", 1,
                              U8("resize_response"))

Formas == [l1 : Largos, l2 : Largos, n : Cuentas, op : Operaciones]

EnviosCpuKernel ==
    {SendPcb(h) : h \in {"MSG_PCB_KERNEL_EXIT", "MSG_CPU_OUT_OF_MEMORY",
                         "MSG_PCB_KERNEL_INTERRUPTION_QUANTUM",
                         "MSG_PCB_KERNEL_INTERRUPTION_FINISH_PROCESS"}}
      \cup {SendRecurso(h, f) : f \in Formas,
                h \in {"MSG_CPU_KERNEL_WAIT", "MSG_CPU_KERNEL_SIGNAL"}}
      \cup {SendSolicitudGenerica(f) : f \in Formas}
      \cup {SendSolicitudStdin(f) : f \in Formas}
      \cup {SendSolicitudStdout(f) : f \in Formas}
      \cup {SendSolicitudDialfs(f) : f \in Formas}

EnviosKernelIo ==
    {SendIoGenerica(f) : f \in Formas} \cup {SendIoStdin(f) : f \in Formas}
      \cup {SendIoStdout(f) : f \in Formas}
      \cup {SendIoDialfs(f) : f \in Formas}

Envios ==
    [cpu_kernel       |-> EnviosCpuKernel,
     kernel_cpu       |-> {SendPcb("MSG_PCB_CPU")},
     kernel_interrupt |-> {SendInterruption(h) :
                             h \in {"MSG_QUANTUM", "MSG_KERNEL_CPU_EXIT"}},
     kernel_memoria   |-> {SendNewProcess(f) : f \in Formas}
                            \cup {SendEndProcess},
     cpu_memoria      |-> {SendInit, SendNextInstruction, SendPage,
                           SendResize, SendDataRead}
                            \cup {SendDataWrite(f) : f \in Formas},
     memoria_cpu      |-> {SendPageSize, SendFrame, SendResizeResponse}
                            \cup {SendInstruction(f) : f \in Formas}
                            \cup {SendDato(f) : f \in Formas},
     io_kernel        |-> {SendInterfaz("MSG_IO_KERNEL", f) : f \in Formas}
                            \cup {SendResponse(h) : h \in
                              {"MSG_IO_KERNEL_GENERICA", "MSG_IO_KERNEL_STDIN",
                               "MSG_IO_KERNEL_STDOUT", "MSG_IO_KERNEL_DIALFS"}},
     kernel_io        |-> EnviosKernelIo,
     io_memoria       |-> {SendInterfaz("MSG_IO_MEMORIA", f) : f \in Formas}
                            \cup {SendDataRead}
                            \cup {SendDataWrite(f) : f \in Formas},
     memoria_io       |-> {SendDato(f) : f \in Formas}]

Conexiones == DOMAIN Envios

(***************************************************************************)
(* Receiving: the cases of the switch of each receiving thread. A header   *)
(* without a case reads nothing and leaves the buffer in the socket.       *)
(***************************************************************************)
AtiendeCpuDispatch   == [MSG_PCB_CPU |-> LeerPcb]
AtiendeCpuInterrupt  == [MSG_QUANTUM         |-> LeerInterrupcion,
                         MSG_KERNEL_CPU_EXIT |-> LeerInterrupcion]

AtiendeKernelDispatch ==
    [MSG_PCB_KERNEL_EXIT                        |-> LeerPcb,
     MSG_PCB_KERNEL_INTERRUPTION_QUANTUM        |-> LeerPcb,
     MSG_PCB_KERNEL_INTERRUPTION_FINISH_PROCESS |-> LeerPcb,
     MSG_CPU_OUT_OF_MEMORY                      |-> LeerPcb,
     MSG_CPU_KERNEL_WAIT                        |-> LeerRecurso,
     MSG_CPU_KERNEL_SIGNAL                      |-> LeerRecurso,
     MSG_CPU_IO_GEN_SLEEP                       |-> LeerSolicitudGenerica,
     MSG_CPU_IO_STDIN_READ                      |-> LeerSolicitudStdin,
     MSG_CPU_IO_STDOUT_WRITE                    |-> LeerSolicitudStdout,
     MSG_CPU_IO_DIALFS                          |-> LeerSolicitudDialfs]

AtiendeMemoriaKernel == [MSG_KERNEL_CREATE_PROCESS |-> LeerProceso,
                         MSG_KERNEL_END_PROCESS    |-> Lee32("pid")]

LeerDataRead  == Lee32s(<<"pid", "frame", "offset", "size_value">>)
LeerDataWrite == Lee32s(<<"pid", "frame", "offset">>) \o LeeCadena("dato")

AtiendeMemoriaCpu ==
    [MSG_NEXT_INSTRUCTION_CPU       |-> LeerSiguiente,
     MSG_CPU_MEMORIA_INIT           |-> Lee32("handshake"),
     MSG_CPU_MEMORIA_PAGE           |-> Lee32s(<<"pid", "page">>),
     MSG_CPU_MEMORIA_RESIZE         |-> Lee32s(<<"pid", "new_size">>),
     MSG_GENERIC_MEMORIA_DATA_READ  |-> LeerDataRead,
     MSG_GENERIC_MEMORIA_DATA_WRITE |-> LeerDataWrite]

\* Who asked for data reads as many bytes as it asked for.
LeerDato == <<Paso("pedido", "dato", 0, <<>>)>>

AtiendeCpuMemoria ==
    [MSG_INSTRUCTION_MEMORIA       |-> LeerInstruccion,
     MSG_MEMORIA_CPU_INIT          |-> Lee32("page_size"),
     MSG_MEMORIA_CPU_FRAME         |-> Lee32("frame"),
     MSG_MEMORIA_CPU_RESIZE        |-> Lee8("resize_response"),
     MSG_MEMORIA_GENERIC_DATA_READ |-> LeerDato]

\* recibir_io_connection reads the first message, atender_kernel_IO the rest.
AtiendeKernelIo == [MSG_IO_KERNEL          |-> LeerInterfaz,
                    MSG_IO_KERNEL_GENERICA |-> LeerRespuesta,
                    MSG_IO_KERNEL_STDIN    |-> LeerRespuesta,
                    MSG_IO_KERNEL_STDOUT   |-> LeerRespuesta,
                    MSG_IO_KERNEL_DIALFS   |-> LeerRespuesta]

AtiendeIoSinDialfs == [MSG_KERNEL_IO_GENERICA |-> LeerGenerica,
                       MSG_KERNEL_IO_STDIN    |-> LeerFrames,
                       MSG_KERNEL_IO_STDOUT   |-> LeerFrames]
AtiendeIo == [MSG_KERNEL_IO_GENERICA |-> LeerGenerica,
              MSG_KERNEL_IO_STDIN    |-> LeerFrames,
              MSG_KERNEL_IO_STDOUT   |-> LeerFrames,
              MSG_KERNEL_IO_DIALFS   |-> LeerDialfs]

AtiendeMemoriaIo == [MSG_IO_MEMORIA                 |-> LeerInterfaz,
                     MSG_GENERIC_MEMORIA_DATA_READ  |-> LeerDataRead,
                     MSG_GENERIC_MEMORIA_DATA_WRITE |-> LeerDataWrite]

AtiendeIoMemoria == [MSG_MEMORIA_GENERIC_DATA_READ |-> LeerDato]

Atiende ==
    [cpu_kernel     |-> AtiendeKernelDispatch,
     kernel_cpu     |-> AtiendeCpuDispatch,
     kernel_interrupt |-> AtiendeCpuInterrupt,
     kernel_memoria |-> AtiendeMemoriaKernel,
     cpu_memoria    |-> AtiendeMemoriaCpu,
     memoria_cpu    |-> AtiendeCpuMemoria,
     io_kernel      |-> AtiendeKernelIo,
     kernel_io      |-> AtiendeIo,
     io_memoria     |-> AtiendeMemoriaIo,
     memoria_io     |-> AtiendeIoMemoria]

-----------------------------------------------------------------------------
(***************************************************************************)
(* The buffer and the socket.                                              *)
(***************************************************************************)
Bytes(partes) ==
    LET hasta[k \in 0..Len(partes)] ==
          IF k = 0 THEN 0 ELSE hasta[k - 1] + partes[k].ancho
    IN  hasta[Len(partes)]

\* buffer_add_data: what does not fit is not added.
BufferAdd(b, p) ==
    IF Bytes(b.partes) + p.ancho <= b.size
    THEN [b EXCEPT !.partes = Append(@, p)]
    ELSE b

\* buffer_create of the computed size, filled by the adds; what they leave
\* is whatever malloc returned.
Serializado(m) ==
    LET tras[k \in 0..Len(m.partes)] ==
          IF k = 0 THEN [size |-> m.tamano, partes |-> <<>>]
          ELSE BufferAdd(tras[k - 1], m.partes[k])
        b     == tras[Len(m.partes)]
        resto == m.tamano - Bytes(b.partes)
    IN  b.partes \o IF resto > 0
                    THEN <<Parte("sin_inicializar", resto, 0)>> ELSE <<>>

\* package_send: header, size and buffer leave in one send.
PackageSend(m) ==
    <<Parte(m.header, 4, 0), Parte("size", 4, m.tamano)>> \o Serializado(m)

\* Every package once, for TLC.
Paquetes == [m \in UNION {Envios[c] : c \in Conexiones} |-> PackageSend(m)]

\* How many parts make the first n bytes.
Primeras(partes, n) ==
    CHOOSE k \in 0..Len(partes) :
        /\ Bytes(SubSeq(partes, 1, k)) >= n
        /\ \A j \in 0..(k - 1) : Bytes(SubSeq(partes, 1, j)) < n

\* What is left after reading n bytes, cutting a part when n ends inside it.
Despues(partes, n) ==
    LET k     == Primeras(partes, n)
        sobra == Bytes(SubSeq(partes, 1, k)) - n
    IN  (IF sobra > 0 THEN <<Parte("cortado", sobra, 0)>> ELSE <<>>)
          \o SubSeq(partes, k + 1, Len(partes))

\* recive_full_buffer: the bytes the size announces leave the socket.
RecvBufferSinDatos(llegado, size) == [datos |-> <<>>, canal |-> llegado]
RecvBuffer(llegado, size) ==
    LET k == Primeras(llegado, size)
    IN  [datos |-> SubSeq(llegado, 1, k),
         canal |-> SubSeq(llegado, k + 1, Len(llegado))]

EnEspera == [fase |-> "operacion", datos |-> <<>>, pila |-> <<>>,
             leidos |-> <<>>]

Init ==
    /\ conexion \in Conexiones
    /\ canal = <<>>
    /\ lector = EnEspera
    /\ enVuelo = <<>>

(***************************************************************************)
(* A sender packs a message and sends it; several threads share some of    *)
(* the sockets, each send is one call.                                     *)
(***************************************************************************)
Enviar ==
    /\ Len(enVuelo) < MaxEnVuelo
    /\ \E m \in Envios[conexion] :
         /\ canal' = canal \o Paquetes[m]
         /\ enVuelo' = Append(enVuelo, m)
    /\ UNCHANGED <<conexion, lector>>

(***************************************************************************)
(* recibir_operacion reads the header; when it has a case its handler      *)
(* takes the whole buffer, and a buffer of no bytes ends the process.      *)
(***************************************************************************)
Recibir ==
    /\ lector.fase = "operacion"
    /\ canal # <<>>
    /\ LET header == Head(canal).campo
       IN  IF header \in DOMAIN Atiende[conexion]
           THEN LET size == canal[2].valor
                    recv == RecvBuffer(SubSeq(canal, 3, Len(canal)), size)
                IN  /\ canal' = recv.canal
                    /\ lector' =
                         [fase   |-> IF size = 0 THEN "abortado" ELSE "campos",
                          datos  |-> recv.datos,
                          pila   |-> Atiende[conexion][header],
                          leidos |-> <<>>]
           ELSE /\ canal' = Tail(canal)
                /\ UNCHANGED lector
    /\ UNCHANGED <<conexion, enVuelo>>

\* What a step leaves to be read once it has read the number v.
Siguientes(paso, v) ==
    CASE paso.lee = "cadena" -> LeeBytes(paso.cuerpo, v)
      [] paso.lee = "lista"  -> FlattenSeq([i \in 1..v |-> paso.cuerpo])
      [] paso.lee = "segun"  -> IF v \in DOMAIN paso.cuerpo
                                THEN paso.cuerpo[v] ELSE <<>>
      [] OTHER               -> <<>>

(***************************************************************************)
(* One buffer_read_data of the handler. Nothing is read past the end: the  *)
(* number used afterwards is then any that was on the stack.               *)
(***************************************************************************)
Leer ==
    /\ lector.fase = "campos"
    /\ lector.pila # <<>>
    /\ LET paso  == Head(lector.pila)
           n     == IF paso.lee = "pedido" THEN Bytes(lector.datos)
                    ELSE paso.ancho
           puede == lector.datos # <<>> /\ n <= Bytes(lector.datos)
           bien  == puede /\ Head(lector.datos).ancho = n
       IN  \E v \in IF bien THEN {Head(lector.datos).valor} ELSE {0, 1} :
             lector' =
               [lector EXCEPT
                  !.datos  = IF puede THEN Despues(@, n) ELSE @,
                  !.pila   = Siguientes(paso, v) \o Tail(@),
                  !.leidos = Append(@,
                      [destino |-> paso.campo,
                       campo   |-> IF bien THEN Head(lector.datos).campo
                                   ELSE "basura"])]
    /\ UNCHANGED <<conexion, canal, enVuelo>>

\* buffer_destroy: the handler is done and its thread waits again.
Terminar ==
    /\ lector.fase = "campos"
    /\ lector.pila = <<>>
    /\ lector' = EnEspera
    /\ enVuelo' = Tail(enVuelo)
    /\ UNCHANGED <<conexion, canal>>

Next == Enviar \/ Recibir \/ Leer \/ Terminar

Spec == Init /\ [][Next]_vars

-----------------------------------------------------------------------------
(***************************************************************************)
(* TYPE.  The receiving thread is in one of its phases, the socket never   *)
(* holds more than the messages sent and not read.                         *)
(***************************************************************************)
TipoCorrecto ==
    /\ conexion \in Conexiones
    /\ lector.fase \in {"operacion", "campos", "abortado"}
    /\ Len(enVuelo) \in 0..MaxEnVuelo
    /\ canal # <<>> => enVuelo # <<>>
    /\ \A i \in DOMAIN canal : canal[i].ancho > 0

(***************************************************************************)
(* SAFETY.  Every field a deserialize_* stores is the field its serialize_ *)
(* counterpart wrote at that place: what was read so far is the beginning  *)
(* of what was written, field by field, and nothing comes from memory the  *)
(* message never held.                                                     *)
(***************************************************************************)
LecturaFiel ==
    lector.fase = "campos" =>
        /\ Len(lector.leidos) <= Len(Head(enVuelo).partes)
        /\ \A i \in DOMAIN lector.leidos :
             /\ lector.leidos[i].campo = lector.leidos[i].destino
             /\ lector.leidos[i].campo = Head(enVuelo).partes[i].campo

(***************************************************************************)
(* SAFETY.  When a handler is done it has read all that was written and    *)
(* nothing of the buffer is left: no get_*_size or obtener_tamanio_*       *)
(* announces more bytes than are written, no field is written that nobody  *)
(* reads. A size that is short, which drops the last fields in silence, is *)
(* seen by LecturaFiel.                                                    *)
(***************************************************************************)
PaqueteExacto ==
    (lector.fase = "campos" /\ lector.pila = <<>>) =>
        /\ lector.datos = <<>>
        /\ Len(lector.leidos) = Len(Head(enVuelo).partes)

(***************************************************************************)
(* SAFETY.  A thread that waits for an operation finds at the head of its  *)
(* socket a header it has a case for, never the buffer of a message no one *)
(* read, and no handler ends the process over an empty buffer.             *)
(***************************************************************************)
CanalAlineado ==
    /\ lector.fase # "abortado"
    /\ (lector.fase = "operacion" /\ canal # <<>>) =>
           Head(canal).campo \in DOMAIN Atiende[conexion]
=============================================================================
