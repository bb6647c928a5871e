# TP-SO-UTN in TLA+

The repository is a simulated operating system of four programs in C that talk
over TCP: `kernel`, `cpu`, `memoria` and any number of `entradasalida`
interfaces.  This directory holds TLA+ modules of the parts of it where the
order of steps matters, the TLC configurations that check them on small
instances and the TLAPS proofs of what holds for every instance.

The code has no unit tests.  What it says of itself is in the pre- and
postconditions of its headers and in its comments, which are in Spanish;
definitions here keep the names of the code.

## 1. Inventory

### How the programs interact

    console --> KERNEL --- dispatch socket: PCBs ---------> CPU
                  |    <-- PCB with a reason, or request --  |
                  |    --- interrupt socket --------------->  |
                  |                                           | fetch, read/write,
                  |--- create / end a process ---> MEMORIA <--| RESIZE, page lookup
                  |                                   ^
                  |--- requests, answers ---> ENTRADASALIDA (one per interface)

Sockets are TCP: ordered, without loss or duplicates.  Only the files of DialFS
are persisted: it is the one part that meets a disk left by a crash.

### Kernel (`src/kernel`)

| part | state | operations | what is hard | what makes it correct |
|---|---|---|---|---|
| long-term planner (`largo_plazo.c`) | `COLA_NEW`, `COLA_EXIT`, `SEM_NEW`, `SEM_EXIT`, `SEM_MULTIPROGRAMACION` | `send_new_to_ready`, `end_process` | two threads, the console and the dispatch server share the lists | every process admitted once, ended once, never more than the degree |
| short-term planner (`corto_plazo.c`) | `EXECUTE`, `COLA_READY`, `COLA_AUX_READY`, `SEM_CPU`, `datos_hilo_quantum` | FIFO, RR, VRR; `pcb_execute`; quantum thread | the quantum thread races the return of its process; VRR chooses a list before it has the CPU | one process in the CPU, `EXECUTE` names it, nobody waits with the CPU idle |
| dispatch server (`kernel_server.c`, `manager_dispatch.c`, `manager_ios.c`) | the message in hand | a handler per reason a PCB returns with | handlers free a PCB others point to, cancel a thread, and post `SEM_CPU` | each path posts `SEM_CPU` once and leaves the process in one list |
| interfaces (`atender_kernel_IO`, `io_interface.c`) | blocked list and semaphore per interface | serve, answer, disconnect | a request removed while its unit remains; disconnection | a blocked process returns once |
| PCB table (`table_pcb.c`) | `table_pcb`, `MUTEX_DICTIONARY` | `get_pcb`, `update_pcb` | `update_pcb` frees the replaced PCB | no pointer to a freed PCB is followed |
| console (`consola.c`) | `identificador_PID`, `planificador_status`, `grado_multiprogramacion` | `INICIAR_PROCESO`, `FINALIZAR_PROCESO`, `DETENER_`/`INICIAR_PLANIFICACION`, `MULTIPROGRAMACION`, `PROCESO_ESTADO` | commands leave detached threads behind; `FINALIZAR_PROCESO` reads without locks | counts of semaphores agree with what was asked |
| resources (`recursos.c`) | instances, blocked lists, resources per pid | `handle_wait`, `handle_signal`, release at the end | returns with `MUTEX_RECURSOS` locked; the gap in `handle_signal` | instances are conserved; one wait-queue per process |

### CPU (`src/cpu`)

| part | state | operations | what is hard | what makes it correct |
|---|---|---|---|---|
| cycle and interrupts | `pcb_execute`, `interrupcion_pendiente`, `SEM_SOCKET_KERNEL_DISPATCH` | receive a PCB, run, return it with a reason; receive an interruption | an interruption that arrives late, or before the first PCB; the semaphore between the two threads | a PCB returns once, an interruption stops its own process |
| instructions, registers | registers of 8 and 32 bits | `SET SUM SUB JNZ MOV_* COPY_STRING RESIZE IO_* WAIT SIGNAL EXIT` | widths | arithmetic of the right width |
| TLB, MMU, transfers | `TLB_list`, reference counters | lookup, replacement, split of a transfer in pages | entries that outlive a `RESIZE`; offsets at a page boundary | a hit equals what the page table says; each byte lands at its address |

### Memoria (`src/memoria`)

| part | state | operations | what is hard | what makes it correct |
|---|---|---|---|---|
| page tables | table per pid, bitmap of frames | `resize`, `finalizar_proceso`, page lookup | check, then allocate, without the mutex | a frame belongs to one page; bitmap and tables agree |
| process images | `tabla_procesos` | create, fetch, end | creation races the first fetch; 8-bit keys | the fetched instruction is the process's own |

### EntradaSalida (`src/entradasalida`)

| part | state | operations | what is hard | what makes it correct |
|---|---|---|---|---|
| generic, STDIN, STDOUT | none | sleep, read, write to memory | disconnection | one answer per request |
| DialFS | bitmap, blocks, metadata | create, delete, truncate, read, write, compact | compaction moves contents, metadata and bitmap one after the other | files do not overlap; the bitmap says which blocks are used |

`utils` holds the protocol, buffers and sockets; it has no state of its own.
The hazards of all these parts, at their lines, are in `PROJECT.json`.

## 2. Modules

| module | models |
|---|---|
| `Cpu` | the three socket threads of the CPU |
| `Planificacion` | the planners, the quantum thread, the dispatch server, the interfaces and the console of the kernel, EXTENDS `Cpu` and composes with it |
| `Garantias` | the properties of both together, and the refinement mapping |
| `CicloDeVida` | abstract specification: the five states of a process, the degree, one executing process |
| `Recursos` | `WAIT`, `SIGNAL` and the release of the resources of a finished process: the dispatch thread against the long-term planner |
| `Interfaces` | connection, requests and disconnection of the interfaces of the kernel, EXTENDS `Recursos` and composes with it; the properties of both |
| `Memoria` | page tables, bitmap and process images, with the thread of the CPU and the thread of the kernel |
| `Mmu` | TLB, translation, transfers and `RESIZE` in the CPU, and the interfaces on the memory, EXTENDS `Memoria` and composes with it; the properties of both |
| `DialFS` | the file system of an interface, with crashes and restarts |
| `Protocolo` | every message between the programs: size, writing, socket, reading |
| `Instruccion` | instructions, registers and programs, shared by the two below |
| `ProcesoPropio` | abstract specification: each process runs its program on registers of its own |
| `Contexto` | the instructions of the CPU with its context switches, which implements it |
| `Listas` | the lists of the commons library, shared by the planners, the resources and DialFS: `ListRemoveElement`, and how often an element is in a list |
| `MCPlanificacion`, `MCInterfaces`, `MCMemoria`, `MCDialFS`, `MCProtocolo`, `MCContexto` | the small instances for TLC |
| `PruebasListas` | what is proved of the lists, and of counting in them |
| `PruebasPlanificacion` | proofs about the planners and the CPU: types, the turn, the planning semaphores |
| `PruebasCiclo` | the units of the semaphores, the place of each process, the degree, and the refinement of `CicloDeVida` |
| `PruebasInterfaces` | proofs about resources and interfaces |
| `PruebasMemoria` | proofs about the memory with the CPU: frames, and the bytes of the transfers |
| `PruebasDialFS` | proofs about the file system of an interface |
| `PruebasProtocolo` | proofs about the messages: every size, writing and reading agree |
| `PruebasContexto` | proofs about the context, and the refinement of `ProcesoPropio` |

Five views of one system, each with the threads that race for its state: the
planners (`Garantias`), the blocked processes (`Interfaces`), the memory (`Mmu`),
the disk (`DialFS`) and the registers (`Contexto`), over the messages of
`Protocolo`.  Each reduces the others to what they may do to it.

A step of a thread ends where another thread can tell the difference.  A
critical section of a mutex is one step; `sem_wait` is a guard with its
decrement.  Where the code reads shared state with no lock and acts on it later,
the read and the act are two steps.

### Planners and CPU (`Planificacion`, `Cpu`)

A thread of the code is a component of `pc`: `consola`, `largo`, `corto`,
`quantum`, `despacho`, and one of `ioPc` per interface; the detached threads of
`DETENER_PLANIFICACION` and `MULTIPROGRAMACION` are `deteniendo` and `cambio`.
`end_process` is one atomic loop body, and the three threads of the CPU need no
`pc`: `pedida` and `desestimando` say where the cycle is, and `comparada` that the
thread of the interruptions is past its comparison, which it makes before it takes
`MUTEX_INTERRUPT` (`RecibirInterrupcion`, then `AnotarInterrupcion`).  A semaphore taken and
posted around what is one step is only a guard (`Abierto`).  Reads that are acted
on later: `CortoElegir`/`CortoCpu` (VRR looks at `COLA_AUX_READY`, then waits), and
`FinalizarBuscar`/`Verificar`/`Comparar`/`Eliminar`/`Encolar`.

* **Lists** are sequences of pids; `tabla` is the state of the PCB that
  `table_pcb` holds for the pid.  A list holds pointers in the code, so what
  matters besides the pid is whether the object is still the one of the table:
  `colaExit` carries that for each element, and `colgados` has the threads whose
  pointer `update_pcb` freed.  Reading a freed PCB gives any state or pid.
* **The listing.**  `agregar_*_a_ready` logs the list after it adds to it, with
  no lock.  The walk is the interval between the step that adds and the
  `mostrar` step; an element removed during it makes the walk `rota`, and a
  broken walk brings the kernel down or not.
* **Crashes of a thread** (NULL or freed pointer, `list_remove` of an empty
  list) are `vivo' = FALSE`, or `cpuViva' = FALSE` in the CPU, after which
  nothing moves.  Where undefined behaviour may also pass unnoticed (a second
  `free`, `pthread_cancel` of a joined thread) both outcomes exist.
* **Time** is left out: a quantum may end at any moment, an interface takes any
  number of steps, and `parcial` is the set of processes to which the
  chronometer of VRR left part of a quantum, chosen freely.
* **Instructions** are how a process leaves the cycle: interruption, `IO`,
  `EXIT`, or `RESIZE` out of memory.  The others change nothing here.
* **The memory** is the count `finMemoria` of end-of-process messages per pid.

### Resources and interfaces (`Recursos`, `Interfaces`)

`hilo` has the local variables of the dispatch thread and of the long-term
planner, which share `handle_wait` and `handle_signal`.  `MUTEX_RECURSOS` is a
variable with its owner, because the two functions may return with it locked,
`handle_signal` releases it before `handle_wait` takes it again, and the planner
does not take it at all for what it releases: `instancias++` and `instancias--`
are a read and a write, looking at a queue and taking from it are two steps.
The planning around is where a process is: `ready`, `enCpu`, `exit`, `liberados`.
Each interface has a connection, a queue, a semaphore and the thread
`atender_kernel_IO` (`hiloIo`, `atendido`), and may be lost with a request
unsent, sent, answered or never to be answered (a DialFS request that fails).

`carrera` remembers how both threads met on a resource, and `regalos` how often a
process gave back what it did not have, which `handle_signal` accepts.

### Memory and MMU (`Memoria`, `Mmu`)

`hiloCpu` and `hiloKernel` are the two threads of the memory, in the middle of a
`RESIZE`, a creation or an end: one step per page and frame, as each access to
the bitmap has its own mutex and the loop has none.  The CPU (`cpu`) sends over
`colaCpu`, waits for `respuesta`, and writes without waiting; the kernel sends
over `colaKernel`; an interface (`io`) gets its frames from the CPU and applies
them later, over a socket of its own (`enVuelo`).  The order between the three
sockets is free.  A transfer is a list of pieces (`trozos`): frame, offset and
length, as `request_memory.c` splits it; which bytes of which frame are touched is
in the model, their values are not.  The TLB is the list of the code, with FIFO
or LRU.

`imagenes` are the keys of `tabla_procesos`; the lookup uses `Clave`, the narrow
one, the insertion does not.  The lines of the programs are left out, so a fetch that
finds an image gets an instruction or, when the program has no such line or the line
names no instruction, no answer at all (`mudos` remembers for whom): both may happen at
any fetch.  Without an image there is no answer either.  `achicados` remembers who
shrank, `soltados` the frames each process gave back, by a `RESIZE` or when it ended.

### DialFS (`DialFS`)

One thread serves one request at a time, so a request is a plan computed from
the disk it finds (`plan.escrituras`), and `EscribirDisco` applies one write to
the bitmap, the metadata or the blocks; between any two `Reiniciar` may drop the
rest and read the list of files from the directory.  The content of a block is
whose it is and which of its blocks.  Sizes are of 32 bits (`Ancho`): the count of
blocks of `truncar_archivo` wraps, so the largest sizes have no blocks (`EnBloques`),
while `copiar_bloques` moves bytes and needs no count (`Abarca`), and the size
2^32 - 1 is taken for an error (`ErrorAlLeer`).  Blocks are assumed of two bytes
or more (the configurations have 16 and 64): with one byte no count wraps.  `sano`
turns false at the things the code
does not survive (see `BloquesDisjuntos`), `duplicado` at a `CREATE` of a name that
exists.

### Messages (`Protocolo`)

A message is written as a sequence of fields with their widths, into a buffer of
the size its `get_*_size` computes, and read by the handler of its header; size,
writing and reading are translated apart from each other.  A write that does not
fit is dropped and a read past the end leaves garbage, as `buffer.c` does.  The
bytes of a number or of a string are one part.

### Registers (`Contexto`)

`pcbs` is the context each PCB carries, `cpu_registers` the one of the CPU, `donde`
who has the process, `pedida` the program counter of the fetch under way.  There is
an action per kind of instruction with its whole cycle, the interruption check
and the return included; any process of the kernel may be sent next.
`ProcesoPropio` has only `programa` and a context per process: the mapping takes the
registers of the CPU for the process it runs and those of the PCB for the others.
The one exception the abstract specification makes is `SUM` into a register of 32 bits
when the sum does not fit in 8, where the code adds in an `uint8_t`: it allows any
value there.

Most modules hold a few definitions that no action uses (`EsperarSinBloquear`,
`ListGet`, `DevolverSinParar`, ...): each is a mistake the properties must tell
from the definition it stands beside.

## 3. Runs

| run | module | instance | shows |
|---|---|---|---|
| `rr` | `MCPlanificacion` | RR, 2 pids, degree 2, a name that no interface has, one interruption unread | `TokenCpu`, `CicloRespetado`, `TodosTerminanSinCaidas` |
| `vrr` | `MCPlanificacion` | VRR, 2 pids, degree 2 | `UnLugar`, `ExecuteCoherente`, `CicloRespetado` |
| `gestion` | `MCPlanificacion` | FIFO, 2 pids, degree 1, two changes to 1 or 2, one stop | `TypeOK`, `CuentaPlanes`, `ConteoMultiprogramacion`, `CaeSoloListando`, `DetenidaNoAvanza` |
| `finalizar` | `MCPlanificacion` | RR, 2 pids, degree 1, one `FINALIZAR_PROCESO`, `RESIZE` | `TokenCpu`, `ExecuteCoherente`, `UnidadesAlcanzan`, `SobrantesAcotados` |
| `recursos` | `MCInterfaces` | 3 processes, a resource with one instance, one interface | `TypeBloqueos`, `UnSoloPuesto`, `Conservacion`, `UnTurno`, `SinEsperaInutil`, `CaeSoloPorCarrera`, `DuenoDelMutex` |
| `memoria` | `MCMemoria` | pids 0 and 2, two keys, 3 frames of 2 bytes, TLB of 2 with LRU, 3 instructions each | `TypeMemoria`, `MarcosCuadran`, `PaginasPresentes`, `CadaByteEnSuLugar`, `EnVueloPropio`, `RespuestaPropia` |
| `dialfs` | `MCDialFS` | 3 names, 8 blocks of 3 bytes, sizes below 32, 6 requests, crashes | `TypeDialFS`, `BloquesDisjuntos`, `ContenidoPropio`, `ListaFiel`, `TamanosAjenos` |
| `mensajes` | `MCProtocolo` | every message, short and long data, two unread | `TipoCorrecto`, `LecturaFiel`, `PaqueteExacto`, `CanalAlineado` |
| `contexto` | `MCContexto` | 2 pids, 3 programs, registers of 4 and 16 values | `TypeContexto`, `ContadorUnico`, `CadaUnoLoSuyo` |
| `vrr_auxiliar` | `MCPlanificacion` | VRR, 2 pids | violation of `AuxiliarAtendida` |
| `finalizar_libera` | `MCPlanificacion` | FIFO, 2 pids, one `FINALIZAR_PROCESO` | violation of `LiberaTrasRetorno` |
| `sin_memoria` | `MCPlanificacion` | FIFO, 2 pids, `RESIZE` | violation of `PcbRecibido` |

Deadlock is checked in `mensajes`, where a thread that waits for more than was
sent would be one.  The other systems stop: when every process has ended and the
console has no command left, after a fall, when no request is left, or with the
CPU waiting for an answer the memory does not send.

What they say of the planners:

* **No process is lost or duplicated** (`UnLugar`): a pid that was created is in
  exactly one list, hand, socket or CPU until the memory is told once to
  release it.  Checked without `FINALIZAR_PROCESO`, with which it is false:
  a process killed from `COLA_AUX_READY` is in two places.
* **The five-state life is implemented** (`CicloRespetado`): `CicloDeVida` with
  `estado[p]` read from where `p` is.  It says that one process executes at a time
  and which changes of state exist, with preemption.  That the degree is not
  exceeded is in `ConteoMultiprogramacion`: two processes never exceed degree two.
* **The CPU has one holder** (`TokenCpu`) **and `EXECUTE` names it**
  (`ExecuteCoherente`), also while `FINALIZAR_PROCESO` and stale interruptions
  fly about.  RR still may read a NULL `EXECUTE` in `planificador_RR`: the
  process may have returned, and then `EXECUTE` is NULL as it should.
* **The counts agree.**  `CuentaPlanes`: each `SEM_PLANIFICACION_*_INICIADA`
  against `planificador_status` and the detached threads.
  `ConteoMultiprogramacion`: `SEM_MULTIPROGRAMACION` against the admitted
  processes while two changes of degree are half done.  `UnidadesAlcanzan`: a
  list never holds an element for which no unit will be posted, even when
  `FINALIZAR_PROCESO` takes others out.  `SobrantesAcotados` is the other side: a list
  has at most one unit too many for each `FINALIZAR_PROCESO` that is past the lists, and
  none without that command.  The unit that a kill leaves behind is what the code does.
* **Stopped means stopped** (`DetenidaNoAvanza`): once the four detached threads
  have their semaphores nothing is admitted, dispatched, blocked or made ready.
* **What can fall.**  Under FIFO and without `FINALIZAR_PROCESO` only the
  unlocked listing brings the kernel down (`CaeSoloListando`).  Under RR and VRR
  the quantum thread can too, which is why `TodosTerminanSinCaidas` speaks of the
  behaviours in which nothing falls.
* **Every process ends** (`TodosTerminanSinCaidas`), under RR, whether it returns
  before its quantum ends or is interrupted.  Under VRR it does not: `AuxiliarAtendida` is the
  finding, the planner that saw `COLA_AUX_READY` empty waits for `SEM_READY` while a
  process sits in `COLA_AUX_READY` with the CPU idle.

Of resources and interfaces:

* **A process is in one place** (`UnSoloPuesto`), with no exception: neither the
  gap in `handle_signal`, nor a mutex that is never released, nor an interface
  that ends in the middle of a request loses one or gives it back twice.  Some
  wait forever, in a queue nobody reads or for a mutex nobody releases.
* **Instances are conserved** (`Conservacion`) and nobody waits for a free one
  (`SinEsperaInutil`) as long as the two threads were never on one resource at
  once; when they were, an update may be lost, and a queue looked at by both may
  give NULL, the only way the kernel falls here (`CaeSoloPorCarrera`).
* **One turn** (`UnTurno`): the `SEM_CPU` that `handle_wait` posts for the process a
  `SIGNAL` unblocked is posted only if its instance is gone, which needs a race.

Of the memory:

* **No frame has two pages, none is lost** (`MarcosCuadran`), and `resize` never
  leaves a hole (`PaginasPresentes`), although it counts the free frames before it
  takes them: the other thread only frees.
* **Each byte at its address** (`CadaByteEnSuLugar`), over TLB hits, misses and
  replacements.  The exceptions are the hazards of the code: a process that shrank keeps
  its entries, and a write that goes on to another page from inside of one puts one
  byte past the frame.
* **What is in flight** (`EnVueloPropio`): a frame resolved for a process, whether in a
  transfer of the CPU, in a message it sent, in the request of an interface or in a
  write of it not yet applied, is one the process has, or one it gave back itself by a
  `RESIZE` or because it ended.  In that case an interface may write to a frame that is
  of another process by then, which is a hazard of the code and is not excluded.  What
  the CPU sent never reaches a frame of another process, also after the end of its
  own, unless this one shrank: nobody is given the frames before the messages that
  came first are read.
* **Questions and answers** (`RespuestaPropia`): while the CPU waits, there is one
  question of its process on its way, being served or answered, and none otherwise,
  although reads are answered and writes are not.  Only a fetch may be left without
  an answer, and then either the program has no such instruction (at any fetch) or it
  is the first of a process whose image is not there.  The instruction that comes is of
  the image its key names: the own one of every pid that the narrow keys keep, and
  of another process for a pid past them.

Of DialFS: **files do not overlap** (`BloquesDisjuntos`), **keep their contents** wherever
compactions move them (`ContenidoPropio`), keep their size while another file is
served (`TamanosAjenos`), and **the list agrees with the directory** (`ListaFiel`).  The
first two say so until one of the requests the property names; each of them is a
hazard at its line in `PROJECT.json`.

Of the messages: every reader reads what its writer wrote (`LecturaFiel`), the size is
exact (`PaqueteExacto`), and the next message begins where the last one ends
(`CanalAlineado`).

Of the registers: **each process runs alone** (`CadaUnoLoSuyo`, the refinement) and the
three copies of the program counter agree when they are used (`ContadorUnico`).

The three findings are in `PROJECT.json` with the comment each contradicts.

### Bounds

* `MaxPid`: two pids are enough for one process returning while another is
  dispatched, and under degree 1 for one waiting in NEW.
* `MaxCanal = 2`: one interruption of the quantum and one of the console unread
  together; the socket buffer of the code is far larger.  It is 1 in `rr`, which has no
  `FINALIZAR_PROCESO` and checks liveness: a second interruption of a quantum waits
  for the first to be read, and one that was read late is still there.
* `MaxCambios = 2`, `MaxFinalizar = 1`, `MaxDetener = 1`: two changes of degree
  are concurrent; one stop may be followed by a start before its threads have
  run, so an old stopping thread meets a running planner; one kill at every point
  of the other threads.  `CuentaPlanes`, `DetenidaNoAvanza` and
  `UnidadesAlcanzan` are proved for any number of them, `ConteoMultiprogramacion` for any
  number of changes.
* Degree 1 and 2 make the long-term planner wait and not wait.
* `recursos`: with one instance and three processes one holds, one waits and one asks
  or signals; the processes are symmetric.  `MaxRegalos = 1` bounds the `SIGNAL`s that
  make an instance.
* `memoria`: two processes of two pages do not fit in three frames, so `RESIZE` fails,
  and three pages do not fit in the TLB.  Transfers of three bytes from offsets 0 and 1
  of pages of two begin at a boundary and inside, and end in the next page or the one
  after.  With `Claves = 2` the pid 0 is within the narrow keys and the pid 2 past
  them, so that its fetches find the image of 0, or none.
* `dialfs`: sizes 0, 1, 4, 6 and 13 have zero, one, two and five blocks of three bytes,
  a multiple of the block size and not; in eight blocks a second file that grows needs
  a compaction.  In `Ancho = 32` the count of blocks of 30 wraps to none, 31 reads as an
  error, and the write at 31 wraps.  Six requests create three files, leave a hole and
  compact.
* `mensajes`: strings of one and three bytes, lists of none and two; two messages
  unread, so that one may be read with the bytes of the other behind.
* `contexto`: `UINT8 = 4`, `UINT32 = 16` make sums carry, differences borrow and the
  program counter cut; the programs loop with an `IO` inside, jump by writing `PC`,
  wait and signal, and end by `EXIT` or by a `RESIZE` refused.

### Fairness

`SpecJusta` of `Planificacion` is used where liveness is checked.  It has weak fairness
of each thread (they are POSIX threads that block only on semaphores, sockets and
`pthread_join`, all of which are guards here), and strong fairness of `EXIT` per
pid: programs are finite, so a process that gets the CPU again and again reaches
its `EXIT`.  The console has no fairness: a user need not type, so liveness is
about processes that were created.  The semaphores are weakly fair; that is
enough, as each has one waiting thread in the runs that check liveness.  The other
modules state no liveness: the code leaves processes waiting forever there (a mutex
never released, a request or a fetch never answered).

## 4. Proofs

Everything here holds for every value of the constants that the named assumptions of
the modules allow: any number of pids, of interfaces, of resources, of frames, of
files, of registers, of messages and their lengths, and the three algorithms.  TLC evaluates those assumptions in the
runs.  Where a theorem has a hypothesis of its own it is said below; each is a
condition the property itself is about, and the run that checks the property
satisfies it.  Every inductive invariant was checked by TLC on the instance of its run
before it was proved (`Salud` with the disks of a plan computed one after the other).

### Planners and CPU (`PruebasPlanificacion`, `PruebasCiclo`)

* **`TiposCorrectos`** (`Spec => []TypeOK`).  It is not inductive alone: that `tabla[p]`
  stays well typed when the long-term planner writes it needs that the PCB it holds is
  one (`Punteros`), which needs the types of the lists.  The invariant is
  `Tipos == TypeOK /\ Punteros`; there is a lemma per group of actions, and a
  step per conjunct an action can disturb.
* **`UnaSolaCpu`** (`Spec => []TokenCpu`) and **`ExecuteEsElDeLaCpu`**
  (`Spec => []ExecuteCoherente`).  The sum of six counters is not convenient to
  reason about, so `Turno` states it as the six situations there are (the unit is
  in the semaphore; the dispatcher has it; the PCB is in a socket, in the CPU, in
  the other socket; the dispatch server has it), each with the value of
  `EXECUTE` and the pids it fixes.  `Turno` is inductive relative to `Tipos`, and
  both properties follow from it.
* **`PlanesContados`** (`Spec => []CuentaPlanes`) is inductive relative to
  `Tipos`: a lemma says how each action moves both sides of the balance, and the
  set of interfaces between the wait and the post of
  `SEM_PLANIFICACION_READY_INICIADA` is finite and changes by one element.
  **`DetenidaSinAvance`** (`Spec => DetenidaNoAvanza`) follows: when the planning
  is stopped and no stopping thread waits, the balance makes every planning
  semaphore zero and every section empty, so no action that needs one can be
  taken.
* **`NingunoOlvidado`** (`Spec => []UnidadesAlcanzan`), with every command.  The
  invariant `Alcanzan` is the property made exact: a list is at most as long as the
  units of its semaphore, plus one if the long-term planner took a unit and not
  yet its element, plus one for each thread that is logging the list between adding to
  it and posting.  That needs that a thread has a list noted only while it logs it.
  **`SobrantesContados`** (`Spec => []SobrantesAcotados`), with every command: the
  bound moves only when a kill goes past the lists, which takes at most one element
  from each, because no list has a process twice in the console's hand (`Apuntado`).
* **`SoloCaeListando`** (`Spec => CaeSoloListando`; hypotheses `Algoritmo = "FIFO"` and
  `MaxFinalizar = 0`).  `Cubren` is the other half of `Alcanzan`: no semaphore has a
  unit without an element, so nothing is taken from an empty list, and no
  interruption is ever on its way, so no PCB returns for one.  Then each
  step leaves both programs as they were or ends a walk that an unlocked removal
  broke.  Under RR the quantum thread, with `FINALIZAR_PROCESO` the console, are
  further ways to fall.
* **`CadaUnoEnUnLugar`** (`Spec => []UnLugar`; hypothesis `MaxFinalizar = 0`).
  `Ubicados` is the property with `EXECUTE` in the place of the sockets and the CPU,
  which `Turno` says name the same process, and adds which threads may hold a pid and
  what `colaExit` says of the PCB.  A step either moves nothing (`Inmovil`) or
  takes one occurrence from a place and adds one to another (`Mudanza`).
* **`GradoContado`** (`Spec => []ConteoMultiprogramacion`; hypothesis
  `MaxFinalizar = 0`, any number of concurrent changes of degree).  `Contados` adds that
  one change at a time is between its adjustments (`OrdenSano`), so that the degree in
  force is well defined; the admitted processes are a finite set that changes by one
  element.
* **`ImplementaElCiclo`** (`Spec => CicloRespetado`; hypotheses `MaxFinalizar = 0` and
  `MaxCambios = 0`, because `CicloDeVida` has the degree as a constant).  `Cuantos(e, p)`
  splits the places of `p` among the five states; by `UnLugar` exactly one of
  them is 1 and `EstadoDe(p)` is that one (`EtapaClara`).  There is a lemma per action
  that changes a state, which gives the step of `CicloDeVida` it is, and its guards come
  from the invariants: one process in EXEC from `Turno`, a free slot from `Contados`.

`UnLugar`, `ConteoMultiprogramacion` and `CicloRespetado` are false with
`FINALIZAR_PROCESO`, and the runs that check them have none either.

### Resources and interfaces (`PruebasInterfaces`)

* **`TiposDeBloqueos`**, **`MutexConDueno`** and **`UnSoloTurno`**
  (`BloqueosSpec => []TypeBloqueos`, `[]DuenoDelMutex`, `[]UnTurno`).  The invariant
  adds to the types what each thread has in its variables at each step and, while
  `carrera` is empty, that the instance a `SIGNAL` gave back is still there when
  `handle_wait` looks for it: without that the planner's release could take it and
  `SEM_CPU` be posted twice.
* **`CadaProcesoEnUnPuesto`** (`BloqueosSpec => []UnSoloPuesto`), races included.
  `Unico` says it without cardinalities: each process is in one of the places
  (`Sitios`), and no other.  It needs that no list repeats a process and that the two
  pids a thread may have in hand differ (`Puesto`).  A step moves one process between
  two places or none.
* **`CaeSoloSiCorren`** (`[]CaeSoloPorCarrera`) and **`NadieEsperaEnVano`**
  (`[]SinEsperaInutil`).  While the two threads never worked on the data of one resource,
  what a thread read of it is still so (`Dato`), and a queue is not empty only if
  every free instance was given back by a thread that has yet to serve the queue
  (`ColasBien`): together `SinDatos`.
* **`NoSePierdenInstancias`** (`[]Conservacion`).  `Suma` counts the names noted for all the
  processes as one finite set of pairs, so that a step is a balance for one process
  (`Cuadra`), relative to `SinDatos`.

### Memory (`PruebasMemoria`)

* **`TiposDeMemoria`**, **`MarcosSinPerder`**, **`SinPaginasHuecas`**.
  `Bien` is the types with the life of a process across the kernel, the CPU and the
  two sockets: the threads of the memory never work on the same process, which is what
  makes two loops without a mutex safe.  `MarcosCuadran` is inductive relative to
  it.  `PaginasPresentes` needs that the free frames left are at least the pages
  still to be filled, a cardinality that the other thread can only help.
* **`CadaPreguntaSuRespuesta`** (`Spec => []RespuestaPropia`).  `Dialogo` adds to the
  property that images are never removed, so that a process that got one instruction
  finds its key every time.  The question of the CPU is the last message it sent: the
  writes before it are read first, and while it is served there is nothing else to read.
* **`LoQueViajaEsPropio`** (`Spec => []EnVueloPropio`).  `Fiel` follows a frame from where
  it was resolved: the TLB, the answer of the memory, the pieces of a transfer, the
  request of an interface, a message not yet received.  In each place it is the frame of its
  page as long as the process lives and has not shrunk; tables only grow for the
  others (`Crecen`), and what leaves a table goes to `soltados` (`Sueltas`).  It says
  no more than that for a process that shrank or ended, as the code does not.
* **`CadaByteDondeVa`** (`Spec => []CadaByteEnSuLugar`).  `Bytes` says that the pieces
  resolved so far, laid end to end, have at each position the offset and the frame of
  the address at that distance from the start.  `FlattenSeq` and the arithmetic of pages
  are the lemmas; that the frame is right is `Fiel`.

### DialFS (`PruebasDialFS`)

* The compaction is a function defined by recursion over its own loop.  `Repetir`
  proves that such a function exists and has the type wanted, and `MudanzaGuarda` that
  what a step of the loop keeps the loop keeps: induction as a least counterexample
  among the naturals (`MenorNatural`), which needs no operator as a parameter.
* **`TiposDeDialFS`** (`Spec => []TypeDialFS`) and **`NadieCambiaElTamanioDeOtro`**
  (`Spec => TamanosAjenos`).  `Tipos` adds that the plan is made of writes that keep the
  size of every file but its own, also with some done and others left.
* **`LaListaEsElDirectorio`** (`Spec => []ListaFiel`).  `Listado`: the list has a name once
  if the file is in the directory or a write still to be done makes it, else
  not at all; what deletes is the last write of its plan.
* **`LosArchivosNoSePisan`** (`Spec => []BloquesDisjuntos`) and **`LoEscritoQueda`**
  (`Spec => []ContenidoPropio`; hypothesis `Bits * BlockSize <= Ancho`).  `Salud` says, until
  something happens that the code does not survive, that the writes left lead the disk
  to one in order (`Bueno`: blocks marked, files apart, contents in place), and through
  disks in order only if a crash in the middle is survived.  Part of being in order is
  that no file has a size whose count of blocks wraps (`Justo`): a `TRUNCATE` to such a
  size is one to no blocks, which the code does not survive.  It is inductive because
  a step is the first write of that journey.  What is left is each request: the file has
  a gap (`Hueco`) that no other file enters; a move of the compaction puts one file at
  the front of the gap and leaves the gap behind it (`EnCurso`), for any number of files.
  The hypothesis says that every byte of the disk has a number in 32 bits: on a greater
  disk the place of a WRITE wraps and the blocks of another file are written.

### Messages (`PruebasProtocolo`)

* **`MensajesBienFormados`**, **`CadaCampoEnSuLugar`**, **`NadaSobraEnElBuffer`**,
  **`SiempreUnaOperacion`** (`Spec => []TipoCorrecto`, `[]LecturaFiel`,
  `[]PaqueteExacto`, `[]CanalAlineado`), from `FormasAssumption` alone: strings and
  lists of any length, any number of messages in the socket.
* What a handler has to read depends on what it reads (a length, a count, an operation of
  DialFS), so steps and parts are compared by a relation and not by an index.
  `Encajan(pila, datos)` says that there is an agreement, a set of pairs closed under
  reading one part, that holds this pair: the first step is for the first part, of the
  same width, and what each leaves behind is again in the set.  It is a greatest fixed
  point, so two messages agree by showing a set, without induction.  `EncajanJuntas`,
  `BienJunto`, `BienCadena`, `BienLista` and `BienSegun` put agreements together the
  way the functions of the code call each other.
* `Bien` adds that the size computed is the sum of the widths (`Bytes`).  There is a
  lemma per `serialize_*` with its `deserialize_*` (`BienPcb`, `BienFrames`,
  `BienDialfs`, ...), and a lemma per connection that each message sent over it is `Sano`:
  its header has a case, its size is that of its parts, and the case reads them.  The
  two cases that read as much as they asked for and not what the buffer announces
  (`Pedido`) are apart.
* `SerializadoEs`: a buffer of its exact size drops nothing.  `LlegaElPaquete` and
  `RecibeElBuffer`: of a package and whatever follows it, the thread takes the header, the
  size and exactly the parts of that message.
* The inductive invariant `EnOrden` says where the reader is: it waits, and the socket is
  the packages of the messages in flight, one after the other (`Cola`); or it reads the
  first, the socket has the others, and what it has read followed by what is left is that
  message, the rest of which matches what it still has to read (`Avance`).

### Registers (`PruebasContexto`)

* **`TiposDeContexto`**, **`UnSoloContador`**, **`ContextoImplementa`**
  (`Spec => Propio!Spec`).  The invariant `Coherente` adds to the types and to
  `ContadorUnico` that at most one process is in the CPU and that the semaphore of
  the socket says so.  There is a lemma per kind of instruction, which maps its step to
  a step of `ProcesoPropio` or to a stutter; they rest on lemmas about remainders,
  and on the assumption that `UINT8` divides `UINT32`: adding in eight bits and
  storing in eight bits is adding and cutting.

### Lists (`PruebasListas`)

`ListRemoveElement` is written without recursion so that it can be used in proofs;
`MCPlanificacion` checks it against `RemoveFirst` of SequencesExt on all the lists
of up to four elements of three.  The lemmas say what `Append`, `Tail` and
`ListRemoveElement` do to how often an element is in a list, and to how often in a family
of lists (`Pares`), which is how the proofs above count.  The module also says what
`FlattenSeq` does to a list of lists and to one more list at its end, by least
counterexample: `PruebasMemoria` needs it for the pieces of a transfer and
`PruebasProtocolo` for the lists in a message and the messages in a socket.

### What stays with TLC

* Liveness and fairness (`TodosTerminanSinCaidas`, `AuxiliarAtendida`), and anything about
  ENABLED: the prover does not handle them.
* `UnLugar` and the degree with `FINALIZAR_PROCESO`, where they are false.
* The violations: a counterexample is their proof.

## 5. What is not modelled

* `PROCESO_ESTADO` (prints, walking the lists without a lock), `EJECUTAR_SCRIPT`
  (reads commands from a file), logs, configuration and start-up.
* `bocetos.c` of `entradasalida`: commented-out code.
* The values of the bytes in memory and of the contents of the files; reading the
  file of pseudocode and parsing the text of an instruction.  An instruction with an
  unknown name never gets past `crear_instruccion`, so the default case of
  `ejecutar_instruccion` is left out.
* A metadata file is written in one step: the code truncates it and writes it again, so
  a crash in between leaves it empty.
* The 32-bit overflow of the reference counters of LRU, after 2^31 references.
* Dictionaries used by two threads at once without a lock, as data races inside the
  library: the steps between them are modelled, a torn dictionary is not.
* `FINALIZAR_PROCESO` is in `Planificacion` only: in `Mmu` a process that ends is not in
  the CPU, and in `Recursos` processes end by themselves.  `WAIT` and `SIGNAL` are not
  composed with the interruptions and the quantum of `Planificacion`.
* An interface that connects again with a name that is known: it gets a queue no request
  reaches, as the requests go to the first of that name.
* `leer_entrada_limitada` when the keyboard gives less than asked; a socket closed while
  a program writes to it, other than that of an interface (the program ends by
  SIGPIPE); the read of an empty buffer by `recive_full_buffer`, which no message has.

Some properties hold under a condition about the past (`carrera`, `sano`, `duplicado`,
`achicados`), count what the code makes out of nothing (`regalos`) or allow any value
(`SUM`).  Each of these is a hazard of the code that the model has and no property
forbids: the property says that it is the only one, and nothing in the repository
promises more.  The same goes for the threads that wait forever and for the interruption
that comes late or is lost.  In `PROJECT.json` those hazards name no property, or only
for the part it covers, and say why.

## 6. Plan

Done: the core (`Cpu`, `Planificacion`, `CicloDeVida`, `Garantias`), `Recursos` with
`Interfaces`, `Memoria` with `Mmu`, `DialFS`, `Protocolo`, `Contexto` with
`ProcesoPropio`, and the proofs of section 4, which reach every safety and action
property of the runs that are expected to pass.

What is left:

1. `UnLugar` with `FINALIZAR_PROCESO`, stated as what it does break: which processes
   may be in two places, and from which list they were taken.
2. `WAIT` and `SIGNAL` with the quantum: `Recursos` on top of `Planificacion`.
