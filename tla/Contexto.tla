------------------------------ MODULE Contexto ------------------------------
(***************************************************************************)
(* The instructions and the registers of the CPU (src/cpu/cpu_dispatch.c)  *)
(* with the context switch: the PCB is received and its registers loaded,  *)
(* the memory is asked for the instruction of its program_counter, the     *)
(* instruction changes the registers of the CPU, and they are copied back  *)
(* into the PCB on every way out but the RESIZE that runs out of memory.   *)
(*                                                                         *)
(* The program counter is kept three times (in the PCB, in its registers   *)
(* and in the registers of the CPU) and the fetch uses the first one while *)
(* the instructions write the last one.                                    *)
(*                                                                         *)
(* Messages are left to Protocolo and the planners to Planificacion: a     *)
(* process the kernel has may be sent at any moment, and an interruption   *)
(* may be recorded at any moment, also one meant for a process that has    *)
(* left.  pcbs holds the PCB wherever it is: the kernel sends back what it *)
(* got.                                                                    *)
(***************************************************************************)
EXTENDS Instruccion

Nulo == 0
NoPedida == -1
ASSUME NuloAssumption == Nulo \notin PIDS

VARIABLES
  programa,        (* the instructions the memory has for each process       *)
  pcbs,            (* program_counter and cpu_registers of each PCB          *)
  donde,           (* who has the process: "kernel", "cpu" or "fin"          *)
  pcb_execute,     (* the last PCB received, kept when it leaves             *)
  cpu_registers,   (* the registers of the CPU                               *)
  cambio_pc,       (* the instruction has written the program counter        *)
  pedida,          (* the program_counter of the fetch under way             *)
  interrupcion_pendiente,
  sem_socket       (* SEM_SOCKET_KERNEL_DISPATCH                             *)

vars == <<programa, pcbs, donde, pcb_execute, cpu_registers, cambio_pc, pedida,
          interrupcion_pendiente, sem_socket>>

Pcb == [program_counter : 0..(UINT32 - 1), registros : Contextos]

(* Every register holds a value of its width, and the socket of dispatch    *)
(* receives at most one PCB ahead (cpu_registers, pcb_execute, the flags    *)
(* and the semaphore of cpu_dispatch.c).                                    *)
TypeContexto ==
  /\ programa \in [PIDS -> Programas]
  /\ pcbs \in [PIDS -> Pcb]
  /\ donde \in [PIDS -> {"kernel", "cpu", "fin"}]
  /\ pcb_execute \in PIDS \cup {Nulo}
  /\ cpu_registers \in Contextos
  /\ cambio_pc \in BOOLEAN
  /\ pedida \in {NoPedida} \cup 0..(UINT32 - 1)
  /\ interrupcion_pendiente \in BOOLEAN
  /\ sem_socket \in 0..1

Init ==
  /\ programa \in [PIDS -> Programas]
  /\ pcbs = [p \in PIDS |-> [program_counter |-> 0, registros |-> EnCero]]
  /\ donde = [p \in PIDS |-> "kernel"]
  /\ pcb_execute = Nulo
  /\ cpu_registers = EnCero
  /\ cambio_pc = FALSE
  /\ pedida = NoPedida
  /\ interrupcion_pendiente = FALSE
  /\ sem_socket = 1

-----------------------------------------------------------------------------
(* Registers by name.  An unknown name reads EXIT_FAILURE and writes        *)
(* nothing.                                                                 *)

ObtenerRegistro(registros, nombre) ==
  IF nombre \in Registros THEN registros[nombre] ELSE 1

(* EstablecerSinCorte, the mistake of a register wider than its type *)
EstablecerSinCorte(registros, nombre, valor) ==
  [r \in Registros |-> IF r = nombre THEN valor ELSE registros[r]]
EstablecerRegistro(registros, nombre, valor) ==
  [r \in Registros |-> IF r = nombre THEN valor % Tamano(r) ELSE registros[r]]

(* SUM works in uint8_t, whatever the registers *)
ResultadoSum(ins, registros) ==
  LET valor_src == ObtenerRegistro(registros, ins.fuente) % UINT8
  IN  ((ObtenerRegistro(registros, ins.destino) + valor_src) % UINT32) % UINT8

ResultadoSub(ins, registros) ==
  (ObtenerRegistro(registros, ins.destino) - ObtenerRegistro(registros, ins.fuente)) % UINT32

(* What the instruction leaves in the register it names *)
Resultados(ins, registros) ==
  CASE ins.nombre = "SET" -> {ins.valor % UINT32}
    [] ins.nombre = "MOV_IN" -> {v % Tamano(ins.destino) : v \in ValoresMemoria}
    [] ins.nombre = "SUM" -> {ResultadoSum(ins, registros)}
    [] OTHER -> {ResultadoSub(ins, registros)}

AumentarProgramCounter(registros, cambio) ==
  IF cambio THEN registros ELSE [registros EXCEPT !["PC"] = (@ + 1) % UINT32]

-----------------------------------------------------------------------------
(* recibir_pcb: the registers are those of the PCB, the fetch uses its      *)
(* program_counter. RecibirSinRegistros, the mistake of loading PC alone.   *)
RecibirSinRegistros(p) ==
  /\ donde[p] = "kernel"
  /\ sem_socket = 1
  /\ sem_socket' = 0
  /\ donde' = [donde EXCEPT ![p] = "cpu"]
  /\ pcb_execute' = p
  /\ cpu_registers' = [cpu_registers EXCEPT !["PC"] = pcbs[p].registros["PC"]]
  /\ pedida' = pcbs[p].program_counter
  /\ UNCHANGED <<programa, pcbs, cambio_pc, interrupcion_pendiente>>
RecibirPcb(p) ==
  /\ donde[p] = "kernel"
  /\ sem_socket = 1
  /\ sem_socket' = 0
  /\ donde' = [donde EXCEPT ![p] = "cpu"]
  /\ pcb_execute' = p
  /\ cpu_registers' = pcbs[p].registros
  /\ pedida' = pcbs[p].program_counter
  /\ UNCHANGED <<programa, pcbs, cambio_pc, interrupcion_pendiente>>

RecibirInterrupcion ==
  /\ pcb_execute # Nulo
  /\ interrupcion_pendiente' = TRUE
  /\ UNCHANGED <<programa, pcbs, donde, pcb_execute, cpu_registers, cambio_pc, pedida,
                 sem_socket>>

EnCiclo == pedida # NoPedida /\ HayInstruccion(programa[pcb_execute], pedida)
Actual == Buscada(programa[pcb_execute], pedida)

(* The PCB goes back: cargar_contexto_ejecucion_a_pcb, the message and      *)
(* sem_post. DevolverSinContador, the mistake of saving the registers only. *)
DevolverSinContador(registros, contador, destino) ==
  /\ pcbs' = [pcbs EXCEPT ![pcb_execute].registros = registros]
  /\ donde' = [donde EXCEPT ![pcb_execute] = destino]
  /\ pedida' = NoPedida
  /\ sem_socket' = 1
Devolver(registros, contador, destino) ==
  /\ pcbs' = [pcbs EXCEPT ![pcb_execute] =
                [program_counter |-> contador, registros |-> registros]]
  /\ donde' = [donde EXCEPT ![pcb_execute] = destino]
  /\ pedida' = NoPedida
  /\ sem_socket' = 1

(* After an instruction that stays in the cycle: aumentar_program_counter,  *)
(* then manejar_interrupcion or the next fetch.                             *)
SeguirCiclo(registros, cambio) ==
  LET despues == AumentarProgramCounter(registros, cambio)
  IN  /\ cpu_registers' = despues
      /\ cambio_pc' = FALSE
      /\ interrupcion_pendiente' = FALSE
      /\ \/ /\ interrupcion_pendiente
            /\ Devolver(despues, despues["PC"], "kernel")
         \/ /\ ~interrupcion_pendiente
            /\ pcbs' = [pcbs EXCEPT ![pcb_execute].program_counter = despues["PC"]]
            /\ pedida' = despues["PC"]
            /\ UNCHANGED <<donde, sem_socket>>
      /\ UNCHANGED <<programa, pcb_execute>>

(* SET, MOV_IN, SUM and SUB *)
Asignar ==
  /\ EnCiclo
  /\ Actual.nombre \in Asignan
  /\ \E v \in Resultados(Actual, cpu_registers) :
       SeguirCiclo(EstablecerRegistro(cpu_registers, Actual.destino, v),
                   cambio_pc \/ Actual.destino = "PC")

Jnz ==
  /\ EnCiclo
  /\ Actual.nombre = "JNZ"
  /\ LET salta == ObtenerRegistro(cpu_registers, Actual.fuente) # 0
     IN  SeguirCiclo(IF salta THEN [cpu_registers EXCEPT !["PC"] = Actual.valor % UINT32]
                              ELSE cpu_registers,
                     cambio_pc \/ salta)

(* MOV_OUT, COPY_STRING and a RESIZE that the memory grants *)
SinRegistros ==
  /\ EnCiclo
  /\ Actual.nombre \in {"MOV_OUT", "COPY_STRING", "RESIZE"}
  /\ SeguirCiclo(cpu_registers, cambio_pc)

(* solicitar_IO and handle_wait_or_signal: the program counter advances     *)
(* before the context is saved; a pending interruption stays.               *)
SolicitarAlKernel ==
  /\ EnCiclo
  /\ Actual.nombre \in AlKernel
  /\ LET despues == AumentarProgramCounter(cpu_registers, cambio_pc)
     IN  /\ cpu_registers' = despues
         /\ Devolver(despues, despues["PC"], "kernel")
  /\ cambio_pc' = FALSE
  /\ UNCHANGED <<programa, pcb_execute, interrupcion_pendiente>>

(* EXIT drops the interruption. Its program counter does not advance. Cpu   *)
(* has the moment between the message and the drop.                         *)
EnviarPcbFinalizado ==
  /\ EnCiclo
  /\ Actual.nombre = "EXIT"
  /\ Devolver(cpu_registers, pcbs[pcb_execute].program_counter, "fin")
  /\ interrupcion_pendiente' = FALSE
  /\ UNCHANGED <<programa, pcb_execute, cpu_registers, cambio_pc>>

(* A RESIZE the memory refuses: the context is not saved, and the dispatch  *)
(* thread is not woken up.                                                  *)
InformarKernelError ==
  /\ EnCiclo
  /\ Actual.nombre = "RESIZE"
  /\ donde' = [donde EXCEPT ![pcb_execute] = "fin"]
  /\ pedida' = NoPedida
  /\ UNCHANGED <<programa, pcbs, pcb_execute, cpu_registers, cambio_pc,
                 interrupcion_pendiente, sem_socket>>

Next ==
  \/ \E p \in PIDS : RecibirPcb(p)
  \/ RecibirInterrupcion
  \/ Asignar
  \/ Jnz
  \/ SinRegistros
  \/ SolicitarAlKernel
  \/ EnviarPcbFinalizado
  \/ InformarKernelError

Spec == Init /\ [][Next]_vars

-----------------------------------------------------------------------------
(* The three program counters agree when they are used: the fetch under way *)
(* is the one the registers of the CPU name, and a PCB the kernel has names *)
(* the same instruction in its program_counter and in its registers         *)
(* (aumentar_program_counter and the copies of the context).                *)
ContadorUnico ==
  /\ \A p \in PIDS : donde[p] = "kernel" =>
       pcbs[p].program_counter = pcbs[p].registros["PC"]
  /\ pedida # NoPedida =>
       /\ donde[pcb_execute] = "cpu"
       /\ pedida = cpu_registers["PC"]
       /\ pcbs[pcb_execute].program_counter = pedida

(* The registers of a process are those of the CPU while it has it *)
Visible(p) ==
  IF donde[p] = "kernel" THEN pcbs[p].registros
  ELSE IF donde[p] = "cpu" THEN cpu_registers
  ELSE Terminado

Propio == INSTANCE ProcesoPropio WITH contexto <- [p \in PIDS |-> Visible(p)]

(* Whatever interrupts it, and whoever runs meanwhile, each process runs    *)
(* its own program on its own registers (cargar_contexto_ejecucion,         *)
(* cargar_contexto_ejecucion_a_pcb and the instruction cycle).              *)
CadaUnoLoSuyo == Propio!Spec

=============================================================================
