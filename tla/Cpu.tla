--------------------------------- MODULE Cpu ---------------------------------
(***************************************************************************)
(* The CPU process (src/cpu) as its three socket threads see it:           *)
(*   - atender_cpu_kernel_dispatch receives the PCBs the kernel sends,     *)
(*   - atender_cpu_memoria runs one instruction per answer of the memory,  *)
(*   - atender_cpu_kernel_interrupt records the interruptions.             *)
(*                                                                         *)
(* What an instruction computes is left out: an instruction matters here   *)
(* by how it leaves the cycle (it goes on, it asks the kernel for an I/O,  *)
(* it ends the process, its RESIZE runs out of memory) and by what it does *)
(* to the pending interruption and to SEM_SOCKET_KERNEL_DISPATCH.          *)
(***************************************************************************)
EXTENDS Naturals, Sequences

CONSTANTS
  MaxPid,          (* pids go from 1 to MaxPid; bounds the processes created *)
  NombresIO,       (* interface names that a program may use                 *)
  Instrucciones,   (* which instructions leave the cycle in this instance    *)
  MaxCanal         (* interruptions the interrupt socket holds unread        *)

ASSUME MaxPidAssumption == MaxPid \in Nat \ {0}
ASSUME InstruccionesAssumption == Instrucciones \subseteq {"EXIT", "IO", "RESIZE"}
ASSUME MaxCanalAssumption == MaxCanal \in Nat

Pids == 1..MaxPid
Nulo == 0                                  (* the NULL pointer: no PCB *)
PidsONulo == Pids \cup {Nulo}

(* Headers of the messages that return a PCB to the kernel *)
Motivos == {"EXIT", "FINISH_PROCESS", "OUT_OF_MEMORY", "QUANTUM", "IO"}
Interrupciones == {"QUANTUM", "EXIT"}
SinInterfaz == 0

Mensajes == [motivo : Motivos, pid : Pids, interfaz : NombresIO \cup {SinInterfaz}]

VARIABLES
  aCpu,            (* PCBs sent by the kernel and not yet received          *)
  deCpu,           (* messages sent to the kernel and not yet received      *)
  canalInt,        (* interruptions sent by the kernel and not yet received *)
  pcbExecute,      (* pcb_execute: the last PCB received, kept when it goes *)
  pedida,          (* an instruction of pcb_execute is asked for or running *)
  desestimando,    (* EXIT has sent the PCB, its interruption check is left *)
  comparada,       (* an interruption whose pid was that of pcb_execute,    *)
                   (* with interrupcion_pendiente still to be set           *)
  pendiente,       (* interrupcion_pendiente and tipo_de_interrupcion       *)
  semSocket,       (* SEM_SOCKET_KERNEL_DISPATCH                            *)
  cpuViva          (* FALSE once a NULL pcb_execute was dereferenced        *)

cpuInterna == <<pcbExecute, pedida, desestimando, comparada, pendiente, semSocket, cpuViva>>
cpuVars == <<aCpu, deCpu, canalInt, cpuInterna>>

CpuTypeOK ==
  /\ aCpu \in Seq(Pids)
  /\ deCpu \in Seq(Mensajes)
  /\ canalInt \in Seq([tipo : Interrupciones, pid : Pids])
  /\ pcbExecute \in PidsONulo
  /\ pedida \in BOOLEAN
  /\ desestimando \in BOOLEAN
  /\ {comparada, pendiente} \subseteq Interrupciones \cup {"NINGUNA"}
  /\ semSocket \in Nat
  /\ cpuViva \in BOOLEAN

CpuInit ==
  /\ aCpu = <<>>
  /\ deCpu = <<>>
  /\ canalInt = <<>>
  /\ pcbExecute = Nulo
  /\ pedida = FALSE
  /\ desestimando = FALSE
  /\ comparada = "NINGUNA"
  /\ pendiente = "NINGUNA"
  /\ semSocket = 1
  /\ cpuViva = TRUE

-----------------------------------------------------------------------------
(* Thread atender_cpu_kernel_dispatch *)

RecibirPcb ==
  /\ cpuViva
  /\ aCpu # <<>>
  /\ semSocket > 0
  /\ semSocket' = semSocket - 1
  /\ pcbExecute' = Head(aCpu)
  /\ aCpu' = Tail(aCpu)
  /\ pedida' = TRUE
  /\ UNCHANGED <<deCpu, canalInt, desestimando, comparada, pendiente, cpuViva>>

(* Thread atender_cpu_kernel_interrupt. The pid is compared with the pid    *)
(* of pcb_execute, which still names the last process after it has left.    *)
(* MUTEX_INTERRUPT is taken only after that, to set the two variables.      *)
RecibirInterrupcion ==
  /\ cpuViva
  /\ comparada = "NINGUNA"
  /\ canalInt # <<>>
  /\ canalInt' = Tail(canalInt)
  /\ cpuViva' = (pcbExecute # Nulo)
  /\ comparada' = IF pcbExecute = Head(canalInt).pid
                  THEN Head(canalInt).tipo ELSE "NINGUNA"
  /\ UNCHANGED <<aCpu, deCpu, pcbExecute, pedida, desestimando, pendiente, semSocket>>

AnotarInterrupcion ==
  /\ cpuViva
  /\ comparada # "NINGUNA"
  /\ pendiente' = comparada
  /\ comparada' = "NINGUNA"
  /\ UNCHANGED <<aCpu, deCpu, canalInt, pcbExecute, pedida, desestimando, semSocket, cpuViva>>

-----------------------------------------------------------------------------
(* Thread atender_cpu_memoria: the instruction cycle *)

PuedeEjecutar == cpuViva /\ pedida /\ ~desestimando

(* DevolverSinParar, the mistake of asking for one more instruction *)
DevolverSinParar(motivo, interfaz) ==
  /\ deCpu' = Append(deCpu, [motivo |-> motivo, pid |-> pcbExecute, interfaz |-> interfaz])
  /\ UNCHANGED pedida
Devolver(motivo, interfaz) ==
  /\ deCpu' = Append(deCpu, [motivo |-> motivo, pid |-> pcbExecute, interfaz |-> interfaz])
  /\ pedida' = FALSE

(* An instruction that stays in the cycle ends in manejar_interrupcion. With *)
(* nothing pending the next instruction is asked for and nothing changes.    *)
AtenderInterrupcion ==
  /\ PuedeEjecutar
  /\ pendiente # "NINGUNA"
  /\ Devolver(IF pendiente = "QUANTUM" THEN "QUANTUM" ELSE "FINISH_PROCESS", SinInterfaz)
  /\ pendiente' = "NINGUNA"
  /\ semSocket' = semSocket + 1
  /\ UNCHANGED <<aCpu, canalInt, pcbExecute, desestimando, comparada, cpuViva>>

(* The IO_* instructions leave a pending interruption as it is. *)
SolicitarIO(interfaz) ==
  /\ PuedeEjecutar
  /\ "IO" \in Instrucciones
  /\ Devolver("IO", interfaz)
  /\ semSocket' = semSocket + 1
  /\ UNCHANGED <<aCpu, canalInt, pcbExecute, desestimando, comparada, pendiente, cpuViva>>

(* EXIT sends the PCB and frees the dispatch thread before it looks at the  *)
(* pending interruption.                                                    *)
EnviarPcbFinalizado ==
  /\ PuedeEjecutar
  /\ "EXIT" \in Instrucciones
  /\ Devolver("EXIT", SinInterfaz)
  /\ semSocket' = semSocket + 1
  /\ desestimando' = TRUE
  /\ UNCHANGED <<aCpu, canalInt, pcbExecute, comparada, pendiente, cpuViva>>

DesestimarInterrupcion ==
  /\ cpuViva
  /\ desestimando
  /\ desestimando' = FALSE
  /\ pendiente' = "NINGUNA"
  /\ UNCHANGED <<aCpu, deCpu, canalInt, pcbExecute, pedida, comparada, semSocket, cpuViva>>

(* A RESIZE the memory refuses: SEM_SOCKET_KERNEL_DISPATCH is not posted. *)
InformarKernelError ==
  /\ PuedeEjecutar
  /\ "RESIZE" \in Instrucciones
  /\ Devolver("OUT_OF_MEMORY", SinInterfaz)
  /\ UNCHANGED <<aCpu, canalInt, pcbExecute, desestimando, comparada, pendiente, semSocket,
                 cpuViva>>

CpuNext ==
  \/ RecibirPcb
  \/ RecibirInterrupcion
  \/ AnotarInterrupcion
  \/ AtenderInterrupcion
  \/ \E i \in NombresIO : SolicitarIO(i)
  \/ EnviarPcbFinalizado
  \/ DesestimarInterrupcion
  \/ InformarKernelError

=============================================================================
