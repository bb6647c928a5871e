----------------------------- MODULE Instruccion -----------------------------
(***************************************************************************)
(* The registers of the CPU and the instructions of a program, as          *)
(* src/utils/src/utils/instruccion.c and estructuras.c define them.  An    *)
(* instruction is its name and the parameters that its execution reads.    *)
(* The number of values of uint8_t and of uint32_t are parameters, so that *)
(* both boundaries are met with small numbers.                             *)
(***************************************************************************)
EXTENDS Integers, Sequences

CONSTANTS
  PIDS,            (* the processes                                          *)
  Angostos,        (* the registers of type uint8_t: AX, BX, CX, DX          *)
  Anchos,          (* those of type uint32_t but PC: EAX, ..., SI, DI        *)
  UINT8,           (* how many values an uint8_t has                         *)
  UINT32,          (* how many values an uint32_t has                        *)
  Programas,       (* the programs of this instance                          *)
  ValoresMemoria   (* what a MOV_IN may find in the memory                   *)

Registros == Angostos \cup Anchos \cup {"PC"}
Ninguno == "ninguno"

(* The instructions that write the register they name *)
Asignan == {"SET", "MOV_IN", "SUM", "SUB"}
(* The IO_* instructions are one: they differ in the message only *)
AlKernel == {"IO", "WAIT", "SIGNAL"}
Nombres == Asignan \cup AlKernel
             \cup {"JNZ", "MOV_OUT", "COPY_STRING", "RESIZE", "EXIT"}

Instrucciones == [nombre : Nombres, destino : STRING, fuente : STRING, valor : Nat]

ASSUME RegistrosAssumption ==
  /\ Angostos \subseteq STRING /\ Anchos \subseteq STRING
  /\ Angostos \cap Anchos = {}
  /\ {"PC", Ninguno} \cap (Angostos \cup Anchos) = {}
ASSUME AnchosAssumption ==
  /\ UINT8 \in Nat \ {0}
  /\ UINT32 \in Nat
  /\ \E k \in 1..UINT32 : UINT32 = UINT8 * k
ASSUME ProgramasAssumption == \A s \in Programas : s \in Seq(Instrucciones)
ASSUME MemoriaAssumption == ValoresMemoria \subseteq Nat

Tamano(r) == IF r \in Angostos THEN UINT8 ELSE UINT32
Contextos == {c \in [Registros -> 0..(UINT32 - 1)] : \A r \in Registros : c[r] < Tamano(r)}

(* cpu_registers_create: every register begins at zero *)
EnCero == [r \in Registros |-> 0]

(* What is left of a process that has ended: no register *)
Terminado == [r \in {"fin"} |-> 0]

(* The answer of the memory to a fetch: past the end of the program none comes *)
HayInstruccion(s, pc) == pc < Len(s)
Buscada(s, pc) == s[pc + 1]

=============================================================================
