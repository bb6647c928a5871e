---------------------------- MODULE ProcesoPropio ----------------------------
(***************************************************************************)
(* What the CPU promises to the processes: each one runs its program as if *)
(* the registers were its own and nobody else ran.  A step of a process is *)
(* one instruction of its program, the one its PC names, and no step       *)
(* touches another process.  Values are integers and only what is written  *)
(* in a register is cut to its width.                                      *)
(*                                                                         *)
(* SUM has no such promise when the destination has 32 bits and the sum    *)
(* does not fit in 8: there any value may be left.                         *)
(***************************************************************************)
EXTENDS Instruccion

VARIABLES
  programa,        (* the program of each process                            *)
  contexto         (* its registers, or Terminado                            *)

vars == <<programa, contexto>>

Leer(c, r) == IF r \in Registros THEN c[r] ELSE 1

Guardar(c, destino, v) ==
  [r \in Registros |-> IF r = destino THEN v % Tamano(r)
                       ELSE IF r = "PC" THEN (c[r] + 1) % UINT32
                       ELSE c[r]]

Suma(ins, c) ==
  LET s == Leer(c, ins.destino) + Leer(c, ins.fuente)
  IN  IF ins.destino \in Angostos \/ s < UINT8 THEN {s} ELSE 0..(UINT32 - 1)

Valores(ins, c) ==
  CASE ins.nombre = "MOV_IN" -> ValoresMemoria
    [] ins.nombre = "SUM" -> Suma(ins, c)
    [] ins.nombre = "SUB" -> {Leer(c, ins.destino) - Leer(c, ins.fuente)}
    [] OTHER -> {ins.valor}

Destino(ins, c) ==
  IF ins.nombre \in Asignan THEN ins.destino
  ELSE IF ins.nombre = "JNZ" /\ Leer(c, ins.fuente) # 0 THEN "PC"
  ELSE Ninguno

Init ==
  /\ programa \in [PIDS -> Programas]
  /\ contexto = [p \in PIDS |-> EnCero]

EnPrograma(p) == contexto[p] # Terminado /\ HayInstruccion(programa[p], contexto[p]["PC"])
Actual(p) == Buscada(programa[p], contexto[p]["PC"])

Avanzar(p) ==
  /\ EnPrograma(p)
  /\ Actual(p).nombre # "EXIT"
  /\ \E v \in Valores(Actual(p), contexto[p]) :
       contexto' = [contexto EXCEPT ![p] = Guardar(@, Destino(Actual(p), @), v)]
  /\ UNCHANGED programa

(* EXIT, or a RESIZE that the memory refuses *)
Terminar(p) ==
  /\ EnPrograma(p)
  /\ Actual(p).nombre \in {"EXIT", "RESIZE"}
  /\ contexto' = [contexto EXCEPT ![p] = Terminado]
  /\ UNCHANGED programa

Next == \E p \in PIDS : Avanzar(p) \/ Terminar(p)

Spec == Init /\ [][Next]_vars

=============================================================================
