----------------------------- MODULE MCContexto -----------------------------
(***************************************************************************)
(* Instances of Contexto for TLC: an uint8_t of 4 values, an uint32_t of   *)
(* 16, two registers of each width and programs that carry over, borrow,   *)
(* jump, write PC and leave the CPU in every way.                          *)
(***************************************************************************)
EXTENDS Contexto

I(nombre, destino, fuente, valor) ==
  [nombre |-> nombre, destino |-> destino, fuente |-> fuente, valor |-> valor]

MCAngostos == {"AX", "BX"}
MCAnchos == {"EAX", "SI"}

(* A countdown in an 8-bit register with an I/O in its loop *)
Cuenta == <<I("SET", "AX", "", 2), I("SET", "BX", "", 1), I("IO", "", "", 0),
            I("SUB", "AX", "BX", 0), I("JNZ", "", "AX", 2), I("EXIT", "", "", 0)>>
(* Carries over and borrows, a load from the memory, a resource *)
Sumas == <<I("SET", "EAX", "", 7), I("SET", "AX", "", 3), I("SUM", "AX", "EAX", 0),
           I("MOV_IN", "SI", "", 0), I("SUM", "SI", "AX", 0), I("WAIT", "", "", 0),
           I("SUB", "AX", "SI", 0), I("SUB", "SI", "EAX", 0), I("SIGNAL", "", "", 0),
           I("SUM", "PC", "NO", 0), I("EXIT", "", "", 0)>>
(* Jumps by SET PC over an instruction, sizes and strings *)
Saltos == <<I("RESIZE", "", "", 0), I("SET", "PC", "", 3), I("SET", "AX", "", 1),
            I("MOV_IN", "BX", "", 0), I("JNZ", "", "BX", 5), I("COPY_STRING", "", "", 0),
            I("SET", "NO", "", 9), I("SUM", "BX", "PC", 0), I("EXIT", "", "", 0)>>

MCProgramas == {Cuenta, Sumas, Saltos}

=============================================================================
