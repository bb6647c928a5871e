--------------------------- MODULE PruebasContexto ---------------------------
(***************************************************************************)
(* Proofs about Contexto, for any processes, programs, registers and       *)
(* widths, as long as the uint32_t has a multiple of the values of the     *)
(* uint8_t:                                                                *)
(*   - TiposDeContexto, UnSoloContador: TypeContexto and ContadorUnico;    *)
(*   - ContextoImplementa: Contexto implements ProcesoPropio.              *)
(*                                                                         *)
(* ContadorUnico is inductive with Alternan, which says that the process   *)
(* in the CPU, the fetch under way and SEM_SOCKET_KERNEL_DISPATCH go       *)
(* together and that no write to PC is left unnoticed.  The refinement is  *)
(* one lemma per kind of instruction about one register file, and then one *)
(* step per action.                                                        *)
(***************************************************************************)
EXTENDS Contexto, TLAPS

-----------------------------------------------------------------------------
(* Remainders *)

(* Division with remainder, as the widths use it *)
LEMMA Resto ==
  ASSUME NEW n \in Nat \ {0}, NEW x \in Int
  PROVE  /\ x = n * (x \div n) + (x % n)
         /\ x % n \in 0..(n - 1)
         /\ x \div n \in Int
  OBVIOUS

(* The remainder is unique *)
LEMMA RestoUnico ==
  ASSUME NEW n \in Nat \ {0}, NEW s \in 0..(n - 1), NEW t \in 0..(n - 1),
         NEW a \in Int, NEW b \in Int, n * a + s = n * b + t
  PROVE  s = t
  OBVIOUS

(* A value that fits is not changed by a narrower write *)
LEMMA RestoDelMenor ==
  ASSUME NEW n \in Nat \ {0}, NEW x \in 0..(n - 1)
  PROVE  x % n = x
  OBVIOUS

(* Whole turns of a counter do not show *)
LEMMA RestoDeVueltas ==
  ASSUME NEW n \in Nat \ {0}, NEW x \in Int, NEW k \in Int
  PROVE  (n * k + x) % n = x % n
<1>1. PICK y \in Int : y = n * k + x
  OBVIOUS
<1>2. PICK qy \in Int, ry \in 0..(n - 1) : y = n * qy + ry /\ y % n = ry
  BY Resto
<1>3. PICK qx \in Int, rx \in 0..(n - 1) : x = n * qx + rx /\ x % n = rx
  BY Resto
<1>4. n * (k + qx) + rx = n * qy + ry
  BY <1>1, <1>2, <1>3
<1>5. rx = ry
  BY <1>4, RestoUnico
<1> QED
  BY <1>1, <1>2, <1>3, <1>5

(* Cutting a term of a sum before adding it changes nothing *)
LEMMA RestoDeSuma ==
  ASSUME NEW n \in Nat \ {0}, NEW x \in Int, NEW y \in Int
  PROVE  (x + (y % n)) % n = (x + y) % n
<1>1. PICK q \in Int, r \in 0..(n - 1) : y = n * q + r /\ y % n = r
  BY Resto
<1>2. PICK z \in Int : z = x + r
  OBVIOUS
<1>3. x + y = n * q + z
  BY <1>1, <1>2
<1>4. (n * q + z) % n = z % n
  BY RestoDeVueltas
<1> QED
  BY <1>1, <1>2, <1>3, <1>4

(* A width that divides another: cutting to the wide one first is harmless *)
LEMMA RestoDeMultiplo ==
  ASSUME NEW n \in Nat \ {0}, NEW k \in Nat \ {0}, NEW x \in Int
  PROVE  (x % (n * k)) % n = x % n
<1>1. PICK m \in Nat \ {0} : m = n * k
  OBVIOUS
<1>2. PICK q \in Int, r \in 0..(m - 1) : x = m * q + r /\ x % m = r
  BY Resto
<1>3. PICK w \in Int : w = k * q
  OBVIOUS
<1>4. x = n * w + r
  BY <1>1, <1>2, <1>3
<1>5. r \in Int
  BY <1>1
<1>6. (n * w + r) % n = r % n
  BY <1>5, RestoDeVueltas
<1> QED
  BY <1>1, <1>2, <1>4, <1>6

-----------------------------------------------------------------------------
(* Widths *)

LEMMA Medidas ==
  /\ UINT8 \in Nat \ {0} /\ UINT32 \in Nat \ {0} /\ UINT8 <= UINT32
  /\ \E k \in Nat \ {0} : UINT32 = UINT8 * k
  /\ "PC" \in Registros /\ "PC" \notin Angostos
  /\ Ninguno \notin Registros
<1>1. PICK k \in 1..UINT32 : UINT32 = UINT8 * k
  BY AnchosAssumption
<1>2. k \in Nat \ {0} /\ UINT32 \in Nat /\ UINT8 \in Nat \ {0}
  BY AnchosAssumption
<1>3. UINT8 <= UINT8 * k /\ UINT8 * k # 0
  BY <1>2
<1>4. Ninguno # "PC"
  BY DEF Ninguno
<1> QED
  BY <1>1, <1>2, <1>3, <1>4, RegistrosAssumption DEF Registros

(* A register has between one and UINT32 values, and a value cut to 32 bits *)
(* and then to its width is the value cut to its width.                     *)
LEMMA Ancho ==
  ASSUME NEW r, NEW x \in Int
  PROVE  /\ Tamano(r) \in Nat \ {0} /\ Tamano(r) <= UINT32
         /\ x % Tamano(r) \in 0..(Tamano(r) - 1)
         /\ x % Tamano(r) \in 0..(UINT32 - 1)
         /\ (x % UINT32) % Tamano(r) = x % Tamano(r)
         /\ (x % Tamano(r)) % Tamano(r) = x % Tamano(r)
<1>1. Tamano(r) \in Nat \ {0} /\ Tamano(r) <= UINT32 /\ UINT32 \in Nat
  BY Medidas DEF Tamano
<1>2. PICK t \in Nat \ {0} : t = Tamano(r)
  BY <1>1
<1>3. x % t \in 0..(t - 1)
  BY Resto
<1>4. (x % t) % t = x % t
  BY <1>3, RestoDelMenor
<1>5. (x % UINT32) % t = x % t
  <2>1. CASE r \in Angostos
    <3>1. PICK k \in Nat \ {0} : UINT32 = UINT8 * k
      BY Medidas
    <3>2. t = UINT8
      BY <1>2, <2>1 DEF Tamano
    <3> QED
      BY <3>1, <3>2, RestoDeMultiplo
  <2>2. CASE r \notin Angostos
    BY <1>2, <1>4, <2>2 DEF Tamano
  <2> QED
    BY <2>1, <2>2
<1> QED
  BY <1>1, <1>2, <1>3, <1>4, <1>5

-----------------------------------------------------------------------------
(* Register files *)

(* A register file is a function of the registers, each within its width *)
LEMMA Campos ==
  ASSUME NEW c \in Contextos
  PROVE  /\ c \in [Registros -> 0..(UINT32 - 1)]
         /\ \A r \in Registros : c[r] \in 0..(UINT32 - 1) /\ c[r] < Tamano(r) /\ c[r] \in Int
         /\ c["PC"] \in 0..(UINT32 - 1)
BY Medidas DEF Contextos

(* What a read by name returns is an integer, also for an unknown name *)
LEMMA LecturaEntera ==
  ASSUME NEW c \in Contextos, NEW nombre
  PROVE  ObtenerRegistro(c, nombre) \in Nat
BY Campos, Medidas DEF ObtenerRegistro

LEMMA ContextoEnCero == EnCero \in Contextos
<1>1. \A r \in Registros : 0 < Tamano(r)
  BY Ancho, 0 \in Int
<1> QED
  BY <1>1, Medidas DEF EnCero, Contextos

(* _establecer_registro keeps every register within its width *)
LEMMA ContextoEstablecido ==
  ASSUME NEW c \in Contextos, NEW nombre, NEW v \in Int
  PROVE  EstablecerRegistro(c, nombre, v) \in Contextos
<1> DEFINE e == EstablecerRegistro(c, nombre, v)
<1>1. \A r \in Registros : e[r] = IF r = nombre THEN v % Tamano(r) ELSE c[r]
  BY DEF EstablecerRegistro
<1>2. \A r \in Registros : v % Tamano(r) \in 0..(UINT32 - 1) /\ v % Tamano(r) < Tamano(r)
  <2> TAKE r \in Registros
  <2>1. Tamano(r) \in Nat \ {0} /\ v % Tamano(r) \in 0..(Tamano(r) - 1)
         /\ v % Tamano(r) \in 0..(UINT32 - 1)
    BY Ancho
  <2> QED
    BY <2>1
<1>3. \A r \in Registros : e[r] \in 0..(UINT32 - 1) /\ e[r] < Tamano(r)
  BY <1>1, <1>2, Campos
<1>4. e \in [Registros -> 0..(UINT32 - 1)]
  BY <1>3 DEF EstablecerRegistro
<1> QED
  BY <1>3, <1>4 DEF Contextos

(* So does a jump, and the next program counter *)
LEMMA ContextoConPC ==
  ASSUME NEW c \in Contextos, NEW v \in Int
  PROVE  [c EXCEPT !["PC"] = v % UINT32] \in Contextos
<1>1. Tamano("PC") = UINT32
  BY Medidas DEF Tamano
<1>2. v % UINT32 \in 0..(UINT32 - 1)
  BY Ancho, <1>1
<1>3. v % UINT32 < UINT32
  BY <1>2, Medidas
<1> QED
  BY <1>1, <1>2, <1>3, Campos, Medidas DEF Contextos

LEMMA ContextoAumentado ==
  ASSUME NEW c \in Contextos, NEW cambio
  PROVE  AumentarProgramCounter(c, cambio) \in Contextos
<1>1. c["PC"] + 1 \in Int
  BY Campos, Medidas
<1>2. PICK v \in Int : v = c["PC"] + 1
  BY <1>1
<1>3. [c EXCEPT !["PC"] = v % UINT32] \in Contextos
  BY ContextoConPC
<1>4. [c EXCEPT !["PC"] = (@ + 1) % UINT32] = [c EXCEPT !["PC"] = v % UINT32]
  BY <1>2
<1> QED
  BY <1>3, <1>4 DEF AumentarProgramCounter

(* What an instruction writes is an integer *)
LEMMA ResultadoEntero ==
  ASSUME NEW c \in Contextos, NEW ins \in Instrucciones, NEW v \in Resultados(ins, c)
  PROVE  v \in Int
<1>1. PICK a \in Int, b \in Int : /\ a = ObtenerRegistro(c, ins.destino)
                                /\ b = ObtenerRegistro(c, ins.fuente)
  BY LecturaEntera
<1>2. \A x \in Int : x % UINT32 \in Int /\ x % UINT8 \in Int
  BY Resto, Medidas
<1>3. ResultadoSub(ins, c) \in Int
  BY <1>1, <1>2 DEF ResultadoSub
<1>4. ResultadoSum(ins, c) \in Int
  <2>1. PICK s \in Int : s = a + (b % UINT8)
    BY <1>2
  <2> QED
    BY <1>1, <1>2, <2>1 DEF ResultadoSum
<1>5. \A w \in ValoresMemoria : w % Tamano(ins.destino) \in Int
  <2> TAKE w \in ValoresMemoria
  <2>1. w \in Int
    BY MemoriaAssumption
  <2> QED
    BY <2>1, Ancho, Medidas
<1>6. ins.valor \in Int
  BY DEF Instrucciones
<1> QED
  BY <1>2, <1>3, <1>4, <1>5, <1>6 DEF Resultados

-----------------------------------------------------------------------------
(* The program counter *)

(* The process in the CPU is the one whose instruction is being fetched,    *)
(* SEM_SOCKET_KERNEL_DISPATCH is taken meanwhile, and cambio_pc is down     *)
(* between two instructions.                                                *)
Alternan ==
  /\ ~cambio_pc
  /\ \A p \in PIDS : donde[p] = "cpu" <=> (pedida # NoPedida /\ p = pcb_execute)
  /\ pedida # NoPedida => pcb_execute \in PIDS /\ sem_socket = 0

Coherente == TypeContexto /\ ContadorUnico /\ Alternan

LEMMA CoherenteInit == Init => Coherente
<1> SUFFICES ASSUME Init PROVE Coherente
  OBVIOUS
<1>1. 0 \in 0..(UINT32 - 1)
  BY Medidas
<1>2. TypeContexto
  <2>1. [program_counter |-> 0, registros |-> EnCero] \in Pcb
    BY <1>1, ContextoEnCero DEF Pcb
  <2>2. pcbs \in [PIDS -> Pcb] /\ cpu_registers \in Contextos /\ sem_socket \in 0..1
    BY <2>1, ContextoEnCero DEF Init
  <2>3. cambio_pc \in BOOLEAN /\ interrupcion_pendiente \in BOOLEAN
    BY DEF Init
  <2>4. /\ programa \in [PIDS -> Programas] /\ donde \in [PIDS -> {"kernel", "cpu", "fin"}]
        /\ pcb_execute \in PIDS \cup {Nulo} /\ pedida \in {NoPedida} \cup 0..(UINT32 - 1)
    BY DEF Init
  <2> QED
    BY <2>2, <2>3, <2>4 DEF TypeContexto
<1>3. EnCero["PC"] = 0
  BY Medidas DEF EnCero
<1>4. ContadorUnico
  BY <1>3 DEF Init, ContadorUnico, NoPedida
<1>5. Alternan
  BY DEF Init, Alternan
<1> QED
  BY <1>2, <1>4, <1>5 DEF Coherente

(* aumentar_program_counter leaves a register file whose PC can be fetched *)
LEMMA ContadorDeContexto ==
  ASSUME NEW c \in Contextos
  PROVE  c["PC"] \in 0..(UINT32 - 1) /\ c["PC"] # NoPedida /\ NoPedida \in Int
BY Campos, Medidas DEF NoPedida

(* A process changes hands *)
LEMMA DondeTipado ==
  ASSUME Coherente, NEW p, NEW lugar \in {"kernel", "cpu", "fin"},
         donde' = [donde EXCEPT ![p] = lugar]
  PROVE  donde' \in [PIDS -> {"kernel", "cpu", "fin"}]
<1>1. donde \in [PIDS -> {"kernel", "cpu", "fin"}]
  BY DEF Coherente, TypeContexto
<1> QED
  BY <1>1

(* The instruction that runs is one of a program *)
LEMMA ActualTipada ==
  ASSUME Coherente, EnCiclo
  PROVE  Actual \in Instrucciones
<1>1. pcb_execute \in PIDS /\ pedida \in 0..(UINT32 - 1)
  BY DEF Coherente, Alternan, EnCiclo, TypeContexto
<1>2. programa[pcb_execute] \in Programas
  BY <1>1 DEF Coherente, TypeContexto
<1>3. PICK s \in Seq(Instrucciones) : s = programa[pcb_execute]
  BY <1>2, ProgramasAssumption
<1>4. pedida < Len(s)
  BY <1>3 DEF EnCiclo, HayInstruccion
<1>5. PICK n \in Nat : n = pedida
  BY <1>1, Medidas
<1>6. n + 1 \in 1..Len(s)
  BY <1>4, <1>5
<1>7. s[n + 1] \in Instrucciones
  BY <1>6
<1> QED
  BY <1>3, <1>5, <1>7 DEF Actual, Buscada

(* Whatever the instruction did to the registers, the rest of its cycle     *)
(* keeps the three program counters together.                               *)
LEMMA SeguirCoherente ==
  ASSUME Coherente, EnCiclo, NEW registros \in Contextos, NEW cambio,
         SeguirCiclo(registros, cambio)
  PROVE  Coherente'
<1>1. PICK d \in Contextos : d = AumentarProgramCounter(registros, cambio)
  BY ContextoAumentado
<1>2. d["PC"] \in 0..(UINT32 - 1) /\ d["PC"] # NoPedida
  BY ContadorDeContexto
<1>3. pcb_execute \in PIDS /\ sem_socket = 0 /\ pedida # NoPedida /\ ~cambio_pc
  BY DEF Coherente, Alternan, EnCiclo
<1>4. /\ cpu_registers' = d /\ cambio_pc' = FALSE /\ interrupcion_pendiente' = FALSE
      /\ programa' = programa /\ pcb_execute' = pcb_execute
  BY <1>1 DEF SeguirCiclo
<1>5. CASE interrupcion_pendiente
  <2>1. /\ pcbs' = [pcbs EXCEPT ![pcb_execute] = [program_counter |-> d["PC"], registros |-> d]]
        /\ donde' = [donde EXCEPT ![pcb_execute] = "kernel"]
        /\ pedida' = NoPedida /\ sem_socket' = 1
    BY <1>1, <1>5 DEF SeguirCiclo, Devolver
  <2>2. TypeContexto'
    <3>1. [program_counter |-> d["PC"], registros |-> d] \in Pcb
      BY <1>2 DEF Pcb
    <3>2. pcbs' \in [PIDS -> Pcb]
      BY <2>1, <3>1 DEF Coherente, TypeContexto
    <3>3. cambio_pc' \in BOOLEAN /\ interrupcion_pendiente' \in BOOLEAN
      BY <1>4
    <3>4. donde' \in [PIDS -> {"kernel", "cpu", "fin"}]
      BY <2>1, DondeTipado
    <3>5. /\ programa' \in [PIDS -> Programas] /\ pcb_execute' \in PIDS \cup {Nulo}
          /\ cpu_registers' \in Contextos /\ pedida' \in {NoPedida} \cup 0..(UINT32 - 1)
      BY <1>4, <2>1 DEF Coherente, TypeContexto
    <3>6. sem_socket' \in 0..1
      BY <2>1
    <3> QED
      BY <3>2, <3>3, <3>4, <3>5, <3>6 DEF TypeContexto
  <2>3. ContadorUnico'
    BY <1>3, <2>1 DEF Coherente, ContadorUnico, TypeContexto
  <2>4. Alternan'
    BY <1>3, <1>4, <2>1 DEF Coherente, Alternan, TypeContexto
  <2> QED
    BY <2>2, <2>3, <2>4 DEF Coherente
<1>6. CASE ~interrupcion_pendiente
  <2>1. /\ pcbs' = [pcbs EXCEPT ![pcb_execute].program_counter = d["PC"]]
        /\ pedida' = d["PC"] /\ donde' = donde /\ sem_socket' = sem_socket
    BY <1>1, <1>6 DEF SeguirCiclo
  <2>2. TypeContexto'
    BY <1>2, <1>3, <1>4, <2>1 DEF Coherente, TypeContexto, Pcb
  <2>3. ContadorUnico'
    <3>1. pcbs'[pcb_execute].program_counter = d["PC"]
      BY <1>3, <2>1 DEF Coherente, TypeContexto, Pcb
    <3>2. donde[pcb_execute] = "cpu"
      BY <1>3 DEF Coherente, Alternan
    <3> QED
      BY <1>3, <1>4, <2>1, <3>1, <3>2 DEF Coherente, ContadorUnico, TypeContexto
  <2>4. Alternan'
    BY <1>2, <1>3, <1>4, <2>1 DEF Coherente, Alternan
  <2> QED
    BY <2>2, <2>3, <2>4 DEF Coherente
<1> QED
  BY <1>5, <1>6

(* So does a return of the PCB with the registers of the CPU, whatever the  *)
(* pending interruption.                                                    *)
LEMMA DevolverCoherente ==
  ASSUME Coherente, EnCiclo, NEW d \in Contextos, NEW contador \in 0..(UINT32 - 1),
         NEW destino \in {"kernel", "fin"},
         destino = "kernel" => contador = d["PC"],
         Devolver(d, contador, destino), cpu_registers' = d, cambio_pc' = FALSE,
         UNCHANGED <<programa, pcb_execute>>, interrupcion_pendiente' \in BOOLEAN
  PROVE  Coherente'
<1>1. pcb_execute \in PIDS /\ sem_socket = 0 /\ pedida # NoPedida
  BY DEF Coherente, Alternan, EnCiclo
<1>2. /\ pcbs' = [pcbs EXCEPT ![pcb_execute] = [program_counter |-> contador, registros |-> d]]
      /\ donde' = [donde EXCEPT ![pcb_execute] = destino]
      /\ pedida' = NoPedida /\ sem_socket' = 1
  BY DEF Devolver
<1>3. TypeContexto'
  <2>1. [program_counter |-> contador, registros |-> d] \in Pcb
    BY DEF Pcb
  <2>2. pcbs' \in [PIDS -> Pcb]
    BY <1>2, <2>1 DEF Coherente, TypeContexto
  <2>3. cambio_pc' \in BOOLEAN /\ interrupcion_pendiente' \in BOOLEAN
    OBVIOUS
  <2>4. donde' \in [PIDS -> {"kernel", "cpu", "fin"}]
    BY <1>2, DondeTipado
  <2>5. /\ programa' \in [PIDS -> Programas] /\ pcb_execute' \in PIDS \cup {Nulo}
        /\ cpu_registers' \in Contextos /\ pedida' \in {NoPedida} \cup 0..(UINT32 - 1)
    BY <1>2 DEF Coherente, TypeContexto
  <2>6. sem_socket' \in 0..1
    BY <1>2
  <2> QED
    BY <2>2, <2>3, <2>4, <2>5, <2>6 DEF TypeContexto
<1>4. ContadorUnico'
  BY <1>1, <1>2 DEF Coherente, ContadorUnico, TypeContexto
<1>5. Alternan'
  BY <1>1, <1>2 DEF Coherente, Alternan, TypeContexto
<1> QED
  BY <1>3, <1>4, <1>5 DEF Coherente

LEMMA CoherentePaso == Coherente /\ [Next]_vars => Coherente'
<1> SUFFICES ASSUME Coherente, [Next]_vars PROVE Coherente'
  OBVIOUS
<1> USE DEF Coherente
<1>1. ASSUME NEW p \in PIDS, RecibirPcb(p) PROVE Coherente'
  <2>1. /\ donde[p] = "kernel" /\ sem_socket = 1 /\ sem_socket' = 0
        /\ donde' = [donde EXCEPT ![p] = "cpu"] /\ pcb_execute' = p
        /\ cpu_registers' = pcbs[p].registros /\ pedida' = pcbs[p].program_counter
        /\ programa' = programa /\ pcbs' = pcbs /\ cambio_pc' = cambio_pc
        /\ interrupcion_pendiente' = interrupcion_pendiente
    BY <1>1 DEF RecibirPcb
  <2>2. pcbs[p] \in Pcb
    BY DEF TypeContexto
  <2>3. /\ pcbs[p].registros \in Contextos /\ pcbs[p].program_counter \in 0..(UINT32 - 1)
        /\ pcbs[p].program_counter # NoPedida
    BY <2>2, Medidas DEF Pcb, NoPedida
  <2>4. pedida = NoPedida
    BY <2>1 DEF Alternan
  <2>5. TypeContexto'
    <3>1. donde' \in [PIDS -> {"kernel", "cpu", "fin"}]
      BY <2>1, DondeTipado
    <3>2. sem_socket' \in 0..1
      BY <2>1
    <3>3. cambio_pc' \in BOOLEAN /\ interrupcion_pendiente' \in BOOLEAN
      BY <2>1 DEF TypeContexto
    <3>4. /\ programa' \in [PIDS -> Programas] /\ pcb_execute' \in PIDS \cup {Nulo}
          /\ cpu_registers' \in Contextos /\ pedida' \in {NoPedida} \cup 0..(UINT32 - 1)
          /\ pcbs' \in [PIDS -> Pcb]
      BY <2>1, <2>3 DEF TypeContexto
    <3> QED
      BY <3>1, <3>2, <3>3, <3>4 DEF TypeContexto
  <2>6. donde \in [PIDS -> {"kernel", "cpu", "fin"}]
    BY DEF TypeContexto
  <2>7. donde' [p] = "cpu" /\ \A q \in PIDS \ {p} : donde'[q] = donde[q]
    BY <2>1, <2>6
  <2>8. pcbs[p].program_counter = pcbs[p].registros["PC"]
    BY <2>1 DEF ContadorUnico
  <2>9. ContadorUnico'
    BY <2>1, <2>7, <2>8 DEF ContadorUnico
  <2>10. Alternan'
    BY <2>1, <2>3, <2>4, <2>7 DEF Alternan
  <2> QED
    BY <2>5, <2>9, <2>10
<1>2. CASE RecibirInterrupcion
  <2>1. /\ programa' = programa /\ pcbs' = pcbs /\ donde' = donde /\ pcb_execute' = pcb_execute
        /\ cpu_registers' = cpu_registers /\ cambio_pc' = cambio_pc /\ pedida' = pedida
        /\ sem_socket' = sem_socket /\ interrupcion_pendiente' = TRUE
    BY <1>2 DEF RecibirInterrupcion
  <2> QED
    BY <2>1 DEF TypeContexto, ContadorUnico, Alternan
<1>3. CASE Asignar
  <2>1. EnCiclo /\ Actual \in Instrucciones
    BY <1>3, ActualTipada DEF Asignar
  <2>2. PICK v \in Resultados(Actual, cpu_registers) :
          SeguirCiclo(EstablecerRegistro(cpu_registers, Actual.destino, v),
                      cambio_pc \/ Actual.destino = "PC")
    BY <1>3 DEF Asignar
  <2>3. cpu_registers \in Contextos
    BY DEF TypeContexto
  <2>4. v \in Int
    BY <2>1, <2>2, <2>3, ResultadoEntero
  <2>5. EstablecerRegistro(cpu_registers, Actual.destino, v) \in Contextos
    BY <2>3, <2>4, ContextoEstablecido
  <2> QED
    BY <2>1, <2>2, <2>5, SeguirCoherente
<1>4. CASE Jnz
  <2>1. EnCiclo /\ Actual \in Instrucciones /\ cpu_registers \in Contextos
    BY <1>4, ActualTipada DEF Jnz, TypeContexto
  <2>2. PICK salta \in BOOLEAN :
          SeguirCiclo(IF salta THEN [cpu_registers EXCEPT !["PC"] = Actual.valor % UINT32]
                               ELSE cpu_registers, cambio_pc \/ salta)
    BY <1>4 DEF Jnz
  <2>3. Actual.valor \in Int
    BY <2>1 DEF Instrucciones
  <2>4. [cpu_registers EXCEPT !["PC"] = Actual.valor % UINT32] \in Contextos
    BY <2>1, <2>3, ContextoConPC
  <2>5. (IF salta THEN [cpu_registers EXCEPT !["PC"] = Actual.valor % UINT32]
                  ELSE cpu_registers) \in Contextos
    BY <2>1, <2>4
  <2> QED
    BY <2>1, <2>2, <2>5, SeguirCoherente
<1>5. CASE SinRegistros
  BY <1>5, SeguirCoherente DEF SinRegistros, TypeContexto
<1>6. CASE SolicitarAlKernel
  <2>1. cpu_registers \in Contextos /\ EnCiclo
    BY <1>6 DEF SolicitarAlKernel, TypeContexto
  <2>2. PICK d \in Contextos : d = AumentarProgramCounter(cpu_registers, cambio_pc)
    BY <2>1, ContextoAumentado
  <2>3. /\ cpu_registers' = d /\ Devolver(d, d["PC"], "kernel") /\ cambio_pc' = FALSE
        /\ UNCHANGED <<programa, pcb_execute>>
    BY <1>6, <2>2 DEF SolicitarAlKernel
  <2>4. interrupcion_pendiente' \in BOOLEAN
    BY <1>6 DEF SolicitarAlKernel, TypeContexto
  <2>5. d["PC"] \in 0..(UINT32 - 1)
    BY ContadorDeContexto
  <2> QED
    BY <2>1, <2>3, <2>4, <2>5, DevolverCoherente
<1>7. CASE EnviarPcbFinalizado
  <2>1. cpu_registers \in Contextos /\ EnCiclo
    BY <1>7 DEF EnviarPcbFinalizado, TypeContexto
  <2>2. PICK n : n = pcbs[pcb_execute].program_counter
    OBVIOUS
  <2>3. pcbs[pcb_execute] \in Pcb
    BY <2>1 DEF EnCiclo, Alternan, TypeContexto
  <2>4. n \in 0..(UINT32 - 1)
    BY <2>2, <2>3 DEF Pcb
  <2>5. cambio_pc' = FALSE
    BY <1>7 DEF EnviarPcbFinalizado, Alternan, TypeContexto
  <2>6. /\ cpu_registers' = cpu_registers /\ UNCHANGED <<programa, pcb_execute>>
        /\ Devolver(cpu_registers, n, "fin")
    BY <1>7, <2>2 DEF EnviarPcbFinalizado
  <2>7. interrupcion_pendiente' \in BOOLEAN
    BY <1>7 DEF EnviarPcbFinalizado
  <2> QED
    BY <2>1, <2>4, <2>5, <2>6, <2>7, DevolverCoherente
<1>8. CASE InformarKernelError
  <2>1. /\ donde' = [donde EXCEPT ![pcb_execute] = "fin"] /\ pedida' = NoPedida
        /\ programa' = programa /\ pcbs' = pcbs /\ pcb_execute' = pcb_execute
        /\ cpu_registers' = cpu_registers /\ cambio_pc' = cambio_pc
        /\ interrupcion_pendiente' = interrupcion_pendiente /\ sem_socket' = sem_socket
    BY <1>8 DEF InformarKernelError
  <2>2. donde' \in [PIDS -> {"kernel", "cpu", "fin"}]
    BY <2>1, DondeTipado
  <2>3. pedida' \in {NoPedida} \cup 0..(UINT32 - 1)
    BY <2>1
  <2>4. TypeContexto'
    BY <2>1, <2>2, <2>3 DEF TypeContexto
  <2>5. \A q \in PIDS : donde'[q] = IF q = pcb_execute THEN "fin" ELSE donde[q]
    BY <2>1 DEF TypeContexto
  <2>6. ContadorUnico'
    BY <2>1, <2>5 DEF ContadorUnico
  <2>7. Alternan'
    BY <2>1, <2>5 DEF Alternan
  <2> QED
    BY <2>4, <2>6, <2>7
<1>9. CASE UNCHANGED vars
  <2>1. /\ programa' = programa /\ pcbs' = pcbs /\ donde' = donde /\ pcb_execute' = pcb_execute
        /\ cpu_registers' = cpu_registers /\ cambio_pc' = cambio_pc /\ pedida' = pedida
        /\ sem_socket' = sem_socket /\ interrupcion_pendiente' = interrupcion_pendiente
    BY <1>9 DEF vars
  <2> QED
    BY <2>1 DEF TypeContexto, ContadorUnico, Alternan
<1> QED
  BY <1>1, <1>2, <1>3, <1>4, <1>5, <1>6, <1>7, <1>8, <1>9 DEF Next

LEMMA CoherenteSiempre == Spec => []Coherente
BY CoherenteInit, CoherentePaso, PTL DEF Spec

(* Every register always holds a value of its width, also after SUM, SUB    *)
(* and a load from the memory, and the kernel and the CPU never disagree on *)
(* the types of a PCB (TypeContexto).                                       *)
THEOREM TiposDeContexto == Spec => []TypeContexto
<1>1. Coherente => TypeContexto
  BY DEF Coherente
<1> QED
  BY <1>1, CoherenteSiempre, PTL

(* The instruction fetched is the one the registers of the process name, in *)
(* the CPU and after any way back to it (ContadorUnico).                    *)
THEOREM UnSoloContador == Spec => []ContadorUnico
<1>1. Coherente => ContadorUnico
  BY DEF Coherente
<1> QED
  BY <1>1, CoherenteSiempre, PTL

-----------------------------------------------------------------------------
(* The refinement.  One instruction, on the registers of one process.       *)

(* Propio names the registers and the programs as Contexto does *)
LEMMA Mismos ==
  /\ Propio!Registros = Registros /\ Propio!Ninguno = Ninguno /\ Propio!Asignan = Asignan
  /\ Propio!EnCero = EnCero /\ Propio!Terminado = Terminado
  /\ \A r : Propio!Tamano(r) = Tamano(r)
  /\ \A s, n : /\ Propio!HayInstruccion(s, n) = HayInstruccion(s, n)
              /\ Propio!Buscada(s, n) = Buscada(s, n)
<1>1. Propio!Registros = Registros /\ Propio!Ninguno = Ninguno /\ Propio!Asignan = Asignan
  BY DEF Propio!Registros, Registros, Propio!Ninguno, Ninguno, Propio!Asignan, Asignan
<1>2. Propio!EnCero = EnCero /\ Propio!Terminado = Terminado
  BY <1>1 DEF Propio!EnCero, EnCero, Propio!Terminado, Terminado
<1>3. \A r : Propio!Tamano(r) = Tamano(r)
  BY DEF Propio!Tamano, Tamano
<1>4. \A s, n : /\ Propio!HayInstruccion(s, n) = HayInstruccion(s, n)
              /\ Propio!Buscada(s, n) = Buscada(s, n)
  BY DEF Propio!HayInstruccion, HayInstruccion, Propio!Buscada, Buscada
<1> QED
  BY <1>1, <1>2, <1>3, <1>4

(* A write by name and the advance of the program counter, together         *)
LEMMA GuardarEs ==
  ASSUME NEW c \in Contextos, NEW destino, NEW v \in Int, NEW w \in Int,
         destino \in Registros => v % Tamano(destino) = w % Tamano(destino)
  PROVE  AumentarProgramCounter(EstablecerRegistro(c, destino, v), destino = "PC")
           = Propio!Guardar(c, destino, w)
<1>1. PICK e \in Contextos : e = EstablecerRegistro(c, destino, v)
  BY ContextoEstablecido
<1>2. PICK g : g = Propio!Guardar(c, destino, w)
  OBVIOUS
<1>3. /\ DOMAIN g = Registros /\ g = [r \in DOMAIN g |-> g[r]]
      /\ \A r \in Registros : g[r] = IF r = destino THEN w % Tamano(r)
                                    ELSE IF r = "PC" THEN (c[r] + 1) % UINT32 ELSE c[r]
  BY <1>2, Mismos DEF Propio!Guardar
<1>4. \A r \in Registros : e[r] = IF r = destino THEN v % Tamano(r) ELSE c[r]
  BY <1>1 DEF EstablecerRegistro
<1>5. e \in [Registros -> 0..(UINT32 - 1)]
  BY Campos
<1>6. CASE destino = "PC"
  <2>1. \A r \in Registros : e[r] = g[r]
    BY <1>3, <1>4, <1>6
  <2>2. e = g
    BY <1>3, <1>5, <2>1
  <2> QED
    BY <1>1, <1>2, <1>6, <2>2 DEF AumentarProgramCounter
<1>7. CASE destino # "PC"
  <2>1. PICK f : f = [e EXCEPT !["PC"] = (@ + 1) % UINT32]
    OBVIOUS
  <2>2. /\ f = [r \in Registros |-> f[r]]
        /\ \A r \in Registros : f[r] = IF r = "PC" THEN (e[r] + 1) % UINT32 ELSE e[r]
    BY <1>5, <2>1, Medidas
  <2>3. \A r \in Registros : f[r] = g[r]
    BY <1>3, <1>4, <1>7, <2>2
  <2>4. f = g
    BY <1>3, <2>2, <2>3
  <2> QED
    BY <1>1, <1>2, <1>7, <2>1, <2>4 DEF AumentarProgramCounter
<1> QED
  BY <1>6, <1>7

(* An instruction that writes no register *)
LEMMA GuardarNada ==
  ASSUME NEW c \in Contextos, NEW w \in Int
  PROVE  AumentarProgramCounter(c, FALSE) = Propio!Guardar(c, Ninguno, w)
<1>1. EstablecerRegistro(c, Ninguno, w) = c
  BY Campos, Medidas DEF EstablecerRegistro
<1>2. (Ninguno = "PC") = FALSE
  BY Medidas
<1>3. AumentarProgramCounter(EstablecerRegistro(c, Ninguno, w), Ninguno = "PC")
        = Propio!Guardar(c, Ninguno, w)
  BY Medidas, GuardarEs
<1> QED
  BY <1>1, <1>2, <1>3

(* A jump *)
LEMMA GuardarSalto ==
  ASSUME NEW c \in Contextos, NEW w \in Int
  PROVE  AumentarProgramCounter([c EXCEPT !["PC"] = w % UINT32], TRUE)
           = Propio!Guardar(c, "PC", w)
<1>1. PICK n : n = w % UINT32
  OBVIOUS
<1>2. Tamano("PC") = UINT32
  BY Medidas DEF Tamano
<1>3. EstablecerRegistro(c, "PC", w) = [c EXCEPT !["PC"] = n]
  BY <1>1, <1>2, Campos, Medidas DEF EstablecerRegistro
<1>4. AumentarProgramCounter(EstablecerRegistro(c, "PC", w), "PC" = "PC")
        = Propio!Guardar(c, "PC", w)
  BY GuardarEs
<1>5. AumentarProgramCounter([c EXCEPT !["PC"] = n], TRUE) = [c EXCEPT !["PC"] = n]
  BY DEF AumentarProgramCounter
<1>6. AumentarProgramCounter([c EXCEPT !["PC"] = n], "PC" = "PC") = [c EXCEPT !["PC"] = n]
  BY DEF AumentarProgramCounter
<1> QED
  BY <1>1, <1>3, <1>4, <1>5, <1>6

(* SET, MOV_IN, SUM and SUB: what the C arithmetic leaves in the register   *)
(* is the integer result cut once to its width.                             *)
LEMMA ResultadoEs ==
  ASSUME NEW c \in Contextos, NEW ins \in Instrucciones, ins.nombre \in Asignan,
         NEW v \in Resultados(ins, c)
  PROVE  \E w \in Propio!Valores(ins, c) : /\ w \in Int
                                          /\ v % Tamano(ins.destino) = w % Tamano(ins.destino)
<1>1. PICK a \in Nat, b \in Nat : /\ a = ObtenerRegistro(c, ins.destino)
                                /\ b = ObtenerRegistro(c, ins.fuente)
  BY LecturaEntera
<1>2. a = Propio!Leer(c, ins.destino) /\ b = Propio!Leer(c, ins.fuente)
  BY <1>1, Mismos DEF ObtenerRegistro, Propio!Leer
<1>3. PICK t \in Nat \ {0} : t = Tamano(ins.destino)
  BY Ancho, 0 \in Int
<1>4. CASE ins.nombre = "SET"
  <2>1. PICK w \in Nat : w = ins.valor
    BY DEF Instrucciones
  <2>2. v = w % UINT32 /\ w \in Propio!Valores(ins, c)
    BY <1>4, <2>1 DEF Resultados, Propio!Valores
  <2> QED
    BY <2>2, Ancho
<1>5. CASE ins.nombre = "MOV_IN"
  <2>1. PICK w \in ValoresMemoria : v = w % Tamano(ins.destino)
    BY <1>5 DEF Resultados
  <2>2. w \in Int /\ w \in Propio!Valores(ins, c)
    BY <1>5, MemoriaAssumption DEF Propio!Valores
  <2> QED
    BY <2>1, <2>2, Ancho
<1>6. CASE ins.nombre = "SUB"
  <2>1. PICK w \in Int : w = a - b
    BY <1>1
  <2>2. v = w % UINT32
    BY <1>1, <1>6, <2>1 DEF Resultados, ResultadoSub
  <2>3. w \in Propio!Valores(ins, c)
    BY <1>2, <1>6, <2>1 DEF Propio!Valores
  <2> QED
    BY <2>2, <2>3, Ancho
<1>7. CASE ins.nombre = "SUM"
  <2>0. PICK m \in Int : m = b % UINT8
    BY Resto, Medidas
  <2>1. PICK s \in Int, x \in Int : s = a + b /\ x = a + m
    OBVIOUS
  <2>2. v = (x % UINT32) % UINT8
    BY <1>1, <1>7, <2>0, <2>1 DEF Resultados, ResultadoSum
  <2>3. v = s % UINT8
    <3>1. PICK k \in Nat \ {0} : UINT32 = UINT8 * k
      BY Medidas
    <3>2. (x % UINT32) % UINT8 = x % UINT8
      BY <3>1, Medidas, RestoDeMultiplo
    <3>3. x % UINT8 = s % UINT8
      <4>1. a \in Int /\ b \in Int /\ UINT8 \in Nat \ {0}
        BY Medidas
      <4>2. (a + (b % UINT8)) % UINT8 = (a + b) % UINT8
        BY <4>1, RestoDeSuma
      <4> QED
        BY <2>0, <2>1, <4>2
    <3> QED
      BY <2>2, <3>2, <3>3
  <2>4. Propio!Valores(ins, c) = IF ins.destino \in Angostos \/ s < UINT8 THEN {s}
                                 ELSE 0..(UINT32 - 1)
    BY <1>2, <1>7, <2>1 DEF Propio!Valores, Propio!Suma
  <2>5. CASE ins.destino \in Angostos
    <3>1. Tamano(ins.destino) = UINT8
      BY <2>5 DEF Tamano
    <3>2. v % UINT8 = s % UINT8
      BY <2>1, <2>3, <3>1, Ancho
    <3> QED
      BY <2>1, <2>4, <2>5, <3>1, <3>2
  <2>6. CASE s < UINT8
    <3>1. s \in 0..(UINT8 - 1)
      BY <1>1, <2>1, <2>6, Medidas
    <3>2. v = s
      BY <2>3, <3>1, RestoDelMenor, Medidas
    <3> QED
      BY <2>1, <2>4, <2>6, <3>2
  <2>7. CASE ins.destino \notin Angostos /\ ~(s < UINT8)
    <3>1. v \in 0..(UINT8 - 1)
      BY <2>1, <2>3, Resto, Medidas
    <3>2. v \in 0..(UINT32 - 1)
      BY <3>1, Medidas
    <3> QED
      BY <2>4, <2>7, <3>2
  <2> QED
    BY <2>5, <2>6, <2>7
<1> QED
  BY <1>4, <1>5, <1>6, <1>7 DEF Asignan

-----------------------------------------------------------------------------
(* What the processes see of a step of the CPU *)

Vista == [p \in PIDS |-> Visible(p)]

(* While it is in the CPU a process sees the registers of the CPU, and its  *)
(* PC is the instruction that was fetched.                                  *)
LEMMA VistaEnCpu ==
  ASSUME Coherente, EnCiclo
  PROVE  /\ pcb_execute \in PIDS
         /\ Vista[pcb_execute] = cpu_registers
         /\ Propio!EnPrograma(pcb_execute)
         /\ Propio!Actual(pcb_execute) = Actual
<1>1. pcb_execute \in PIDS /\ donde[pcb_execute] = "cpu" /\ pedida = cpu_registers["PC"]
  BY DEF Coherente, Alternan, ContadorUnico, EnCiclo
<1>2. Vista[pcb_execute] = cpu_registers
  BY <1>1 DEF Vista, Visible
<1>3. cpu_registers \in Contextos
  BY DEF Coherente, TypeContexto
<1>4. cpu_registers # Terminado
  <2>1. DOMAIN cpu_registers = Registros /\ "PC" \in Registros
    BY <1>3, Campos, Medidas
  <2>2. DOMAIN Terminado = {"fin"}
    BY DEF Terminado
  <2> QED
    BY <2>1, <2>2
<1>5. Propio!EnPrograma(pcb_execute)
  BY <1>1, <1>2, <1>4, Mismos DEF Propio!EnPrograma, EnCiclo, Vista
<1>6. Propio!Actual(pcb_execute) = Actual
  BY <1>1, <1>2, Mismos DEF Propio!Actual, Actual, Vista
<1> QED
  BY <1>1, <1>2, <1>5, <1>6

(* Only the process in the CPU sees a change, and it sees the registers the *)
(* cycle left, whether it stays or is interrupted.                          *)
LEMMA VistaAlSeguir ==
  ASSUME Coherente, EnCiclo, NEW registros \in Contextos, NEW cambio,
         SeguirCiclo(registros, cambio)
  PROVE  /\ Vista' = [Vista EXCEPT ![pcb_execute] = AumentarProgramCounter(registros, cambio)]
         /\ programa' = programa
<1>1. PICK d \in Contextos : d = AumentarProgramCounter(registros, cambio)
  BY ContextoAumentado
<1>2. /\ pcb_execute \in PIDS /\ donde[pcb_execute] = "cpu"
      /\ \A q \in PIDS : q # pcb_execute => donde[q] # "cpu"
  BY DEF Coherente, Alternan, EnCiclo
<1>3. cpu_registers' = d /\ programa' = programa
  BY <1>1 DEF SeguirCiclo
<1>4. /\ donde \in [PIDS -> {"kernel", "cpu", "fin"}]
      /\ DOMAIN pcbs = PIDS
  BY DEF Coherente, TypeContexto
<1>5. \A q \in PIDS : Visible(q)' = IF q = pcb_execute THEN d ELSE Visible(q)
  <2>1. CASE interrupcion_pendiente
    <3>1. /\ pcbs' = [pcbs EXCEPT ![pcb_execute] = [program_counter |-> d["PC"], registros |-> d]]
          /\ donde' = [donde EXCEPT ![pcb_execute] = "kernel"]
      BY <1>1, <2>1 DEF SeguirCiclo, Devolver
    <3>2. /\ donde'[pcb_execute] = "kernel" /\ pcbs'[pcb_execute].registros = d
          /\ \A q \in PIDS \ {pcb_execute} : donde'[q] = donde[q] /\ pcbs'[q] = pcbs[q]
      BY <1>2, <1>4, <3>1
    <3> TAKE q \in PIDS
    <3>3. CASE q = pcb_execute
      BY <3>2, <3>3 DEF Visible
    <3>4. CASE q # pcb_execute
      BY <1>2, <3>2, <3>4 DEF Visible
    <3> QED
      BY <3>3, <3>4
  <2>2. CASE ~interrupcion_pendiente
    <3>1. /\ pcbs' = [pcbs EXCEPT ![pcb_execute].program_counter = d["PC"]]
          /\ donde' = donde
      BY <1>1, <2>2 DEF SeguirCiclo
    <3>2. \A q \in PIDS : q # pcb_execute => pcbs'[q] = pcbs[q]
      BY <1>4, <3>1
    <3> QED
      BY <1>2, <1>3, <3>1, <3>2 DEF Visible
  <2> QED
    BY <2>1, <2>2
<1>6. Vista' = [Vista EXCEPT ![pcb_execute] = d]
  BY <1>2, <1>5 DEF Vista
<1> QED
  BY <1>1, <1>3, <1>6

(* The same for a PCB that goes back by a request to the kernel *)
LEMMA VistaAlDevolver ==
  ASSUME Coherente, EnCiclo, NEW d \in Contextos, NEW contador, Devolver(d, contador, "kernel")
  PROVE  Vista' = [Vista EXCEPT ![pcb_execute] = d]
<1>1. /\ pcb_execute \in PIDS
      /\ \A q \in PIDS : q # pcb_execute => donde[q] # "cpu"
  BY DEF Coherente, Alternan, EnCiclo
<1>2. donde \in [PIDS -> {"kernel", "cpu", "fin"}] /\ DOMAIN pcbs = PIDS
  BY DEF Coherente, TypeContexto
<1>3. /\ donde'[pcb_execute] = "kernel" /\ pcbs'[pcb_execute].registros = d
      /\ \A q \in PIDS \ {pcb_execute} : donde'[q] = donde[q] /\ pcbs'[q] = pcbs[q]
  BY <1>1, <1>2 DEF Devolver
<1>4. \A q \in PIDS : Visible(q)' = IF q = pcb_execute THEN d ELSE Visible(q)
  <2> TAKE q \in PIDS
  <2>1. CASE q = pcb_execute
    BY <1>3, <2>1 DEF Visible
  <2>2. CASE q # pcb_execute
    BY <1>1, <1>3, <2>2 DEF Visible
  <2> QED
    BY <2>1, <2>2
<1> QED
  BY <1>1, <1>4 DEF Vista

(* And a process that ends is seen to end, and nothing else *)
LEMMA VistaAlTerminar ==
  ASSUME Coherente, EnCiclo, donde' = [donde EXCEPT ![pcb_execute] = "fin"],
         \A q \in PIDS \ {pcb_execute} : pcbs'[q] = pcbs[q]
  PROVE  Vista' = [Vista EXCEPT ![pcb_execute] = Terminado]
<1>1. /\ pcb_execute \in PIDS
      /\ \A q \in PIDS : q # pcb_execute => donde[q] # "cpu"
  BY DEF Coherente, Alternan, EnCiclo
<1>2. donde \in [PIDS -> {"kernel", "cpu", "fin"}]
  BY DEF Coherente, TypeContexto
<1>3. \A q \in PIDS : donde'[q] = IF q = pcb_execute THEN "fin" ELSE donde[q]
  BY <1>2
<1>4. \A q \in PIDS : Visible(q)' = IF q = pcb_execute THEN Terminado ELSE Visible(q)
  BY <1>1, <1>3 DEF Visible
<1> QED
  BY <1>1, <1>4 DEF Vista

-----------------------------------------------------------------------------
(* Every step of Contexto is one step of one process, or none *)

LEMMA ImplementaInit == Init => Propio!Init
<1> SUFFICES ASSUME Init PROVE Propio!Init
  OBVIOUS
<1>1. \A p \in PIDS : Visible(p) = EnCero
  BY DEF Init, Visible
<1>2. [p \in PIDS |-> Visible(p)] = [p \in PIDS |-> EnCero]
  BY <1>1
<1> QED
  BY <1>2, Mismos DEF Init, Propio!Init

LEMMA ImplementaPaso == Coherente /\ [Next]_vars => [Propio!Next]_(Propio!vars)
<1> SUFFICES ASSUME Coherente, [Next]_vars PROVE [Propio!Next]_(Propio!vars)
  OBVIOUS
<1>0. cpu_registers \in Contextos
  BY DEF Coherente, TypeContexto
(* A step of the process in the CPU that leaves it the registers c *)
<1>a. ASSUME EnCiclo, Actual.nombre # "EXIT", NEW c, NEW w \in Propio!Valores(Actual, cpu_registers),
             c = Propio!Guardar(cpu_registers, Propio!Destino(Actual, cpu_registers), w),
             Vista' = [Vista EXCEPT ![pcb_execute] = c], programa' = programa
      PROVE  Propio!Next
  <2>1. Propio!Avanzar(pcb_execute)
    BY <1>a, VistaEnCpu DEF Propio!Avanzar, Vista
  <2> QED
    BY <2>1, <1>a, VistaEnCpu DEF Propio!Next
(* A step that shows nothing *)
<1>b. ASSUME Vista' = Vista, programa' = programa
      PROVE  UNCHANGED Propio!vars
  BY <1>b DEF Propio!vars, Vista
<1>1. ASSUME NEW p \in PIDS, RecibirPcb(p) PROVE UNCHANGED Propio!vars
  <2>1. /\ donde[p] = "kernel" /\ sem_socket = 1 /\ donde' = [donde EXCEPT ![p] = "cpu"]
        /\ cpu_registers' = pcbs[p].registros /\ programa' = programa /\ pcbs' = pcbs
    BY <1>1 DEF RecibirPcb
  <2>2. \A q \in PIDS : donde[q] # "cpu"
    BY <2>1 DEF Coherente, Alternan
  <2>3. donde'[p] = "cpu" /\ \A q \in PIDS \ {p} : donde'[q] = donde[q]
    BY <2>1 DEF Coherente, TypeContexto
  <2>4. \A q \in PIDS : Visible(q)' = Visible(q)
    BY <2>1, <2>2, <2>3 DEF Visible
  <2>5. Vista' = Vista
    BY <2>4 DEF Vista
  <2> QED
    BY <1>b, <2>1, <2>5
<1>2. CASE RecibirInterrupcion
  BY <1>2, <1>b DEF RecibirInterrupcion, Vista, Visible
<1>3. CASE Asignar
  <2>1. EnCiclo /\ Actual \in Instrucciones /\ Actual.nombre \in Asignan
    BY <1>3, ActualTipada DEF Asignar
  <2>2. PICK v \in Resultados(Actual, cpu_registers) :
          SeguirCiclo(EstablecerRegistro(cpu_registers, Actual.destino, v),
                      cambio_pc \/ Actual.destino = "PC")
    BY <1>3 DEF Asignar
  <2>3. v \in Int
    BY <1>0, <2>1, <2>2, ResultadoEntero
  <2>4. PICK w \in Propio!Valores(Actual, cpu_registers) :
          w \in Int /\ v % Tamano(Actual.destino) = w % Tamano(Actual.destino)
    BY <1>0, <2>1, <2>2, ResultadoEs
  <2>5. EstablecerRegistro(cpu_registers, Actual.destino, v) \in Contextos
    BY <1>0, <2>3, ContextoEstablecido
  <2>6. PICK e \in Contextos : e = EstablecerRegistro(cpu_registers, Actual.destino, v)
    BY <2>5
  <2>7. AumentarProgramCounter(e, cambio_pc \/ Actual.destino = "PC")
          = AumentarProgramCounter(e, Actual.destino = "PC")
    BY DEF AumentarProgramCounter, Coherente, Alternan
  <2>8. AumentarProgramCounter(e, Actual.destino = "PC")
          = Propio!Guardar(cpu_registers, Actual.destino, w)
    BY <1>0, <2>3, <2>4, <2>6, GuardarEs
  <2>9. Propio!Destino(Actual, cpu_registers) = Actual.destino
    BY <2>1, Mismos DEF Propio!Destino
  <2>10. /\ Vista' = [Vista EXCEPT ![pcb_execute] =
                        AumentarProgramCounter(e, cambio_pc \/ Actual.destino = "PC")]
         /\ programa' = programa
    BY <2>1, <2>2, <2>6, VistaAlSeguir
  <2>11. Actual.nombre # "EXIT"
    BY <2>1 DEF Asignan
  <2> QED
    BY <1>a, <2>1, <2>4, <2>7, <2>8, <2>9, <2>10, <2>11
<1>4. CASE Jnz
  <2>1. EnCiclo /\ Actual \in Instrucciones /\ Actual.nombre = "JNZ"
    BY <1>4, ActualTipada DEF Jnz
  <2>2. PICK salta \in BOOLEAN :
          /\ salta <=> ObtenerRegistro(cpu_registers, Actual.fuente) # 0
          /\ SeguirCiclo(IF salta THEN [cpu_registers EXCEPT !["PC"] = Actual.valor % UINT32]
                                  ELSE cpu_registers, cambio_pc \/ salta)
    BY <1>4 DEF Jnz
  <2>3. PICK w \in Int : w = Actual.valor
    BY <2>1 DEF Instrucciones
  <2>4. w \in Propio!Valores(Actual, cpu_registers)
    BY <2>1, <2>3 DEF Propio!Valores
  <2>5. ObtenerRegistro(cpu_registers, Actual.fuente) = Propio!Leer(cpu_registers, Actual.fuente)
    BY Mismos DEF ObtenerRegistro, Propio!Leer
  <2>6. Propio!Destino(Actual, cpu_registers) = IF salta THEN "PC" ELSE Ninguno
    BY <2>1, <2>2, <2>5, Mismos DEF Propio!Destino, Asignan
  <2>7. CASE salta
    <3>1. PICK j \in Contextos : j = [cpu_registers EXCEPT !["PC"] = w % UINT32]
      BY <1>0, ContextoConPC
    <3>2. SeguirCiclo(j, cambio_pc \/ salta)
      BY <2>2, <2>3, <2>7, <3>1
    <3>3. /\ Vista' = [Vista EXCEPT ![pcb_execute] = AumentarProgramCounter(j, cambio_pc \/ salta)]
          /\ programa' = programa
      BY <2>1, <3>2, VistaAlSeguir
    <3>4. AumentarProgramCounter(j, cambio_pc \/ salta) = AumentarProgramCounter(j, TRUE)
      BY <2>7 DEF AumentarProgramCounter
    <3>5. AumentarProgramCounter(j, TRUE) = Propio!Guardar(cpu_registers, "PC", w)
      BY <1>0, <3>1, GuardarSalto
    <3> QED
      BY <1>a, <2>1, <2>4, <2>6, <2>7, <3>3, <3>4, <3>5
  <2>8. CASE ~salta
    <3>1. SeguirCiclo(cpu_registers, cambio_pc \/ salta)
      BY <2>2, <2>8
    <3>2. /\ Vista' = [Vista EXCEPT ![pcb_execute] =
                         AumentarProgramCounter(cpu_registers, cambio_pc \/ salta)]
          /\ programa' = programa
      BY <1>0, <2>1, <3>1, VistaAlSeguir
    <3>3. AumentarProgramCounter(cpu_registers, cambio_pc \/ salta)
            = AumentarProgramCounter(cpu_registers, FALSE)
      BY <2>8 DEF AumentarProgramCounter, Coherente, Alternan
    <3>4. AumentarProgramCounter(cpu_registers, FALSE) = Propio!Guardar(cpu_registers, Ninguno, w)
      BY <1>0, GuardarNada
    <3> QED
      BY <1>a, <2>1, <2>4, <2>6, <2>8, <3>2, <3>3, <3>4
  <2> QED
    BY <2>7, <2>8
(* The instructions that write no register *)
<1>c. ASSUME EnCiclo, Actual.nombre \notin Asignan \cup {"JNZ", "EXIT"}, programa' = programa,
             Vista' = [Vista EXCEPT ![pcb_execute] =
                         AumentarProgramCounter(cpu_registers, cambio_pc)]
      PROVE  Propio!Next
  <2>1. PICK w \in Int : w = Actual.valor
    BY <1>c, ActualTipada DEF Instrucciones
  <2>2. w \in Propio!Valores(Actual, cpu_registers)
    BY <1>c, <2>1 DEF Propio!Valores, Asignan
  <2>3. Propio!Destino(Actual, cpu_registers) = Ninguno
    BY <1>c, Mismos DEF Propio!Destino
  <2>4. AumentarProgramCounter(cpu_registers, cambio_pc)
          = AumentarProgramCounter(cpu_registers, FALSE)
    BY DEF AumentarProgramCounter, Coherente, Alternan
  <2>5. AumentarProgramCounter(cpu_registers, FALSE) = Propio!Guardar(cpu_registers, Ninguno, w)
    BY <1>0, GuardarNada
  <2> QED
    BY <1>a, <1>c, <2>2, <2>3, <2>4, <2>5
<1>5. CASE SinRegistros
  <2>1. EnCiclo /\ Actual.nombre \notin Asignan \cup {"JNZ", "EXIT"}
    BY <1>5 DEF SinRegistros, Asignan
  <2>2. /\ programa' = programa
        /\ Vista' = [Vista EXCEPT ![pcb_execute] = AumentarProgramCounter(cpu_registers, cambio_pc)]
    BY <1>0, <1>5, <2>1, VistaAlSeguir DEF SinRegistros
  <2> QED
    BY <1>c, <2>1, <2>2
<1>6. CASE SolicitarAlKernel
  <2>1. EnCiclo /\ Actual.nombre \notin Asignan \cup {"JNZ", "EXIT"} /\ programa' = programa
    BY <1>6 DEF SolicitarAlKernel, AlKernel, Asignan
  <2>2. PICK d \in Contextos : d = AumentarProgramCounter(cpu_registers, cambio_pc)
    BY <1>0, ContextoAumentado
  <2>3. Devolver(d, d["PC"], "kernel")
    BY <1>6, <2>2 DEF SolicitarAlKernel
  <2>4. Vista' = [Vista EXCEPT ![pcb_execute] = d]
    BY <2>1, <2>3, VistaAlDevolver
  <2> QED
    BY <1>c, <2>1, <2>2, <2>4
(* The ends *)
<1>d. ASSUME EnCiclo, Actual.nombre \in {"EXIT", "RESIZE"}, programa' = programa,
             Vista' = [Vista EXCEPT ![pcb_execute] = Terminado]
      PROVE  Propio!Next
  <2>1. Propio!Terminar(pcb_execute)
    BY <1>d, VistaEnCpu, Mismos DEF Propio!Terminar, Vista
  <2> QED
    BY <2>1, <1>d, VistaEnCpu DEF Propio!Next
<1>7. CASE EnviarPcbFinalizado
  <2>1. /\ EnCiclo /\ Actual.nombre = "EXIT" /\ programa' = programa
        /\ donde' = [donde EXCEPT ![pcb_execute] = "fin"]
        /\ pcbs' = [pcbs EXCEPT ![pcb_execute] =
                      [program_counter |-> pcbs[pcb_execute].program_counter,
                       registros |-> cpu_registers]]
    BY <1>7 DEF EnviarPcbFinalizado, Devolver
  <2>2. \A q \in PIDS \ {pcb_execute} : pcbs'[q] = pcbs[q]
    BY <2>1 DEF Coherente, TypeContexto
  <2> QED
    BY <1>d, <2>1, <2>2, VistaAlTerminar
<1>8. CASE InformarKernelError
  BY <1>8, <1>d, VistaAlTerminar DEF InformarKernelError
<1>9. CASE UNCHANGED vars
  BY <1>9, <1>b DEF vars, Vista, Visible
<1> QED
  BY <1>1, <1>2, <1>3, <1>4, <1>5, <1>6, <1>7, <1>8, <1>9 DEF Next

(* The CPU gives each process a processor of its own: whatever the order in *)
(* which the kernel sends the PCBs and the interruptions arrive, each one   *)
(* goes through its program with its own registers, and only SUM on a       *)
(* 32-bit register may leave something else than the result                 *)
(* (CadaUnoLoSuyo).                                                         *)
THEOREM ContextoImplementa == Spec => CadaUnoLoSuyo
BY ImplementaInit, ImplementaPaso, CoherenteSiempre, PTL DEF Spec, CadaUnoLoSuyo, Propio!Spec

=============================================================================
