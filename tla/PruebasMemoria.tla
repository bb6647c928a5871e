--------------------------- MODULE PruebasMemoria ---------------------------
(***************************************************************************)
(* Proofs about Mmu: types, frames, pages, instructions and transfers.     *)
(*                                                                         *)
(* Bien is the base of them all: the types, with the bounds of the loops;  *)
(* Vidas, that the process in the CPU is not one the memory is told to     *)
(* end; and Espera, that while the thread of the CPU works on a RESIZE the *)
(* cycle waits for it. So the two threads never work on one process        *)
(* (HilosAparte). MarcosCuadran is inductive with it; PaginasPresentes     *)
(* follows from Llena and RespuestaPropia from Dialogo, inductive with it. *)
(* EnVueloPropio follows from Fiel, which goes with a frame from the table *)
(* to where it is used, and CadaByteEnSuLugar from Fiel and Bytes, which   *)
(* says what the pieces of a transfer are, laid end to end.                *)
(***************************************************************************)
EXTENDS Mmu, PruebasListas

Fases == {"ocioso", "fetch", "instruccion", "siguiente", "out_of_memory",
          "resize", "trozo", "marco", "dato"}
Estados == {"nuevo", "listo", "cpu", "io", "exit", "fin"}
ConNinguno == Marcos \cup {SinMarco}

Cpus == [fase : Fases, pid : Nat, op : {"nada", "mov", "copiar", "io"},
         dir : Nat, tam : Nat, destino : Nat, lectura : BOOLEAN, resta : Nat,
         pagina : Nat, desp : 0 .. PageSize - 1, trozos : Seq(Trozos)]
Entradas   == [pid : Pids, pagina : Nat, marco : ConNinguno]
PedidosIo  == [activo : BOOLEAN, lectura : BOOLEAN, trozos : Seq(Trozos)]
EnViaje    == [pid : Pids, trozo : Trozos]
HilosCpu   == [paso : {"espera", "crear", "ampliar", "achicar"},
               pid : Nat, meta : Nat, i : Nat]
HilosKernel == [paso : {"espera", "liberar"}, pid : Nat, i : Nat]

TiposCpu ==
  /\ cpu \in Cpus
  /\ tlb \in Seq(Entradas) /\ Len(tlb) <= CantidadEntradasTlb
  /\ achicados \subseteq Pids

TiposResto ==
  /\ estado \in [Pids -> Estados]
  /\ io \in [Pids -> PedidosIo]
  /\ enVuelo \subseteq EnViaje
  /\ hechas \in [Pids -> Nat]

TiposColas ==
  /\ colaCpu \in Seq(Pedidos) /\ colaKernel \in Seq(Pedidos)
  /\ respuesta.tipo = "marco" => respuesta.valor \in ConNinguno
  /\ imagenes \subseteq Pids
  /\ caida \in BOOLEAN

TiposTablas ==
  /\ tablas \in [Pids -> Seq(ConNinguno)]
  /\ existe \subseteq Pids
  /\ marcos \in [Marcos -> BOOLEAN]
  /\ hiloCpu \in HilosCpu /\ (hiloCpu.paso # "espera" => hiloCpu.pid \in Pids)
  /\ hiloKernel \in HilosKernel /\ (hiloKernel.paso # "espera" => hiloKernel.pid \in Pids)
  /\ hiloCpu.paso = "achicar" => /\ hiloCpu.meta < hiloCpu.i
                                 /\ hiloCpu.meta <= Len(tablas[hiloCpu.pid])
  /\ hiloKernel.paso = "liberar" => hiloKernel.i >= 1

(* The process in the CPU is not one that ends; whoever the memory is told to *)
(* end never comes back.                                                      *)
Vidas ==
  /\ cpu.fase # "ocioso" => cpu.pid \in Pids /\ estado[cpu.pid] = "cpu"
  /\ \A k \in DOMAIN colaKernel :
       colaKernel[k].tipo = "terminar" => estado[colaKernel[k].pid] = "fin"
  /\ hiloKernel.paso = "liberar" => estado[hiloKernel.pid] = "fin"

(* The cycle waits for the answer to a RESIZE, which is the last message it   *)
(* sent, the work of the memory, or the answer on its way back.               *)
Espera ==
  /\ \A k \in DOMAIN colaCpu : colaCpu[k].tipo = "resize" =>
       /\ k = Len(colaCpu)
       /\ cpu.fase = "resize" /\ colaCpu[k].pid = cpu.pid
       /\ respuesta.tipo # "resize" /\ hiloCpu.paso = "espera"
  /\ hiloCpu.paso # "espera" =>
       cpu.fase = "resize" /\ hiloCpu.pid = cpu.pid /\ respuesta.tipo # "resize"
  /\ respuesta.tipo = "resize" => cpu.fase = "resize"

Bien == TiposCpu /\ TiposResto /\ TiposColas /\ TiposTablas /\ Vidas /\ Espera

-----------------------------------------------------------------------------
LEMMA Supuestos ==
  /\ Pids \subseteq Nat /\ NumFrames \in Nat /\ PageSize \in Nat /\ PageSize > 0
  /\ SinMarco \notin Marcos /\ Marcos \subseteq Nat
  /\ 0 \in 0 .. PageSize - 1
  BY MemoriaAssumption DEF Marcos

LEMMA Sacar ==
  ASSUME NEW S, NEW s \in Seq(S), s # <<>>
  PROVE  /\ Head(s) \in S /\ Tail(s) \in Seq(S) /\ Head(s) = s[1]
         /\ Len(s) \in Nat /\ Len(s) > 0 /\ Len(Tail(s)) = Len(s) - 1
         /\ DOMAIN s = 1 .. Len(s) /\ DOMAIN Tail(s) = 1 .. Len(s) - 1
         /\ \A k \in DOMAIN Tail(s) : Tail(s)[k] = s[k + 1] /\ k + 1 \in DOMAIN s
  BY HeadTailProperties, LenProperties

LEMMA Agregar ==
  ASSUME NEW S, NEW s \in Seq(S), NEW e \in S
  PROVE  /\ Append(s, e) \in Seq(S)
         /\ Len(s) \in Nat /\ Len(Append(s, e)) = Len(s) + 1
         /\ DOMAIN s = 1 .. Len(s) /\ DOMAIN Append(s, e) = 1 .. Len(s) + 1
         /\ Append(s, e)[Len(s) + 1] = e
         /\ \A k \in DOMAIN s : Append(s, e)[k] = s[k]
  BY AppendProperties, LenProperties

LEMMA Division ==
  ASSUME NEW d \in Nat
  PROVE  /\ NumPagina(d) \in Nat
         /\ Desplazamiento(d) \in 0 .. PageSize - 1
         /\ PaginasPara(d) \in Nat
<1>1. PageSize \in Nat /\ PageSize > 0
  BY Supuestos
<1>2. d \div PageSize \in Nat /\ d % PageSize \in 0 .. PageSize - 1
  BY <1>1
<1>3. d + PageSize - 1 \in Nat
  BY <1>1
<1>4. (d + PageSize - 1) \div PageSize \in Nat
  BY <1>1, <1>3
<1>5. QED
  BY <1>2, <1>4 DEF NumPagina, Desplazamiento, PaginasPara

LEMMA MinDeDos ==
  ASSUME NEW a \in Nat, NEW b \in Nat
  PROVE  Min({a, b}) \in Nat /\ Min({a, b}) <= a /\ Min({a, b}) <= b
<1>1. \E x \in {a, b} : \A y \in {a, b} : x <= y
  OBVIOUS
<1>2. Min({a, b}) \in {a, b} /\ \A y \in {a, b} : Min({a, b}) <= y
  BY <1>1 DEF Min
<1>3. QED
  BY <1>2

LEMMA PedidoTipo ==
  ASSUME NEW t \in {"fetch", "pagina", "leer", "escribir", "resize", "crear", "terminar"},
         NEW p \in Pids
  PROVE  Pedido(t, p) \in Pedidos /\ Pedido(t, p).tipo = t /\ Pedido(t, p).pid = p
  BY DEF Pedido, Pedidos

LEMMA OciosoTipo == Ocioso \in Cpus /\ Ocioso.fase = "ocioso"
  BY Supuestos DEF Ocioso, Cpus, Fases

LEMMA BienInicial == Init => Bien
<1> SUFFICES ASSUME Init PROVE Bien
  OBVIOUS
<1> USE DEF Init, MemoriaInit
<1>1. Ocioso \in Cpus /\ Ocioso.fase = "ocioso"
  BY OciosoTipo
<1>2. TiposCpu /\ TiposResto
  BY <1>1, MmuAssumption DEF TiposCpu, TiposResto, SinPedido, PedidosIo, Estados
<1>3. TiposColas
  <2>1. <<>> \in Seq(Pedidos)
    OBVIOUS
  <2>2. QED
    BY <2>1 DEF TiposColas, SinRespuesta
<1>4. TiposTablas
  BY DEF TiposTablas, CpuLibre, KernelLibre, HilosCpu, HilosKernel
<1>5. Vidas /\ Espera
  BY <1>1 DEF Vidas, Espera, SinRespuesta, CpuLibre, KernelLibre
<1>6. QED
  BY <1>2, <1>3, <1>4, <1>5 DEF Bien

-----------------------------------------------------------------------------
(* The memory *)

LEMMA Consumir ==
  ASSUME Bien, NEW tipo, RecibeDeCpu(tipo)
  PROVE  /\ hiloCpu.paso = "espera"
         /\ Head(colaCpu) \in Pedidos /\ Head(colaCpu).tipo = tipo
         /\ colaCpu' \in Seq(Pedidos)
         /\ tipo = "resize" => /\ cpu.fase = "resize" /\ Head(colaCpu).pid = cpu.pid
                               /\ respuesta.tipo # "resize"
                               /\ \A k \in DOMAIN colaCpu' : colaCpu'[k].tipo # "resize"
         /\ \A k \in DOMAIN colaCpu' : colaCpu'[k].tipo = "resize" =>
              /\ k = Len(colaCpu')
              /\ cpu.fase = "resize" /\ colaCpu'[k].pid = cpu.pid
              /\ respuesta.tipo # "resize"
<1>1. /\ colaCpu \in Seq(Pedidos) /\ colaCpu # <<>> /\ colaCpu' = Tail(colaCpu)
      /\ hiloCpu.paso = "espera" /\ Head(colaCpu).tipo = tipo
  BY DEF Bien, TiposColas, RecibeDeCpu
<1>2. /\ Head(colaCpu) \in Pedidos /\ Tail(colaCpu) \in Seq(Pedidos) /\ Head(colaCpu) = colaCpu[1]
      /\ Len(colaCpu) \in Nat /\ Len(colaCpu) > 0 /\ Len(Tail(colaCpu)) = Len(colaCpu) - 1
      /\ DOMAIN colaCpu = 1 .. Len(colaCpu) /\ DOMAIN Tail(colaCpu) = 1 .. Len(colaCpu) - 1
      /\ \A k \in DOMAIN Tail(colaCpu) : Tail(colaCpu)[k] = colaCpu[k + 1] /\ k + 1 \in DOMAIN colaCpu
  BY <1>1, Sacar
<1>3. \A k \in DOMAIN colaCpu : colaCpu[k].tipo = "resize" =>
              /\ k = Len(colaCpu)
              /\ cpu.fase = "resize" /\ colaCpu[k].pid = cpu.pid
              /\ respuesta.tipo # "resize"
  BY DEF Bien, Espera
<1>4. \A k \in DOMAIN colaCpu' : colaCpu'[k].tipo = "resize" =>
              /\ k = Len(colaCpu')
              /\ cpu.fase = "resize" /\ colaCpu'[k].pid = cpu.pid
              /\ respuesta.tipo # "resize"
  BY <1>1, <1>2, <1>3
<1>5. tipo = "resize" => /\ cpu.fase = "resize" /\ Head(colaCpu).pid = cpu.pid
                         /\ respuesta.tipo # "resize"
                         /\ \A k \in DOMAIN colaCpu' : colaCpu'[k].tipo # "resize"
  BY <1>1, <1>2, <1>3
<1>6. QED
  BY <1>1, <1>2, <1>4, <1>5

(* What a step of the memory leaves alone.                                    *)
LEMMA MarcoMemoria ==
  ASSUME Bien, UNCHANGED <<cpuVars, restoVars>>
  PROVE  /\ TiposCpu' /\ TiposResto'
         /\ UNCHANGED <<tablas, hiloCpu, hiloKernel, existe, marcos>> => TiposTablas'
         /\ UNCHANGED <<colaKernel, hiloKernel>> => Vidas'
         /\ UNCHANGED <<colaCpu, respuesta, hiloCpu>> => Espera'
<1>1. UNCHANGED <<tlb, cpu, achicados, estado, io, enVuelo, hechas>>
  BY DEF cpuVars, restoVars
<1>2. TiposCpu' /\ TiposResto'
  BY <1>1 DEF Bien, TiposCpu, TiposResto
<1>3. QED
  BY <1>1, <1>2 DEF Bien, TiposTablas, Vidas, Espera

LEMMA BienMensajes ==
  ASSUME Bien, UNCHANGED <<cpuVars, restoVars>>,
         RetornarSiguienteInstruccion \/ MensajePagina \/ MensajeLeer \/ MensajeEscribir
  PROVE  Bien'
<1>1. PICK tipo \in {"fetch", "pagina", "leer", "escribir"} : RecibeDeCpu(tipo)
  BY DEF RetornarSiguienteInstruccion, MensajePagina, MensajeLeer, MensajeEscribir
<1>2. UNCHANGED <<tablas, existe, marcos, hiloCpu, hiloKernel, imagenes, colaKernel, cpu>>
  BY DEF RetornarSiguienteInstruccion, MensajePagina, MensajeLeer, MensajeEscribir, tablaVars, cpuVars
<1>3. TiposCpu' /\ TiposResto' /\ TiposTablas' /\ Vidas'
  BY <1>2, MarcoMemoria
<1>4. caida' \in BOOLEAN
  BY DEF RetornarSiguienteInstruccion, MensajePagina, MensajeLeer, MensajeEscribir, Bien, TiposColas
<1>5. \/ respuesta' = respuesta
      \/ respuesta'.tipo \in {"instruccion", "dato"}
      \/ respuesta'.tipo = "marco" /\ respuesta'.valor \in ConNinguno
  <2>1. CASE RetornarSiguienteInstruccion
    BY <2>1 DEF RetornarSiguienteInstruccion
  <2>2. CASE MensajePagina
    <3>1. Head(colaCpu) \in Pedidos
      BY <2>2, Consumir DEF MensajePagina
    <3>2. Head(colaCpu).pid \in Pids /\ tablas \in [Pids -> Seq(ConNinguno)]
      BY <3>1 DEF Pedidos, Bien, TiposTablas
    <3>3. \A n \in DOMAIN tablas[Head(colaCpu).pid] : tablas[Head(colaCpu).pid][n] \in ConNinguno
      BY <3>2, ElementOfSeq, LenProperties
    <3>4. QED
      BY <2>2, <3>3 DEF MensajePagina
  <2>3. CASE MensajeLeer
    BY <2>3 DEF MensajeLeer
  <2>4. CASE MensajeEscribir
    BY <2>4 DEF MensajeEscribir
  <2>5. QED
    BY <2>1, <2>2, <2>3, <2>4
<1>6. TiposColas'
  BY <1>1, <1>2, <1>4, <1>5, Consumir DEF Bien, TiposColas
<1>7. Espera'
  BY <1>1, <1>2, <1>5, Consumir DEF Bien, Espera
<1>8. QED
  BY <1>3, <1>6, <1>7 DEF Bien

LEMMA BienResize ==
  ASSUME Bien, UNCHANGED <<cpuVars, restoVars>>, Resize
  PROVE  Bien'
<1> DEFINE p == Head(colaCpu).pid
           meta == PaginasPara(Head(colaCpu).cant)
<1>1. RecibeDeCpu("resize") /\ UNCHANGED <<tablas, existe, marcos, hiloKernel, imagenes, colaKernel, caida, cpu>>
  BY DEF Resize, cpuVars
<1>2. /\ hiloCpu.paso = "espera" /\ colaCpu' \in Seq(Pedidos) /\ Head(colaCpu) \in Pedidos
      /\ cpu.fase = "resize" /\ p = cpu.pid
      /\ \A k \in DOMAIN colaCpu' : colaCpu'[k].tipo # "resize"
      /\ respuesta.tipo # "resize"
  BY <1>1, Consumir
<1>3. p \in Pids /\ meta \in Nat /\ p \in Nat
  BY <1>2, Division, Supuestos DEF Pedidos
<1>4. Len(tablas[p]) \in Nat
  BY <1>3, LenProperties DEF Bien, TiposTablas
<1>5. \/ hiloCpu' = hiloCpu /\ respuesta'.tipo = "resize"
      \/ \E paso \in {"crear", "ampliar"} :
           hiloCpu' = [paso |-> paso, pid |-> p, meta |-> meta, i |-> 0] /\ respuesta' = respuesta
      \/ /\ hiloCpu' = [paso |-> "achicar", pid |-> p, meta |-> meta, i |-> meta + 1]
         /\ meta < Len(tablas[p]) /\ respuesta' = respuesta
  BY DEF Resize, Contesta
<1>6. TiposTablas'
  BY <1>1, <1>3, <1>4, <1>5 DEF Bien, TiposTablas, HilosCpu
<1>7. TiposColas'
  BY <1>1, <1>2, <1>5 DEF Bien, TiposColas
<1>8. Espera'
  BY <1>1, <1>2, <1>5 DEF Bien, Espera
<1>9. TiposCpu' /\ TiposResto' /\ Vidas'
  BY <1>1, MarcoMemoria
<1>10. QED
  BY <1>6, <1>7, <1>8, <1>9 DEF Bien

LEMMA BienAgregar ==
  ASSUME Bien, UNCHANGED <<cpuVars, restoVars>>, MirarMarco \/ AgregarPagina \/ AchicarMarco
  PROVE  Bien'
<1>1. /\ UNCHANGED <<existe, hiloKernel, imagenes, colaCpu, respuesta, colaKernel, caida, cpu>>
      /\ hiloCpu.paso # "espera" /\ hiloCpu \in HilosCpu /\ hiloCpu.pid \in Pids
  BY DEF MirarMarco, AgregarPagina, AchicarMarco, Agrega, cpuVars, Bien, TiposTablas
<1>2. PICK i \in Nat : /\ hiloCpu' = [hiloCpu EXCEPT !.i = i]
                       /\ hiloCpu.paso = "achicar" => i >= hiloCpu.i
  <2>1. CASE MirarMarco \/ AchicarMarco
    <3>1. hiloCpu' = [hiloCpu EXCEPT !.i = hiloCpu.i + 1] /\ hiloCpu.i + 1 \in Nat
      BY <1>1, <2>1 DEF MirarMarco, AchicarMarco, HilosCpu
    <3>2. QED
      BY <1>1, <3>1 DEF HilosCpu
  <2>2. CASE AgregarPagina
    <3>1. hiloCpu' = [hiloCpu EXCEPT !.i = 0] /\ hiloCpu.paso # "achicar"
      BY <2>2 DEF AgregarPagina, Agrega
    <3>2. QED
      BY <3>1
  <2>3. QED
    BY <2>1, <2>2
<1>3. /\ hiloCpu' \in HilosCpu /\ hiloCpu'.paso = hiloCpu.paso /\ hiloCpu'.pid = hiloCpu.pid
      /\ hiloCpu'.meta = hiloCpu.meta /\ hiloCpu'.i = i
  BY <1>1, <1>2 DEF HilosCpu
<1>4. marcos' \in [Marcos -> BOOLEAN]
  BY DEF Bien, TiposTablas, MirarMarco, AgregarPagina, AchicarMarco
<1>5. /\ tablas' \in [Pids -> Seq(ConNinguno)]
      /\ hiloCpu.paso = "achicar" => tablas' = tablas
  <2>1. CASE MirarMarco \/ AchicarMarco
    BY <2>1 DEF Bien, TiposTablas, MirarMarco, AchicarMarco
  <2>2. CASE AgregarPagina
    <3> DEFINE e == IF hiloCpu.i \in Marcos THEN hiloCpu.i ELSE SinMarco
    <3>1. e \in ConNinguno /\ tablas' = [tablas EXCEPT ![hiloCpu.pid] = Append(@, e)]
      <4>1. e \in ConNinguno
        BY DEF ConNinguno
      <4>2. QED
        BY <2>2, <4>1 DEF AgregarPagina
    <3> HIDE DEF e
    <3>2. tablas[hiloCpu.pid] \in Seq(ConNinguno) /\ tablas \in [Pids -> Seq(ConNinguno)]
      BY <1>1 DEF Bien, TiposTablas
    <3>3. Append(tablas[hiloCpu.pid], e) \in Seq(ConNinguno)
      BY <3>1, <3>2, Agregar
    <3>4. QED
      BY <2>2, <3>1, <3>2, <3>3 DEF AgregarPagina, Agrega
  <2>3. QED
    BY <2>1, <2>2
<1>6. TiposTablas'
  BY <1>1, <1>2, <1>3, <1>4, <1>5 DEF Bien, TiposTablas, HilosCpu
<1>7. TiposColas'
  BY <1>1 DEF Bien, TiposColas
<1>8. Espera'
  BY <1>1, <1>3 DEF Bien, Espera
<1>9. TiposCpu' /\ TiposResto' /\ Vidas'
  BY <1>1, MarcoMemoria
<1>10. QED
  BY <1>6, <1>7, <1>8, <1>9 DEF Bien

LEMMA BienTerminarDePaginas ==
  ASSUME Bien, UNCHANGED <<cpuVars, restoVars>>, TerminarDeAgregar \/ TerminarDeAchicar
  PROVE  Bien'
<1>1. /\ UNCHANGED <<marcos, hiloKernel, imagenes, colaCpu, colaKernel, caida, cpu>>
      /\ hiloCpu.paso # "espera" /\ hiloCpu \in HilosCpu /\ hiloCpu.pid \in Pids
      /\ hiloCpu' = CpuLibre /\ respuesta'.tipo = "resize"
  BY DEF TerminarDeAgregar, TerminarDeAchicar, Contesta, cpuVars, Bien, TiposTablas
<1>2. CpuLibre \in HilosCpu /\ CpuLibre.paso = "espera"
  BY DEF CpuLibre, HilosCpu
<1>3. existe' \subseteq Pids
  BY <1>1 DEF TerminarDeAgregar, TerminarDeAchicar, Bien, TiposTablas
<1>4. tablas' \in [Pids -> Seq(ConNinguno)]
  <2>1. CASE TerminarDeAgregar
    BY <2>1 DEF TerminarDeAgregar, Bien, TiposTablas
  <2>2. CASE TerminarDeAchicar
    <3>1. /\ tablas \in [Pids -> Seq(ConNinguno)] /\ hiloCpu.meta \in Nat
          /\ hiloCpu.meta <= Len(tablas[hiloCpu.pid])
          /\ tablas' = [tablas EXCEPT ![hiloCpu.pid] = SubSeq(@, 1, hiloCpu.meta)]
      BY <1>1, <2>2 DEF TerminarDeAchicar, Bien, TiposTablas, HilosCpu
    <3>2. SubSeq(tablas[hiloCpu.pid], 1, hiloCpu.meta) \in Seq(ConNinguno)
      BY <1>1, <3>1, SubSeqProperties, LenProperties
    <3>3. QED
      BY <3>1, <3>2
  <2>3. QED
    BY <2>1, <2>2
<1>5. TiposTablas'
  <2>1. hiloKernel.paso = "liberar" => hiloKernel.i >= 1
    BY DEF Bien, TiposTablas
  <2>2. QED
    BY <1>1, <1>2, <1>3, <1>4, <2>1 DEF Bien, TiposTablas
<1>6. TiposColas'
  BY <1>1 DEF Bien, TiposColas
<1>7. Espera'
  BY <1>1, <1>2 DEF Bien, Espera
<1>8. TiposCpu' /\ TiposResto' /\ Vidas'
  BY <1>1, MarcoMemoria
<1>9. QED
  BY <1>5, <1>6, <1>7, <1>8 DEF Bien

LEMMA ConsumirKernel ==
  ASSUME Bien, NEW tipo, RecibeDeKernel(tipo)
  PROVE  /\ Head(colaKernel) \in Pedidos /\ colaKernel' \in Seq(Pedidos)
         /\ Head(colaKernel).pid \in Pids /\ Head(colaKernel).pid \in Nat
         /\ tipo = "terminar" => estado[Head(colaKernel).pid] = "fin"
         /\ \A k \in DOMAIN colaKernel' :
              colaKernel'[k].tipo = "terminar" => estado[colaKernel'[k].pid] = "fin"
<1>1. /\ colaKernel \in Seq(Pedidos) /\ colaKernel # <<>> /\ colaKernel' = Tail(colaKernel)
      /\ Head(colaKernel).tipo = tipo
  BY DEF Bien, TiposColas, RecibeDeKernel
<1>2. /\ Head(colaKernel) \in Pedidos /\ Tail(colaKernel) \in Seq(Pedidos) /\ Head(colaKernel) = colaKernel[1]
      /\ Len(colaKernel) \in Nat /\ Len(colaKernel) > 0
      /\ DOMAIN colaKernel = 1 .. Len(colaKernel)
      /\ \A k \in DOMAIN Tail(colaKernel) : Tail(colaKernel)[k] = colaKernel[k + 1] /\ k + 1 \in DOMAIN colaKernel
  BY <1>1, Sacar
<1>3. \A k \in DOMAIN colaKernel :
        colaKernel[k].tipo = "terminar" => estado[colaKernel[k].pid] = "fin"
  BY DEF Bien, Vidas
<1>4. Head(colaKernel).pid \in Pids /\ Head(colaKernel).pid \in Nat
  BY <1>2, Supuestos DEF Pedidos
<1>5. tipo = "terminar" => estado[Head(colaKernel).pid] = "fin"
  BY <1>1, <1>2, <1>3
<1>6. \A k \in DOMAIN colaKernel' :
        colaKernel'[k].tipo = "terminar" => estado[colaKernel'[k].pid] = "fin"
  BY <1>1, <1>2, <1>3
<1>7. QED
  BY <1>1, <1>2, <1>4, <1>5, <1>6

LEMMA BienKernel ==
  ASSUME Bien, UNCHANGED <<cpuVars, restoVars>>,
         CrearImagen \/ FinalizarProceso \/ LiberarMarco \/ TerminarDeLiberar
  PROVE  Bien'
<1>1. /\ UNCHANGED <<hiloCpu, colaCpu, respuesta, caida, cpu, estado>>
  BY DEF CrearImagen, FinalizarProceso, LiberarMarco, TerminarDeLiberar, tablaVars, cpuVars, restoVars
<1>2. TiposCpu' /\ TiposResto' /\ Espera'
  BY <1>1, MarcoMemoria
<1>3. CASE CrearImagen
  <2>1. RecibeDeKernel("crear") /\ UNCHANGED tablaVars /\ imagenes' = imagenes \cup {Head(colaKernel).pid}
    BY <1>3 DEF CrearImagen
  <2>2. TiposColas' /\ Vidas' /\ TiposTablas'
    BY <1>1, <2>1, ConsumirKernel DEF Bien, TiposColas, Vidas, TiposTablas, tablaVars
  <2>3. QED
    BY <1>2, <2>2 DEF Bien
<1>4. CASE FinalizarProceso
  <2> DEFINE p == Head(colaKernel).pid
             libera == [paso |-> "liberar", pid |-> p, i |-> 1]
  <2>1. /\ RecibeDeKernel("terminar") /\ UNCHANGED <<tablas, marcos, imagenes>>
        /\ existe' = existe \ {p}
        /\ hiloKernel' = libera \/ hiloKernel' = hiloKernel
    BY <1>4 DEF FinalizarProceso
  <2>2. p \in Pids /\ p \in Nat /\ estado[p] = "fin" /\ libera \in HilosKernel
    BY <2>1, ConsumirKernel DEF HilosKernel
  <2>3. TiposTablas'
    BY <1>1, <2>1, <2>2 DEF Bien, TiposTablas
  <2>4. TiposColas' /\ Vidas'
    BY <1>1, <2>1, <2>2, ConsumirKernel DEF Bien, TiposColas, Vidas
  <2>5. QED
    BY <1>2, <2>3, <2>4 DEF Bien
<1>5. CASE LiberarMarco
  <2>1. /\ UNCHANGED <<tablas, existe, imagenes, colaKernel>>
        /\ hiloKernel.paso = "liberar"
        /\ hiloKernel' = [hiloKernel EXCEPT !.i = hiloKernel.i + 1]
    BY <1>5 DEF LiberarMarco
  <2>2. hiloKernel \in HilosKernel /\ marcos' \in [Marcos -> BOOLEAN]
    BY <1>5 DEF LiberarMarco, Bien, TiposTablas
  <2>3. /\ hiloKernel' \in HilosKernel /\ hiloKernel'.paso = "liberar"
        /\ hiloKernel'.pid = hiloKernel.pid /\ hiloKernel'.i >= 1
    BY <2>1, <2>2 DEF HilosKernel
  <2>4. TiposTablas'
    BY <1>1, <2>1, <2>2, <2>3 DEF Bien, TiposTablas
  <2>5. TiposColas' /\ Vidas'
    BY <1>1, <2>1, <2>3 DEF Bien, TiposColas, Vidas
  <2>6. QED
    BY <1>2, <2>4, <2>5 DEF Bien
<1>6. CASE TerminarDeLiberar
  <2>1. /\ UNCHANGED <<existe, marcos, imagenes, colaKernel>> /\ hiloKernel' = KernelLibre
        /\ tablas' = [tablas EXCEPT ![hiloKernel.pid] = <<>>] /\ hiloKernel.paso = "liberar"
    BY <1>6 DEF TerminarDeLiberar
  <2>2. KernelLibre \in HilosKernel /\ KernelLibre.paso = "espera"
    BY DEF KernelLibre, HilosKernel
  <2>3. hiloCpu.paso # "espera" => hiloCpu.pid # hiloKernel.pid
    BY <2>1 DEF Bien, Vidas, Espera
  <2>4. tablas' \in [Pids -> Seq(ConNinguno)]
    BY <2>1 DEF Bien, TiposTablas
  <2>5. hiloCpu.paso # "espera" => tablas'[hiloCpu.pid] = tablas[hiloCpu.pid]
    BY <2>1, <2>3 DEF Bien, TiposTablas
  <2>6. TiposTablas'
    BY <1>1, <2>1, <2>2, <2>4, <2>5 DEF Bien, TiposTablas
  <2>7. TiposColas' /\ Vidas'
    BY <1>1, <2>1, <2>2 DEF Bien, TiposColas, Vidas
  <2>8. QED
    BY <1>2, <2>6, <2>7 DEF Bien
<1>7. QED
  BY <1>3, <1>4, <1>5, <1>6

LEMMA BienMemoria ==
  ASSUME Bien, UNCHANGED <<cpuVars, restoVars>>, MemoriaNext
  PROVE  Bien'
  BY BienMensajes, BienResize, BienAgregar, BienTerminarDePaginas, BienKernel DEF MemoriaNext

-----------------------------------------------------------------------------
(* The CPU, the kernel and the interfaces *)

(* A step that leaves the tables of the memory alone.  The CPU sends at most  *)
(* one message, and leaves the wait of a RESIZE only with its answer.         *)
LEMMA PasoCpu ==
  ASSUME Bien, UNCHANGED <<tablaVars, imagenes, caida>>,
         TiposCpu', TiposResto',
         cpu' = cpu \/ cpu.fase # "resize" \/ (respuesta.tipo = "resize" /\ respuesta' = SinRespuesta),
         cpu'.fase # "ocioso" => cpu'.pid \in Pids /\ estado'[cpu'.pid] = "cpu",
         \A p \in Pids : estado[p] = "fin" => estado'[p] = "fin",
         \/ colaCpu' = colaCpu
         \/ \E m \in Pedidos : /\ colaCpu' = Append(colaCpu, m) /\ cpu.fase # "resize"
                               /\ m.tipo = "resize" => cpu'.fase = "resize" /\ m.pid = cpu'.pid,
         \/ colaKernel' = colaKernel
         \/ \E m \in Pedidos : /\ colaKernel' = Append(colaKernel, m)
                               /\ m.tipo = "terminar" => estado'[m.pid] = "fin",
         respuesta' = respuesta \/ respuesta' = SinRespuesta
  PROVE  Bien'
<1>1. UNCHANGED <<tablas, existe, marcos, hiloCpu, hiloKernel>>
  BY DEF tablaVars
<1>2. TiposTablas'
  BY <1>1 DEF Bien, TiposTablas
<1>3. colaCpu \in Seq(Pedidos) /\ colaKernel \in Seq(Pedidos)
  BY DEF Bien, TiposColas
<1>4. colaCpu' \in Seq(Pedidos) /\ colaKernel' \in Seq(Pedidos)
  <2>1. \A m \in Pedidos : Append(colaCpu, m) \in Seq(Pedidos)
    BY <1>3, Agregar
  <2>2. \A m \in Pedidos : Append(colaKernel, m) \in Seq(Pedidos)
    BY <1>3, Agregar
  <2>3. QED
    BY <1>3, <2>1, <2>2
<1>5. SinRespuesta.tipo \notin {"marco", "resize"}
  BY DEF SinRespuesta
<1>6. TiposColas'
  BY <1>4, <1>5 DEF Bien, TiposColas
<1>7. Vidas'
  <2>1. \A k \in DOMAIN colaKernel' :
          colaKernel'[k].tipo = "terminar" => estado'[colaKernel'[k].pid] = "fin"
    <3>1. \A k \in DOMAIN colaKernel :
            colaKernel[k].tipo = "terminar" => estado'[colaKernel[k].pid] = "fin"
      <4>1. \A k \in DOMAIN colaKernel : colaKernel[k] \in Pedidos
        BY <1>3, ElementOfSeq, LenProperties
      <4>2. \A k \in DOMAIN colaKernel : colaKernel[k].pid \in Pids
        BY <4>1 DEF Pedidos
      <4>3. QED
        BY <4>2 DEF Bien, Vidas
    <3>2. CASE colaKernel' = colaKernel
      BY <3>1, <3>2
    <3>3. ASSUME NEW m \in Pedidos, colaKernel' = Append(colaKernel, m),
                 m.tipo = "terminar" => estado'[m.pid] = "fin"
          PROVE  \A k \in DOMAIN colaKernel' :
                   colaKernel'[k].tipo = "terminar" => estado'[colaKernel'[k].pid] = "fin"
      <4>1. /\ Len(colaKernel) \in Nat
            /\ DOMAIN colaKernel = 1 .. Len(colaKernel) /\ DOMAIN colaKernel' = 1 .. Len(colaKernel) + 1
            /\ colaKernel'[Len(colaKernel) + 1] = m
            /\ \A k \in DOMAIN colaKernel : colaKernel'[k] = colaKernel[k]
        BY <1>3, <3>3, Agregar
      <4> SUFFICES ASSUME NEW k \in DOMAIN colaKernel', colaKernel'[k].tipo = "terminar"
                   PROVE  estado'[colaKernel'[k].pid] = "fin"
        OBVIOUS
      <4>2. k \in DOMAIN colaKernel \/ k = Len(colaKernel) + 1
        BY <4>1
      <4>3. CASE k \in DOMAIN colaKernel
        BY <3>1, <4>1, <4>3
      <4>4. CASE k = Len(colaKernel) + 1
        BY <3>3, <4>1, <4>4
      <4>5. QED
        BY <4>2, <4>3, <4>4
    <3>4. QED
      BY <3>2, <3>3
  <2>2. hiloKernel.paso = "liberar" => hiloKernel.pid \in Pids /\ estado[hiloKernel.pid] = "fin"
    BY DEF Bien, Vidas, TiposTablas
  <2>3. QED
    BY <1>1, <2>1, <2>2 DEF Vidas
<1>8. Espera'
  <2>1. CASE cpu' = cpu /\ cpu.fase = "resize"
    <3>1. colaCpu' = colaCpu
      BY <2>1
    <3>2. QED
      BY <1>1, <1>5, <2>1, <3>1 DEF Bien, Espera
  <2>2. CASE cpu.fase # "resize"
    <3>1. /\ \A k \in DOMAIN colaCpu : colaCpu[k].tipo # "resize"
          /\ hiloCpu.paso = "espera" /\ respuesta.tipo # "resize"
      BY <2>2 DEF Bien, Espera
    <3>2. CASE colaCpu' = colaCpu
      BY <1>1, <1>5, <3>1, <3>2 DEF Espera
    <3>3. ASSUME NEW m \in Pedidos, colaCpu' = Append(colaCpu, m),
                 m.tipo = "resize" => cpu'.fase = "resize" /\ m.pid = cpu'.pid
          PROVE  Espera'
      <4>1. /\ Len(colaCpu) \in Nat /\ Len(colaCpu') = Len(colaCpu) + 1
            /\ DOMAIN colaCpu = 1 .. Len(colaCpu) /\ DOMAIN colaCpu' = 1 .. Len(colaCpu) + 1
            /\ colaCpu'[Len(colaCpu) + 1] = m
            /\ \A k \in DOMAIN colaCpu : colaCpu'[k] = colaCpu[k]
        BY <1>3, <3>3, Agregar
      <4>2. ASSUME NEW k \in DOMAIN colaCpu', colaCpu'[k].tipo = "resize"
            PROVE  k = Len(colaCpu') /\ colaCpu'[k] = m
        <5>1. k \in DOMAIN colaCpu \/ k = Len(colaCpu) + 1
          BY <4>1
        <5>2. k \notin DOMAIN colaCpu
          BY <3>1, <4>1, <4>2
        <5>3. QED
          BY <4>1, <5>1, <5>2
      <4>3. respuesta'.tipo # "resize" /\ hiloCpu'.paso = "espera"
        BY <1>1, <1>5, <3>1
      <4>4. QED
        BY <3>3, <4>2, <4>3 DEF Espera
    <3>4. QED
      BY <3>2, <3>3
  <2>3. CASE cpu.fase = "resize" /\ respuesta.tipo = "resize" /\ respuesta' = SinRespuesta
    <3>1. /\ \A k \in DOMAIN colaCpu : colaCpu[k].tipo # "resize"
          /\ hiloCpu.paso = "espera" /\ colaCpu' = colaCpu
      BY <2>3 DEF Bien, Espera
    <3>2. QED
      BY <1>1, <1>5, <2>3, <3>1 DEF Espera
  <2>4. QED
    BY <2>1, <2>2, <2>3
<1>9. QED
  BY <1>2, <1>6, <1>7, <1>8 DEF Bien

(* The process in the CPU.                                                    *)
LEMMA EnLaCpu ==
  ASSUME Bien, cpu.fase # "ocioso"
  PROVE  cpu.pid \in Pids /\ cpu.pid \in Nat /\ estado[cpu.pid] = "cpu" /\ cpu \in Cpus
  BY Supuestos DEF Bien, Vidas, TiposCpu

LEMMA BienDelKernel ==
  ASSUME Bien, NEW p \in Pids, CrearProceso(p) \/ Finalizar(p) \/ EndProcess(p)
  PROVE  Bien'
<1>1. /\ UNCHANGED <<tablaVars, imagenes, caida, colaCpu, respuesta, cpu, tlb, achicados, io, enVuelo, hechas>>
  BY DEF CrearProceso, Finalizar, EndProcess, cpuVars, memoriaVars
<1>2. TiposCpu'
  BY <1>1 DEF Bien, TiposCpu
<1>3. PICK e \in {"listo", "exit", "fin"} : estado' = [estado EXCEPT ![p] = e]
  BY DEF CrearProceso, Finalizar, EndProcess
<1>4. TiposResto' /\ estado'[p] = e /\ estado \in [Pids -> Estados]
  BY <1>1, <1>3 DEF Bien, TiposResto, Estados
<1>5. estado[p] \notin {"cpu", "fin"}
  BY DEF CrearProceso, Finalizar, EndProcess
<1>6. cpu'.fase # "ocioso" => cpu'.pid \in Pids /\ estado'[cpu'.pid] = "cpu"
  BY <1>1, <1>3, <1>4, <1>5 DEF Bien, Vidas
<1>7. \A q \in Pids : estado[q] = "fin" => estado'[q] = "fin"
  BY <1>3, <1>4, <1>5
<1>8. \/ colaKernel' = colaKernel
      \/ \E m \in Pedidos : /\ colaKernel' = Append(colaKernel, m)
                            /\ m.tipo = "terminar" => estado'[m.pid] = "fin"
  <2>1. CASE CrearProceso(p)
    <3>1. colaKernel' = Append(colaKernel, Pedido("crear", p))
      BY <2>1 DEF CrearProceso
    <3>2. QED
      BY <3>1, PedidoTipo
  <2>2. CASE Finalizar(p)
    BY <2>2 DEF Finalizar, memoriaVars
  <2>3. CASE EndProcess(p)
    <3>1. colaKernel' = Append(colaKernel, Pedido("terminar", p)) /\ estado' = [estado EXCEPT ![p] = "fin"]
      BY <2>3 DEF EndProcess
    <3>2. estado'[p] = "fin"
      BY <1>4, <3>1
    <3>3. QED
      BY <3>1, <3>2, PedidoTipo
  <2>4. QED
    BY <2>1, <2>2, <2>3
<1>9. QED
  BY <1>1, <1>2, <1>4, <1>6, <1>7, <1>8, PasoCpu

LEMMA BienRecibirPcb ==
  ASSUME Bien, NEW p \in Pids, RecibirPcb(p)
  PROVE  Bien'
<1> DEFINE c == [Ocioso EXCEPT !.fase = "fetch", !.pid = p]
<1>1. /\ UNCHANGED <<tablaVars, imagenes, caida, respuesta, colaKernel, tlb, achicados, io, enVuelo, hechas>>
      /\ cpu.fase = "ocioso" /\ estado[p] = "listo" /\ estado' = [estado EXCEPT ![p] = "cpu"]
      /\ cpu' = c /\ colaCpu' = Append(colaCpu, Pedido("fetch", p))
  BY DEF RecibirPcb, Pide
<1>2. c \in Cpus /\ c.fase = "fetch" /\ c.pid = p
  BY Supuestos, OciosoTipo DEF Cpus, Fases
<1>3. TiposCpu'
  BY <1>1, <1>2 DEF Bien, TiposCpu
<1>4. TiposResto' /\ estado'[p] = "cpu"
  BY <1>1 DEF Bien, TiposResto, Estados
<1>5. \A q \in Pids : estado[q] = "fin" => estado'[q] = "fin"
  BY <1>1 DEF Bien, TiposResto
<1>6. Pedido("fetch", p) \in Pedidos /\ Pedido("fetch", p).tipo = "fetch"
  BY PedidoTipo
<1>7. QED
  BY <1>1, <1>2, <1>3, <1>4, <1>5, <1>6, PasoCpu

(* A step of the cycle that does not touch what the kernel has.               *)
LEMMA PasoCiclo ==
  ASSUME Bien, UNCHANGED <<tablaVars, imagenes, caida, colaKernel, estado, io, enVuelo>>,
         hechas' \in [Pids -> Nat], achicados' \subseteq Pids,
         tlb' \in Seq(Entradas), Len(tlb') <= CantidadEntradasTlb,
         NEW c \in Cpus, cpu' = c, c.pid = cpu.pid, cpu.fase # "ocioso",
         cpu.fase # "resize" \/ (respuesta.tipo = "resize" /\ respuesta' = SinRespuesta),
         \/ colaCpu' = colaCpu
         \/ \E m \in Pedidos : /\ colaCpu' = Append(colaCpu, m) /\ cpu.fase # "resize"
                               /\ m.tipo = "resize" => c.fase = "resize" /\ m.pid = c.pid,
         respuesta' = respuesta \/ respuesta' = SinRespuesta
  PROVE  Bien'
<1>1. TiposCpu' /\ TiposResto'
  BY DEF Bien, TiposCpu, TiposResto
<1>2. cpu'.fase # "ocioso" => cpu'.pid \in Pids /\ estado'[cpu'.pid] = "cpu"
  BY EnLaCpu
<1>3. QED
  BY <1>1, <1>2, PasoCpu

LEMMA BienRecibe ==
  ASSUME Bien, RecvInstruction \/ RecibirResize \/ RecibirDato
  PROVE  Bien'
<1>1. /\ UNCHANGED <<tablaVars, imagenes, caida, colaKernel, colaCpu, estado, io, enVuelo, tlb, achicados>>
      /\ cpu.fase \in {"fetch", "resize", "dato"} /\ respuesta' = SinRespuesta
      /\ cpu.fase = "resize" => respuesta.tipo = "resize"
  BY DEF RecvInstruction, RecibirResize, RecibirDato, Recibe, restoVars
<1>2. cpu \in Cpus /\ cpu.pid \in Pids
  BY <1>1, EnLaCpu
<1>3. PICK f \in {"instruccion", "siguiente", "out_of_memory", "trozo"} : cpu' = [cpu EXCEPT !.fase = f]
  BY DEF RecvInstruction, RecibirResize, RecibirDato
<1> DEFINE c == [cpu EXCEPT !.fase = f]
<1>4. c \in Cpus /\ c.pid = cpu.pid
  BY <1>2, <1>3 DEF Cpus, Fases
<1>5. hechas' \in [Pids -> Nat]
  BY <1>2 DEF RecvInstruction, RecibirResize, RecibirDato, restoVars, Bien, TiposResto
<1>6. tlb \in Seq(Entradas) /\ Len(tlb) <= CantidadEntradasTlb /\ achicados \subseteq Pids
  BY DEF Bien, TiposCpu
<1>7. cpu' = c
  BY <1>3
<1> HIDE DEF c
<1>8. QED
  BY <1>1, <1>4, <1>5, <1>6, <1>7, PasoCiclo

LEMMA BienSolicitar ==
  ASSUME Bien, SolicitarInstruccion
  PROVE  Bien'
<1> DEFINE c == [Ocioso EXCEPT !.fase = "fetch", !.pid = cpu.pid]
           m == Pedido("fetch", cpu.pid)
<1>1. /\ UNCHANGED <<tablaVars, imagenes, caida, colaKernel, respuesta, estado, io, enVuelo, tlb, achicados, hechas>>
      /\ cpu.fase = "siguiente" /\ cpu' = c /\ colaCpu' = Append(colaCpu, m)
  BY DEF SolicitarInstruccion, restoVars, Pide
<1>2. cpu.pid \in Pids /\ cpu.pid \in Nat
  BY <1>1, EnLaCpu
<1>3. c \in Cpus /\ c.fase = "fetch" /\ c.pid = cpu.pid
  BY <1>2, OciosoTipo DEF Cpus, Fases
<1>4. m \in Pedidos /\ m.tipo = "fetch"
  BY <1>2, PedidoTipo
<1>5. /\ tlb \in Seq(Entradas) /\ Len(tlb) <= CantidadEntradasTlb /\ achicados \subseteq Pids
      /\ hechas \in [Pids -> Nat]
  BY DEF Bien, TiposCpu, TiposResto
<1> HIDE DEF c, m
<1>6. QED
  BY <1>1, <1>3, <1>4, <1>5, PasoCiclo

LEMMA BienEjecutarResize ==
  ASSUME Bien, NEW t \in TamanosResize, EjecutarResize(t)
  PROVE  Bien'
<1> DEFINE c == [cpu EXCEPT !.fase = "resize", !.tam = t]
           m == [Pedido("resize", cpu.pid) EXCEPT !.cant = t]
<1>1. /\ UNCHANGED <<tablaVars, imagenes, caida, colaKernel, respuesta, estado, io, enVuelo, tlb, hechas>>
      /\ cpu.fase = "instruccion" /\ cpu' = c /\ colaCpu' = Append(colaCpu, m)
      /\ achicados' = achicados \cup {cpu.pid} \/ achicados' = achicados
  BY DEF EjecutarResize, Ejecuta, restoVars, Pide
<1>2. cpu.pid \in Pids /\ cpu \in Cpus /\ t \in Nat
  BY <1>1, EnLaCpu, MmuAssumption
<1>3. c \in Cpus /\ c.fase = "resize" /\ c.pid = cpu.pid
  BY <1>2 DEF Cpus, Fases
<1>4. m \in Pedidos /\ m.tipo = "resize" /\ m.pid = cpu.pid
  BY <1>2 DEF Pedido, Pedidos
<1>5. /\ tlb \in Seq(Entradas) /\ Len(tlb) <= CantidadEntradasTlb /\ achicados' \subseteq Pids
      /\ hechas \in [Pids -> Nat]
  BY <1>1, <1>2 DEF Bien, TiposCpu, TiposResto
<1> HIDE DEF c, m
<1>6. QED
  BY <1>1, <1>3, <1>4, <1>5, PasoCiclo

LEMMA BienPedirMarco ==
  ASSUME Bien, PedirMarco
  PROVE  Bien'
<1> DEFINE c == [cpu EXCEPT !.fase = "marco"]
           m == [Pedido("pagina", cpu.pid) EXCEPT !.pagina = cpu.pagina]
<1>1. /\ UNCHANGED <<tablaVars, imagenes, caida, colaKernel, respuesta, estado, io, enVuelo, tlb, achicados, hechas>>
      /\ cpu.fase = "trozo" /\ cpu' = c /\ colaCpu' = Append(colaCpu, m)
  BY DEF PedirMarco, restoVars, Pide
<1>2. cpu.pid \in Pids /\ cpu \in Cpus
  BY <1>1, EnLaCpu
<1>3. c \in Cpus /\ c.pid = cpu.pid
  BY <1>2 DEF Cpus, Fases
<1>4. m \in Pedidos /\ m.tipo = "pagina"
  BY <1>2 DEF Pedido, Pedidos, Cpus
<1>5. /\ tlb \in Seq(Entradas) /\ Len(tlb) <= CantidadEntradasTlb /\ achicados \subseteq Pids
      /\ hechas \in [Pids -> Nat]
  BY DEF Bien, TiposCpu, TiposResto
<1> HIDE DEF c, m
<1>6. QED
  BY <1>1, <1>3, <1>4, <1>5, PasoCiclo

(* One piece of a transfer.                                                   *)
LEMMA TransferirTipo ==
  ASSUME Bien, cpu.fase \in {"trozo", "marco"}, NEW f \in ConNinguno, Transferir(f)
  PROVE  /\ cpu' \in Cpus /\ cpu'.pid = cpu.pid
         /\ \/ colaCpu' = colaCpu
            \/ \E m \in Pedidos : colaCpu' = Append(colaCpu, m) /\ m.tipo \in {"leer", "escribir"}
<1>1. cpu.pid \in Pids /\ cpu \in Cpus
  BY EnLaCpu
<1>2. cpu.resta \in Nat /\ cpu.desp \in 0 .. PageSize - 1 /\ cpu.desp \in Nat /\ cpu.pagina \in Nat
      /\ cpu.trozos \in Seq(Trozos)
  BY <1>1, Supuestos DEF Cpus
<1>3. Disponibles \in Nat
  BY <1>2, Supuestos DEF Disponibles
<1> DEFINE cant  == Min({cpu.resta, Disponibles})
           trozo == [marco |-> f, desp |-> cpu.desp, cant |-> cant]
           tipo  == IF cpu.lectura THEN "leer" ELSE "escribir"
           m     == [Pedido(tipo, cpu.pid) EXCEPT !.marco = f, !.desp = cpu.desp, !.cant = cant]
           fase  == IF cpu.op # "io" /\ cpu.lectura THEN "dato" ELSE "trozo"
           trozos == Append(cpu.trozos, trozo)
           resta  == cpu.resta - cant
           pagina == cpu.pagina + 1
           c == [cpu EXCEPT !.fase = fase, !.trozos = trozos, !.resta = resta,
                            !.pagina = pagina, !.desp = 0]
<1>4. cant \in Nat /\ cant <= cpu.resta
  BY <1>2, <1>3, MinDeDos
<1>5. cpu' = c /\ (colaCpu' = colaCpu \/ colaCpu' = Append(colaCpu, m))
  BY <1>1 DEF Transferir, Pide, Cpus
<1>6. tipo \in {"leer", "escribir"} /\ fase \in Fases
  BY DEF Fases
<1> HIDE DEF cant, tipo, fase
<1>7. trozo \in Trozos
  BY <1>2, <1>4 DEF Trozos, ConNinguno
<1> HIDE DEF trozo
<1>8. trozos \in Seq(Trozos) /\ resta \in Nat /\ pagina \in Nat /\ 0 \in 0 .. PageSize - 1
  BY <1>2, <1>4, <1>7, Agregar, Supuestos
<1> HIDE DEF trozos, resta, pagina
<1>9. c \in Cpus /\ c.pid = cpu.pid
  BY <1>1, <1>6, <1>8 DEF Cpus
<1>10. m \in Pedidos /\ m.tipo = tipo
  BY <1>1, <1>2, <1>4, <1>6 DEF Pedido, Pedidos, ConNinguno
<1> HIDE DEF c, m
<1>11. QED
  BY <1>5, <1>6, <1>9, <1>10

LEMMA BienTransferir ==
  ASSUME Bien, UNCHANGED <<tablaVars, imagenes, caida, colaKernel, estado, io, enVuelo, hechas, achicados>>,
         cpu.fase \in {"trozo", "marco"}, NEW f \in ConNinguno, Transferir(f),
         tlb' \in Seq(Entradas), Len(tlb') <= CantidadEntradasTlb,
         respuesta' = respuesta \/ respuesta' = SinRespuesta
  PROVE  Bien'
<1>1. /\ cpu' \in Cpus /\ cpu'.pid = cpu.pid
      /\ \/ colaCpu' = colaCpu
         \/ \E m \in Pedidos : colaCpu' = Append(colaCpu, m) /\ m.tipo \in {"leer", "escribir"}
  BY TransferirTipo
<1>2. hechas \in [Pids -> Nat] /\ achicados \subseteq Pids
  BY DEF Bien, TiposCpu, TiposResto
<1>3. PICK c \in Cpus : cpu' = c
  BY <1>1
<1>4. \/ colaCpu' = colaCpu
      \/ \E m \in Pedidos : /\ colaCpu' = Append(colaCpu, m) /\ cpu.fase # "resize"
                            /\ m.tipo = "resize" => c.fase = "resize" /\ m.pid = c.pid
  BY <1>1
<1>5. QED
  BY <1>1, <1>2, <1>3, <1>4, PasoCiclo

LEMMA RemoveAtTipo ==
  ASSUME NEW S, NEW s \in Seq(S), NEW k \in DOMAIN s
  PROVE  RemoveAt(s, k) \in Seq(S) /\ Len(RemoveAt(s, k)) = Len(s) - 1
<1>1. Len(s) \in Nat /\ k \in 1 .. Len(s)
  BY LenProperties
<1> DEFINE a == SubSeq(s, 1, k - 1)
           b == SubSeq(s, k + 1, Len(s))
<1>2. a \in Seq(S) /\ Len(a) = k - 1
  BY <1>1, SubSeqProperties
<1>3. b \in Seq(S) /\ Len(b) = Len(s) - k
  BY <1>1, SubSeqProperties
<1>4. RemoveAt(s, k) = a \o b
  BY DEF RemoveAt
<1> HIDE DEF a, b
<1>5. QED
  BY <1>1, <1>2, <1>3, <1>4, ConcatProperties

LEMMA BienObtenerMarco ==
  ASSUME Bien, ObtenerMarco
  PROVE  Bien'
<1>1. /\ cpu.fase = "trozo"
      /\ UNCHANGED <<tablaVars, imagenes, caida, colaKernel, estado, io, enVuelo, hechas, achicados>>
      /\ respuesta' = respuesta
  BY DEF ObtenerMarco, restoVars
<1>2. PICK k \in Aciertos :
        /\ Transferir(tlb[k].marco)
        /\ tlb' = IF AlgoritmoTlb = "LRU" THEN Append(RemoveAt(tlb, k), tlb[k]) ELSE tlb
  BY DEF ObtenerMarco
<1>3. k \in DOMAIN tlb /\ tlb \in Seq(Entradas) /\ Len(tlb) <= CantidadEntradasTlb
  BY DEF Aciertos, Bien, TiposCpu
<1>4. tlb[k] \in Entradas
  BY <1>3, ElementOfSeq, LenProperties
<1>5. /\ RemoveAt(tlb, k) \in Seq(Entradas) /\ Len(RemoveAt(tlb, k)) = Len(tlb) - 1
      /\ Len(tlb) \in Nat
  BY <1>3, RemoveAtTipo, LenProperties
<1>6. /\ Append(RemoveAt(tlb, k), tlb[k]) \in Seq(Entradas)
      /\ Len(Append(RemoveAt(tlb, k), tlb[k])) = Len(tlb)
  BY <1>4, <1>5, Agregar
<1>7. tlb' \in Seq(Entradas) /\ Len(tlb') <= CantidadEntradasTlb /\ tlb[k].marco \in ConNinguno
  BY <1>2, <1>3, <1>4, <1>6 DEF Entradas
<1>8. QED
  BY <1>1, <1>2, <1>7, BienTransferir

LEMMA BienRecibirMarco ==
  ASSUME Bien, RecibirMarco
  PROVE  Bien'
<1> DEFINE e == [pid |-> cpu.pid, pagina |-> cpu.pagina, marco |-> respuesta.valor]
<1>1. /\ cpu.fase = "marco" /\ respuesta.tipo = "marco" /\ respuesta' = SinRespuesta
      /\ UNCHANGED <<tablaVars, imagenes, caida, colaKernel, estado, io, enVuelo, hechas, achicados>>
      /\ Transferir(respuesta.valor) /\ tlb' = Reemplazar(e)
  BY DEF RecibirMarco, Recibe, restoVars
<1>2. respuesta.valor \in ConNinguno /\ cpu.pid \in Pids /\ cpu \in Cpus
  BY <1>1, EnLaCpu DEF Bien, TiposColas
<1>3. e \in Entradas
  BY <1>2 DEF Entradas, Cpus
<1>4. tlb \in Seq(Entradas) /\ Len(tlb) <= CantidadEntradasTlb /\ Len(tlb) \in Nat
      /\ CantidadEntradasTlb \in Nat
  BY LenProperties, MmuAssumption DEF Bien, TiposCpu
<1> HIDE DEF e
<1>5. tlb' \in Seq(Entradas) /\ Len(tlb') <= CantidadEntradasTlb
  <2>1. CASE CantidadEntradasTlb = 0
    BY <1>1, <1>4, <2>1 DEF Reemplazar
  <2>2. CASE CantidadEntradasTlb # 0 /\ Len(tlb) < CantidadEntradasTlb
    <3>1. tlb' = Append(tlb, e)
      BY <1>1, <2>2 DEF Reemplazar
    <3>2. QED
      BY <1>3, <1>4, <2>2, <3>1, Agregar
  <2>3. CASE CantidadEntradasTlb # 0 /\ ~(Len(tlb) < CantidadEntradasTlb)
    <3>1. tlb' = Append(Tail(tlb), e)
      BY <1>1, <2>3 DEF Reemplazar
    <3>2. tlb # <<>>
      BY <1>4, <2>3
    <3>3. Tail(tlb) \in Seq(Entradas) /\ Len(Tail(tlb)) = Len(tlb) - 1
      BY <1>4, <3>2, Sacar
    <3>4. QED
      BY <1>3, <1>4, <3>1, <3>3, Agregar
  <2>4. QED
    BY <2>1, <2>2, <2>3
<1>6. QED
  BY <1>1, <1>2, <1>5, BienTransferir

(* The process leaves the CPU.                                                *)
LEMMA BienDejarCpu ==
  ASSUME Bien, ManejarInterrupcion \/ EnviarPcbFinalizado \/ SolicitarIo
  PROVE  Bien'
<1>1. /\ UNCHANGED <<tablaVars, imagenes, caida, colaKernel, colaCpu, respuesta, tlb, achicados, enVuelo, hechas>>
      /\ cpu' = Ocioso /\ cpu.fase \notin {"ocioso", "resize"}
  BY DEF ManejarInterrupcion, EnviarPcbFinalizado, SolicitarIo, Transferido, memoriaVars
<1>2. cpu.pid \in Pids /\ estado[cpu.pid] = "cpu" /\ cpu \in Cpus
  BY <1>1, EnLaCpu
<1>3. PICK e \in {"listo", "exit", "io"} : estado' = [estado EXCEPT ![cpu.pid] = e]
  BY DEF ManejarInterrupcion, EnviarPcbFinalizado, SolicitarIo
<1>4. io' \in [Pids -> PedidosIo]
  <2> DEFINE n == [activo |-> TRUE, lectura |-> cpu.lectura, trozos |-> cpu.trozos]
  <2>1. n \in PedidosIo
    BY <1>2 DEF Cpus, PedidosIo
  <2>2. io' = io \/ io' = [io EXCEPT ![cpu.pid] = n]
    BY DEF ManejarInterrupcion, EnviarPcbFinalizado, SolicitarIo
  <2> HIDE DEF n
  <2>3. QED
    BY <1>2, <2>1, <2>2 DEF Bien, TiposResto
<1>5. TiposCpu' /\ TiposResto'
  BY <1>1, <1>2, <1>3, <1>4, OciosoTipo DEF Bien, TiposCpu, TiposResto, Estados
<1>6. \A p \in Pids : estado[p] = "fin" => estado'[p] = "fin"
  BY <1>2, <1>3 DEF Bien, TiposResto
<1>7. QED
  BY <1>1, <1>5, <1>6, OciosoTipo, PasoCpu

LEMMA BienEmpezar ==
  ASSUME Bien, NEW op \in {"mov", "copiar", "io"}, NEW dir \in Direcciones, NEW tam \in Tamanos,
         NEW lectura \in BOOLEAN, NEW destino \in Nat, Empezar(op, dir, tam, lectura, destino)
  PROVE  Bien'
<1> DEFINE pag == NumPagina(dir)
           des == Desplazamiento(dir)
           c == [cpu EXCEPT !.fase = "trozo", !.op = op, !.dir = dir,
                            !.tam = tam, !.lectura = lectura, !.destino = destino,
                            !.resta = tam, !.pagina = pag, !.desp = des]
<1>1. /\ UNCHANGED <<tablaVars, imagenes, caida, colaKernel, colaCpu, respuesta, tlb, achicados,
                     estado, io, enVuelo, hechas>>
      /\ cpu.fase = "instruccion" /\ cpu' = c
  BY DEF Empezar, Ejecuta, memoriaVars, restoVars
<1>2. cpu.pid \in Pids /\ cpu \in Cpus /\ dir \in Nat /\ tam \in Nat
  BY <1>1, EnLaCpu, MmuAssumption
<1>3. pag \in Nat /\ des \in 0 .. PageSize - 1
  BY <1>2, Division
<1> HIDE DEF pag, des
<1>4. c \in Cpus /\ c.pid = cpu.pid
  BY <1>2, <1>3 DEF Cpus, Fases
<1>5. /\ tlb \in Seq(Entradas) /\ Len(tlb) <= CantidadEntradasTlb /\ achicados \subseteq Pids
      /\ hechas \in [Pids -> Nat]
  BY DEF Bien, TiposCpu, TiposResto
<1> HIDE DEF c
<1>6. QED
  BY <1>1, <1>4, <1>5, PasoCiclo

LEMMA BienTransferido ==
  ASSUME Bien, TerminarMov \/ CopiarADestino
  PROVE  Bien'
<1> DEFINE pag == NumPagina(cpu.destino)
           des == Desplazamiento(cpu.destino)
           c1  == [Ocioso EXCEPT !.fase = "siguiente", !.pid = cpu.pid]
           c2  == [cpu EXCEPT !.dir = cpu.destino, !.lectura = FALSE, !.resta = cpu.tam,
                              !.pagina = pag, !.desp = des, !.trozos = <<>>]
<1>1. /\ UNCHANGED <<tablaVars, imagenes, caida, colaKernel, colaCpu, respuesta, tlb, achicados,
                     estado, io, enVuelo, hechas>>
      /\ cpu.fase = "trozo" /\ (cpu' = c1 \/ cpu' = c2)
  BY DEF TerminarMov, CopiarADestino, Transferido, memoriaVars, restoVars
<1>2. cpu.pid \in Pids /\ cpu.pid \in Nat /\ cpu \in Cpus
  BY <1>1, EnLaCpu
<1>3. pag \in Nat /\ des \in 0 .. PageSize - 1 /\ cpu.destino \in Nat /\ cpu.tam \in Nat
  BY <1>2, Division DEF Cpus
<1> HIDE DEF pag, des
<1>4. c1 \in Cpus /\ c1.pid = cpu.pid
  BY <1>2, OciosoTipo DEF Cpus, Fases
<1>5. c2 \in Cpus /\ c2.pid = cpu.pid
  <2>1. <<>> \in Seq(Trozos)
    OBVIOUS
  <2>2. QED
    BY <1>2, <1>3, <2>1 DEF Cpus
<1>6. /\ tlb \in Seq(Entradas) /\ Len(tlb) <= CantidadEntradasTlb /\ achicados \subseteq Pids
      /\ hechas \in [Pids -> Nat]
  BY DEF Bien, TiposCpu, TiposResto
<1> HIDE DEF c1, c2
<1>7. QED
  BY <1>1, <1>4, <1>5, <1>6, PasoCiclo

(* The interfaces change no more of the kernel than a process that waits.     *)
LEMMA PasoIo ==
  ASSUME Bien, UNCHANGED <<memoriaVars, cpuVars, hechas>>,
         io' \in [Pids -> PedidosIo], enVuelo' \subseteq EnViaje,
         NEW p \in Pids, estado' = estado \/ Responder(p)
  PROVE  Bien'
<1>1. /\ UNCHANGED <<tablaVars, imagenes, caida, colaKernel, colaCpu, respuesta, tlb, achicados, cpu, hechas>>
  BY DEF memoriaVars, cpuVars
<1>2. estado \in [Pids -> Estados]
  BY DEF Bien, TiposResto
<1>3. /\ estado' \in [Pids -> Estados]
      /\ \A q \in Pids : estado[q] \in {"cpu", "fin"} => estado'[q] = estado[q]
  BY <1>2 DEF Responder, Estados
<1>4. TiposCpu' /\ TiposResto'
  BY <1>1, <1>3 DEF Bien, TiposCpu, TiposResto
<1>5. cpu'.fase # "ocioso" => cpu'.pid \in Pids /\ estado'[cpu'.pid] = "cpu"
  BY <1>1, <1>3, EnLaCpu
<1>6. QED
  BY <1>1, <1>3, <1>4, <1>5, PasoCpu

LEMMA BienIo ==
  ASSUME Bien, NEW p \in Pids,
         EscribirMemoria(p) \/ LeerMemoria(p) \/ ResponderStdout(p) \/ EscribirDeIo
  PROVE  Bien'
<1>1. UNCHANGED <<memoriaVars, cpuVars, hechas>>
  BY DEF EscribirMemoria, LeerMemoria, ResponderStdout, EscribirDeIo
<1>2. estado' = estado \/ Responder(p)
  BY DEF EscribirMemoria, LeerMemoria, ResponderStdout, EscribirDeIo
<1>3. io \in [Pids -> PedidosIo] /\ io[p] \in PedidosIo /\ io[p].trozos \in Seq(Trozos)
      /\ enVuelo \subseteq EnViaje
  BY DEF Bien, TiposResto, PedidosIo
<1>4. SinPedido \in PedidosIo
  BY DEF SinPedido, PedidosIo
<1>5. io' \in [Pids -> PedidosIo]
  <2>1. CASE EscribirMemoria(p) \/ ResponderStdout(p)
    BY <1>3, <1>4, <2>1 DEF EscribirMemoria, ResponderStdout
  <2>2. CASE LeerMemoria(p)
    <3>1. Tail(io[p].trozos) \in Seq(Trozos)
      BY <1>3, <2>2, Sacar DEF LeerMemoria
    <3> DEFINE t == Tail(io[p].trozos)
               n == [io[p] EXCEPT !.trozos = t]
    <3> HIDE DEF t
    <3>2. n \in PedidosIo
      BY <1>3, <3>1 DEF PedidosIo, t
    <3>3. io' = [io EXCEPT ![p] = n]
      BY <1>3, <2>2 DEF LeerMemoria, t
    <3> HIDE DEF n
    <3>4. QED
      BY <1>3, <3>2, <3>3
  <2>3. CASE EscribirDeIo
    BY <1>3, <2>3 DEF EscribirDeIo
  <2>4. QED
    BY <2>1, <2>2, <2>3
<1>6. enVuelo' \subseteq EnViaje
  <2>1. CASE EscribirMemoria(p)
    <3>1. ToSet(io[p].trozos) \subseteq Trozos
      BY <1>3, ElementOfSeq, LenProperties DEF ToSet
    <3>2. QED
      BY <1>3, <2>1, <3>1 DEF EscribirMemoria, EnViaje
  <2>2. CASE LeerMemoria(p) \/ ResponderStdout(p)
    BY <1>3, <2>2 DEF LeerMemoria, ResponderStdout
  <2>3. CASE EscribirDeIo
    BY <1>3, <2>3 DEF EscribirDeIo
  <2>4. QED
    BY <2>1, <2>2, <2>3
<1>7. QED
  BY <1>1, <1>2, <1>5, <1>6, PasoIo

(* The transfers start in one way.                                            *)
LEMMA AlgunaEmpieza ==
  ASSUME NEW dir \in Direcciones, NEW tam \in Tamanos,
         \/ MovIn(dir, tam) \/ MovOut(dir, tam)
         \/ \E destino \in Destinos : CopyString(dir, destino, tam)
         \/ \E lectura \in BOOLEAN : ExecIoFrames(dir, tam, lectura)
  PROVE  \E op \in {"mov", "copiar", "io"}, lectura \in BOOLEAN, destino \in Nat :
           Empezar(op, dir, tam, lectura, destino)
<1>1. CASE MovIn(dir, tam)
  BY <1>1 DEF MovIn
<1>2. CASE MovOut(dir, tam)
  BY <1>2 DEF MovOut
<1>3. CASE \E destino \in Destinos : CopyString(dir, destino, tam)
  BY <1>3, MmuAssumption DEF CopyString
<1>4. CASE \E lectura \in BOOLEAN : ExecIoFrames(dir, tam, lectura)
  BY <1>4 DEF ExecIoFrames
<1>5. QED
  BY <1>1, <1>2, <1>3, <1>4

LEMMA BienSiguiente ==
  ASSUME Bien, Next
  PROVE  Bien'
<1>1. CASE MemoriaNext /\ UNCHANGED <<cpuVars, restoVars>>
  BY <1>1, BienMemoria
<1>2. CASE \E p \in Pids : CrearProceso(p) \/ Finalizar(p) \/ EndProcess(p)
                            \/ RecibirPcb(p) \/ EscribirMemoria(p)
                            \/ LeerMemoria(p) \/ ResponderStdout(p)
  BY <1>2, BienDelKernel, BienRecibirPcb, BienIo
<1>3. CASE EscribirDeIo
  <2>1. PICK e \in enVuelo : TRUE
    BY <1>3 DEF EscribirDeIo
  <2>2. e.pid \in Pids
    BY <2>1 DEF Bien, TiposResto, EnViaje
  <2>3. QED
    BY <1>3, <2>2, BienIo
<1>4. CASE RecvInstruction \/ SolicitarInstruccion \/ ManejarInterrupcion \/ EnviarPcbFinalizado
  BY <1>4, BienRecibe, BienSolicitar, BienDejarCpu
<1>5. CASE (\E t \in TamanosResize : EjecutarResize(t)) \/ RecibirResize
  BY <1>5, BienEjecutarResize, BienRecibe
<1>6. ASSUME NEW dir \in Direcciones, NEW tam \in Tamanos,
             \/ MovIn(dir, tam) \/ MovOut(dir, tam)
             \/ \E destino \in Destinos : CopyString(dir, destino, tam)
             \/ \E lectura \in BOOLEAN : ExecIoFrames(dir, tam, lectura)
      PROVE  Bien'
  <2>1. PICK op \in {"mov", "copiar", "io"}, lectura \in BOOLEAN, destino \in Nat :
          Empezar(op, dir, tam, lectura, destino)
    BY <1>6, AlgunaEmpieza
  <2>2. QED
    BY <2>1, BienEmpezar
<1>7. CASE ObtenerMarco \/ PedirMarco \/ RecibirMarco \/ RecibirDato
  BY <1>7, BienObtenerMarco, BienPedirMarco, BienRecibirMarco, BienRecibe
<1>8. CASE TerminarMov \/ CopiarADestino \/ SolicitarIo
  BY <1>8, BienTransferido, BienDejarCpu
<1>9. QED
  BY <1>1, <1>2, <1>3, <1>4, <1>5, <1>6, <1>7, <1>8 DEF Next

(* Every step but those of the memory leaves frames, tables, threads and their *)
(* history alone.                                                              *)
LEMMA LoDemas ==
  ASSUME Next
  PROVE  \/ MemoriaNext /\ UNCHANGED <<cpuVars, restoVars>>
         \/ UNCHANGED <<tablas, marcos, hiloCpu, hiloKernel, existe, soltados, mudos>>
<1> USE DEF tablaVars, memoriaVars
<1>1. ASSUME NEW p \in Pids,
             CrearProceso(p) \/ Finalizar(p) \/ EndProcess(p) \/ RecibirPcb(p)
               \/ EscribirMemoria(p) \/ LeerMemoria(p) \/ ResponderStdout(p)
      PROVE  UNCHANGED <<tablaVars, mudos>>
  BY <1>1 DEF CrearProceso, Finalizar, EndProcess, RecibirPcb, EscribirMemoria, LeerMemoria,
              ResponderStdout
<1>2. CASE EscribirDeIo \/ RecvInstruction \/ SolicitarInstruccion \/ ManejarInterrupcion
             \/ EnviarPcbFinalizado \/ RecibirResize
  BY <1>2 DEF EscribirDeIo, RecvInstruction, SolicitarInstruccion, ManejarInterrupcion,
              EnviarPcbFinalizado, RecibirResize
<1>3. CASE \E t \in TamanosResize : EjecutarResize(t)
  BY <1>3 DEF EjecutarResize
<1>4. CASE \E dir \in Direcciones, tam \in Tamanos :
             \/ MovIn(dir, tam) \/ MovOut(dir, tam)
             \/ \E destino \in Destinos : CopyString(dir, destino, tam)
             \/ \E lectura \in BOOLEAN : ExecIoFrames(dir, tam, lectura)
  <2>1. PICK dir, tam : \/ MovIn(dir, tam) \/ MovOut(dir, tam)
                        \/ \E destino \in Destinos : CopyString(dir, destino, tam)
                        \/ \E lectura \in BOOLEAN : ExecIoFrames(dir, tam, lectura)
    BY <1>4
  <2>2. CASE MovIn(dir, tam)
    BY <2>2 DEF MovIn, Empezar
  <2>3. CASE MovOut(dir, tam)
    BY <2>3 DEF MovOut, Empezar
  <2>4. CASE \E destino \in Destinos : CopyString(dir, destino, tam)
    BY <2>4 DEF CopyString, Empezar
  <2>5. CASE \E lectura \in BOOLEAN : ExecIoFrames(dir, tam, lectura)
    BY <2>5 DEF ExecIoFrames, Empezar
  <2>6. QED
    BY <2>1, <2>2, <2>3, <2>4, <2>5
<1>5. CASE ObtenerMarco \/ PedirMarco \/ RecibirMarco \/ RecibirDato
             \/ TerminarMov \/ CopiarADestino \/ SolicitarIo
  BY <1>5 DEF ObtenerMarco, PedirMarco, RecibirMarco, RecibirDato, TerminarMov, CopiarADestino,
              SolicitarIo
<1>6. QED
  BY <1>1, <1>2, <1>3, <1>4, <1>5 DEF Next

(* The history: which frames a process gave back, and who asked for what its  *)
(* program does not have.                                                     *)
Historia ==
  /\ soltados \in [Pids -> SUBSET ConNinguno]
  /\ mudos \subseteq Pids

Suelta(p0, n0) ==
  /\ n0 \in DOMAIN tablas[p0]
  /\ soltados' = [soltados EXCEPT ![p0] = @ \cup {tablas[p0][n0]}]

LEMMA HistoriaDeMemoria ==
  ASSUME Bien, MemoriaNext
  PROVE  /\ soltados' = soltados \/ \E p0 \in Pids : \E n0 : Suelta(p0, n0)
         /\ mudos' = mudos \/ \E p0 \in Pids : mudos' = mudos \cup {p0}
<1>1. CASE RetornarSiguienteInstruccion
  <2>1. Head(colaCpu) \in Pedidos
    BY <1>1, Consumir DEF RetornarSiguienteInstruccion
  <2>2. Head(colaCpu).pid \in Pids
    BY <2>1 DEF Pedidos
  <2>3. QED
    BY <1>1, <2>2 DEF RetornarSiguienteInstruccion, tablaVars
<1>2. CASE AchicarMarco
  <2>1. hiloCpu.pid \in Pids
    BY <1>2 DEF AchicarMarco, Bien, TiposTablas
  <2>2. Suelta(hiloCpu.pid, hiloCpu.i) /\ UNCHANGED mudos
    BY <1>2 DEF AchicarMarco, Suelta
  <2>3. QED
    BY <2>1, <2>2
<1>3. CASE LiberarMarco
  <2>1. hiloKernel.pid \in Pids
    BY <1>3 DEF LiberarMarco, Bien, TiposTablas
  <2>2. Suelta(hiloKernel.pid, hiloKernel.i) /\ UNCHANGED mudos
    BY <1>3 DEF LiberarMarco, Suelta
  <2>3. QED
    BY <2>1, <2>2
<1>4. CASE MensajePagina \/ MensajeLeer \/ MensajeEscribir \/ Resize \/ CrearImagen \/ FinalizarProceso
  BY <1>4 DEF MensajePagina, MensajeLeer, MensajeEscribir, Resize, CrearImagen, FinalizarProceso,
              tablaVars
<1>5. CASE MirarMarco \/ AgregarPagina \/ TerminarDeAgregar \/ TerminarDeAchicar \/ TerminarDeLiberar
  BY <1>5 DEF MirarMarco, AgregarPagina, TerminarDeAgregar, TerminarDeAchicar, TerminarDeLiberar
<1>6. QED
  BY <1>1, <1>2, <1>3, <1>4, <1>5 DEF MemoriaNext

LEMMA SueltaTipo ==
  ASSUME Bien, soltados \in [Pids -> SUBSET ConNinguno], NEW p0 \in Pids, NEW n0, Suelta(p0, n0)
  PROVE  /\ soltados' \in [Pids -> SUBSET ConNinguno]
         /\ tablas[p0][n0] \in soltados'[p0]
         /\ \A p \in Pids : soltados[p] \subseteq soltados'[p] /\ (p # p0 => soltados'[p] = soltados[p])
<1>1. tablas[p0] \in Seq(ConNinguno)
  BY DEF Bien, TiposTablas
<1>2. tablas[p0][n0] \in ConNinguno
  BY <1>1, ElementOfSeq, LenProperties DEF Suelta
<1>3. QED
  BY <1>2 DEF Suelta

LEMMA HistoriaSiguiente ==
  ASSUME Bien, Historia, Next
  PROVE  Historia'
<1>1. /\ soltados' = soltados \/ \E p0 \in Pids : \E n0 : Suelta(p0, n0)
      /\ mudos' = mudos \/ \E p0 \in Pids : mudos' = mudos \cup {p0}
  BY HistoriaDeMemoria, LoDemas
<1>2. soltados' \in [Pids -> SUBSET ConNinguno]
  BY <1>1, SueltaTipo DEF Historia
<1>3. mudos' \subseteq Pids
  BY <1>1 DEF Historia
<1>4. QED
  BY <1>2, <1>3 DEF Historia

LEMMA BienTipos == Bien /\ Historia => TypeMemoria
<1> SUFFICES ASSUME Bien, Historia PROVE TypeMemoria
  OBVIOUS
<1>1. TypeTablas
  BY DEF Bien, Historia, TiposTablas, TiposColas, TypeTablas, ConNinguno, HilosCpu, HilosKernel
<1>2. tlb \in Seq([pid : Pids, pagina : Nat, marco : Marcos \cup {SinMarco}])
  BY DEF Bien, TiposCpu, Entradas, ConNinguno
<1>3. cpu.trozos \in Seq(Trozos) /\ \A p \in Pids : io[p].trozos \in Seq(Trozos)
  BY DEF Bien, TiposCpu, TiposResto, Cpus, PedidosIo
<1>4. cpu.fase # "ocioso" => cpu.pid \in Pids
  BY EnLaCpu
<1>5. QED
  BY <1>1, <1>2, <1>3, <1>4 DEF TypeMemoria, Bien, TiposCpu, TiposResto, Estados, EnViaje

LEMMA BienSinCambios ==
  ASSUME Bien, UNCHANGED vars
  PROVE  Bien'
  BY DEF Bien, TiposCpu, TiposResto, TiposColas, TiposTablas, Vidas, Espera, vars, memoriaVars,
         tablaVars, cpuVars, restoVars

(* Every variable of the memory and of the CPU keeps its type, whatever the   *)
(* addresses, the sizes and the number of frames: in particular no request is *)
(* for a process that does not exist, and the TLB never outgrows its size.    *)
THEOREM TiposDeMemoria == Spec => []TypeMemoria
<1>1. ASSUME Bien, Historia, [Next]_vars PROVE (Bien /\ Historia)'
  <2>1. CASE Next
    BY <1>1, <2>1, BienSiguiente, HistoriaSiguiente
  <2>2. CASE UNCHANGED vars
    BY <1>1, <2>2, BienSinCambios DEF Historia, vars, memoriaVars, tablaVars
  <2>3. QED
    BY <1>1, <2>1, <2>2
<1>2. Init => Historia
  BY DEF Init, MemoriaInit, Historia
<1>3. QED
  BY <1>1, <1>2, BienInicial, BienTipos, PTL DEF Spec

-----------------------------------------------------------------------------
(***************************************************************************)
(* Frames and pages.                                                       *)
(***************************************************************************)

(* The freed pages of a process leave its table.                              *)
SinPaginas(p0) ==
  /\ UNCHANGED marcos
  /\ \A q \in Pids \ {p0} : tablas'[q] = tablas[q]
  /\ \A n \in DOMAIN tablas'[p0] : n \in DOMAIN tablas[p0] /\ tablas'[p0][n] = tablas[p0][n]
  /\ \A n \in DOMAIN tablas[p0] : n \in DOMAIN tablas'[p0] \/ Liberada(p0, n)
  /\ \A q \in Pids : \A n \in DOMAIN tablas'[q] : Liberada(q, n)' <=> Liberada(q, n)

LEMMA CuadranSinPaginas ==
  ASSUME MarcosCuadran, NEW p0 \in Pids, SinPaginas(p0)
  PROVE  MarcosCuadran'
<1> USE DEF SinPaginas
<1>1. \A q \in Pids : \A n \in DOMAIN tablas'[q] :
        /\ n \in DOMAIN tablas[q] /\ tablas'[q][n] = tablas[q][n]
        /\ Tiene(q, n)' <=> Tiene(q, n)
  BY DEF Tiene
<1>2. \A q \in Pids : \A n \in DOMAIN tablas[q] : Tiene(q, n) => n \in DOMAIN tablas'[q]
  BY DEF Tiene
<1>3. \A p, q \in Pids :
         \A n \in DOMAIN tablas'[p], m \in DOMAIN tablas'[q] :
           Tiene(p, n)' /\ Tiene(q, m)' /\ tablas'[p][n] = tablas'[q][m]
             => p = q /\ n = m
  BY <1>1 DEF MarcosCuadran
<1>4. \A f \in Marcos :
         marcos'[f] <=> \E p \in Pids : \E n \in DOMAIN tablas'[p] :
                         Tiene(p, n)' /\ tablas'[p][n] = f
  BY <1>1, <1>2 DEF MarcosCuadran
<1>5. QED
  BY <1>3, <1>4 DEF MarcosCuadran

(* The bit of a page is cleared and the page counts as freed.                 *)
PaginaLibre(p0, n0) ==
  /\ UNCHANGED tablas
  /\ \/ hiloCpu.paso = "achicar" /\ hiloCpu.pid = p0
     \/ hiloKernel.paso = "liberar" /\ hiloKernel.pid = p0
  /\ n0 \in DOMAIN tablas[p0] /\ ~Liberada(p0, n0)
  /\ marcos' = IF tablas[p0][n0] = SinMarco THEN marcos
               ELSE [marcos EXCEPT ![tablas[p0][n0]] = FALSE]
  /\ \A q \in Pids : \A n \in DOMAIN tablas[q] :
       Liberada(q, n)' <=> Liberada(q, n) \/ (q = p0 /\ n = n0)

LEMMA CuadranLiberar ==
  ASSUME MarcosCuadran, marcos \in [Marcos -> BOOLEAN], tablas \in [Pids -> Seq(ConNinguno)],
         NEW p0 \in Pids, NEW n0, PaginaLibre(p0, n0)
  PROVE  MarcosCuadran'
<1> USE DEF PaginaLibre
<1>1. \A q \in Pids : \A n \in DOMAIN tablas[q] :
        Tiene(q, n)' <=> Tiene(q, n) /\ ~(q = p0 /\ n = n0)
  BY DEF Tiene
<1>2. \A p, q \in Pids :
         \A n \in DOMAIN tablas'[p], m \in DOMAIN tablas'[q] :
           Tiene(p, n)' /\ Tiene(q, m)' /\ tablas'[p][n] = tablas'[q][m]
             => p = q /\ n = m
  BY <1>1 DEF MarcosCuadran
<1>3. ASSUME NEW f \in Marcos
      PROVE  marcos'[f] <=> \E p \in Pids : \E n \in DOMAIN tablas'[p] :
                              Tiene(p, n)' /\ tablas'[p][n] = f
  <2>1. marcos[f] <=> \E p \in Pids : \E n \in DOMAIN tablas[p] :
                        Tiene(p, n) /\ tablas[p][n] = f
    BY DEF MarcosCuadran
  <2>2. CASE f = tablas[p0][n0]
    <3>1. ~marcos'[f] /\ Tiene(p0, n0)
      BY <2>2, Supuestos DEF Tiene
    <3>2. \A p \in Pids : \A n \in DOMAIN tablas[p] :
            Tiene(p, n) /\ tablas[p][n] = f => p = p0 /\ n = n0
      BY <2>2, <3>1 DEF MarcosCuadran
    <3>3. QED
      BY <1>1, <3>1, <3>2
  <2>3. CASE f # tablas[p0][n0]
    <3>1. marcos'[f] = marcos[f]
      BY <2>3
    <3>2. QED
      BY <1>1, <2>1, <2>3, <3>1
  <2>4. QED
    BY <2>2, <2>3
<1>4. QED
  BY <1>2, <1>3 DEF MarcosCuadran

(* While a thread works on a process the other one does not.                  *)
LEMMA HilosAparte ==
  ASSUME Bien
  PROVE  hiloCpu.paso # "espera" /\ hiloKernel.paso = "liberar" => hiloCpu.pid # hiloKernel.pid
  BY DEF Bien, Vidas, Espera

(* A new page has no frame, or one that was free.                             *)
PaginaNueva(p0, n0, e) ==
  /\ n0 \in DOMAIN tablas'[p0] /\ n0 \notin DOMAIN tablas[p0] /\ tablas'[p0][n0] = e
  /\ e # SinMarco => ~marcos[e]
  /\ marcos' = IF e = SinMarco THEN marcos ELSE [marcos EXCEPT ![e] = TRUE]
  /\ \A q \in Pids : \A n \in DOMAIN tablas[q] :
       /\ n \in DOMAIN tablas'[q] /\ tablas'[q][n] = tablas[q][n]
       /\ Liberada(q, n)' <=> Liberada(q, n)
  /\ \A q \in Pids : \A n \in DOMAIN tablas'[q] :
       (q = p0 /\ n = n0) \/ n \in DOMAIN tablas[q]
  /\ ~Liberada(p0, n0)'

LEMMA CuadranPaginaNueva ==
  ASSUME MarcosCuadran, marcos \in [Marcos -> BOOLEAN],
         NEW p0 \in Pids, NEW n0, NEW e \in ConNinguno, PaginaNueva(p0, n0, e)
  PROVE  MarcosCuadran'
<1> USE DEF PaginaNueva
<1>1. Tiene(p0, n0)' <=> e # SinMarco
  BY DEF Tiene
<1>2. \A q \in Pids : \A n \in DOMAIN tablas[q] :
        /\ tablas'[q][n] = tablas[q][n]
        /\ Tiene(q, n)' <=> Tiene(q, n)
        /\ ~(q = p0 /\ n = n0)
  BY DEF Tiene
<1>3. \A q \in Pids : \A n \in DOMAIN tablas[q] :
        e # SinMarco /\ Tiene(q, n) => tablas[q][n] # e
  BY DEF MarcosCuadran, ConNinguno
<1>4. ASSUME NEW q \in Pids, NEW m \in DOMAIN tablas'[q], Tiene(p0, n0)', Tiene(q, m)',
             tablas'[q][m] = e
      PROVE  q = p0 /\ m = n0
  BY <1>1, <1>2, <1>3, <1>4
<1>5. ASSUME NEW p \in Pids, NEW q \in Pids, NEW n \in DOMAIN tablas'[p], NEW m \in DOMAIN tablas'[q],
             Tiene(p, n)', Tiene(q, m)', tablas'[p][n] = tablas'[q][m]
      PROVE  p = q /\ n = m
  <2>1. CASE p = p0 /\ n = n0
    BY <1>4, <1>5, <2>1
  <2>2. CASE q = p0 /\ m = n0
    BY <1>4, <1>5, <2>2
  <2>3. CASE ~(p = p0 /\ n = n0) /\ ~(q = p0 /\ m = n0)
    <3>1. n \in DOMAIN tablas[p] /\ m \in DOMAIN tablas[q]
      BY <2>3
    <3>2. QED
      BY <1>2, <1>5, <3>1 DEF MarcosCuadran
  <2>4. QED
    BY <2>1, <2>2, <2>3
<1>6. ASSUME NEW f \in Marcos
      PROVE  marcos'[f] <=> \E p \in Pids : \E n \in DOMAIN tablas'[p] :
                              Tiene(p, n)' /\ tablas'[p][n] = f
  <2>1. marcos[f] <=> \E p \in Pids : \E n \in DOMAIN tablas[p] :
                        Tiene(p, n) /\ tablas[p][n] = f
    BY DEF MarcosCuadran
  <2>2. CASE f = e
    <3>1. e # SinMarco
      BY <2>2, Supuestos
    <3>2. marcos'[f] /\ Tiene(p0, n0)' /\ tablas'[p0][n0] = f
      BY <1>1, <2>2, <3>1
    <3>3. QED
      BY <3>2
  <2>3. CASE f # e
    <3>1. marcos'[f] = marcos[f]
      BY <2>3
    <3>2. QED
      BY <1>2, <2>1, <2>3, <3>1
  <2>4. QED
    BY <2>2, <2>3
<1>7. QED
  BY <1>5, <1>6 DEF MarcosCuadran

LEMMA PaginasAgregar ==
  ASSUME Bien, AgregarPagina
  PROVE  \E p0 \in Pids, e \in ConNinguno : \E n0 : PaginaNueva(p0, n0, e)
<1>1. /\ hiloCpu.paso \in {"ampliar", "crear"} /\ hiloCpu \in HilosCpu
      /\ hiloCpu.pid \in Pids /\ UNCHANGED hiloKernel /\ tablas \in [Pids -> Seq(ConNinguno)]
      /\ marcos \in [Marcos -> BOOLEAN]
      /\ hiloCpu' = [hiloCpu EXCEPT !.i = 0]
  BY DEF AgregarPagina, Agrega, Bien, TiposTablas
<1>2. PICK p0 \in Pids : p0 = hiloCpu.pid
  BY <1>1
<1>3. PICK e \in ConNinguno : e = IF hiloCpu.i \in Marcos THEN hiloCpu.i ELSE SinMarco
  BY DEF ConNinguno
<1>4. /\ tablas' = [tablas EXCEPT ![p0] = Append(@, e)]
      /\ marcos' = IF e = SinMarco THEN marcos ELSE [marcos EXCEPT ![e] = TRUE]
      /\ e # SinMarco => ~marcos[e]
  BY <1>1, <1>2, <1>3, Supuestos DEF AgregarPagina
<1>5. PICK s \in Seq(ConNinguno) : s = tablas[p0]
  BY <1>1
<1>6. PICK n0 \in Nat : n0 = Len(s) + 1
  BY <1>5
<1>7. /\ DOMAIN s = 1 .. Len(s) /\ DOMAIN Append(s, e) = 1 .. Len(s) + 1 /\ Len(s) \in Nat
      /\ Append(s, e)[n0] = e
      /\ \A k \in DOMAIN s : Append(s, e)[k] = s[k]
  BY <1>5, <1>6, Agregar
<1>8. /\ tablas'[p0] = Append(s, e)
      /\ \A q \in Pids \ {p0} : tablas'[q] = tablas[q]
  BY <1>1, <1>4, <1>5
<1>9. /\ n0 \in DOMAIN tablas'[p0] /\ n0 \notin DOMAIN tablas[p0] /\ tablas'[p0][n0] = e
      /\ \A q \in Pids : \A n \in DOMAIN tablas[q] :
           n \in DOMAIN tablas'[q] /\ tablas'[q][n] = tablas[q][n]
      /\ \A q \in Pids : \A n \in DOMAIN tablas'[q] :
           (q = p0 /\ n = n0) \/ n \in DOMAIN tablas[q]
  BY <1>5, <1>6, <1>7, <1>8
<1>10. hiloCpu'.paso = hiloCpu.paso
  BY <1>1 DEF HilosCpu
<1>11. hiloKernel.paso = "liberar" => hiloKernel.pid # p0
  BY <1>1, <1>2, HilosAparte
<1>12. \A q \in Pids : \A n \in DOMAIN tablas[q] : Liberada(q, n)' <=> Liberada(q, n)
  BY <1>1, <1>10 DEF Liberada
<1>13. ~Liberada(p0, n0)'
  BY <1>1, <1>10, <1>11 DEF Liberada
<1>14. PaginaNueva(p0, n0, e)
  BY <1>4, <1>9, <1>12, <1>13 DEF PaginaNueva
<1>15. QED
  BY <1>14

(* Nothing happens to the pages.                                              *)
PaginasIguales ==
  /\ UNCHANGED <<tablas, marcos>>
  /\ \A q \in Pids : \A n \in DOMAIN tablas[q] : Liberada(q, n)' <=> Liberada(q, n)

LEMMA CuadranIgual ==
  ASSUME MarcosCuadran, PaginasIguales
  PROVE  MarcosCuadran'
<1>1. \A q \in Pids : \A n \in DOMAIN tablas[q] : Tiene(q, n)' <=> Tiene(q, n)
  BY DEF Tiene, PaginasIguales
<1>2. QED
  BY <1>1 DEF MarcosCuadran, PaginasIguales

LEMMA PaginasMismosHilos ==
  ASSUME UNCHANGED <<tablas, marcos, hiloCpu, hiloKernel>>
  PROVE  PaginasIguales
  BY DEF Liberada, PaginasIguales

LEMMA CuadranMismosHilos ==
  ASSUME MarcosCuadran, UNCHANGED <<tablas, marcos, hiloCpu, hiloKernel>>
  PROVE  MarcosCuadran'
  BY PaginasMismosHilos, CuadranIgual

LEMMA Indices ==
  ASSUME Bien, NEW q \in Pids
  PROVE  /\ tablas[q] \in Seq(ConNinguno) /\ Len(tablas[q]) \in Nat
         /\ DOMAIN tablas[q] = 1 .. Len(tablas[q])
  BY DEF Bien, TiposTablas

LEMMA PaginasResize ==
  ASSUME Bien, Resize, hiloCpu' \in HilosCpu
  PROVE  PaginasIguales
<1>1. /\ hiloCpu.paso = "espera" /\ UNCHANGED <<tablas, marcos, hiloKernel>>
      /\ \/ hiloCpu' = hiloCpu
         \/ hiloCpu'.paso \in {"ampliar", "crear"}
         \/ hiloCpu'.paso = "achicar" /\ hiloCpu'.i = hiloCpu'.meta + 1
  BY DEF Resize, RecibeDeCpu
<1>2. hiloCpu'.meta \in Nat
  BY DEF HilosCpu
<1>3. \A q \in Pids : \A n \in DOMAIN tablas[q] : Liberada(q, n)' <=> Liberada(q, n)
  BY <1>1, <1>2, Indices DEF Liberada
<1>4. QED
  BY <1>1, <1>3 DEF PaginasIguales

LEMMA PaginasMirarMarco ==
  ASSUME Bien, MirarMarco
  PROVE  PaginasIguales
<1>1. /\ hiloCpu.paso \in {"ampliar", "crear"} /\ hiloCpu'.paso = hiloCpu.paso
      /\ UNCHANGED <<tablas, marcos, hiloKernel>>
  BY DEF MirarMarco, Agrega, Bien, TiposTablas, HilosCpu
<1>2. \A q \in Pids : \A n \in DOMAIN tablas[q] : Liberada(q, n)' <=> Liberada(q, n)
  BY <1>1 DEF Liberada
<1>3. QED
  BY <1>1, <1>2 DEF PaginasIguales

LEMMA PaginasTerminarDeAgregar ==
  ASSUME Bien, TerminarDeAgregar
  PROVE  PaginasIguales
<1>1. /\ hiloCpu.paso \in {"ampliar", "crear"} /\ hiloCpu'.paso = "espera"
      /\ UNCHANGED <<tablas, marcos, hiloKernel>>
  BY DEF TerminarDeAgregar, CpuLibre
<1>2. \A q \in Pids : \A n \in DOMAIN tablas[q] : Liberada(q, n)' <=> Liberada(q, n)
  BY <1>1 DEF Liberada
<1>3. QED
  BY <1>1, <1>2 DEF PaginasIguales

LEMMA PaginasFinalizarProceso ==
  ASSUME Bien, FinalizarProceso
  PROVE  PaginasIguales
<1>1. /\ hiloKernel.paso = "espera" /\ UNCHANGED <<tablas, marcos, hiloCpu>>
      /\ hiloKernel' = hiloKernel \/ hiloKernel'.i = 1
  BY DEF FinalizarProceso, RecibeDeKernel
<1>2. \A q \in Pids : \A n \in DOMAIN tablas[q] : Liberada(q, n)' <=> Liberada(q, n)
  BY <1>1, Indices DEF Liberada
<1>3. QED
  BY <1>1, <1>2 DEF PaginasIguales

LEMMA PaginasAchicarMarco ==
  ASSUME Bien, AchicarMarco
  PROVE  \E p0 \in Pids : \E n0 : PaginaLibre(p0, n0) /\ Suelta(p0, n0)
<1>1. /\ hiloCpu.paso = "achicar" /\ hiloCpu \in HilosCpu /\ hiloCpu.pid \in Pids
      /\ hiloCpu.meta < hiloCpu.i /\ hiloCpu.i \in DOMAIN tablas[hiloCpu.pid]
      /\ hiloCpu' = [hiloCpu EXCEPT !.i = @ + 1] /\ UNCHANGED <<tablas, hiloKernel>>
      /\ tablas \in [Pids -> Seq(ConNinguno)] /\ marcos \in [Marcos -> BOOLEAN]
  BY DEF AchicarMarco, Bien, TiposTablas
<1>2. PICK p0 \in Pids : p0 = hiloCpu.pid
  BY <1>1
<1>3. PICK n0 \in Nat : n0 = hiloCpu.i
  BY <1>1 DEF HilosCpu
<1>4. /\ hiloCpu'.paso = "achicar" /\ hiloCpu'.pid = p0 /\ hiloCpu'.meta = hiloCpu.meta
      /\ hiloCpu'.i = n0 + 1 /\ hiloCpu.meta \in Nat
  BY <1>1, <1>2, <1>3 DEF HilosCpu
<1>5. hiloKernel.paso = "liberar" => hiloKernel.pid # p0
  BY <1>1, <1>2, HilosAparte
<1>6. ~Liberada(p0, n0)
  BY <1>1, <1>3, <1>5 DEF Liberada
<1>7. \A q \in Pids : \A n \in DOMAIN tablas[q] :
        Liberada(q, n)' <=> Liberada(q, n) \/ (q = p0 /\ n = n0)
  BY <1>1, <1>2, <1>3, <1>4, Indices DEF Liberada
<1>8. PaginaLibre(p0, n0)
  BY <1>1, <1>2, <1>3, <1>6, <1>7 DEF PaginaLibre, AchicarMarco
<1>9. Suelta(p0, n0)
  BY <1>1, <1>2, <1>3 DEF Suelta, AchicarMarco
<1>10. QED
  BY <1>8, <1>9

LEMMA PaginasLiberarMarco ==
  ASSUME Bien, LiberarMarco
  PROVE  \E p0 \in Pids : \E n0 : PaginaLibre(p0, n0) /\ Suelta(p0, n0)
<1>1. /\ hiloKernel.paso = "liberar" /\ hiloKernel \in HilosKernel /\ hiloKernel.pid \in Pids
      /\ hiloKernel.i \in DOMAIN tablas[hiloKernel.pid]
      /\ hiloKernel' = [hiloKernel EXCEPT !.i = @ + 1] /\ UNCHANGED <<tablas, hiloCpu>>
      /\ tablas \in [Pids -> Seq(ConNinguno)] /\ marcos \in [Marcos -> BOOLEAN]
  BY DEF LiberarMarco, Bien, TiposTablas
<1>2. PICK p0 \in Pids : p0 = hiloKernel.pid
  BY <1>1
<1>3. PICK n0 \in Nat : n0 = hiloKernel.i
  BY <1>1 DEF HilosKernel
<1>4. hiloKernel'.paso = "liberar" /\ hiloKernel'.pid = p0 /\ hiloKernel'.i = n0 + 1
  BY <1>1, <1>2, <1>3 DEF HilosKernel
<1>5. hiloCpu.paso = "achicar" => hiloCpu.pid # p0
  BY <1>1, <1>2, HilosAparte
<1>6. ~Liberada(p0, n0)
  BY <1>3, <1>5 DEF Liberada
<1>7. \A q \in Pids : \A n \in DOMAIN tablas[q] :
        Liberada(q, n)' <=> Liberada(q, n) \/ (q = p0 /\ n = n0)
  BY <1>1, <1>2, <1>3, <1>4, Indices DEF Liberada
<1>8. PaginaLibre(p0, n0)
  BY <1>1, <1>2, <1>3, <1>6, <1>7 DEF PaginaLibre, LiberarMarco
<1>9. Suelta(p0, n0)
  BY <1>1, <1>2, <1>3 DEF Suelta, LiberarMarco
<1>10. QED
  BY <1>8, <1>9

LEMMA PaginasTerminarDeAchicar ==
  ASSUME Bien, TerminarDeAchicar
  PROVE  \E p0 \in Pids : SinPaginas(p0)
<1>1. /\ hiloCpu.paso = "achicar" /\ hiloCpu \in HilosCpu /\ hiloCpu.pid \in Pids
      /\ hiloCpu.meta < hiloCpu.i /\ hiloCpu.meta <= Len(tablas[hiloCpu.pid])
      /\ hiloCpu.i \notin DOMAIN tablas[hiloCpu.pid]
      /\ tablas' = [tablas EXCEPT ![hiloCpu.pid] = SubSeq(@, 1, hiloCpu.meta)]
      /\ hiloCpu'.paso = "espera" /\ UNCHANGED <<marcos, hiloKernel>>
      /\ tablas \in [Pids -> Seq(ConNinguno)]
  BY DEF TerminarDeAchicar, CpuLibre, Bien, TiposTablas
<1>2. PICK p0 \in Pids : p0 = hiloCpu.pid
  BY <1>1
<1>3. PICK meta \in Nat : meta = hiloCpu.meta
  BY <1>1 DEF HilosCpu
<1>4. PICK s \in Seq(ConNinguno) : s = tablas[p0]
  BY <1>1
<1>5. /\ Len(s) \in Nat /\ DOMAIN s = 1 .. Len(s) /\ DOMAIN SubSeq(s, 1, meta) = 1 .. meta
      /\ \A k \in 1 .. meta : SubSeq(s, 1, meta)[k] = s[k]
  BY <1>1, <1>2, <1>3, <1>4
<1>6. hiloCpu.i \in Nat /\ hiloCpu.i > Len(s)
  BY <1>1, <1>2, <1>3, <1>4, <1>5 DEF HilosCpu
<1>7. tablas'[p0] = SubSeq(s, 1, meta) /\ \A q \in Pids \ {p0} : tablas'[q] = tablas[q]
  BY <1>1, <1>2, <1>3, <1>4
<1>8. \A n \in DOMAIN tablas'[p0] : n \in DOMAIN tablas[p0] /\ tablas'[p0][n] = tablas[p0][n]
  BY <1>1, <1>2, <1>3, <1>4, <1>5, <1>7
<1>9. \A n \in DOMAIN tablas[p0] : n \in DOMAIN tablas'[p0] \/ Liberada(p0, n)
  BY <1>1, <1>2, <1>3, <1>4, <1>5, <1>6, <1>7 DEF Liberada
<1>10. \A q \in Pids : \A n \in DOMAIN tablas'[q] : Liberada(q, n)' <=> Liberada(q, n)
  BY <1>1, <1>2, <1>3, <1>5, <1>7 DEF Liberada
<1>11. SinPaginas(p0)
  BY <1>1, <1>7, <1>8, <1>9, <1>10 DEF SinPaginas
<1>12. QED
  BY <1>11

LEMMA PaginasTerminarDeLiberar ==
  ASSUME Bien, TerminarDeLiberar
  PROVE  \E p0 \in Pids : SinPaginas(p0)
<1>1. /\ hiloKernel.paso = "liberar" /\ hiloKernel \in HilosKernel /\ hiloKernel.pid \in Pids
      /\ hiloKernel.i \notin DOMAIN tablas[hiloKernel.pid] /\ hiloKernel.i >= 1
      /\ tablas' = [tablas EXCEPT ![hiloKernel.pid] = <<>>]
      /\ hiloKernel'.paso = "espera" /\ UNCHANGED <<marcos, hiloCpu>>
      /\ tablas \in [Pids -> Seq(ConNinguno)]
  BY DEF TerminarDeLiberar, KernelLibre, Bien, TiposTablas
<1>2. PICK p0 \in Pids : p0 = hiloKernel.pid
  BY <1>1
<1>3. hiloKernel.i \in Nat /\ hiloKernel.i > Len(tablas[p0])
  BY <1>1, <1>2, Indices DEF HilosKernel
<1>4. /\ tablas'[p0] = <<>> /\ DOMAIN tablas'[p0] = {}
      /\ \A q \in Pids \ {p0} : tablas'[q] = tablas[q]
  BY <1>1, <1>2
<1>5. \A n \in DOMAIN tablas[p0] : Liberada(p0, n)
  BY <1>1, <1>2, <1>3, Indices DEF Liberada
<1>6. \A q \in Pids : \A n \in DOMAIN tablas'[q] : Liberada(q, n)' <=> Liberada(q, n)
  BY <1>1, <1>2, <1>4 DEF Liberada
<1>7. SinPaginas(p0)
  BY <1>1, <1>4, <1>5, <1>6 DEF SinPaginas
<1>8. QED
  BY <1>7

LEMMA CuadranInicial == Init => MarcosCuadran
<1> SUFFICES ASSUME Init PROVE MarcosCuadran
  OBVIOUS
<1>1. /\ \A p \in Pids : tablas[p] = <<>> /\ DOMAIN tablas[p] = {}
      /\ \A f \in Marcos : ~marcos[f]
  BY DEF Init, MemoriaInit
<1>2. QED
  BY <1>1 DEF MarcosCuadran

(* What a step of the memory does to the pages, and to what was given back.   *)
PasoDePaginas ==
  \/ /\ UNCHANGED soltados
     /\ \/ PaginasIguales
        \/ \E p0 \in Pids, e \in ConNinguno : \E n0 : PaginaNueva(p0, n0, e)
        \/ \E p0 \in Pids : SinPaginas(p0)
  \/ \E p0 \in Pids : \E n0 : PaginaLibre(p0, n0) /\ Suelta(p0, n0)

LEMMA PasosDePaginas ==
  ASSUME Bien, Bien', MemoriaNext
  PROVE  PasoDePaginas
<1>1. CASE RetornarSiguienteInstruccion \/ MensajePagina \/ MensajeLeer \/ MensajeEscribir \/ CrearImagen
  <2>1. UNCHANGED <<tablas, marcos, hiloCpu, hiloKernel, soltados>>
    BY <1>1 DEF RetornarSiguienteInstruccion, MensajePagina, MensajeLeer, MensajeEscribir,
                CrearImagen, tablaVars
  <2>2. QED
    BY <2>1, PaginasMismosHilos DEF PasoDePaginas
<1>2. CASE Resize
  <2>1. hiloCpu' \in HilosCpu
    BY DEF Bien, TiposTablas
  <2>2. UNCHANGED soltados
    BY <1>2 DEF Resize
  <2>3. QED
    BY <1>2, <2>1, <2>2, PaginasResize DEF PasoDePaginas
<1>3. CASE MirarMarco \/ TerminarDeAgregar \/ FinalizarProceso
  <2>1. UNCHANGED soltados
    BY <1>3 DEF MirarMarco, TerminarDeAgregar, FinalizarProceso
  <2>2. QED
    BY <1>3, <2>1, PaginasMirarMarco, PaginasTerminarDeAgregar, PaginasFinalizarProceso
       DEF PasoDePaginas
<1>4. CASE AgregarPagina
  <2>1. UNCHANGED soltados
    BY <1>4 DEF AgregarPagina
  <2>2. QED
    BY <1>4, <2>1, PaginasAgregar DEF PasoDePaginas
<1>5. CASE AchicarMarco \/ LiberarMarco
  BY <1>5, PaginasAchicarMarco, PaginasLiberarMarco DEF PasoDePaginas
<1>6. CASE TerminarDeAchicar \/ TerminarDeLiberar
  <2>1. UNCHANGED soltados
    BY <1>6 DEF TerminarDeAchicar, TerminarDeLiberar
  <2>2. QED
    BY <1>6, <2>1, PaginasTerminarDeAchicar, PaginasTerminarDeLiberar DEF PasoDePaginas
<1>7. QED
  BY <1>1, <1>2, <1>3, <1>4, <1>5, <1>6 DEF MemoriaNext

LEMMA CuadranSiguiente ==
  ASSUME Bien, Bien', MarcosCuadran, Next
  PROVE  MarcosCuadran'
<1>1. CASE ~MemoriaNext
  BY <1>1, LoDemas, CuadranMismosHilos
<1>2. CASE MemoriaNext
  <2>1. PasoDePaginas /\ marcos \in [Marcos -> BOOLEAN] /\ tablas \in [Pids -> Seq(ConNinguno)]
    BY <1>2, PasosDePaginas DEF Bien, TiposTablas
  <2>2. QED
    BY <2>1, CuadranIgual, CuadranPaginaNueva, CuadranSinPaginas, CuadranLiberar DEF PasoDePaginas
<1>3. QED
  BY <1>1, <1>2

(* No two pages share a frame, no used frame is lost and none is given twice, *)
(* while the thread of the CPU grows or shrinks a process and the one of the  *)
(* kernel frees another, one bit at a time.                                   *)
THEOREM MarcosSinPerder == Spec => []MarcosCuadran
<1>1. ASSUME Bien, MarcosCuadran, [Next]_vars PROVE (Bien /\ MarcosCuadran)'
  <2>1. CASE Next
    BY <1>1, <2>1, BienSiguiente, CuadranSiguiente
  <2>2. CASE UNCHANGED vars
    <3>1. UNCHANGED <<tablas, marcos, hiloCpu, hiloKernel>>
      BY <2>2 DEF vars, memoriaVars, tablaVars
    <3>2. QED
      BY <1>1, <2>2, <3>1, BienSinCambios, CuadranMismosHilos
  <2>3. QED
    BY <1>1, <2>1, <2>2
<1>2. QED
  BY <1>1, BienInicial, CuadranInicial, PTL DEF Spec

-----------------------------------------------------------------------------
(***************************************************************************)
(* No page without a frame. Only the thread of the CPU takes frames, so    *)
(* what it counted before it began stays true: from the next bit it looks  *)
(* at there are enough free ones for the pages that are missing.           *)
(***************************************************************************)
LibresDesde(i) == {f \in Marcos : f >= i /\ ~marcos[f]}

Alcanzan ==
  hiloCpu.paso \in {"crear", "ampliar"} =>
    hiloCpu.meta <= Len(tablas[hiloCpu.pid]) + Cardinality(LibresDesde(hiloCpu.i))

ConMarco == \A p \in Pids : \A n \in DOMAIN tablas[p] : tablas[p][n] # SinMarco

Llena == Alcanzan /\ ConMarco

LEMMA Contar ==
  ASSUME NEW i
  PROVE  IsFiniteSet(LibresDesde(i)) /\ Cardinality(LibresDesde(i)) \in Nat
<1>1. IsFiniteSet(Marcos)
  BY Supuestos, FS_Interval DEF Marcos
<1>2. LibresDesde(i) \subseteq Marcos
  BY DEF LibresDesde
<1>3. QED
  BY <1>1, <1>2, FS_Subset, FS_CardinalityType

LEMMA LlenaInicial == Init => Llena
  BY DEF Init, MemoriaInit, CpuLibre, Llena, Alcanzan, ConMarco

LEMMA LlenaResize ==
  ASSUME Bien, Llena, Resize, Bien'
  PROVE  Llena'
<1>1. PICK p \in Pids : p = Head(colaCpu).pid
  <2>1. Head(colaCpu) \in Pedidos
    BY Sacar DEF Resize, RecibeDeCpu, Bien, TiposColas
  <2>2. QED
    BY <2>1 DEF Pedidos
<1>2. hiloCpu.paso = "espera" /\ UNCHANGED <<tablas, marcos>>
  BY DEF Resize, RecibeDeCpu
<1>3. ConMarco'
  BY <1>2 DEF Llena, ConMarco
<1>4. ASSUME hiloCpu'.paso \in {"crear", "ampliar"}
      PROVE  Alcanzan'
  <2>1. PICK falta \in Int : /\ SuficientesMarcos(falta)
                             /\ hiloCpu'.meta <= Len(tablas[p]) + falta
                             /\ hiloCpu'.i = 0 /\ hiloCpu'.pid = p
    <3> DEFINE meta == PaginasPara(Head(colaCpu).cant)
               faltan == IF p \in existe THEN meta - Len(tablas[p]) ELSE meta
    <3>1. hiloCpu' # hiloCpu /\ hiloCpu'.paso # "achicar"
      BY <1>2, <1>4
    <3>2. /\ SuficientesMarcos(faltan)
          /\ hiloCpu' = [paso |-> IF p \in existe THEN "ampliar" ELSE "crear",
                         pid |-> p, meta |-> meta, i |-> 0]
      <4> HIDE DEF meta
      <4>1. QED
        BY <1>1, <3>1 DEF Resize, meta
    <3>3. meta \in Nat
      <4>1. hiloCpu'.meta \in Nat
        BY DEF Bien, TiposTablas, HilosCpu
      <4>2. QED
        BY <3>2, <4>1
    <3>4. Len(tablas[p]) \in Nat
      BY Indices
    <3>5. faltan \in Int /\ meta <= Len(tablas[p]) + faltan
      BY <3>3, <3>4
    <3> HIDE DEF faltan
    <3>6. QED
      BY <3>2, <3>5
  <2>2. {f \in Marcos : ~marcos[f]} = LibresDesde(0)
    <3>1. \A f \in Marcos : f >= 0
      BY Supuestos
    <3>2. QED
      BY <3>1 DEF LibresDesde
  <2>3. Cardinality(LibresDesde(0)) >= falta /\ Cardinality(LibresDesde(0)) \in Nat
    BY <2>1, <2>2, Contar DEF SuficientesMarcos
  <2>4. Len(tablas[p]) \in Nat /\ hiloCpu'.meta \in Nat
    BY Indices DEF Bien, TiposTablas, HilosCpu
  <2>5. LibresDesde(hiloCpu.i)' = LibresDesde(0) /\ tablas'[hiloCpu'.pid] = tablas[p]
    BY <1>2, <2>1 DEF LibresDesde
  <2>6. QED
    BY <2>1, <2>3, <2>4, <2>5 DEF Alcanzan
<1>5. QED
  BY <1>3, <1>4 DEF Llena, Alcanzan

LEMMA LlenaMirarMarco ==
  ASSUME Bien, Llena, MirarMarco
  PROVE  Llena'
<1>1. /\ hiloCpu \in HilosCpu /\ hiloCpu.i \in Marcos /\ marcos[hiloCpu.i]
      /\ hiloCpu' = [hiloCpu EXCEPT !.i = @ + 1] /\ UNCHANGED <<tablas, marcos>>
  BY DEF MirarMarco, Bien, TiposTablas
<1>2. /\ hiloCpu'.i = hiloCpu.i + 1 /\ hiloCpu'.paso = hiloCpu.paso
      /\ hiloCpu'.pid = hiloCpu.pid /\ hiloCpu'.meta = hiloCpu.meta
  BY <1>1 DEF HilosCpu
<1>3. LibresDesde(hiloCpu.i)' = LibresDesde(hiloCpu.i)
  BY <1>1, <1>2, Supuestos DEF LibresDesde
<1>4. QED
  BY <1>1, <1>2, <1>3 DEF Llena, Alcanzan, ConMarco

LEMMA LlenaAgregar ==
  ASSUME Bien, Llena, AgregarPagina
  PROVE  Llena'
<1>1. /\ hiloCpu.paso \in {"ampliar", "crear"} /\ hiloCpu \in HilosCpu
      /\ hiloCpu.pid \in Pids /\ tablas \in [Pids -> Seq(ConNinguno)]
      /\ marcos \in [Marcos -> BOOLEAN]
      /\ hiloCpu' = [hiloCpu EXCEPT !.i = 0]
      /\ Len(tablas[hiloCpu.pid]) < hiloCpu.meta
  BY DEF AgregarPagina, Agrega, Bien, TiposTablas
<1>2. PICK p0 \in Pids : p0 = hiloCpu.pid
  BY <1>1
<1>3. PICK i \in Nat : i = hiloCpu.i
  BY <1>1 DEF HilosCpu
<1>4. PICK s \in Seq(ConNinguno) : s = tablas[p0]
  BY <1>1
<1>5. Len(s) \in Nat /\ hiloCpu.meta \in Nat
  BY <1>1, <1>4 DEF HilosCpu
<1> DEFINE antes == LibresDesde(i)
           ahora == LibresDesde(hiloCpu.i)'
<1>6. IsFiniteSet(antes) /\ Cardinality(antes) \in Nat /\ Cardinality(antes) > 0
  <2>1. hiloCpu.meta <= Len(s) + Cardinality(LibresDesde(i))
    BY <1>1, <1>2, <1>3, <1>4 DEF Llena, Alcanzan
  <2>2. QED
    BY <1>1, <1>2, <1>4, <1>5, <2>1, Contar
<1>7. PICK f \in antes : TRUE
  BY <1>6, FS_EmptySet
<1>8. i \in Marcos
  BY <1>3, <1>7, Supuestos DEF LibresDesde, Marcos
<1>9. /\ marcos' = [marcos EXCEPT ![i] = TRUE] /\ ~marcos[i] /\ i # SinMarco
      /\ tablas' = [tablas EXCEPT ![p0] = Append(@, i)]
  BY <1>1, <1>2, <1>3, <1>8, Supuestos DEF AgregarPagina
<1>10. /\ hiloCpu'.i = 0 /\ hiloCpu'.pid = p0 /\ hiloCpu'.meta = hiloCpu.meta
       /\ hiloCpu'.paso = hiloCpu.paso
  BY <1>1, <1>2 DEF HilosCpu
<1>11. i \in antes
  BY <1>3, <1>8, <1>9 DEF LibresDesde
<1>12. antes \ {i} \subseteq ahora
  BY <1>1, <1>3, <1>9, <1>10, Supuestos DEF LibresDesde
<1>13. IsFiniteSet(ahora) /\ Cardinality(ahora) \in Nat
  <2>1. IsFiniteSet(Marcos)
    BY Supuestos, FS_Interval DEF Marcos
  <2>2. ahora \subseteq Marcos
    BY DEF LibresDesde
  <2>3. QED
    BY <2>1, <2>2, FS_Subset, FS_CardinalityType
<1>14. Cardinality(antes) - 1 <= Cardinality(ahora)
  <2> HIDE DEF antes, ahora
  <2>1. Cardinality(antes \ {i}) = Cardinality(antes) - 1 /\ IsFiniteSet(antes \ {i})
    BY <1>6, <1>11, FS_RemoveElement
  <2>2. Cardinality(antes \ {i}) <= Cardinality(ahora)
    BY <1>12, <1>13, FS_Subset
  <2>3. QED
    BY <2>1, <2>2
<1>15. i \in ConNinguno
  BY <1>8 DEF ConNinguno
<1>16. /\ tablas'[p0] = Append(s, i) /\ \A q \in Pids \ {p0} : tablas'[q] = tablas[q]
       /\ Len(Append(s, i)) = Len(s) + 1
  BY <1>1, <1>4, <1>9, <1>15, Agregar
<1>17. Alcanzan'
  <2>1. hiloCpu.meta <= Len(s) + Cardinality(antes)
    BY <1>1, <1>2, <1>3, <1>4 DEF Llena, Alcanzan
  <2> HIDE DEF antes, ahora
  <2>2. hiloCpu'.meta <= Len(tablas'[hiloCpu'.pid]) + Cardinality(ahora)
    BY <1>5, <1>6, <1>10, <1>13, <1>14, <1>16, <2>1
  <2>3. QED
    BY <2>2 DEF Alcanzan, ahora
<1>18. ConMarco'
  <2>1. DOMAIN Append(s, i) = 1 .. Len(s) + 1 /\ Append(s, i)[Len(s) + 1] = i
        /\ DOMAIN s = 1 .. Len(s) /\ \A k \in DOMAIN s : Append(s, i)[k] = s[k]
    BY <1>4, <1>15, Agregar
  <2>2. \A n \in DOMAIN tablas'[p0] : tablas'[p0][n] # SinMarco
    BY <1>4, <1>5, <1>9, <1>16, <2>1 DEF Llena, ConMarco
  <2>3. QED
    BY <1>16, <2>2 DEF Llena, ConMarco
<1>19. QED
  BY <1>17, <1>18 DEF Llena

LEMMA LlenaTermina ==
  ASSUME Bien, Llena,
         TerminarDeAgregar \/ AchicarMarco \/ TerminarDeAchicar
  PROVE  Llena'
<1>1. hiloCpu \in HilosCpu /\ tablas \in [Pids -> Seq(ConNinguno)]
      /\ (hiloCpu.paso # "espera" => hiloCpu.pid \in Pids)
  BY DEF Bien, TiposTablas
<1>2. hiloCpu'.paso \in {"espera", "achicar"}
  BY <1>1 DEF TerminarDeAgregar, AchicarMarco, TerminarDeAchicar, CpuLibre, HilosCpu
<1>3. ConMarco'
  <2>1. CASE TerminarDeAgregar \/ AchicarMarco
    BY <2>1 DEF TerminarDeAgregar, AchicarMarco, Llena, ConMarco
  <2>2. CASE TerminarDeAchicar
    <3>1. /\ hiloCpu.pid \in Pids /\ hiloCpu.meta \in Nat /\ hiloCpu.meta <= Len(tablas[hiloCpu.pid])
          /\ tablas' = [tablas EXCEPT ![hiloCpu.pid] = SubSeq(@, 1, hiloCpu.meta)]
      BY <1>1, <2>2 DEF TerminarDeAchicar, Bien, TiposTablas, HilosCpu
    <3>2. PICK p0 \in Pids, meta \in Nat : p0 = hiloCpu.pid /\ meta = hiloCpu.meta
      BY <3>1
    <3>3. PICK s \in Seq(ConNinguno) : s = tablas[p0]
      BY <1>1
    <3>4. /\ Len(s) \in Nat /\ DOMAIN s = 1 .. Len(s) /\ DOMAIN SubSeq(s, 1, meta) = 1 .. meta
          /\ \A k \in 1 .. meta : SubSeq(s, 1, meta)[k] = s[k]
      BY <3>1, <3>2, <3>3
    <3>5. tablas'[p0] = SubSeq(s, 1, meta) /\ \A q \in Pids \ {p0} : tablas'[q] = tablas[q]
      BY <1>1, <3>1, <3>2, <3>3
    <3>6. \A n \in DOMAIN tablas'[p0] : tablas'[p0][n] # SinMarco
      BY <3>1, <3>2, <3>3, <3>4, <3>5 DEF Llena, ConMarco
    <3>7. QED
      BY <3>5, <3>6 DEF Llena, ConMarco
  <2>3. QED
    BY <2>1, <2>2
<1>4. QED
  BY <1>2, <1>3 DEF Llena, Alcanzan

LEMMA LlenaKernel ==
  ASSUME Bien, Llena, LiberarMarco \/ TerminarDeLiberar
  PROVE  Llena'
<1>1. UNCHANGED hiloCpu /\ tablas \in [Pids -> Seq(ConNinguno)] /\ marcos \in [Marcos -> BOOLEAN]
  BY DEF LiberarMarco, TerminarDeLiberar, Bien, TiposTablas
<1>2. ConMarco'
  BY <1>1 DEF LiberarMarco, TerminarDeLiberar, Llena, ConMarco
<1>3. hiloCpu.paso # "espera" => tablas'[hiloCpu.pid] = tablas[hiloCpu.pid]
  BY <1>1, HilosAparte DEF LiberarMarco, TerminarDeLiberar, Bien, TiposTablas
<1>4. LibresDesde(hiloCpu.i) \subseteq LibresDesde(hiloCpu.i)'
  BY <1>1 DEF LibresDesde, LiberarMarco, TerminarDeLiberar
<1>5. PICK i : i = hiloCpu.i
  OBVIOUS
<1>6. /\ IsFiniteSet(LibresDesde(hiloCpu.i)') /\ Cardinality(LibresDesde(hiloCpu.i)') \in Nat
      /\ Cardinality(LibresDesde(hiloCpu.i)) \in Nat
  <2>1. IsFiniteSet(Marcos)
    BY Supuestos, FS_Interval DEF Marcos
  <2>2. LibresDesde(hiloCpu.i)' \subseteq Marcos
    BY DEF LibresDesde
  <2>3. QED
    BY <1>5, <2>1, <2>2, FS_Subset, FS_CardinalityType, Contar
<1>7. Cardinality(LibresDesde(hiloCpu.i)) <= Cardinality(LibresDesde(hiloCpu.i)')
  BY <1>4, <1>6, FS_Subset
<1>8. ASSUME hiloCpu.paso \in {"crear", "ampliar"}
      PROVE  Alcanzan'
  <2>1. Len(tablas[hiloCpu.pid]) \in Nat /\ hiloCpu.meta \in Nat
    BY <1>8, Indices DEF Bien, TiposTablas, HilosCpu
  <2>2. hiloCpu.meta <= Len(tablas'[hiloCpu.pid]) + Cardinality(LibresDesde(hiloCpu.i)')
    BY <1>3, <1>6, <1>7, <1>8, <2>1 DEF Llena, Alcanzan
  <2>3. QED
    BY <1>1, <2>2 DEF Alcanzan
<1>9. QED
  BY <1>1, <1>2, <1>8 DEF Llena, Alcanzan

LEMMA LlenaIgual ==
  ASSUME Llena, UNCHANGED <<tablas, marcos, hiloCpu>>
  PROVE  Llena'
  BY DEF Llena, Alcanzan, ConMarco, LibresDesde

LEMMA LlenaSiguiente ==
  ASSUME Bien, Bien', Llena, Next
  PROVE  Llena'
<1>1. CASE ~MemoriaNext
  BY <1>1, LoDemas, LlenaIgual
<1>2. CASE RetornarSiguienteInstruccion \/ MensajePagina \/ MensajeLeer \/ MensajeEscribir
             \/ CrearImagen \/ FinalizarProceso
  <2>1. UNCHANGED <<tablas, marcos, hiloCpu>>
    BY <1>2 DEF RetornarSiguienteInstruccion, MensajePagina, MensajeLeer, MensajeEscribir,
                CrearImagen, FinalizarProceso, tablaVars
  <2>2. QED
    BY <2>1, LlenaIgual
<1>3. CASE Resize \/ MirarMarco \/ AgregarPagina
  BY <1>3, LlenaResize, LlenaMirarMarco, LlenaAgregar
<1>4. CASE TerminarDeAgregar \/ AchicarMarco \/ TerminarDeAchicar
  BY <1>4, LlenaTermina
<1>5. CASE LiberarMarco \/ TerminarDeLiberar
  BY <1>5, LlenaKernel
<1>6. QED
  BY <1>1, <1>2, <1>3, <1>4, <1>5 DEF MemoriaNext

(* RESIZE never leaves a page without a frame: it counts the free frames      *)
(* before it takes them and without the mutex, and that is enough since only  *)
(* this thread takes any.                                                     *)
THEOREM SinPaginasHuecas == Spec => []PaginasPresentes
<1>1. ASSUME Bien, Llena, [Next]_vars PROVE (Bien /\ Llena)'
  <2>1. CASE Next
    BY <1>1, <2>1, BienSiguiente, LlenaSiguiente
  <2>2. CASE UNCHANGED vars
    <3>1. UNCHANGED <<tablas, marcos, hiloCpu>>
      BY <2>2 DEF vars, memoriaVars, tablaVars
    <3>2. QED
      BY <1>1, <2>2, <3>1, BienSinCambios, LlenaIgual
  <2>3. QED
    BY <1>1, <2>1, <2>2
<1>2. Bien /\ Llena => PaginasPresentes
  <2> SUFFICES ASSUME Bien, Llena, NEW p \in existe, SinMarco \in ToSet(tablas[p])
               PROVE  FALSE
    BY DEF PaginasPresentes
  <2>1. p \in Pids
    BY DEF Bien, TiposTablas
  <2>2. PICK n \in DOMAIN tablas[p] : tablas[p][n] = SinMarco
    BY DEF ToSet
  <2>3. QED
    BY <2>1, <2>2 DEF Llena, ConMarco
<1>3. QED
  BY <1>1, <1>2, BienInicial, LlenaInicial, PTL DEF Spec

-----------------------------------------------------------------------------
(***************************************************************************)
(* Questions and answers. The question of the CPU is the last message it   *)
(* sent, so the writes before it are read first; while it is served there  *)
(* is nothing else to read, and what comes back ends the wait. Images are  *)
(* never removed: a process that had one instruction finds its key every   *)
(* time, and only the program itself can leave a later fetch without an    *)
(* answer.                                                                 *)
(***************************************************************************)
Imagen ==
  /\ respuesta.tipo = "instruccion" =>
       respuesta.valor = Clave(cpu.pid) /\ respuesta.valor \in imagenes
  /\ \A p \in Pids : hechas[p] > 0 => Clave(p) \in imagenes
  /\ Colgada /\ cpu.pid \notin mudos => hechas[cpu.pid] = 0

Dialogo == UnaPregunta /\ Imagen

LEMMA Preguntan ==
  /\ DOMAIN PreguntaDe = {"fetch", "marco", "dato", "resize"}
  /\ DOMAIN RespuestaDe = {"fetch", "marco", "dato", "resize"}
  /\ PreguntaDe["fetch"] = "fetch" /\ PreguntaDe["marco"] = "pagina"
  /\ PreguntaDe["dato"] = "leer" /\ PreguntaDe["resize"] = "resize"
  /\ RespuestaDe["fetch"] = "instruccion" /\ RespuestaDe["marco"] = "marco"
  /\ RespuestaDe["dato"] = "dato" /\ RespuestaDe["resize"] = "resize"
  BY DEF PreguntaDe, RespuestaDe

LEMMA DialogoInicial == Init => Dialogo
<1> SUFFICES ASSUME Init PROVE Dialogo
  OBVIOUS
<1>1. /\ colaCpu = <<>> /\ respuesta = SinRespuesta /\ hiloCpu.paso = "espera"
      /\ cpu.fase = "ocioso" /\ hechas = [p \in Pids |-> 0]
  BY DEF Init, MemoriaInit, CpuLibre, Ocioso
<1>2. Preguntas = {} /\ ~Atendida /\ ~Contestada /\ ~Colgada
  BY <1>1 DEF Preguntas, Atendida, Contestada, Colgada
<1>3. cpu.fase \notin DOMAIN PreguntaDe
  BY <1>1, Preguntan
<1>4. UnaPregunta
  BY <1>2, <1>3 DEF UnaPregunta
<1>5. Imagen
  BY <1>1, <1>2 DEF Imagen, SinRespuesta
<1>6. QED
  BY <1>4, <1>5 DEF Dialogo

(* Nothing of the dialogue changes; an image may come.                        *)
LEMMA DialogoIgual ==
  ASSUME Dialogo, UNCHANGED <<colaCpu, respuesta, cpu, hechas, mudos>>,
         hiloCpu'.paso = hiloCpu.paso, hiloCpu'.pid = hiloCpu.pid,
         imagenes \subseteq imagenes', caida => caida'
  PROVE  Dialogo'
<1>1. /\ Preguntas' = Preguntas /\ Atendida' = Atendida /\ Contestada' = Contestada
      /\ Colgada' = Colgada
  BY DEF Preguntas, Atendida, Contestada, Colgada
<1>2. UnaPregunta'
  BY <1>1 DEF Dialogo, UnaPregunta
<1>3. Imagen'
  BY <1>1 DEF Dialogo, Imagen
<1>4. QED
  BY <1>2, <1>3 DEF Dialogo

(* A write is read before the question that follows it.                       *)
LEMMA DialogoEscribir ==
  ASSUME Bien, Dialogo, MensajeEscribir, UNCHANGED <<cpu, hechas>>
  PROVE  Dialogo'
<1>1. /\ colaCpu \in Seq(Pedidos) /\ colaCpu # <<>> /\ colaCpu' = Tail(colaCpu)
      /\ Head(colaCpu).tipo = "escribir"
      /\ UNCHANGED <<hiloCpu, imagenes, mudos, respuesta, caida>>
  BY DEF MensajeEscribir, RecibeDeCpu, tablaVars, Bien, TiposColas
<1>2. PICK l \in Nat : l = Len(colaCpu) /\ l > 0
  BY <1>1, Sacar
<1>3. /\ Len(colaCpu') = l - 1
      /\ DOMAIN colaCpu = 1 .. l /\ DOMAIN colaCpu' = 1 .. l - 1
      /\ \A k \in DOMAIN colaCpu' : colaCpu'[k] = colaCpu[k + 1] /\ k + 1 \in DOMAIN colaCpu
      /\ colaCpu[1].tipo = "escribir"
  BY <1>1, <1>2, Sacar
<1>4. Atendida' = Atendida /\ Contestada' = Contestada
  BY <1>1 DEF Atendida, Contestada
<1>5. ASSUME NEW k \in Preguntas'
      PROVE  k + 1 \in Preguntas /\ colaCpu'[k] = colaCpu[k + 1] /\ k \in 1 .. l - 1
  BY <1>3, <1>5 DEF Preguntas
<1>6. ASSUME NEW k \in Preguntas
      PROVE  k - 1 \in Preguntas'
  <2>1. k \in 1 .. l /\ k # 1
    BY <1>3, <1>6 DEF Preguntas
  <2>2. k - 1 \in DOMAIN colaCpu' /\ (k - 1) + 1 = k
    BY <1>3, <2>1
  <2>3. colaCpu'[k - 1] = colaCpu[k]
    BY <1>3, <2>2
  <2>4. QED
    BY <1>6, <2>2, <2>3 DEF Preguntas
<1>7. Preguntas' = {} => Preguntas = {}
  BY <1>6
<1>8. Preguntas # {} => Preguntas' # {}
  BY <1>7
<1>9. Colgada' => Colgada
  BY <1>4, <1>8 DEF Colgada
<1>10. Colgada => Colgada'
  BY <1>4, <1>5 DEF Colgada
<1>11. UnaPregunta'
  <2>1. ASSUME NEW k \in Preguntas'
        PROVE  /\ cpu.fase \in DOMAIN PreguntaDe /\ colaCpu'[k].pid = cpu.pid
               /\ colaCpu'[k].tipo = PreguntaDe[cpu.fase]
               /\ k = Len(colaCpu') /\ ~Atendida /\ ~Contestada
    <3>1. k + 1 \in Preguntas /\ colaCpu'[k] = colaCpu[k + 1] /\ k \in 1 .. l - 1
      BY <1>5, <2>1
    <3>2. PICK j : j = k + 1
      OBVIOUS
    <3>3. j \in Preguntas /\ colaCpu'[k] = colaCpu[j]
      BY <3>1, <3>2
    <3>4. /\ cpu.fase \in DOMAIN PreguntaDe /\ colaCpu[j].pid = cpu.pid
          /\ colaCpu[j].tipo = PreguntaDe[cpu.fase]
          /\ j = l /\ ~Atendida /\ ~Contestada
      BY <1>2, <3>3 DEF Dialogo, UnaPregunta
    <3>5. k = l - 1
      BY <3>1, <3>2, <3>4
    <3>6. QED
      BY <1>3, <3>3, <3>4, <3>5
  <2>2. /\ Atendida => cpu.fase = "resize" /\ hiloCpu.pid = cpu.pid /\ ~Contestada
        /\ Contestada => cpu.fase \in DOMAIN RespuestaDe /\ respuesta.tipo = RespuestaDe[cpu.fase]
        /\ cpu.fase \in DOMAIN PreguntaDe =>
             caida \/ Colgada \/ Preguntas # {} \/ Atendida \/ Contestada
    BY DEF Dialogo, UnaPregunta
  <2>3. QED
    BY <1>1, <1>4, <1>8, <1>10, <2>1, <2>2 DEF UnaPregunta
<1>12. Imagen'
  BY <1>1, <1>9 DEF Dialogo, Imagen
<1>13. QED
  BY <1>11, <1>12 DEF Dialogo

(* The memory takes the question: it was the last message.                    *)
LEMMA TomaLaPregunta ==
  ASSUME Bien, Dialogo, NEW tipo \in {"fetch", "pagina", "leer", "resize"}, RecibeDeCpu(tipo)
  PROVE  /\ colaCpu' = <<>> /\ Preguntas' = {}
         /\ cpu.fase \in DOMAIN PreguntaDe /\ PreguntaDe[cpu.fase] = tipo
         /\ Head(colaCpu).pid = cpu.pid
         /\ hiloCpu.paso = "espera" /\ respuesta = SinRespuesta
<1>1. /\ colaCpu \in Seq(Pedidos) /\ colaCpu # <<>> /\ colaCpu' = Tail(colaCpu)
      /\ Head(colaCpu).tipo = tipo /\ hiloCpu.paso = "espera"
  BY DEF RecibeDeCpu, Bien, TiposColas
<1>2. /\ Head(colaCpu) = colaCpu[1] /\ Len(colaCpu) \in Nat /\ Len(colaCpu) > 0
      /\ Tail(colaCpu) \in Seq(Pedidos) /\ Len(Tail(colaCpu)) = Len(colaCpu) - 1
      /\ DOMAIN colaCpu = 1 .. Len(colaCpu)
  BY <1>1, Sacar
<1>3. 1 \in Preguntas
  <2>1. 1 \in DOMAIN colaCpu
    BY <1>2
  <2>2. QED
    BY <1>1, <1>2, <2>1 DEF Preguntas
<1>4. /\ cpu.fase \in DOMAIN PreguntaDe /\ colaCpu[1].pid = cpu.pid
      /\ colaCpu[1].tipo = PreguntaDe[cpu.fase] /\ Len(colaCpu) = 1 /\ ~Contestada
  BY <1>3 DEF Dialogo, UnaPregunta
<1>5. colaCpu' = <<>>
  <2>1. Len(Tail(colaCpu)) = 0
    BY <1>2, <1>4
  <2>2. QED
    BY <1>1, <1>2, <2>1, EmptySeq
<1>6. Preguntas' = {}
  BY <1>5 DEF Preguntas
<1>7. QED
  BY <1>1, <1>2, <1>4, <1>5, <1>6 DEF Contestada

(* ... answers it, or works on it and then answers.                           *)
LEMMA DialogoContesta ==
  ASSUME Dialogo, UNCHANGED <<cpu, hechas, imagenes>>, Preguntas' = {},
         cpu.fase \in {"marco", "dato", "resize"},
         hiloCpu'.paso = "espera", respuesta'.tipo = RespuestaDe[cpu.fase]
  PROVE  Dialogo'
<1>1. /\ cpu.fase \in DOMAIN RespuestaDe
      /\ respuesta'.tipo \in {"marco", "dato", "resize"}
  BY Preguntan
<1>2. Contestada' /\ ~Atendida' /\ ~Colgada'
  BY <1>1 DEF Contestada, Atendida, Colgada, SinRespuesta
<1>3. UnaPregunta'
  BY <1>1, <1>2 DEF UnaPregunta
<1>4. Imagen'
  BY <1>1, <1>2 DEF Dialogo, Imagen
<1>5. QED
  BY <1>3, <1>4 DEF Dialogo

LEMMA DialogoFetch ==
  ASSUME Bien, Dialogo, RetornarSiguienteInstruccion, UNCHANGED <<cpu, hechas>>
  PROVE  Dialogo'
<1>1. RecibeDeCpu("fetch") /\ UNCHANGED <<hiloCpu, imagenes>>
  BY DEF RetornarSiguienteInstruccion, tablaVars
<1>2. /\ Preguntas' = {} /\ cpu.fase \in DOMAIN PreguntaDe /\ PreguntaDe[cpu.fase] = "fetch"
      /\ Head(colaCpu).pid = cpu.pid /\ hiloCpu.paso = "espera" /\ respuesta = SinRespuesta
  BY <1>1, TomaLaPregunta
<1>3. cpu.fase = "fetch" /\ ~Atendida' /\ cpu.fase \in DOMAIN RespuestaDe
  BY <1>1, <1>2, Preguntan DEF Atendida
<1>4. cpu.pid \in Pids /\ hechas \in [Pids -> Nat]
  BY <1>3, EnLaCpu DEF Bien, TiposResto
<1>5. PICK clave : clave = Clave(cpu.pid)
  OBVIOUS
<1>6. \/ clave \in imagenes /\ respuesta' = [tipo |-> "instruccion", valor |-> clave]
      \/ clave \in imagenes /\ cpu.pid \in mudos' /\ respuesta' = SinRespuesta
      \/ clave \notin imagenes /\ respuesta' = SinRespuesta
  BY <1>2, <1>5 DEF RetornarSiguienteInstruccion
<1>7. \A p \in Pids : hechas[p] > 0 => Clave(p) \in imagenes
  BY DEF Dialogo, Imagen
<1>8. CASE clave \in imagenes /\ respuesta' = [tipo |-> "instruccion", valor |-> clave]
  <2>1. respuesta'.tipo = "instruccion" /\ respuesta'.valor = clave
    BY <1>8
  <2>2. Contestada' /\ ~Colgada'
    BY <2>1 DEF Contestada, Colgada, SinRespuesta
  <2>3. UnaPregunta'
    BY <1>2, <1>3, <2>1, <2>2, Preguntan DEF UnaPregunta
  <2>4. Imagen'
    BY <1>1, <1>5, <1>7, <1>8, <2>1, <2>2 DEF Imagen
  <2>5. QED
    BY <2>3, <2>4 DEF Dialogo
<1>9. CASE respuesta' = SinRespuesta /\ (clave \notin imagenes \/ cpu.pid \in mudos')
  <2>1. ~Contestada' /\ Colgada' /\ respuesta'.tipo # "instruccion"
    BY <1>2, <1>3, <1>9 DEF Contestada, Colgada, SinRespuesta
  <2>2. UnaPregunta'
    BY <1>2, <1>3, <2>1 DEF UnaPregunta
  <2>3. cpu.pid \notin mudos' => hechas[cpu.pid] = 0
    BY <1>4, <1>5, <1>7, <1>9
  <2>4. Imagen'
    BY <1>1, <1>7, <2>1, <2>3 DEF Imagen
  <2>5. QED
    BY <2>2, <2>4 DEF Dialogo
<1>10. QED
  BY <1>6, <1>8, <1>9

LEMMA DialogoPagina ==
  ASSUME Bien, Dialogo, MensajePagina \/ MensajeLeer, UNCHANGED <<cpu, hechas>>
  PROVE  Dialogo'
<1>1. PICK tipo \in {"pagina", "leer"} :
        /\ RecibeDeCpu(tipo) /\ UNCHANGED <<hiloCpu, imagenes, mudos>>
        /\ tipo = "pagina" => respuesta'.tipo = "marco" \/ (caida' /\ respuesta' = respuesta)
        /\ tipo = "leer" => respuesta'.tipo = "dato"
  BY DEF MensajePagina, MensajeLeer, tablaVars
<1>2. /\ Preguntas' = {} /\ cpu.fase \in DOMAIN PreguntaDe /\ PreguntaDe[cpu.fase] = tipo
      /\ hiloCpu.paso = "espera" /\ respuesta = SinRespuesta
  BY <1>1, TomaLaPregunta
<1>3. /\ tipo = "pagina" => cpu.fase = "marco"
      /\ tipo = "leer" => cpu.fase = "dato"
  BY <1>1, <1>2, Preguntan
<1>4. CASE respuesta' # respuesta
  <2>1. cpu.fase \in {"marco", "dato"} /\ respuesta'.tipo = RespuestaDe[cpu.fase]
    BY <1>1, <1>3, <1>4, Preguntan
  <2>2. QED
    BY <1>1, <1>2, <2>1, DialogoContesta
<1>5. CASE respuesta' = respuesta
  <2>1. caida' /\ cpu.fase = "marco"
    BY <1>1, <1>2, <1>3, <1>5 DEF SinRespuesta
  <2>2. ~Atendida' /\ ~Contestada' /\ ~Colgada' /\ respuesta'.tipo # "instruccion"
    BY <1>1, <1>2, <1>5, <2>1 DEF Atendida, Contestada, Colgada, SinRespuesta
  <2>3. UnaPregunta'
    BY <1>2, <2>1, <2>2 DEF UnaPregunta
  <2>4. Imagen'
    BY <1>1, <2>2 DEF Dialogo, Imagen
  <2>5. QED
    BY <2>3, <2>4 DEF Dialogo
<1>6. QED
  BY <1>4, <1>5

LEMMA DialogoResize ==
  ASSUME Bien, Dialogo, Resize, UNCHANGED <<cpu, hechas>>
  PROVE  Dialogo'
<1>1. /\ RecibeDeCpu("resize") /\ UNCHANGED <<imagenes, mudos>>
      /\ \/ hiloCpu' = hiloCpu /\ respuesta'.tipo = "resize"
         \/ /\ hiloCpu'.paso # "espera" /\ hiloCpu'.pid = Head(colaCpu).pid
            /\ respuesta' = respuesta
  BY DEF Resize, Contesta
<1>2. /\ Preguntas' = {} /\ cpu.fase \in DOMAIN PreguntaDe /\ PreguntaDe[cpu.fase] = "resize"
      /\ Head(colaCpu).pid = cpu.pid /\ hiloCpu.paso = "espera" /\ respuesta = SinRespuesta
  BY <1>1, TomaLaPregunta
<1>3. cpu.fase = "resize" /\ RespuestaDe["resize"] = "resize"
  BY <1>2, Preguntan
<1>4. CASE hiloCpu' = hiloCpu /\ respuesta'.tipo = "resize"
  BY <1>1, <1>2, <1>3, <1>4, DialogoContesta
<1>5. CASE hiloCpu'.paso # "espera" /\ hiloCpu'.pid = Head(colaCpu).pid /\ respuesta' = respuesta
  <2>1. /\ Atendida' /\ ~Contestada' /\ ~Colgada' /\ hiloCpu'.pid = cpu.pid
        /\ respuesta'.tipo # "instruccion"
    BY <1>2, <1>3, <1>5 DEF Atendida, Contestada, Colgada, SinRespuesta
  <2>2. UnaPregunta'
    BY <1>2, <1>3, <2>1 DEF UnaPregunta
  <2>3. Imagen'
    BY <1>1, <2>1 DEF Dialogo, Imagen
  <2>4. QED
    BY <2>2, <2>3 DEF Dialogo
<1>6. QED
  BY <1>1, <1>4, <1>5

LEMMA DialogoDeMemoria ==
  ASSUME Bien, Dialogo, MemoriaNext, UNCHANGED <<cpu, hechas>>
  PROVE  Dialogo'
<1>1. CASE RetornarSiguienteInstruccion
  BY <1>1, DialogoFetch
<1>2. CASE MensajePagina \/ MensajeLeer
  BY <1>2, DialogoPagina
<1>3. CASE MensajeEscribir
  BY <1>3, DialogoEscribir
<1>4. CASE Resize
  BY <1>4, DialogoResize
<1>5. CASE MirarMarco \/ AgregarPagina \/ AchicarMarco
  <2>1. hiloCpu \in HilosCpu
    BY DEF Bien, TiposTablas
  <2>2. /\ hiloCpu'.paso = hiloCpu.paso /\ hiloCpu'.pid = hiloCpu.pid
        /\ UNCHANGED <<colaCpu, respuesta, imagenes, mudos, caida>>
    BY <1>5, <2>1 DEF MirarMarco, AgregarPagina, AchicarMarco, HilosCpu
  <2>3. QED
    BY <2>2, DialogoIgual
<1>6. CASE TerminarDeAgregar \/ TerminarDeAchicar
  <2>1. /\ Atendida /\ hiloCpu'.paso = "espera" /\ respuesta'.tipo = "resize"
        /\ UNCHANGED <<colaCpu, imagenes, mudos>>
    BY <1>6 DEF TerminarDeAgregar, TerminarDeAchicar, Atendida, CpuLibre, Contesta
  <2>2. cpu.fase = "resize" /\ Preguntas = {}
    BY <2>1 DEF Dialogo, UnaPregunta
  <2>3. Preguntas' = {}
    BY <2>1, <2>2 DEF Preguntas
  <2>4. QED
    BY <2>1, <2>2, <2>3, Preguntan, DialogoContesta
<1>7. CASE CrearImagen \/ FinalizarProceso \/ LiberarMarco \/ TerminarDeLiberar
  <2>1. /\ UNCHANGED <<hiloCpu, colaCpu, respuesta, mudos, caida>>
        /\ imagenes \subseteq imagenes'
    BY <1>7 DEF CrearImagen, FinalizarProceso, LiberarMarco, TerminarDeLiberar, tablaVars
  <2>2. QED
    BY <2>1, DialogoIgual
<1>8. QED
  BY <1>1, <1>2, <1>3, <1>4, <1>5, <1>6, <1>7 DEF MemoriaNext

(* The cycle is not waiting, or it has its answer: it goes on, and writes or  *)
(* asks at most once.                                                         *)
LEMMA DialogoCiclo ==
  ASSUME Bien, Dialogo, UNCHANGED <<hiloCpu, imagenes>>,
         \A p \in Pids : hechas'[p] > 0 => Clave(p) \in imagenes,
         \/ cpu.fase \notin DOMAIN PreguntaDe /\ respuesta' = respuesta
         \/ Contestada /\ respuesta' = SinRespuesta,
         \/ cpu'.fase \notin DOMAIN PreguntaDe /\ colaCpu' = colaCpu
         \/ \E m \in Pedidos :
              /\ colaCpu' = Append(colaCpu, m)
              /\ \/ cpu'.fase \notin DOMAIN PreguntaDe /\ m.tipo = "escribir"
                 \/ /\ cpu'.fase \in DOMAIN PreguntaDe
                    /\ m.tipo = PreguntaDe[cpu'.fase] /\ m.pid = cpu'.pid
  PROVE  Dialogo'
<1>1. Preguntas = {} /\ ~Atendida
  BY Preguntan DEF Dialogo, UnaPregunta
<1>2. respuesta' = SinRespuesta
  BY Preguntan DEF Dialogo, UnaPregunta, Contestada
<1>3. ~Atendida' /\ ~Contestada' /\ respuesta'.tipo # "instruccion"
  BY <1>1, <1>2 DEF Atendida, Contestada, SinRespuesta
<1>4. CASE cpu'.fase \notin DOMAIN PreguntaDe /\ colaCpu' = colaCpu
  <2>1. Preguntas' = {} /\ ~Colgada'
    BY <1>1, <1>4, Preguntan DEF Preguntas, Colgada
  <2>2. UnaPregunta' /\ Imagen'
    BY <1>3, <1>4, <2>1 DEF UnaPregunta, Imagen
  <2>3. QED
    BY <2>2 DEF Dialogo
<1>5. ASSUME NEW m \in Pedidos, colaCpu' = Append(colaCpu, m),
             \/ cpu'.fase \notin DOMAIN PreguntaDe /\ m.tipo = "escribir"
             \/ /\ cpu'.fase \in DOMAIN PreguntaDe
                /\ m.tipo = PreguntaDe[cpu'.fase] /\ m.pid = cpu'.pid
      PROVE  Dialogo'
  <2>1. colaCpu \in Seq(Pedidos)
    BY DEF Bien, TiposColas
  <2>2. PICK l \in Nat : l = Len(colaCpu)
    BY <2>1
  <2>3. /\ Len(colaCpu') = l + 1
        /\ DOMAIN colaCpu = 1 .. l /\ DOMAIN colaCpu' = 1 .. l + 1
        /\ colaCpu'[l + 1] = m
        /\ \A k \in DOMAIN colaCpu : colaCpu'[k] = colaCpu[k]
    BY <1>5, <2>1, <2>2, Agregar
  <2>4. ASSUME NEW k \in Preguntas' PROVE k = l + 1
    <3>1. k \in 1 .. l + 1 /\ colaCpu'[k].tipo # "escribir"
      BY <2>3, <2>4 DEF Preguntas
    <3>2. k \notin 1 .. l
      BY <1>1, <2>3, <3>1 DEF Preguntas
    <3>3. QED
      BY <2>2, <3>1, <3>2
  <2>5. CASE cpu'.fase \notin DOMAIN PreguntaDe /\ m.tipo = "escribir"
    <3>1. Preguntas' = {}
      BY <2>3, <2>4, <2>5 DEF Preguntas
    <3>2. ~Colgada'
      BY <2>5, Preguntan DEF Colgada
    <3>3. UnaPregunta' /\ Imagen'
      BY <1>3, <2>5, <3>1, <3>2 DEF UnaPregunta, Imagen
    <3>4. QED
      BY <3>3 DEF Dialogo
  <2>6. CASE /\ cpu'.fase \in DOMAIN PreguntaDe
             /\ m.tipo = PreguntaDe[cpu'.fase] /\ m.pid = cpu'.pid
    <3>1. m.tipo # "escribir"
      BY <2>6, Preguntan
    <3>2. l + 1 \in Preguntas'
      <4>1. l + 1 \in DOMAIN colaCpu'
        BY <2>2, <2>3
      <4>2. QED
        BY <2>3, <3>1, <4>1 DEF Preguntas
    <3>3. Preguntas' # {} /\ ~Colgada'
      BY <3>2 DEF Colgada
    <3>4. UnaPregunta'
      BY <1>3, <2>3, <2>4, <2>6, <3>3 DEF UnaPregunta
    <3>5. Imagen'
      BY <1>3, <3>3 DEF Imagen
    <3>6. QED
      BY <3>4, <3>5 DEF Dialogo
  <2>7. QED
    BY <1>5, <2>5, <2>6
<1>6. QED
  BY <1>4, <1>5

(* ... as it does when it runs an instruction that asks for nothing.          *)
LEMMA DialogoCalla ==
  ASSUME Bien, Dialogo, UNCHANGED <<hiloCpu, imagenes, hechas, colaCpu, respuesta>>,
         cpu.fase \notin DOMAIN PreguntaDe, cpu'.fase \notin DOMAIN PreguntaDe
  PROVE  Dialogo'
  BY DialogoCiclo DEF Dialogo, Imagen

LEMMA DialogoPide ==
  ASSUME Bien, Dialogo, UNCHANGED <<hiloCpu, imagenes, hechas, respuesta>>,
         NEW m \in Pedidos, colaCpu' = Append(colaCpu, m),
         cpu.fase \notin DOMAIN PreguntaDe, cpu'.fase \in DOMAIN PreguntaDe,
         m.tipo = PreguntaDe[cpu'.fase], m.pid = cpu'.pid
  PROVE  Dialogo'
  BY DialogoCiclo DEF Dialogo, Imagen

LEMMA DialogoRecibe ==
  ASSUME Bien, Dialogo, RecvInstruction \/ RecibirResize \/ RecibirDato
  PROVE  Dialogo'
<1>1. /\ UNCHANGED <<hiloCpu, imagenes, colaCpu>> /\ respuesta' = SinRespuesta
      /\ respuesta.tipo # "nada" /\ cpu.fase \in {"fetch", "resize", "dato"}
  BY DEF RecvInstruction, RecibirResize, RecibirDato, Recibe, tablaVars
<1>2. cpu \in Cpus /\ cpu.pid \in Pids /\ hechas \in [Pids -> Nat]
  BY <1>1, EnLaCpu DEF Bien, TiposResto
<1>3. cpu'.fase \in {"instruccion", "siguiente", "out_of_memory", "trozo"}
  BY <1>2 DEF RecvInstruction, RecibirResize, RecibirDato, Cpus
<1>4. cpu'.fase \notin DOMAIN PreguntaDe /\ Contestada
  BY <1>1, <1>3, Preguntan DEF Contestada, SinRespuesta
<1>5. \A p \in Pids : hechas'[p] > 0 => Clave(p) \in imagenes
  <2>1. \A p \in Pids : hechas[p] > 0 => Clave(p) \in imagenes
    BY DEF Dialogo, Imagen
  <2>2. CASE RecvInstruction
    <3>1. respuesta.tipo = "instruccion" /\ hechas' = [hechas EXCEPT ![cpu.pid] = @ + 1]
      BY <2>2 DEF RecvInstruction, Recibe
    <3>2. Clave(cpu.pid) \in imagenes
      BY <3>1 DEF Dialogo, Imagen
    <3>3. QED
      BY <1>2, <2>1, <3>1, <3>2
  <2>3. CASE RecibirResize \/ RecibirDato
    BY <2>1, <2>3 DEF RecibirResize, RecibirDato, restoVars
  <2>4. QED
    BY <2>2, <2>3
<1>6. QED
  BY <1>1, <1>4, <1>5, DialogoCiclo

LEMMA DialogoTransferir ==
  ASSUME Bien, Dialogo, NEW f \in ConNinguno, Transferir(f),
         UNCHANGED <<hiloCpu, imagenes, hechas>>,
         \/ cpu.fase = "trozo" /\ respuesta' = respuesta
         \/ cpu.fase = "marco" /\ respuesta.tipo = "marco" /\ respuesta' = SinRespuesta
  PROVE  Dialogo'
<1>1. cpu.pid \in Pids /\ cpu \in Cpus
  BY EnLaCpu
<1>2. PICK p \in Pids, o \in Nat : p = cpu.pid /\ o = cpu.desp /\ cpu.resta \in Nat
  BY <1>1, Supuestos DEF Cpus
<1>3. Disponibles \in Nat
  BY <1>1, <1>2, Supuestos DEF Disponibles, Cpus
<1>4. PICK c \in Nat : c = Min({cpu.resta, Disponibles})
  BY <1>2, <1>3, MinDeDos
<1>5. PICK m \in Pedidos :
        /\ m.tipo = (IF cpu.lectura THEN "leer" ELSE "escribir") /\ m.pid = p
        /\ cpu.op # "io" => colaCpu' = Append(colaCpu, m)
  <2> DEFINE tipo == IF cpu.lectura THEN "leer" ELSE "escribir"
             a == [Pedido(tipo, p) EXCEPT !.marco = f, !.desp = o, !.cant = c]
  <2>1. cpu.op # "io" => colaCpu' = Append(colaCpu, a)
    BY <1>2, <1>4 DEF Transferir, Pide
  <2>2. tipo \in {"leer", "escribir"}
    OBVIOUS
  <2>3. \A t \in {"leer", "escribir"} :
          LET b == [Pedido(t, p) EXCEPT !.marco = f, !.desp = o, !.cant = c]
          IN  b \in Pedidos /\ b.tipo = t /\ b.pid = p
    BY DEF Pedido, Pedidos, ConNinguno
  <2> HIDE DEF tipo
  <2>4. a \in Pedidos /\ a.tipo = tipo /\ a.pid = p
    BY <2>2, <2>3
  <2> HIDE DEF a
  <2>5. QED
    BY <2>1, <2>4 DEF tipo
<1>6. cpu.op = "io" => colaCpu' = colaCpu
  BY DEF Transferir
<1>7. cpu'.fase = (IF cpu.op # "io" /\ cpu.lectura THEN "dato" ELSE "trozo") /\ cpu'.pid = p
  <2> DEFINE fase   == IF cpu.op # "io" /\ cpu.lectura THEN "dato" ELSE "trozo"
             trozos == Append(cpu.trozos, [marco |-> f, desp |-> cpu.desp, cant |-> c])
             resta  == cpu.resta - c
             pagina == cpu.pagina + 1
  <2>1. cpu' = [cpu EXCEPT !.fase = fase, !.trozos = trozos, !.resta = resta,
                           !.pagina = pagina, !.desp = 0]
    BY <1>1, <1>4 DEF Transferir, Cpus
  <2> HIDE DEF trozos, resta, pagina
  <2>2. QED
    BY <1>1, <1>2, <2>1 DEF Cpus
<1>8. \/ cpu.fase \notin DOMAIN PreguntaDe /\ respuesta' = respuesta
      \/ Contestada /\ respuesta' = SinRespuesta
  BY Preguntan DEF Contestada, SinRespuesta
<1>9. \/ cpu'.fase \notin DOMAIN PreguntaDe /\ colaCpu' = colaCpu
      \/ /\ colaCpu' = Append(colaCpu, m)
         /\ \/ cpu'.fase \notin DOMAIN PreguntaDe /\ m.tipo = "escribir"
            \/ /\ cpu'.fase \in DOMAIN PreguntaDe
               /\ m.tipo = PreguntaDe[cpu'.fase] /\ m.pid = cpu'.pid
  BY <1>5, <1>6, <1>7, Preguntan
<1>10. \A p0 \in Pids : hechas'[p0] > 0 => Clave(p0) \in imagenes
  BY DEF Dialogo, Imagen
<1>11. QED
  BY <1>8, <1>9, <1>10, DialogoCiclo

LEMMA DialogoMarco ==
  ASSUME Bien, Dialogo, ObtenerMarco \/ PedirMarco \/ RecibirMarco
  PROVE  Dialogo'
<1>1. UNCHANGED <<hiloCpu, imagenes, hechas>>
  BY DEF ObtenerMarco, PedirMarco, RecibirMarco, tablaVars, restoVars
<1>2. CASE ObtenerMarco
  <2>1. PICK k \in Aciertos : Transferir(tlb[k].marco)
    BY <1>2 DEF ObtenerMarco
  <2>2. k \in DOMAIN tlb /\ tlb \in Seq(Entradas)
    BY <2>1 DEF Aciertos, Bien, TiposCpu
  <2>3. tlb[k] \in Entradas
    BY <2>2
  <2>4. tlb[k].marco \in ConNinguno /\ cpu.fase = "trozo" /\ UNCHANGED respuesta
    BY <1>2, <2>3 DEF ObtenerMarco, Entradas
  <2>5. QED
    BY <1>1, <2>1, <2>4, DialogoTransferir
<1>3. CASE PedirMarco
  <2> DEFINE a == [Pedido("pagina", cpu.pid) EXCEPT !.pagina = cpu.pagina]
  <2>1. /\ cpu.fase = "trozo" /\ cpu' = [cpu EXCEPT !.fase = "marco"]
        /\ colaCpu' = Append(colaCpu, a) /\ UNCHANGED respuesta
    BY <1>3 DEF PedirMarco, Pide
  <2>2. cpu.pid \in Pids /\ cpu \in Cpus
    BY <2>1, EnLaCpu
  <2>3. a \in Pedidos /\ a.tipo = "pagina" /\ a.pid = cpu.pid
    BY <2>2 DEF Pedido, Pedidos, Cpus
  <2>4. cpu'.fase = "marco" /\ cpu'.pid = cpu.pid
    BY <2>1, <2>2 DEF Cpus
  <2> HIDE DEF a
  <2>5. QED
    BY <1>1, <2>1, <2>3, <2>4, Preguntan, DialogoPide
<1>4. CASE RecibirMarco
  <2>1. /\ Transferir(respuesta.valor) /\ respuesta.valor \in ConNinguno /\ cpu.fase = "marco"
        /\ respuesta.tipo = "marco" /\ respuesta' = SinRespuesta
    BY <1>4 DEF RecibirMarco, Recibe, Bien, TiposColas
  <2>2. QED
    BY <1>1, <2>1, DialogoTransferir
<1>5. QED
  BY <1>2, <1>3, <1>4

LEMMA DialogoPregunta ==
  ASSUME Bien, Dialogo,
         \/ \E p \in Pids : RecibirPcb(p)
         \/ SolicitarInstruccion
         \/ \E t \in TamanosResize : EjecutarResize(t)
  PROVE  Dialogo'
<1>1. CASE \E p \in Pids : RecibirPcb(p)
  <2>1. PICK p \in Pids : RecibirPcb(p)
    BY <1>1
  <2>2. /\ cpu.fase = "ocioso" /\ cpu'.fase = "fetch" /\ cpu'.pid = p
        /\ UNCHANGED <<hiloCpu, imagenes, hechas, respuesta>>
        /\ colaCpu' = Append(colaCpu, Pedido("fetch", p))
    BY <2>1 DEF RecibirPcb, Pide, Ocioso, tablaVars
  <2>3. Pedido("fetch", p) \in Pedidos /\ Pedido("fetch", p).tipo = "fetch" /\ Pedido("fetch", p).pid = p
    BY PedidoTipo
  <2>4. QED
    BY <2>2, <2>3, Preguntan, DialogoPide
<1>2. CASE SolicitarInstruccion
  <2>1. /\ cpu.fase = "siguiente" /\ cpu'.fase = "fetch" /\ cpu'.pid = cpu.pid
        /\ UNCHANGED <<hiloCpu, imagenes, hechas, respuesta>>
        /\ colaCpu' = Append(colaCpu, Pedido("fetch", cpu.pid))
    BY <1>2 DEF SolicitarInstruccion, Pide, Ocioso, tablaVars, restoVars
  <2>2. PICK p \in Pids : p = cpu.pid
    BY <2>1, EnLaCpu
  <2>3. Pedido("fetch", p) \in Pedidos /\ Pedido("fetch", p).tipo = "fetch" /\ Pedido("fetch", p).pid = p
    BY PedidoTipo
  <2>4. QED
    BY <2>1, <2>2, <2>3, Preguntan, DialogoPide
<1>3. CASE \E t \in TamanosResize : EjecutarResize(t)
  <2>1. PICK t \in TamanosResize : EjecutarResize(t)
    BY <1>3
  <2> DEFINE a == [Pedido("resize", cpu.pid) EXCEPT !.cant = t]
  <2>2. /\ cpu.fase = "instruccion" /\ cpu' = [cpu EXCEPT !.fase = "resize", !.tam = t]
        /\ colaCpu' = Append(colaCpu, a) /\ UNCHANGED <<hiloCpu, imagenes, hechas, respuesta>>
    BY <2>1 DEF EjecutarResize, Ejecuta, Pide, tablaVars, restoVars
  <2>3. cpu.pid \in Pids /\ cpu \in Cpus /\ t \in Nat
    BY <2>2, EnLaCpu, MmuAssumption
  <2>4. a \in Pedidos /\ a.tipo = "resize" /\ a.pid = cpu.pid
    BY <2>3 DEF Pedido, Pedidos
  <2>5. cpu'.fase = "resize" /\ cpu'.pid = cpu.pid
    BY <2>2, <2>3 DEF Cpus
  <2> HIDE DEF a
  <2>6. QED
    BY <2>2, <2>4, <2>5, Preguntan, DialogoPide
<1>4. QED
  BY <1>1, <1>2, <1>3

LEMMA DialogoSinMensajes ==
  ASSUME Bien, Dialogo,
         \/ ManejarInterrupcion \/ EnviarPcbFinalizado
         \/ TerminarMov \/ CopiarADestino \/ SolicitarIo
         \/ \E op \in {"mov", "copiar", "io"}, dir \in Direcciones, tam \in Tamanos,
               lectura \in BOOLEAN, destino \in Nat : Empezar(op, dir, tam, lectura, destino)
  PROVE  Dialogo'
<1>1. UNCHANGED <<hiloCpu, imagenes, hechas, colaCpu, respuesta>>
  BY DEF ManejarInterrupcion, EnviarPcbFinalizado, TerminarMov, CopiarADestino, SolicitarIo, Empezar,
         memoriaVars, tablaVars, restoVars
<1>2. cpu.fase \in {"siguiente", "instruccion", "out_of_memory", "trozo"}
  BY DEF ManejarInterrupcion, EnviarPcbFinalizado, TerminarMov, CopiarADestino, SolicitarIo, Empezar,
         Ejecuta, Transferido
<1>3. cpu \in Cpus
  BY <1>2, EnLaCpu
<1>4. cpu'.fase \in {"ocioso", "siguiente", "trozo"}
  <2>1. CASE ManejarInterrupcion \/ EnviarPcbFinalizado \/ SolicitarIo
    BY <2>1 DEF ManejarInterrupcion, EnviarPcbFinalizado, SolicitarIo, Ocioso
  <2>2. CASE TerminarMov
    BY <2>2 DEF TerminarMov, Ocioso
  <2>3. CASE CopiarADestino
    BY <1>3, <2>3 DEF CopiarADestino, Transferido, Cpus
  <2>4. CASE \E op \in {"mov", "copiar", "io"}, dir \in Direcciones, tam \in Tamanos,
               lectura \in BOOLEAN, destino \in Nat : Empezar(op, dir, tam, lectura, destino)
    BY <1>3, <2>4 DEF Empezar, Cpus
  <2>5. QED
    BY <2>1, <2>2, <2>3, <2>4
<1>5. cpu.fase \notin DOMAIN PreguntaDe /\ cpu'.fase \notin DOMAIN PreguntaDe
  BY <1>2, <1>4, Preguntan
<1>6. QED
  BY <1>1, <1>5, DialogoCalla

LEMMA DialogoSiguiente ==
  ASSUME Bien, Dialogo, Next
  PROVE  Dialogo'
<1>1. CASE MemoriaNext /\ UNCHANGED <<cpuVars, restoVars>>
  BY <1>1, DialogoDeMemoria DEF cpuVars, restoVars
<1>2. ASSUME NEW p \in Pids,
             CrearProceso(p) \/ Finalizar(p) \/ EndProcess(p)
               \/ EscribirMemoria(p) \/ LeerMemoria(p) \/ ResponderStdout(p)
      PROVE  Dialogo'
  <2>1. UNCHANGED <<hiloCpu, colaCpu, respuesta, imagenes, mudos, caida, cpu, hechas>>
    BY <1>2 DEF CrearProceso, Finalizar, EndProcess, EscribirMemoria, LeerMemoria, ResponderStdout,
                memoriaVars, tablaVars, cpuVars
  <2>2. QED
    BY <2>1, DialogoIgual
<1>3. CASE EscribirDeIo
  <2>1. UNCHANGED <<hiloCpu, colaCpu, respuesta, imagenes, mudos, caida, cpu, hechas>>
    BY <1>3 DEF EscribirDeIo, memoriaVars, tablaVars, cpuVars
  <2>2. QED
    BY <2>1, DialogoIgual
<1>4. CASE \/ \E p \in Pids : RecibirPcb(p)
           \/ SolicitarInstruccion
           \/ \E t \in TamanosResize : EjecutarResize(t)
  BY <1>4, DialogoPregunta
<1>5. CASE RecvInstruction \/ RecibirResize \/ RecibirDato
  BY <1>5, DialogoRecibe
<1>6. CASE ObtenerMarco \/ PedirMarco \/ RecibirMarco
  BY <1>6, DialogoMarco
<1>7. CASE ManejarInterrupcion \/ EnviarPcbFinalizado \/ TerminarMov \/ CopiarADestino \/ SolicitarIo
  BY <1>7, DialogoSinMensajes
<1>8. ASSUME NEW dir \in Direcciones, NEW tam \in Tamanos,
             \/ MovIn(dir, tam) \/ MovOut(dir, tam)
             \/ \E destino \in Destinos : CopyString(dir, destino, tam)
             \/ \E lectura \in BOOLEAN : ExecIoFrames(dir, tam, lectura)
      PROVE  Dialogo'
  BY <1>8, AlgunaEmpieza, DialogoSinMensajes
<1>9. QED
  BY <1>1, <1>2, <1>3, <1>4, <1>5, <1>6, <1>7, <1>8 DEF Next

LEMMA ClavePropia ==
  ASSUME NEW p \in Nat, p < Claves
  PROVE  Clave(p) = p
<1>1. \A c \in Nat : p < c => p % c = p
  OBVIOUS
<1>2. QED
  BY <1>1, MemoriaAssumption DEF Clave

(* Every wait of the CPU is for one question of its own that the memory has,  *)
(* serves or answered, but for a fetch of an instruction the program does not *)
(* have or before the image its key names; and the instruction that comes is  *)
(* of that image, its own if uint8_to_string keeps its pid.                   *)
THEOREM CadaPreguntaSuRespuesta == Spec => []RespuestaPropia
<1>1. ASSUME Bien, Dialogo, [Next]_vars PROVE (Bien /\ Dialogo)'
  <2>1. CASE Next
    BY <1>1, <2>1, BienSiguiente, DialogoSiguiente
  <2>2. CASE UNCHANGED vars
    <3>1. UNCHANGED <<hiloCpu, colaCpu, respuesta, imagenes, mudos, caida, cpu, hechas>>
      BY <2>2 DEF vars, memoriaVars, tablaVars, cpuVars, restoVars
    <3>2. QED
      BY <1>1, <2>2, <3>1, BienSinCambios, DialogoIgual
  <2>3. QED
    BY <1>1, <2>1, <2>2
<1>2. Bien /\ Dialogo => RespuestaPropia
  <2>1. Bien => cpu.pid \in Nat
    BY DEF Bien, TiposCpu, Cpus
  <2>2. QED
    BY <2>1, ClavePropia DEF Dialogo, Imagen, RespuestaPropia
<1>3. QED
  BY <1>1, <1>2, BienInicial, DialogoInicial, PTL DEF Spec

-----------------------------------------------------------------------------
(***************************************************************************)
(* From the page of an address to the frame its bytes are read from or     *)
(* written to.                                                             *)
(*                                                                         *)
(* Fiel says that a frame that was resolved and is kept somewhere (the     *)
(* TLB, the answer of the memory, the pieces of a transfer, a request of   *)
(* an interface, a message that was not received yet) is the one of its    *)
(* page for as long as the process has not shrunk or ended, and one that   *)
(* the process has or gave back even then. Bytes says how the pieces of a  *)
(* transfer cover the addresses it is about.                               *)
(***************************************************************************)
EnTransferencia == cpu.fase \in {"trozo", "marco", "dato"}

(* The frame f was resolved for the page n of the process p, or for one of   *)
(* its pages: it still is, unless the process shrank or ended.                *)
Viva(p) == p \in existe \/ estado[p] = "fin"

Poseidos(p) == ToSet(tablas[p]) \cup soltados[p]

DeLaPagina(p, n, f) ==
  /\ Viva(p) /\ f \in Poseidos(p)
  /\ p \in existe \ achicados => n \in DOMAIN tablas[p] /\ tablas[p][n] = f

DeAlguna(p, f) ==
  /\ Viva(p) /\ f \in Poseidos(p)
  /\ p \in existe \ achicados => f \in ToSet(tablas[p])

TlbFiel == \A k \in DOMAIN tlb : DeLaPagina(tlb[k].pid, tlb[k].pagina + 1, tlb[k].marco)

RespuestaFiel ==
  respuesta.tipo = "marco" =>
    cpu.fase = "marco" /\ DeLaPagina(cpu.pid, cpu.pagina + 1, respuesta.valor)

TrozosFieles ==
  /\ cpu.fase \in {"fetch", "instruccion"} => cpu.trozos = <<>>
  /\ EnTransferencia =>
       /\ cpu.pagina = NumPagina(cpu.dir) + Len(cpu.trozos)
       /\ \A k \in DOMAIN cpu.trozos :
            DeLaPagina(cpu.pid, NumPagina(cpu.dir) + k, cpu.trozos[k].marco)

IoFiel ==
  /\ \A p \in Pids : \A t \in ToSet(io[p].trozos) : DeAlguna(p, t.marco)
  /\ \A e \in enVuelo : DeAlguna(e.pid, e.trozo.marco)

(* Whoever shrinks is known from when the RESIZE is sent; and no other        *)
(* process has the frame that a message of the CPU is about.                  *)
Achica(m) == PaginasPara(m.cant) < Len(tablas[m.pid]) => m.pid \in achicados

SinOtroDueno(m) ==
  m.pid \notin achicados =>
    \A q \in Pids \ {m.pid} : \A n \in DOMAIN tablas[q] : Tiene(q, n) => tablas[q][n] # m.marco

MensajeBien(m) ==
  /\ m.tipo = "resize" => Achica(m)
  /\ m.tipo \in {"leer", "escribir"} =>
       SinOtroDueno(m) /\ m.marco \in Poseidos(m.pid)

MensajesBien == \A k \in DOMAIN colaCpu : MensajeBien(colaCpu[k])

PaginaUltima ==
  \A k \in DOMAIN colaCpu : colaCpu[k].tipo = "pagina" =>
    /\ k = Len(colaCpu)
    /\ cpu.fase = "marco" /\ colaCpu[k].pid = cpu.pid /\ colaCpu[k].pagina = cpu.pagina
    /\ respuesta.tipo # "marco"

(* The loops gave back the frames they passed, of who shrinks or has ended.   *)
Sueltas ==
  /\ soltados \in [Pids -> SUBSET ConNinguno]
  /\ \A p \in Pids : \A n \in DOMAIN tablas[p] :
       Liberada(p, n) => tablas[p][n] \in soltados[p]
  /\ \A p \in Pids : soltados[p] # {} => p \in achicados \/ estado[p] = "fin"

HilosFieles ==
  /\ hiloCpu.paso = "achicar" => hiloCpu.pid \in achicados
  /\ hiloCpu.paso # "espera" => colaCpu = <<>>
  /\ hiloKernel.paso = "liberar" => hiloKernel.pid \notin existe
  /\ Sueltas

Fiel == /\ TlbFiel /\ RespuestaFiel /\ TrozosFieles /\ IoFiel
        /\ MensajesBien /\ PaginaUltima /\ HilosFieles

-----------------------------------------------------------------------------
(* Tables only grow, but for who shrinks or ends; and no frame is forgotten.  *)
Crecen ==
  /\ achicados \subseteq achicados'
  /\ \A p \in Pids :
       /\ Viva(p) => Viva(p)'
       /\ Poseidos(p) \subseteq Poseidos(p)'
       /\ estado[p] = "fin" => estado'[p] = "fin"
       /\ Viva(p) /\ p \in existe' \ achicados' =>
            /\ p \in existe
            /\ \A n \in DOMAIN tablas[p] : n \in DOMAIN tablas'[p] /\ tablas'[p][n] = tablas[p][n]

(* No process comes to have a frame.                                          *)
SinNuevas ==
  \A q \in Pids :
    /\ Len(tablas'[q]) <= Len(tablas[q])
    /\ \A n \in DOMAIN tablas'[q] :
         n \in DOMAIN tablas[q] /\ tablas'[q][n] = tablas[q][n] /\ (Tiene(q, n)' => Tiene(q, n))

LEMMA Persiste ==
  ASSUME Crecen, NEW p \in Pids, NEW n, NEW f
  PROVE  /\ DeLaPagina(p, n, f) => DeLaPagina(p, n, f)'
         /\ DeAlguna(p, f) => DeAlguna(p, f)'
  BY DEF Crecen, DeLaPagina, DeAlguna, ToSet

LEMMA DePaginaEsDeAlguna ==
  ASSUME NEW p, NEW n, NEW f, DeLaPagina(p, n, f)
  PROVE  DeAlguna(p, f)
  BY DEF DeLaPagina, DeAlguna, ToSet

LEMMA MensajePersiste ==
  ASSUME SinNuevas, Crecen, NEW m \in Pedidos, MensajeBien(m),
         tablas \in [Pids -> Seq(ConNinguno)], tablas' \in [Pids -> Seq(ConNinguno)]
  PROVE  MensajeBien(m)'
<1>1. m.pid \in Pids /\ m.cant \in Nat
  BY DEF Pedidos
<1>2. PICK g \in Nat : g = PaginasPara(m.cant)
  BY <1>1, Division
<1>3. m.tipo = "resize" => Achica(m)'
  <2>1. Len(tablas'[m.pid]) <= Len(tablas[m.pid]) /\ Len(tablas'[m.pid]) \in Nat /\ Len(tablas[m.pid]) \in Nat
    BY <1>1, LenProperties DEF SinNuevas
  <2>2. m.tipo = "resize" => Achica(m)
    BY DEF MensajeBien
  <2>3. QED
    BY <1>2, <2>1, <2>2 DEF Achica, Crecen
<1>4. m.tipo \in {"leer", "escribir"} => SinOtroDueno(m)'
  BY DEF MensajeBien, SinOtroDueno, SinNuevas, Crecen
<1>5. m.tipo \in {"leer", "escribir"} => m.marco \in Poseidos(m.pid)'
  <2>1. Poseidos(m.pid) \subseteq Poseidos(m.pid)'
    BY <1>1 DEF Crecen
  <2>2. QED
    BY <2>1 DEF MensajeBien
<1>6. QED
  BY <1>3, <1>4, <1>5 DEF MensajeBien

LEMMA ColaBien ==
  ASSUME colaCpu \in Seq(Pedidos), MensajesBien,
         \A m \in Pedidos : MensajeBien(m) => MensajeBien(m)',
         \/ colaCpu' = colaCpu
         \/ colaCpu # <<>> /\ colaCpu' = Tail(colaCpu)
         \/ \E m \in Pedidos : colaCpu' = Append(colaCpu, m) /\ MensajeBien(m)'
  PROVE  MensajesBien'
<1> SUFFICES ASSUME NEW k \in DOMAIN colaCpu' PROVE MensajeBien(colaCpu[k])'
  BY DEF MensajesBien
<1>1. \A j \in DOMAIN colaCpu : colaCpu[j] \in Pedidos
  BY ElementOfSeq, LenProperties
<1>2. ASSUME NEW j \in DOMAIN colaCpu, colaCpu'[k] = colaCpu[j]
      PROVE  MensajeBien(colaCpu[k])'
  <2>1. PICK m \in Pedidos : m = colaCpu[j]
    BY <1>1
  <2>2. MensajeBien(m)
    BY <2>1 DEF MensajesBien
  <2>3. MensajeBien(m)' /\ colaCpu'[k] = m
    BY <1>2, <2>1, <2>2
  <2>4. QED
    BY <2>3
<1>3. CASE colaCpu' = colaCpu
  BY <1>2, <1>3
<1>4. CASE colaCpu # <<>> /\ colaCpu' = Tail(colaCpu)
  BY <1>2, <1>4, Sacar
<1>5. CASE \E m \in Pedidos : colaCpu' = Append(colaCpu, m) /\ MensajeBien(m)'
  <2>1. PICK m \in Pedidos : colaCpu' = Append(colaCpu, m) /\ MensajeBien(m)'
    BY <1>5
  <2>2. /\ Len(colaCpu) \in Nat /\ DOMAIN colaCpu = 1 .. Len(colaCpu)
        /\ DOMAIN colaCpu' = 1 .. Len(colaCpu) + 1
        /\ colaCpu'[Len(colaCpu) + 1] = m
        /\ \A j \in DOMAIN colaCpu : colaCpu'[j] = colaCpu[j]
    BY <2>1, Agregar
  <2>3. CASE k \in DOMAIN colaCpu
    BY <1>2, <2>2, <2>3
  <2>4. CASE k \notin DOMAIN colaCpu
    <3>1. PICK l \in Nat : l = Len(colaCpu)
      BY <2>2
    <3>2. k \in 1 .. l + 1 /\ k \notin 1 .. l
      BY <2>2, <2>4, <3>1
    <3>3. k = l + 1
      BY <3>2
    <3>4. colaCpu'[k] = m
      BY <2>2, <3>1, <3>3
    <3>5. QED
      BY <2>1, <3>4
  <2>5. QED
    BY <2>3, <2>4
<1>6. QED
  BY <1>3, <1>4, <1>5

-----------------------------------------------------------------------------
LEMMA TlbQuieta ==
  ASSUME Bien, Crecen, TlbFiel, UNCHANGED tlb
  PROVE  TlbFiel'
<1> SUFFICES ASSUME NEW k \in DOMAIN tlb
             PROVE  DeLaPagina(tlb[k].pid, tlb[k].pagina + 1, tlb[k].marco)'
  BY DEF TlbFiel
<1>1. tlb[k] \in Entradas
  BY ElementOfSeq, LenProperties DEF Bien, TiposCpu
<1>2. PICK p, n, f : p \in Pids /\ p = tlb[k].pid /\ n = tlb[k].pagina + 1 /\ f = tlb[k].marco
  BY <1>1 DEF Entradas
<1>3. DeLaPagina(p, n, f)
  BY <1>2 DEF TlbFiel
<1>4. DeLaPagina(p, n, f)'
  BY <1>2, <1>3, Persiste
<1>5. QED
  BY <1>2, <1>4

LEMMA IoPaso ==
  ASSUME Bien, Crecen, IoFiel,
         \A p \in Pids : \A t \in ToSet(io'[p].trozos) : t \in ToSet(io[p].trozos) \/ DeAlguna(p, t.marco),
         \A e \in enVuelo' : /\ e.pid \in Pids
                             /\ e \in enVuelo \/ e.trozo \in ToSet(io[e.pid].trozos)
  PROVE  IoFiel'
<1>1. ASSUME NEW p \in Pids, NEW t \in ToSet(io'[p].trozos)
      PROVE  DeAlguna(p, t.marco)'
  <2>1. DeAlguna(p, t.marco)
    BY <1>1 DEF IoFiel
  <2>2. QED
    BY <2>1, Persiste
<1>2. ASSUME NEW e \in enVuelo' PROVE DeAlguna(e.pid, e.trozo.marco)'
  <2>1. PICK p, f : p \in Pids /\ p = e.pid /\ f = e.trozo.marco
    BY <1>2
  <2>2. DeAlguna(p, f)
    BY <1>2, <2>1 DEF IoFiel
  <2>3. DeAlguna(p, f)'
    BY <2>1, <2>2, Persiste
  <2>4. QED
    BY <2>1, <2>3
<1>3. QED
  BY <1>1, <1>2 DEF IoFiel

LEMMA TrozosQuietos ==
  ASSUME Bien, Crecen, TrozosFieles, EnTransferencia,
         UNCHANGED <<cpu.pid, cpu.dir, cpu.trozos, cpu.pagina>>,
         cpu'.fase \notin {"fetch", "instruccion"}
  PROVE  TrozosFieles'
<1>1. PICK p, d, s, g : p \in Pids /\ p = cpu.pid /\ d = cpu.dir /\ s = cpu.trozos /\ g = cpu.pagina
  BY EnLaCpu DEF EnTransferencia
<1>2. p = cpu'.pid /\ d = cpu'.dir /\ s = cpu'.trozos /\ g = cpu'.pagina
  BY <1>1
<1>3. /\ g = NumPagina(d) + Len(s)
      /\ \A k \in DOMAIN s : DeLaPagina(p, NumPagina(d) + k, s[k].marco)
  BY <1>1 DEF TrozosFieles
<1>4. ASSUME NEW k \in DOMAIN s PROVE DeLaPagina(p, NumPagina(d) + k, s[k].marco)'
  <2>1. PICK n, f : n = NumPagina(d) + k /\ f = s[k].marco
    OBVIOUS
  <2>2. DeLaPagina(p, n, f)
    BY <1>3, <2>1
  <2>3. DeLaPagina(p, n, f)'
    BY <1>1, <2>2, Persiste
  <2>4. QED
    BY <2>1, <2>3
<1>5. QED
  BY <1>2, <1>3, <1>4 DEF TrozosFieles

-----------------------------------------------------------------------------
(* Whoever ended has ended.                                                   *)
LEMMA FinQueda ==
  ASSUME Bien, Next
  PROVE  \A p \in Pids : estado[p] = "fin" => estado'[p] = "fin"
<1> SUFFICES ASSUME NEW p \in Pids, estado[p] = "fin" PROVE estado'[p] = "fin"
  OBVIOUS
<1>1. estado \in [Pids -> Estados]
  BY DEF Bien, TiposResto
<1>2. cpu.fase # "ocioso" => cpu.pid # p
  BY DEF Bien, Vidas
<1> USE DEF restoVars
<1>3. CASE MemoriaNext /\ UNCHANGED <<cpuVars, restoVars>>
  BY <1>3
<1>4. ASSUME NEW q \in Pids, CrearProceso(q) \/ Finalizar(q) \/ EndProcess(q) \/ RecibirPcb(q)
      PROVE  estado'[p] = "fin"
  BY <1>1, <1>4 DEF CrearProceso, Finalizar, EndProcess, RecibirPcb
<1>5. ASSUME NEW q \in Pids, EscribirMemoria(q) \/ LeerMemoria(q) \/ ResponderStdout(q)
      PROVE  estado'[p] = "fin"
  BY <1>1, <1>5 DEF EscribirMemoria, LeerMemoria, ResponderStdout, Responder
<1>6. CASE EscribirDeIo \/ RecvInstruction \/ SolicitarInstruccion \/ RecibirResize
  BY <1>6 DEF EscribirDeIo, RecvInstruction, SolicitarInstruccion, RecibirResize
<1>7. CASE ManejarInterrupcion \/ EnviarPcbFinalizado \/ SolicitarIo
  BY <1>1, <1>2, <1>7 DEF ManejarInterrupcion, EnviarPcbFinalizado, SolicitarIo, Transferido
<1>8. CASE \E t \in TamanosResize : EjecutarResize(t)
  BY <1>8 DEF EjecutarResize
<1>9. CASE \E dir \in Direcciones, tam \in Tamanos :
             \/ MovIn(dir, tam) \/ MovOut(dir, tam)
             \/ \E destino \in Destinos : CopyString(dir, destino, tam)
             \/ \E lectura \in BOOLEAN : ExecIoFrames(dir, tam, lectura)
  BY <1>9 DEF MovIn, MovOut, CopyString, ExecIoFrames, Empezar
<1>10. CASE ObtenerMarco \/ PedirMarco \/ RecibirMarco \/ RecibirDato \/ TerminarMov \/ CopiarADestino
  BY <1>10 DEF ObtenerMarco, PedirMarco, RecibirMarco, RecibirDato, TerminarMov, CopiarADestino
<1>11. QED
  BY <1>3, <1>4, <1>5, <1>6, <1>7, <1>8, <1>9, <1>10 DEF Next

LEMMA AchicadosQueda ==
  ASSUME Next
  PROVE  achicados \subseteq achicados'
<1> USE DEF cpuVars
<1>1. CASE MemoriaNext /\ UNCHANGED <<cpuVars, restoVars>>
  BY <1>1
<1>2. ASSUME NEW p \in Pids,
             CrearProceso(p) \/ Finalizar(p) \/ EndProcess(p) \/ RecibirPcb(p)
               \/ EscribirMemoria(p) \/ LeerMemoria(p) \/ ResponderStdout(p)
      PROVE  UNCHANGED achicados
  BY <1>2 DEF CrearProceso, Finalizar, EndProcess, RecibirPcb, EscribirMemoria, LeerMemoria,
              ResponderStdout
<1>3. CASE EscribirDeIo \/ RecvInstruction \/ SolicitarInstruccion \/ ManejarInterrupcion
             \/ EnviarPcbFinalizado \/ RecibirResize
  BY <1>3 DEF EscribirDeIo, RecvInstruction, SolicitarInstruccion, ManejarInterrupcion,
              EnviarPcbFinalizado, RecibirResize
<1>4. CASE \E t \in TamanosResize : EjecutarResize(t)
  BY <1>4 DEF EjecutarResize
<1>5. CASE \E dir \in Direcciones, tam \in Tamanos :
             \/ MovIn(dir, tam) \/ MovOut(dir, tam)
             \/ \E destino \in Destinos : CopyString(dir, destino, tam)
             \/ \E lectura \in BOOLEAN : ExecIoFrames(dir, tam, lectura)
  BY <1>5 DEF MovIn, MovOut, CopyString, ExecIoFrames, Empezar
<1>6. CASE ObtenerMarco \/ PedirMarco \/ RecibirMarco \/ RecibirDato
             \/ TerminarMov \/ CopiarADestino \/ SolicitarIo
  BY <1>6 DEF ObtenerMarco, PedirMarco, RecibirMarco, RecibirDato, TerminarMov, CopiarADestino,
              SolicitarIo
<1>7. QED
  BY <1>1, <1>2, <1>3, <1>4, <1>5, <1>6 DEF Next

LEMMA CreceSinTablas ==
  ASSUME UNCHANGED <<tablas, existe>>, achicados \subseteq achicados',
         \A p \in Pids : soltados[p] \subseteq soltados'[p],
         \A p \in Pids : estado[p] = "fin" => estado'[p] = "fin"
  PROVE  Crecen
<1> SUFFICES ASSUME NEW p \in Pids
             PROVE  /\ Viva(p) => Viva(p)'
                    /\ Poseidos(p) \subseteq Poseidos(p)'
                    /\ estado[p] = "fin" => estado'[p] = "fin"
                    /\ Viva(p) /\ p \in existe' \ achicados' =>
                         /\ p \in existe
                         /\ \A n \in DOMAIN tablas[p] : n \in DOMAIN tablas'[p] /\ tablas'[p][n] = tablas[p][n]
  BY DEF Crecen
<1>1. Poseidos(p) \subseteq Poseidos(p)'
  <2>1. ToSet(tablas'[p]) = ToSet(tablas[p]) /\ soltados[p] \subseteq soltados'[p]
    OBVIOUS
  <2>2. QED
    BY <2>1 DEF Poseidos
<1>2. QED
  BY <1>1 DEF Viva

LEMMA CreceAgregar ==
  ASSUME Bien, UNCHANGED <<achicados, estado>>, AgregarPagina \/ TerminarDeAgregar
  PROVE  Crecen
<1>1. /\ hiloCpu.pid \in Pids /\ tablas \in [Pids -> Seq(ConNinguno)]
      /\ hiloCpu.i \in Nat /\ estado[hiloCpu.pid] = "cpu"
  BY DEF AgregarPagina, Agrega, TerminarDeAgregar, Bien, TiposTablas, HilosCpu, Espera, Vidas
<1>2. PICK p0 \in Pids : p0 = hiloCpu.pid
  BY <1>1
<1>3. \A p \in Pids : \A n \in DOMAIN tablas[p] : n \in DOMAIN tablas'[p] /\ tablas'[p][n] = tablas[p][n]
  <2>1. CASE AgregarPagina
    <3> DEFINE e == IF hiloCpu.i \in Marcos THEN hiloCpu.i ELSE SinMarco
    <3>1. e \in ConNinguno
      BY DEF ConNinguno
    <3>2. tablas' = [tablas EXCEPT ![p0] = Append(@, e)]
      BY <1>2, <2>1 DEF AgregarPagina
    <3> HIDE DEF e
    <3>3. PICK s \in Seq(ConNinguno) : s = tablas[p0]
      BY <1>1
    <3>4. tablas'[p0] = Append(s, e) /\ \A q \in Pids \ {p0} : tablas'[q] = tablas[q]
      BY <1>1, <3>2, <3>3
    <3>5. \A n \in DOMAIN s : n \in DOMAIN Append(s, e) /\ Append(s, e)[n] = s[n]
      BY <3>1, Agregar
    <3>6. QED
      BY <3>3, <3>4, <3>5
  <2>2. CASE TerminarDeAgregar
    BY <2>2 DEF TerminarDeAgregar
  <2>3. QED
    BY <2>1, <2>2
<1>4. /\ existe' = existe \/ existe' = existe \cup {p0}
      /\ UNCHANGED soltados
  BY <1>2 DEF AgregarPagina, TerminarDeAgregar
<1> SUFFICES ASSUME NEW p \in Pids
             PROVE  /\ Viva(p) => Viva(p)'
                    /\ Poseidos(p) \subseteq Poseidos(p)'
                    /\ estado[p] = "fin" => estado'[p] = "fin"
                    /\ Viva(p) /\ p \in existe' \ achicados' =>
                         /\ p \in existe
                         /\ \A n \in DOMAIN tablas[p] : n \in DOMAIN tablas'[p] /\ tablas'[p][n] = tablas[p][n]
  BY DEF Crecen
<1>5. Viva(p) => Viva(p)'
  BY <1>4 DEF Viva
<1>6. Viva(p) /\ p \in existe' => p \in existe
  BY <1>1, <1>2, <1>4 DEF Viva
<1>7. Poseidos(p) \subseteq Poseidos(p)'
  <2>1. ToSet(tablas[p]) \subseteq ToSet(tablas'[p])
    BY <1>3 DEF ToSet
  <2>2. QED
    BY <1>4, <2>1 DEF Poseidos
<1>8. QED
  BY <1>3, <1>5, <1>6, <1>7

(* The pages of one process that leave its table are of frames it gave back.  *)
LEMMA PoseeTrasSinPaginas ==
  ASSUME Sueltas, UNCHANGED soltados, NEW p0 \in Pids, SinPaginas(p0)
  PROVE  \A p \in Pids : Poseidos(p) \subseteq Poseidos(p)'
<1> SUFFICES ASSUME NEW p \in Pids, NEW f \in Poseidos(p)
             PROVE  f \in Poseidos(p)'
  OBVIOUS
<1>1. CASE f \in soltados[p]
  BY <1>1 DEF Poseidos
<1>2. CASE f \in ToSet(tablas[p])
  <2>1. PICK n \in DOMAIN tablas[p] : tablas[p][n] = f
    BY <1>2 DEF ToSet
  <2>2. CASE n \in DOMAIN tablas'[p]
    <3>1. tablas'[p][n] = f
      BY <2>1, <2>2 DEF SinPaginas
    <3>2. f \in ToSet(tablas'[p])
      BY <2>2, <3>1 DEF ToSet
    <3>3. QED
      BY <3>2 DEF Poseidos
  <2>3. CASE n \notin DOMAIN tablas'[p]
    <3>1. Liberada(p, n)
      BY <2>1, <2>3 DEF SinPaginas
    <3>2. f \in soltados[p]
      BY <2>1, <3>1 DEF Sueltas
    <3>3. QED
      BY <3>2 DEF Poseidos
  <2>4. QED
    BY <2>2, <2>3
<1>3. QED
  BY <1>1, <1>2 DEF Poseidos

LEMMA CreceMemoria ==
  ASSUME Bien, HilosFieles, UNCHANGED <<cpuVars, restoVars>>, MemoriaNext
  PROVE  Crecen
<1>1. UNCHANGED <<achicados, estado>>
  BY DEF cpuVars, restoVars
<1>2. CASE RetornarSiguienteInstruccion \/ MensajePagina \/ MensajeLeer \/ MensajeEscribir
             \/ Resize \/ MirarMarco \/ AchicarMarco \/ CrearImagen \/ LiberarMarco
  <2>1. UNCHANGED <<tablas, existe>>
    BY <1>2 DEF RetornarSiguienteInstruccion, MensajePagina, MensajeLeer, MensajeEscribir, Resize,
                MirarMarco, AchicarMarco, CrearImagen, LiberarMarco, tablaVars
  <2>2. \A p \in Pids : soltados[p] \subseteq soltados'[p]
    BY HistoriaDeMemoria, SueltaTipo DEF HilosFieles, Sueltas
  <2>3. QED
    BY <1>1, <2>1, <2>2, CreceSinTablas
<1>3. CASE AgregarPagina \/ TerminarDeAgregar
  BY <1>1, <1>3, CreceAgregar
<1>4. CASE TerminarDeAchicar
  <2>1. PICK p0 \in Pids : p0 = hiloCpu.pid
    BY <1>4 DEF TerminarDeAchicar, Bien, TiposTablas
  <2>2. /\ p0 \in achicados /\ UNCHANGED existe
        /\ \A q \in Pids \ {p0} : tablas'[q] = tablas[q]
    BY <1>4, <2>1 DEF TerminarDeAchicar, HilosFieles, Bien, TiposTablas
  <2>3. \A p \in Pids : Poseidos(p) \subseteq Poseidos(p)'
    BY <1>4, PaginasTerminarDeAchicar, PoseeTrasSinPaginas DEF TerminarDeAchicar, HilosFieles
  <2>4. QED
    BY <1>1, <2>2, <2>3 DEF Crecen, Viva
<1>5. CASE FinalizarProceso
  <2>1. RecibeDeKernel("terminar") /\ UNCHANGED tablas /\ existe' = existe \ {Head(colaKernel).pid}
    BY <1>5 DEF FinalizarProceso
  <2>2. PICK p0 \in Pids : p0 = Head(colaKernel).pid /\ estado[p0] = "fin"
    BY <2>1, ConsumirKernel
  <2>3. \A p \in Pids : Poseidos(p)' = Poseidos(p)
    BY <1>5 DEF FinalizarProceso, Poseidos
  <2>4. QED
    BY <1>1, <2>1, <2>2, <2>3 DEF Crecen, Viva
<1>6. CASE TerminarDeLiberar
  <2>1. PICK p0 \in Pids : p0 = hiloKernel.pid
    BY <1>6 DEF TerminarDeLiberar, Bien, TiposTablas
  <2>2. /\ p0 \notin existe /\ UNCHANGED existe
        /\ \A q \in Pids \ {p0} : tablas'[q] = tablas[q]
    BY <1>6, <2>1 DEF TerminarDeLiberar, HilosFieles, Bien, TiposTablas
  <2>3. \A p \in Pids : Poseidos(p) \subseteq Poseidos(p)'
    BY <1>6, PaginasTerminarDeLiberar, PoseeTrasSinPaginas DEF TerminarDeLiberar, HilosFieles
  <2>4. QED
    BY <1>1, <2>2, <2>3 DEF Crecen, Viva
<1>7. QED
  BY <1>2, <1>3, <1>4, <1>5, <1>6 DEF MemoriaNext

LEMMA Crece ==
  ASSUME Bien, HilosFieles, Next
  PROVE  Crecen
<1>1. CASE MemoriaNext /\ UNCHANGED <<cpuVars, restoVars>>
  BY <1>1, CreceMemoria
<1>2. CASE UNCHANGED <<tablas, existe, soltados>>
  BY <1>2, FinQueda, AchicadosQueda, CreceSinTablas
<1>3. QED
  BY <1>1, <1>2, LoDemas

-----------------------------------------------------------------------------
LEMMA MismasPaginas ==
  ASSUME UNCHANGED tablas,
         \A q \in Pids : \A n \in DOMAIN tablas[q] : Liberada(q, n) => Liberada(q, n)'
  PROVE  SinNuevas
<1> SUFFICES ASSUME NEW q \in Pids
             PROVE  /\ Len(tablas'[q]) <= Len(tablas[q])
                    /\ \A n \in DOMAIN tablas'[q] :
                         n \in DOMAIN tablas[q] /\ tablas'[q][n] = tablas[q][n] /\ (Tiene(q, n)' => Tiene(q, n))
  BY DEF SinNuevas
<1>1. Len(tablas'[q]) <= Len(tablas[q])
  OBVIOUS
<1>2. QED
  BY <1>1 DEF Tiene

LEMMA MismosHilos ==
  ASSUME Bien, UNCHANGED <<tablas, hiloCpu, hiloKernel>>
  PROVE  SinNuevas
<1>1. \A q \in Pids : Len(tablas[q]) \in Nat
  BY Indices
<1>2. \A q \in Pids : \A n \in DOMAIN tablas[q] : Tiene(q, n)' => Tiene(q, n)
  BY DEF Tiene, Liberada
<1>3. QED
  BY <1>1, <1>2 DEF SinNuevas

(* Where the pages of one process are cut.                                    *)
LEMMA MenosPaginas ==
  ASSUME Bien, NEW p0 \in Pids, NEW c \in Nat, c <= Len(tablas[p0]),
         tablas' = [tablas EXCEPT ![p0] = SubSeq(@, 1, c)],
         \A q \in Pids : \A n \in DOMAIN tablas'[q] : Liberada(q, n) => Liberada(q, n)'
  PROVE  SinNuevas
<1>1. tablas \in [Pids -> Seq(ConNinguno)]
  BY DEF Bien, TiposTablas
<1>2. PICK s \in Seq(ConNinguno) : s = tablas[p0]
  BY <1>1
<1>3. /\ Len(s) \in Nat /\ DOMAIN s = 1 .. Len(s) /\ c <= Len(s)
      /\ DOMAIN SubSeq(s, 1, c) = 1 .. c /\ Len(SubSeq(s, 1, c)) = c
      /\ \A k \in 1 .. c : SubSeq(s, 1, c)[k] = s[k]
  BY <1>2
<1>4. tablas'[p0] = SubSeq(s, 1, c) /\ \A q \in Pids \ {p0} : tablas'[q] = tablas[q]
  BY <1>1, <1>2
<1>5. \A q \in Pids : Len(tablas[q]) \in Nat
  BY Indices
<1>6. ASSUME NEW q \in Pids
      PROVE  /\ Len(tablas'[q]) <= Len(tablas[q])
             /\ \A n \in DOMAIN tablas'[q] : n \in DOMAIN tablas[q] /\ tablas'[q][n] = tablas[q][n]
  BY <1>2, <1>3, <1>4, <1>5
<1>7. ASSUME NEW q \in Pids, NEW n \in DOMAIN tablas'[q], Tiene(q, n)' PROVE Tiene(q, n)
  BY <1>6, <1>7 DEF Tiene
<1>8. QED
  BY <1>6, <1>7 DEF SinNuevas

LEMMA SinNuevasMemoria ==
  ASSUME Bien, Bien', MemoriaNext, ~AgregarPagina
  PROVE  SinNuevas
<1>1. /\ hiloCpu \in HilosCpu /\ hiloCpu' \in HilosCpu /\ hiloKernel \in HilosKernel
      /\ hiloKernel' \in HilosKernel
  BY DEF Bien, TiposTablas
<1>2. \A q \in Pids : \A n \in DOMAIN tablas[q] : n \in Nat
  BY Indices
<1>3. CASE RetornarSiguienteInstruccion \/ MensajePagina \/ MensajeLeer \/ MensajeEscribir \/ CrearImagen
  <2>1. UNCHANGED <<tablas, hiloCpu, hiloKernel>>
    BY <1>3 DEF RetornarSiguienteInstruccion, MensajePagina, MensajeLeer, MensajeEscribir, CrearImagen,
                tablaVars
  <2>2. QED
    BY <2>1, MismosHilos
<1>4. CASE Resize \/ MirarMarco \/ TerminarDeAgregar
  <2>1. hiloCpu.paso # "achicar" /\ UNCHANGED <<tablas, hiloKernel>>
    BY <1>4 DEF Resize, RecibeDeCpu, MirarMarco, Agrega, TerminarDeAgregar
  <2>2. QED
    BY <2>1, MismasPaginas DEF Liberada
<1>5. CASE AchicarMarco
  <2>1. /\ UNCHANGED <<tablas, hiloKernel>> /\ hiloCpu'.paso = hiloCpu.paso /\ hiloCpu'.pid = hiloCpu.pid
        /\ hiloCpu'.meta = hiloCpu.meta /\ hiloCpu'.i = hiloCpu.i + 1
    BY <1>1, <1>5 DEF AchicarMarco, HilosCpu
  <2>2. PICK i \in Nat, j \in Nat : i = hiloCpu.i /\ j = hiloCpu.meta
    BY <1>1 DEF HilosCpu
  <2>3. ASSUME NEW q \in Pids, NEW n \in DOMAIN tablas[q], Liberada(q, n) PROVE Liberada(q, n)'
    BY <1>2, <2>1, <2>2, <2>3 DEF Liberada
  <2>4. QED
    BY <2>1, <2>3, MismasPaginas
<1>6. CASE TerminarDeAchicar
  <2>1. PICK p0 \in Pids, c \in Nat : p0 = hiloCpu.pid /\ c = hiloCpu.meta /\ c <= Len(tablas[p0])
    BY <1>1, <1>6 DEF TerminarDeAchicar, Bien, TiposTablas, HilosCpu
  <2>2. /\ tablas' = [tablas EXCEPT ![p0] = SubSeq(@, 1, c)] /\ UNCHANGED hiloKernel
        /\ hiloCpu.paso = "achicar" /\ tablas \in [Pids -> Seq(ConNinguno)]
    BY <1>6, <2>1 DEF TerminarDeAchicar, Bien, TiposTablas
  <2>3. ASSUME NEW q \in Pids, NEW n \in DOMAIN tablas'[q], Liberada(q, n) PROVE Liberada(q, n)'
    <3>1. ~(q = p0 /\ c < n)
      <4>1. SUFFICES ASSUME q = p0 PROVE n \in 1 .. c
        BY <2>1
      <4>2. PICK s \in Seq(ConNinguno) : s = tablas[p0]
        BY <2>2
      <4>3. DOMAIN SubSeq(s, 1, c) = 1 .. c /\ tablas'[p0] = SubSeq(s, 1, c)
        BY <2>1, <2>2, <4>2
      <4>4. QED
        BY <2>3, <4>1, <4>3
    <3>2. QED
      BY <2>1, <2>2, <2>3, <3>1 DEF Liberada
  <2>4. QED
    BY <2>1, <2>2, <2>3, MenosPaginas
<1>7. CASE FinalizarProceso
  <2>1. UNCHANGED <<tablas, hiloCpu>> /\ hiloKernel.paso # "liberar"
    BY <1>7 DEF FinalizarProceso, RecibeDeKernel
  <2>2. QED
    BY <2>1, MismasPaginas DEF Liberada
<1>8. CASE LiberarMarco
  <2>1. /\ UNCHANGED <<tablas, hiloCpu>> /\ hiloKernel'.paso = hiloKernel.paso
        /\ hiloKernel'.pid = hiloKernel.pid /\ hiloKernel'.i = hiloKernel.i + 1
    BY <1>1, <1>8 DEF LiberarMarco, HilosKernel
  <2>2. PICK i \in Nat : i = hiloKernel.i
    BY <1>1 DEF HilosKernel
  <2>3. ASSUME NEW q \in Pids, NEW n \in DOMAIN tablas[q], Liberada(q, n) PROVE Liberada(q, n)'
    BY <1>2, <2>1, <2>2, <2>3 DEF Liberada
  <2>4. QED
    BY <2>1, <2>3, MismasPaginas
<1>9. CASE TerminarDeLiberar
  <2>1. PICK p0 \in Pids : p0 = hiloKernel.pid
    BY <1>9 DEF TerminarDeLiberar, Bien, TiposTablas
  <2>2. /\ tablas \in [Pids -> Seq(ConNinguno)] /\ UNCHANGED hiloCpu
        /\ tablas' = [tablas EXCEPT ![p0] = <<>>]
    BY <1>9, <2>1 DEF TerminarDeLiberar, Bien, TiposTablas
  <2>3. PICK c \in Nat : c = 0
    OBVIOUS
  <2>4. c <= Len(tablas[p0]) /\ tablas' = [tablas EXCEPT ![p0] = SubSeq(@, 1, c)]
    <3>1. PICK s \in Seq(ConNinguno) : s = tablas[p0]
      BY <2>2
    <3>2. SubSeq(tablas[p0], 1, c) = <<>>
      BY <2>3, <3>1
    <3>3. c <= Len(tablas[p0])
      BY <2>3, <3>1, LenProperties
    <3>4. tablas' = [tablas EXCEPT ![p0] = SubSeq(tablas[p0], 1, c)]
      BY <2>2, <3>2
    <3>5. QED
      BY <3>3, <3>4
  <2>5. ASSUME NEW q \in Pids, NEW n \in DOMAIN tablas'[q], Liberada(q, n) PROVE Liberada(q, n)'
    <3>1. q # p0
      BY <2>2, <2>5
    <3>2. QED
      BY <2>1, <2>2, <2>5, <3>1 DEF Liberada
  <2>6. QED
    BY <2>3, <2>4, <2>5, MenosPaginas
<1>10. QED
  BY <1>3, <1>4, <1>5, <1>6, <1>7, <1>8, <1>9 DEF MemoriaNext

-----------------------------------------------------------------------------
LEMMA PaginaSigue ==
  ASSUME colaCpu \in Seq(Pedidos), PaginaUltima, UNCHANGED cpu,
         colaCpu' = colaCpu \/ (colaCpu # <<>> /\ colaCpu' = Tail(colaCpu)),
         respuesta' = respuesta \/ respuesta'.tipo # "marco"
  PROVE  PaginaUltima'
<1>1. CASE colaCpu' = colaCpu
  BY <1>1 DEF PaginaUltima
<1>2. CASE colaCpu # <<>> /\ colaCpu' = Tail(colaCpu)
  <2>1. /\ Len(colaCpu) \in Nat /\ Len(colaCpu') = Len(colaCpu) - 1
        /\ DOMAIN colaCpu' = 1 .. Len(colaCpu) - 1
        /\ \A k \in DOMAIN colaCpu' : colaCpu'[k] = colaCpu[k + 1] /\ k + 1 \in DOMAIN colaCpu
    BY <1>2, Sacar
  <2>2. ASSUME NEW k \in DOMAIN colaCpu', colaCpu'[k].tipo = "pagina"
        PROVE  /\ k = Len(colaCpu')
               /\ cpu.fase = "marco" /\ colaCpu'[k].pid = cpu.pid /\ colaCpu'[k].pagina = cpu.pagina
               /\ respuesta.tipo # "marco"
    <3>1. PICK l \in Nat : l = Len(colaCpu)
      BY <2>1
    <3>2. k \in 1 .. l - 1
      BY <2>1, <3>1
    <3>3. k + 1 \in DOMAIN colaCpu /\ colaCpu[k + 1].tipo = "pagina"
      BY <2>1, <2>2
    <3>4. k + 1 = l
      BY <3>1, <3>3 DEF PaginaUltima
    <3>5. k = Len(colaCpu')
      BY <2>1, <3>1, <3>2, <3>4
    <3>6. QED
      BY <2>1, <3>3, <3>5 DEF PaginaUltima
  <2>3. QED
    BY <2>2 DEF PaginaUltima
<1>3. QED
  BY <1>1, <1>2

LEMMA MensajesSiguen ==
  ASSUME Bien, Bien', MensajesBien, SinNuevas, Crecen,
         \/ colaCpu' = colaCpu
         \/ colaCpu # <<>> /\ colaCpu' = Tail(colaCpu)
         \/ \E m \in Pedidos : colaCpu' = Append(colaCpu, m) /\ MensajeBien(m)'
  PROVE  MensajesBien'
<1>1. /\ tablas \in [Pids -> Seq(ConNinguno)] /\ tablas' \in [Pids -> Seq(ConNinguno)]
      /\ colaCpu \in Seq(Pedidos)
  BY DEF Bien, TiposTablas, TiposColas
<1>2. ASSUME NEW m \in Pedidos, MensajeBien(m) PROVE MensajeBien(m)'
  BY <1>1, <1>2, MensajePersiste
<1>3. QED
  BY <1>1, <1>2, ColaBien

(* The message that starts to shrink a process was the last one.              *)
LEMMA EmpiezaAAchicar ==
  ASSUME Bien, MensajesBien, Resize
  PROVE  colaCpu' = <<>> /\ (hiloCpu'.paso = "achicar" => hiloCpu'.pid \in achicados)
<1>1. RecibeDeCpu("resize")
  BY DEF Resize
<1>2. /\ colaCpu \in Seq(Pedidos) /\ colaCpu # <<>> /\ colaCpu' = Tail(colaCpu)
      /\ Head(colaCpu).tipo = "resize" /\ hiloCpu.paso = "espera"
  BY <1>1 DEF RecibeDeCpu, Bien, TiposColas
<1>3. /\ Head(colaCpu) = colaCpu[1] /\ Len(colaCpu) \in Nat /\ Len(colaCpu) > 0
      /\ Tail(colaCpu) \in Seq(Pedidos) /\ Len(Tail(colaCpu)) = Len(colaCpu) - 1
      /\ DOMAIN colaCpu = 1 .. Len(colaCpu)
  BY <1>2, Sacar
<1>4. 1 \in DOMAIN colaCpu
  BY <1>3
<1>5. Len(colaCpu) = 1
  BY <1>2, <1>3, <1>4 DEF Bien, Espera
<1>6. colaCpu' = <<>>
  <2>1. Len(Tail(colaCpu)) = 0
    BY <1>3, <1>5
  <2>2. QED
    BY <1>2, <1>3, <2>1, EmptySeq
<1>7. PICK m : m = Head(colaCpu)
  OBVIOUS
<1>8. Achica(m)
  BY <1>2, <1>3, <1>4, <1>7 DEF MensajesBien, MensajeBien
<1>9. hiloCpu'.paso = "achicar" =>
        hiloCpu'.pid = m.pid /\ PaginasPara(m.cant) < Len(tablas[m.pid])
  BY <1>2, <1>7 DEF Resize
<1>10. QED
  BY <1>6, <1>8, <1>9 DEF Achica

LEMMA SueltasMemoria ==
  ASSUME Bien, Bien', HilosFieles, UNCHANGED <<cpuVars, restoVars>>, MemoriaNext
  PROVE  Sueltas'
<1>1. /\ UNCHANGED <<achicados, estado>> /\ PasoDePaginas /\ Sueltas
      /\ soltados \in [Pids -> SUBSET ConNinguno]
  BY PasosDePaginas DEF cpuVars, restoVars, HilosFieles, Sueltas
<1>2. ASSUME UNCHANGED soltados,
             \A q \in Pids : \A n \in DOMAIN tablas'[q] : Liberada(q, n)' =>
               n \in DOMAIN tablas[q] /\ tablas'[q][n] = tablas[q][n] /\ Liberada(q, n)
      PROVE  Sueltas'
  BY <1>1, <1>2 DEF Sueltas
<1>3. CASE UNCHANGED soltados /\ PaginasIguales
  BY <1>2, <1>3 DEF PaginasIguales
<1>4. ASSUME UNCHANGED soltados, NEW p0 \in Pids, NEW e \in ConNinguno, NEW n0, PaginaNueva(p0, n0, e)
      PROVE  Sueltas'
  BY <1>2, <1>4 DEF PaginaNueva
<1>5. ASSUME UNCHANGED soltados, NEW p0 \in Pids, SinPaginas(p0)
      PROVE  Sueltas'
  <2>1. ASSUME NEW q \in Pids, NEW n \in DOMAIN tablas'[q]
        PROVE  n \in DOMAIN tablas[q] /\ tablas'[q][n] = tablas[q][n]
    BY <1>5, <2>1 DEF SinPaginas
  <2>2. QED
    BY <1>2, <1>5, <2>1 DEF SinPaginas
<1>6. ASSUME NEW p0 \in Pids, NEW n0, PaginaLibre(p0, n0), Suelta(p0, n0)
      PROVE  Sueltas'
  <2>1. /\ soltados' \in [Pids -> SUBSET ConNinguno]
        /\ tablas[p0][n0] \in soltados'[p0]
        /\ \A p \in Pids : soltados[p] \subseteq soltados'[p] /\ (p # p0 => soltados'[p] = soltados[p])
    BY <1>1, <1>6, SueltaTipo
  <2>2. UNCHANGED tablas /\ (p0 \in achicados \/ estado[p0] = "fin")
    BY <1>6 DEF PaginaLibre, HilosFieles, Bien, Vidas
  <2>3. ASSUME NEW q \in Pids, NEW n \in DOMAIN tablas[q], Liberada(q, n)'
        PROVE  tablas[q][n] \in soltados'[q]
    <3>1. Liberada(q, n) \/ (q = p0 /\ n = n0)
      BY <1>6, <2>3 DEF PaginaLibre
    <3>2. Liberada(q, n) => tablas[q][n] \in soltados[q]
      BY <1>1 DEF Sueltas
    <3>3. QED
      BY <2>1, <3>1, <3>2
  <2>4. \A p \in Pids : soltados'[p] # {} => p \in achicados \/ estado[p] = "fin"
    BY <1>1, <2>1, <2>2 DEF Sueltas
  <2>5. QED
    BY <1>1, <2>1, <2>2, <2>3, <2>4 DEF Sueltas
<1>7. QED
  BY <1>1, <1>3, <1>4, <1>5, <1>6 DEF PasoDePaginas

LEMMA SueltasQuietas ==
  ASSUME Sueltas, Crecen, UNCHANGED <<tablas, hiloCpu, hiloKernel, soltados>>
  PROVE  Sueltas'
<1>1. \A p \in Pids : \A n \in DOMAIN tablas[p] : Liberada(p, n)' => Liberada(p, n)
  BY DEF Liberada
<1>2. QED
  BY <1>1 DEF Sueltas, Crecen

LEMMA HilosMemoria ==
  ASSUME Bien, Bien', MensajesBien, HilosFieles, UNCHANGED <<cpuVars, restoVars>>, MemoriaNext
  PROVE  HilosFieles'
<1> USE SueltasMemoria
<1>1. /\ UNCHANGED <<achicados, estado>>
      /\ hiloCpu \in HilosCpu /\ hiloKernel \in HilosKernel
  BY DEF cpuVars, restoVars, Bien, TiposTablas
<1>2. CASE RetornarSiguienteInstruccion \/ MensajePagina \/ MensajeLeer \/ MensajeEscribir
  <2>1. hiloCpu.paso = "espera" /\ UNCHANGED <<hiloCpu, hiloKernel, existe>>
    BY <1>2 DEF RetornarSiguienteInstruccion, MensajePagina, MensajeLeer, MensajeEscribir, RecibeDeCpu,
                tablaVars
  <2>2. QED
    BY <2>1 DEF HilosFieles
<1>3. CASE Resize
  <2>1. UNCHANGED <<hiloKernel, existe>>
    BY <1>3 DEF Resize
  <2>2. QED
    BY <1>1, <1>3, <2>1, EmpiezaAAchicar DEF HilosFieles
<1>4. CASE MirarMarco \/ AgregarPagina \/ AchicarMarco
  <2>1. /\ hiloCpu'.paso = hiloCpu.paso /\ hiloCpu'.pid = hiloCpu.pid
        /\ UNCHANGED <<hiloKernel, existe, colaCpu>>
    BY <1>1, <1>4 DEF MirarMarco, AgregarPagina, AchicarMarco, HilosCpu
  <2>2. QED
    BY <1>1, <2>1 DEF HilosFieles
<1>5. CASE TerminarDeAgregar \/ TerminarDeAchicar
  <2>1. hiloCpu'.paso = "espera" /\ UNCHANGED hiloKernel /\ hiloCpu.paso # "espera"
        /\ (existe' = existe \/ existe' = existe \cup {hiloCpu.pid})
    BY <1>5 DEF TerminarDeAgregar, TerminarDeAchicar, CpuLibre
  <2>2. QED
    BY <2>1, HilosAparte DEF HilosFieles
<1>6. CASE CrearImagen
  <2>1. UNCHANGED <<hiloCpu, hiloKernel, existe, colaCpu>>
    BY <1>6 DEF CrearImagen, tablaVars
  <2>2. QED
    BY <1>1, <2>1 DEF HilosFieles
<1>7. CASE FinalizarProceso
  <2>1. /\ UNCHANGED <<hiloCpu, colaCpu>> /\ existe' = existe \ {Head(colaKernel).pid}
        /\ hiloKernel.paso = "espera"
        /\ hiloKernel' = hiloKernel \/ hiloKernel'.pid = Head(colaKernel).pid
    BY <1>7 DEF FinalizarProceso, RecibeDeKernel
  <2>2. QED
    BY <1>1, <2>1 DEF HilosFieles
<1>8. CASE LiberarMarco \/ TerminarDeLiberar
  <2>1. /\ UNCHANGED <<hiloCpu, colaCpu, existe>> /\ hiloKernel.paso = "liberar"
        /\ hiloKernel'.paso = "espera" \/ hiloKernel'.pid = hiloKernel.pid
    BY <1>1, <1>8 DEF LiberarMarco, TerminarDeLiberar, KernelLibre, HilosKernel
  <2>2. QED
    BY <1>1, <2>1 DEF HilosFieles
<1>9. QED
  BY <1>2, <1>3, <1>4, <1>5, <1>6, <1>7, <1>8 DEF MemoriaNext

LEMMA RespuestaQuieta ==
  ASSUME Bien, Crecen, RespuestaFiel,
         (respuesta' = respuesta /\ UNCHANGED cpu) \/ respuesta'.tipo # "marco"
  PROVE  RespuestaFiel'
<1> SUFFICES ASSUME respuesta'.tipo = "marco"
             PROVE  cpu'.fase = "marco" /\ DeLaPagina(cpu.pid, cpu.pagina + 1, respuesta.valor)'
  BY DEF RespuestaFiel
<1>1. respuesta' = respuesta /\ cpu' = cpu
  OBVIOUS
<1>2. cpu.fase = "marco" /\ DeLaPagina(cpu.pid, cpu.pagina + 1, respuesta.valor)
  BY <1>1 DEF RespuestaFiel
<1>3. PICK p, n, f : p \in Pids /\ p = cpu.pid /\ n = cpu.pagina + 1 /\ f = respuesta.valor
  BY <1>2, EnLaCpu
<1>4. DeLaPagina(p, n, f)
  BY <1>2, <1>3
<1>5. DeLaPagina(p, n, f)'
  BY <1>3, <1>4, Persiste
<1>6. p = cpu'.pid /\ n = cpu'.pagina + 1 /\ f = respuesta'.valor
  BY <1>1, <1>3
<1>7. QED
  BY <1>1, <1>2, <1>5, <1>6

LEMMA ContestaMarco ==
  ASSUME Bien, PaginaUltima, UNCHANGED cpu, MensajePagina
  PROVE  /\ RespuestaFiel'
         /\ PaginaUltima'
<1>1. /\ RecibeDeCpu("pagina") /\ UNCHANGED <<tablas, existe, soltados>>
  BY DEF MensajePagina, tablaVars
<1>2. /\ colaCpu \in Seq(Pedidos) /\ colaCpu # <<>> /\ colaCpu' = Tail(colaCpu)
      /\ Head(colaCpu).tipo = "pagina"
  BY <1>1 DEF RecibeDeCpu, Bien, TiposColas
<1>3. /\ Head(colaCpu) = colaCpu[1] /\ Len(colaCpu) \in Nat /\ Len(colaCpu) > 0
      /\ Tail(colaCpu) \in Seq(Pedidos) /\ Len(Tail(colaCpu)) = Len(colaCpu) - 1
      /\ DOMAIN colaCpu = 1 .. Len(colaCpu)
  BY <1>2, Sacar
<1>4. 1 \in DOMAIN colaCpu
  BY <1>3
<1>5. PICK m : m = Head(colaCpu)
  OBVIOUS
<1>6. /\ Len(colaCpu) = 1 /\ cpu.fase = "marco" /\ m.pid = cpu.pid /\ m.pagina = cpu.pagina
      /\ respuesta.tipo # "marco"
  BY <1>2, <1>3, <1>4, <1>5 DEF PaginaUltima
<1>7. colaCpu' = <<>>
  <2>1. Len(Tail(colaCpu)) = 0
    BY <1>3, <1>6
  <2>2. QED
    BY <1>2, <1>3, <2>1, EmptySeq
<1>8. PaginaUltima'
  BY <1>7 DEF PaginaUltima
<1>9. RespuestaFiel'
  <2>1. CASE respuesta' = respuesta
    BY <1>6, <2>1 DEF RespuestaFiel
  <2>2. CASE respuesta' # respuesta
    <3>1. /\ m.pid \in existe /\ m.pagina + 1 \in DOMAIN tablas[m.pid]
          /\ respuesta' = [tipo |-> "marco", valor |-> tablas[m.pid][m.pagina + 1]]
      BY <1>5, <2>2 DEF MensajePagina
    <3>2. PICK p, n, f : p \in Pids /\ p = m.pid /\ n = m.pagina + 1 /\ f = tablas[p][n]
                                  /\ p \in existe /\ n \in DOMAIN tablas[p]
      BY <1>6, <3>1, EnLaCpu
    <3>3. p = cpu'.pid /\ n = cpu'.pagina + 1 /\ f = respuesta'.valor
      BY <1>6, <3>1, <3>2
    <3>4. DeLaPagina(p, n, f)'
      BY <1>1, <3>2 DEF DeLaPagina, Viva, Poseidos, ToSet
    <3>5. QED
      BY <1>6, <3>3, <3>4 DEF RespuestaFiel
  <2>3. QED
    BY <2>1, <2>2
<1>10. QED
  BY <1>8, <1>9

LEMMA FielMemoria ==
  ASSUME Bien, Bien', Fiel, UNCHANGED <<cpuVars, restoVars>>, MemoriaNext
  PROVE  Fiel'
<1>1. UNCHANGED <<tlb, cpu, achicados, estado, io, enVuelo>>
  BY DEF cpuVars, restoVars
<1>2. Crecen
  BY CreceMemoria DEF Fiel
<1>3. TlbFiel'
  BY <1>1, <1>2, TlbQuieta DEF Fiel
<1>4. IoFiel'
  <2>1. \A e \in enVuelo : e.pid \in Pids
    BY DEF Bien, TiposResto, EnViaje
  <2>2. QED
    BY <1>1, <1>2, <2>1, IoPaso DEF Fiel
<1>5. TrozosFieles'
  <2>1. CASE EnTransferencia
    BY <1>1, <1>2, <2>1, TrozosQuietos DEF Fiel, EnTransferencia
  <2>2. CASE ~EnTransferencia
    BY <1>1, <2>2 DEF Fiel, TrozosFieles, EnTransferencia
  <2>3. QED
    BY <2>1, <2>2
<1>6. HilosFieles'
  BY HilosMemoria DEF Fiel
<1>7. colaCpu' = colaCpu \/ (colaCpu # <<>> /\ colaCpu' = Tail(colaCpu))
  BY DEF MemoriaNext, RetornarSiguienteInstruccion, MensajePagina, MensajeLeer, MensajeEscribir, Resize,
         RecibeDeCpu, MirarMarco, AgregarPagina, TerminarDeAgregar, AchicarMarco, TerminarDeAchicar,
         CrearImagen, FinalizarProceso, LiberarMarco, TerminarDeLiberar
<1>8. MensajesBien'
  <2>1. CASE AgregarPagina
    <3>1. colaCpu' = <<>>
      BY <2>1 DEF AgregarPagina, Agrega, Fiel, HilosFieles
    <3>2. QED
      BY <3>1 DEF MensajesBien
  <2>2. CASE ~AgregarPagina
    <3>1. SinNuevas
      BY <2>2, SinNuevasMemoria
    <3>2. QED
      BY <1>2, <1>7, <3>1, MensajesSiguen DEF Fiel
  <2>3. QED
    BY <2>1, <2>2
<1>9. CASE MensajePagina
  BY <1>1, <1>3, <1>4, <1>5, <1>6, <1>8, <1>9, ContestaMarco DEF Fiel
<1>10. CASE ~MensajePagina
  <2>1. respuesta' = respuesta \/ respuesta'.tipo # "marco"
    BY <1>10 DEF MemoriaNext, RetornarSiguienteInstruccion, MensajeLeer, MensajeEscribir, Resize, Contesta,
           MirarMarco, AgregarPagina, TerminarDeAgregar, AchicarMarco, TerminarDeAchicar,
           CrearImagen, FinalizarProceso, LiberarMarco, TerminarDeLiberar
  <2>2. RespuestaFiel'
    BY <1>1, <1>2, <2>1, RespuestaQuieta DEF Fiel
  <2>3. PaginaUltima'
    BY <1>1, <1>7, <2>1, PaginaSigue DEF Fiel, Bien, TiposColas
  <2>4. QED
    BY <1>3, <1>4, <1>5, <1>6, <1>8, <2>2, <2>3 DEF Fiel
<1>11. QED
  BY <1>9, <1>10

(* A step of the kernel or of an interface.                                   *)
LEMMA FielFuera ==
  ASSUME Bien, Bien', Fiel, Crecen, UNCHANGED <<tablaVars, colaCpu, respuesta, cpuVars>>,
         \A p \in Pids : \A t \in ToSet(io'[p].trozos) : t \in ToSet(io[p].trozos),
         \A e \in enVuelo' : e \in enVuelo \/ e.trozo \in ToSet(io[e.pid].trozos)
  PROVE  Fiel'
<1>1. UNCHANGED <<tablas, existe, hiloCpu, hiloKernel, soltados, tlb, cpu, achicados>>
  BY DEF cpuVars, tablaVars
<1>2. TlbFiel'
  BY <1>1, TlbQuieta DEF Fiel
<1>3. IoFiel'
  <2>1. \A e \in enVuelo' : e.pid \in Pids
    BY DEF Bien, TiposResto, EnViaje
  <2>2. QED
    BY <2>1, IoPaso DEF Fiel
<1>4. TrozosFieles'
  <2>1. CASE EnTransferencia
    BY <1>1, <2>1, TrozosQuietos DEF Fiel, EnTransferencia
  <2>2. CASE ~EnTransferencia
    BY <1>1, <2>2 DEF Fiel, TrozosFieles, EnTransferencia
  <2>3. QED
    BY <2>1, <2>2
<1>5. HilosFieles' /\ PaginaUltima'
  BY <1>1, SueltasQuietas DEF Fiel, HilosFieles, PaginaUltima
<1>6. RespuestaFiel'
  BY <1>1, RespuestaQuieta DEF Fiel
<1>7. MensajesBien'
  BY <1>1, MismosHilos, MensajesSiguen DEF Fiel
<1>8. QED
  BY <1>2, <1>3, <1>4, <1>5, <1>6, <1>7 DEF Fiel

LEMMA FielDelKernel ==
  ASSUME Bien, Bien', Fiel, Crecen, NEW p \in Pids, CrearProceso(p) \/ Finalizar(p) \/ EndProcess(p)
  PROVE  Fiel'
<1>1. UNCHANGED <<tablaVars, colaCpu, respuesta, cpuVars, io, enVuelo>>
  BY DEF CrearProceso, Finalizar, EndProcess, memoriaVars
<1>2. QED
  BY <1>1, FielFuera

LEMMA FielIo ==
  ASSUME Bien, Bien', Fiel, Crecen, NEW p \in Pids,
         EscribirMemoria(p) \/ LeerMemoria(p) \/ ResponderStdout(p) \/ EscribirDeIo
  PROVE  Fiel'
<1>1. UNCHANGED <<tablaVars, colaCpu, respuesta, cpuVars>>
  BY DEF EscribirMemoria, LeerMemoria, ResponderStdout, EscribirDeIo, memoriaVars
<1>2. io \in [Pids -> PedidosIo]
  BY DEF Bien, TiposResto
<1>3. SinPedido.trozos = <<>> /\ ToSet(<<>>) = {}
  BY DEF SinPedido, ToSet
<1>4. CASE EscribirMemoria(p)
  <2>1. /\ io' = [io EXCEPT ![p] = SinPedido]
        /\ enVuelo' = enVuelo \cup {[pid |-> p, trozo |-> t] : t \in ToSet(io[p].trozos)}
    BY <1>4 DEF EscribirMemoria
  <2>2. \A q \in Pids : \A t \in ToSet(io'[q].trozos) : t \in ToSet(io[q].trozos)
    BY <1>2, <1>3, <2>1
  <2>3. \A e \in enVuelo' : e \in enVuelo \/ e.trozo \in ToSet(io[e.pid].trozos)
    BY <2>1
  <2>4. QED
    BY <1>1, <2>2, <2>3, FielFuera
<1>5. CASE LeerMemoria(p)
  <2>1. /\ io' = [io EXCEPT ![p].trozos = Tail(@)] /\ io[p].trozos # <<>>
        /\ enVuelo' = enVuelo /\ io[p] \in PedidosIo /\ io[p].trozos \in Seq(Trozos)
    BY <1>2, <1>5 DEF LeerMemoria, PedidosIo
  <2>2. ToSet(Tail(io[p].trozos)) \subseteq ToSet(io[p].trozos)
    <3>1. PICK s \in Seq(Trozos) : s = io[p].trozos /\ s # <<>>
      BY <2>1
    <3>2. \A k \in DOMAIN Tail(s) : Tail(s)[k] = s[k + 1] /\ k + 1 \in DOMAIN s
      BY <3>1, Sacar
    <3>3. QED
      BY <3>1, <3>2 DEF ToSet
  <2>3. io'[p].trozos = Tail(io[p].trozos) /\ \A q \in Pids \ {p} : io'[q] = io[q]
    BY <1>2, <2>1 DEF PedidosIo
  <2>4. \A q \in Pids : \A t \in ToSet(io'[q].trozos) : t \in ToSet(io[q].trozos)
    BY <2>2, <2>3
  <2>5. QED
    BY <1>1, <2>1, <2>4, FielFuera
<1>6. CASE ResponderStdout(p)
  <2>1. io' = [io EXCEPT ![p] = SinPedido] /\ enVuelo' = enVuelo
    BY <1>6 DEF ResponderStdout
  <2>2. \A q \in Pids : \A t \in ToSet(io'[q].trozos) : t \in ToSet(io[q].trozos)
    BY <1>2, <1>3, <2>1
  <2>3. QED
    BY <1>1, <2>1, <2>2, FielFuera
<1>7. CASE EscribirDeIo
  <2>1. io' = io /\ \A e \in enVuelo' : e \in enVuelo
    BY <1>7 DEF EscribirDeIo
  <2>2. QED
    BY <1>1, <2>1, FielFuera
<1>8. QED
  BY <1>4, <1>5, <1>6, <1>7

-----------------------------------------------------------------------------
(* A step of the cycle: of its messages only that of PedirMarco is about a    *)
(* page.                                                                      *)
LEMMA FielDelCiclo ==
  ASSUME Bien, Bien', Fiel, Crecen, UNCHANGED tablaVars, achicados \subseteq achicados',
         \/ cpu.fase # "marco"
         \/ respuesta.tipo = "marco" /\ respuesta' = SinRespuesta,
         respuesta' = respuesta \/ respuesta' = SinRespuesta,
         \/ colaCpu' = colaCpu
         \/ /\ cpu.fase # "resize"
            /\ \E m \in Pedidos :
                 /\ colaCpu' = Append(colaCpu, m) /\ MensajeBien(m)'
                 /\ m.tipo = "pagina" =>
                      cpu'.fase = "marco" /\ m.pid = cpu'.pid /\ m.pagina = cpu'.pagina
  PROVE  RespuestaFiel' /\ MensajesBien' /\ PaginaUltima' /\ HilosFieles'
<1>1. UNCHANGED <<tablas, existe, hiloCpu, hiloKernel, soltados>>
  BY DEF tablaVars
<1>2. SinRespuesta.tipo # "marco"
  BY DEF SinRespuesta
<1>3. respuesta'.tipo # "marco"
  BY <1>2 DEF Fiel, RespuestaFiel
<1>4. \A k \in DOMAIN colaCpu : colaCpu[k].tipo # "pagina"
  BY DEF Fiel, PaginaUltima
<1>5. RespuestaFiel'
  BY <1>3 DEF RespuestaFiel
<1>6. MensajesBien'
  BY <1>1, MismosHilos, MensajesSiguen DEF Fiel
<1>7. PaginaUltima'
  <2>1. CASE colaCpu' = colaCpu
    BY <1>4, <2>1 DEF PaginaUltima
  <2>2. ASSUME NEW m \in Pedidos, colaCpu' = Append(colaCpu, m),
               m.tipo = "pagina" => cpu'.fase = "marco" /\ m.pid = cpu'.pid /\ m.pagina = cpu'.pagina
        PROVE  PaginaUltima'
    <3>1. colaCpu \in Seq(Pedidos)
      BY DEF Bien, TiposColas
    <3>2. PICK l \in Nat : l = Len(colaCpu)
      BY <3>1
    <3>3. /\ Len(colaCpu') = l + 1
          /\ DOMAIN colaCpu = 1 .. l /\ DOMAIN colaCpu' = 1 .. l + 1
          /\ colaCpu'[l + 1] = m
          /\ \A k \in DOMAIN colaCpu : colaCpu'[k] = colaCpu[k]
      BY <2>2, <3>1, <3>2, Agregar
    <3>4. ASSUME NEW k \in DOMAIN colaCpu', colaCpu'[k].tipo = "pagina"
          PROVE  k = l + 1
      <4>1. k \in 1 .. l + 1 /\ k \notin 1 .. l
        BY <1>4, <3>3, <3>4
      <4>2. QED
        BY <3>2, <4>1
    <3>5. QED
      BY <1>3, <2>2, <3>3, <3>4 DEF PaginaUltima
  <2>3. QED
    BY <2>1, <2>2
<1>8. HilosFieles'
  <2>1. colaCpu' = colaCpu \/ hiloCpu.paso = "espera"
    BY DEF Bien, Espera
  <2>2. QED
    BY <1>1, <2>1, SueltasQuietas DEF Fiel, HilosFieles
<1>9. QED
  BY <1>5, <1>6, <1>7, <1>8

LEMMA Quietos ==
  ASSUME Bien, Bien', Fiel, Crecen
  PROVE  /\ UNCHANGED tlb => TlbFiel'
         /\ UNCHANGED <<io, enVuelo>> => IoFiel'
         /\ cpu'.trozos = <<>> /\ ~EnTransferencia' => TrozosFieles'
         /\ ~EnTransferencia' /\ cpu'.fase \notin {"fetch", "instruccion"} => TrozosFieles'
<1>1. UNCHANGED tlb => TlbFiel'
  BY TlbQuieta DEF Fiel
<1>2. UNCHANGED <<io, enVuelo>> => IoFiel'
  <2>1. \A e \in enVuelo : e.pid \in Pids
    BY DEF Bien, TiposResto, EnViaje
  <2>2. QED
    BY <2>1, IoPaso DEF Fiel
<1>3. cpu'.trozos = <<>> /\ ~EnTransferencia' => TrozosFieles'
  BY DEF TrozosFieles
<1>4. ~EnTransferencia' /\ cpu'.fase \notin {"fetch", "instruccion"} => TrozosFieles'
  BY DEF TrozosFieles
<1>5. QED
  BY <1>1, <1>2, <1>3, <1>4

LEMMA FielRecibirPcb ==
  ASSUME Bien, Bien', Fiel, Crecen, NEW p \in Pids, RecibirPcb(p)
  PROVE  Fiel'
<1>1. /\ UNCHANGED <<tablaVars, respuesta, tlb, achicados, io, enVuelo>>
      /\ cpu.fase = "ocioso" /\ colaCpu' = Append(colaCpu, Pedido("fetch", p))
      /\ cpu' = [Ocioso EXCEPT !.fase = "fetch", !.pid = p]
  BY DEF RecibirPcb, Pide
<1>2. cpu'.fase = "fetch" /\ cpu'.trozos = <<>>
  BY <1>1 DEF Ocioso
<1>3. Pedido("fetch", p) \in Pedidos /\ Pedido("fetch", p).tipo = "fetch"
  BY PedidoTipo
<1>4. MensajeBien(Pedido("fetch", p))'
  BY <1>3 DEF MensajeBien
<1>5. RespuestaFiel' /\ MensajesBien' /\ PaginaUltima' /\ HilosFieles'
  BY <1>1, <1>3, <1>4, FielDelCiclo
<1>6. QED
  BY <1>1, <1>2, <1>5, Quietos DEF Fiel, EnTransferencia

LEMMA FielSolicitar ==
  ASSUME Bien, Bien', Fiel, Crecen, SolicitarInstruccion
  PROVE  Fiel'
<1>1. /\ UNCHANGED <<tablaVars, respuesta, tlb, achicados, io, enVuelo>>
      /\ cpu.fase = "siguiente" /\ colaCpu' = Append(colaCpu, Pedido("fetch", cpu.pid))
      /\ cpu' = [Ocioso EXCEPT !.fase = "fetch", !.pid = cpu.pid]
  BY DEF SolicitarInstruccion, Pide, restoVars
<1>2. cpu'.fase = "fetch" /\ cpu'.trozos = <<>>
  BY <1>1 DEF Ocioso
<1>3. PICK m \in Pedidos : m = Pedido("fetch", cpu.pid) /\ m.tipo = "fetch"
  BY <1>1, EnLaCpu, PedidoTipo
<1>4. MensajeBien(m)'
  BY <1>3 DEF MensajeBien
<1>5. RespuestaFiel' /\ MensajesBien' /\ PaginaUltima' /\ HilosFieles'
  BY <1>1, <1>3, <1>4, FielDelCiclo
<1>6. QED
  BY <1>1, <1>2, <1>5, Quietos DEF Fiel, EnTransferencia

LEMMA FielRecibe ==
  ASSUME Bien, Bien', Fiel, Crecen, RecvInstruction \/ RecibirResize \/ RecibirDato
  PROVE  Fiel'
<1>1. /\ UNCHANGED <<tablaVars, colaCpu, tlb, achicados, io, enVuelo>>
      /\ cpu.fase \in {"fetch", "resize", "dato"} /\ respuesta' = SinRespuesta
  BY DEF RecvInstruction, RecibirResize, RecibirDato, Recibe, restoVars
<1>2. cpu \in Cpus
  BY <1>1, EnLaCpu
<1>3. RespuestaFiel' /\ MensajesBien' /\ PaginaUltima' /\ HilosFieles'
  BY <1>1, FielDelCiclo
<1>4. TrozosFieles'
  <2>1. CASE RecvInstruction
    <3>1. cpu.fase = "fetch" /\ cpu' = [cpu EXCEPT !.fase = "instruccion"]
      BY <2>1 DEF RecvInstruction
    <3>2. cpu'.fase = "instruccion" /\ cpu'.trozos = cpu.trozos
      BY <1>2, <3>1 DEF Cpus
    <3>3. cpu.trozos = <<>>
      BY <3>1 DEF Fiel, TrozosFieles
    <3>4. QED
      BY <3>2, <3>3, Quietos DEF EnTransferencia
  <2>2. CASE RecibirResize
    <3>1. cpu'.fase \in {"siguiente", "out_of_memory"}
      BY <1>2, <2>2 DEF RecibirResize, Cpus
    <3>2. QED
      BY <3>1, Quietos DEF EnTransferencia
  <2>3. CASE RecibirDato
    <3>1. cpu.fase = "dato" /\ cpu' = [cpu EXCEPT !.fase = "trozo"]
      BY <2>3 DEF RecibirDato
    <3>2. cpu'.fase = "trozo" /\ UNCHANGED <<cpu.pid, cpu.dir, cpu.trozos, cpu.pagina>>
      BY <1>2, <3>1 DEF Cpus
    <3>3. QED
      BY <3>1, <3>2, TrozosQuietos DEF EnTransferencia, Fiel
  <2>4. QED
    BY <2>1, <2>2, <2>3
<1>5. QED
  BY <1>1, <1>3, <1>4, Quietos DEF Fiel

LEMMA FielDejarCpu ==
  ASSUME Bien, Bien', Fiel, Crecen, ManejarInterrupcion \/ EnviarPcbFinalizado \/ SolicitarIo
  PROVE  Fiel'
<1>1. /\ UNCHANGED <<tablaVars, colaCpu, respuesta, tlb, achicados, enVuelo>>
      /\ cpu' = Ocioso /\ cpu.fase \notin {"ocioso", "marco"}
  BY DEF ManejarInterrupcion, EnviarPcbFinalizado, SolicitarIo, Transferido, memoriaVars
<1>2. cpu.pid \in Pids /\ cpu \in Cpus
  BY <1>1, EnLaCpu
<1>3. RespuestaFiel' /\ MensajesBien' /\ PaginaUltima' /\ HilosFieles'
  BY <1>1, FielDelCiclo
<1>4. cpu'.fase = "ocioso"
  BY <1>1 DEF Ocioso
<1>5. IoFiel'
  <2>1. CASE UNCHANGED io
    BY <1>1, <2>1, Quietos
  <2>2. CASE SolicitarIo
    <3>1. /\ cpu.fase = "trozo" /\ io \in [Pids -> PedidosIo]
          /\ io' = [io EXCEPT ![cpu.pid] = [activo |-> TRUE, lectura |-> cpu.lectura, trozos |-> cpu.trozos]]
      BY <2>2 DEF SolicitarIo, Transferido, Bien, TiposResto
    <3>2. \A t \in ToSet(cpu.trozos) : DeAlguna(cpu.pid, t.marco)
      <4>1. ASSUME NEW k \in DOMAIN cpu.trozos PROVE DeAlguna(cpu.pid, cpu.trozos[k].marco)
        BY <3>1, DePaginaEsDeAlguna DEF Fiel, TrozosFieles, EnTransferencia
      <4>2. QED
        BY <4>1 DEF ToSet
    <3>3. ASSUME NEW q \in Pids, NEW t \in ToSet(io'[q].trozos)
          PROVE  t \in ToSet(io[q].trozos) \/ DeAlguna(q, t.marco)
      <4>1. CASE q = cpu.pid
        <5>1. io'[q].trozos = cpu.trozos
          BY <1>2, <3>1, <4>1
        <5>2. QED
          BY <3>2, <3>3, <4>1, <5>1
      <4>2. CASE q # cpu.pid
        BY <1>2, <3>1, <3>3, <4>2
      <4>3. QED
        BY <4>1, <4>2
    <3>4. \A e \in enVuelo : e.pid \in Pids
      BY DEF Bien, TiposResto, EnViaje
    <3>5. QED
      BY <1>1, <3>3, <3>4, IoPaso DEF Fiel
  <2>3. QED
    BY <2>1, <2>2 DEF ManejarInterrupcion, EnviarPcbFinalizado
<1>6. QED
  BY <1>1, <1>3, <1>4, <1>5, Quietos DEF Fiel, EnTransferencia

LEMMA FielEjecutarResize ==
  ASSUME Bien, Bien', Fiel, Crecen, NEW t \in TamanosResize, EjecutarResize(t)
  PROVE  Fiel'
<1>1. /\ UNCHANGED <<tablaVars, respuesta, tlb, io, enVuelo>>
      /\ cpu.fase = "instruccion" /\ cpu' = [cpu EXCEPT !.fase = "resize", !.tam = t]
      /\ colaCpu' = Append(colaCpu, [Pedido("resize", cpu.pid) EXCEPT !.cant = t])
      /\ achicados \subseteq achicados'
      /\ PaginasPara(t) < Len(tablas[cpu.pid]) => cpu.pid \in achicados'
  BY DEF EjecutarResize, Ejecuta, restoVars, Pide
<1>2. cpu.pid \in Pids /\ cpu \in Cpus /\ t \in Nat
  BY <1>1, EnLaCpu, MmuAssumption
<1>3. PICK m \in Pedidos : /\ m = [Pedido("resize", cpu.pid) EXCEPT !.cant = t]
                           /\ m.tipo = "resize" /\ m.pid = cpu.pid /\ m.cant = t
  <2> DEFINE a == [Pedido("resize", cpu.pid) EXCEPT !.cant = t]
  <2>1. a \in Pedidos /\ a.tipo = "resize" /\ a.pid = cpu.pid /\ a.cant = t
    BY <1>2 DEF Pedido, Pedidos
  <2>2. QED
    BY <2>1
<1>4. MensajeBien(m)'
  <2>1. UNCHANGED tablas
    BY <1>1 DEF tablaVars
  <2>2. QED
    BY <1>1, <1>3, <2>1 DEF MensajeBien, Achica
<1>5. RespuestaFiel' /\ MensajesBien' /\ PaginaUltima' /\ HilosFieles'
  BY <1>1, <1>3, <1>4, FielDelCiclo
<1>6. cpu'.fase = "resize"
  BY <1>1, <1>2 DEF Cpus
<1>7. QED
  BY <1>1, <1>5, <1>6, Quietos DEF Fiel, EnTransferencia

LEMMA FielPedirMarco ==
  ASSUME Bien, Bien', Fiel, Crecen, PedirMarco
  PROVE  Fiel'
<1>1. /\ UNCHANGED <<tablaVars, respuesta, tlb, achicados, io, enVuelo>>
      /\ cpu.fase = "trozo" /\ cpu' = [cpu EXCEPT !.fase = "marco"]
      /\ colaCpu' = Append(colaCpu, [Pedido("pagina", cpu.pid) EXCEPT !.pagina = cpu.pagina])
  BY DEF PedirMarco, restoVars, Pide
<1>2. cpu.pid \in Pids /\ cpu \in Cpus
  BY <1>1, EnLaCpu
<1>3. cpu'.fase = "marco" /\ UNCHANGED <<cpu.pid, cpu.dir, cpu.trozos, cpu.pagina>>
  BY <1>1, <1>2 DEF Cpus
<1>4. PICK m \in Pedidos : /\ m = [Pedido("pagina", cpu.pid) EXCEPT !.pagina = cpu.pagina]
                           /\ m.tipo = "pagina" /\ m.pid = cpu.pid /\ m.pagina = cpu.pagina
  <2> DEFINE a == [Pedido("pagina", cpu.pid) EXCEPT !.pagina = cpu.pagina]
  <2>1. a \in Pedidos /\ a.tipo = "pagina" /\ a.pid = cpu.pid /\ a.pagina = cpu.pagina
    BY <1>2 DEF Pedido, Pedidos, Cpus
  <2>2. QED
    BY <2>1
<1>5. MensajeBien(m)'
  BY <1>4 DEF MensajeBien
<1>6. RespuestaFiel' /\ MensajesBien' /\ PaginaUltima' /\ HilosFieles'
  BY <1>1, <1>3, <1>4, <1>5, FielDelCiclo
<1>7. TrozosFieles'
  BY <1>1, <1>3, TrozosQuietos DEF EnTransferencia, Fiel
<1>8. QED
  BY <1>1, <1>6, <1>7, Quietos DEF Fiel

(* A transfer starts without pieces.                                          *)
LEMMA FielSinTrozos ==
  ASSUME Bien, Bien', Fiel, Crecen, UNCHANGED <<memoriaVars, tlb, achicados, io, enVuelo>>,
         cpu.fase # "marco", cpu'.fase = "trozo", cpu'.trozos = <<>>,
         NEW d \in Nat, cpu'.dir = d, cpu'.pagina = NumPagina(d)
  PROVE  Fiel'
<1>1. UNCHANGED <<tablaVars, colaCpu, respuesta>>
  BY DEF memoriaVars
<1>2. RespuestaFiel' /\ MensajesBien' /\ PaginaUltima' /\ HilosFieles'
  BY <1>1, FielDelCiclo
<1>3. TrozosFieles'
  <2>1. NumPagina(d) \in Nat /\ Len(<<>>) = 0
    BY Division
  <2>2. cpu'.pagina = NumPagina(cpu'.dir) + Len(cpu'.trozos)
    BY <2>1
  <2>3. QED
    BY <2>2 DEF TrozosFieles
<1>4. QED
  BY <1>2, <1>3, Quietos DEF Fiel

LEMMA FielEmpezar ==
  ASSUME Bien, Bien', Fiel, Crecen, NEW op \in {"mov", "copiar", "io"}, NEW dir \in Direcciones,
         NEW tam \in Tamanos, NEW lectura \in BOOLEAN, NEW destino \in Nat,
         Empezar(op, dir, tam, lectura, destino)
  PROVE  Fiel'
<1>1. /\ UNCHANGED <<memoriaVars, tlb, achicados, io, enVuelo>> /\ cpu.fase = "instruccion"
      /\ cpu' = [cpu EXCEPT !.fase = "trozo", !.op = op, !.dir = dir,
                            !.tam = tam, !.lectura = lectura, !.destino = destino,
                            !.resta = tam, !.pagina = NumPagina(dir), !.desp = Desplazamiento(dir)]
  BY DEF Empezar, Ejecuta, restoVars
<1>2. cpu \in Cpus /\ dir \in Nat
  BY <1>1, EnLaCpu, MmuAssumption
<1>3. cpu.trozos = <<>>
  BY <1>1 DEF Fiel, TrozosFieles
<1>4. cpu'.fase = "trozo" /\ cpu'.trozos = <<>> /\ cpu'.dir = dir /\ cpu'.pagina = NumPagina(dir)
  BY <1>1, <1>2, <1>3 DEF Cpus
<1>5. QED
  BY <1>1, <1>2, <1>4, FielSinTrozos

LEMMA FielTransferido ==
  ASSUME Bien, Bien', Fiel, Crecen, TerminarMov \/ CopiarADestino
  PROVE  Fiel'
<1>1. /\ UNCHANGED <<memoriaVars, tlb, achicados, io, enVuelo>> /\ cpu.fase = "trozo"
  BY DEF TerminarMov, CopiarADestino, Transferido, restoVars
<1>2. cpu \in Cpus
  BY <1>1, EnLaCpu
<1>3. CASE TerminarMov
  <2>1. cpu'.fase = "siguiente"
    BY <1>3 DEF TerminarMov, Ocioso
  <2>2. UNCHANGED <<tablaVars, colaCpu, respuesta>>
    BY <1>1 DEF memoriaVars
  <2>3. RespuestaFiel' /\ MensajesBien' /\ PaginaUltima' /\ HilosFieles'
    BY <1>1, <2>2, FielDelCiclo
  <2>4. QED
    BY <1>1, <2>1, <2>3, Quietos DEF Fiel, EnTransferencia
<1>4. CASE CopiarADestino
  <2>1. PICK d \in Nat : d = cpu.destino
    BY <1>2 DEF Cpus
  <2>2. /\ cpu'.fase = "trozo" /\ cpu'.trozos = <<>> /\ cpu'.dir = d /\ cpu'.pagina = NumPagina(d)
    BY <1>1, <1>2, <1>4, <2>1 DEF CopiarADestino, Cpus
  <2>3. QED
    BY <1>1, <2>2, FielSinTrozos
<1>5. QED
  BY <1>3, <1>4

-----------------------------------------------------------------------------
(* One piece more, for the frame of its page.                                 *)
LEMMA FielTransferir ==
  ASSUME Bien, Bien', MarcosCuadran, ConMarco, Fiel, Crecen,
         UNCHANGED <<tablaVars, achicados, estado>>, cpu.fase \in {"trozo", "marco"},
         NEW f \in ConNinguno, Transferir(f), DeLaPagina(cpu.pid, cpu.pagina + 1, f),
         \/ cpu.fase # "marco"
         \/ respuesta.tipo = "marco" /\ respuesta' = SinRespuesta,
         respuesta' = respuesta \/ respuesta' = SinRespuesta
  PROVE  TrozosFieles' /\ RespuestaFiel' /\ MensajesBien' /\ PaginaUltima' /\ HilosFieles'
<1>1. /\ cpu.pid \in Pids /\ cpu \in Cpus /\ estado[cpu.pid] = "cpu"
      /\ UNCHANGED <<tablas, existe, hiloCpu, hiloKernel>>
  BY EnLaCpu DEF tablaVars
<1>2. PICK p \in Pids, d \in Nat, s \in Seq(Trozos), g \in Nat, n \in Nat :
        /\ p = cpu.pid /\ d = cpu.dir /\ s = cpu.trozos /\ g = cpu.pagina /\ n = Len(s)
        /\ cpu.resta \in Nat /\ cpu.desp \in Nat
  BY <1>1, Supuestos DEF Cpus
<1>3. Disponibles \in Nat
  BY <1>1, <1>2, Supuestos DEF Disponibles, Cpus
<1>4. PICK c \in Nat : c = Min({cpu.resta, Disponibles})
  BY <1>2, <1>3, MinDeDos
<1>5. PICK o : o = cpu.desp /\ o \in Nat
  BY <1>2
<1>6. PICK t \in Trozos : t = [marco |-> f, desp |-> o, cant |-> c]
  BY <1>4, <1>5 DEF Trozos, ConNinguno
<1>7. PICK m \in Pedidos : /\ m.tipo \in {"leer", "escribir"} /\ m.pid = p /\ m.marco = f
                           /\ colaCpu' = colaCpu \/ colaCpu' = Append(colaCpu, m)
  <2> DEFINE tipo == IF cpu.lectura THEN "leer" ELSE "escribir"
             a == [Pedido(tipo, p) EXCEPT !.marco = f, !.desp = o, !.cant = c]
  <2>1. colaCpu' = colaCpu \/ colaCpu' = Append(colaCpu, a)
    BY <1>2, <1>4, <1>5 DEF Transferir, Pide
  <2>2. tipo \in {"leer", "escribir"}
    OBVIOUS
  <2> HIDE DEF tipo
  <2>3. a \in Pedidos /\ a.tipo = tipo /\ a.pid = p /\ a.marco = f
    BY <1>4, <1>5, <2>2 DEF Pedido, Pedidos, ConNinguno
  <2> HIDE DEF a
  <2>4. QED
    BY <2>1, <2>2, <2>3
<1>8. /\ cpu'.pid = p /\ cpu'.dir = d /\ cpu'.trozos = Append(s, t) /\ cpu'.pagina = g + 1
      /\ cpu'.fase \in {"dato", "trozo"}
  <2> DEFINE fase == IF cpu.op # "io" /\ cpu.lectura THEN "dato" ELSE "trozo"
             trozos == Append(cpu.trozos, t)
             resta  == cpu.resta - c
             pagina == cpu.pagina + 1
  <2>1. cpu' = [cpu EXCEPT !.fase = fase, !.trozos = trozos, !.resta = resta,
                           !.pagina = pagina, !.desp = 0]
    BY <1>1, <1>4, <1>5, <1>6 DEF Transferir, Cpus
  <2>2. fase \in {"dato", "trozo"}
    OBVIOUS
  <2>3. trozos = Append(s, t) /\ pagina = g + 1
    BY <1>2
  <2> HIDE DEF fase, trozos, resta, pagina
  <2>4. QED
    BY <1>1, <1>2, <2>1, <2>2, <2>3 DEF Cpus
<1>9. /\ g = NumPagina(d) + n
      /\ \A k \in DOMAIN s : DeLaPagina(p, NumPagina(d) + k, s[k].marco)
  BY <1>2 DEF Fiel, TrozosFieles, EnTransferencia
<1>10. TrozosFieles'
  <2>1. PICK h \in Nat : h = NumPagina(d)
    BY <1>2, Division
  <2>2. /\ DOMAIN s = 1 .. n /\ DOMAIN Append(s, t) = 1 .. n + 1 /\ Append(s, t)[n + 1] = t
        /\ Len(Append(s, t)) = n + 1
        /\ \A k \in DOMAIN s : Append(s, t)[k] = s[k]
    BY <1>2, Agregar
  <2>3. g + 1 = h + Len(Append(s, t))
    BY <1>9, <2>1, <2>2
  <2>4. ASSUME NEW k \in 1 .. n + 1 PROVE DeLaPagina(p, h + k, Append(s, t)[k].marco)'
    <3>1. CASE k \in 1 .. n
      <4>1. PICK x, e : x = h + k /\ e = s[k].marco
        OBVIOUS
      <4>2. DeLaPagina(p, x, e)
        BY <1>9, <2>1, <2>2, <3>1, <4>1
      <4>3. DeLaPagina(p, x, e)'
        BY <4>2, Persiste
      <4>4. QED
        BY <2>2, <3>1, <4>1, <4>3
    <3>2. CASE k = n + 1
      <4>1. PICK x : x = g + 1
        OBVIOUS
      <4>2. x = h + k
        BY <1>9, <2>1, <3>2, <4>1
      <4>3. DeLaPagina(p, x, f)
        BY <1>2, <4>1
      <4>4. DeLaPagina(p, x, f)'
        BY <4>3, Persiste
      <4>5. Append(s, t)[k].marco = f
        BY <1>6, <2>2, <3>2
      <4>6. QED
        BY <4>2, <4>4, <4>5
    <3>3. k \in 1 .. n \/ k = n + 1
      OBVIOUS
    <3>4. QED
      BY <3>1, <3>2, <3>3
  <2>5. QED
    BY <1>8, <2>1, <2>2, <2>3, <2>4 DEF TrozosFieles
<1>11. MensajeBien(m)'
  <2>1. ASSUME p \notin achicados, NEW q \in Pids \ {p}, NEW j \in DOMAIN tablas[q], Tiene(q, j),
               tablas[q][j] = f
        PROVE  FALSE
    <3>1. PICK i : i = g + 1
      OBVIOUS
    <3>2. DeLaPagina(p, i, f)
      BY <1>2, <3>1
    <3>3. p \in existe /\ i \in DOMAIN tablas[p] /\ tablas[p][i] = f
      BY <1>1, <1>2, <2>1, <3>2 DEF DeLaPagina, Viva
    <3>4. ~Liberada(p, i)
      <4>1. hiloCpu.paso # "achicar"
        BY DEF Bien, Espera
      <4>2. ~(hiloKernel.paso = "liberar" /\ hiloKernel.pid = p)
        BY <3>3 DEF Fiel, HilosFieles
      <4>3. QED
        BY <4>1, <4>2 DEF Liberada
    <3>5. Tiene(p, i)
      BY <3>3, <3>4 DEF Tiene, ConMarco
    <3>6. QED
      BY <2>1, <3>3, <3>5 DEF MarcosCuadran
  <2>2. \A q \in Pids : \A j \in DOMAIN tablas[q] : Tiene(q, j)' <=> Tiene(q, j)
    BY <1>1 DEF Tiene, Liberada
  <2>3. m.tipo # "resize"
    BY <1>7
  <2>4. SinOtroDueno(m)'
    BY <1>1, <1>7, <2>1, <2>2 DEF SinOtroDueno
  <2>5. f \in Poseidos(p)'
    <3>1. f \in Poseidos(p)
      BY <1>2 DEF DeLaPagina
    <3>2. QED
      BY <3>1 DEF Crecen
  <2>6. m.marco \in Poseidos(m.pid)'
    BY <1>7, <2>5
  <2>7. QED
    BY <2>3, <2>4, <2>6 DEF MensajeBien
<1>12. MensajesBien' /\ RespuestaFiel' /\ PaginaUltima' /\ HilosFieles'
  <2>1. cpu.fase # "resize"
    OBVIOUS
  <2>2. QED
    BY <1>7, <1>11, <2>1, FielDelCiclo
<1>13. QED
  BY <1>10, <1>12

(* The entries of a list to which one was added and from which some left.     *)
LEMMA TlbConUna ==
  ASSUME Bien, Crecen, TlbFiel, NEW s \in Seq(Entradas), NEW e \in Entradas,
         \A j \in DOMAIN s : \E k \in DOMAIN tlb : s[j] = tlb[k],
         DeLaPagina(e.pid, e.pagina + 1, e.marco),
         tlb' = Append(s, e)
  PROVE  TlbFiel'
<1>1. ASSUME NEW x \in Entradas, DeLaPagina(x.pid, x.pagina + 1, x.marco)
      PROVE  DeLaPagina(x.pid, x.pagina + 1, x.marco)'
  BY <1>1, Persiste DEF Entradas
<1>2. /\ Len(s) \in Nat /\ DOMAIN s = 1 .. Len(s) /\ DOMAIN Append(s, e) = 1 .. Len(s) + 1
      /\ Append(s, e)[Len(s) + 1] = e
      /\ \A k \in DOMAIN s : Append(s, e)[k] = s[k]
  BY Agregar
<1>3. PICK l \in Nat : l = Len(s)
  BY <1>2
<1>4. ASSUME NEW j \in 1 .. l + 1
      PROVE  DeLaPagina(tlb[j].pid, tlb[j].pagina + 1, tlb[j].marco)'
  <2>1. CASE j \in 1 .. l
    <3>1. PICK k \in DOMAIN tlb : s[j] = tlb[k]
      BY <1>2, <1>3, <2>1
    <3>2. PICK x \in Entradas : x = s[j]
      BY <1>2, <1>3, <2>1, ElementOfSeq
    <3>3. DeLaPagina(x.pid, x.pagina + 1, x.marco)
      BY <3>1, <3>2 DEF TlbFiel
    <3>4. tlb'[j] = x
      BY <1>2, <1>3, <2>1, <3>2
    <3>5. DeLaPagina(x.pid, x.pagina + 1, x.marco)'
      BY <1>1, <3>3
    <3>6. QED
      BY <3>4, <3>5
  <2>2. CASE j = l + 1
    <3>1. tlb'[j] = e
      BY <1>2, <1>3, <2>2
    <3>2. DeLaPagina(e.pid, e.pagina + 1, e.marco)'
      BY <1>1
    <3>3. QED
      BY <3>1, <3>2
  <2>3. j \in 1 .. l \/ j = l + 1
    OBVIOUS
  <2>4. QED
    BY <2>1, <2>2, <2>3
<1>5. DOMAIN tlb' = 1 .. l + 1
  BY <1>2, <1>3
<1>6. QED
  BY <1>4, <1>5 DEF TlbFiel

LEMMA SacarUno ==
  ASSUME NEW S, NEW s \in Seq(S), NEW k \in DOMAIN s
  PROVE  \A j \in DOMAIN RemoveAt(s, k) : \E i \in DOMAIN s : RemoveAt(s, k)[j] = s[i]
<1>1. PICK l \in Nat, i \in Nat : l = Len(s) /\ i = k /\ DOMAIN s = 1 .. l /\ i \in 1 .. l
  BY LenProperties
<1>2. PICK a : a = SubSeq(s, 1, i - 1)
  OBVIOUS
<1>3. PICK b : b = SubSeq(s, i + 1, l)
  OBVIOUS
<1>4. /\ a \in Seq(S) /\ Len(a) = i - 1
      /\ \A j \in 1 .. i - 1 : a[j] = s[j]
  <2>1. \A j \in 1 .. i - 1 : j \in 1 .. l
    BY <1>1
  <2>2. a = [j \in 1 .. i - 1 |-> s[j]]
    <3>1. \A j \in 1 .. i - 1 : 1 + j - 1 = j
      OBVIOUS
    <3>2. 1 + (i - 1) - 1 = i - 1
      BY <1>1
    <3>3. QED
      BY <1>1, <1>2, <2>1, SubSeqProperties
  <2>3. QED
    BY <1>1, <1>2, <2>1, <2>2, SubSeqProperties
<1>5. /\ b \in Seq(S) /\ Len(b) = l - i
      /\ \A j \in 1 .. l - i : b[j] = s[i + j]
  <2>1. \A j \in i + 1 .. l : j \in 1 .. l
    BY <1>1
  <2>2. /\ b \in Seq(S) /\ Len(b) = l - i
        /\ \A j \in 1 .. l - i : b[j] = s[i + j]
    <3>1. PICK h \in Int : h = i + 1
      BY <1>1
    <3>2. \A j \in h .. l : s[j] \in S
      BY <1>1, <2>1, <3>1, ElementOfSeq
    <3>3. /\ b \in Seq(S) /\ Len(b) = IF h <= l THEN l - h + 1 ELSE 0
          /\ \A j \in 1 .. l - h + 1 : b[j] = s[h + j - 1]
      BY <1>1, <1>3, <3>1, <3>2, SubSeqProperties
    <3>4. l - h + 1 = l - i /\ (l < h => l - i = 0)
      BY <1>1, <3>1
    <3>5. \A j \in 1 .. l - i : h + j - 1 = i + j
      BY <1>1, <3>1
    <3>6. Len(b) = l - i
      BY <1>1, <3>1, <3>3, <3>4
    <3>7. ASSUME NEW j \in 1 .. l - i PROVE b[j] = s[i + j]
      <4>1. b[j] = s[h + j - 1]
        BY <3>3, <3>4
      <4>2. QED
        BY <3>5, <4>1
    <3>8. QED
      BY <3>3, <3>6, <3>7
  <2>3. QED
    BY <2>2
<1>6. RemoveAt(s, k) = a \o b
  BY <1>1, <1>2, <1>3 DEF RemoveAt
<1>7. PICK u \in Nat, v \in Nat : u = Len(a) /\ v = Len(b) /\ u + 1 = i /\ u + 1 + v = l
  BY <1>1, <1>4, <1>5
<1>8. /\ DOMAIN (a \o b) = 1 .. u + v
      /\ \A j \in 1 .. u + v : (a \o b)[j] = IF j <= u THEN a[j] ELSE b[j - u]
  <2>1. a \in Seq(S) /\ b \in Seq(S)
    BY <1>4, <1>5
  <2>2. /\ a \o b \in Seq(S) /\ Len(a \o b) = Len(a) + Len(b)
        /\ \A j \in 1 .. Len(a) + Len(b) : (a \o b)[j] = IF j <= Len(a) THEN a[j] ELSE b[j - Len(a)]
    BY <2>1, ConcatProperties
  <2>3. DOMAIN (a \o b) = 1 .. Len(a \o b)
    BY <2>2, LenProperties
  <2>4. QED
    BY <1>7, <2>2, <2>3
<1>9. ASSUME NEW j \in 1 .. u + v
      PROVE  \E h \in DOMAIN s : (a \o b)[j] = s[h]
  <2>1. CASE j <= u
    <3>1. j \in 1 .. i - 1 /\ j \in 1 .. l
      BY <1>7, <2>1
    <3>2. (a \o b)[j] = s[j]
      BY <1>4, <1>8, <2>1, <3>1
    <3>3. QED
      BY <1>1, <3>1, <3>2
  <2>2. CASE ~(j <= u)
    <3>1. j - u \in 1 .. l - i /\ i + (j - u) = j + 1 /\ j + 1 \in 1 .. l
      BY <1>7, <2>2
    <3>2. (a \o b)[j] = s[j + 1]
      BY <1>5, <1>8, <2>2, <3>1
    <3>3. QED
      BY <1>1, <3>1, <3>2
  <2>3. QED
    BY <2>1, <2>2
<1>10. QED
  BY <1>6, <1>8, <1>9

LEMMA FielObtenerMarco ==
  ASSUME Bien, Bien', MarcosCuadran, ConMarco, Fiel, Crecen, ObtenerMarco
  PROVE  Fiel'
<1>1. /\ UNCHANGED <<tablaVars, respuesta, achicados, estado, io, enVuelo>> /\ cpu.fase = "trozo"
  BY DEF ObtenerMarco, restoVars
<1>2. PICK k \in Aciertos :
        /\ Transferir(tlb[k].marco)
        /\ tlb' = IF AlgoritmoTlb = "LRU" THEN Append(RemoveAt(tlb, k), tlb[k]) ELSE tlb
  BY DEF ObtenerMarco
<1>3. k \in DOMAIN tlb /\ tlb[k].pid = cpu.pid /\ tlb[k].pagina = cpu.pagina
  BY DEF Aciertos, EnTlb
<1>4. PICK e \in Entradas : e = tlb[k] /\ tlb \in Seq(Entradas)
  BY <1>3, ElementOfSeq, LenProperties DEF Bien, TiposCpu
<1>5. DeLaPagina(e.pid, e.pagina + 1, e.marco) /\ e.marco \in ConNinguno
  BY <1>3, <1>4 DEF Fiel, TlbFiel, Entradas
<1>6. Transferir(e.marco) /\ DeLaPagina(cpu.pid, cpu.pagina + 1, e.marco)
  BY <1>2, <1>3, <1>4, <1>5
<1>7. TrozosFieles' /\ RespuestaFiel' /\ MensajesBien' /\ PaginaUltima' /\ HilosFieles'
  BY <1>1, <1>5, <1>6, FielTransferir
<1>8. TlbFiel'
  <2>1. CASE AlgoritmoTlb = "LRU"
    <3>1. tlb' = Append(RemoveAt(tlb, k), e)
      BY <1>2, <1>4, <2>1
    <3>2. PICK s \in Seq(Entradas) : s = RemoveAt(tlb, k)
      BY <1>3, <1>4, RemoveAtTipo
    <3>3. \A j \in DOMAIN s : \E i \in DOMAIN tlb : s[j] = tlb[i]
      BY <1>3, <1>4, <3>2, SacarUno
    <3>4. QED
      BY <1>5, <3>1, <3>2, <3>3, TlbConUna DEF Fiel
  <2>2. CASE AlgoritmoTlb # "LRU"
    BY <1>2, <2>2, Quietos
  <2>3. QED
    BY <2>1, <2>2
<1>9. QED
  BY <1>1, <1>7, <1>8, Quietos DEF Fiel

LEMMA FielRecibirMarco ==
  ASSUME Bien, Bien', MarcosCuadran, ConMarco, Fiel, Crecen, RecibirMarco
  PROVE  Fiel'
<1>1. /\ cpu.fase = "marco" /\ respuesta.tipo = "marco" /\ respuesta' = SinRespuesta
      /\ UNCHANGED <<tablaVars, achicados, estado, io, enVuelo>>
      /\ Transferir(respuesta.valor)
      /\ tlb' = Reemplazar([pid |-> cpu.pid, pagina |-> cpu.pagina, marco |-> respuesta.valor])
  BY DEF RecibirMarco, Recibe, restoVars
<1>2. respuesta.valor \in ConNinguno /\ cpu.pid \in Pids /\ cpu \in Cpus
  BY <1>1, EnLaCpu DEF Bien, TiposColas
<1>3. PICK f \in ConNinguno : f = respuesta.valor /\ DeLaPagina(cpu.pid, cpu.pagina + 1, f)
  BY <1>1, <1>2 DEF Fiel, RespuestaFiel
<1>4. PICK e \in Entradas : e = [pid |-> cpu.pid, pagina |-> cpu.pagina, marco |-> respuesta.valor]
  BY <1>2 DEF Entradas, Cpus
<1>5. DeLaPagina(e.pid, e.pagina + 1, e.marco)
  BY <1>3, <1>4
<1>6. TrozosFieles' /\ RespuestaFiel' /\ MensajesBien' /\ PaginaUltima' /\ HilosFieles'
  BY <1>1, <1>3, FielTransferir
<1>7. tlb \in Seq(Entradas) /\ Len(tlb) \in Nat /\ CantidadEntradasTlb \in Nat
  BY LenProperties, MmuAssumption DEF Bien, TiposCpu
<1>8. TlbFiel'
  <2>1. CASE CantidadEntradasTlb = 0
    BY <1>1, <2>1, Quietos DEF Reemplazar
  <2>2. CASE CantidadEntradasTlb # 0 /\ Len(tlb) < CantidadEntradasTlb
    <3>1. tlb' = Append(tlb, e)
      BY <1>1, <1>4, <2>2 DEF Reemplazar
    <3>2. QED
      BY <1>5, <1>7, <3>1, TlbConUna DEF Fiel
  <2>3. CASE CantidadEntradasTlb # 0 /\ ~(Len(tlb) < CantidadEntradasTlb)
    <3>1. tlb' = Append(Tail(tlb), e)
      BY <1>1, <1>4, <2>3 DEF Reemplazar
    <3>2. tlb # <<>>
      BY <1>7, <2>3
    <3>3. PICK s \in Seq(Entradas) : s = Tail(tlb)
      BY <1>7, <3>2, Sacar
    <3>4. \A j \in DOMAIN s : s[j] = tlb[j + 1] /\ j + 1 \in DOMAIN tlb
      BY <1>7, <3>2, <3>3, Sacar
    <3>5. \A j \in DOMAIN s : \E k \in DOMAIN tlb : s[j] = tlb[k]
      BY <3>4
    <3>6. QED
      BY <1>5, <3>1, <3>3, <3>5, TlbConUna DEF Fiel
  <2>4. QED
    BY <2>1, <2>2, <2>3
<1>9. QED
  BY <1>1, <1>6, <1>8, Quietos DEF Fiel

-----------------------------------------------------------------------------
LEMMA FielInicial == Init => Fiel
<1> SUFFICES ASSUME Init PROVE Fiel
  OBVIOUS
<1> USE DEF Init, MemoriaInit
<1>1. TlbFiel /\ MensajesBien /\ PaginaUltima /\ TrozosFieles
  BY DEF TlbFiel, MensajesBien, PaginaUltima, TrozosFieles, EnTransferencia, Ocioso
<1>2. RespuestaFiel /\ HilosFieles
  BY DEF RespuestaFiel, HilosFieles, Sueltas, SinRespuesta, CpuLibre, KernelLibre
<1>3. IoFiel
  BY DEF IoFiel, SinPedido, ToSet
<1>4. QED
  BY <1>1, <1>2, <1>3 DEF Fiel

LEMMA FielSiguiente ==
  ASSUME Bien, Bien', MarcosCuadran, ConMarco, Fiel, Next
  PROVE  Fiel'
<1>1. Crecen
  BY Crece DEF Fiel
<1>2. CASE MemoriaNext /\ UNCHANGED <<cpuVars, restoVars>>
  BY <1>2, FielMemoria
<1>3. CASE \E p \in Pids : CrearProceso(p) \/ Finalizar(p) \/ EndProcess(p)
                            \/ RecibirPcb(p) \/ EscribirMemoria(p)
                            \/ LeerMemoria(p) \/ ResponderStdout(p)
  BY <1>1, <1>3, FielDelKernel, FielRecibirPcb, FielIo
<1>4. CASE EscribirDeIo
  <2>1. PICK e \in enVuelo : TRUE
    BY <1>4 DEF EscribirDeIo
  <2>2. e.pid \in Pids
    BY <2>1 DEF Bien, TiposResto, EnViaje
  <2>3. QED
    BY <1>1, <1>4, <2>2, FielIo
<1>5. CASE RecvInstruction \/ SolicitarInstruccion \/ ManejarInterrupcion \/ EnviarPcbFinalizado
  BY <1>1, <1>5, FielRecibe, FielSolicitar, FielDejarCpu
<1>6. CASE (\E t \in TamanosResize : EjecutarResize(t)) \/ RecibirResize
  BY <1>1, <1>6, FielEjecutarResize, FielRecibe
<1>7. ASSUME NEW dir \in Direcciones, NEW tam \in Tamanos,
             \/ MovIn(dir, tam) \/ MovOut(dir, tam)
             \/ \E destino \in Destinos : CopyString(dir, destino, tam)
             \/ \E lectura \in BOOLEAN : ExecIoFrames(dir, tam, lectura)
      PROVE  Fiel'
  <2>1. PICK op \in {"mov", "copiar", "io"}, lectura \in BOOLEAN, destino \in Nat :
          Empezar(op, dir, tam, lectura, destino)
    BY <1>7, AlgunaEmpieza
  <2>2. QED
    BY <1>1, <2>1, FielEmpezar
<1>8. CASE ObtenerMarco \/ PedirMarco \/ RecibirMarco \/ RecibirDato
  BY <1>1, <1>8, FielObtenerMarco, FielPedirMarco, FielRecibirMarco, FielRecibe
<1>9. CASE TerminarMov \/ CopiarADestino \/ SolicitarIo
  BY <1>1, <1>9, FielTransferido, FielDejarCpu
<1>10. QED
  BY <1>2, <1>3, <1>4, <1>5, <1>6, <1>7, <1>8, <1>9 DEF Next

LEMMA FielSinCambios ==
  ASSUME Fiel, UNCHANGED vars
  PROVE  Fiel'
<1>1. UNCHANGED <<tablas, existe, hiloCpu, hiloKernel, soltados, colaCpu, respuesta, tlb, cpu, achicados,
                  estado, io, enVuelo>>
  BY DEF vars, memoriaVars, tablaVars, cpuVars, restoVars
<1>2. TlbFiel' /\ RespuestaFiel'
  BY <1>1 DEF Fiel, TlbFiel, RespuestaFiel, DeLaPagina, Viva, Poseidos
<1>3. TrozosFieles' /\ IoFiel'
  BY <1>1 DEF Fiel, TrozosFieles, IoFiel, EnTransferencia, DeLaPagina, DeAlguna, Viva, Poseidos
<1>4. MensajesBien' /\ PaginaUltima'
  BY <1>1 DEF Fiel, MensajesBien, PaginaUltima, MensajeBien, Achica, SinOtroDueno, Tiene, Liberada, Poseidos
<1>5. HilosFieles'
  BY <1>1 DEF Fiel, HilosFieles, Sueltas, Liberada
<1>6. QED
  BY <1>2, <1>3, <1>4, <1>5 DEF Fiel

(* The invariants of this module and those of the memory they stand on.      *)
Base == Bien /\ MarcosCuadran /\ Llena /\ Fiel

LEMMA BaseInicial == Init => Base
  BY BienInicial, CuadranInicial, LlenaInicial, FielInicial DEF Base

LEMMA BaseSiguiente ==
  ASSUME Base, [Next]_vars
  PROVE  Base'
<1> USE DEF Base
<1>1. CASE Next
  <2>1. Bien'
    BY <1>1, BienSiguiente
  <2>2. QED
    BY <1>1, <2>1, CuadranSiguiente, LlenaSiguiente, FielSiguiente DEF Llena
<1>2. CASE UNCHANGED vars
  <2>1. UNCHANGED <<tablas, marcos, hiloCpu, hiloKernel>>
    BY <1>2 DEF vars, memoriaVars, tablaVars
  <2>2. QED
    BY <1>2, <2>1, BienSinCambios, CuadranMismosHilos, LlenaIgual, FielSinCambios
<1>3. QED
  BY <1>1, <1>2

(* What the CPU and the interfaces carry is for frames their process has, or  *)
(* gave back when it shrank or ended; and what the CPU sent is for no frame   *)
(* that another process came to have, but if its own process shrank.          *)
THEOREM LoQueViajaEsPropio == Spec => []EnVueloPropio
<1>1. Base => EnVueloPropio
  <2> SUFFICES ASSUME Base PROVE EnVueloPropio
    OBVIOUS
  <2>1. /\ IoFiel /\ MensajesBien /\ TrozosFieles /\ Sueltas
        /\ enVuelo \subseteq EnViaje /\ colaCpu \in Seq(Pedidos)
    BY DEF Base, Fiel, HilosFieles, Bien, TiposResto, TiposColas
  <2>2. ASSUME NEW p \in Pids, NEW f \in Poseidos(p) PROVE Suyo(p, f)
    BY <2>1, <2>2 DEF Poseidos, Suyo, Sueltas
  <2>3. \A p \in Pids : \A t \in ToSet(io[p].trozos) : Suyo(p, t.marco)
    BY <2>1, <2>2 DEF IoFiel, DeAlguna
  <2>4. \A e \in enVuelo : Suyo(e.pid, e.trozo.marco)
    <3>1. ASSUME NEW e \in enVuelo PROVE Suyo(e.pid, e.trozo.marco)
      <4>1. e.pid \in Pids /\ e.trozo.marco \in Poseidos(e.pid)
        BY <2>1 DEF EnViaje, IoFiel, DeAlguna
      <4>2. QED
        BY <2>2, <4>1
    <3>2. QED
      BY <3>1
  <2>5. cpu.fase = "trozo" => \A t \in ToSet(cpu.trozos) : Suyo(cpu.pid, t.marco)
    <3>1. ASSUME cpu.fase = "trozo", NEW k \in DOMAIN cpu.trozos
          PROVE  Suyo(cpu.pid, cpu.trozos[k].marco)
      <4>1. cpu.trozos[k].marco \in Poseidos(cpu.pid)
        BY <2>1, <3>1 DEF TrozosFieles, EnTransferencia, DeLaPagina
      <4>2. cpu.pid \in Pids
        BY <3>1, EnLaCpu DEF Base
      <4>3. QED
        BY <2>2, <4>1, <4>2
    <3>2. QED
      BY <3>1 DEF ToSet
  <2>6. ASSUME NEW k \in DOMAIN colaCpu, colaCpu[k].tipo \in {"leer", "escribir"}
        PROVE  /\ Suyo(colaCpu[k].pid, colaCpu[k].marco)
               /\ colaCpu[k].pid \notin achicados => ~DeOtro(colaCpu[k].pid, colaCpu[k].marco)
    <3>1. PICK m \in Pedidos : m = colaCpu[k]
      BY <2>1, ElementOfSeq, LenProperties
    <3>2. SinOtroDueno(m) /\ m.marco \in Poseidos(m.pid) /\ m.pid \in Pids
      BY <2>1, <2>6, <3>1 DEF MensajesBien, MensajeBien, Pedidos
    <3>3. Suyo(m.pid, m.marco) /\ (m.pid \notin achicados => ~DeOtro(m.pid, m.marco))
      BY <2>2, <3>2 DEF SinOtroDueno, DeOtro
    <3>4. QED
      BY <3>1, <3>3
  <2>7. QED
    BY <2>3, <2>4, <2>5, <2>6 DEF EnVueloPropio
<1>2. QED
  BY <1>1, BaseInicial, BaseSiguiente, PTL DEF Spec

-----------------------------------------------------------------------------
(***************************************************************************)
(* Each byte of a transfer. Cuenta follows the pieces: how many bytes are  *)
(* in them, where the next one goes, and at which offset of its page each  *)
(* of them is.                                                             *)
(***************************************************************************)
Lugares == ConNinguno \X Nat

Octetos(t) == [j \in 1 .. t.cant |-> <<t.marco, t.desp + j - 1>>]

Seguidos(s) == FlattenSeq([k \in DOMAIN s |-> Octetos(s[k])])

(* Not a write that goes on to another page from inside of one.               *)
Derecho(c) ==
  \/ c.lectura
  \/ Desplazamiento(c.dir) = 0
  \/ c.tam <= PageSize - Desplazamiento(c.dir)

Cuenta(F, c) ==
  /\ Len(F) + c.resta = c.tam
  /\ c.desp = 0 \/ (Len(F) = 0 /\ c.desp = Desplazamiento(c.dir))
  /\ \A k \in 1 .. Len(F) : F[k][2] = PageSize => k = PageSize - Desplazamiento(c.dir) + 1
  /\ Derecho(c) =>
       /\ c.resta > 0 => /\ NumPagina(c.dir + Len(F)) = c.pagina
                         /\ Desplazamiento(c.dir + Len(F)) = c.desp
       /\ \A k \in 1 .. Len(F) : F[k][2] = Desplazamiento(c.dir + k - 1)

DeSuPagina(F, c) ==
  Derecho(c) => \A k \in 1 .. Len(F) : DeLaPagina(c.pid, NumPagina(c.dir + k - 1) + 1, F[k][1])

Bytes ==
  EnTransferencia =>
    /\ Seguidos(cpu.trozos) \in Seq(Lugares)
    /\ Cuenta(Seguidos(cpu.trozos), cpu)
    /\ DeSuPagina(Seguidos(cpu.trozos), cpu)

LEMMA SonFisicas == Fisicas = Seguidos(cpu.trozos)
  BY DEF Fisicas, Seguidos, Octetos

LEMMA Dividir ==
  ASSUME NEW q \in Nat, NEW r \in Nat, r < PageSize, NEW x \in Nat, x = PageSize * q + r
  PROVE  NumPagina(x) = q /\ Desplazamiento(x) = r
<1>1. PageSize \in Nat /\ PageSize > 0
  BY Supuestos
<1>2. x \div PageSize = q /\ x % PageSize = r
  BY <1>1
<1>3. QED
  BY <1>2 DEF NumPagina, Desplazamiento

LEMMA Avanzar ==
  ASSUME NEW x \in Nat, NEW j \in Nat
  PROVE  /\ Desplazamiento(x) + j < PageSize =>
              NumPagina(x + j) = NumPagina(x) /\ Desplazamiento(x + j) = Desplazamiento(x) + j
         /\ Desplazamiento(x) + j = PageSize =>
              NumPagina(x + j) = NumPagina(x) + 1 /\ Desplazamiento(x + j) = 0
<1>1. PICK P \in Nat : P = PageSize /\ P > 0
  BY Supuestos
<1>2. PICK q \in Nat, r \in 0 .. P - 1 : q = NumPagina(x) /\ r = Desplazamiento(x) /\ x = P * q + r
  <2>1. x = P * (x \div P) + (x % P) /\ x % P \in 0 .. P - 1 /\ x \div P \in Nat
    BY <1>1
  <2>2. QED
    BY <1>1, <2>1 DEF NumPagina, Desplazamiento
<1>3. CASE r + j < P
  <2>1. x + j \in Nat /\ r + j \in Nat /\ x + j = P * q + (r + j)
    BY <1>1, <1>2
  <2>2. NumPagina(x + j) = q /\ Desplazamiento(x + j) = r + j
    BY <1>1, <1>3, <2>1, Dividir
  <2>3. QED
    BY <1>1, <1>2, <1>3, <2>2
<1>4. CASE r + j = P
  <2>1. x + j \in Nat /\ q + 1 \in Nat /\ 0 \in Nat /\ x + j = P * (q + 1) + 0
    <3>1. P * (q + 1) = P * q + P
      BY <1>1, <1>2
    <3>2. QED
      BY <1>1, <1>2, <1>4, <3>1
  <2>2. PICK y \in Nat, g \in Nat, z \in Nat : y = x + j /\ g = q + 1 /\ z = 0
    BY <2>1
  <2>3. y = PageSize * g + z /\ z < PageSize
    BY <1>1, <2>1, <2>2
  <2>4. NumPagina(y) = g /\ Desplazamiento(y) = z
    BY <2>3, Dividir
  <2>5. NumPagina(x + j) = q + 1 /\ Desplazamiento(x + j) = 0
    BY <2>2, <2>4
  <2>6. QED
    BY <1>1, <1>2, <1>4, <2>5
<1>5. QED
  BY <1>1, <1>2, <1>3, <1>4

LEMMA OctetosTipo ==
  ASSUME NEW t \in Trozos
  PROVE  /\ Octetos(t) \in Seq(Lugares) /\ Len(Octetos(t)) = t.cant /\ t.cant \in Nat
         /\ \A j \in 1 .. t.cant : Octetos(t)[j] = <<t.marco, t.desp + j - 1>>
<1>1. t.cant \in Nat /\ t.desp \in Nat /\ t.marco \in ConNinguno
  BY DEF Trozos, ConNinguno
<1>2. \A j \in 1 .. t.cant : <<t.marco, t.desp + j - 1>> \in Lugares
  BY <1>1 DEF Lugares
<1>3. QED
  BY <1>1, <1>2 DEF Octetos

LEMMA SeguidosVacio == Seguidos(<<>>) = <<>>
<1>1. [k \in DOMAIN <<>> |-> Octetos(<<>>[k])] = <<>>
  OBVIOUS
<1>2. QED
  BY <1>1, AplanarVacia DEF Seguidos

LEMMA SeguidosMas ==
  ASSUME NEW s \in Seq(Trozos), NEW t \in Trozos, Seguidos(s) \in Seq(Lugares)
  PROVE  Seguidos(Append(s, t)) = Seguidos(s) \o Octetos(t)
<1>1. PICK n \in Nat : /\ n = Len(s) /\ DOMAIN s = 1 .. n /\ DOMAIN Append(s, t) = 1 .. n + 1
                       /\ Append(s, t)[n + 1] = t
                       /\ \A k \in 1 .. n : Append(s, t)[k] = s[k] /\ s[k] \in Trozos
  BY Agregar, ElementOfSeq
<1>2. PICK q : q = [k \in DOMAIN s |-> Octetos(s[k])]
  OBVIOUS
<1>3. q \in Seq(Seq(Lugares)) /\ Len(q) = n /\ FlattenSeq(q) \in Seq(Lugares)
  <2>1. \A k \in 1 .. n : Octetos(s[k]) \in Seq(Lugares)
    BY <1>1, OctetosTipo
  <2>2. QED
    BY <1>1, <1>2, <2>1 DEF Seguidos
<1>4. PICK e \in Seq(Lugares) : e = Octetos(t)
  BY OctetosTipo
<1>5. [k \in DOMAIN Append(s, t) |-> Octetos(Append(s, t)[k])] = Append(q, e)
  <2>1. PICK r : r = [k \in DOMAIN Append(s, t) |-> Octetos(Append(s, t)[k])]
    OBVIOUS
  <2>2. DOMAIN r = 1 .. n + 1 /\ r = [k \in 1 .. n + 1 |-> r[k]]
    BY <1>1, <2>1
  <2>3. \A k \in 1 .. n + 1 : r[k] = IF k = n + 1 THEN e ELSE q[k]
    BY <1>1, <1>2, <1>4, <2>1
  <2>4. /\ Append(q, e) \in Seq(Seq(Lugares)) /\ DOMAIN Append(q, e) = 1 .. n + 1
        /\ Append(q, e)[n + 1] = e /\ \A k \in 1 .. n : Append(q, e)[k] = q[k]
    BY <1>3, <1>4, Agregar
  <2>5. \A k \in 1 .. n + 1 : Append(q, e)[k] = r[k]
    <3>1. \A k \in 1 .. n + 1 : k = n + 1 \/ k \in 1 .. n
      OBVIOUS
    <3>2. QED
      BY <2>3, <2>4, <3>1
  <2>6. Append(q, e) = [k \in 1 .. n + 1 |-> Append(q, e)[k]]
    <3>1. PICK v \in Seq(Seq(Lugares)) : v = Append(q, e)
      BY <2>4
    <3>2. v \in [1 .. Len(v) -> Seq(Lugares)] /\ DOMAIN v = 1 .. Len(v)
      BY <3>1, LenProperties
    <3>3. v \in [1 .. n + 1 -> Seq(Lugares)]
      BY <2>4, <3>1, <3>2
    <3>4. v = [k \in 1 .. n + 1 |-> v[k]]
      BY <3>3
    <3>5. QED
      BY <3>1, <3>4
  <2>7. QED
    BY <2>1, <2>2, <2>5, <2>6
<1>6. QED
  BY <1>2, <1>3, <1>4, <1>5, AplanarMas DEF Seguidos

(* The arithmetic of one piece of q bytes, when n bytes of T went and r stay, *)
(* from the logical address x, whose offset is d.                             *)
Tramo(n, q, x, d, o, r, g, T, l, der, libres) ==
  /\ n \in Nat /\ q \in Nat /\ x \in Nat /\ d \in 0 .. PageSize - 1 /\ o \in 0 .. PageSize - 1
  /\ r \in Nat /\ g \in Nat /\ T \in Nat /\ libres \in Nat
  /\ n + r = T
  /\ o = 0 \/ (n = 0 /\ o = d)
  /\ q <= r /\ q <= libres /\ (q = r \/ q = libres)
  /\ o = 0 \/ l => libres = PageSize - o
  /\ ~(o = 0 \/ l) => libres = PageSize - o + 1
  /\ der => l \/ d = 0 \/ T <= PageSize - d
  /\ der /\ r > 0 => NumPagina(x + n) = g /\ Desplazamiento(x + n) = o

LEMMA Siguen ==
  ASSUME NEW n, NEW q, NEW x, NEW d, NEW o, NEW r, NEW g, NEW T, NEW l, NEW der, NEW libres,
         Tramo(n, q, x, d, o, r, g, T, l, der, libres)
  PROVE  /\ \A j \in 1 .. q : o + j - 1 = PageSize => n + j = PageSize - d + 1
         /\ der => \A j \in 1 .. q : /\ NumPagina(x + (n + j) - 1) = g
                                     /\ Desplazamiento(x + (n + j) - 1) = o + j - 1
         /\ der /\ r - q > 0 => NumPagina(x + (n + q)) = g + 1 /\ Desplazamiento(x + (n + q)) = 0
<1>1. PICK P \in Nat : P = PageSize
  BY Supuestos
<1>2. /\ n \in Nat /\ q \in Nat /\ x \in Nat /\ d \in Nat /\ d < P /\ o \in Nat /\ o < P
      /\ r \in Nat /\ g \in Nat /\ T \in Nat /\ libres \in Nat
  BY <1>1 DEF Tramo
<1>3. n + r = T /\ q <= r /\ q <= libres /\ (q = r \/ q = libres) /\ (o = 0 \/ (n = 0 /\ o = d))
  BY DEF Tramo
<1>4. (o = 0 \/ l => libres = P - o) /\ (~(o = 0 \/ l) => libres = P - o + 1)
  BY <1>1 DEF Tramo
<1>5. der => l \/ d = 0 \/ T <= P - d
  BY <1>1 DEF Tramo
<1>6. der /\ r > 0 => NumPagina(x + n) = g /\ Desplazamiento(x + n) = o
  BY DEF Tramo
<1>7. ASSUME NEW j \in 1 .. q, o + j - 1 = P PROVE n + j = P - d + 1
  <2>1. CASE o = 0
    <3>1. q <= P /\ j = P + 1
      BY <1>1, <1>2, <1>3, <1>4, <1>7, <2>1
    <3>2. QED
      BY <1>1, <1>2, <3>1
  <2>2. CASE o # 0
    BY <1>1, <1>2, <1>3, <1>7, <2>2
  <2>3. QED
    BY <2>1, <2>2
<1>8. ASSUME der, r > 0 PROVE o + q <= P /\ (q < r => o + q = P)
  <2>1. CASE o = 0 \/ l
    BY <1>1, <1>2, <1>3, <1>4, <2>1
  <2>2. CASE ~(o = 0 \/ l)
    <3>1. n = 0 /\ o = d /\ T = r
      BY <1>2, <1>3, <2>2
    <3>2. T <= P - d
      BY <1>5, <1>8, <2>2, <3>1
    <3>3. libres = P - o + 1
      BY <1>4, <2>2
    <3>4. QED
      BY <1>1, <1>2, <1>3, <3>1, <3>2, <3>3
  <2>3. QED
    BY <2>1, <2>2
<1>9. ASSUME der, NEW j \in 1 .. q
      PROVE  NumPagina(x + (n + j) - 1) = g /\ Desplazamiento(x + (n + j) - 1) = o + j - 1
  <2>1. r > 0
    BY <1>2, <1>3
  <2>2. PICK y \in Nat : y = x + n
    BY <1>2
  <2>3. PICK i \in Nat : i = j - 1
    BY <1>2
  <2>4. NumPagina(y) = g /\ Desplazamiento(y) = o
    BY <1>6, <1>9, <2>1, <2>2
  <2>5. o + i < PageSize
    BY <1>1, <1>2, <1>8, <1>9, <2>1, <2>3
  <2>6. NumPagina(y + i) = g /\ Desplazamiento(y + i) = o + i
    BY <2>4, <2>5, Avanzar
  <2>7. x + (n + j) - 1 = y + i /\ o + j - 1 = o + i
    BY <1>2, <2>2, <2>3
  <2>8. QED
    BY <2>6, <2>7
<1>10. ASSUME der, r - q > 0 PROVE NumPagina(x + (n + q)) = g + 1 /\ Desplazamiento(x + (n + q)) = 0
  <2>1. r > 0 /\ q < r
    BY <1>2, <1>3, <1>10
  <2>2. PICK y \in Nat : y = x + n
    BY <1>2
  <2>3. NumPagina(y) = g /\ Desplazamiento(y) = o
    BY <1>6, <1>10, <2>1, <2>2
  <2>4. o + q = PageSize
    BY <1>1, <1>8, <1>10, <2>1
  <2>5. NumPagina(y + q) = g + 1 /\ Desplazamiento(y + q) = 0
    BY <1>2, <2>3, <2>4, Avanzar
  <2>6. x + (n + q) = y + q
    BY <1>2, <2>2
  <2>7. QED
    BY <2>5, <2>6
<1>11. QED
  BY <1>1, <1>7, <1>9, <1>10

(* One piece more. Its bytes go on where the last ones ended, to the end of   *)
(* the page or of the transfer; or they are the only ones.                    *)
TrozoDe(t, c) ==
  \E libres \in Nat :
    /\ libres = PageSize - c.desp + (IF c.desp = 0 \/ c.lectura THEN 0 ELSE 1)
    /\ t.desp = c.desp /\ t.cant \in {c.resta, libres} /\ t.cant <= c.resta /\ t.cant <= libres

LEMMA EsTramo ==
  ASSUME NEW c \in Cpus, NEW F \in Seq(Lugares), Cuenta(F, c), NEW t \in Trozos, TrozoDe(t, c)
  PROVE  \E libres : Tramo(Len(F), t.cant, c.dir, Desplazamiento(c.dir), c.desp, c.resta, c.pagina, c.tam,
                           c.lectura, Derecho(c), libres)
<1>1. PICK libres \in Nat :
        /\ libres = PageSize - c.desp + (IF c.desp = 0 \/ c.lectura THEN 0 ELSE 1)
        /\ t.cant \in {c.resta, libres} /\ t.cant <= c.resta /\ t.cant <= libres
  BY DEF TrozoDe
<1>2. /\ c.dir \in Nat /\ c.desp \in 0 .. PageSize - 1 /\ c.resta \in Nat /\ c.pagina \in Nat
      /\ c.tam \in Nat /\ c.lectura \in BOOLEAN
  BY DEF Cpus
<1>3. Desplazamiento(c.dir) \in 0 .. PageSize - 1 /\ PageSize \in Nat
  BY <1>2, Division, Supuestos
<1>4. Len(F) \in Nat /\ t.cant \in Nat
  BY LenProperties DEF Trozos
<1>5. (Derecho(c) /\ c.resta > 0) => NumPagina(c.dir + Len(F)) = c.pagina /\ Desplazamiento(c.dir + Len(F)) = c.desp
  BY DEF Cuenta
<1>6. Derecho(c) => c.lectura \/ Desplazamiento(c.dir) = 0 \/ c.tam <= PageSize - Desplazamiento(c.dir)
  BY DEF Derecho
<1>7. Len(F) + c.resta = c.tam /\ (c.desp = 0 \/ (Len(F) = 0 /\ c.desp = Desplazamiento(c.dir)))
  BY DEF Cuenta
<1>8. /\ c.desp = 0 \/ c.lectura => libres = PageSize - c.desp
      /\ ~(c.desp = 0 \/ c.lectura) => libres = PageSize - c.desp + 1
  <2>1. PICK g \in Int : g = PageSize - c.desp
    BY <1>2, <1>3
  <2>2. g + 0 = g
    BY <2>1
  <2>3. CASE c.desp = 0 \/ c.lectura
    BY <1>1, <2>1, <2>2, <2>3
  <2>4. CASE ~(c.desp = 0 \/ c.lectura)
    BY <1>1, <2>1, <2>4
  <2>5. QED
    BY <2>1, <2>3, <2>4
<1>9. QED
  BY <1>1, <1>2, <1>3, <1>4, <1>5, <1>6, <1>7, <1>8 DEF Tramo

LEMMA Juntos ==
  ASSUME NEW F \in Seq(Lugares), NEW t \in Trozos
  PROVE  /\ F \o Octetos(t) \in Seq(Lugares) /\ Len(F \o Octetos(t)) = Len(F) + t.cant
         /\ \A k \in 1 .. Len(F) : (F \o Octetos(t))[k] = F[k]
         /\ \A j \in 1 .. t.cant : (F \o Octetos(t))[Len(F) + j] = <<t.marco, t.desp + j - 1>>
         /\ \A k \in 1 .. Len(F) + t.cant : k \in 1 .. Len(F) \/ \E j \in 1 .. t.cant : k = Len(F) + j
<1>1. PICK n \in Nat : n = Len(F)
  BY LenProperties
<1>2. PICK q \in Nat : q = t.cant
  BY DEF Trozos
<1>3. PICK H \in Seq(Lugares) : H = Octetos(t)
  BY OctetosTipo
<1>4. Len(H) = q /\ \A j \in 1 .. q : H[j] = <<t.marco, t.desp + j - 1>>
  BY <1>2, <1>3, OctetosTipo
<1>5. /\ F \o H \in Seq(Lugares) /\ Len(F \o H) = Len(F) + Len(H)
      /\ \A k \in 1 .. Len(F) + Len(H) : (F \o H)[k] = IF k <= Len(F) THEN F[k] ELSE H[k - Len(F)]
  BY ConcatProperties
<1>6. ASSUME NEW k \in 1 .. n PROVE (F \o H)[k] = F[k]
  <2>1. k \in 1 .. n + q /\ k <= n
    BY <1>1, <1>2
  <2>2. QED
    BY <1>1, <1>4, <1>5, <2>1
<1>7. ASSUME NEW j \in 1 .. q PROVE (F \o H)[n + j] = <<t.marco, t.desp + j - 1>>
  <2>0. n + j \in 1 .. n + q /\ ~(n + j <= n) /\ (n + j) - n = j
    OBVIOUS
  <2>1. PICK k \in 1 .. n + q : k = n + j /\ ~(k <= n) /\ k - n = j
    BY <2>0
  <2>2. (F \o H)[k] = H[j]
    BY <1>1, <1>4, <1>5, <2>1
  <2>3. QED
    BY <1>4, <2>1, <2>2
<1>8. ASSUME NEW k \in 1 .. n + q PROVE k \in 1 .. n \/ \E j \in 1 .. q : k = n + j
  <2>1. k \in 1 .. n \/ (k - n \in 1 .. q /\ k = n + (k - n))
    BY <1>1, <1>2
  <2>2. QED
    BY <2>1
<1>9. QED
  BY <1>1, <1>2, <1>3, <1>4, <1>5, <1>6, <1>7, <1>8

LEMMA CuentaMas ==
  ASSUME NEW c \in Cpus, NEW F \in Seq(Lugares), Cuenta(F, c), NEW t \in Trozos, TrozoDe(t, c),
         NEW e \in Cpus, e.dir = c.dir, e.tam = c.tam, e.lectura = c.lectura,
         e.resta = c.resta - t.cant, e.pagina = c.pagina + 1, e.desp = 0
  PROVE  /\ Cuenta(F \o Octetos(t), e)
         /\ Derecho(c) => \A j \in 1 .. t.cant : NumPagina(c.dir + (Len(F) + j) - 1) = c.pagina
<1>1. PICK n, q, x, d, T : n = Len(F) /\ q = t.cant /\ x = c.dir /\ d = Desplazamiento(x) /\ T = c.tam
  OBVIOUS
<1>2. PICK libres : Tramo(n, q, x, d, c.desp, c.resta, c.pagina, T, c.lectura, Derecho(c), libres)
  BY <1>1, EsTramo
<1>3. /\ n \in Nat /\ q \in Nat /\ c.resta \in Nat /\ T \in Nat /\ x \in Nat /\ n + c.resta = T
      /\ q <= c.resta
  BY <1>2 DEF Tramo
<1>4. /\ \A j \in 1 .. q : c.desp + j - 1 = PageSize => n + j = PageSize - d + 1
      /\ Derecho(c) => \A j \in 1 .. q : /\ NumPagina(x + (n + j) - 1) = c.pagina
                                         /\ Desplazamiento(x + (n + j) - 1) = c.desp + j - 1
      /\ Derecho(c) /\ c.resta - q > 0 => /\ NumPagina(x + (n + q)) = c.pagina + 1
                                          /\ Desplazamiento(x + (n + q)) = 0
  BY <1>2, Siguen
<1>5. PICK G \in Seq(Lugares) : G = F \o Octetos(t)
  BY Juntos
<1>6. /\ Len(G) = n + q /\ t.desp = c.desp
      /\ \A k \in 1 .. n : G[k] = F[k]
      /\ \A j \in 1 .. q : G[n + j][2] = c.desp + j - 1
      /\ \A k \in 1 .. n + q : k \in 1 .. n \/ \E j \in 1 .. q : k = n + j
  <2>1. t.desp = c.desp
    BY DEF TrozoDe
  <2>2. Len(G) = n + q /\ \A k \in 1 .. n : G[k] = F[k]
    BY <1>1, <1>5, Juntos
  <2>3. \A j \in 1 .. q : G[n + j] = <<t.marco, c.desp + j - 1>>
    <3>1. \A j \in 1 .. t.cant : G[Len(F) + j] = <<t.marco, t.desp + j - 1>>
      BY <1>5, Juntos
    <3>2. QED
      BY <1>1, <2>1, <3>1
  <2>4. \A k \in 1 .. n + q : k \in 1 .. n \/ \E j \in 1 .. q : k = n + j
    BY <1>1, Juntos
  <2>5. ASSUME NEW j \in 1 .. q PROVE G[n + j][2] = c.desp + j - 1
    <3>1. PICK m, y : m = t.marco /\ y = c.desp + j - 1
      OBVIOUS
    <3>2. G[n + j] = <<m, y>>
      BY <2>3, <3>1
    <3>3. QED
      BY <3>1, <3>2
  <2>6. QED
    BY <2>1, <2>2, <2>4, <2>5
<1>7. Derecho(e) <=> Derecho(c)
  BY DEF Derecho
<1>8. ASSUME NEW k \in 1 .. n + q, G[k][2] = PageSize PROVE k = PageSize - d + 1
  <2>1. CASE k \in 1 .. n
    BY <1>1, <1>6, <1>8, <2>1 DEF Cuenta
  <2>2. CASE \E j \in 1 .. q : k = n + j
    BY <1>4, <1>6, <1>8, <2>2
  <2>3. QED
    BY <1>6, <2>1, <2>2
<1>9. ASSUME Derecho(c), NEW k \in 1 .. n + q PROVE G[k][2] = Desplazamiento(x + k - 1)
  <2>1. CASE k \in 1 .. n
    BY <1>1, <1>6, <1>9, <2>1 DEF Cuenta
  <2>2. CASE \E j \in 1 .. q : k = n + j
    <3>1. PICK j \in 1 .. q : k = n + j
      BY <2>2
    <3>2. QED
      BY <1>4, <1>6, <1>9, <3>1
  <2>3. QED
    BY <1>6, <2>1, <2>2
<1>10. Cuenta(G, e)
  <2>1. Len(G) + e.resta = e.tam
    BY <1>1, <1>3, <1>6
  <2>2. \A k \in 1 .. Len(G) : G[k][2] = PageSize => k = PageSize - Desplazamiento(e.dir) + 1
    BY <1>1, <1>6, <1>8
  <2>3. Derecho(e) /\ e.resta > 0 => /\ NumPagina(e.dir + Len(G)) = e.pagina
                                     /\ Desplazamiento(e.dir + Len(G)) = e.desp
    BY <1>1, <1>4, <1>6, <1>7
  <2>4. Derecho(e) => \A k \in 1 .. Len(G) : G[k][2] = Desplazamiento(e.dir + k - 1)
    BY <1>1, <1>6, <1>7, <1>9
  <2>5. QED
    BY <2>1, <2>2, <2>3, <2>4 DEF Cuenta
<1>11. QED
  BY <1>1, <1>4, <1>5, <1>10

-----------------------------------------------------------------------------
(***************************************************************************)
(* Bytes is inductive with Base.                                           *)
(***************************************************************************)
LEMMA BytesPone ==
  ASSUME NEW F \in Seq(Lugares), NEW e, cpu' = e, Seguidos(e.trozos) = F, Cuenta(F, e), DeSuPagina(F, e)'
  PROVE  Bytes'
  BY DEF Bytes

(* The transfer is the same one, as far as its bytes go.                      *)
LEMMA BytesQuietos ==
  ASSUME Bien, Bytes, EnTransferencia, Crecen,
         cpu'.pid = cpu.pid, cpu'.dir = cpu.dir, cpu'.tam = cpu.tam, cpu'.lectura = cpu.lectura,
         cpu'.resta = cpu.resta, cpu'.pagina = cpu.pagina, cpu'.desp = cpu.desp, cpu'.trozos = cpu.trozos
  PROVE  Bytes'
<1>1. PICK c \in Cpus : c = cpu /\ c.pid \in Pids
  BY EnLaCpu DEF EnTransferencia
<1>2. PICK e : e = cpu'
  OBVIOUS
<1>3. PICK F \in Seq(Lugares) : F = Seguidos(c.trozos) /\ Cuenta(F, c) /\ DeSuPagina(F, c)
  BY <1>1 DEF Bytes
<1>4. /\ e.pid = c.pid /\ e.dir = c.dir /\ e.tam = c.tam /\ e.lectura = c.lectura
      /\ e.resta = c.resta /\ e.pagina = c.pagina /\ e.desp = c.desp /\ e.trozos = c.trozos
  BY <1>1, <1>2
<1>5. Derecho(e) <=> Derecho(c)
  BY <1>4 DEF Derecho
<1>6. Cuenta(F, e)
  BY <1>3, <1>4, <1>5 DEF Cuenta
<1>7. DeSuPagina(F, e)'
  <2>1. ASSUME Derecho(e), NEW k \in 1 .. Len(F)
        PROVE  DeLaPagina(e.pid, NumPagina(e.dir + k - 1) + 1, F[k][1])'
    <3>1. PICK p \in Pids : p = c.pid
      BY <1>1
    <3>2. PICK x, f : x = NumPagina(c.dir + k - 1) + 1 /\ f = F[k][1]
      OBVIOUS
    <3>3. DeLaPagina(p, x, f)
      BY <1>3, <1>5, <2>1, <3>1, <3>2 DEF DeSuPagina
    <3>4. DeLaPagina(p, x, f)'
      BY <3>3, Persiste
    <3>5. x = NumPagina(e.dir + k - 1) + 1 /\ p = e.pid
      BY <1>4, <3>1, <3>2
    <3>6. QED
      BY <3>2, <3>4, <3>5
  <2>2. QED
    BY <2>1 DEF DeSuPagina
<1>8. QED
  BY <1>2, <1>3, <1>4, <1>6, <1>7, BytesPone

(* A transfer starts, or its second half does.                                *)
LEMMA BytesSinTrozos ==
  ASSUME cpu'.trozos = <<>>, NEW d \in Nat, cpu'.dir = d, cpu'.pagina = NumPagina(d),
         cpu'.desp = Desplazamiento(d), cpu'.resta = cpu'.tam, cpu'.tam \in Nat
  PROVE  Bytes'
<1>1. PICK e : e = cpu'
  OBVIOUS
<1>2. Seguidos(e.trozos) = <<>> /\ <<>> \in Seq(Lugares) /\ Len(<<>>) = 0
  BY <1>1, SeguidosVacio
<1>3. d + 0 = d /\ 0 + e.resta = e.tam
  BY <1>1
<1>4. Cuenta(<<>>, e)
  BY <1>1, <1>2, <1>3 DEF Cuenta
<1>5. DeSuPagina(<<>>, e)'
  BY <1>2 DEF DeSuPagina
<1>6. QED
  BY <1>1, <1>2, <1>4, <1>5, BytesPone

LEMMA DeDos ==
  ASSUME NEW a \in Nat, NEW b \in Nat
  PROVE  Min({a, b}) \in {a, b}
<1>1. \E x \in {a, b} : \A y \in {a, b} : x <= y
  OBVIOUS
<1>2. QED
  BY <1>1 DEF Min

LEMMA BytesTransferir ==
  ASSUME Bien, Bytes, Crecen, cpu.fase \in {"trozo", "marco"}, NEW f \in ConNinguno, Transferir(f),
         DeLaPagina(cpu.pid, cpu.pagina + 1, f)
  PROVE  Bytes'
<1>1. PICK c \in Cpus : c = cpu /\ c.pid \in Pids
  BY EnLaCpu
<1>2. PICK e \in Cpus : e = cpu'
  BY TransferirTipo
<1>3. PICK F \in Seq(Lugares) : F = Seguidos(c.trozos) /\ Cuenta(F, c) /\ DeSuPagina(F, c)
  BY <1>1 DEF Bytes, EnTransferencia
<1>4. PICK libres \in Nat : libres = PageSize - c.desp + (IF c.desp = 0 \/ c.lectura THEN 0 ELSE 1) /\ libres = Disponibles
  <2>1. cpu.desp \in 0 .. PageSize - 1 /\ PageSize \in Nat
    BY <1>1, Supuestos DEF Cpus
  <2>2. Disponibles \in Nat
    BY <2>1 DEF Disponibles
  <2>3. QED
    BY <1>1, <2>2 DEF Disponibles
<1>5. PICK r \in Nat, p \in Pids, g \in Nat, s \in Seq(Trozos), o \in Nat :
        r = c.resta /\ p = c.pid /\ g = c.pagina /\ s = c.trozos /\ o = c.desp
  <2>1. c.resta \in Nat /\ c.pagina \in Nat /\ c.trozos \in Seq(Trozos) /\ c.desp \in 0 .. PageSize - 1
    BY DEF Cpus
  <2>2. c.desp \in Nat
    BY <2>1, Supuestos
  <2>3. QED
    BY <1>1, <2>1, <2>2
<1>6. PICK q \in Nat : q = Min({r, libres}) /\ q <= r /\ q <= libres /\ q \in {r, libres}
  BY DeDos, MinDeDos
<1>7. PICK t \in Trozos : t = [marco |-> f, desp |-> o, cant |-> q]
  BY DEF Trozos, ConNinguno
<1>8. TrozoDe(t, c)
  BY <1>4, <1>5, <1>6, <1>7 DEF TrozoDe
<1>9. /\ e.pid = p /\ e.dir = c.dir /\ e.tam = c.tam /\ e.lectura = c.lectura
      /\ e.resta = c.resta - t.cant /\ e.pagina = c.pagina + 1 /\ e.desp = 0 /\ e.trozos = Append(s, t)
  <2> DEFINE fase == IF c.op # "io" /\ c.lectura THEN "dato" ELSE "trozo"
             trozos == Append(s, t)
             resta  == r - q
             pagina == g + 1
  <2>1. e = [c EXCEPT !.fase = fase, !.trozos = trozos, !.resta = resta, !.pagina = pagina, !.desp = 0]
    BY <1>1, <1>2, <1>4, <1>5, <1>6, <1>7 DEF Transferir, Cpus
  <2>2. resta = c.resta - t.cant /\ pagina = c.pagina + 1
    BY <1>5, <1>7
  <2> HIDE DEF fase, trozos, resta, pagina
  <2>3. e.pid = p /\ e.dir = c.dir /\ e.tam = c.tam /\ e.lectura = c.lectura
    BY <1>5, <2>1 DEF Cpus
  <2>4. e.resta = resta /\ e.pagina = pagina /\ e.desp = 0 /\ e.trozos = trozos
    BY <2>1 DEF Cpus
  <2>5. QED
    BY <2>2, <2>3, <2>4 DEF trozos
<1>10. /\ Cuenta(F \o Octetos(t), e)
       /\ Derecho(c) => \A j \in 1 .. t.cant : NumPagina(c.dir + (Len(F) + j) - 1) = c.pagina
  BY <1>3, <1>8, <1>9, CuentaMas
<1>11. PICK G \in Seq(Lugares) : G = F \o Octetos(t)
  BY Juntos
<1>12. Seguidos(e.trozos) = G
  BY <1>3, <1>5, <1>9, <1>11, SeguidosMas
<1>13. PICK n, x : n = Len(F) /\ x = c.dir
  OBVIOUS
<1>14. /\ Len(G) = n + q
       /\ \A k \in 1 .. n : G[k] = F[k]
       /\ \A k \in 1 .. n + q : k \in 1 .. n \/ \E j \in 1 .. q : k = n + j
  <2>1. t.cant = q
    BY <1>7
  <2>2. Len(G) = n + q /\ \A k \in 1 .. n : G[k] = F[k]
    <3>1. /\ Len(F \o Octetos(t)) = Len(F) + t.cant
          /\ \A k \in 1 .. Len(F) : (F \o Octetos(t))[k] = F[k]
      BY Juntos
    <3>2. QED
      BY <1>11, <1>13, <2>1, <3>1
  <2>3. \A k \in 1 .. n + q : k \in 1 .. n \/ \E j \in 1 .. q : k = n + j
    <3>1. \A k \in 1 .. Len(F) + t.cant : k \in 1 .. Len(F) \/ \E j \in 1 .. t.cant : k = Len(F) + j
      BY Juntos
    <3>2. QED
      BY <1>13, <2>1, <3>1
  <2>4. QED
    BY <2>2, <2>3
<1>15. ASSUME NEW j \in 1 .. q PROVE G[n + j][1] = f
  <2>1. PICK y : y = t.desp + j - 1
    OBVIOUS
  <2>2. t.cant = q /\ t.marco = f
    BY <1>7
  <2>3. (F \o Octetos(t))[Len(F) + j] = <<t.marco, t.desp + j - 1>>
    BY <2>2, Juntos
  <2>4. G[n + j] = <<f, y>>
    BY <1>11, <1>13, <2>1, <2>2, <2>3
  <2>5. QED
    BY <2>4
<1>16. Derecho(e) <=> Derecho(c)
  BY <1>9 DEF Derecho
<1>17. ASSUME Derecho(c), NEW k \in 1 .. n + q
       PROVE  DeLaPagina(p, NumPagina(x + k - 1) + 1, G[k][1])'
  <2>1. CASE k \in 1 .. n
    <3>1. PICK y, h : y = NumPagina(x + k - 1) + 1 /\ h = F[k][1]
      OBVIOUS
    <3>2. DeLaPagina(p, y, h)
      BY <1>3, <1>5, <1>13, <1>17, <2>1, <3>1 DEF DeSuPagina
    <3>3. DeLaPagina(p, y, h)'
      BY <3>2, Persiste
    <3>4. QED
      BY <1>14, <2>1, <3>1, <3>3
  <2>2. CASE \E j \in 1 .. q : k = n + j
    <3>1. PICK j \in 1 .. q : k = n + j
      BY <2>2
    <3>2. PICK y : y = g + 1
      OBVIOUS
    <3>3. DeLaPagina(p, y, f)'
      <4>1. DeLaPagina(p, y, f)
        BY <1>1, <1>5, <3>2
      <4>2. QED
        BY <4>1, Persiste
    <3>4. t.cant = q
      BY <1>7
    <3>5. NumPagina(x + (n + j) - 1) = g
      BY <1>5, <1>10, <1>13, <1>17, <3>4
    <3>6. y = NumPagina(x + k - 1) + 1 /\ G[k][1] = f
      BY <1>15, <3>1, <3>2, <3>5
    <3>7. QED
      BY <3>3, <3>6
  <2>3. QED
    BY <1>14, <2>1, <2>2
<1>18. DeSuPagina(G, e)'
  BY <1>9, <1>13, <1>14, <1>16, <1>17 DEF DeSuPagina
<1>19. QED
  BY <1>2, <1>10, <1>11, <1>12, <1>18, BytesPone

LEMMA BytesIguales ==
  ASSUME Bien, Bytes, Crecen, UNCHANGED cpu
  PROVE  Bytes'
<1>1. CASE EnTransferencia
  BY <1>1, BytesQuietos
<1>2. CASE ~EnTransferencia
  BY <1>2 DEF Bytes, EnTransferencia
<1>3. QED
  BY <1>1, <1>2

LEMMA EmpiezaConFetch ==
  ASSUME NEW p \in Pids, RecibirPcb(p)
  PROVE  cpu'.fase = "fetch"
  BY DEF RecibirPcb, Ocioso

LEMMA EsperaResize ==
  ASSUME Bien, NEW t \in TamanosResize, EjecutarResize(t)
  PROVE  cpu'.fase = "resize"
  BY DEF EjecutarResize, Bien, TiposCpu, Cpus

LEMMA BytesFuera ==
  ASSUME Bien,
         \/ \E p \in Pids : RecibirPcb(p)
         \/ RecvInstruction \/ SolicitarInstruccion \/ ManejarInterrupcion \/ EnviarPcbFinalizado
         \/ \E t \in TamanosResize : EjecutarResize(t)
         \/ RecibirResize \/ TerminarMov \/ SolicitarIo
  PROVE  Bytes'
<1>1. cpu \in Cpus
  BY DEF Bien, TiposCpu
<1>2. CASE \/ \E p \in Pids : RecibirPcb(p)
           \/ SolicitarInstruccion \/ ManejarInterrupcion \/ EnviarPcbFinalizado \/ TerminarMov \/ SolicitarIo
  <2>1. CASE \E p \in Pids : RecibirPcb(p)
    BY <2>1, EmpiezaConFetch DEF Bytes, EnTransferencia
  <2>2. CASE SolicitarInstruccion \/ TerminarMov
    BY <2>2 DEF SolicitarInstruccion, TerminarMov, Ocioso, Bytes, EnTransferencia
  <2>3. CASE ManejarInterrupcion \/ EnviarPcbFinalizado \/ SolicitarIo
    BY <2>3 DEF ManejarInterrupcion, EnviarPcbFinalizado, SolicitarIo, Ocioso, Bytes, EnTransferencia
  <2>4. QED
    BY <1>2, <2>1, <2>2, <2>3
<1>3. ASSUME RecvInstruction \/ RecibirResize \/ \E t \in TamanosResize : EjecutarResize(t)
      PROVE  cpu'.fase \in {"instruccion", "siguiente", "out_of_memory", "resize"}
  <2>1. CASE RecvInstruction
    BY <1>1, <2>1 DEF RecvInstruction, Cpus
  <2>2. CASE RecibirResize
    <3>1. PICK x \in {"siguiente", "out_of_memory"} :
            x = IF respuesta.valor = 1 THEN "siguiente" ELSE "out_of_memory"
      OBVIOUS
    <3>2. cpu' = [cpu EXCEPT !.fase = x]
      BY <2>2, <3>1 DEF RecibirResize
    <3>3. cpu'.fase = x
      BY <1>1, <3>2 DEF Cpus
    <3>4. QED
      BY <3>1, <3>3
  <2>3. CASE \E t \in TamanosResize : EjecutarResize(t)
    BY <2>3, EsperaResize
  <2>4. QED
    BY <1>3, <2>1, <2>2, <2>3
<1>4. QED
  BY <1>2, <1>3 DEF Bytes, EnTransferencia

LEMMA BytesEmpezar ==
  ASSUME Bien, Fiel, NEW op \in {"mov", "copiar", "io"}, NEW dir \in Direcciones,
         NEW tam \in Tamanos, NEW lectura \in BOOLEAN, NEW destino \in Nat,
         Empezar(op, dir, tam, lectura, destino)
  PROVE  Bytes'
<1>1. /\ cpu.fase = "instruccion"
      /\ cpu' = [cpu EXCEPT !.fase = "trozo", !.op = op, !.dir = dir,
                            !.tam = tam, !.lectura = lectura, !.destino = destino,
                            !.resta = tam, !.pagina = NumPagina(dir), !.desp = Desplazamiento(dir)]
  BY DEF Empezar, Ejecuta
<1>2. cpu \in Cpus /\ dir \in Nat /\ tam \in Nat
  BY <1>1, EnLaCpu, MmuAssumption
<1>3. cpu.trozos = <<>>
  BY <1>1 DEF Fiel, TrozosFieles
<1>4. /\ cpu'.trozos = <<>> /\ cpu'.dir = dir /\ cpu'.pagina = NumPagina(dir)
      /\ cpu'.desp = Desplazamiento(dir) /\ cpu'.resta = tam /\ cpu'.tam = tam
  BY <1>1, <1>2, <1>3 DEF Cpus
<1>5. QED
  BY <1>2, <1>4, BytesSinTrozos

LEMMA BytesCopiar ==
  ASSUME Bien, CopiarADestino
  PROVE  Bytes'
<1>1. cpu \in Cpus
  BY DEF Bien, TiposCpu
<1>2. PICK d \in Nat, T \in Nat : d = cpu.destino /\ T = cpu.tam
  BY <1>1 DEF Cpus
<1>3. cpu' = [cpu EXCEPT !.dir = d, !.lectura = FALSE, !.resta = T, !.pagina = NumPagina(d),
                         !.desp = Desplazamiento(d), !.trozos = <<>>]
  BY <1>2 DEF CopiarADestino
<1>4. /\ cpu'.trozos = <<>> /\ cpu'.dir = d /\ cpu'.pagina = NumPagina(d)
      /\ cpu'.desp = Desplazamiento(d) /\ cpu'.resta = T /\ cpu'.tam = T
  BY <1>1, <1>2, <1>3 DEF Cpus
<1>5. QED
  BY <1>4, BytesSinTrozos

LEMMA BytesBucle ==
  ASSUME Bien, Fiel, Bytes, Crecen, ObtenerMarco \/ PedirMarco \/ RecibirMarco \/ RecibirDato
  PROVE  Bytes'
<1>1. cpu.fase \in {"trozo", "marco", "dato"} /\ cpu \in Cpus
  <2>1. cpu.fase \in {"trozo", "marco", "dato"}
    BY DEF ObtenerMarco, PedirMarco, RecibirMarco, RecibirDato
  <2>2. QED
    BY <2>1 DEF Bien, TiposCpu
<1>2. CASE ObtenerMarco
  <2>1. PICK k \in Aciertos : Transferir(tlb[k].marco) /\ cpu.fase = "trozo"
    BY <1>2 DEF ObtenerMarco
  <2>2. k \in DOMAIN tlb /\ tlb[k].pid = cpu.pid /\ tlb[k].pagina = cpu.pagina
    BY DEF Aciertos, EnTlb
  <2>3. tlb[k] \in Entradas
    BY <2>2, ElementOfSeq, LenProperties DEF Bien, TiposCpu
  <2>4. PICK f \in ConNinguno : f = tlb[k].marco
    BY <2>3 DEF Entradas
  <2>5. DeLaPagina(cpu.pid, cpu.pagina + 1, f)
    BY <2>2, <2>4 DEF Fiel, TlbFiel
  <2>6. QED
    BY <2>1, <2>4, <2>5, BytesTransferir
<1>3. CASE RecibirMarco
  <2>1. cpu.fase = "marco" /\ respuesta.tipo = "marco" /\ Transferir(respuesta.valor)
    BY <1>3 DEF RecibirMarco, Recibe
  <2>2. PICK f \in ConNinguno : f = respuesta.valor
    BY <2>1 DEF Bien, TiposColas
  <2>3. DeLaPagina(cpu.pid, cpu.pagina + 1, f)
    BY <2>1, <2>2 DEF Fiel, RespuestaFiel
  <2>4. QED
    BY <2>1, <2>2, <2>3, BytesTransferir
<1>4. CASE PedirMarco \/ RecibirDato
  <2>1. PICK x : cpu' = [cpu EXCEPT !.fase = x]
    BY <1>4 DEF PedirMarco, RecibirDato
  <2>2. EnTransferencia
    BY <1>1 DEF EnTransferencia
  <2>3. /\ cpu'.pid = cpu.pid /\ cpu'.dir = cpu.dir /\ cpu'.tam = cpu.tam /\ cpu'.lectura = cpu.lectura
        /\ cpu'.resta = cpu.resta /\ cpu'.pagina = cpu.pagina /\ cpu'.desp = cpu.desp
        /\ cpu'.trozos = cpu.trozos
    BY <1>1, <2>1 DEF Cpus
  <2>4. QED
    BY <2>2, <2>3, BytesQuietos
<1>5. QED
  BY <1>2, <1>3, <1>4

LEMMA BytesSiguiente ==
  ASSUME Base, Bytes, Next
  PROVE  Bytes'
<1>1. Bien /\ Fiel /\ Crecen
  BY Crece DEF Base, Fiel
<1>2. CASE MemoriaNext /\ UNCHANGED <<cpuVars, restoVars>>
  BY <1>1, <1>2, BytesIguales DEF cpuVars
<1>3. CASE EscribirDeIo \/ \E p \in Pids : CrearProceso(p) \/ Finalizar(p) \/ EndProcess(p) \/ EscribirMemoria(p)
                                             \/ LeerMemoria(p) \/ ResponderStdout(p)
  <2>1. UNCHANGED cpu
    BY <1>3 DEF EscribirDeIo, CrearProceso, Finalizar, EndProcess, EscribirMemoria, LeerMemoria,
                ResponderStdout, cpuVars
  <2>2. QED
    BY <1>1, <2>1, BytesIguales
<1>4. CASE \/ \E p \in Pids : RecibirPcb(p)
           \/ RecvInstruction \/ SolicitarInstruccion \/ ManejarInterrupcion \/ EnviarPcbFinalizado
           \/ \E t \in TamanosResize : EjecutarResize(t)
           \/ RecibirResize \/ TerminarMov \/ SolicitarIo
  BY <1>1, <1>4, BytesFuera
<1>5. ASSUME NEW dir \in Direcciones, NEW tam \in Tamanos,
             \/ MovIn(dir, tam) \/ MovOut(dir, tam)
             \/ \E destino \in Destinos : CopyString(dir, destino, tam)
             \/ \E lectura \in BOOLEAN : ExecIoFrames(dir, tam, lectura)
      PROVE  Bytes'
  <2>1. PICK op \in {"mov", "copiar", "io"}, lectura \in BOOLEAN, destino \in Nat :
          Empezar(op, dir, tam, lectura, destino)
    BY <1>5, AlgunaEmpieza
  <2>2. QED
    BY <1>1, <2>1, BytesEmpezar
<1>6. CASE ObtenerMarco \/ PedirMarco \/ RecibirMarco \/ RecibirDato
  BY <1>1, <1>6, BytesBucle
<1>7. CASE CopiarADestino
  BY <1>1, <1>7, BytesCopiar
<1>8. QED
  BY <1>2, <1>3, <1>4, <1>5, <1>6, <1>7 DEF Next

LEMMA BytesSinCambios ==
  ASSUME Bytes, UNCHANGED vars
  PROVE  Bytes'
<1>1. UNCHANGED <<tablas, soltados, existe, cpu, achicados, estado>>
  BY DEF vars, memoriaVars, tablaVars, cpuVars, restoVars
<1>2. QED
  BY <1>1 DEF Bytes, EnTransferencia, DeSuPagina, DeLaPagina, Poseidos, Viva

(* When a transfer is over, byte k of it was at the physical place of logical *)
(* address dir + k, in order and each once.                                   *)
THEOREM CadaByteDondeVa == Spec => []CadaByteEnSuLugar
<1>1. Init => Base /\ Bytes
  <2>1. Init => ~EnTransferencia
    BY DEF Init, Ocioso, EnTransferencia
  <2>2. QED
    BY <2>1, BaseInicial DEF Bytes
<1>2. Base /\ Bytes /\ [Next]_vars => Base' /\ Bytes'
  BY BaseSiguiente, BytesSiguiente, BytesSinCambios
<1>3. Base /\ Bytes => CadaByteEnSuLugar
  <2> SUFFICES ASSUME Base, Bytes, Transferido
               PROVE  /\ Len(Fisicas) = cpu.tam
                      /\ Cardinality({k \in 1 .. cpu.tam : Fisicas[k][2] = PageSize}) <= 1
                      /\ \/ cpu.pid \in achicados
                         \/ ~cpu.lectura /\ CruzaDesdeAdentro
                         \/ \A k \in 1 .. cpu.tam :
                              Fisicas[k] = <<tablas[cpu.pid][NumPagina(cpu.dir + k - 1) + 1],
                                             Desplazamiento(cpu.dir + k - 1)>>
    BY DEF CadaByteEnSuLugar
  <2>1. cpu.fase = "trozo" /\ cpu.resta = 0 /\ cpu.pid \in Pids /\ estado[cpu.pid] = "cpu" /\ cpu \in Cpus
    BY EnLaCpu DEF Transferido, Base
  <2>2. PICK F \in Seq(Lugares) : F = Fisicas /\ Cuenta(F, cpu) /\ DeSuPagina(F, cpu)
    BY <2>1, SonFisicas DEF Bytes, EnTransferencia
  <2>3. PICK T \in Nat, x \in Nat, d \in Nat, P \in Nat :
          T = cpu.tam /\ x = cpu.dir /\ d = Desplazamiento(x) /\ P = PageSize
    <3>1. cpu.tam \in Nat /\ cpu.dir \in Nat
      BY <2>1 DEF Cpus
    <3>2. Desplazamiento(cpu.dir) \in Nat /\ PageSize \in Nat
      <4>1. Desplazamiento(cpu.dir) \in 0 .. PageSize - 1 /\ PageSize \in Nat
        BY <3>1, Division, Supuestos
      <4>2. QED
        BY <4>1
    <3>3. QED
      BY <3>1, <3>2
  <2>4. Len(F) = T
    <3>1. Len(F) \in Nat /\ Len(F) + cpu.resta = T
      BY <2>2, <2>3, LenProperties DEF Cuenta
    <3>2. QED
      BY <2>1, <3>1
  <2>5. Cardinality({k \in 1 .. T : F[k][2] = P}) <= 1
    <3>1. \A k \in 1 .. T : F[k][2] = P => k = P - d + 1
      BY <2>2, <2>3, <2>4 DEF Cuenta
    <3>2. PICK u : u = P - d + 1
      OBVIOUS
    <3>3. {k \in 1 .. T : F[k][2] = P} \subseteq {u}
      BY <3>1, <3>2
    <3>4. IsFiniteSet({u}) /\ Cardinality({u}) = 1
      BY FS_Singleton
    <3>5. QED
      BY <3>3, <3>4, FS_Subset
  <2>6. ASSUME cpu.pid \notin achicados, ~(~cpu.lectura /\ CruzaDesdeAdentro), NEW k \in 1 .. T
        PROVE  F[k] = <<tablas[cpu.pid][NumPagina(x + k - 1) + 1], Desplazamiento(x + k - 1)>>
    <3>1. Derecho(cpu)
      <4>1. d # 0 /\ ~(T > P - d) => T <= P - d
        BY <2>3
      <4>2. cpu.lectura \/ d = 0 \/ T <= P - d
        BY <2>3, <2>6, <4>1 DEF CruzaDesdeAdentro
      <4>3. QED
        BY <2>3, <4>2 DEF Derecho
    <3>2. F[k][2] = Desplazamiento(x + k - 1)
      BY <2>2, <2>3, <2>4, <3>1 DEF Cuenta
    <3>3. DeLaPagina(cpu.pid, NumPagina(x + k - 1) + 1, F[k][1])
      BY <2>2, <2>3, <2>4, <3>1 DEF DeSuPagina
    <3>4. F[k][1] = tablas[cpu.pid][NumPagina(x + k - 1) + 1]
      BY <2>1, <2>6, <3>3 DEF DeLaPagina, Viva
    <3>5. F[k] \in Lugares
      BY <2>4, ElementOfSeq
    <3>6. F[k] = <<F[k][1], F[k][2]>>
      BY <3>5 DEF Lugares
    <3>7. QED
      BY <3>2, <3>4, <3>6
  <2>7. QED
    BY <2>2, <2>3, <2>4, <2>5, <2>6
<1>4. QED
  BY <1>1, <1>2, <1>3, PTL DEF Spec
=============================================================================
