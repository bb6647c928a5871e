------------------------ MODULE PruebasPlanificacion ------------------------
(***************************************************************************)
(* The planners, for every number of processes, interfaces and commands,    *)
(* every degree and the three algorithms: type correctness; the CPU belongs *)
(* to one process at a time, and EXECUTE says to which; the semaphores that *)
(* DETENER_PLANIFICACION takes keep their count, and a stopped planning     *)
(* moves no process.                                                       *)
(***************************************************************************)
EXTENDS Garantias, PruebasListas, FiniteSetTheorems

-----------------------------------------------------------------------------
(* Lemmas about the operators of the model *)

(* Adding to one or two entries of a function to Nat *)
LEMMA SumarTipos ==
  ASSUME NEW S, NEW f \in [S -> Nat], NEW a \in S, NEW b \in S
  PROVE  /\ [f EXCEPT ![a] = @ + 1] \in [S -> Nat]
         /\ [f EXCEPT ![a] = @ + 1, ![b] = @ + 1] \in [S -> Nat]
         /\ f[a] > 0 => [f EXCEPT ![a] = @ - 1] \in [S -> Nat]
         /\ f[a] > 0 /\ a # b => [f EXCEPT ![a] = @ - 1, ![b] = @ + 1] \in [S -> Nat]
  OBVIOUS

(* The same when the first entry may be none of the function's *)
LEMMA SumarListado ==
  ASSUME NEW S, NEW f \in [S -> Nat], NEW x, NEW a \in S, NEW b \in S
  PROVE  /\ [f EXCEPT ![x] = @ + 1, ![a] = @ + 1] \in [S -> Nat]
         /\ [f EXCEPT ![x] = @ + 1, ![a] = @ + 1, ![b] = @ + 1] \in [S -> Nat]
<1>1. [f EXCEPT ![x] = @ + 1] \in [S -> Nat]
  <2>1. CASE x \in S
    BY <2>1
  <2>2. CASE x \notin S
    BY <2>2
  <2>3. QED
    BY <2>1, <2>2
<1>2. [f EXCEPT ![x] = @ + 1, ![a] = @ + 1] \in [S -> Nat]
  BY <1>1
<1>3. QED
  BY <1>2

LEMMA NombresSem ==
  /\ {"NEW", "READY", "AUX_READY", "EXIT", "MULTIPROGRAMACION", "CPU", "ORDEN"} \subseteq Semaforos
  /\ SemPlanes \subseteq Semaforos
  /\ {"PLAN_NEW_READY", "PLAN_READY", "PLAN_EXEC", "PLAN_BLOCKED"} \subseteq SemPlanes
  BY DEF Semaforos, SemPlanes

LEMMA ListRemoveTipo ==
  ASSUME NEW S, NEW s \in Seq(S), s # <<>>
  PROVE  ListRemove(s) \in Seq(S) /\ Head(s) \in S /\ Len(ListRemove(s)) = Len(s) - 1
  BY HeadTailProperties DEF ListRemove

(* update_pcb leaves COLA_EXIT with the same length. *)
LEMMA ReemplazadoTipo ==
  ASSUME NEW s \in Seq(Salidas), NEW p
  PROVE  Reemplazado(s, p) \in Seq(Salidas) /\ Len(Reemplazado(s, p)) = Len(s)
<1>1. \A i \in 1..Len(s) : s[i] \in Salidas
  BY ElementOfSeq
<1>2. Reemplazado(s, p) \in [1..Len(s) -> Salidas]
  BY <1>1, LenProperties DEF Reemplazado, Salidas
<1>3. QED
  BY <1>2, LenProperties

(* The record of what a thread is logging *)
LEMMA ListadoTipo ==
  ASSUME listado \in [Lectores -> Listados], vivo \in BOOLEAN, NEW l \in Lectores,
         NEW c \in {"READY", "AUX_READY"}
  PROVE  /\ Listar(l, c) => listado' \in [Lectores -> Listados]
         /\ RomperListados(c) => listado' \in [Lectores -> Listados]
         /\ TerminarListado(l) => listado' \in [Lectores -> Listados] /\ vivo' \in BOOLEAN
<1>1. Listar(l, c) => listado' \in [Lectores -> Listados]
  BY DEF Listar, Listados
<1>2. ASSUME RomperListados(c)
      PROVE  listado' \in [Lectores -> Listados]
  <2>1. \A k \in Lectores : listado[k] \in Listados
    OBVIOUS
  <2>2. \A k \in Lectores : [listado[k] EXCEPT !.rota = TRUE] \in Listados
    BY <2>1 DEF Listados
  <2>3. QED
    BY <1>2, <2>1, <2>2 DEF RomperListados
<1>3. ASSUME TerminarListado(l)
      PROVE  listado' \in [Lectores -> Listados] /\ vivo' \in BOOLEAN
  <2>1. SinListado \in Listados
    BY DEF SinListado, Listados
  <2>2. listado' \in [Lectores -> Listados]
    BY <1>3, <2>1 DEF TerminarListado
  <2>3. vivo' \in BOOLEAN
    BY <1>3 DEF TerminarListado
  <2>4. QED
    BY <2>2, <2>3
<1>4. QED
  BY <1>1, <1>2, <1>3

LEMMA LectoresHay == "largo" \in Lectores /\ "despacho" \in Lectores /\ Interfaces \subseteq Lectores
  BY DEF Lectores

-----------------------------------------------------------------------------
(* Type correctness.  TypeOK alone is not inductive: it needs that a thread *)
(* that works on a PCB has one, that is, that the pointer it got is not     *)
(* NULL.  FINALIZAR_PROCESO may empty a list under the planners, and then   *)
(* they fall with the NULL in hand.                                         *)
Punteros ==
  /\ pedida => pcbExecute \in Pids
  /\ pc["despacho"] # "recibir" => mensaje \in Mensajes
  /\ pc["consola"] \in {"verificar", "comparar", "eliminar", "encolar"} => local["consola"] \in Pids
  /\ vivo /\ pc["largo"] = "agregar" => local["largo"] \in Pids
  /\ vivo /\ pc["corto"] = "ejecutar" => local["corto"] \in Pids
  /\ \A i \in Interfaces : ioPc[i] \in {"servicio", "agregar"} => ioPid[i] \in Pids

Tipos == TypeOK /\ Punteros

(* Publishing after a walk of a READY list posts SEM_READY or SEM_AUX_READY. *)
LEMMA ListaLeida ==
  ASSUME Tipos, NEW l \in Lectores
  PROVE  listado[l].lista \in {"NINGUNA", "READY", "AUX_READY"}
  BY DEF Tipos, TypeOK, ListasTypeOK, Listados

USE DEF Pids, PidsONulo, Nulo

(* What a step leaves alone keeps its type. *)
LEMMA Marco ==
  ASSUME TypeOK
  PROVE  /\ UNCHANGED cpuVars => CpuTypeOK'
         /\ UNCHANGED sem => SemTypeOK'
         /\ UNCHANGED listas => ListasTypeOK'
         /\ UNCHANGED hilos => HilosTypeOK'
         /\ UNCHANGED <<turnoVars, quantumVars, vivo>> => TurnoTypeOK'
         /\ UNCHANGED ioVars => IoTypeOK'
         /\ UNCHANGED gestionVars => GestionTypeOK'
<1>1. UNCHANGED cpuVars => CpuTypeOK'
  BY DEF TypeOK, CpuTypeOK, cpuVars, cpuInterna
<1>2. UNCHANGED sem => SemTypeOK'
  BY DEF TypeOK, SemTypeOK
<1>3. UNCHANGED listas => ListasTypeOK'
  BY DEF TypeOK, ListasTypeOK, listas
<1>4. UNCHANGED hilos => HilosTypeOK'
  BY DEF TypeOK, HilosTypeOK, hilos
<1>5. UNCHANGED <<turnoVars, quantumVars, vivo>> => TurnoTypeOK'
  BY DEF TypeOK, TurnoTypeOK, turnoVars, quantumVars
<1>6. UNCHANGED ioVars => IoTypeOK'
  BY DEF TypeOK, IoTypeOK, ioVars
<1>7. UNCHANGED gestionVars => GestionTypeOK'
  BY DEF TypeOK, GestionTypeOK, gestionVars, consolaVars, planVars
<1>8. QED
  BY <1>1, <1>2, <1>3, <1>4, <1>5, <1>6, <1>7

LEMMA TiposInicial == Init => Tipos
<1> SUFFICES ASSUME Init PROVE Tipos
  OBVIOUS
<1>1. CpuTypeOK
  BY EmptySeq DEF Init, CpuInit, CpuTypeOK
<1> USE DEF Init, CpuInit, KernelInit
<1>2. SemTypeOK
  BY GradosAssumption DEF SemTypeOK
<1>3. ListasTypeOK
  BY DEF ListasTypeOK, Estados, Listados, SinListado
<1>4. HilosTypeOK
  BY DEF HilosTypeOK, Hilos, PasosConsola, PasosLargo, PasosCorto, PasosQuantum, PasosDespacho, Pasos
<1>5. TurnoTypeOK
  BY DEF TurnoTypeOK
<1>6. IoTypeOK
  BY DEF IoTypeOK
<1>7. GestionTypeOK
  BY MaxPidAssumption, GradosAssumption, CotasAssumption DEF GestionTypeOK
<1>8. Punteros
  BY DEF Punteros, Hilos
<1>9. QED
  BY <1>1, <1>2, <1>3, <1>4, <1>5, <1>6, <1>7, <1>8 DEF Tipos, TypeOK

LEMMA DevolverTipo ==
  ASSUME CpuTypeOK, Punteros, PuedeEjecutar,
         NEW m \in Motivos, NEW i \in NombresIO \cup {SinInterfaz}, Devolver(m, i)
  PROVE  deCpu' \in Seq(Mensajes) /\ pedida' = FALSE
<1>1. [motivo |-> m, pid |-> pcbExecute, interfaz |-> i] \in Mensajes
  BY DEF Mensajes, PuedeEjecutar, Punteros, CpuTypeOK
<1>2. QED
  BY <1>1, AppendProperties DEF Devolver, CpuTypeOK

LEMMA TiposCpu ==
  ASSUME Tipos, CpuNext, UNCHANGED kernelVars
  PROVE  Tipos'
<1>1. /\ SemTypeOK' /\ ListasTypeOK' /\ HilosTypeOK' /\ TurnoTypeOK' /\ IoTypeOK' /\ GestionTypeOK'
      /\ UNCHANGED <<mensaje, pc, local, vivo, ioPc, ioPid>>
  BY Marco DEF Tipos, kernelVars, hilos, turnoVars, ioVars
<1>2. CpuTypeOK /\ Punteros
  BY DEF Tipos, TypeOK
<1>3. /\ semSocket + 1 \in Nat
      /\ semSocket > 0 => semSocket - 1 \in Nat
  <2>1. semSocket \in Nat
    BY <1>2 DEF CpuTypeOK
  <2>2. QED
    BY <2>1
<1>4. CpuTypeOK' /\ (pedida' => pcbExecute' \in Pids)
  <2>1. CASE RecibirPcb
    <3>1. Tail(aCpu) \in Seq(Pids) /\ Head(aCpu) \in Pids
      BY <1>2, <2>1, HeadTailProperties DEF RecibirPcb, CpuTypeOK
    <3>2. QED
      BY <1>2, <2>1, <1>3, <3>1 DEF RecibirPcb, CpuTypeOK
  <2>2. CASE RecibirInterrupcion
    <3>1. canalInt \in Seq([tipo : Interrupciones, pid : Pids]) /\ canalInt # <<>>
      BY <1>2, <2>2 DEF RecibirInterrupcion, CpuTypeOK
    <3>2. Tail(canalInt) \in Seq([tipo : Interrupciones, pid : Pids])
          /\ Head(canalInt) \in [tipo : Interrupciones, pid : Pids]
      BY <3>1, HeadTailProperties
    <3>3. QED
      BY <1>2, <2>2, <3>2 DEF RecibirInterrupcion, CpuTypeOK, Punteros
  <2>a. CASE AnotarInterrupcion
    BY <1>2, <2>a DEF AnotarInterrupcion, CpuTypeOK, Punteros
  <2>3. CASE AtenderInterrupcion
    <3>1. PuedeEjecutar /\ \E m \in Motivos : Devolver(m, SinInterfaz)
      BY <2>3 DEF AtenderInterrupcion, Motivos
    <3>2. deCpu' \in Seq(Mensajes) /\ pedida' = FALSE
      BY <1>2, <3>1, DevolverTipo
    <3>3. QED
      BY <1>2, <2>3, <1>3, <3>2 DEF AtenderInterrupcion, CpuTypeOK
  <2>4. ASSUME NEW i \in NombresIO, SolicitarIO(i)
        PROVE  CpuTypeOK' /\ (pedida' => pcbExecute' \in Pids)
    <3>1. PuedeEjecutar /\ "IO" \in Motivos /\ Devolver("IO", i)
      BY <2>4 DEF SolicitarIO, Motivos
    <3>2. deCpu' \in Seq(Mensajes) /\ pedida' = FALSE
      BY <1>2, <3>1, DevolverTipo
    <3>3. QED
      BY <1>2, <2>4, <1>3, <3>2 DEF SolicitarIO, CpuTypeOK
  <2>5. CASE EnviarPcbFinalizado
    <3>1. PuedeEjecutar /\ "EXIT" \in Motivos /\ Devolver("EXIT", SinInterfaz)
      BY <2>5 DEF EnviarPcbFinalizado, Motivos
    <3>2. deCpu' \in Seq(Mensajes) /\ pedida' = FALSE
      BY <1>2, <3>1, DevolverTipo
    <3>3. QED
      BY <1>2, <2>5, <1>3, <3>2 DEF EnviarPcbFinalizado, CpuTypeOK
  <2>6. CASE DesestimarInterrupcion
    BY <1>2, <2>6 DEF DesestimarInterrupcion, CpuTypeOK, Punteros
  <2>7. CASE InformarKernelError
    <3>1. PuedeEjecutar /\ "OUT_OF_MEMORY" \in Motivos /\ Devolver("OUT_OF_MEMORY", SinInterfaz)
      BY <2>7 DEF InformarKernelError, Motivos
    <3>2. deCpu' \in Seq(Mensajes) /\ pedida' = FALSE
      BY <1>2, <3>1, DevolverTipo
    <3>3. QED
      BY <1>2, <2>7, <3>2 DEF InformarKernelError, CpuTypeOK
  <2>8. QED
    BY <2>1, <2>2, <2>a, <2>3, <2>4, <2>5, <2>6, <2>7 DEF CpuNext
<1>5. Punteros'
  BY <1>1, <1>2, <1>4 DEF Punteros
<1>6. QED
  BY <1>1, <1>4, <1>5 DEF Tipos, TypeOK

(* The actions that leave the lists, the threads and the turn alone only    *)
(* have to keep the management variables and the semaphores.                *)
LEMMA TiposGestion ==
  ASSUME Tipos, UNCHANGED <<cpuVars, listas, hilos, turnoVars, quantumVars, ioVars, vivo>>,
         SemTypeOK', GestionTypeOK'
  PROVE  Tipos'
<1>1. CpuTypeOK' /\ ListasTypeOK' /\ HilosTypeOK' /\ TurnoTypeOK' /\ IoTypeOK'
  BY Marco DEF Tipos
<1>2. Punteros'
  BY DEF Tipos, Punteros, cpuVars, cpuInterna, hilos, turnoVars, ioVars
<1>3. QED
  BY <1>1, <1>2 DEF Tipos, TypeOK

LEMMA TiposDetener ==
  ASSUME Tipos, DetenerPlanificacion \/ IniciarPlanificacion \/ \E s \in SemPlanes : DetenerCola(s)
  PROVE  Tipos'
<1>1. SemTypeOK /\ GestionTypeOK
  BY DEF Tipos, TypeOK
<1>2. CASE DetenerPlanificacion
  <2>1. SemTypeOK'
    BY <1>1, <1>2 DEF DetenerPlanificacion, SemTypeOK
  <2>2. GestionTypeOK'
    <3>1. deteniendo' \in [SemPlanes -> Nat]
      BY <1>1, <1>2 DEF DetenerPlanificacion, GestionTypeOK
    <3>2. detenciones' \in 0..MaxDetener
      BY <1>1, <1>2, CotasAssumption DEF DetenerPlanificacion, GestionTypeOK
    <3>3. QED
      BY <1>1, <1>2, <3>1, <3>2 DEF DetenerPlanificacion, GestionTypeOK, consolaVars
  <2>3. QED
    BY <1>2, <2>1, <2>2, TiposGestion DEF DetenerPlanificacion
<1>3. CASE IniciarPlanificacion
  <2>1. SemTypeOK'
    BY <1>1, <1>3 DEF IniciarPlanificacion, SemTypeOK
  <2>2. GestionTypeOK'
    BY <1>1, <1>3 DEF IniciarPlanificacion, GestionTypeOK, consolaVars
  <2>3. QED
    BY <1>3, <2>1, <2>2, TiposGestion DEF IniciarPlanificacion
<1>4. ASSUME NEW s \in SemPlanes, DetenerCola(s)
      PROVE  Tipos'
  <2>1. SemTypeOK'
    BY <1>1, <1>4, NombresSem, SumarTipos DEF DetenerCola, SemTypeOK, Esperar
  <2>2. GestionTypeOK'
    <3>1. deteniendo' \in [SemPlanes -> Nat]
      BY <1>1, <1>4, SumarTipos DEF DetenerCola, GestionTypeOK
    <3>2. QED
      BY <1>1, <1>4, <3>1 DEF DetenerCola, GestionTypeOK, consolaVars
  <2>3. QED
    BY <1>4, <2>1, <2>2, TiposGestion DEF DetenerCola
<1>5. QED
  BY <1>2, <1>3, <1>4

LEMMA TiposCambio ==
  ASSUME Tipos, NEW k \in Cambios,
         (\E g \in Grados : CambiarGrado(k, g)) \/ Cambio(k)
  PROVE  Tipos'
<1> DEFINE C == [paso : {"libre", "orden", "ajuste", "hecho"}, nuevo : Nat, falta : Int]
<1>1. SemTypeOK /\ GestionTypeOK
  BY DEF Tipos, TypeOK
<1>2. cambio[k] \in C /\ grado \in Nat /\ cambio \in [Cambios -> C]
  BY <1>1 DEF GestionTypeOK
<1>3. ASSUME NEW v \in C, cambio' = [cambio EXCEPT ![k] = v], grado' \in Nat,
             UNCHANGED <<consolaVars, status, deteniendo, detenciones, finMemoria>>
      PROVE  GestionTypeOK'
  <2>1. cambio' \in [Cambios -> C]
    BY <1>2, <1>3
  <2>2. QED
    BY <1>1, <1>3, <2>1 DEF GestionTypeOK, consolaVars
<1>4. ASSUME NEW g \in Grados, CambiarGrado(k, g)
      PROVE  Tipos'
  <2>1. [paso |-> "orden", nuevo |-> g, falta |-> 0] \in C
    BY GradosAssumption
  <2>2. SemTypeOK' /\ GestionTypeOK'
    BY <1>1, <1>2, <1>3, <1>4, <2>1 DEF CambiarGrado, SemTypeOK
  <2>3. QED
    BY <1>4, <2>2, TiposGestion DEF CambiarGrado
<1>5. CASE CambioTomar(k)
  <2>1. SemTypeOK'
    BY <1>1, <1>5, NombresSem, SumarTipos DEF CambioTomar, SemTypeOK, Esperar
  <2>2. PICK v \in C : cambio' = [cambio EXCEPT ![k] = v]
    <3>1. cambio[k].nuevo - grado \in Int
      BY <1>2
    <3>2. [cambio[k] EXCEPT !.paso = "ajuste", !.falta = cambio[k].nuevo - grado] \in C
      BY <1>2, <3>1
    <3>3. cambio' = [cambio EXCEPT ![k] = [cambio[k] EXCEPT !.paso = "ajuste",
                                                            !.falta = cambio[k].nuevo - grado]]
      BY <1>2, <1>5 DEF CambioTomar
    <3>4. QED
      BY <3>2, <3>3
  <2>3. GestionTypeOK'
    BY <1>2, <1>3, <1>5, <2>2 DEF CambioTomar
  <2>4. QED
    BY <1>5, <2>1, <2>3, TiposGestion DEF CambioTomar
<1>6. CASE CambioAjustar(k)
  <2>1. SemTypeOK'
    BY <1>1, <1>6, NombresSem, SumarTipos DEF CambioAjustar, SemTypeOK, Esperar, Publicar
  <2>2. PICK v \in C : cambio' = [cambio EXCEPT ![k] = v]
    <3>1. \A d \in Int : [cambio[k] EXCEPT !.falta = d] \in C
      BY <1>2
    <3>2. cambio[k].falta + 1 \in Int /\ cambio[k].falta - 1 \in Int
      BY <1>2
    <3>3. \/ cambio' = [cambio EXCEPT ![k] = [cambio[k] EXCEPT !.falta = cambio[k].falta - 1]]
          \/ cambio' = [cambio EXCEPT ![k] = [cambio[k] EXCEPT !.falta = cambio[k].falta + 1]]
      BY <1>2, <1>6 DEF CambioAjustar
    <3>4. CASE cambio' = [cambio EXCEPT ![k] = [cambio[k] EXCEPT !.falta = cambio[k].falta - 1]]
      BY <3>1, <3>2, <3>4
    <3>5. CASE cambio' = [cambio EXCEPT ![k] = [cambio[k] EXCEPT !.falta = cambio[k].falta + 1]]
      BY <3>1, <3>2, <3>5
    <3>6. QED
      BY <3>3, <3>4, <3>5
  <2>3. GestionTypeOK'
    BY <1>2, <1>3, <1>6, <2>2 DEF CambioAjustar
  <2>4. QED
    BY <1>6, <2>1, <2>3, TiposGestion DEF CambioAjustar
<1>7. CASE CambioTerminar(k)
  <2>1. SemTypeOK'
    BY <1>1, <1>7, NombresSem, SumarTipos DEF CambioTerminar, SemTypeOK, Publicar
  <2>2. PICK v \in C : cambio' = [cambio EXCEPT ![k] = v]
    BY <1>2, <1>7 DEF CambioTerminar
  <2>3. GestionTypeOK'
    BY <1>2, <1>3, <1>7, <2>2 DEF CambioTerminar
  <2>4. QED
    BY <1>7, <2>1, <2>3, TiposGestion DEF CambioTerminar
<1>8. QED
  BY <1>4, <1>5, <1>6, <1>7 DEF Cambio

(* The steps of each thread *)
PasosDe == [consola |-> PasosConsola, largo |-> PasosLargo, corto |-> PasosCorto,
            quantum |-> PasosQuantum, despacho |-> PasosDespacho]

(* A thread that goes to a step of its own keeps HilosTypeOK, if what it    *)
(* does to the pointers is right, and moves no other thread.                *)
LEMMA HilosPaso ==
  ASSUME HilosTypeOK, NEW h \in Hilos, NEW s \in PasosDe[h], pc' = [pc EXCEPT ![h] = s],
         \/ UNCHANGED local
         \/ \E p \in PidsONulo : local' = [local EXCEPT ![h] = p],
         colgados' \subseteq {"consola", "corto"}
  PROVE  /\ HilosTypeOK'
         /\ pc'[h] = s
         /\ \A g \in Hilos \ {h} : pc'[g] = pc[g] /\ local'[g] = local[g]
<1>1. PasosDe[h] \subseteq Pasos
  BY DEF PasosDe, Hilos, Pasos
<1>2. pc' \in [Hilos -> Pasos] /\ local' \in [Hilos -> PidsONulo]
  BY <1>1 DEF HilosTypeOK
<1>3. \A g \in Hilos : pc'[g] = IF g = h THEN s ELSE pc[g]
  BY DEF HilosTypeOK
<1>4. \A g \in Hilos : pc'[g] \in PasosDe[g]
  BY <1>3 DEF HilosTypeOK, PasosDe, Hilos
<1>5. HilosTypeOK'
  BY <1>2, <1>4 DEF HilosTypeOK, PasosDe, Hilos
<1>6. \A g \in Hilos \ {h} : local'[g] = local[g]
  BY DEF HilosTypeOK
<1>7. QED
  BY <1>3, <1>5, <1>6

(* What remains to show of a step of a thread of the kernel that leaves the *)
(* CPU, the interfaces and the management variables alone                   *)
LEMMA TiposHilo ==
  ASSUME Tipos, UNCHANGED <<cpuInterna, ioVars>>,
         CpuTypeOK', SemTypeOK', ListasTypeOK', HilosTypeOK', TurnoTypeOK', GestionTypeOK',
         pc'["despacho"] # "recibir" => mensaje' \in Mensajes,
         pc'["consola"] \in {"verificar", "comparar", "eliminar", "encolar"}
           => local'["consola"] \in Pids,
         vivo' /\ pc'["largo"] = "agregar" => local'["largo"] \in Pids,
         vivo' /\ pc'["corto"] = "ejecutar" => local'["corto"] \in Pids
  PROVE  Tipos'
<1>1. IoTypeOK'
  BY Marco DEF Tipos
<1>2. Punteros'
  BY DEF Tipos, Punteros, cpuInterna, ioVars
<1>3. QED
  BY <1>1, <1>2 DEF Tipos, TypeOK

LEMMA TiposConsola ==
  ASSUME Tipos, IniciarProceso \/ ConsolaTrabada
  PROVE  Tipos'
<1>1. SemTypeOK /\ ListasTypeOK /\ HilosTypeOK /\ GestionTypeOK /\ Punteros
  BY DEF Tipos, TypeOK
<1>2. CASE IniciarProceso
  <2>1. CpuTypeOK' /\ HilosTypeOK' /\ TurnoTypeOK'
    BY <1>2, Marco DEF IniciarProceso, Tipos
  <2>2. SemTypeOK'
    BY <1>1, <1>2, NombresSem, SumarTipos DEF IniciarProceso, SemTypeOK, Publicar
  <2>3. identificador \in Pids /\ identificador' \in 1..(MaxPid + 1)
    BY <1>1, <1>2, MaxPidAssumption DEF IniciarProceso, GestionTypeOK
  <2>4. ListasTypeOK'
    <3>1. cola' \in [{"NEW", "READY", "AUX_READY"} -> Seq(Pids)]
      BY <1>1, <1>2, <2>3, AppendProperties DEF IniciarProceso, ListasTypeOK
    <3>2. tabla' \in [Pids -> Estados]
      BY <1>1, <1>2, <2>3 DEF IniciarProceso, ListasTypeOK, Estados
    <3>3. QED
      BY <1>1, <1>2, <3>1, <3>2 DEF IniciarProceso, ListasTypeOK
  <2>5. GestionTypeOK'
    BY <1>1, <1>2, <2>3 DEF IniciarProceso, GestionTypeOK, planVars
  <2>6. QED
    BY <1>1, <1>2, <2>1, <2>2, <2>4, <2>5, TiposHilo
    DEF IniciarProceso, Punteros, cpuVars, hilos, turnoVars
<1>3. CASE ConsolaTrabada
  <2>1. CpuTypeOK' /\ SemTypeOK' /\ ListasTypeOK' /\ TurnoTypeOK' /\ GestionTypeOK'
    BY <1>3, Marco DEF ConsolaTrabada, Tipos
  <2>2. HilosTypeOK' /\ pc' = [pc EXCEPT !["consola"] = "trabada"]
    BY <1>1, <1>3 DEF ConsolaTrabada, HilosTypeOK, Ir, Hilos, PasosConsola, Pasos
  <2>3. QED
    BY <1>1, <1>3, <2>1, <2>2, TiposHilo
    DEF ConsolaTrabada, Punteros, cpuVars, turnoVars, HilosTypeOK, Hilos
<1>4. QED
  BY <1>2, <1>3

(* An interruption sent to the CPU *)
LEMMA CanalTipo ==
  ASSUME CpuTypeOK, NEW t \in Interrupciones, NEW p \in Pids,
         canalInt' = Append(canalInt, [tipo |-> t, pid |-> p]), UNCHANGED <<aCpu, deCpu, cpuInterna>>
  PROVE  CpuTypeOK'
<1>1. canalInt \in Seq([tipo : Interrupciones, pid : Pids])
  BY DEF CpuTypeOK
<1>2. [tipo |-> t, pid |-> p] \in [tipo : Interrupciones, pid : Pids]
  OBVIOUS
<1>3. canalInt' \in Seq([tipo : Interrupciones, pid : Pids])
  BY <1>1, <1>2, AppendProperties
<1>4. QED
  BY <1>3 DEF CpuTypeOK, cpuInterna

LEMMA TiposFinalizarBuscar ==
  ASSUME Tipos, NEW p \in Pids, FinalizarBuscar(p)
  PROVE  Tipos'
<1>1. HilosTypeOK /\ GestionTypeOK /\ Punteros
  BY DEF Tipos, TypeOK
<1>2. CpuTypeOK' /\ SemTypeOK' /\ ListasTypeOK' /\ TurnoTypeOK'
  BY Marco DEF FinalizarBuscar, Tipos
<1>3. GestionTypeOK'
  <2>1. finalizaciones' \in 0..MaxFinalizar
    BY <1>1, CotasAssumption DEF FinalizarBuscar, GestionTypeOK
  <2>2. QED
    BY <1>1, <2>1 DEF FinalizarBuscar, GestionTypeOK, planVars
<1>4. \/ UNCHANGED hilos
      \/ /\ pc' = [pc EXCEPT !["consola"] = "verificar"]
         /\ local' = [local EXCEPT !["consola"] = p]
         /\ colgados' = colgados \ {"consola"}
  BY DEF FinalizarBuscar, Ir, Tener
<1>5. HilosTypeOK'
  <2>1. CASE UNCHANGED hilos
    BY <2>1, Marco DEF Tipos
  <2>2. CASE ~UNCHANGED hilos
    <3>1. "consola" \in Hilos /\ "verificar" \in PasosDe["consola"] /\ colgados' \subseteq {"consola", "corto"}
      BY <1>1, <1>4, <2>2 DEF Hilos, PasosDe, PasosConsola, HilosTypeOK
    <3>2. QED
      BY <1>1, <1>4, <2>2, <3>1, HilosPaso
  <2>3. QED
    BY <2>1, <2>2
<1>6. /\ pc'["despacho"] = pc["despacho"]
      /\ pc'["largo"] = pc["largo"] /\ local'["largo"] = local["largo"]
      /\ pc'["corto"] = pc["corto"] /\ local'["corto"] = local["corto"]
  BY <1>1, <1>4 DEF HilosTypeOK, hilos, Hilos
<1>7. \/ pc'["consola"] = pc["consola"] /\ local'["consola"] = local["consola"]
      \/ local'["consola"] \in Pids
  BY <1>1, <1>4 DEF HilosTypeOK, hilos, Hilos
<1>8. QED
  BY <1>1, <1>2, <1>3, <1>5, <1>6, <1>7, TiposHilo
  DEF FinalizarBuscar, Punteros, cpuVars, turnoVars

LEMMA TiposFinalizar ==
  ASSUME Tipos, vivo, FinalizarVerificar \/ FinalizarComparar \/ FinalizarEliminar \/ FinalizarEncolar
  PROVE  Tipos'
<1>1. CpuTypeOK /\ SemTypeOK /\ ListasTypeOK /\ HilosTypeOK /\ TurnoTypeOK /\ Punteros /\ IoTypeOK
  BY DEF Tipos, TypeOK
<1>2. local["consola"] \in Pids
  BY <1>1 DEF FinalizarVerificar, FinalizarComparar, FinalizarEliminar, FinalizarEncolar, En, Punteros
<1>3. \/ UNCHANGED hilos
      \/ \E s \in PasosConsola :
           /\ pc' = [pc EXCEPT !["consola"] = s]
           /\ \/ UNCHANGED <<local, colgados>>
              \/ s = "listo" /\ local' = [local EXCEPT !["consola"] = Nulo]
                            /\ colgados' = colgados \ {"consola"}
  BY DEF FinalizarVerificar, FinalizarComparar, FinalizarEliminar, FinalizarEncolar,
         Ir, Tener, PasosConsola
<1>4. HilosTypeOK'
  <2>1. CASE UNCHANGED hilos
    BY <2>1, Marco DEF Tipos
  <2>2. CASE ~UNCHANGED hilos
    <3>1. "consola" \in Hilos /\ PasosConsola = PasosDe["consola"]
          /\ colgados' \subseteq {"consola", "corto"}
      BY <1>1, <1>3, <2>2 DEF Hilos, PasosDe, HilosTypeOK
    <3>2. QED
      BY <1>1, <1>3, <2>2, <3>1, HilosPaso
  <2>3. QED
    BY <2>1, <2>2
<1>5. /\ pc'["despacho"] = pc["despacho"]
      /\ pc'["largo"] = pc["largo"] /\ local'["largo"] = local["largo"]
      /\ pc'["corto"] = pc["corto"] /\ local'["corto"] = local["corto"]
      /\ pc'["consola"] \in {"verificar", "comparar", "eliminar", "encolar"} =>
           local'["consola"] = local["consola"]
  BY <1>1, <1>3 DEF HilosTypeOK, hilos, Hilos
<1>6. CASE FinalizarVerificar
  <2>1. CpuTypeOK' /\ SemTypeOK' /\ ListasTypeOK' /\ TurnoTypeOK' /\ GestionTypeOK'
    BY <1>6, Marco DEF FinalizarVerificar, Tipos
  <2>2. QED
    BY <1>1, <1>2, <1>4, <1>5, <1>6, <2>1, TiposHilo
    DEF FinalizarVerificar, Punteros, cpuVars, turnoVars
<1>7. CASE FinalizarComparar
  <2>1. SemTypeOK' /\ ListasTypeOK' /\ GestionTypeOK'
    BY <1>7, Marco DEF FinalizarComparar, Tipos
  <2>2. CpuTypeOK'
    <3>1. CASE UNCHANGED canalInt
      BY <1>1, <1>7, <3>1 DEF FinalizarComparar, CpuTypeOK, cpuInterna
    <3>2. CASE /\ execute = local["consola"]
               /\ canalInt' = Append(canalInt, [tipo |-> "EXIT", pid |-> execute])
      BY <1>1, <1>2, <1>7, <3>2, CanalTipo DEF FinalizarComparar, Interrupciones
    <3>3. QED
      BY <1>7, <3>1, <3>2 DEF FinalizarComparar
  <2>3. TurnoTypeOK' /\ UNCHANGED mensaje /\ (vivo' => vivo)
    BY <1>1, <1>7 DEF FinalizarComparar, TurnoTypeOK, turnoVars, Caer
  <2>4. QED
    BY <1>1, <1>2, <1>4, <1>5, <1>7, <2>1, <2>2, <2>3, TiposHilo DEF FinalizarComparar, Punteros
<1>8. CASE FinalizarEncolar
  <2>1. CpuTypeOK' /\ TurnoTypeOK' /\ GestionTypeOK'
    BY <1>8, Marco DEF FinalizarEncolar, Tipos
  <2>2. SemTypeOK'
    BY <1>1, <1>8, NombresSem, SumarTipos DEF FinalizarEncolar, SemTypeOK, Publicar
  <2>3. ListasTypeOK'
    <3>1. [pid |-> local["consola"], objeto |-> "liberado"] \in Salidas
          /\ [pid |-> local["consola"], objeto |-> "tabla"] \in Salidas
      BY <1>2 DEF Salidas
    <3>2. colaExit' \in Seq(Salidas)
      BY <1>1, <1>8, <3>1, AppendProperties DEF FinalizarEncolar, ListasTypeOK
    <3>3. QED
      BY <1>1, <1>8, <3>2 DEF FinalizarEncolar, ListasTypeOK, Estados
  <2>4. QED
    BY <1>1, <1>2, <1>4, <1>5, <1>8, <2>1, <2>2, <2>3, TiposHilo
    DEF FinalizarEncolar, Punteros, cpuVars, turnoVars
<1>9. CASE FinalizarEliminar
  <2>1. CpuTypeOK' /\ TurnoTypeOK' /\ GestionTypeOK' /\ SemTypeOK'
    BY <1>9, Marco DEF FinalizarEliminar, Tipos
  <2>2. ListasTypeOK'
    <3>1. ASSUME NEW e \in {"NEW", "READY"}
          PROVE  ListRemoveElement(cola[e], local["consola"]) \in Seq(Pids)
      BY <1>1, ListRemoveElementTipo DEF ListasTypeOK
    <3>2. cola' \in [{"NEW", "READY", "AUX_READY"} -> Seq(Pids)]
      BY <1>1, <1>9, <3>1 DEF FinalizarEliminar, ListasTypeOK
    <3>3. listado' \in [Lectores -> Listados]
      <4>1. listado \in [Lectores -> Listados] /\ vivo \in BOOLEAN
        BY <1>1 DEF ListasTypeOK, TurnoTypeOK
      <4>2. UNCHANGED listado \/ RomperListados("READY")
        BY <1>9 DEF FinalizarEliminar
      <4>3. QED
        BY <4>1, <4>2, LectoresHay, ListadoTipo
    <3>4. QED
      BY <1>1, <1>9, <3>2, <3>3 DEF FinalizarEliminar, ListasTypeOK
  <2>3. IoTypeOK'
    <3>1. ASSUME NEW i \in Interfaces
          PROVE  ListRemoveElement(ioCola[i], local["consola"]) \in Seq(Pids)
      BY <1>1, ListRemoveElementTipo DEF IoTypeOK
    <3>2. ioCola' \in [Interfaces -> Seq(Pids)]
      BY <1>1, <1>9, <3>1 DEF FinalizarEliminar, IoTypeOK
    <3>3. QED
      BY <1>1, <1>9, <3>2 DEF FinalizarEliminar, IoTypeOK
  <2>4. Punteros'
    BY <1>1, <1>2, <1>5, <1>9 DEF FinalizarEliminar, Punteros, cpuVars, cpuInterna, turnoVars
  <2>5. QED
    BY <1>4, <2>1, <2>2, <2>3, <2>4 DEF Tipos, TypeOK
<1>10. QED
  BY <1>6, <1>7, <1>8, <1>9

LEMMA TiposLargo ==
  ASSUME Tipos, vivo, LargoPlazo
  PROVE  Tipos'
<1>1. CpuTypeOK /\ SemTypeOK /\ ListasTypeOK /\ HilosTypeOK /\ TurnoTypeOK /\ Punteros
  BY DEF Tipos, TypeOK
<1>2. CpuTypeOK' /\ TurnoTypeOK' /\ GestionTypeOK' /\ UNCHANGED <<cpuVars, turnoVars, ioVars>>
  <2>1. UNCHANGED <<cpuVars, turnoVars, quantumVars, ioVars, gestionVars>>
    BY DEF LargoPlazo, LargoEsperar, LargoOrden, LargoMulti, LargoSacar, LargoAgregar, LargoMostrar
  <2>2. vivo' \in BOOLEAN
    BY <1>1 DEF TurnoTypeOK, LargoPlazo, LargoEsperar, LargoOrden, LargoMulti, LargoSacar, LargoAgregar,
                LargoMostrar, Caer, TerminarListado
  <2>3. TurnoTypeOK'
    BY <2>1, <2>2 DEF Tipos, TypeOK, TurnoTypeOK, turnoVars, quantumVars
  <2>4. QED
    BY <2>1, <2>3, Marco DEF Tipos
<1>3. SemTypeOK'
  <2>1. CASE LargoEsperar
    BY <1>1, <2>1, NombresSem, SumarTipos DEF LargoEsperar, SemTypeOK, Esperar
  <2>2. CASE LargoOrden
    BY <1>1, <2>2 DEF LargoOrden, SemTypeOK
  <2>3. CASE LargoMulti
    BY <1>1, <2>3, NombresSem, SumarTipos DEF LargoMulti, SemTypeOK, Esperar
  <2>4. CASE LargoSacar
    BY <1>1, <2>4, NombresSem, SumarTipos DEF LargoSacar, SemTypeOK, Esperar
  <2>5. CASE LargoAgregar
    BY <1>1, <2>5 DEF LargoAgregar, SemTypeOK
  <2>6. CASE LargoMostrar
    BY <1>1, <2>6, NombresSem, SumarTipos DEF LargoMostrar, SemTypeOK
  <2>7. QED
    BY <2>1, <2>2, <2>3, <2>4, <2>5, <2>6 DEF LargoPlazo
<1>4. CASE LargoEsperar \/ LargoOrden \/ LargoMulti
  <2>1. PICK s \in {"espera", "orden", "multi", "sacar"} : pc' = [pc EXCEPT !["largo"] = s]
    BY <1>4 DEF LargoEsperar, LargoOrden, LargoMulti, Ir
  <2>2. UNCHANGED <<listas, local, colgados, vivo>>
    BY <1>4 DEF LargoEsperar, LargoOrden, LargoMulti
  <2>3. s \in PasosDe["largo"] /\ "largo" \in Hilos /\ colgados' \subseteq {"consola", "corto"}
    BY <1>1, <2>1, <2>2 DEF PasosDe, PasosLargo, Hilos, HilosTypeOK
  <2>4. HilosTypeOK' /\ pc'["largo"] = s /\ (\A g \in Hilos \ {"largo"} : pc'[g] = pc[g])
    BY <1>1, <2>1, <2>2, <2>3, HilosPaso
  <2>5. ListasTypeOK'
    BY <2>2, Marco DEF Tipos
  <2>6. QED
    BY <1>1, <1>2, <1>3, <2>2, <2>4, <2>5, TiposHilo DEF Punteros, Hilos, cpuVars, turnoVars
<1>5. CASE LargoSacar
  <2>1. "agregar" \in PasosDe["largo"] /\ "largo" \in Hilos /\ colgados' \subseteq {"consola", "corto"}
    BY <1>1, <1>5 DEF PasosDe, PasosLargo, Hilos, HilosTypeOK, LargoSacar, Tener
  <2>2. /\ pc' = [pc EXCEPT !["largo"] = "agregar"]
        /\ \/ cola["NEW"] = <<>> /\ ~vivo' /\ UNCHANGED <<cola, local>>
           \/ /\ cola["NEW"] # <<>>
              /\ local' = [local EXCEPT !["largo"] = Head(cola["NEW"])]
              /\ cola' = [cola EXCEPT !["NEW"] = ListRemove(@)]
    BY <1>5 DEF LargoSacar, Tener, Ir, Caer
  <2>3. cola["NEW"] # <<>> => Head(cola["NEW"]) \in Pids /\ ListRemove(cola["NEW"]) \in Seq(Pids)
    BY <1>1, ListRemoveTipo DEF ListasTypeOK
  <2>4. HilosTypeOK' /\ \A g \in Hilos \ {"largo"} : pc'[g] = pc[g] /\ local'[g] = local[g]
    BY <1>1, <2>1, <2>2, <2>3, HilosPaso
  <2>5. vivo' => local'["largo"] \in Pids
    BY <1>1, <2>1, <2>2, <2>3 DEF HilosTypeOK
  <2>6. ListasTypeOK'
    BY <1>1, <1>5, <2>2, <2>3 DEF LargoSacar, ListasTypeOK
  <2>7. QED
    BY <1>1, <1>2, <1>3, <2>4, <2>5, <2>6, TiposHilo DEF Punteros, Hilos, cpuVars, turnoVars
<1>6. CASE LargoAgregar
  <2>1. local["largo"] \in Pids
    BY <1>1, <1>6 DEF LargoAgregar, Punteros, En
  <2>2. "mostrar" \in PasosDe["largo"] /\ "largo" \in Hilos /\ colgados' \subseteq {"consola", "corto"}
    BY <1>1, <1>6 DEF PasosDe, PasosLargo, Hilos, HilosTypeOK, LargoAgregar, Tener
  <2>3. pc' = [pc EXCEPT !["largo"] = "mostrar"] /\ local' = [local EXCEPT !["largo"] = Nulo]
    BY <1>6 DEF LargoAgregar, Tener, Ir
  <2>4. /\ HilosTypeOK' /\ pc'["largo"] = "mostrar"
        /\ \A g \in Hilos \ {"largo"} : pc'[g] = pc[g] /\ local'[g] = local[g]
    BY <1>1, <2>2, <2>3, HilosPaso
  <2>5. ListasTypeOK'
    <3>1. Append(cola["READY"], local["largo"]) \in Seq(Pids)
      BY <1>1, <2>1, AppendProperties DEF ListasTypeOK
    <3>2. cola' \in [{"NEW", "READY", "AUX_READY"} -> Seq(Pids)]
      BY <1>1, <1>6, <3>1 DEF LargoAgregar, ListasTypeOK
    <3>3. listado' \in [Lectores -> Listados]
      BY <1>1, <1>6, LectoresHay, ListadoTipo DEF LargoAgregar, ListasTypeOK, TurnoTypeOK
    <3>4. QED
      BY <1>1, <1>6, <2>1, <3>2, <3>3 DEF LargoAgregar, ListasTypeOK, Estados
  <2>6. UNCHANGED vivo
    BY <1>6 DEF LargoAgregar
  <2>7. QED
    BY <1>1, <1>2, <1>3, <2>4, <2>5, <2>6, TiposHilo DEF Punteros, Hilos, cpuVars, turnoVars
<1>7. CASE LargoMostrar
  <2>1. /\ pc' = [pc EXCEPT !["largo"] = "espera"] /\ UNCHANGED local
        /\ colgados' \subseteq {"consola", "corto"}
    BY <1>1, <1>7 DEF LargoMostrar, Ir, HilosTypeOK
  <2>2. "espera" \in PasosDe["largo"] /\ "largo" \in Hilos
    BY DEF PasosDe, PasosLargo, Hilos
  <2>3. HilosTypeOK' /\ pc'["largo"] = "espera" /\ \A g \in Hilos \ {"largo"} : pc'[g] = pc[g]
    BY <1>1, <2>1, <2>2, HilosPaso
  <2>4. listado' \in [Lectores -> Listados]
    BY <1>1, <1>7, LectoresHay, ListadoTipo DEF LargoMostrar, ListasTypeOK, TurnoTypeOK
  <2>5. ListasTypeOK'
    BY <1>1, <1>7, <2>4 DEF LargoMostrar, ListasTypeOK
  <2>6. QED
    BY <1>1, <1>2, <1>3, <2>1, <2>3, <2>5, TiposHilo DEF Punteros, Hilos, cpuVars, turnoVars
<1>8. QED
  BY <1>4, <1>5, <1>6, <1>7 DEF LargoPlazo

LEMMA TiposEndProcess ==
  ASSUME Tipos, EndProcess
  PROVE  Tipos'
<1>1. SemTypeOK /\ ListasTypeOK /\ GestionTypeOK /\ Punteros
  BY DEF Tipos, TypeOK
<1>2. CpuTypeOK' /\ HilosTypeOK' /\ TurnoTypeOK'
  BY Marco DEF EndProcess, Tipos
<1>3. SemTypeOK'
  BY <1>1, NombresSem, SumarTipos DEF EndProcess, SemTypeOK
<1>4. ListRemove(colaExit) \in Seq(Salidas) /\ Head(colaExit) \in Salidas
  BY <1>1, ListRemoveTipo DEF EndProcess, ListasTypeOK
<1>5. ListasTypeOK'
  BY <1>1, <1>4 DEF EndProcess, ListasTypeOK
<1>6. GestionTypeOK'
  <2>1. finMemoria' \in [Pids -> Nat]
    BY <1>1, <1>4 DEF EndProcess, GestionTypeOK, Salidas
  <2>2. QED
    BY <1>1, <2>1 DEF EndProcess, GestionTypeOK, consolaVars, planVars
<1>7. QED
  BY <1>1, <1>2, <1>3, <1>5, <1>6, TiposHilo DEF EndProcess, Punteros, cpuVars, hilos, turnoVars

LEMMA TiposCortoSacar ==
  ASSUME Tipos, vivo, NEW paso, NEW c \in {"READY", "AUX_READY"}, CortoSacar(paso, c)
  PROVE  Tipos'
<1>1. SemTypeOK /\ ListasTypeOK /\ HilosTypeOK /\ TurnoTypeOK /\ Punteros
  BY DEF Tipos, TypeOK
<1>2. CpuTypeOK' /\ GestionTypeOK'
  BY Marco DEF CortoSacar, Tipos
<1>3. SemTypeOK'
  BY <1>1, NombresSem, SumarTipos DEF CortoSacar, SemTypeOK, Esperar
<1>4. "ejecutar" \in PasosDe["corto"] /\ "corto" \in Hilos /\ colgados' \subseteq {"consola", "corto"}
  BY <1>1 DEF PasosDe, PasosCorto, Hilos, HilosTypeOK, CortoSacar, Tener
<1>5. /\ pc' = [pc EXCEPT !["corto"] = "ejecutar"]
      /\ \/ cola[c] = <<>> /\ vivo' = FALSE /\ UNCHANGED <<cola, local, parcial>>
         \/ /\ cola[c] # <<>>
            /\ local' = [local EXCEPT !["corto"] = Head(cola[c])]
            /\ cola' = [cola EXCEPT ![c] = ListRemove(@)]
            /\ parcial' \subseteq parcial
            /\ UNCHANGED vivo
  BY DEF CortoSacar, Tener, Ir, Caer
<1>6. cola[c] # <<>> => Head(cola[c]) \in Pids /\ ListRemove(cola[c]) \in Seq(Pids)
  BY <1>1, ListRemoveTipo DEF ListasTypeOK
<1>7. HilosTypeOK' /\ \A g \in Hilos \ {"corto"} : pc'[g] = pc[g] /\ local'[g] = local[g]
  BY <1>1, <1>4, <1>5, <1>6, HilosPaso
<1>8. vivo' => local'["corto"] \in Pids
  BY <1>1, <1>4, <1>5, <1>6 DEF HilosTypeOK
<1>9. ListasTypeOK'
  <2>1. UNCHANGED listado \/ RomperListados(c)
    BY DEF CortoSacar
  <2>2. listado' \in [Lectores -> Listados]
    BY <1>1, <2>1, LectoresHay, ListadoTipo DEF ListasTypeOK, TurnoTypeOK
  <2>3. QED
    BY <1>1, <1>5, <1>6, <2>2 DEF CortoSacar, ListasTypeOK
<1>10. TurnoTypeOK'
  <2>1. vivo' \in BOOLEAN /\ parcial' \subseteq Pids
    BY <1>1, <1>5 DEF TurnoTypeOK
  <2>2. QED
    BY <1>1, <2>1 DEF CortoSacar, TurnoTypeOK, turnoVars
<1>11. QED
  BY <1>1, <1>2, <1>3, <1>7, <1>8, <1>9, <1>10, TiposHilo
  DEF CortoSacar, Punteros, Hilos, cpuVars, turnoVars

LEMMA TiposCortoEjecutar ==
  ASSUME Tipos, vivo, CortoEjecutar
  PROVE  Tipos'
<1>1. CpuTypeOK /\ ListasTypeOK /\ HilosTypeOK /\ TurnoTypeOK /\ Punteros
  BY DEF Tipos, TypeOK
<1>2. SemTypeOK' /\ GestionTypeOK'
  BY Marco DEF CortoEjecutar, Tipos
<1>3. local["corto"] \in Pids
  BY <1>1 DEF CortoEjecutar, En, Punteros
<1>4. CpuTypeOK'
  <2>1. aCpu' \in Seq(Pids)
    BY <1>1, <1>3, AppendProperties DEF CortoEjecutar, CpuTypeOK
  <2>2. QED
    BY <1>1, <2>1 DEF CortoEjecutar, CpuTypeOK, cpuInterna
<1>5. ListasTypeOK'
  BY <1>1, <1>3 DEF CortoEjecutar, ListasTypeOK, Estados
<1>6. TurnoTypeOK'
  BY <1>1, <1>3 DEF CortoEjecutar, TurnoTypeOK, quantumVars
<1>7. PICK s \in {"elegir", "quantum"} :
        /\ pc' = [pc EXCEPT !["corto"] = s]
        /\ (UNCHANGED local \/ local' = [local EXCEPT !["corto"] = Nulo])
        /\ colgados' \subseteq colgados
  BY DEF CortoEjecutar, Ir, Tener
<1>8. s \in PasosDe["corto"] /\ "corto" \in Hilos /\ colgados' \subseteq {"consola", "corto"}
  BY <1>1, <1>7 DEF PasosDe, PasosCorto, Hilos, HilosTypeOK
<1>9. /\ HilosTypeOK' /\ pc'["corto"] = s
      /\ \A g \in Hilos \ {"corto"} : pc'[g] = pc[g] /\ local'[g] = local[g]
  BY <1>1, <1>7, <1>8, HilosPaso
<1>10. QED
  BY <1>1, <1>2, <1>4, <1>5, <1>6, <1>9, TiposHilo DEF CortoEjecutar, Punteros, Hilos

LEMMA TiposCorto ==
  ASSUME Tipos, vivo, CortoPlazo
  PROVE  Tipos'
<1>1. SemTypeOK /\ HilosTypeOK /\ TurnoTypeOK /\ Punteros
  BY DEF Tipos, TypeOK
<1>2. CASE CortoElegir \/ CortoCpu
  <2>1. CpuTypeOK' /\ ListasTypeOK' /\ TurnoTypeOK' /\ GestionTypeOK'
    BY <1>2, Marco DEF CortoElegir, CortoCpu, Tipos
  <2>2. SemTypeOK'
    <3>1. CASE CortoElegir
      BY <1>1, <3>1 DEF CortoElegir, SemTypeOK
    <3>2. CASE CortoCpu
      BY <1>1, <3>2, NombresSem, SumarTipos DEF CortoCpu, SemTypeOK, Esperar
    <3>3. QED
      BY <1>2, <3>1, <3>2
  <2>3. PICK s \in {"cpuAux", "cpu", "ready", "aux"} : pc' = [pc EXCEPT !["corto"] = s]
    BY <1>2 DEF CortoElegir, CortoCpu, Ir
  <2>4. UNCHANGED <<cpuVars, turnoVars, ioVars, local, colgados, vivo>>
    BY <1>2 DEF CortoElegir, CortoCpu
  <2>5. s \in PasosDe["corto"] /\ "corto" \in Hilos /\ colgados' \subseteq {"consola", "corto"}
    BY <1>1, <2>3, <2>4 DEF PasosDe, PasosCorto, Hilos, HilosTypeOK
  <2>6. HilosTypeOK' /\ pc'["corto"] = s /\ \A g \in Hilos \ {"corto"} : pc'[g] = pc[g]
    BY <1>1, <2>3, <2>4, <2>5, HilosPaso
  <2>7. QED
    BY <1>1, <2>1, <2>2, <2>4, <2>6, TiposHilo DEF Punteros, Hilos, cpuVars, turnoVars
<1>3. CASE InterrupcionQuantum \/ CortoUnir
  <2>1. CpuTypeOK' /\ SemTypeOK' /\ ListasTypeOK' /\ GestionTypeOK'
    BY <1>3, Marco DEF InterrupcionQuantum, CortoUnir, Tipos
  <2>2. TurnoTypeOK' /\ (vivo' => vivo) /\ UNCHANGED mensaje
    BY <1>1, <1>3 DEF InterrupcionQuantum, CortoUnir, TurnoTypeOK, turnoVars, quantumVars, Caer
  <2>3. \/ UNCHANGED hilos
        \/ /\ \/ pc' = [pc EXCEPT !["corto"] = "unir", !["quantum"] = "crear"]
              \/ pc' = [pc EXCEPT !["corto"] = "elegir", !["quantum"] = "ninguno"]
           /\ \/ UNCHANGED local
              \/ \E p \in PidsONulo : local' = [local EXCEPT !["corto"] = Nulo, !["quantum"] = p]
           /\ colgados' \subseteq colgados
    <3>1. PidDelQuantum \subseteq PidsONulo
      BY <1>1 DEF PidDelQuantum, TurnoTypeOK, HilosTypeOK, Hilos
    <3>2. CASE InterrupcionQuantum
      BY <3>1, <3>2 DEF InterrupcionQuantum
    <3>3. CASE CortoUnir
      BY <3>3 DEF CortoUnir
    <3>4. QED
      BY <1>3, <3>2, <3>3
  <2>4. /\ HilosTypeOK'
        /\ \A g \in Hilos \ {"corto", "quantum"} : pc'[g] = pc[g] /\ local'[g] = local[g]
        /\ pc'["corto"] # "ejecutar" \/ UNCHANGED hilos
    <3>1. CASE UNCHANGED hilos
      BY <1>1, <3>1, Marco DEF Tipos, hilos
    <3>2. CASE ~UNCHANGED hilos
      <4>1. PICK s \in {"unir", "elegir"}, q \in {"crear", "ninguno"} :
              pc' = [pc EXCEPT !["corto"] = s, !["quantum"] = q]
        BY <2>3, <3>2
      <4>2. pc' \in [Hilos -> Pasos]
        BY <1>1, <4>1 DEF HilosTypeOK, Hilos, Pasos, PasosCorto, PasosQuantum
      <4>3. /\ pc'["corto"] = s /\ pc'["quantum"] = q
            /\ \A g \in Hilos \ {"corto", "quantum"} : pc'[g] = pc[g]
        BY <1>1, <4>1 DEF HilosTypeOK, Hilos
      <4>4. /\ local' \in [Hilos -> PidsONulo]
            /\ \A g \in Hilos \ {"corto", "quantum"} : local'[g] = local[g]
        <5>1. CASE UNCHANGED local
          BY <1>1, <5>1 DEF HilosTypeOK
        <5>2. ASSUME NEW p \in PidsONulo, local' = [local EXCEPT !["corto"] = Nulo, !["quantum"] = p]
              PROVE  /\ local' \in [Hilos -> PidsONulo]
                     /\ \A g \in Hilos \ {"corto", "quantum"} : local'[g] = local[g]
          BY <1>1, <5>2 DEF HilosTypeOK, Hilos
        <5>3. QED
          BY <2>3, <3>2, <5>1, <5>2
      <4>5. colgados' \subseteq {"consola", "corto"}
        BY <1>1, <2>3, <3>2 DEF HilosTypeOK
      <4>6. QED
        BY <1>1, <4>2, <4>3, <4>4, <4>5 DEF HilosTypeOK, Hilos, PasosCorto, PasosQuantum
    <3>3. QED
      BY <3>1, <3>2
  <2>5. QED
    BY <1>1, <1>3, <2>1, <2>2, <2>4, TiposHilo
    DEF InterrupcionQuantum, CortoUnir, Punteros, Hilos, hilos, cpuVars
<1>4. QED
  BY <1>2, <1>3, TiposCortoSacar, TiposCortoEjecutar DEF CortoPlazo

LEMMA TiposQuantum ==
  ASSUME Tipos, vivo, Quantum
  PROVE  Tipos'
<1>1. CpuTypeOK /\ HilosTypeOK /\ TurnoTypeOK /\ Punteros
  BY DEF Tipos, TypeOK
<1>2. /\ SemTypeOK' /\ ListasTypeOK' /\ GestionTypeOK'
      /\ UNCHANGED <<turnoVars, ioVars, cpuInterna, vivo>>
  BY Marco DEF Quantum, QuantumCrear, QuantumVencer, Tipos, cpuVars
<1>3. CpuTypeOK'
  <2>1. CASE UNCHANGED <<aCpu, deCpu, canalInt, cpuInterna>>
    BY <2>1, Marco DEF Tipos, cpuVars
  <2>2. CASE QuantumVencer /\ ~UNCHANGED canalInt
    <3>1. /\ execute \in Pids /\ "QUANTUM" \in Interrupciones /\ UNCHANGED <<aCpu, deCpu, cpuInterna>>
          /\ canalInt' = Append(canalInt, [tipo |-> "QUANTUM", pid |-> execute])
      BY <1>1, <2>2 DEF QuantumVencer, TurnoTypeOK, Interrupciones
    <3>2. QED
      BY <1>1, <3>1, CanalTipo
  <2>3. QED
    BY <2>1, <2>2 DEF Quantum, QuantumCrear, QuantumVencer, cpuVars
<1>4. TurnoTypeOK'
  <2>1. local["quantum"] \in PidsONulo
    BY <1>1 DEF HilosTypeOK, Hilos
  <2>2. /\ datos' \in [estado : {"nulo", "vivo", "liberado"}, pid : PidsONulo]
        /\ enviada' \in BOOLEAN
    <3>1. CASE QuantumCrear
      BY <2>1, <3>1 DEF QuantumCrear
    <3>2. CASE QuantumVencer
      BY <1>1, <3>2 DEF QuantumVencer, TurnoTypeOK
    <3>3. QED
      BY <3>1, <3>2 DEF Quantum
  <2>3. UNCHANGED <<execute, mensaje, parcial, vivo>>
    BY DEF Quantum, QuantumCrear, QuantumVencer, turnoVars
  <2>4. QED
    BY <1>1, <2>2, <2>3 DEF TurnoTypeOK
<1>5. PICK s \in {"dormir", "fin"} :
        /\ pc' = [pc EXCEPT !["quantum"] = s]
        /\ UNCHANGED local \/ local' = [local EXCEPT !["quantum"] = Nulo]
        /\ colgados' \subseteq colgados
  BY DEF Quantum, QuantumCrear, QuantumVencer, Ir, Tener
<1>6. s \in PasosDe["quantum"] /\ "quantum" \in Hilos /\ colgados' \subseteq {"consola", "corto"}
  BY <1>1, <1>5 DEF PasosDe, PasosQuantum, Hilos, HilosTypeOK
<1>7. HilosTypeOK' /\ \A g \in Hilos \ {"quantum"} : pc'[g] = pc[g] /\ local'[g] = local[g]
  BY <1>1, <1>5, <1>6, HilosPaso
<1>8. QED
  BY <1>1, <1>2, <1>3, <1>4, <1>7, TiposHilo DEF Punteros, Hilos, turnoVars

(* update_pcb *)
LEMMA ActualizarTablaTipo ==
  ASSUME ListasTypeOK, HilosTypeOK, NEW p \in Pids, NEW e \in Estados, ActualizarTabla(p, e),
         UNCHANGED <<cola, listado>>
  PROVE  ListasTypeOK' /\ colgados' \subseteq {"consola", "corto"}
<1>1. colaExit' \in Seq(Salidas)
  BY ReemplazadoTipo DEF ListasTypeOK, ActualizarTabla
<1>2. tabla' \in [Pids -> Estados]
  BY DEF ListasTypeOK, ActualizarTabla
<1>3. QED
  BY <1>1, <1>2 DEF ListasTypeOK, HilosTypeOK, ActualizarTabla

(* The dispatch thread moves only itself, except to cancel the quantum; its  *)
(* message decides whether the step keeps Tipos.                            *)
LEMMA TiposPasoDespacho ==
  ASSUME Tipos, vivo, NEW s \in PasosDespacho, pc' = [pc EXCEPT !["despacho"] = s],
         UNCHANGED <<cpuVars, local, quantumVars, ioVars, gestionVars, execute>>, vivo' \in BOOLEAN,
         colgados' \subseteq {"consola", "corto"},
         SemTypeOK', ListasTypeOK',
         \/ UNCHANGED mensaje /\ mensaje \in Mensajes
         \/ mensaje' = SinMensaje /\ s = "recibir"
  PROVE  Tipos'
<1>1. HilosTypeOK /\ TurnoTypeOK /\ Punteros
  BY DEF Tipos, TypeOK
<1>2. CpuTypeOK' /\ GestionTypeOK'
  BY Marco DEF Tipos
<1>3. TurnoTypeOK'
  BY <1>1 DEF TurnoTypeOK, quantumVars
<1>4. s \in PasosDe["despacho"] /\ "despacho" \in Hilos
  BY DEF PasosDe, Hilos
<1>5. HilosTypeOK' /\ pc'["despacho"] = s /\ \A g \in Hilos \ {"despacho"} : pc'[g] = pc[g]
  BY <1>1, <1>4, HilosPaso
<1>6. QED
  BY <1>1, <1>2, <1>3, <1>5, TiposHilo DEF Punteros, Hilos, cpuVars

LEMMA TiposDespachoResto ==
  ASSUME Tipos, vivo,
         \/ ActualizarPcbQuantum \/ AgregarDeExecuteAReady \/ MostrarExecuteAReady \/ AgregarAExit
         \/ ActualizarPcbFinal \/ Bloquear
  PROVE  Tipos'
<1>1. SemTypeOK /\ ListasTypeOK /\ HilosTypeOK /\ TurnoTypeOK /\ Punteros
  BY DEF Tipos, TypeOK
<1>2. mensaje \in Mensajes
  BY <1>1 DEF ActualizarPcbQuantum, AgregarDeExecuteAReady, MostrarExecuteAReady, AgregarAExit,
              ActualizarPcbFinal, Bloquear, En, Punteros
<1>3. mensaje.pid \in Pids
  BY <1>2 DEF Mensajes
<1>4. CASE ActualizarPcbQuantum
  <2>1. ListasTypeOK' /\ colgados' \subseteq {"consola", "corto"}
    BY <1>1, <1>3, <1>4, ActualizarTablaTipo DEF ActualizarPcbQuantum, Estados
  <2>2. SemTypeOK' /\ "aReady" \in PasosDespacho
    BY <1>1, <1>4 DEF ActualizarPcbQuantum, SemTypeOK, PasosDespacho
  <2>3. QED
    BY <1>2, <1>4, <2>1, <2>2, TiposPasoDespacho DEF ActualizarPcbQuantum, Ir, turnoVars
<1>5. CASE Bloquear
  <2>1. ListasTypeOK' /\ colgados' \subseteq {"consola", "corto"}
    BY <1>1, <1>3, <1>5, ActualizarTablaTipo DEF Bloquear, Estados
  <2>2. SemTypeOK'
    BY <1>1, <1>5, NombresSem, SumarTipos DEF Bloquear, SemTypeOK, Esperar
  <2>3. "encolar" \in PasosDespacho
    BY DEF PasosDespacho
  <2>4. QED
    BY <1>2, <1>5, <2>1, <2>2, <2>3, TiposPasoDespacho DEF Bloquear, Ir, turnoVars
<1>6. CASE ActualizarPcbFinal
  <2>1. ListasTypeOK' /\ colgados' \subseteq {"consola", "corto"}
    BY <1>1, <1>3, <1>6, ActualizarTablaTipo DEF ActualizarPcbFinal, Estados
  <2>2. SemTypeOK'
    BY <1>1, <1>6, NombresSem, SumarTipos DEF ActualizarPcbFinal, SemTypeOK, Publicar
  <2>3. "recibir" \in PasosDespacho
    BY DEF PasosDespacho
  <2>4. QED
    BY <1>6, <2>1, <2>2, <2>3, TiposPasoDespacho DEF ActualizarPcbFinal, Terminar, Ir
<1>7. CASE AgregarAExit
  <2>1. ListasTypeOK' /\ colgados' \subseteq {"consola", "corto"}
    <3>1. [pid |-> mensaje.pid, objeto |-> "nuevo"] \in Salidas
      BY <1>3 DEF Salidas
    <3>2. colaExit' \in Seq(Salidas)
      BY <1>1, <1>7, <3>1, AppendProperties DEF AgregarAExit, ListasTypeOK
    <3>3. QED
      BY <1>1, <1>7, <3>2 DEF AgregarAExit, ListasTypeOK, HilosTypeOK
  <2>2. SemTypeOK'
    BY <1>1, <1>7, NombresSem, SumarTipos DEF AgregarAExit, SemTypeOK, Publicar
  <2>3. "actualizar" \in PasosDespacho
    BY DEF PasosDespacho
  <2>4. QED
    BY <1>2, <1>7, <2>1, <2>2, <2>3, TiposPasoDespacho DEF AgregarAExit, Ir, turnoVars
<1>8. CASE AgregarDeExecuteAReady
  <2>1. PICK c \in {"READY", "AUX_READY"} :
          cola' = [cola EXCEPT ![c] = Append(@, mensaje.pid)] /\ Listar("despacho", c)
    BY <1>8 DEF AgregarDeExecuteAReady, ColaReadyDe
  <2>2. ListasTypeOK' /\ colgados' \subseteq {"consola", "corto"}
    <3>1. Append(cola[c], mensaje.pid) \in Seq(Pids)
      BY <1>1, <1>3, AppendProperties DEF ListasTypeOK
    <3>2. cola' \in [{"NEW", "READY", "AUX_READY"} -> Seq(Pids)]
      BY <1>1, <2>1, <3>1 DEF ListasTypeOK
    <3>3. tabla' \in [Pids -> Estados]
      BY <1>1, <1>3, <1>8 DEF AgregarDeExecuteAReady, ListasTypeOK, Estados
    <3>4. listado' \in [Lectores -> Listados]
      BY <1>1, <2>1, LectoresHay, ListadoTipo DEF ListasTypeOK, TurnoTypeOK
    <3>5. QED
      BY <1>1, <1>8, <3>2, <3>3, <3>4 DEF AgregarDeExecuteAReady, ListasTypeOK, HilosTypeOK
  <2>3. SemTypeOK'
    BY <1>1, <1>8, NombresSem, SumarTipos DEF AgregarDeExecuteAReady, Esperar, SemTypeOK
  <2>4. "mostrar" \in PasosDespacho
    BY DEF PasosDespacho
  <2>5. vivo' \in BOOLEAN
    BY <1>1, <1>8 DEF AgregarDeExecuteAReady, TurnoTypeOK
  <2>6. QED
    BY <1>2, <1>8, <2>2, <2>3, <2>4, <2>5, TiposPasoDespacho DEF AgregarDeExecuteAReady, Ir, turnoVars
<1>9. CASE MostrarExecuteAReady
  <2>1. listado' \in [Lectores -> Listados] /\ vivo' \in BOOLEAN
    BY <1>1, <1>9, LectoresHay, ListadoTipo DEF MostrarExecuteAReady, ListasTypeOK, TurnoTypeOK
  <2>2. ListasTypeOK' /\ colgados' \subseteq {"consola", "corto"}
    BY <1>1, <1>9, <2>1 DEF MostrarExecuteAReady, ListasTypeOK, HilosTypeOK
  <2>3. SemTypeOK'
    BY <1>1, <1>9, NombresSem, SumarListado DEF MostrarExecuteAReady, SemTypeOK
  <2>4. "recibir" \in PasosDespacho
    BY DEF PasosDespacho
  <2>5. QED
    BY <1>9, <2>1, <2>2, <2>3, <2>4, TiposPasoDespacho DEF MostrarExecuteAReady, Terminar, Ir
<1>10. QED
  BY <1>4, <1>5, <1>6, <1>7, <1>8, <1>9

(* cancelar_quantum_si_corresponde moves the quantum thread too. *)
LEMMA TiposCancelar ==
  ASSUME Tipos, vivo, Cancelar
  PROVE  Tipos'
<1>1. CpuTypeOK /\ HilosTypeOK /\ TurnoTypeOK /\ Punteros
  BY DEF Tipos, TypeOK
<1>2. SemTypeOK' /\ ListasTypeOK' /\ GestionTypeOK' /\ CpuTypeOK'
  BY Marco DEF Tipos, Cancelar
<1>3. mensaje \in Mensajes /\ mensaje.pid \in Pids
  BY <1>1 DEF Cancelar, En, Punteros, Mensajes
<1>4. PICK s \in {"exit", "bloquear"} : CancelarQuantum(mensaje.pid, s)
  BY DEF Cancelar
<1>5. TurnoTypeOK'
  <2>1. parcial' \subseteq Pids
    BY <1>1, <1>3 DEF Cancelar, ActualizarQuantum, TurnoTypeOK
  <2>2. vivo' \in BOOLEAN
    BY <1>1, <1>4 DEF CancelarQuantum, TurnoTypeOK, Caer
  <2>3. datos' \in [estado : {"nulo", "vivo", "liberado"}, pid : PidsONulo]
    <3>1. datos' \in {datos, [estado |-> "liberado", pid |-> Nulo]}
      BY <1>4 DEF CancelarQuantum
    <3>2. QED
      BY <1>1, <3>1 DEF TurnoTypeOK
  <2>4. QED
    BY <1>1, <2>1, <2>2, <2>3 DEF Cancelar, TurnoTypeOK, turnoVars
<1>6. \/ pc' = [pc EXCEPT !["despacho"] = s]
      \/ \E q \in PasosQuantum : pc' = [pc EXCEPT !["despacho"] = s, !["quantum"] = q]
  <2>1. pc["quantum"] \in PasosQuantum /\ "fin" \in PasosQuantum
    BY <1>1 DEF HilosTypeOK, PasosQuantum
  <2>2. QED
    BY <1>1, <1>4, <2>1 DEF CancelarQuantum, Ir
<1>7. /\ pc' \in [Hilos -> Pasos] /\ pc'["despacho"] = s /\ pc'["quantum"] \in PasosQuantum
      /\ \A g \in Hilos \ {"despacho", "quantum"} : pc'[g] = pc[g]
  <2>1. s \in PasosDespacho
    BY DEF PasosDespacho
  <2>2. CASE pc' = [pc EXCEPT !["despacho"] = s]
    BY <1>1, <2>1, <2>2 DEF HilosTypeOK, Hilos, Pasos
  <2>3. ASSUME NEW q \in PasosQuantum, pc' = [pc EXCEPT !["despacho"] = s, !["quantum"] = q]
        PROVE  /\ pc' \in [Hilos -> Pasos] /\ pc'["despacho"] = s /\ pc'["quantum"] \in PasosQuantum
               /\ \A g \in Hilos \ {"despacho", "quantum"} : pc'[g] = pc[g]
    BY <1>1, <2>1, <2>3 DEF HilosTypeOK, Hilos, Pasos
  <2>4. QED
    BY <1>6, <2>2, <2>3
<1>8. HilosTypeOK'
  BY <1>1, <1>7 DEF Cancelar, HilosTypeOK, Hilos, PasosDespacho
<1>9. QED
  BY <1>1, <1>2, <1>3, <1>5, <1>7, <1>8, TiposHilo DEF Cancelar, Punteros, Hilos, cpuVars, turnoVars

LEMMA TiposRecibir ==
  ASSUME Tipos, vivo, RecibirPcbOSolicitud \/ RecibirInterrumpido
  PROVE  Tipos'
<1>1. CpuTypeOK /\ HilosTypeOK /\ TurnoTypeOK /\ Punteros
  BY DEF Tipos, TypeOK
<1>2. SemTypeOK' /\ ListasTypeOK' /\ GestionTypeOK'
  BY Marco DEF Tipos, RecibirPcbOSolicitud, RecibirInterrumpido
<1>3. /\ deCpu # <<>> /\ deCpu' = Tail(deCpu) /\ mensaje' = Head(deCpu) /\ execute' = Nulo
      /\ UNCHANGED <<aCpu, canalInt, cpuInterna, local, colgados, ioVars, enviada, datos, vivo>>
  BY DEF RecibirPcbOSolicitud, RecibirInterrumpido, RecibirDe, ExecuteToNull, quantumVars
<1>4. Head(deCpu) \in Mensajes /\ Tail(deCpu) \in Seq(Mensajes)
  BY <1>1, <1>3, HeadTailProperties DEF CpuTypeOK
<1>5. Head(deCpu).pid \in Pids
  BY <1>4 DEF Mensajes
<1>6. CpuTypeOK'
  BY <1>1, <1>3, <1>4 DEF CpuTypeOK, cpuInterna
<1>7. TurnoTypeOK'
  <2>1. parcial' \subseteq Pids
    BY <1>1, <1>5 DEF RecibirPcbOSolicitud, RecibirInterrumpido, ActualizarQuantum, TurnoTypeOK,
                      quantumVars
  <2>2. QED
    BY <1>1, <1>3, <1>4, <2>1 DEF TurnoTypeOK
<1>8. PICK s \in {"cancelar", "interrumpido"} : pc' = [pc EXCEPT !["despacho"] = s]
  BY DEF RecibirPcbOSolicitud, RecibirInterrumpido, Ir
<1>9. s \in PasosDe["despacho"] /\ "despacho" \in Hilos /\ colgados' \subseteq {"consola", "corto"}
  BY <1>1, <1>3 DEF PasosDe, PasosDespacho, Hilos, HilosTypeOK
<1>10. HilosTypeOK' /\ \A g \in Hilos \ {"despacho"} : pc'[g] = pc[g]
  BY <1>1, <1>3, <1>8, <1>9, HilosPaso
<1>11. QED
  BY <1>1, <1>2, <1>3, <1>4, <1>6, <1>7, <1>10, TiposHilo DEF Punteros, Hilos

(* The fields of the interfaces and the turn of the CPU do not meet. *)
LEMMA TiposAgregarProcesoBloqueado ==
  ASSUME Tipos, vivo, AgregarProcesoBloqueado
  PROVE  Tipos'
<1>1. SemTypeOK /\ HilosTypeOK /\ TurnoTypeOK /\ IoTypeOK /\ Punteros
  BY DEF Tipos, TypeOK
<1>2. CpuTypeOK' /\ ListasTypeOK' /\ GestionTypeOK'
  BY Marco DEF Tipos, AgregarProcesoBloqueado
<1>3. mensaje.pid \in Pids
  BY <1>1 DEF AgregarProcesoBloqueado, En, Punteros, Mensajes
<1>4. SemTypeOK'
  BY <1>1, NombresSem, SumarTipos DEF AgregarProcesoBloqueado, SemTypeOK
<1>5. TurnoTypeOK'
  BY <1>1 DEF AgregarProcesoBloqueado, TurnoTypeOK, Terminar, quantumVars
<1>6. IoTypeOK'
  <2>1. \A i \in Interfaces : Append(ioCola[i], mensaje.pid) \in Seq(Pids)
    BY <1>1, <1>3, AppendProperties DEF IoTypeOK
  <2>2. ioCola' \in [Interfaces -> Seq(Pids)]
    BY <1>1, <2>1 DEF AgregarProcesoBloqueado, IoTypeOK
  <2>3. ioSem' \in [Interfaces -> Nat]
    <3>1. \A i \in Interfaces : ioSem[i] + 1 \in Nat
      BY <1>1 DEF IoTypeOK
    <3>2. QED
      BY <1>1, <3>1 DEF AgregarProcesoBloqueado, IoTypeOK
  <2>4. QED
    BY <1>1, <2>2, <2>3 DEF AgregarProcesoBloqueado, IoTypeOK
<1>7. HilosTypeOK' /\ pc'["despacho"] = "recibir" /\ \A g \in Hilos \ {"despacho"} : pc'[g] = pc[g]
  <2>1. /\ pc' = [pc EXCEPT !["despacho"] = "recibir"] /\ UNCHANGED local
        /\ colgados' \subseteq {"consola", "corto"}
    BY <1>1 DEF AgregarProcesoBloqueado, Terminar, Ir, HilosTypeOK
  <2>2. "recibir" \in PasosDe["despacho"] /\ "despacho" \in Hilos
    BY DEF PasosDe, PasosDespacho, Hilos
  <2>3. QED
    BY <1>1, <2>1, <2>2, HilosPaso
<1>8. Punteros'
  BY <1>1, <1>7 DEF AgregarProcesoBloqueado, Punteros, Hilos, cpuVars, cpuInterna
<1>9. QED
  BY <1>2, <1>4, <1>5, <1>6, <1>7, <1>8 DEF Tipos, TypeOK

LEMMA TiposIO ==
  ASSUME Tipos, vivo, NEW i \in Interfaces, HiloIO(i)
  PROVE  Tipos'
<1>1. SemTypeOK /\ ListasTypeOK /\ IoTypeOK /\ TurnoTypeOK /\ Punteros
  BY DEF Tipos, TypeOK
<1>2. /\ CpuTypeOK' /\ HilosTypeOK' /\ GestionTypeOK'
      /\ UNCHANGED <<cpuVars, hilos, turnoVars, quantumVars>>
  BY Marco DEF Tipos, HiloIO, IoEsperar, IoObtener, IoResponder, AgregarDeBlockedAReady,
               MostrarBlockedAReady
<1>3. TurnoTypeOK'
  <2>1. vivo' \in BOOLEAN
    BY <1>1 DEF TurnoTypeOK, HiloIO, IoEsperar, IoObtener, IoResponder, AgregarDeBlockedAReady,
                MostrarBlockedAReady, TerminarListado, Caer
  <2>2. QED
    BY <1>1, <1>2, <2>1 DEF TurnoTypeOK, turnoVars, quantumVars
<1>4. CASE IoEsperar(i) \/ IoObtener(i) \/ IoResponder(i)
  <2>1. SemTypeOK' /\ ListasTypeOK'
    BY <1>4, Marco DEF Tipos, IoEsperar, IoObtener, IoResponder
  <2>2. IoTypeOK' /\ \A j \in Interfaces : ioPc'[j] \in {"servicio", "agregar"} => ioPid'[j] \in Pids
    <3>1. CASE IoEsperar(i)
      <4>1. ioSem' \in [Interfaces -> Nat]
        BY <1>1, <3>1, SumarTipos DEF IoEsperar, IoTypeOK
      <4>2. QED
        BY <1>1, <3>1, <4>1 DEF IoEsperar, IrIO, IoTypeOK, Punteros
    <3>2. CASE IoObtener(i) /\ ioCola[i] = <<>>
      BY <1>1, <3>2 DEF IoObtener, IoTypeOK, Punteros
    <3>3. CASE IoObtener(i) /\ ioCola[i] # <<>>
      <4>1. Head(ioCola[i]) \in Pids /\ ListRemove(ioCola[i]) \in Seq(Pids)
        BY <1>1, <3>3, ListRemoveTipo DEF IoTypeOK
      <4>2. QED
        BY <1>1, <3>3, <4>1 DEF IoObtener, IrIO, IoTypeOK, Punteros
    <3>4. CASE IoResponder(i)
      BY <1>1, <3>4 DEF IoResponder, IrIO, IoTypeOK, Punteros
    <3>5. QED
      BY <1>4, <3>1, <3>2, <3>3, <3>4
  <2>3. Punteros'
    BY <1>1, <1>2, <1>4, <2>2 DEF IoEsperar, IoObtener, IoResponder, Punteros, cpuVars, cpuInterna,
                                  hilos, turnoVars
  <2>4. QED
    BY <1>2, <1>3, <2>1, <2>2, <2>3 DEF Tipos, TypeOK
<1>5. CASE AgregarDeBlockedAReady(i)
  <2>1. ioPid[i] \in Pids
    BY <1>1, <1>5 DEF AgregarDeBlockedAReady, Punteros
  <2>2. PICK c \in {"READY", "AUX_READY"} :
          cola' = [cola EXCEPT ![c] = Append(@, ioPid[i])] /\ Listar(i, c)
    BY <1>5 DEF AgregarDeBlockedAReady, ColaReadyDe
  <2>3. SemTypeOK'
    BY <1>1, <1>5, NombresSem, SumarTipos DEF AgregarDeBlockedAReady, SemTypeOK, Esperar
  <2>4. ListasTypeOK'
    <3>1. Append(cola[c], ioPid[i]) \in Seq(Pids)
      BY <1>1, <2>1, AppendProperties DEF ListasTypeOK
    <3>2. cola' \in [{"NEW", "READY", "AUX_READY"} -> Seq(Pids)]
      BY <1>1, <2>2, <3>1 DEF ListasTypeOK
    <3>3. listado' \in [Lectores -> Listados]
      BY <1>1, <2>2, LectoresHay, ListadoTipo DEF ListasTypeOK, TurnoTypeOK
    <3>4. QED
      BY <1>1, <1>5, <2>1, <3>2, <3>3 DEF AgregarDeBlockedAReady, ListasTypeOK, Estados
  <2>5. IoTypeOK' /\ \A j \in Interfaces : ioPc'[j] \in {"servicio", "agregar"} => ioPid'[j] \in Pids
    BY <1>1, <1>5 DEF AgregarDeBlockedAReady, IrIO, IoTypeOK, Punteros
  <2>6. Punteros'
    BY <1>1, <1>2, <1>5, <2>5 DEF AgregarDeBlockedAReady, Punteros, cpuVars, cpuInterna, hilos, turnoVars
  <2>7. QED
    BY <1>2, <1>3, <2>3, <2>4, <2>5, <2>6 DEF Tipos, TypeOK
<1>6. CASE MostrarBlockedAReady(i)
  <2>1. SemTypeOK'
    BY <1>1, <1>6, NombresSem, SumarListado DEF MostrarBlockedAReady, SemTypeOK
  <2>2. ListasTypeOK'
    <3>1. listado' \in [Lectores -> Listados]
      BY <1>1, <1>6, LectoresHay, ListadoTipo DEF MostrarBlockedAReady, ListasTypeOK, TurnoTypeOK
    <3>2. QED
      BY <1>1, <1>6, <3>1 DEF MostrarBlockedAReady, ListasTypeOK
  <2>3. IoTypeOK' /\ \A j \in Interfaces : ioPc'[j] \in {"servicio", "agregar"} => ioPid'[j] \in Pids
    BY <1>1, <1>6 DEF MostrarBlockedAReady, IrIO, IoTypeOK, Punteros
  <2>4. Punteros'
    BY <1>1, <1>2, <1>6, <2>3 DEF MostrarBlockedAReady, Punteros, cpuVars, cpuInterna, hilos, turnoVars
  <2>5. QED
    BY <1>2, <1>3, <2>1, <2>2, <2>3, <2>4 DEF Tipos, TypeOK
<1>7. QED
  BY <1>4, <1>5, <1>6 DEF HiloIO

LEMMA TiposPaso == Tipos /\ [Next]_vars => Tipos'
<1> SUFFICES ASSUME Tipos, [Next]_vars PROVE Tipos'
  OBVIOUS
<1>1. CASE UNCHANGED vars
  BY <1>1, Marco DEF Tipos, TypeOK, Punteros, vars, kernelVars, cpuVars, cpuInterna, hilos, turnoVars,
                     ioVars
<1>2. CASE vivo /\ Cpu
  BY <1>2, TiposCpu DEF Cpu
<1>3. CASE vivo /\ Kernel
  <2>1. CASE Consola
    BY <1>3, <2>1, TiposConsola, TiposDetener, TiposCambio, TiposFinalizarBuscar, TiposFinalizar
    DEF Consola
  <2>2. CASE \E k \in Cambios : Cambio(k)
    BY <2>2, TiposCambio
  <2>3. CASE \E s \in SemPlanes : DetenerCola(s)
    BY <2>3, TiposDetener
  <2>4. CASE LargoPlazo \/ EndProcess
    BY <1>3, <2>4, TiposLargo, TiposEndProcess
  <2>5. CASE CortoPlazo \/ Quantum
    BY <1>3, <2>5, TiposCorto, TiposQuantum
  <2>6. CASE Despacho
    BY <1>3, <2>6, TiposRecibir, TiposCancelar, TiposDespachoResto, TiposAgregarProcesoBloqueado DEF Despacho
  <2>7. CASE \E i \in Interfaces : HiloIO(i)
    BY <1>3, <2>7, TiposIO
  <2>8. QED
    BY <1>3, <2>1, <2>2, <2>3, <2>4, <2>5, <2>6, <2>7 DEF Kernel
<1>4. QED
  BY <1>1, <1>2, <1>3 DEF Next

(* Whatever the interleaving, every variable keeps its type: no semaphore   *)
(* goes below zero, no list holds a NULL and no thread leaves its own steps. *)
THEOREM TiposCorrectos == Spec => []TypeOK
<1>1. Tipos => TypeOK
  BY DEF Tipos
<1>2. QED
  BY <1>1, TiposInicial, TiposPaso, PTL DEF Spec

-----------------------------------------------------------------------------
(* SEM_CPU and EXECUTE.                                                     *)

Elegido == pc["corto"] \in {"ready", "aux", "ejecutar"}
Atendiendo == pc["despacho"] # "recibir"

(* The inductive invariant: either no PCB is between pcb_execute and the    *)
(* dispatch server, and one of SEM_CPU, the planner and the dispatch server *)
(* has the turn; or EXECUTE is on its way to the CPU, in it, or on its way  *)
(* back, and nobody else has anything.                                      *)
Turno ==
  \/ /\ aCpu = <<>> /\ deCpu = <<>> /\ ~pedida /\ execute = Nulo
     /\ \/ sem["CPU"] = 1 /\ ~Elegido /\ ~Atendiendo
        \/ sem["CPU"] = 0 /\ Elegido /\ ~Atendiendo
        \/ sem["CPU"] = 0 /\ ~Elegido /\ Atendiendo
  \/ /\ sem["CPU"] = 0 /\ ~Elegido /\ ~Atendiendo /\ execute \in Pids
     /\ \/ aCpu = <<execute>> /\ deCpu = <<>> /\ ~pedida
        \/ aCpu = <<>> /\ deCpu = <<>> /\ pedida /\ pcbExecute = execute
        \/ aCpu = <<>> /\ ~pedida /\ Len(deCpu) = 1 /\ deCpu[1].pid = execute

LEMMA TurnoInicial == Init => Turno
  BY DEF Init, CpuInit, KernelInit, Turno, Elegido, Atendiendo, Semaforos, SemPlanes

LEMMA TurnoMarco ==
  ASSUME Turno, UNCHANGED <<aCpu, deCpu, pedida, pcbExecute, execute>>,
         sem'["CPU"] = sem["CPU"], Elegido' = Elegido, Atendiendo' = Atendiendo
  PROVE  Turno'
  BY DEF Turno

LEMMA TurnoCpu ==
  ASSUME Tipos, Turno, CpuNext, UNCHANGED kernelVars
  PROVE  Turno'
<1>1. CpuTypeOK /\ UNCHANGED <<sem, execute, pc>>
  BY DEF Tipos, TypeOK, kernelVars, turnoVars, hilos
<1>2. Elegido' = Elegido /\ Atendiendo' = Atendiendo
  BY <1>1 DEF Elegido, Atendiendo
<1>3. CASE RecibirPcb
  <2>1. aCpu = <<execute>>
    BY <1>3 DEF RecibirPcb, Turno
  <2>2. Head(aCpu) = execute /\ Tail(aCpu) = <<>>
    BY <2>1
  <2>3. QED
    BY <1>1, <1>2, <1>3, <2>1, <2>2 DEF RecibirPcb, Turno
<1>4. CASE RecibirInterrupcion \/ AnotarInterrupcion \/ DesestimarInterrupcion
  BY <1>1, <1>2, <1>4, TurnoMarco DEF RecibirInterrupcion, AnotarInterrupcion, DesestimarInterrupcion
<1>5. ASSUME NEW m, NEW i, PuedeEjecutar, Devolver(m, i), UNCHANGED <<aCpu, pcbExecute>>
      PROVE  Turno'
  <2>1. pedida /\ deCpu = <<>> /\ aCpu = <<>> /\ pcbExecute = execute
    BY <1>5 DEF PuedeEjecutar, Turno
  <2>2. deCpu' = <<[motivo |-> m, pid |-> execute, interfaz |-> i]>> /\ ~pedida'
    BY <1>5, <2>1 DEF Devolver
  <2>3. Len(deCpu') = 1 /\ deCpu'[1].pid = execute
    BY <2>2
  <2>4. QED
    BY <1>1, <1>2, <1>5, <2>1, <2>2, <2>3 DEF Turno
<1>6. CASE AtenderInterrupcion
  BY <1>5, <1>6 DEF AtenderInterrupcion
<1>7. CASE \E i \in NombresIO : SolicitarIO(i)
  BY <1>5, <1>7 DEF SolicitarIO
<1>8. CASE EnviarPcbFinalizado \/ InformarKernelError
  BY <1>5, <1>8 DEF EnviarPcbFinalizado, InformarKernelError
<1>9. QED
  BY <1>3, <1>4, <1>6, <1>7, <1>8 DEF CpuNext

LEMMA TurnoConsola ==
  ASSUME Tipos, Turno, Consola \/ (\E s \in SemPlanes : DetenerCola(s)) \/ \E k \in Cambios : Cambio(k)
  PROVE  Turno'
<1>1. SemTypeOK /\ HilosTypeOK /\ SemPlanes \subseteq Semaforos /\ "CPU" \in Semaforos \ SemPlanes
  BY DEF Tipos, TypeOK, Semaforos, SemPlanes
<1>2. UNCHANGED <<aCpu, deCpu, pedida, pcbExecute, execute>>
  BY DEF Consola, IniciarProceso, ConsolaTrabada, DetenerPlanificacion, IniciarPlanificacion,
         CambiarGrado, FinalizarBuscar, FinalizarVerificar, FinalizarComparar, FinalizarEliminar,
         FinalizarEncolar, DetenerCola, Cambio, CambioTomar, CambioAjustar, CambioTerminar,
         cpuVars, cpuInterna, turnoVars
<1>3. sem'["CPU"] = sem["CPU"]
  <2>1. ASSUME NEW s \in Semaforos, s # "CPU", Esperar(s) \/ Publicar(s)
        PROVE  sem'["CPU"] = sem["CPU"]
    BY <1>1, <2>1 DEF Esperar, Publicar, SemTypeOK
  <2>2. CASE Consola
    BY <1>1, <2>1, <2>2, NombresSem
    DEF Consola, IniciarProceso, ConsolaTrabada, DetenerPlanificacion, IniciarPlanificacion,
        CambiarGrado, FinalizarBuscar, FinalizarVerificar, FinalizarComparar, FinalizarEliminar,
        FinalizarEncolar, SemTypeOK
  <2>3. CASE \E s \in SemPlanes : DetenerCola(s)
    BY <1>1, <2>1, <2>3 DEF DetenerCola
  <2>4. CASE \E k \in Cambios : Cambio(k)
    BY <2>1, <2>4, NombresSem DEF Cambio, CambioTomar, CambioAjustar, CambioTerminar
  <2>5. QED
    BY <2>2, <2>3, <2>4
<1>4. Elegido' = Elegido /\ Atendiendo' = Atendiendo
  <2>1. UNCHANGED pc \/ \E s : pc' = [pc EXCEPT !["consola"] = s]
    BY DEF Consola, IniciarProceso, ConsolaTrabada, DetenerPlanificacion, IniciarPlanificacion,
         CambiarGrado, FinalizarBuscar, FinalizarVerificar, FinalizarComparar, FinalizarEliminar,
         FinalizarEncolar, DetenerCola, Cambio, CambioTomar, CambioAjustar, CambioTerminar,
         Ir, hilos
  <2>2. QED
    BY <1>1, <2>1 DEF Elegido, Atendiendo, HilosTypeOK, Hilos
<1>5. QED
  BY <1>2, <1>3, <1>4, TurnoMarco

LEMMA TurnoLargo ==
  ASSUME Tipos, Turno, LargoPlazo \/ EndProcess
  PROVE  Turno'
<1>1. SemTypeOK /\ HilosTypeOK /\ "CPU" \in Semaforos
  BY NombresSem DEF Tipos, TypeOK
<1>2. UNCHANGED <<aCpu, deCpu, pedida, pcbExecute, execute>>
  BY DEF LargoPlazo, LargoEsperar, LargoOrden, LargoMulti, LargoSacar, LargoAgregar, LargoMostrar,
         EndProcess,
         cpuVars, cpuInterna, turnoVars
<1>3. sem'["CPU"] = sem["CPU"]
  BY <1>1 DEF LargoPlazo, LargoEsperar, LargoOrden, LargoMulti, LargoSacar, LargoAgregar, LargoMostrar,
              EndProcess, Esperar, SemTypeOK
<1>4. Elegido' = Elegido /\ Atendiendo' = Atendiendo
  <2>1. UNCHANGED pc \/ \E s : pc' = [pc EXCEPT !["largo"] = s]
    BY DEF LargoPlazo, LargoEsperar, LargoOrden, LargoMulti, LargoSacar, LargoAgregar, LargoMostrar,
           EndProcess, Ir, hilos
  <2>2. QED
    BY <1>1, <2>1 DEF Elegido, Atendiendo, HilosTypeOK, Hilos
<1>5. QED
  BY <1>2, <1>3, <1>4, TurnoMarco

LEMMA TurnoCorto ==
  ASSUME Tipos, Turno, vivo, CortoPlazo \/ Quantum
  PROVE  Turno'
<1>1. SemTypeOK /\ HilosTypeOK /\ "CPU" \in Semaforos
  BY NombresSem DEF Tipos, TypeOK
<1>2. CASE CortoElegir \/ InterrupcionQuantum \/ CortoUnir \/ Quantum
  <2>1. UNCHANGED <<aCpu, deCpu, pedida, pcbExecute, execute, sem>>
    BY <1>2 DEF CortoElegir, InterrupcionQuantum, CortoUnir, Quantum, QuantumCrear, QuantumVencer,
                cpuVars, cpuInterna, turnoVars
  <2>2. /\ pc'["despacho"] = pc["despacho"]
        /\ \/ pc'["corto"] = pc["corto"]
           \/ /\ pc["corto"] \in {"elegir", "quantum", "unir"}
              /\ pc'["corto"] \in {"elegir", "cpu", "cpuAux", "unir"}
    BY <1>1, <1>2 DEF CortoElegir, InterrupcionQuantum, CortoUnir, Quantum, QuantumCrear,
                      QuantumVencer, En, Ir, HilosTypeOK, Hilos, hilos
  <2>3. Elegido' = Elegido /\ Atendiendo' = Atendiendo
    BY <2>2 DEF Elegido, Atendiendo
  <2>4. QED
    BY <2>1, <2>3, TurnoMarco
<1>3. CASE CortoCpu
  <2>1. UNCHANGED <<aCpu, deCpu, pedida, pcbExecute, execute>>
    BY <1>3 DEF CortoCpu, cpuVars, cpuInterna, turnoVars
  <2>2. sem["CPU"] > 0 /\ sem'["CPU"] = sem["CPU"] - 1
    BY <1>1, <1>3 DEF CortoCpu, Esperar, SemTypeOK
  <2>3. Elegido' /\ Atendiendo' = Atendiendo
    BY <1>1, <1>3 DEF CortoCpu, Ir, Elegido, Atendiendo, HilosTypeOK, Hilos
  <2>4. QED
    BY <2>1, <2>2, <2>3 DEF Turno
<1>4. ASSUME NEW paso \in {"ready", "aux"}, NEW c \in {"READY", "AUX_READY"}, CortoSacar(paso, c)
      PROVE  Turno'
  <2>1. UNCHANGED <<aCpu, deCpu, pedida, pcbExecute, execute>>
    BY <1>4 DEF CortoSacar, cpuVars, cpuInterna, turnoVars
  <2>2. sem'["CPU"] = sem["CPU"]
    BY <1>1, <1>4 DEF CortoSacar, Esperar, SemTypeOK
  <2>3. Elegido' = Elegido /\ Atendiendo' = Atendiendo
    BY <1>1, <1>4 DEF CortoSacar, En, Ir, Elegido, Atendiendo, HilosTypeOK, Hilos
  <2>4. QED
    BY <2>1, <2>2, <2>3, TurnoMarco
<1>5. CASE CortoEjecutar
  <2>1. aCpu = <<>> /\ deCpu = <<>> /\ ~pedida /\ sem["CPU"] = 0 /\ ~Atendiendo
    BY <1>5 DEF CortoEjecutar, En, Turno, Elegido
  <2>2. execute' \in Pids /\ aCpu' = <<execute'>>
    BY <1>5, <2>1 DEF CortoEjecutar, En, Tipos, Punteros
  <2>3. UNCHANGED <<deCpu, pedida, pcbExecute, sem>>
    BY <1>5 DEF CortoEjecutar, cpuInterna
  <2>4. ~Elegido' /\ Atendiendo' = Atendiendo
    BY <1>1, <1>5 DEF CortoEjecutar, Ir, Elegido, Atendiendo, HilosTypeOK, Hilos
  <2>5. QED
    BY <2>1, <2>2, <2>3, <2>4 DEF Turno
<1>6. QED
  BY <1>2, <1>3, <1>4, <1>5 DEF CortoPlazo

LEMMA TurnoDespacho ==
  ASSUME Tipos, Turno, Despacho
  PROVE  Turno'
<1>1. SemTypeOK /\ HilosTypeOK /\ CpuTypeOK /\ "CPU" \in Semaforos
  BY NombresSem DEF Tipos, TypeOK
<1>2. ASSUME RecibirPcbOSolicitud \/ RecibirInterrumpido
      PROVE  Turno'
  <2>1. /\ deCpu # <<>> /\ deCpu' = Tail(deCpu) /\ execute' = Nulo
        /\ UNCHANGED <<aCpu, pedida, pcbExecute, sem>>
    BY <1>2 DEF RecibirPcbOSolicitud, RecibirInterrumpido, RecibirDe, ExecuteToNull, cpuInterna
  <2>2. Len(deCpu) = 1 /\ aCpu = <<>> /\ ~pedida /\ sem["CPU"] = 0 /\ ~Elegido /\ ~Atendiendo
    BY <2>1 DEF Turno
  <2>3. deCpu' = <<>>
    <3>1. Tail(deCpu) \in Seq(Mensajes) /\ Len(Tail(deCpu)) = 0
      BY <1>1, <2>1, <2>2, HeadTailProperties DEF CpuTypeOK
    <3>2. QED
      BY <2>1, <3>1, EmptySeq
  <2>4. \E s \in {"cancelar", "interrumpido"} : pc' = [pc EXCEPT !["despacho"] = s]
    BY <1>2 DEF RecibirPcbOSolicitud, RecibirInterrumpido, Ir
  <2>5. Elegido' = Elegido /\ Atendiendo'
    BY <1>1, <2>4 DEF Elegido, Atendiendo, HilosTypeOK, Hilos
  <2>6. QED
    BY <2>1, <2>2, <2>3, <2>5 DEF Turno
<1>3. ASSUME ActualizarPcbQuantum \/ AgregarAExit \/ Bloquear \/ AgregarDeExecuteAReady
      PROVE  Turno'
  <2>1. UNCHANGED <<aCpu, deCpu, pedida, pcbExecute, execute>>
    BY <1>3 DEF ActualizarPcbQuantum, AgregarAExit, Bloquear, AgregarDeExecuteAReady, cpuVars,
                cpuInterna, turnoVars
  <2>2. sem'["CPU"] = sem["CPU"]
    BY <1>1, <1>3 DEF ActualizarPcbQuantum, AgregarAExit, Bloquear, AgregarDeExecuteAReady, Esperar,
                      Publicar, SemTypeOK
  <2>3. Elegido' = Elegido /\ Atendiendo' = Atendiendo
    BY <1>1, <1>3 DEF ActualizarPcbQuantum, AgregarAExit, Bloquear, AgregarDeExecuteAReady, En, Ir,
                      Elegido, Atendiendo, HilosTypeOK, Hilos
  <2>4. QED
    BY <2>1, <2>2, <2>3, TurnoMarco
<1>4. CASE Cancelar
  <2>1. UNCHANGED <<aCpu, deCpu, pedida, pcbExecute, execute, sem>>
    BY <1>4 DEF Cancelar, cpuVars, cpuInterna, turnoVars
  <2>2. \E s \in {"exit", "bloquear"} :
          \/ pc' = [pc EXCEPT !["despacho"] = s]
          \/ \E q : pc' = [pc EXCEPT !["despacho"] = s, !["quantum"] = q]
    BY <1>4 DEF Cancelar, CancelarQuantum, Ir
  <2>3. Elegido' = Elegido /\ Atendiendo' = Atendiendo
    BY <1>1, <1>4, <2>2 DEF Cancelar, En, Elegido, Atendiendo, HilosTypeOK, Hilos
  <2>4. QED
    BY <2>1, <2>3, TurnoMarco
<1>5. ASSUME MostrarExecuteAReady \/ ActualizarPcbFinal \/ AgregarProcesoBloqueado
      PROVE  Turno'
  <2>1. UNCHANGED <<aCpu, deCpu, pedida, pcbExecute, execute>>
    BY <1>5 DEF MostrarExecuteAReady, ActualizarPcbFinal, AgregarProcesoBloqueado, cpuVars, cpuInterna
  <2>2. sem'["CPU"] = sem["CPU"] + 1
    <3>1. listado["despacho"].lista # "CPU"
      BY ListaLeida, LectoresHay
    <3>2. QED
      BY <1>1, <1>5, <3>1 DEF MostrarExecuteAReady, ActualizarPcbFinal, AgregarProcesoBloqueado,
                              Publicar, SemTypeOK
  <2>3. Elegido' = Elegido /\ Atendiendo /\ ~Atendiendo'
    BY <1>1, <1>5 DEF MostrarExecuteAReady, ActualizarPcbFinal, AgregarProcesoBloqueado, Terminar,
                      En, Ir, Elegido, Atendiendo, HilosTypeOK, Hilos
  <2>4. QED
    BY <2>1, <2>2, <2>3 DEF Turno
<1>6. QED
  BY <1>2, <1>3, <1>4, <1>5 DEF Despacho

LEMMA TurnoIO ==
  ASSUME Tipos, Turno, NEW i \in Interfaces, HiloIO(i)
  PROVE  Turno'
<1>1. SemTypeOK /\ "CPU" \in Semaforos
  BY NombresSem DEF Tipos, TypeOK
<1>2. UNCHANGED <<aCpu, deCpu, pedida, pcbExecute, execute, pc>>
  BY DEF HiloIO, IoEsperar, IoObtener, IoResponder, AgregarDeBlockedAReady, MostrarBlockedAReady,
         cpuVars, cpuInterna, turnoVars, hilos
<1>3. sem'["CPU"] = sem["CPU"]
  <2>1. listado[i].lista # "CPU"
    BY ListaLeida, LectoresHay
  <2>2. QED
    BY <1>1, <2>1 DEF HiloIO, IoEsperar, IoObtener, IoResponder, AgregarDeBlockedAReady,
                      MostrarBlockedAReady, Esperar, SemTypeOK
<1>4. QED
  BY <1>2, <1>3, TurnoMarco DEF Elegido, Atendiendo

LEMMA TurnoPaso == Tipos /\ Turno /\ [Next]_vars => Turno'
<1> SUFFICES ASSUME Tipos, Turno, [Next]_vars PROVE Turno'
  OBVIOUS
<1>1. CASE UNCHANGED vars
  BY <1>1, TurnoMarco DEF vars, kernelVars, cpuVars, cpuInterna, hilos, turnoVars, Elegido, Atendiendo
<1>2. CASE vivo /\ Cpu
  BY <1>2, TurnoCpu DEF Cpu
<1>3. CASE vivo /\ Kernel
  BY <1>3, TurnoConsola, TurnoLargo, TurnoCorto, TurnoDespacho, TurnoIO DEF Kernel
<1>4. QED
  BY <1>1, <1>2, <1>3 DEF Next

LEMMA TurnoSiempre == Spec => [](Tipos /\ Turno)
  BY TiposInicial, TiposPaso, TurnoInicial, TurnoPaso, PTL DEF Spec

-----------------------------------------------------------------------------
(* Between pcb_execute and the sem_post of SEM_CPU there is at most one     *)
(* process, with any algorithm and whatever FINALIZAR_PROCESO,              *)
(* DETENER_PLANIFICACION and MULTIPROGRAMACION do meanwhile.                *)
THEOREM UnaSolaCpu == Spec => []TokenCpu
<1>1. ASSUME Turno, TypeOK
      PROVE  TokenCpu
  <2>1. /\ Uno(pc["corto"] \in {"ready", "aux", "ejecutar"}) = IF Elegido THEN 1 ELSE 0
        /\ Uno(pc["despacho"] # "recibir") = IF Atendiendo THEN 1 ELSE 0
        /\ Uno(pedida) = IF pedida THEN 1 ELSE 0
    BY DEF Uno, Elegido, Atendiendo
  <2>2. /\ aCpu = <<>> => Len(aCpu) = 0
        /\ deCpu = <<>> => Len(deCpu) = 0
        /\ aCpu = <<execute>> => Len(aCpu) = 1
    OBVIOUS
  <2>3. CASE Len(aCpu) = 0 /\ Len(deCpu) = 0 /\ ~pedida
    BY <1>1, <2>1, <2>2, <2>3 DEF Turno, TokenCpu, ManosEnCpu
  <2>4. CASE ~(Len(aCpu) = 0 /\ Len(deCpu) = 0 /\ ~pedida)
    <3>1. sem["CPU"] = 0 /\ ~Elegido /\ ~Atendiendo
      BY <1>1, <2>2, <2>4 DEF Turno
    <3>2. Len(aCpu) + Uno(pedida) + Len(deCpu) = 1
      <4>1. CASE aCpu = <<execute>> /\ deCpu = <<>> /\ ~pedida
        BY <2>1, <2>2, <4>1
      <4>2. CASE aCpu = <<>> /\ deCpu = <<>> /\ pedida
        BY <2>1, <2>2, <4>2
      <4>3. CASE aCpu = <<>> /\ Len(deCpu) = 1 /\ ~pedida
        BY <2>1, <2>2, <4>3
      <4>4. QED
        BY <1>1, <2>2, <2>4, <4>1, <4>2, <4>3 DEF Turno
    <3>3. Len(aCpu) \in Nat /\ Len(deCpu) \in Nat /\ Uno(pedida) \in Nat
      BY <1>1, LenProperties DEF TypeOK, CpuTypeOK, Uno
    <3>4. QED
      BY <2>1, <3>1, <3>2, <3>3 DEF TokenCpu, ManosEnCpu
  <2>5. QED
    BY <2>3, <2>4
<1>2. QED
  BY <1>1, TurnoSiempre, PTL DEF Tipos

LEMMA ExecuteDeTurno ==
  ASSUME Turno, TypeOK
  PROVE  ExecuteCoherente
<1>1. CASE execute = Nulo
  <2>1. aCpu = <<>> /\ deCpu = <<>> /\ ~pedida
    BY <1>1 DEF Turno
  <2>2. DOMAIN aCpu = {} /\ DOMAIN deCpu = {}
    BY <2>1
  <2>3. QED
    BY <1>1, <2>1, <2>2 DEF ExecuteCoherente, EnVuelo
<1>2. CASE execute # Nulo
  <2>1. CASE aCpu = <<execute>> /\ deCpu = <<>> /\ ~pedida
    BY <1>2, <2>1 DEF ExecuteCoherente, EnVuelo
  <2>2. CASE aCpu = <<>> /\ deCpu = <<>> /\ pedida /\ pcbExecute = execute
    BY <1>2, <2>2 DEF ExecuteCoherente, EnVuelo
  <2>3. CASE aCpu = <<>> /\ ~pedida /\ Len(deCpu) = 1 /\ deCpu[1].pid = execute
    <3>1. DOMAIN deCpu = {1}
      BY <2>3, LenProperties DEF TypeOK, CpuTypeOK
    <3>2. {deCpu[k].pid : k \in DOMAIN deCpu} = {execute}
      BY <2>3, <3>1
    <3>3. {aCpu[k] : k \in DOMAIN aCpu} = {}
      BY <2>3
    <3>4. QED
      BY <1>2, <2>3, <3>2, <3>3 DEF ExecuteCoherente, EnVuelo
  <2>4. QED
    BY <1>2, <2>1, <2>2, <2>3 DEF Turno
<1>3. QED
  BY <1>1, <1>2

(* EXECUTE is the process that the CPU has, or that is on its way to it or  *)
(* back, and NULL if there is none: FINALIZAR_PROCESO and the quantum       *)
(* thread, which read it with no lock, read the truth of that instant.      *)
THEOREM ExecuteEsElDeLaCpu == Spec => []ExecuteCoherente
<1>1. Turno /\ TypeOK => ExecuteCoherente
  BY ExecuteDeTurno
<1>2. QED
  BY <1>1, TurnoSiempre, PTL DEF Tipos

-----------------------------------------------------------------------------
(* DETENER_PLANIFICACION and INICIAR_PLANIFICACION.                         *)

LEMMA MostrandoFinito ==
  ASSUME NEW f
  PROVE  /\ IsFiniteSet({i \in Interfaces : f[i] = "mostrar"})
         /\ Cardinality({i \in Interfaces : f[i] = "mostrar"}) \in Nat
  BY FS_Subset, FS_CardinalityType, InterfacesAssumption

LEMMA SeccionTipo ==
  ASSUME NEW s
  PROVE  EnSeccion(s) \in Nat /\ EnSeccion(s)' \in Nat
<1>1. Cardinality(Mostrando) \in Nat /\ Cardinality(Mostrando') \in Nat
  BY MostrandoFinito DEF Mostrando
<1>2. QED
  BY <1>1 DEF EnSeccion, Uno

LEMMA PlanesInicial == Init => CuentaPlanes
<1> SUFFICES ASSUME Init, NEW s \in SemPlanes
             PROVE  sem[s] + EnSeccion(s) = Uno(status) + deteniendo[s]
  BY DEF CuentaPlanes
<1>1. sem[s] = 1 /\ deteniendo[s] = 0 /\ status
  BY DEF Init, KernelInit, Semaforos, SemPlanes
<1>2. Cardinality(Mostrando) = 0
  <2>1. Mostrando = {}
    BY DEF Init, KernelInit, Mostrando
  <2>2. QED
    BY <2>1, FS_EmptySet
<1>3. EnSeccion(s) = 0
  BY <1>2 DEF Init, KernelInit, EnSeccion, Uno
<1>4. QED
  BY <1>1, <1>3 DEF Uno

(* A thread that takes or gives back the unit of a planning semaphore as it *)
(* enters or leaves the section of that semaphore keeps the count.          *)
LEMMA PlanesBalance ==
  ASSUME CuentaPlanes, UNCHANGED <<status, deteniendo>>,
         \A s \in SemPlanes : sem'[s] + EnSeccion(s)' = sem[s] + EnSeccion(s)
  PROVE  CuentaPlanes'
  BY DEF CuentaPlanes

(* What CuentaPlanes depends on *)
LEMMA SeccionMarco ==
  ASSUME (pc'["largo"] \in {"agregar", "mostrar"}) = (pc["largo"] \in {"agregar", "mostrar"}),
         (pc'["despacho"] = "encolar") = (pc["despacho"] = "encolar"),
         (pc'["despacho"] = "mostrar") = (pc["despacho"] = "mostrar"),
         Mostrando' = Mostrando
  PROVE  \A s \in SemPlanes : EnSeccion(s)' = EnSeccion(s)
  BY DEF EnSeccion, Uno

LEMMA PlanesMarco ==
  ASSUME CuentaPlanes, \A s \in SemPlanes : sem'[s] = sem[s], UNCHANGED <<status, deteniendo>>,
         (pc'["largo"] \in {"agregar", "mostrar"}) = (pc["largo"] \in {"agregar", "mostrar"}),
         (pc'["despacho"] = "encolar") = (pc["despacho"] = "encolar"),
         (pc'["despacho"] = "mostrar") = (pc["despacho"] = "mostrar"),
         Mostrando' = Mostrando
  PROVE  CuentaPlanes'
<1>1. \A s \in SemPlanes : EnSeccion(s)' = EnSeccion(s)
  BY SeccionMarco
<1>2. QED
  BY <1>1, PlanesBalance

LEMMA PlanesConsola ==
  ASSUME Tipos, CuentaPlanes,
         Consola \/ (\E s \in SemPlanes : DetenerCola(s)) \/ \E k \in Cambios : Cambio(k)
  PROVE  CuentaPlanes'
<1>1. /\ SemTypeOK /\ HilosTypeOK /\ deteniendo \in [SemPlanes -> Nat]
      /\ SemPlanes \subseteq Semaforos
      /\ {"NEW", "EXIT", "MULTIPROGRAMACION", "ORDEN"} \subseteq Semaforos \ SemPlanes
  BY DEF Tipos, TypeOK, GestionTypeOK, Semaforos, SemPlanes
<1>2. (pc'["largo"] = pc["largo"]) /\ (pc'["despacho"] = pc["despacho"])
  <2>1. UNCHANGED pc \/ \E s : pc' = [pc EXCEPT !["consola"] = s]
    BY DEF Consola, IniciarProceso, ConsolaTrabada, DetenerPlanificacion, IniciarPlanificacion,
         CambiarGrado, FinalizarBuscar, FinalizarVerificar, FinalizarComparar, FinalizarEliminar,
         FinalizarEncolar, DetenerCola, Cambio, CambioTomar, CambioAjustar, CambioTerminar,
         Ir, hilos
  <2>2. QED
    BY <1>1, <2>1 DEF HilosTypeOK, Hilos
<1>3. Mostrando' = Mostrando /\ \A s \in SemPlanes : EnSeccion(s)' = EnSeccion(s)
  <2>1. UNCHANGED ioPc
    BY DEF Consola, IniciarProceso, ConsolaTrabada, DetenerPlanificacion, IniciarPlanificacion,
           CambiarGrado, FinalizarBuscar, FinalizarVerificar, FinalizarComparar, FinalizarEliminar,
           FinalizarEncolar, DetenerCola, Cambio, CambioTomar, CambioAjustar, CambioTerminar, ioVars
  <2>2. Mostrando' = Mostrando
    BY <2>1 DEF Mostrando
  <2>3. QED
    BY <1>2, <2>2, SeccionMarco
<1>4. ASSUME NEW s \in SemPlanes
      PROVE  sem[s] \in Nat /\ deteniendo[s] \in Nat /\ EnSeccion(s) \in Nat
  BY <1>1, SeccionTipo DEF SemTypeOK
<1>5. CASE DetenerPlanificacion
  <2>1. /\ UNCHANGED sem /\ status /\ ~status'
        /\ \A s \in SemPlanes : deteniendo'[s] = deteniendo[s] + 1
    BY <1>5 DEF DetenerPlanificacion
  <2>2. QED
    BY <1>3, <1>4, <2>1 DEF CuentaPlanes, Uno
<1>6. CASE IniciarPlanificacion
  <2>1. /\ UNCHANGED deteniendo /\ ~status /\ status'
        /\ \A s \in SemPlanes : sem'[s] = sem[s] + 1
    BY <1>1, <1>6 DEF IniciarPlanificacion
  <2>2. QED
    BY <1>3, <1>4, <2>1 DEF CuentaPlanes, Uno
<1>7. ASSUME NEW c \in SemPlanes, DetenerCola(c)
      PROVE  CuentaPlanes'
  <2>1. /\ UNCHANGED status
        /\ sem'[c] = sem[c] - 1 /\ deteniendo'[c] = deteniendo[c] - 1
        /\ \A s \in SemPlanes \ {c} : sem'[s] = sem[s] /\ deteniendo'[s] = deteniendo[s]
    BY <1>1, <1>7 DEF DetenerCola, Esperar, SemTypeOK
  <2>2. QED
    BY <1>3, <1>4, <2>1 DEF CuentaPlanes, Uno
<1>8. ASSUME NEW c \in Semaforos \ SemPlanes, Esperar(c) \/ Publicar(c)
      PROVE  \A s \in SemPlanes : sem'[s] = sem[s]
  BY <1>1, <1>8 DEF Esperar, Publicar, SemTypeOK
<1>9. CASE Consola /\ ~DetenerPlanificacion /\ ~IniciarPlanificacion
  <2>1. UNCHANGED <<status, deteniendo>>
    BY <1>9 DEF Consola, IniciarProceso, ConsolaTrabada, CambiarGrado, FinalizarBuscar,
         FinalizarVerificar, FinalizarComparar, FinalizarEliminar, FinalizarEncolar, gestionVars,
         planVars
  <2>2. \A s \in SemPlanes : sem'[s] = sem[s]
    BY <1>1, <1>8, <1>9 DEF Consola, IniciarProceso, ConsolaTrabada, CambiarGrado, FinalizarBuscar,
         FinalizarVerificar, FinalizarComparar, FinalizarEliminar, FinalizarEncolar
  <2>3. QED
    BY <1>2, <1>3, <2>1, <2>2, PlanesMarco
<1>10. ASSUME NEW k \in Cambios, Cambio(k)
       PROVE  CuentaPlanes'
  <2>1. UNCHANGED <<status, deteniendo>>
    BY <1>10 DEF Cambio, CambioTomar, CambioAjustar, CambioTerminar
  <2>2. \A s \in SemPlanes : sem'[s] = sem[s]
    BY <1>1, <1>8, <1>10 DEF Cambio, CambioTomar, CambioAjustar, CambioTerminar
  <2>3. QED
    BY <1>2, <1>3, <2>1, <2>2, PlanesMarco
<1>11. QED
  BY <1>5, <1>6, <1>7, <1>9, <1>10

LEMMA PlanesLargo ==
  ASSUME Tipos, CuentaPlanes, LargoPlazo \/ EndProcess
  PROVE  CuentaPlanes'
<1>1. /\ SemTypeOK /\ HilosTypeOK /\ "PLAN_NEW_READY" \in SemPlanes /\ SemPlanes \subseteq Semaforos
      /\ {"NEW", "READY", "EXIT", "MULTIPROGRAMACION"} \subseteq Semaforos \ SemPlanes
  BY DEF Tipos, TypeOK, Semaforos, SemPlanes
<1>2. UNCHANGED <<status, deteniendo, ioPc>>
  BY DEF LargoPlazo, LargoEsperar, LargoOrden, LargoMulti, LargoSacar, LargoAgregar, LargoMostrar,
         EndProcess, gestionVars, planVars, ioVars
<1>3. Mostrando' = Mostrando /\ pc'["despacho"] = pc["despacho"]
  <2>1. UNCHANGED pc \/ \E s : pc' = [pc EXCEPT !["largo"] = s]
    BY DEF LargoPlazo, LargoEsperar, LargoOrden, LargoMulti, LargoSacar, LargoAgregar, LargoMostrar,
           EndProcess, Ir, hilos
  <2>2. QED
    BY <1>1, <1>2, <2>1 DEF Mostrando, HilosTypeOK, Hilos
<1>4. CASE LargoEsperar \/ LargoOrden \/ LargoMulti \/ LargoAgregar \/ EndProcess
  <2>1. \A s \in SemPlanes : sem'[s] = sem[s]
    BY <1>1, <1>4 DEF LargoEsperar, LargoOrden, LargoMulti, LargoAgregar, EndProcess, Esperar, SemTypeOK
  <2>2. (pc'["largo"] \in {"agregar", "mostrar"}) = (pc["largo"] \in {"agregar", "mostrar"})
    BY <1>1, <1>4 DEF LargoEsperar, LargoOrden, LargoMulti, LargoAgregar, EndProcess, En, Ir,
                      HilosTypeOK, Hilos, hilos
  <2>3. QED
    BY <1>2, <1>3, <2>1, <2>2, PlanesMarco
<1>5. ASSUME NEW s \in SemPlanes, s # "PLAN_NEW_READY", LargoSacar \/ LargoMostrar
      PROVE  sem'[s] = sem[s] /\ EnSeccion(s)' = EnSeccion(s)
  BY <1>1, <1>3, <1>5 DEF LargoSacar, LargoMostrar, Esperar, SemTypeOK, EnSeccion, Uno
<1>6. sem["PLAN_NEW_READY"] \in Nat
  BY <1>1 DEF SemTypeOK
<1>7. CASE LargoSacar
  <2>1. sem'["PLAN_NEW_READY"] = sem["PLAN_NEW_READY"] - 1
    BY <1>1, <1>7 DEF LargoSacar, Esperar, SemTypeOK
  <2>2. EnSeccion("PLAN_NEW_READY") = 0 /\ EnSeccion("PLAN_NEW_READY")' = 1
    BY <1>1, <1>7 DEF LargoSacar, En, Ir, EnSeccion, Uno, HilosTypeOK, Hilos
  <2>3. QED
    BY <1>2, <1>5, <1>6, <1>7, <2>1, <2>2, PlanesBalance
<1>8. CASE LargoMostrar
  <2>1. sem'["PLAN_NEW_READY"] = sem["PLAN_NEW_READY"] + 1
    BY <1>1, <1>8 DEF LargoMostrar, SemTypeOK
  <2>2. EnSeccion("PLAN_NEW_READY") = 1 /\ EnSeccion("PLAN_NEW_READY")' = 0
    BY <1>1, <1>8 DEF LargoMostrar, En, Ir, EnSeccion, Uno, HilosTypeOK, Hilos
  <2>3. QED
    BY <1>2, <1>5, <1>6, <1>8, <2>1, <2>2, PlanesBalance
<1>9. QED
  BY <1>4, <1>7, <1>8 DEF LargoPlazo

LEMMA PlanesCorto ==
  ASSUME Tipos, CuentaPlanes, CortoPlazo \/ Quantum
  PROVE  CuentaPlanes'
<1>1. /\ SemTypeOK /\ HilosTypeOK /\ SemPlanes \subseteq Semaforos
      /\ {"CPU", "READY", "AUX_READY"} \subseteq Semaforos \ SemPlanes
  BY DEF Tipos, TypeOK, Semaforos, SemPlanes
<1>2. UNCHANGED <<status, deteniendo, ioPc>>
  BY DEF CortoPlazo, CortoElegir, CortoCpu, CortoSacar, CortoEjecutar, InterrupcionQuantum, CortoUnir,
         Quantum, QuantumCrear, QuantumVencer, gestionVars, planVars, ioVars
<1>3. \A s \in SemPlanes : sem'[s] = sem[s]
  BY <1>1 DEF CortoPlazo, CortoElegir, CortoCpu, CortoSacar, CortoEjecutar, InterrupcionQuantum,
         CortoUnir, Quantum, QuantumCrear, QuantumVencer, Esperar, SemTypeOK
<1>4. pc'["largo"] = pc["largo"] /\ pc'["despacho"] = pc["despacho"]
  <2>1. \/ UNCHANGED pc
        \/ \E s : pc' = [pc EXCEPT !["corto"] = s] \/ pc' = [pc EXCEPT !["quantum"] = s]
        \/ \E s, q : pc' = [pc EXCEPT !["corto"] = s, !["quantum"] = q]
    BY DEF CortoPlazo, CortoElegir, CortoCpu, CortoSacar, CortoEjecutar, InterrupcionQuantum,
           CortoUnir, Quantum, QuantumCrear, QuantumVencer, Ir, hilos
  <2>2. QED
    BY <1>1, <2>1 DEF HilosTypeOK, Hilos
<1>5. QED
  BY <1>2, <1>3, <1>4, PlanesMarco DEF Mostrando

LEMMA PlanesDespacho ==
  ASSUME Tipos, CuentaPlanes, Despacho
  PROVE  CuentaPlanes'
<1>1. /\ SemTypeOK /\ HilosTypeOK /\ {"PLAN_BLOCKED", "PLAN_READY"} \subseteq SemPlanes
      /\ SemPlanes \subseteq Semaforos
      /\ {"CPU", "READY", "AUX_READY", "EXIT"} \subseteq Semaforos \ SemPlanes
  BY DEF Tipos, TypeOK, Semaforos, SemPlanes
<1>2. UNCHANGED <<status, deteniendo, ioPc>>
  BY DEF Despacho, RecibirPcbOSolicitud, Cancelar, RecibirInterrumpido, ActualizarPcbQuantum,
         AgregarDeExecuteAReady, MostrarExecuteAReady, AgregarAExit, ActualizarPcbFinal, Bloquear,
         AgregarProcesoBloqueado, gestionVars, planVars, ioVars
<1>3. Mostrando' = Mostrando /\ pc'["largo"] = pc["largo"]
  <2>1. CASE Cancelar
    BY <1>1, <1>2, <2>1 DEF Cancelar, CancelarQuantum, Ir, Mostrando, HilosTypeOK, Hilos
  <2>2. CASE ~Cancelar
    <3>1. \E s : pc' = [pc EXCEPT !["despacho"] = s]
      BY <2>2 DEF Despacho, RecibirPcbOSolicitud, RecibirInterrumpido, ActualizarPcbQuantum,
                  AgregarDeExecuteAReady, MostrarExecuteAReady, AgregarAExit, ActualizarPcbFinal,
                  Bloquear, AgregarProcesoBloqueado, Terminar, Ir
    <3>2. QED
      BY <1>1, <1>2, <3>1 DEF Mostrando, HilosTypeOK, Hilos
  <2>3. QED
    BY <2>1, <2>2
<1>4. CASE \/ RecibirPcbOSolicitud \/ RecibirInterrumpido \/ ActualizarPcbQuantum \/ AgregarAExit
           \/ ActualizarPcbFinal
  <2>1. \A s \in SemPlanes : sem'[s] = sem[s]
    BY <1>1, <1>4 DEF RecibirPcbOSolicitud, RecibirInterrumpido, ActualizarPcbQuantum, AgregarAExit,
                      ActualizarPcbFinal, Publicar, SemTypeOK
  <2>2. /\ pc["despacho"] \in {"recibir", "interrumpido", "exit", "actualizar"}
        /\ pc'["despacho"] \in {"cancelar", "interrumpido", "aReady", "actualizar", "recibir"}
    BY <1>1, <1>4 DEF RecibirPcbOSolicitud, RecibirInterrumpido, RecibirDe, ActualizarPcbQuantum,
                      AgregarAExit, ActualizarPcbFinal, Terminar, En, Ir, HilosTypeOK, Hilos
  <2>3. QED
    BY <1>2, <1>3, <2>1, <2>2, PlanesMarco
<1>5. CASE Cancelar
  <2>1. UNCHANGED sem /\ pc["despacho"] = "cancelar"
    BY <1>5 DEF Cancelar, En
  <2>2. pc'["despacho"] \in {"exit", "bloquear"}
    BY <1>1, <1>5 DEF Cancelar, CancelarQuantum, Ir, HilosTypeOK, Hilos
  <2>3. QED
    BY <1>2, <1>3, <2>1, <2>2, PlanesMarco
<1>6. ASSUME NEW s \in SemPlanes, s # "PLAN_BLOCKED", Bloquear \/ AgregarProcesoBloqueado
      PROVE  sem'[s] = sem[s] /\ EnSeccion(s)' = EnSeccion(s)
  <2>1. sem'[s] = sem[s]
    BY <1>1, <1>6 DEF Bloquear, AgregarProcesoBloqueado, Esperar, SemTypeOK
  <2>2. pc["despacho"] # "mostrar" /\ pc'["despacho"] # "mostrar"
    BY <1>1, <1>6 DEF Bloquear, AgregarProcesoBloqueado, Terminar, En, Ir, HilosTypeOK, Hilos
  <2>3. QED
    BY <1>3, <1>6, <2>1, <2>2 DEF EnSeccion, Uno
<1>7. sem["PLAN_BLOCKED"] \in Nat /\ sem["PLAN_READY"] \in Nat
  BY <1>1 DEF SemTypeOK
<1>8. CASE Bloquear
  <2>1. sem'["PLAN_BLOCKED"] = sem["PLAN_BLOCKED"] - 1
    BY <1>1, <1>8 DEF Bloquear, Esperar, SemTypeOK
  <2>2. EnSeccion("PLAN_BLOCKED") = 0 /\ EnSeccion("PLAN_BLOCKED")' = 1
    BY <1>1, <1>8 DEF Bloquear, En, Ir, EnSeccion, Uno, HilosTypeOK, Hilos
  <2>3. QED
    BY <1>2, <1>6, <1>7, <1>8, <2>1, <2>2, PlanesBalance
<1>9. CASE AgregarProcesoBloqueado
  <2>1. sem'["PLAN_BLOCKED"] = sem["PLAN_BLOCKED"] + 1
    BY <1>1, <1>9 DEF AgregarProcesoBloqueado, SemTypeOK
  <2>2. EnSeccion("PLAN_BLOCKED") = 1 /\ EnSeccion("PLAN_BLOCKED")' = 0
    BY <1>1, <1>9 DEF AgregarProcesoBloqueado, Terminar, En, Ir, EnSeccion, Uno, HilosTypeOK, Hilos
  <2>3. QED
    BY <1>2, <1>6, <1>7, <1>9, <2>1, <2>2, PlanesBalance
<1>10. ASSUME NEW s \in SemPlanes, s # "PLAN_READY", AgregarDeExecuteAReady \/ MostrarExecuteAReady
       PROVE  sem'[s] = sem[s] /\ EnSeccion(s)' = EnSeccion(s)
  <2>1. listado["despacho"].lista # s
    BY <1>1, ListaLeida, LectoresHay DEF SemPlanes
  <2>2. sem'[s] = sem[s]
    BY <1>1, <1>10, <2>1 DEF AgregarDeExecuteAReady, MostrarExecuteAReady, Esperar, SemTypeOK
  <2>3. pc["despacho"] # "encolar" /\ pc'["despacho"] # "encolar"
    BY <1>1, <1>10 DEF AgregarDeExecuteAReady, MostrarExecuteAReady, Terminar, En, Ir, HilosTypeOK, Hilos
  <2>4. QED
    BY <1>3, <1>10, <2>2, <2>3 DEF EnSeccion, Uno
<1>11. Cardinality(Mostrando) \in Nat
  BY MostrandoFinito DEF Mostrando
<1>12. CASE AgregarDeExecuteAReady
  <2>1. sem'["PLAN_READY"] = sem["PLAN_READY"] - 1
    BY <1>1, <1>12 DEF AgregarDeExecuteAReady, Esperar, SemTypeOK
  <2>2. pc["despacho"] = "aReady" /\ pc'["despacho"] = "mostrar"
    BY <1>1, <1>12 DEF AgregarDeExecuteAReady, En, Ir, HilosTypeOK, Hilos
  <2>3. EnSeccion("PLAN_READY")' = EnSeccion("PLAN_READY") + 1
    BY <1>3, <1>11, <2>2 DEF EnSeccion, Uno
  <2>4. QED
    BY <1>2, <1>7, <1>10, <1>12, <2>1, <2>3, SeccionTipo, PlanesBalance
<1>13. CASE MostrarExecuteAReady
  <2>1. sem'["PLAN_READY"] = sem["PLAN_READY"] + 1
    <3>1. listado["despacho"].lista # "PLAN_READY"
      BY ListaLeida, LectoresHay
    <3>2. QED
      BY <1>1, <1>13, <3>1 DEF MostrarExecuteAReady, SemTypeOK
  <2>2. pc["despacho"] = "mostrar" /\ pc'["despacho"] = "recibir"
    BY <1>1, <1>13 DEF MostrarExecuteAReady, Terminar, En, Ir, HilosTypeOK, Hilos
  <2>3. EnSeccion("PLAN_READY") = EnSeccion("PLAN_READY")' + 1
    BY <1>3, <1>11, <2>2 DEF EnSeccion, Uno
  <2>4. QED
    BY <1>2, <1>7, <1>10, <1>13, <2>1, <2>3, SeccionTipo, PlanesBalance
<1>14. QED
  BY <1>4, <1>5, <1>8, <1>9, <1>12, <1>13 DEF Despacho

LEMMA PlanesIO ==
  ASSUME Tipos, CuentaPlanes, NEW i \in Interfaces, HiloIO(i)
  PROVE  CuentaPlanes'
<1>1. /\ SemTypeOK /\ "PLAN_READY" \in SemPlanes /\ SemPlanes \subseteq Semaforos
      /\ ioPc \in [Interfaces -> {"esperar", "obtener", "servicio", "agregar", "mostrar", "fin"}]
  BY DEF Tipos, TypeOK, IoTypeOK, Semaforos, SemPlanes
<1>2. UNCHANGED <<status, deteniendo, pc>>
  BY DEF HiloIO, IoEsperar, IoObtener, IoResponder, AgregarDeBlockedAReady, MostrarBlockedAReady,
         gestionVars, planVars, hilos
<1>3. IsFiniteSet(Mostrando) /\ Cardinality(Mostrando) \in Nat
  BY MostrandoFinito DEF Mostrando
<1>4. sem["PLAN_READY"] \in Nat
  BY <1>1 DEF SemTypeOK
<1>5. CASE IoEsperar(i) \/ IoObtener(i) \/ IoResponder(i)
  <2>1. UNCHANGED sem
    BY <1>5 DEF IoEsperar, IoObtener, IoResponder
  <2>2. /\ ioPc[i] # "mostrar"
        /\ \/ ioPc' = ioPc
           \/ \E paso \in {"fin", "obtener", "servicio", "esperar", "agregar"} :
                ioPc' = [ioPc EXCEPT ![i] = paso]
    BY <1>5 DEF IoEsperar, IoObtener, IoResponder, IrIO
  <2>3. Mostrando' = Mostrando
    BY <1>1, <2>2 DEF Mostrando
  <2>4. QED
    BY <1>2, <2>1, <2>3, PlanesMarco
<1>6. ASSUME NEW s \in SemPlanes, s # "PLAN_READY",
             AgregarDeBlockedAReady(i) \/ MostrarBlockedAReady(i)
      PROVE  sem'[s] = sem[s] /\ EnSeccion(s)' = EnSeccion(s)
  <2>1. listado[i].lista # s
    BY ListaLeida, LectoresHay DEF SemPlanes
  <2>2. sem'[s] = sem[s]
    BY <1>1, <1>6, <2>1 DEF AgregarDeBlockedAReady, MostrarBlockedAReady, Esperar, SemTypeOK
  <2>3. QED
    BY <1>2, <1>6, <2>2 DEF EnSeccion
<1>7. CASE AgregarDeBlockedAReady(i)
  <2>1. sem'["PLAN_READY"] = sem["PLAN_READY"] - 1
    BY <1>1, <1>7 DEF AgregarDeBlockedAReady, Esperar, SemTypeOK
  <2>2. i \notin Mostrando /\ Mostrando' = Mostrando \cup {i}
    BY <1>1, <1>7 DEF AgregarDeBlockedAReady, IrIO, Mostrando
  <2>3. Cardinality(Mostrando') = Cardinality(Mostrando) + 1
    BY <1>3, <2>2, FS_AddElement
  <2>4. EnSeccion("PLAN_READY")' = EnSeccion("PLAN_READY") + 1
    BY <1>2, <1>3, <2>3 DEF EnSeccion, Uno
  <2>5. QED
    BY <1>2, <1>4, <1>6, <1>7, <2>1, <2>4, SeccionTipo, PlanesBalance
<1>8. CASE MostrarBlockedAReady(i)
  <2>1. sem'["PLAN_READY"] = sem["PLAN_READY"] + 1
    <3>1. listado[i].lista # "PLAN_READY"
      BY ListaLeida, LectoresHay
    <3>2. QED
      BY <1>1, <1>8, <3>1 DEF MostrarBlockedAReady, SemTypeOK
  <2>2. i \in Mostrando /\ Mostrando' = Mostrando \ {i}
    BY <1>1, <1>8 DEF MostrarBlockedAReady, IrIO, Mostrando
  <2>3. Cardinality(Mostrando') = Cardinality(Mostrando) - 1
    BY <1>3, <2>2, FS_RemoveElement
  <2>4. EnSeccion("PLAN_READY") = EnSeccion("PLAN_READY")' + 1
    BY <1>2, <1>3, <2>3 DEF EnSeccion, Uno
  <2>5. QED
    BY <1>2, <1>4, <1>6, <1>8, <2>1, <2>4, SeccionTipo, PlanesBalance
<1>9. QED
  BY <1>5, <1>7, <1>8 DEF HiloIO

LEMMA PlanesPaso == Tipos /\ CuentaPlanes /\ [Next]_vars => CuentaPlanes'
<1> SUFFICES ASSUME Tipos, CuentaPlanes, [Next]_vars PROVE CuentaPlanes'
  OBVIOUS
<1>1. CASE UNCHANGED vars
  BY <1>1, PlanesMarco DEF vars, kernelVars, hilos, gestionVars, planVars, ioVars, Mostrando
<1>2. CASE Cpu
  BY <1>2, PlanesMarco DEF Cpu, kernelVars, hilos, gestionVars, planVars, ioVars, Mostrando
<1>3. CASE Kernel
  BY <1>3, PlanesConsola, PlanesLargo, PlanesCorto, PlanesDespacho, PlanesIO DEF Kernel
<1>4. QED
  BY <1>1, <1>2, <1>3 DEF Next

LEMMA PlanesSiempre == Spec => [](Tipos /\ CuentaPlanes)
  BY TiposInicial, TiposPaso, PlanesInicial, PlanesPaso, PTL DEF Spec

-----------------------------------------------------------------------------
(* However often the planning is stopped and started, and however late the *)
(* detached threads of detener_cola_* get their semaphore, each planning    *)
(* semaphore ends with one unit if the planning runs and none if it does not. *)
THEOREM PlanesContados == Spec => []CuentaPlanes
  BY PlanesSiempre, PTL

-----------------------------------------------------------------------------
(* A stopped planning *)

NoAvanza ==
  /\ execute' \in {execute, Nulo}
  /\ \A c \in {"READY", "AUX_READY"} : Len(cola'[c]) <= Len(cola[c])
  /\ \A i \in Interfaces : Len(ioCola'[i]) <= Len(ioCola[i])

(* A step with the planning stopped *)
LEMMA DetenidaCerrada ==
  ASSUME Tipos, CuentaPlanes, Detenida
  PROVE  /\ \A s \in SemPlanes : sem[s] = 0
         /\ pc["largo"] \notin {"agregar", "mostrar"} /\ pc["despacho"] # "encolar"
<1>1. ASSUME NEW s \in SemPlanes
      PROVE  sem[s] = 0 /\ EnSeccion(s) = 0
  <2>1. sem[s] + EnSeccion(s) = 0
    BY DEF Detenida, CuentaPlanes, Uno
  <2>2. sem[s] \in Nat /\ EnSeccion(s) \in Nat
    BY SeccionTipo DEF Tipos, TypeOK, SemTypeOK, Semaforos
  <2>3. QED
    BY <2>1, <2>2
<1>2. pc["largo"] \notin {"agregar", "mostrar"}
  BY <1>1, NombresSem DEF EnSeccion, Uno
<1>3. pc["despacho"] # "encolar"
  BY <1>1, NombresSem DEF EnSeccion, Uno
<1>4. QED
  BY <1>1, <1>2, <1>3

(* Lists that lose their head or one element do not grow. *)
LEMMA ListasNoCrecen ==
  ASSUME TypeOK
  PROVE  /\ \A c \in {"READY", "AUX_READY"} : Len(cola[c]) \in Nat
         /\ \A c \in {"READY", "AUX_READY"} :
              cola[c] # <<>> => Len(ListRemove(cola[c])) <= Len(cola[c])
         /\ \A c \in {"READY", "AUX_READY"}, p \in Pids :
              Len(ListRemoveElement(cola[c], p)) <= Len(cola[c])
         /\ \A i \in Interfaces : Len(ioCola[i]) \in Nat
         /\ \A i \in Interfaces : ioCola[i] # <<>> => Len(ListRemove(ioCola[i])) <= Len(ioCola[i])
         /\ \A i \in Interfaces, p \in Pids : Len(ListRemoveElement(ioCola[i], p)) <= Len(ioCola[i])
<1>1. ASSUME NEW s \in Seq(Pids)
      PROVE  /\ Len(s) \in Nat
             /\ s # <<>> => Len(ListRemove(s)) <= Len(s)
             /\ \A p \in Pids : Len(ListRemoveElement(s, p)) <= Len(s)
  BY LenProperties, ListRemoveTipo, ListRemoveElementTipo
<1>2. /\ \A c \in {"READY", "AUX_READY"} : cola[c] \in Seq(Pids)
      /\ \A i \in Interfaces : ioCola[i] \in Seq(Pids)
  BY DEF TypeOK, ListasTypeOK, IoTypeOK
<1>3. QED
  BY <1>1, <1>2

LEMMA DetenidaPaso ==
  ASSUME Tipos, CuentaPlanes, Detenida, [Next]_vars
  PROVE  NoAvanza
<1>1. /\ \A s \in SemPlanes : sem[s] = 0
      /\ pc["largo"] \notin {"agregar", "mostrar"} /\ pc["despacho"] # "encolar"
  BY DetenidaCerrada
<1>2. /\ \A c \in {"READY", "AUX_READY"} : Len(cola[c]) \in Nat
      /\ \A i \in Interfaces : Len(ioCola[i]) \in Nat
  BY ListasNoCrecen DEF Tipos
<1>3. ASSUME UNCHANGED <<execute, cola, ioCola>>
      PROVE  NoAvanza
  BY <1>2, <1>3 DEF NoAvanza
<1>4. ASSUME execute' = Nulo, UNCHANGED <<cola, ioCola>>
      PROVE  NoAvanza
  BY <1>2, <1>4 DEF NoAvanza
<1>5. CASE UNCHANGED vars
  BY <1>3, <1>5 DEF vars, kernelVars, listas, turnoVars, ioVars
<1>6. CASE Cpu
  BY <1>3, <1>6 DEF Cpu, kernelVars, listas, turnoVars, ioVars
<1>7. CASE Consola /\ vivo
  <2>1. CASE IniciarProceso
    <3>1. \A c \in {"READY", "AUX_READY"} : cola'[c] = cola[c]
      BY <2>1 DEF IniciarProceso, Tipos, TypeOK, ListasTypeOK
    <3>2. QED
      BY <1>2, <2>1, <3>1 DEF IniciarProceso, NoAvanza, turnoVars, ioVars
  <2>2. CASE FinalizarEliminar
    <3>1. local["consola"] \in Pids
      BY <2>2 DEF FinalizarEliminar, En, Tipos, Punteros
    <3>2. \A c \in {"READY", "AUX_READY"} : Len(cola'[c]) <= Len(cola[c])
      <4>1. \A c \in {"READY", "AUX_READY"} :
              cola'[c] = cola[c] \/ cola'[c] = ListRemoveElement(cola[c], local["consola"])
        BY <2>2 DEF FinalizarEliminar, Tipos, TypeOK, ListasTypeOK
      <4>2. QED
        BY <1>2, <3>1, <4>1, ListasNoCrecen DEF Tipos
    <3>3. \A i \in Interfaces : Len(ioCola'[i]) <= Len(ioCola[i])
      <4>1. \A i \in Interfaces :
              ioCola'[i] = ioCola[i] \/ ioCola'[i] = ListRemoveElement(ioCola[i], local["consola"])
        BY <2>2 DEF FinalizarEliminar
      <4>2. QED
        BY <1>2, <3>1, <4>1, ListasNoCrecen DEF Tipos
    <3>4. QED
      BY <2>2, <3>2, <3>3 DEF FinalizarEliminar, NoAvanza, turnoVars
  <2>3. CASE ~IniciarProceso /\ ~FinalizarEliminar
    BY <1>3, <1>7, <2>3
    DEF Consola, ConsolaTrabada, DetenerPlanificacion, IniciarPlanificacion, CambiarGrado,
        FinalizarBuscar, FinalizarVerificar, FinalizarComparar, FinalizarEncolar, listas, turnoVars,
        ioVars
  <2>4. QED
    BY <2>1, <2>2, <2>3
<1>8. CASE (\E s \in SemPlanes : DetenerCola(s)) \/ \E k \in Cambios : Cambio(k)
  BY <1>3, <1>8 DEF DetenerCola, Cambio, CambioTomar, CambioAjustar, CambioTerminar, listas, turnoVars,
                    ioVars
<1>9. CASE LargoPlazo \/ EndProcess
  <2>1. ~LargoSacar /\ ~LargoAgregar /\ ~LargoMostrar
    BY <1>1, NombresSem DEF LargoSacar, LargoAgregar, LargoMostrar, Esperar, En
  <2>2. QED
    BY <1>3, <1>9, <2>1 DEF LargoPlazo, LargoEsperar, LargoOrden, LargoMulti, EndProcess, listas,
                            turnoVars, ioVars
<1>10. CASE CortoPlazo \/ Quantum
  <2>1. ~CortoEjecutar
    BY <1>1, NombresSem DEF CortoEjecutar, Abierto
  <2>2. ASSUME NEW paso, NEW d \in {"READY", "AUX_READY"}, CortoSacar(paso, d)
        PROVE  NoAvanza
    <3>1. \A c \in {"READY", "AUX_READY"} :
            cola'[c] = cola[c] \/ (cola[c] # <<>> /\ cola'[c] = ListRemove(cola[c]))
      <4>1. \/ cola' = cola
            \/ cola[d] # <<>> /\ cola' = [cola EXCEPT ![d] = ListRemove(cola[d])]
        BY <2>2 DEF CortoSacar
      <4>2. cola \in [{"NEW", "READY", "AUX_READY"} -> Seq(Pids)]
        BY DEF Tipos, TypeOK, ListasTypeOK
      <4>3. CASE cola' = cola
        BY <4>3
      <4>4. CASE cola[d] # <<>> /\ cola' = [cola EXCEPT ![d] = ListRemove(cola[d])]
        <5>1. cola'[d] = ListRemove(cola[d]) /\ \A c \in {"READY", "AUX_READY"} \ {d} : cola'[c] = cola[c]
          BY <4>2, <4>4
        <5>2. QED
          BY <4>4, <5>1
      <4>5. QED
        BY <4>1, <4>3, <4>4
    <3>2. QED
      BY <1>2, <2>2, <3>1, ListasNoCrecen DEF CortoSacar, NoAvanza, Tipos, turnoVars, ioVars
  <2>3. QED
    BY <1>3, <1>10, <2>1, <2>2
    DEF CortoPlazo, CortoElegir, CortoCpu, InterrupcionQuantum, CortoUnir, Quantum, QuantumCrear,
        QuantumVencer, listas, turnoVars, ioVars
<1>11. CASE Despacho
  <2>1. ~AgregarDeExecuteAReady /\ ~Bloquear /\ ~AgregarProcesoBloqueado
    BY <1>1, NombresSem DEF AgregarDeExecuteAReady, Bloquear, AgregarProcesoBloqueado, Esperar, En
  <2>2. CASE RecibirPcbOSolicitud \/ RecibirInterrumpido
    BY <1>4, <2>2 DEF RecibirPcbOSolicitud, RecibirInterrumpido, RecibirDe, ExecuteToNull, listas,
                      ioVars
  <2>3. CASE Cancelar \/ MostrarExecuteAReady \/ ActualizarPcbQuantum \/ AgregarAExit \/ ActualizarPcbFinal
    BY <1>3, <2>3 DEF Cancelar, MostrarExecuteAReady, ActualizarPcbQuantum, AgregarAExit,
                      ActualizarPcbFinal, turnoVars, listas, ioVars
  <2>4. QED
    BY <1>11, <2>1, <2>2, <2>3 DEF Despacho
<1>12. ASSUME NEW j \in Interfaces, HiloIO(j)
       PROVE  NoAvanza
  <2>1. ~AgregarDeBlockedAReady(j)
    BY <1>1, NombresSem DEF AgregarDeBlockedAReady, Esperar
  <2>2. \A i \in Interfaces :
          ioCola'[i] = ioCola[i] \/ (ioCola[i] # <<>> /\ ioCola'[i] = ListRemove(ioCola[i]))
    <3>1. \/ ioCola' = ioCola
          \/ ioCola[j] # <<>> /\ ioCola' = [ioCola EXCEPT ![j] = ListRemove(ioCola[j])]
      BY <1>12, <2>1 DEF HiloIO, IoEsperar, IoObtener, IoResponder, MostrarBlockedAReady
    <3>2. ioCola \in [Interfaces -> Seq(Pids)]
      BY DEF Tipos, TypeOK, IoTypeOK
    <3>3. CASE ioCola' = ioCola
      BY <3>3
    <3>4. CASE ioCola[j] # <<>> /\ ioCola' = [ioCola EXCEPT ![j] = ListRemove(ioCola[j])]
      <4>1. ioCola'[j] = ListRemove(ioCola[j]) /\ \A i \in Interfaces \ {j} : ioCola'[i] = ioCola[i]
        BY <3>2, <3>4
      <4>2. QED
        BY <3>4, <4>1
    <3>5. QED
      BY <3>1, <3>3, <3>4
  <2>3. UNCHANGED <<execute, cola>>
    BY <1>12, <2>1 DEF HiloIO, IoEsperar, IoObtener, IoResponder, MostrarBlockedAReady, listas, turnoVars
  <2>4. QED
    BY <1>2, <2>2, <2>3, ListasNoCrecen DEF NoAvanza, Tipos
<1>13. QED
  BY <1>5, <1>6, <1>7, <1>8, <1>9, <1>10, <1>11, <1>12 DEF Next, Kernel

(* Once the four threads of DETENER_PLANIFICACION have their semaphores, no *)
(* process enters READY, EXEC or BLOCKED, although the CPU, the dispatch     *)
(* server, the interfaces, the quantum and FINALIZAR_PROCESO go on.          *)
THEOREM DetenidaSinAvance == Spec => DetenidaNoAvanza
<1>1. Tipos /\ CuentaPlanes /\ [Next]_vars => [Detenida => NoAvanza]_vars
  BY DetenidaPaso
<1>2. Spec => [][Detenida => NoAvanza]_vars
  BY <1>1, PlanesSiempre, PTL DEF Spec
<1>3. QED
  BY <1>2 DEF DetenidaNoAvanza, NoAvanza

=============================================================================
