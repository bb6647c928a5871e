-------------------------- MODULE PruebasInterfaces --------------------------
(***************************************************************************)
(* Proofs about Interfaces, and so about Recursos.                         *)
(*                                                                         *)
(* Bien is inductive: the types, what the local variables of a thread hold *)
(* at each point, and that a thread that works under MUTEX_RECURSOS has    *)
(* it. Paso says what a step of one thread must leave to the other.        *)
(*                                                                         *)
(* SinCruce adds what holds as long as both threads never met on a         *)
(* resource: an instance given back stays there for the process that it    *)
(* was given back for, so that process never posts SEM_CPU.                *)
(***************************************************************************)
EXTENDS Interfaces, PruebasListas

USE DEF Hilos

ConRecurso == {"wait_leer", "wait_asignar", "wait_bloquear", "inc_leer",
               "inc_escribir", "mirar_cola", "desbloquear"}

(* What the local variables v of a thread hold at each point, when the       *)
(* instances of the resources are inst.                                      *)
Vale(v, inst) ==
  /\ v.pc # "reposo" => v.pid \in Pids
  /\ v.pc \in PideWait => v.pcb \in Pids
  /\ v.pc \in ConRecurso => v.recurso \in Nombres
  /\ v.pc = "wait_leer" => inst[v.recurso] > 0
  /\ v.pc = "wait_asignar" => v.leido > 0

LocalesValen  == \A h \in Hilos : Vale(hilo[h], instancias)
AtendidoValen == \A i \in Ios : hiloIo[i] \in {"enviar", "recibir"} => atendido[i] \in Pids

HilosBien == TypeHilos /\ LocalesValen /\ DuenoDelMutex
Bien == TypeRecursos /\ TypeInterfaces /\ AtendidoValen /\ HilosBien

LEMMA BienInicial == InterfacesInit => Bien
<1> SUFFICES ASSUME InterfacesInit PROVE Bien
  OBVIOUS
<1> USE DEF InterfacesInit, Init
<1>1. EnReposo \in Locales /\ EnReposo.pc = "reposo"
  BY DEF EnReposo, Locales, PcHilo
<1>2. TypeRecursos
  BY RecursosAssumption DEF TypeRecursos
<1>3. TypeInterfaces /\ AtendidoValen
  BY DEF TypeInterfaces, AtendidoValen
<1>4. HilosBien
  BY <1>1 DEF HilosBien, TypeHilos, LocalesValen, Vale, DuenoDelMutex, BajoMutex, PideWait, ConRecurso
<1>5. QED
  BY <1>2, <1>3, <1>4 DEF Bien

(* One thread takes a step that leaves its local variables in v and does not *)
(* take away from the other one the mutex or the instance it counts on.      *)
LEMMA Paso ==
  ASSUME HilosBien, NEW h \in Hilos, NEW v \in Locales,
         hilo' = [hilo EXCEPT ![h] = v],
         Vale(v, instancias'),
         BajoMutex(h, v.pc) => mutexRecursos' = h,
         mutexRecursos' \in Hilos \cup {Nadie},
         \/ mutexRecursos' = mutexRecursos
         \/ BajoMutex(h, hilo[h].pc)
         \/ mutexRecursos = Nadie,
         \A k \in Hilos \ {h} :
           hilo[k].pc = "wait_leer" => instancias'[hilo[k].recurso] > 0,
         caido' \in BOOLEAN,
         carrera' \subseteq {"datos", "cesion"}
  PROVE  HilosBien'
<1>1. /\ hilo' \in [Hilos -> Locales]
      /\ hilo'[h] = v
      /\ \A k \in Hilos \ {h} : hilo'[k] = hilo[k]
  BY DEF HilosBien, TypeHilos
<1>2. LocalesValen'
  <2> SUFFICES ASSUME NEW k \in Hilos PROVE Vale(hilo'[k], instancias')
    BY DEF LocalesValen
  <2>1. CASE k = h
    BY <1>1, <2>1
  <2>2. CASE k # h
    BY <1>1, <2>2 DEF HilosBien, LocalesValen, Vale
  <2>3. QED
    BY <2>1, <2>2
<1>3. DuenoDelMutex'
  <2> SUFFICES ASSUME NEW k \in Hilos, BajoMutex(k, hilo'[k].pc) PROVE mutexRecursos' = k
    BY DEF DuenoDelMutex
  <2>1. CASE k = h
    BY <1>1, <2>1
  <2>2. CASE k # h
    BY <1>1, <2>2, RecursosAssumption DEF HilosBien, DuenoDelMutex
  <2>3. QED
    BY <2>1, <2>2
<1>4. QED
  BY <1>1, <1>2, <1>3 DEF HilosBien, TypeHilos

-----------------------------------------------------------------------------
(* handle_wait *)

LEMMA VolverVale ==
  ASSUME HilosBien, NEW h \in Hilos, hilo[h].pc # "reposo", Volver(h), NEW inst
  PROVE  \E v \in Locales : /\ hilo' = [hilo EXCEPT ![h] = v]
                            /\ Vale(v, inst)
                            /\ ~BajoMutex(h, v.pc)
<1>1. hilo[h] \in Locales /\ hilo[h].pid \in Pids
  BY DEF HilosBien, TypeHilos, LocalesValen, Vale
<1> DEFINE l == [EnReposo EXCEPT !.pc = "liberar", !.pid = hilo[h].pid]
           s == [hilo[h] EXCEPT !.pc = "signal_enviar"]
<1>2. l \in Locales /\ s \in Locales /\ EnReposo \in Locales
  BY <1>1 DEF Locales, PcHilo, EnReposo
<1>3. /\ Vale(l, inst) /\ ~BajoMutex(h, l.pc)
      /\ Vale(s, inst) /\ ~BajoMutex(h, s.pc)
      /\ Vale(EnReposo, inst) /\ ~BajoMutex(h, EnReposo.pc)
  BY <1>1 DEF Vale, BajoMutex, PideWait, ConRecurso, EnReposo, Locales
<1>4. \/ hilo' = [hilo EXCEPT ![h] = l]
      \/ hilo' = [hilo EXCEPT ![h] = s]
      \/ hilo' = [hilo EXCEPT ![h] = EnReposo]
  BY DEF Volver
<1>5. QED
  BY <1>2, <1>3, <1>4

LEMMA BienTomarMutex ==
  ASSUME TypeRecursos, HilosBien, NEW h \in Hilos, NEW desde, NEW hacia,
         \/ desde = "wait" /\ hacia = "wait_buscar"
         \/ desde = "signal" /\ hacia = "signal_buscar" /\ h = "dispatch", TomarMutex(h, desde, hacia),
         carrera' \subseteq {"datos", "cesion"}
  PROVE  TypeRecursos' /\ HilosBien'
<1>1. hilo[h] \in Locales /\ Vale(hilo[h], instancias)
  BY DEF HilosBien, TypeHilos, LocalesValen
<1> DEFINE v == [hilo[h] EXCEPT !.pc = hacia]
<1>3. v \in Locales /\ hilo' = [hilo EXCEPT ![h] = v]
  BY <1>1 DEF TomarMutex, Poner, Locales, PcHilo
<1>4. Vale(v, instancias')
  BY <1>1 DEF Vale, PideWait, ConRecurso, Locales, recursoVars, TomarMutex
<1>5. TypeRecursos'
  BY <1>1 DEF TypeRecursos, planVars, recursoVars, Vale, PideWait, ConRecurso, Locales, TomarMutex
<1>6. HilosBien'
  BY <1>1, <1>3, <1>4, Paso, RecursosAssumption DEF HilosBien, TypeHilos, LocalesValen, DuenoDelMutex, Vale, BajoMutex, recursoVars, TomarMutex
<1>7. QED
  BY <1>5, <1>6

LEMMA BienWaitDesconocido ==
  ASSUME TypeRecursos, HilosBien, NEW h \in Hilos, WaitDesconocido(h),
         carrera' \subseteq {"datos", "cesion"}
  PROVE  TypeRecursos' /\ HilosBien'
<1>1. hilo[h].pc # "reposo" /\ hilo[h].pcb \in Pids
  BY DEF WaitDesconocido, HilosBien, LocalesValen, Vale, PideWait
<1>2. PICK v \in Locales : hilo' = [hilo EXCEPT ![h] = v] /\ Vale(v, instancias') /\ ~BajoMutex(h, v.pc)
  BY <1>1, VolverVale DEF WaitDesconocido
<1>3. TypeRecursos'
  BY <1>1 DEF WaitDesconocido, EnviarAExit, TypeRecursos, recursoVars
<1>4. HilosBien'
  BY <1>2, Paso DEF WaitDesconocido, HilosBien, TypeHilos, LocalesValen, Vale, recursoVars
<1>5. QED
  BY <1>3, <1>4

LEMMA BienWaitMirar ==
  ASSUME TypeRecursos, HilosBien, NEW h \in Hilos, WaitMirar(h),
         carrera' \subseteq {"datos", "cesion"}
  PROVE  TypeRecursos' /\ HilosBien'
<1>1. hilo[h] \in Locales /\ Vale(hilo[h], instancias)
  BY DEF HilosBien, TypeHilos, LocalesValen
<1>2. PICK pc \in {"wait_leer", "wait_bloquear"} :
            Poner(h, pc) /\ (pc = "wait_leer" => instancias[hilo[h].recurso] > 0)
  BY DEF WaitMirar
<1> DEFINE v == [hilo[h] EXCEPT !.pc = pc]
<1>3. v \in Locales /\ hilo' = [hilo EXCEPT ![h] = v]
  BY <1>1, <1>2 DEF WaitMirar, Poner, Locales, PcHilo
<1>4. Vale(v, instancias')
  BY <1>1, <1>2 DEF Vale, PideWait, ConRecurso, Locales, recursoVars, WaitMirar
<1>5. TypeRecursos'
  BY <1>1 DEF TypeRecursos, planVars, recursoVars, Vale, PideWait, ConRecurso, Locales, WaitMirar
<1>6. HilosBien'
  BY <1>1, <1>3, <1>4, Paso DEF HilosBien, TypeHilos, LocalesValen, DuenoDelMutex, Vale, BajoMutex, recursoVars, WaitMirar
<1>7. QED
  BY <1>5, <1>6

LEMMA BienWaitLeer ==
  ASSUME TypeRecursos, HilosBien, NEW h \in Hilos, WaitLeer(h),
         carrera' \subseteq {"datos", "cesion"}
  PROVE  TypeRecursos' /\ HilosBien'
<1>1. hilo[h] \in Locales /\ Vale(hilo[h], instancias)
  BY DEF HilosBien, TypeHilos, LocalesValen
<1> DEFINE v == [hilo[h] EXCEPT !.leido = instancias[hilo[h].recurso], !.pc = "wait_asignar"]
<1>3. v \in Locales /\ hilo' = [hilo EXCEPT ![h] = v]
  BY <1>1 DEF WaitLeer, Locales, PcHilo, TypeRecursos, Vale, ConRecurso
<1>4. Vale(v, instancias')
  BY <1>1 DEF Vale, PideWait, ConRecurso, Locales, recursoVars, WaitLeer
<1>5. TypeRecursos'
  BY <1>1 DEF TypeRecursos, planVars, recursoVars, Vale, PideWait, ConRecurso, Locales, WaitLeer
<1>6. HilosBien'
  BY <1>1, <1>3, <1>4, Paso, ZenonT(40) DEF HilosBien, TypeHilos, LocalesValen, DuenoDelMutex, Vale, BajoMutex, recursoVars, WaitLeer
<1>7. QED
  BY <1>5, <1>6

LEMMA BienWaitAsignar ==
  ASSUME TypeRecursos, HilosBien, NEW h \in Hilos, WaitAsignar(h),
         carrera' \subseteq {"datos", "cesion"}
  PROVE  TypeRecursos' /\ HilosBien'
<1>1. hilo[h] \in Locales /\ Vale(hilo[h], instancias)
  BY DEF HilosBien, TypeHilos, LocalesValen
<1> DEFINE v == [hilo[h] EXCEPT !.pc = "soltar"]
<1>3. v \in Locales /\ hilo' = [hilo EXCEPT ![h] = v]
  BY <1>1 DEF WaitAsignar, Poner, Locales, PcHilo
<1>4. Vale(v, instancias')
  BY <1>1 DEF Vale, PideWait, ConRecurso, Locales, recursoVars, WaitAsignar, Anotar
<1>5. TypeRecursos'
  <2> DEFINE p == hilo[h].pcb
             r == hilo[h].recurso
  <2>1. p \in Pids /\ r \in Nombres /\ hilo[h].leido - 1 \in Nat
    BY <1>1 DEF WaitAsignar, Vale, PideWait, ConRecurso, Locales
  <2>2. instancias' \in [Nombres -> Nat]
    BY <2>1 DEF WaitAsignar, TypeRecursos
  <2>3. <<r>> \in Seq(Nombres) /\ \A s \in Seq(Nombres) : Append(s, r) \in Seq(Nombres)
    BY <2>1
  <2>4. asignados' \in [Pids -> Seq(Nombres) \cup {SinLista}]
    BY <2>1, <2>3 DEF WaitAsignar, Anotar, TypeRecursos
  <2>5. QED
    <3>1. Append(enCpu, p) \in Seq(Pids)
      BY <2>1 DEF TypeRecursos
    <3>2. enCpu' \in Seq(Pids) /\ ready' \subseteq Pids
      BY <2>1, <3>1 DEF WaitAsignar, TypeRecursos
    <3>3. QED
      BY <2>2, <2>4, <3>2 DEF WaitAsignar, TypeRecursos
<1>6. HilosBien'
  BY <1>1, <1>3, <1>4, Paso DEF HilosBien, TypeHilos, LocalesValen, DuenoDelMutex, Vale, BajoMutex, recursoVars, WaitAsignar
<1>7. QED
  BY <1>5, <1>6

LEMMA BienWaitBloquear ==
  ASSUME TypeRecursos, HilosBien, NEW h \in Hilos, WaitBloquear(h),
         carrera' \subseteq {"datos", "cesion"}
  PROVE  TypeRecursos' /\ HilosBien'
<1>1. hilo[h] \in Locales /\ Vale(hilo[h], instancias)
  BY DEF HilosBien, TypeHilos, LocalesValen
<1> DEFINE v == [hilo[h] EXCEPT !.pc = "soltar"]
<1>3. v \in Locales /\ hilo' = [hilo EXCEPT ![h] = v]
  BY <1>1 DEF WaitBloquear, Poner, Locales, PcHilo
<1>4. Vale(v, instancias')
  BY <1>1 DEF Vale, PideWait, ConRecurso, Locales, recursoVars, WaitBloquear
<1>5. TypeRecursos'
  BY <1>1 DEF TypeRecursos, planVars, recursoVars, Vale, PideWait, ConRecurso, Locales, WaitBloquear
<1>6. HilosBien'
  BY <1>1, <1>3, <1>4, Paso DEF HilosBien, TypeHilos, LocalesValen, DuenoDelMutex, Vale, BajoMutex, recursoVars, WaitBloquear
<1>7. QED
  BY <1>5, <1>6

LEMMA BienSoltar ==
  ASSUME TypeRecursos, HilosBien, NEW h \in Hilos, Soltar(h),
         carrera' \subseteq {"datos", "cesion"}
  PROVE  TypeRecursos' /\ HilosBien'
<1>1. hilo[h].pc = "soltar"
  BY DEF Soltar
<1>2. PICK v \in Locales : hilo' = [hilo EXCEPT ![h] = v] /\ Vale(v, instancias') /\ ~BajoMutex(h, v.pc)
  BY <1>1, VolverVale DEF Soltar
<1>3. TypeRecursos'
  BY DEF Soltar, TypeRecursos, planVars, recursoVars
<1>4. HilosBien'
  BY <1>1, <1>2, Paso DEF Soltar, HilosBien, TypeHilos, LocalesValen, Vale, BajoMutex, recursoVars
<1>5. QED
  BY <1>3, <1>4

-----------------------------------------------------------------------------
(* handle_signal, and what the long-term planner has in common with it *)

LEMMA BienSignalRechazar ==
  ASSUME TypeRecursos, HilosBien, SignalRechazar,
         carrera' \subseteq {"datos", "cesion"}
  PROVE  TypeRecursos' /\ HilosBien'
<1>1. hilo["dispatch"] \in Locales /\ Vale(hilo["dispatch"], instancias)
  BY DEF HilosBien, TypeHilos, LocalesValen
<1> DEFINE v == EnReposo
<1>3. v \in Locales /\ hilo' = [hilo EXCEPT !["dispatch"] = v]
  BY <1>1 DEF SignalRechazar, EnReposo, Locales, PcHilo
<1>4. Vale(v, instancias')
  BY <1>1 DEF Vale, PideWait, ConRecurso, Locales, recursoVars, SignalRechazar, EnviarAExit, EnReposo
<1>5. TypeRecursos'
  BY <1>1 DEF TypeRecursos, planVars, recursoVars, Vale, PideWait, ConRecurso, Locales, SignalRechazar, EnviarAExit, EnReposo
<1>6. HilosBien'
  BY <1>1, <1>3, <1>4, Paso DEF HilosBien, TypeHilos, LocalesValen, DuenoDelMutex, Vale, BajoMutex, recursoVars, SignalRechazar, EnReposo
<1>7. QED
  BY <1>5, <1>6

LEMMA BienSignalRemover ==
  ASSUME TypeRecursos, HilosBien, SignalRemover,
         carrera' \subseteq {"datos", "cesion"}
  PROVE  TypeRecursos' /\ HilosBien'
<1>1. hilo["dispatch"] \in Locales /\ Vale(hilo["dispatch"], instancias)
  BY DEF HilosBien, TypeHilos, LocalesValen
<1> DEFINE v == [hilo["dispatch"] EXCEPT !.pc = "inc_leer"]
<1>3. v \in Locales /\ hilo' = [hilo EXCEPT !["dispatch"] = v]
  BY <1>1 DEF SignalRemover, Poner, Locales, PcHilo
<1>4. Vale(v, instancias')
  BY <1>1 DEF Vale, PideWait, ConRecurso, Locales, recursoVars, SignalRemover
<1>5. TypeRecursos'
  <2> DEFINE p == hilo["dispatch"].pid
             r == hilo["dispatch"].recurso
  <2>1. p \in Pids /\ r \in Nombres /\ asignados[p] \in Seq(Nombres)
    BY <1>1 DEF SignalRemover, Vale, TypeRecursos
  <2>2. ListRemoveElement(asignados[p], r) \in Seq(Nombres)
    BY <2>1, ListRemoveElementTipo
  <2>3. asignados' \in [Pids -> Seq(Nombres) \cup {SinLista}]
    BY <2>1, <2>2 DEF SignalRemover, TypeRecursos
  <2>4. regalos' \in [Nombres -> Nat]
    <3>1. r \in Nombres /\ regalos \in [Nombres -> Nat]
      BY <2>1 DEF TypeRecursos
    <3>2. UNCHANGED regalos \/ regalos' = [regalos EXCEPT ![r] = @ + 1]
      BY DEF SignalRemover
    <3>3. QED
      BY <3>1, <3>2
  <2>5. QED
    BY <2>3, <2>4 DEF SignalRemover, TypeRecursos, planVars
<1>6. HilosBien'
  BY <1>1, <1>3, <1>4, Paso DEF HilosBien, TypeHilos, LocalesValen, DuenoDelMutex, Vale, BajoMutex, recursoVars, SignalRemover
<1>7. QED
  BY <1>5, <1>6

LEMMA BienIncLeer ==
  ASSUME TypeRecursos, HilosBien, NEW h \in Hilos, IncLeer(h),
         carrera' \subseteq {"datos", "cesion"}
  PROVE  TypeRecursos' /\ HilosBien'
<1>1. hilo[h] \in Locales /\ Vale(hilo[h], instancias)
  BY DEF HilosBien, TypeHilos, LocalesValen
<1> DEFINE v == [hilo[h] EXCEPT !.leido = instancias[hilo[h].recurso], !.pc = "inc_escribir"]
<1>3. v \in Locales /\ hilo' = [hilo EXCEPT ![h] = v]
  BY <1>1 DEF IncLeer, Locales, PcHilo, TypeRecursos, Vale, ConRecurso
<1>4. Vale(v, instancias')
  BY <1>1 DEF Vale, PideWait, ConRecurso, Locales, recursoVars, IncLeer
<1>5. TypeRecursos'
  BY <1>1 DEF TypeRecursos, planVars, recursoVars, Vale, PideWait, ConRecurso, Locales, IncLeer
<1>6. HilosBien'
  <2>1. v.pc = "inc_escribir" /\ hilo[h].pc = "inc_leer" /\ UNCHANGED <<instancias, mutexRecursos, caido>>
    BY <1>1 DEF IncLeer, recursoVars, Locales
  <2>2. BajoMutex(h, v.pc) => mutexRecursos' = h
    BY <2>1 DEF BajoMutex, HilosBien, DuenoDelMutex
  <2>3. \A k \in Hilos \ {h} : hilo[k].pc = "wait_leer" => instancias'[hilo[k].recurso] > 0
    BY <2>1 DEF HilosBien, LocalesValen, Vale
  <2>4. QED
    BY <1>3, <1>4, <2>1, <2>2, <2>3, Paso DEF HilosBien, TypeHilos
<1>7. QED
  BY <1>5, <1>6

LEMMA BienIncEscribir ==
  ASSUME TypeRecursos, HilosBien, NEW h \in Hilos, IncEscribir(h),
         carrera' \subseteq {"datos", "cesion"}
  PROVE  TypeRecursos' /\ HilosBien'
<1>1. hilo[h] \in Locales /\ Vale(hilo[h], instancias)
  BY DEF HilosBien, TypeHilos, LocalesValen
<1> DEFINE v == [hilo[h] EXCEPT !.pc = "mirar_cola"]
<1>3. v \in Locales /\ hilo' = [hilo EXCEPT ![h] = v]
  BY <1>1 DEF IncEscribir, Poner, Locales, PcHilo
<1>4. Vale(v, instancias')
  BY <1>1 DEF Vale, PideWait, ConRecurso, Locales, recursoVars, IncEscribir
<1>5. TypeRecursos'
  BY <1>1 DEF TypeRecursos, planVars, recursoVars, Vale, PideWait, ConRecurso, Locales, IncEscribir
<1>6. HilosBien'
  <2>1. v.pc = "mirar_cola" /\ hilo[h].pc = "inc_escribir" /\ UNCHANGED <<mutexRecursos, caido>>
    BY <1>1 DEF IncEscribir, Locales
  <2>2. BajoMutex(h, v.pc) => mutexRecursos' = h
    BY <2>1 DEF BajoMutex, HilosBien, DuenoDelMutex
  <2>3. \A k \in Hilos \ {h} : hilo[k].pc = "wait_leer" => instancias'[hilo[k].recurso] > 0
    <3>1. \A r \in Nombres : instancias'[r] = instancias[r] \/ instancias'[r] > 0
      BY <1>1 DEF IncEscribir, TypeRecursos, Locales
    <3>2. QED
      BY <3>1 DEF HilosBien, LocalesValen, Vale, ConRecurso
  <2>4. QED
    BY <1>3, <1>4, <2>1, <2>2, <2>3, Paso DEF HilosBien, TypeHilos
<1>7. QED
  BY <1>5, <1>6

LEMMA BienNadieEspera ==
  ASSUME TypeRecursos, HilosBien, NEW h \in Hilos, NEW hacia,
         \/ h = "dispatch" /\ hacia = "signal_soltar"
         \/ h = "largo" /\ hacia = "liberar", NadieEspera(h, hacia),
         carrera' \subseteq {"datos", "cesion"}
  PROVE  TypeRecursos' /\ HilosBien'
<1>1. hilo[h] \in Locales /\ Vale(hilo[h], instancias)
  BY DEF HilosBien, TypeHilos, LocalesValen
<1> DEFINE v == [hilo[h] EXCEPT !.pc = hacia]
<1>3. v \in Locales /\ hilo' = [hilo EXCEPT ![h] = v]
  BY <1>1 DEF NadieEspera, Poner, Locales, PcHilo
<1>4. Vale(v, instancias')
  BY <1>1 DEF Vale, PideWait, ConRecurso, Locales, recursoVars, NadieEspera
<1>5. TypeRecursos'
  BY <1>1 DEF TypeRecursos, planVars, recursoVars, Vale, PideWait, ConRecurso, Locales, NadieEspera
<1>6. HilosBien'
  BY <1>1, <1>3, <1>4, Paso DEF HilosBien, TypeHilos, LocalesValen, DuenoDelMutex, Vale, BajoMutex, recursoVars, NadieEspera
<1>7. QED
  BY <1>5, <1>6

LEMMA BienAlguienEspera ==
  ASSUME TypeRecursos, HilosBien, NEW h \in Hilos, AlguienEspera(h),
         carrera' \subseteq {"datos", "cesion"}
  PROVE  TypeRecursos' /\ HilosBien'
<1>1. hilo[h] \in Locales /\ Vale(hilo[h], instancias)
  BY DEF HilosBien, TypeHilos, LocalesValen
<1> DEFINE v == [hilo[h] EXCEPT !.pc = "desbloquear"]
<1>3. v \in Locales /\ hilo' = [hilo EXCEPT ![h] = v]
  BY <1>1 DEF AlguienEspera, Poner, Locales, PcHilo
<1>4. Vale(v, instancias')
  BY <1>1 DEF Vale, PideWait, ConRecurso, Locales, recursoVars, AlguienEspera
<1>5. TypeRecursos'
  BY <1>1 DEF TypeRecursos, planVars, recursoVars, Vale, PideWait, ConRecurso, Locales, AlguienEspera
<1>6. HilosBien'
  BY <1>1, <1>3, <1>4, Paso DEF HilosBien, TypeHilos, LocalesValen, DuenoDelMutex, Vale, BajoMutex, recursoVars, AlguienEspera
<1>7. QED
  BY <1>5, <1>6

LEMMA BienDesbloquearUno ==
  ASSUME TypeRecursos, HilosBien, NEW h \in Hilos, NEW hacia,
         \/ h = "dispatch" /\ hacia = "signal_soltar"
         \/ h = "largo" /\ hacia = "wait",
         cola[hilo[h].recurso] # <<>>, Desbloquear(h, hacia),
         carrera' \subseteq {"datos", "cesion"}
  PROVE  TypeRecursos' /\ HilosBien'
<1>1. hilo[h] \in Locales /\ Vale(hilo[h], instancias)
  BY DEF HilosBien, TypeHilos, LocalesValen
<1>2. hilo[h].recurso \in Nombres
  BY <1>1 DEF Desbloquear, Vale, ConRecurso
<1>8. /\ Head(cola[hilo[h].recurso]) \in Pids
      /\ Tail(cola[hilo[h].recurso]) \in Seq(Pids)
  BY <1>2, HeadTailProperties DEF TypeRecursos
<1> DEFINE v == [hilo[h] EXCEPT !.pcb = Head(cola[hilo[h].recurso]), !.pc = hacia]
<1>3. v \in Locales /\ hilo' = [hilo EXCEPT ![h] = v]
  BY <1>1, <1>2, <1>8 DEF Desbloquear, Locales, PcHilo
<1>4. Vale(v, instancias')
  BY <1>1, <1>2, <1>8 DEF Vale, PideWait, ConRecurso, Locales, Desbloquear
<1>5. TypeRecursos'
  BY <1>2, <1>8 DEF TypeRecursos, planVars, Desbloquear
<1>6. HilosBien'
  BY <1>1, <1>3, <1>4, Paso, SMTT(60) DEF HilosBien, TypeHilos, LocalesValen, DuenoDelMutex, Vale, BajoMutex, recursoVars, Desbloquear
<1>7. QED
  BY <1>5, <1>6

LEMMA BienDesbloquear ==
  ASSUME TypeRecursos, HilosBien, NEW h \in Hilos, NEW hacia,
         \/ h = "dispatch" /\ hacia = "signal_soltar"
         \/ h = "largo" /\ hacia = "wait",
         Desbloquear(h, hacia), carrera' \subseteq {"datos", "cesion"}
  PROVE  TypeRecursos' /\ HilosBien'
<1>1. CASE cola[hilo[h].recurso] # <<>>
  BY <1>1, BienDesbloquearUno
<1>2. CASE cola[hilo[h].recurso] = <<>>
  <2>1. UNCHANGED <<planVars, recursoVars, mutexRecursos, hilo, regalos>> /\ caido' = TRUE
    BY <1>2 DEF Desbloquear, recursoVars
  <2>2. QED
    BY <2>1 DEF TypeRecursos, planVars, recursoVars, HilosBien, TypeHilos, LocalesValen, Vale, DuenoDelMutex
<1>3. QED
  BY <1>1, <1>2

LEMMA BienSignalSoltar ==
  ASSUME TypeRecursos, HilosBien, SignalSoltar,
         carrera' \subseteq {"datos", "cesion"}
  PROVE  TypeRecursos' /\ HilosBien'
<1>1. hilo["dispatch"] \in Locales /\ Vale(hilo["dispatch"], instancias)
  BY DEF HilosBien, TypeHilos, LocalesValen
<1> DEFINE v == [hilo["dispatch"] EXCEPT !.pc = IF hilo["dispatch"].pcb = Nadie THEN "signal_enviar" ELSE "wait"]
<1>3. v \in Locales /\ hilo' = [hilo EXCEPT !["dispatch"] = v]
  BY <1>1 DEF SignalSoltar, Poner, Locales, PcHilo
<1>4. Vale(v, instancias')
  BY <1>1 DEF Vale, PideWait, ConRecurso, Locales, recursoVars, SignalSoltar
<1>5. TypeRecursos'
  BY <1>1 DEF TypeRecursos, planVars, recursoVars, Vale, PideWait, ConRecurso, Locales, SignalSoltar
<1>6. HilosBien'
  BY <1>1, <1>3, <1>4, Paso DEF HilosBien, TypeHilos, LocalesValen, DuenoDelMutex, Vale, BajoMutex, recursoVars, SignalSoltar
<1>7. QED
  BY <1>5, <1>6

LEMMA BienSignalEnviar ==
  ASSUME TypeRecursos, HilosBien, SignalEnviar,
         carrera' \subseteq {"datos", "cesion"}
  PROVE  TypeRecursos' /\ HilosBien'
<1>1. hilo["dispatch"] \in Locales /\ Vale(hilo["dispatch"], instancias)
  BY DEF HilosBien, TypeHilos, LocalesValen
<1> DEFINE v == EnReposo
<1>3. v \in Locales /\ hilo' = [hilo EXCEPT !["dispatch"] = v]
  BY <1>1 DEF SignalEnviar, EnReposo, Locales, PcHilo
<1>4. Vale(v, instancias')
  BY <1>1 DEF Vale, PideWait, ConRecurso, Locales, recursoVars, SignalEnviar, EnReposo
<1>5. TypeRecursos'
  BY <1>1 DEF TypeRecursos, planVars, recursoVars, Vale, PideWait, ConRecurso, Locales, SignalEnviar, EnReposo
<1>6. HilosBien'
  BY <1>1, <1>3, <1>4, Paso DEF HilosBien, TypeHilos, LocalesValen, DuenoDelMutex, Vale, BajoMutex, recursoVars, SignalEnviar, EnReposo
<1>7. QED
  BY <1>5, <1>6

-----------------------------------------------------------------------------
(* The long-term planner *)

LEMMA BienEndProcess ==
  ASSUME TypeRecursos, HilosBien, EndProcess,
         carrera' \subseteq {"datos", "cesion"}
  PROVE  TypeRecursos' /\ HilosBien'
<1>1. hilo["largo"] \in Locales /\ Vale(hilo["largo"], instancias)
  BY DEF HilosBien, TypeHilos, LocalesValen
<1>2. Head(exit) \in Pids /\ Tail(exit) \in Seq(Pids)
  BY HeadTailProperties DEF EndProcess, TypeRecursos
<1> DEFINE v == [EnReposo EXCEPT !.pc = "liberar", !.pid = Head(exit)]
<1>3. v \in Locales /\ hilo' = [hilo EXCEPT !["largo"] = v]
  BY <1>2 DEF EndProcess, EnReposo, Locales, PcHilo
<1>4. Vale(v, instancias')
  BY <1>2 DEF Vale, PideWait, ConRecurso, Locales, recursoVars, EndProcess, EnReposo, TypeRecursos
<1>5. TypeRecursos'
  BY <1>2 DEF TypeRecursos, planVars, recursoVars, Vale, PideWait, ConRecurso, Locales, EndProcess, EnReposo, TypeRecursos
<1>6. HilosBien'
  BY <1>1, <1>3, <1>4, Paso DEF HilosBien, TypeHilos, LocalesValen, DuenoDelMutex, Vale, BajoMutex, recursoVars, EndProcess, EnReposo
<1>7. QED
  BY <1>5, <1>6

LEMMA BienLiberarUno ==
  ASSUME TypeRecursos, HilosBien, LiberarUno,
         carrera' \subseteq {"datos", "cesion"}
  PROVE  TypeRecursos' /\ HilosBien'
<1>1. hilo["largo"] \in Locales /\ Vale(hilo["largo"], instancias)
  BY DEF HilosBien, TypeHilos, LocalesValen
<1> DEFINE p == hilo["largo"].pid
<1>2. p \in Pids /\ asignados[p] \in Seq(Nombres) /\ asignados[p] # <<>>
  BY <1>1 DEF LiberarUno, Vale, TypeRecursos
<1>8. Head(asignados[p]) \in Nombres /\ Tail(asignados[p]) \in Seq(Nombres)
  BY <1>2, HeadTailProperties
<1> DEFINE v == [hilo["largo"] EXCEPT !.recurso = Head(asignados[p]), !.pcb = Nadie, !.pc = "inc_leer"]
<1>3. v \in Locales /\ hilo' = [hilo EXCEPT !["largo"] = v]
  BY <1>1, <1>8 DEF LiberarUno, Locales, PcHilo
<1>4. Vale(v, instancias')
  BY <1>1, <1>2, <1>8 DEF Vale, PideWait, ConRecurso, Locales
<1>5. TypeRecursos'
  BY <1>2, <1>8 DEF TypeRecursos, planVars, LiberarUno
<1>6. HilosBien'
  <2>1. v.pc = "inc_leer" /\ UNCHANGED <<instancias, mutexRecursos, caido>>
    BY <1>1 DEF LiberarUno, Locales
  <2>2. ~BajoMutex("largo", v.pc)
    BY <2>1 DEF BajoMutex
  <2>3. \A k \in Hilos \ {"largo"} : hilo[k].pc = "wait_leer" => instancias'[hilo[k].recurso] > 0
    BY <2>1 DEF HilosBien, LocalesValen, Vale
  <2>4. QED
    BY <1>3, <1>4, <2>1, <2>2, <2>3, Paso DEF HilosBien, TypeHilos
<1>7. QED
  BY <1>5, <1>6

LEMMA BienFreeResource ==
  ASSUME TypeRecursos, HilosBien, FreeResource,
         carrera' \subseteq {"datos", "cesion"}
  PROVE  TypeRecursos' /\ HilosBien'
<1>1. hilo["largo"] \in Locales /\ Vale(hilo["largo"], instancias)
  BY DEF HilosBien, TypeHilos, LocalesValen
<1> DEFINE v == EnReposo
<1>3. v \in Locales /\ hilo' = [hilo EXCEPT !["largo"] = v]
  BY <1>1 DEF FreeResource, EnReposo, Locales, PcHilo
<1>4. Vale(v, instancias')
  BY <1>1 DEF Vale, PideWait, ConRecurso, Locales, recursoVars, FreeResource, EnReposo
<1>5. TypeRecursos'
  BY <1>1, ListRemoveElementTipo DEF TypeRecursos, planVars, recursoVars, Vale, PideWait, ConRecurso, Locales, FreeResource, EnReposo
<1>6. HilosBien'
  BY <1>1, <1>3, <1>4, Paso DEF HilosBien, TypeHilos, LocalesValen, DuenoDelMutex, Vale, BajoMutex, recursoVars, FreeResource, EnReposo
<1>7. QED
  BY <1>5, <1>6

-----------------------------------------------------------------------------
(* The requests of the CPU *)

LEMMA BienPedirWait ==
  ASSUME TypeRecursos, HilosBien, NEW r \in Nombres \cup {Desconocido}, PedirWait(r),
         carrera' \subseteq {"datos", "cesion"}
  PROVE  TypeRecursos' /\ HilosBien'
<1>1. hilo["dispatch"] \in Locales /\ Vale(hilo["dispatch"], instancias)
  BY DEF HilosBien, TypeHilos, LocalesValen
<1>2. Head(enCpu) \in Pids /\ Tail(enCpu) \in Seq(Pids)
  BY HeadTailProperties DEF PedirWait, TypeRecursos
<1> DEFINE v == [EnReposo EXCEPT !.pc = "wait", !.pid = Head(enCpu), !.pcb = Head(enCpu), !.recurso = r]
<1>3. v \in Locales /\ hilo' = [hilo EXCEPT !["dispatch"] = v]
  BY <1>2 DEF PedirWait, EnReposo, Locales, PcHilo
<1>4. Vale(v, instancias')
  BY <1>2 DEF Vale, PideWait, ConRecurso, Locales, recursoVars, PedirWait, EnReposo, TypeRecursos
<1>5. TypeRecursos'
  BY <1>2 DEF TypeRecursos, planVars, recursoVars, Vale, PideWait, ConRecurso, Locales, PedirWait, EnReposo, TypeRecursos
<1>6. HilosBien'
  BY <1>1, <1>3, <1>4, Paso DEF HilosBien, TypeHilos, LocalesValen, DuenoDelMutex, Vale, BajoMutex, recursoVars, PedirWait, EnReposo
<1>7. QED
  BY <1>5, <1>6

LEMMA BienPedirSignal ==
  ASSUME TypeRecursos, HilosBien, NEW r \in Nombres \cup {Desconocido}, PedirSignal(r),
         carrera' \subseteq {"datos", "cesion"}
  PROVE  TypeRecursos' /\ HilosBien'
<1>1. hilo["dispatch"] \in Locales /\ Vale(hilo["dispatch"], instancias)
  BY DEF HilosBien, TypeHilos, LocalesValen
<1>2. Head(enCpu) \in Pids /\ Tail(enCpu) \in Seq(Pids)
  BY HeadTailProperties DEF PedirSignal, TypeRecursos
<1> DEFINE v == [EnReposo EXCEPT !.pc = "signal", !.pid = Head(enCpu), !.recurso = r]
<1>3. v \in Locales /\ hilo' = [hilo EXCEPT !["dispatch"] = v]
  BY <1>2 DEF PedirSignal, EnReposo, Locales, PcHilo
<1>4. Vale(v, instancias')
  BY <1>2 DEF Vale, PideWait, ConRecurso, Locales, recursoVars, PedirSignal, EnReposo, TypeRecursos
<1>5. TypeRecursos'
  BY <1>2 DEF TypeRecursos, planVars, recursoVars, Vale, PideWait, ConRecurso, Locales, PedirSignal, EnReposo, TypeRecursos
<1>6. HilosBien'
  BY <1>1, <1>3, <1>4, Paso DEF HilosBien, TypeHilos, LocalesValen, DuenoDelMutex, Vale, BajoMutex, recursoVars, PedirSignal, EnReposo
<1>7. QED
  BY <1>5, <1>6

-----------------------------------------------------------------------------
(* The step of either thread, and of the planning around them *)

LEMMA BienRecursos ==
  ASSUME Bien, RecursosNext, UNCHANGED ioVars, carrera' = carrera \cup Coinciden'
  PROVE  Bien'
<1>1. TypeRecursos /\ HilosBien /\ TypeInterfaces /\ AtendidoValen
  BY DEF Bien
<1>2. carrera' \subseteq {"datos", "cesion"}
  BY <1>1 DEF HilosBien, TypeHilos, Coinciden
<1>3. TypeInterfaces' /\ AtendidoValen'
  BY <1>1 DEF ioVars, TypeInterfaces, AtendidoValen
<1>4. ASSUME NEW h \in Hilos, HandleWait(h)
      PROVE  TypeRecursos' /\ HilosBien'
  BY <1>1, <1>2, <1>4, BienTomarMutex, BienWaitDesconocido, BienWaitMirar, BienWaitLeer,
     BienWaitAsignar, BienWaitBloquear, BienSoltar DEF HandleWait
<1>5. ASSUME HandleSignal PROVE TypeRecursos' /\ HilosBien'
  BY <1>1, <1>2, <1>5, BienTomarMutex, BienSignalRechazar, BienSignalRemover, BienIncLeer,
     BienIncEscribir, BienNadieEspera, BienAlguienEspera, BienDesbloquear, BienSignalSoltar,
     BienSignalEnviar DEF HandleSignal
<1>6. ASSUME LargoPlazo PROVE TypeRecursos' /\ HilosBien'
  BY <1>1, <1>2, <1>6, BienEndProcess, BienLiberarUno, BienIncLeer, BienIncEscribir,
     BienNadieEspera, BienAlguienEspera, BienDesbloquear, BienFreeResource DEF LargoPlazo
<1>7. ASSUME NEW p \in Pids, Ejecutar(p)
      PROVE  TypeRecursos' /\ HilosBien'
  <2>1. UNCHANGED <<instancias, hilo, mutexRecursos, caido>>
    BY <1>7 DEF Ejecutar, recursoVars
  <2>2. HilosBien'
    BY <1>1, <1>2, <2>1 DEF HilosBien, TypeHilos, LocalesValen, Vale, DuenoDelMutex
  <2>3. TypeRecursos'
    BY <1>1, <1>7 DEF Ejecutar, TypeRecursos, recursoVars
  <2>4. QED
    BY <2>2, <2>3
<1>8. ASSUME Desalojar \/ Salir PROVE TypeRecursos' /\ HilosBien'
  <2>1. UNCHANGED <<instancias, hilo, mutexRecursos, caido>>
    BY <1>8 DEF Desalojar, Salir, recursoVars
  <2>2. HilosBien'
    BY <1>1, <1>2, <2>1 DEF HilosBien, TypeHilos, LocalesValen, Vale, DuenoDelMutex
  <2>3. enCpu # <<>>
    BY <1>8 DEF Desalojar, Salir
  <2>4. Head(enCpu) \in Pids /\ Tail(enCpu) \in Seq(Pids)
    BY <1>1, <2>3, HeadTailProperties DEF TypeRecursos
  <2>5. TypeRecursos'
    <3>1. Append(exit, Head(enCpu)) \in Seq(Pids)
      BY <1>1, <2>4 DEF TypeRecursos
    <3>2. exit' \in Seq(Pids) /\ ready' \subseteq Pids /\ enCpu' \in Seq(Pids) /\ semCpu' \in Nat
      <4>1. CASE Desalojar
        BY <1>1, <2>4, <4>1 DEF Desalojar, TypeRecursos
      <4>2. CASE Salir
        BY <1>1, <2>4, <3>1, <4>2 DEF Salir, TypeRecursos
      <4>3. QED
        BY <1>8, <4>1, <4>2
    <3>3. UNCHANGED <<liberados, recursoVars, regalos>>
      BY <1>8 DEF Desalojar, Salir
    <3>4. QED
      BY <1>1, <3>2, <3>3 DEF TypeRecursos, recursoVars
  <2>6. QED
    BY <2>2, <2>5
<1>9. ASSUME NEW r \in Nombres \cup {Desconocido}, PedirWait(r) \/ PedirSignal(r)
      PROVE  TypeRecursos' /\ HilosBien'
  BY <1>1, <1>2, <1>9, BienPedirWait, BienPedirSignal
<1>10. TypeRecursos' /\ HilosBien'
  BY <1>4, <1>5, <1>6, <1>7, <1>8, <1>9 DEF RecursosNext, Dispatch, Largo
<1>11. QED
  BY <1>3, <1>10 DEF Bien

-----------------------------------------------------------------------------
(* The interfaces *)

LEMMA HilosMarco ==
  ASSUME HilosBien, UNCHANGED <<instancias, hilo, mutexRecursos, caido>>,
         carrera' = carrera \cup Coinciden'
  PROVE  HilosBien'
<1>1. carrera' \subseteq {"datos", "cesion"}
  BY DEF HilosBien, TypeHilos, Coinciden
<1>2. QED
  BY <1>1 DEF HilosBien, TypeHilos, LocalesValen, Vale, DuenoDelMutex

LEMMA BienInterfaces ==
  ASSUME Bien, InterfacesNext, carrera' = carrera \cup Coinciden'
  PROVE  Bien'
<1>1. TypeRecursos /\ HilosBien /\ TypeInterfaces /\ AtendidoValen
  BY DEF Bien
<1>2. PICK i \in Ios : Conectar(i) \/ Desconectar(i) \/ Responder(i) \/ Callar(i)
                         \/ PedirIo(i) \/ AtenderKernelIO(i)
  BY DEF InterfacesNext
<1>3. CASE Conectar(i) \/ Desconectar(i) \/ Responder(i) \/ Callar(i)
  <2>1. UNCHANGED <<planVars, recursoVars, mutexRecursos, hilo, caido, regalos>>
    BY <1>3 DEF Conectar, Desconectar, Responder, Callar
  <2>2. TypeRecursos' /\ HilosBien'
    BY <1>1, <2>1, HilosMarco DEF TypeRecursos, planVars, recursoVars
  <2>3. TypeInterfaces' /\ AtendidoValen'
    BY <1>1, <1>3 DEF TypeInterfaces, AtendidoValen, Conectar, Desconectar, Responder, Callar
  <2>4. QED
    BY <2>2, <2>3 DEF Bien
<1>4. CASE PedirIo(i)
  <2>1. enCpu # <<>> /\ UNCHANGED <<recursoVars, mutexRecursos, hilo, caido, regalos, liberados, ready>>
    BY <1>4 DEF PedirIo
  <2>2. Head(enCpu) \in Pids /\ Tail(enCpu) \in Seq(Pids)
    BY <1>1, <2>1, HeadTailProperties DEF TypeRecursos
  <2>3. exit' \in Seq(Pids) /\ bloqueados' \in [Ios -> Seq(Pids)] /\ semBloqueados' \in [Ios -> Nat]
    <3>1. Append(exit, Head(enCpu)) \in Seq(Pids) /\ Append(bloqueados[i], Head(enCpu)) \in Seq(Pids)
      BY <1>1, <2>2 DEF TypeRecursos, TypeInterfaces
    <3>2. CASE conexion[i] = "ausente"
      BY <1>1, <1>4, <3>1, <3>2 DEF PedirIo, TypeRecursos, TypeInterfaces
    <3>3. CASE conexion[i] # "ausente"
      <4>1. /\ bloqueados' = [bloqueados EXCEPT ![i] = Append(@, Head(enCpu))]
            /\ semBloqueados' = [semBloqueados EXCEPT ![i] = @ + 1]
            /\ UNCHANGED exit
        BY <1>4, <3>3 DEF PedirIo
      <4>2. QED
        BY <1>1, <3>1, <4>1 DEF TypeRecursos, TypeInterfaces
    <3>4. QED
      BY <3>2, <3>3
  <2>4. TypeRecursos'
    BY <1>1, <1>4, <2>1, <2>2, <2>3 DEF PedirIo, TypeRecursos, recursoVars
  <2>5. TypeInterfaces' /\ AtendidoValen'
    BY <1>1, <1>4, <2>3 DEF PedirIo, TypeInterfaces, AtendidoValen
  <2>6. HilosBien'
    BY <1>1, <2>1, HilosMarco DEF recursoVars
  <2>7. QED
    BY <2>4, <2>5, <2>6 DEF Bien
<1>5. CASE AtenderTomar(i)
  <2>1. UNCHANGED <<planVars, recursoVars, mutexRecursos, hilo, caido, regalos>>
    BY <1>5 DEF AtenderTomar
  <2>2. TypeRecursos' /\ HilosBien'
    BY <1>1, <2>1, HilosMarco DEF TypeRecursos, planVars, recursoVars
  <2>3. bloqueados[i] # <<>> => Head(bloqueados[i]) \in Pids /\ Tail(bloqueados[i]) \in Seq(Pids)
    BY <1>1, HeadTailProperties DEF TypeInterfaces
  <2>4. TypeInterfaces' /\ AtendidoValen'
    <3>1. semBloqueados' \in [Ios -> Nat] /\ UNCHANGED <<conexion, pedido>>
      BY <1>1, <1>5 DEF AtenderTomar, TypeInterfaces
    <3>2. CASE bloqueados[i] = <<>>
      BY <1>1, <1>5, <3>1, <3>2 DEF AtenderTomar, TypeInterfaces, AtendidoValen
    <3>3. CASE bloqueados[i] # <<>>
      <4>1. /\ hiloIo' = [hiloIo EXCEPT ![i] = "enviar"]
            /\ atendido' = [atendido EXCEPT ![i] = Head(bloqueados[i])]
            /\ bloqueados' = [bloqueados EXCEPT ![i] = Tail(@)]
        BY <1>5, <3>3 DEF AtenderTomar, ObtenerProcesoBloqueado
      <4>2. bloqueados' \in [Ios -> Seq(Pids)]
        BY <1>1, <2>3, <3>3, <4>1 DEF TypeInterfaces
      <4>3. QED
        BY <1>1, <2>3, <3>1, <3>3, <4>1, <4>2 DEF TypeInterfaces, AtendidoValen
    <3>4. QED
      BY <3>2, <3>3
  <2>5. QED
    BY <2>2, <2>4 DEF Bien
<1>6. CASE AtenderEnviar(i)
  <2>1. UNCHANGED <<planVars, recursoVars, mutexRecursos, hilo, caido, regalos>>
    BY <1>6 DEF AtenderEnviar
  <2>2. TypeRecursos' /\ HilosBien'
    BY <1>1, <2>1, HilosMarco DEF TypeRecursos, planVars, recursoVars
  <2>3. TypeInterfaces' /\ AtendidoValen'
    BY <1>1, <1>6 DEF AtenderEnviar, TypeInterfaces, AtendidoValen
  <2>4. QED
    BY <2>2, <2>3 DEF Bien
<1>7. CASE AtenderEnvioFallido(i) \/ AtenderRespuesta(i)
  <2>1. UNCHANGED <<enCpu, semCpu, liberados, recursoVars, mutexRecursos, hilo, caido, regalos>>
    BY <1>7 DEF AtenderEnvioFallido, AtenderRespuesta
  <2>2. HilosBien'
    BY <1>1, <2>1, HilosMarco DEF recursoVars
  <2>3. atendido[i] \in Pids
    BY <1>1, <1>7 DEF AtenderEnvioFallido, AtenderRespuesta, AtendidoValen
  <2>4. TypeRecursos'
    <3>1. Append(exit, atendido[i]) \in Seq(Pids)
      BY <1>1, <2>3 DEF TypeRecursos
    <3>2. exit' \in Seq(Pids) /\ ready' \subseteq Pids
      BY <1>1, <1>7, <2>3, <3>1 DEF AtenderEnvioFallido, AtenderRespuesta, TypeRecursos
    <3>3. QED
      BY <1>1, <2>1, <3>2 DEF TypeRecursos, recursoVars
  <2>5. TypeInterfaces' /\ AtendidoValen'
    BY <1>1, <1>7 DEF AtenderEnvioFallido, AtenderRespuesta, TypeInterfaces, AtendidoValen
  <2>6. QED
    BY <2>2, <2>4, <2>5 DEF Bien
<1>8. QED
  BY <1>2, <1>3, <1>4, <1>5, <1>6, <1>7 DEF AtenderKernelIO, Bien

-----------------------------------------------------------------------------
LEMMA BienSiempre == BloqueosSpec => []Bien
<1>1. ASSUME Bien, [BloqueosNext]_todas PROVE Bien'
  <2>1. CASE BloqueosNext
    BY <1>1, <2>1, BienRecursos, BienInterfaces DEF BloqueosNext
  <2>2. CASE UNCHANGED todas
    <3>1. UNCHANGED <<planVars, recursoVars, mutexRecursos, hilo, caido, regalos, carrera, ioVars>>
      BY <2>2 DEF todas, vars
    <3>2. QED
      BY <1>1, <3>1 DEF Bien, HilosBien, TypeRecursos, TypeInterfaces, AtendidoValen, TypeHilos,
         LocalesValen, Vale, DuenoDelMutex, planVars, recursoVars, ioVars
  <2>3. QED
    BY <1>1, <2>1, <2>2
<1>2. QED
  BY <1>1, BienInicial, PTL DEF BloqueosSpec

(* Whatever the CPU asks for, in any order of both threads and of the        *)
(* interfaces, every variable of the resources keeps its type: in particular *)
(* no resource has a negative number of instances (recursos.c).              *)
THEOREM TiposDeBloqueos == BloqueosSpec => []TypeBloqueos
<1>1. Bien => TypeBloqueos
  BY DEF Bien, HilosBien, TypeBloqueos
<1>2. QED
  BY <1>1, BienSiempre, PTL

(* The thread that works under MUTEX_RECURSOS has it, although three returns *)
(* of handle_wait and handle_signal keep it locked (recursos.c).             *)
THEOREM MutexConDueno == BloqueosSpec => []DuenoDelMutex
<1>1. Bien => DuenoDelMutex
  BY DEF Bien, HilosBien
<1>2. QED
  BY <1>1, BienSiempre, PTL

-----------------------------------------------------------------------------
(***************************************************************************)
(* One turn of the CPU.                                                    *)
(***************************************************************************)
De(h, v) == h = "largo" \/ v.pcb # v.pid

(* A thread that gave an instance back and has not yet found nobody, or has  *)
(* not yet assigned it to the process it unblocked, counts on it.            *)
Reclama(h, v) ==
  \/ v.pc \in {"mirar_cola", "desbloquear"}
  \/ h = "dispatch" /\ v.pc = "signal_soltar" /\ v.pcb # Nadie
  \/ v.pc \in {"wait", "wait_buscar", "wait_leer", "wait_asignar"} /\ De(h, v)

(* While both threads have not met on a resource, the instance is there, what *)
(* was read of the instances is what they are, and whoever blocks is the      *)
(* process that came from the CPU.                                            *)
Sola(h, v, inst) ==
  /\ Reclama(h, v) => v.recurso \in Nombres /\ inst[v.recurso] >= 1
  /\ v.pc \in {"inc_escribir", "wait_asignar"} => v.leido = inst[v.recurso]
  /\ v.pc = "wait_bloquear" => ~De(h, v)

Ambas ==
  /\ Reclama("dispatch", hilo["dispatch"])
  /\ Reclama("largo", hilo["largo"])
  /\ hilo["dispatch"].recurso = hilo["largo"].recurso
  => instancias[hilo["largo"].recurso] >= 2

Reservas == Ambas /\ \A h \in Hilos : Sola(h, hilo[h], instancias)

Turno == semCpu + Len(enCpu) + (IF ConTurno THEN 1 ELSE 0) = 1

SinCruce == carrera = {} => Coinciden = {} /\ Reservas /\ Turno

LEMMA SinCruceInicial == InterfacesInit => SinCruce
<1> SUFFICES ASSUME InterfacesInit PROVE SinCruce
  OBVIOUS
<1>1. /\ semCpu = 1 /\ Len(enCpu) = 0 /\ hilo["dispatch"].pc = "reposo"
      /\ hilo["largo"].pc = "reposo"
  BY DEF InterfacesInit, Init, EnReposo
<1>2. Turno
  BY <1>1 DEF Turno, ConTurno
<1>3. Reservas /\ Coinciden = {}
  BY <1>1 DEF Reservas, Ambas, Sola, Reclama, Coinciden, SinMutex
<1>4. QED
  BY <1>2, <1>3 DEF SinCruce

(* A step that leaves the instances as they are and claims nothing new       *)
LEMMA PasoReservas ==
  ASSUME HilosBien, Reservas, NEW h \in Hilos, NEW v \in Locales,
         hilo' = [hilo EXCEPT ![h] = v], UNCHANGED instancias,
         Reclama(h, v) => Reclama(h, hilo[h]) /\ v.recurso = hilo[h].recurso,
         Sola(h, v, instancias)
  PROVE  Reservas'
<1>1. hilo'[h] = v /\ \A k \in Hilos \ {h} : hilo'[k] = hilo[k]
  BY DEF HilosBien, TypeHilos
<1>2. \A k \in Hilos : Sola(k, hilo'[k], instancias')
  BY <1>1 DEF Reservas
<1>3. CASE h = "dispatch"
  <2>1. hilo'["dispatch"] = v /\ hilo'["largo"] = hilo["largo"]
    BY <1>1, <1>3
  <2>2. Ambas'
    BY <1>3, <2>1 DEF Ambas, Reservas
  <2>3. QED
    BY <1>2, <2>2 DEF Reservas
<1>4. CASE h = "largo"
  <2>1. hilo'["largo"] = v /\ hilo'["dispatch"] = hilo["dispatch"]
    BY <1>1, <1>4
  <2>2. Ambas'
    BY <1>4, <2>1 DEF Ambas, Reservas
  <2>3. QED
    BY <1>2, <2>2 DEF Reservas
<1>5. QED
  BY <1>3, <1>4

(* A step after which the dispatch thread has the turn as before             *)
LEMMA PasoTurno ==
  ASSUME Turno, UNCHANGED <<semCpu, enCpu>>, ConTurno' = ConTurno
  PROVE  Turno'
  BY DEF Turno

LEMMA TurnoDeLargo ==
  ASSUME HilosBien, NEW v \in Locales, hilo' = [hilo EXCEPT !["largo"] = v]
  PROVE  ConTurno' = ConTurno
  BY DEF HilosBien, TypeHilos, ConTurno, DesdeSignal

LEMMA TurnoTomarMutex ==
  ASSUME HilosBien, TypeRecursos, Coinciden = {}, Reservas, Turno,
         NEW h \in Hilos, NEW desde, NEW hacia,
         \/ desde = "wait" /\ hacia = "wait_buscar"
         \/ desde = "signal" /\ hacia = "signal_buscar" /\ h = "dispatch",
         TomarMutex(h, desde, hacia)
  PROVE  Reservas' /\ Turno'
<1>1. hilo[h] \in Locales /\ Vale(hilo[h], instancias) /\ Sola(h, hilo[h], instancias)
  BY DEF HilosBien, TypeHilos, LocalesValen, Reservas
<1> DEFINE v == [hilo[h] EXCEPT !.pc = hacia]
<1>2. v \in Locales /\ hilo' = [hilo EXCEPT ![h] = v] /\ UNCHANGED instancias
  BY <1>1 DEF TomarMutex, Poner, recursoVars, Locales, PcHilo, Vale, PideWait, ConRecurso, TypeRecursos, EnReposo
<1>3. Sola(h, v, instancias) /\ (Reclama(h, v) => Reclama(h, hilo[h]) /\ v.recurso = hilo[h].recurso)
  BY <1>1, RecursosAssumption DEF TomarMutex, Sola, Reclama, De, Vale, PideWait, ConRecurso, Locales, EnReposo
<1>4. Reservas'
  BY <1>2, <1>3, PasoReservas
<1>5. Turno'
  <2>1. ConTurno' = ConTurno
    BY <1>1, <1>2, TurnoDeLargo DEF TomarMutex, ConTurno, DesdeSignal, HilosBien, TypeHilos, Locales
  <2>2. QED
    BY <2>1, PasoTurno DEF TomarMutex, planVars
<1>6. QED
  BY <1>4, <1>5

LEMMA TurnoWaitMirar ==
  ASSUME HilosBien, TypeRecursos, Coinciden = {}, Reservas, Turno, NEW h \in Hilos, WaitMirar(h)
  PROVE  Reservas' /\ Turno'
<1>1. hilo[h] \in Locales /\ Vale(hilo[h], instancias) /\ Sola(h, hilo[h], instancias)
  BY DEF HilosBien, TypeHilos, LocalesValen, Reservas
<1> DEFINE pc == IF instancias[hilo[h].recurso] > 0 THEN "wait_leer" ELSE "wait_bloquear"
           v  == [hilo[h] EXCEPT !.pc = pc]
<1>2. v \in Locales /\ hilo' = [hilo EXCEPT ![h] = v] /\ UNCHANGED instancias
  BY <1>1 DEF WaitMirar, Poner, recursoVars, Locales, PcHilo
<1>3. Sola(h, v, instancias) /\ (Reclama(h, v) => Reclama(h, hilo[h]) /\ v.recurso = hilo[h].recurso)
  <2>1. /\ v.pc = pc /\ v.recurso = hilo[h].recurso /\ De(h, v) = De(h, hilo[h])
        /\ hilo[h].pc = "wait_buscar"
    BY <1>1 DEF Locales, De, WaitMirar
  <2>2. hilo[h].recurso \in Nombres /\ instancias[hilo[h].recurso] \in Nat
    BY DEF WaitMirar, TypeRecursos
  <2>3. De(h, v) => instancias[hilo[h].recurso] >= 1
    BY <1>1, <2>1 DEF Sola, Reclama
  <2>4. pc = "wait_bloquear" => ~De(h, v)
    BY <2>2, <2>3
  <2>5. pc \in {"wait_leer", "wait_bloquear"}
    OBVIOUS
  <2>6. QED
    BY <2>1, <2>2, <2>3, <2>4, <2>5 DEF Sola, Reclama
<1>4. Reservas'
  BY <1>2, <1>3, PasoReservas
<1>5. Turno'
  <2>1. ConTurno' = ConTurno
    BY <1>1, <1>2, TurnoDeLargo DEF WaitMirar, ConTurno, DesdeSignal, HilosBien, TypeHilos, Locales
  <2>2. QED
    BY <2>1, PasoTurno DEF WaitMirar, planVars
<1>6. QED
  BY <1>4, <1>5

LEMMA TurnoWaitLeer ==
  ASSUME HilosBien, TypeRecursos, Coinciden = {}, Reservas, Turno, NEW h \in Hilos, WaitLeer(h)
  PROVE  Reservas' /\ Turno'
<1>1. hilo[h] \in Locales /\ Vale(hilo[h], instancias) /\ Sola(h, hilo[h], instancias)
  BY DEF HilosBien, TypeHilos, LocalesValen, Reservas
<1> DEFINE v == [hilo[h] EXCEPT !.leido = instancias[hilo[h].recurso], !.pc = "wait_asignar"]
<1>2. v \in Locales /\ hilo' = [hilo EXCEPT ![h] = v] /\ UNCHANGED instancias
  BY <1>1 DEF WaitLeer, Poner, recursoVars, Locales, PcHilo, Vale, PideWait, ConRecurso, TypeRecursos, EnReposo
<1>3. Sola(h, v, instancias) /\ (Reclama(h, v) => Reclama(h, hilo[h]) /\ v.recurso = hilo[h].recurso)
  BY <1>1, RecursosAssumption DEF WaitLeer, Sola, Reclama, De, Vale, PideWait, ConRecurso, Locales, EnReposo
<1>4. Reservas'
  BY <1>2, <1>3, PasoReservas
<1>5. Turno'
  <2>1. ConTurno' = ConTurno
    BY <1>1, <1>2, TurnoDeLargo DEF WaitLeer, ConTurno, DesdeSignal, HilosBien, TypeHilos, Locales
  <2>2. QED
    BY <2>1, PasoTurno DEF WaitLeer, planVars
<1>6. QED
  BY <1>4, <1>5

LEMMA TurnoSignalRemover ==
  ASSUME HilosBien, TypeRecursos, Coinciden = {}, Reservas, Turno, SignalRemover
  PROVE  Reservas' /\ Turno'
<1>1. hilo["dispatch"] \in Locales /\ Vale(hilo["dispatch"], instancias) /\ Sola("dispatch", hilo["dispatch"], instancias)
  BY DEF HilosBien, TypeHilos, LocalesValen, Reservas
<1> DEFINE v == [hilo["dispatch"] EXCEPT !.pc = "inc_leer"]
<1>2. v \in Locales /\ hilo' = [hilo EXCEPT !["dispatch"] = v] /\ UNCHANGED instancias
  BY <1>1 DEF SignalRemover, Poner, recursoVars, Locales, PcHilo, Vale, PideWait, ConRecurso, TypeRecursos, EnReposo
<1>3. Sola("dispatch", v, instancias) /\ (Reclama("dispatch", v) => Reclama("dispatch", hilo["dispatch"]) /\ v.recurso = hilo["dispatch"].recurso)
  BY <1>1, RecursosAssumption DEF SignalRemover, Sola, Reclama, De, Vale, PideWait, ConRecurso, Locales, EnReposo
<1>4. Reservas'
  BY <1>2, <1>3, PasoReservas
<1>5. Turno'
  <2>1. ConTurno' = ConTurno
    BY <1>1, <1>2, TurnoDeLargo DEF SignalRemover, ConTurno, DesdeSignal, HilosBien, TypeHilos, Locales
  <2>2. QED
    BY <2>1, PasoTurno DEF SignalRemover, planVars
<1>6. QED
  BY <1>4, <1>5

LEMMA TurnoIncLeer ==
  ASSUME HilosBien, TypeRecursos, Coinciden = {}, Reservas, Turno, NEW h \in Hilos, IncLeer(h)
  PROVE  Reservas' /\ Turno'
<1>1. hilo[h] \in Locales /\ Vale(hilo[h], instancias) /\ Sola(h, hilo[h], instancias)
  BY DEF HilosBien, TypeHilos, LocalesValen, Reservas
<1> DEFINE v == [hilo[h] EXCEPT !.leido = instancias[hilo[h].recurso], !.pc = "inc_escribir"]
<1>2. v \in Locales /\ hilo' = [hilo EXCEPT ![h] = v] /\ UNCHANGED instancias
  BY <1>1 DEF IncLeer, Poner, recursoVars, Locales, PcHilo, Vale, PideWait, ConRecurso, TypeRecursos, EnReposo
<1>3. Sola(h, v, instancias) /\ (Reclama(h, v) => Reclama(h, hilo[h]) /\ v.recurso = hilo[h].recurso)
  BY <1>1, RecursosAssumption DEF IncLeer, Sola, Reclama, De, Vale, PideWait, ConRecurso, Locales, EnReposo
<1>4. Reservas'
  BY <1>2, <1>3, PasoReservas
<1>5. Turno'
  <2>1. ConTurno' = ConTurno
    BY <1>1, <1>2, TurnoDeLargo, SMTT(60) DEF IncLeer, ConTurno, DesdeSignal, HilosBien, TypeHilos, Locales
  <2>2. QED
    BY <2>1, PasoTurno DEF IncLeer, planVars
<1>6. QED
  BY <1>4, <1>5

LEMMA TurnoNadieEspera ==
  ASSUME HilosBien, TypeRecursos, Coinciden = {}, Reservas, Turno,
         NEW h \in Hilos, NEW hacia,
         \/ h = "dispatch" /\ hacia = "signal_soltar"
         \/ h = "largo" /\ hacia = "liberar",
         NadieEspera(h, hacia)
  PROVE  Reservas' /\ Turno'
<1>1. hilo[h] \in Locales /\ Vale(hilo[h], instancias) /\ Sola(h, hilo[h], instancias)
  BY DEF HilosBien, TypeHilos, LocalesValen, Reservas
<1> DEFINE v == [hilo[h] EXCEPT !.pc = hacia]
<1>2. v \in Locales /\ hilo' = [hilo EXCEPT ![h] = v] /\ UNCHANGED instancias
  BY <1>1 DEF NadieEspera, Poner, recursoVars, Locales, PcHilo, Vale, PideWait, ConRecurso, TypeRecursos, EnReposo
<1>3. Sola(h, v, instancias) /\ (Reclama(h, v) => Reclama(h, hilo[h]) /\ v.recurso = hilo[h].recurso)
  BY <1>1, RecursosAssumption DEF NadieEspera, Sola, Reclama, De, Vale, PideWait, ConRecurso, Locales, EnReposo
<1>4. Reservas'
  BY <1>2, <1>3, PasoReservas
<1>5. Turno'
  <2>1. ConTurno' = ConTurno
    BY <1>1, <1>2, TurnoDeLargo DEF NadieEspera, ConTurno, DesdeSignal, HilosBien, TypeHilos, Locales
  <2>2. QED
    BY <2>1, PasoTurno DEF NadieEspera, planVars
<1>6. QED
  BY <1>4, <1>5

LEMMA TurnoAlguienEspera ==
  ASSUME HilosBien, TypeRecursos, Coinciden = {}, Reservas, Turno, NEW h \in Hilos, AlguienEspera(h)
  PROVE  Reservas' /\ Turno'
<1>1. hilo[h] \in Locales /\ Vale(hilo[h], instancias) /\ Sola(h, hilo[h], instancias)
  BY DEF HilosBien, TypeHilos, LocalesValen, Reservas
<1> DEFINE v == [hilo[h] EXCEPT !.pc = "desbloquear"]
<1>2. v \in Locales /\ hilo' = [hilo EXCEPT ![h] = v] /\ UNCHANGED instancias
  BY <1>1 DEF AlguienEspera, Poner, recursoVars, Locales, PcHilo, Vale, PideWait, ConRecurso, TypeRecursos, EnReposo
<1>3. Sola(h, v, instancias) /\ (Reclama(h, v) => Reclama(h, hilo[h]) /\ v.recurso = hilo[h].recurso)
  BY <1>1, RecursosAssumption DEF AlguienEspera, Sola, Reclama, De, Vale, PideWait, ConRecurso, Locales, EnReposo
<1>4. Reservas'
  BY <1>2, <1>3, PasoReservas
<1>5. Turno'
  <2>1. ConTurno' = ConTurno
    BY <1>1, <1>2, TurnoDeLargo DEF AlguienEspera, ConTurno, DesdeSignal, HilosBien, TypeHilos, Locales
  <2>2. QED
    BY <2>1, PasoTurno DEF AlguienEspera, planVars
<1>6. QED
  BY <1>4, <1>5

LEMMA TurnoSignalSoltar ==
  ASSUME HilosBien, TypeRecursos, Coinciden = {}, Reservas, Turno, SignalSoltar
  PROVE  Reservas' /\ Turno'
<1>1. hilo["dispatch"] \in Locales /\ Vale(hilo["dispatch"], instancias) /\ Sola("dispatch", hilo["dispatch"], instancias)
  BY DEF HilosBien, TypeHilos, LocalesValen, Reservas
<1> DEFINE v == [hilo["dispatch"] EXCEPT !.pc = IF hilo["dispatch"].pcb = Nadie THEN "signal_enviar"
                                                ELSE "wait"]
<1>2. v \in Locales /\ hilo' = [hilo EXCEPT !["dispatch"] = v] /\ UNCHANGED instancias
  BY <1>1 DEF SignalSoltar, Poner, recursoVars, Locales, PcHilo, Vale, PideWait, ConRecurso, TypeRecursos, EnReposo
<1>3. Sola("dispatch", v, instancias) /\ (Reclama("dispatch", v) => Reclama("dispatch", hilo["dispatch"]) /\ v.recurso = hilo["dispatch"].recurso)
  BY <1>1, RecursosAssumption DEF SignalSoltar, Sola, Reclama, De, Vale, PideWait, ConRecurso, Locales, EnReposo
<1>4. Reservas'
  BY <1>2, <1>3, PasoReservas
<1>5. Turno'
  <2>1. ConTurno' = ConTurno
    BY <1>1, <1>2, TurnoDeLargo DEF SignalSoltar, ConTurno, DesdeSignal, HilosBien, TypeHilos, Locales
  <2>2. QED
    BY <2>1, PasoTurno DEF SignalSoltar, planVars
<1>6. QED
  BY <1>4, <1>5

LEMMA TurnoEndProcess ==
  ASSUME HilosBien, TypeRecursos, Coinciden = {}, Reservas, Turno, EndProcess
  PROVE  Reservas' /\ Turno'
<1>1. hilo["largo"] \in Locales /\ Vale(hilo["largo"], instancias) /\ Sola("largo", hilo["largo"], instancias)
  BY DEF HilosBien, TypeHilos, LocalesValen, Reservas
<1> DEFINE v == [EnReposo EXCEPT !.pc = "liberar", !.pid = Head(exit)]
<1>2. v \in Locales /\ hilo' = [hilo EXCEPT !["largo"] = v] /\ UNCHANGED instancias
  <2>1. exit # <<>> /\ exit \in Seq(Pids)
    BY DEF EndProcess, TypeRecursos
  <2>2. Head(exit) \in Pids
    BY <2>1, HeadTailProperties
  <2>3. QED
    BY <1>1, <2>2 DEF EndProcess, Poner, recursoVars, Locales, PcHilo, Vale, PideWait, ConRecurso, TypeRecursos, EnReposo
<1>3. Sola("largo", v, instancias) /\ (Reclama("largo", v) => Reclama("largo", hilo["largo"]) /\ v.recurso = hilo["largo"].recurso)
  BY <1>1, RecursosAssumption DEF EndProcess, Sola, Reclama, De, Vale, PideWait, ConRecurso, Locales, EnReposo
<1>4. Reservas'
  BY <1>2, <1>3, PasoReservas
<1>5. Turno'
  <2>1. ConTurno' = ConTurno
    BY <1>1, <1>2, TurnoDeLargo DEF EndProcess, ConTurno, DesdeSignal, HilosBien, TypeHilos, Locales
  <2>2. QED
    BY <2>1, PasoTurno DEF EndProcess, planVars
<1>6. QED
  BY <1>4, <1>5

LEMMA TurnoLiberarUno ==
  ASSUME HilosBien, TypeRecursos, Coinciden = {}, Reservas, Turno, LiberarUno
  PROVE  Reservas' /\ Turno'
<1>1. hilo["largo"] \in Locales /\ Vale(hilo["largo"], instancias) /\ Sola("largo", hilo["largo"], instancias)
  BY DEF HilosBien, TypeHilos, LocalesValen, Reservas
<1> DEFINE v == [hilo["largo"] EXCEPT !.recurso = Head(asignados[hilo["largo"].pid]),
                                     !.pcb = Nadie, !.pc = "inc_leer"]
<1>2. v \in Locales /\ hilo' = [hilo EXCEPT !["largo"] = v] /\ UNCHANGED instancias
  <2> DEFINE s == asignados[hilo["largo"].pid]
  <2>1. s \in Seq(Nombres) /\ s # <<>>
    BY <1>1 DEF LiberarUno, TypeRecursos, Vale
  <2>2. Head(s) \in Nombres
    BY <2>1, HeadTailProperties
  <2>3. QED
    BY <1>1, <2>2 DEF LiberarUno, Poner, recursoVars, Locales, PcHilo, Vale, PideWait, ConRecurso, TypeRecursos, EnReposo
<1>3. Sola("largo", v, instancias) /\ (Reclama("largo", v) => Reclama("largo", hilo["largo"]) /\ v.recurso = hilo["largo"].recurso)
  BY <1>1, RecursosAssumption DEF LiberarUno, Sola, Reclama, De, Vale, PideWait, ConRecurso, Locales, EnReposo
<1>4. Reservas'
  BY <1>2, <1>3, PasoReservas
<1>5. Turno'
  <2>1. ConTurno' = ConTurno
    BY <1>1, <1>2, TurnoDeLargo DEF LiberarUno, ConTurno, DesdeSignal, HilosBien, TypeHilos, Locales
  <2>2. QED
    BY <2>1, PasoTurno DEF LiberarUno, planVars
<1>6. QED
  BY <1>4, <1>5

LEMMA TurnoFreeResource ==
  ASSUME HilosBien, TypeRecursos, Coinciden = {}, Reservas, Turno, FreeResource
  PROVE  Reservas' /\ Turno'
<1>1. hilo["largo"] \in Locales /\ Vale(hilo["largo"], instancias) /\ Sola("largo", hilo["largo"], instancias)
  BY DEF HilosBien, TypeHilos, LocalesValen, Reservas
<1> DEFINE v == EnReposo
<1>2. v \in Locales /\ hilo' = [hilo EXCEPT !["largo"] = v] /\ UNCHANGED instancias
  BY <1>1 DEF FreeResource, Poner, recursoVars, Locales, PcHilo, Vale, PideWait, ConRecurso, TypeRecursos, EnReposo
<1>3. Sola("largo", v, instancias) /\ (Reclama("largo", v) => Reclama("largo", hilo["largo"]) /\ v.recurso = hilo["largo"].recurso)
  BY <1>1, RecursosAssumption DEF FreeResource, Sola, Reclama, De, Vale, PideWait, ConRecurso, Locales, EnReposo
<1>4. Reservas'
  BY <1>2, <1>3, PasoReservas
<1>5. Turno'
  <2>1. ConTurno' = ConTurno
    BY <1>1, <1>2, TurnoDeLargo DEF FreeResource, ConTurno, DesdeSignal, HilosBien, TypeHilos, Locales
  <2>2. QED
    BY <2>1, PasoTurno DEF FreeResource, planVars
<1>6. QED
  BY <1>4, <1>5

(* The queue of a resource may be empty when its head is taken.              *)
LEMMA TurnoDesbloquear ==
  ASSUME HilosBien, TypeRecursos, Coinciden = {}, Reservas, Turno, NEW h \in Hilos,
         NEW hacia, \/ h = "dispatch" /\ hacia = "signal_soltar"
                    \/ h = "largo" /\ hacia = "wait",
         Desbloquear(h, hacia)
  PROVE  Reservas' /\ Turno'
<1>1. hilo[h] \in Locales /\ Vale(hilo[h], instancias) /\ Sola(h, hilo[h], instancias)
  BY DEF HilosBien, TypeHilos, LocalesValen, Reservas
<1> DEFINE r == hilo[h].recurso
           v == [hilo[h] EXCEPT !.pcb = Head(cola[r]), !.pc = hacia]
<1>2. UNCHANGED <<instancias, semCpu, enCpu>> /\ hilo[h].pc = "desbloquear"
  BY DEF Desbloquear, planVars
<1>3. CASE cola[r] = <<>>
  <2>1. hilo' = hilo
    BY <1>3 DEF Desbloquear
  <2>2. QED
    BY <1>2, <2>1 DEF Reservas, Ambas, Turno, ConTurno, DesdeSignal
<1>4. CASE cola[r] # <<>>
  <2>1. hilo' = [hilo EXCEPT ![h] = v]
    BY <1>4 DEF Desbloquear
  <2>2. r \in Nombres /\ cola[r] \in Seq(Pids)
    BY <1>1, <1>2 DEF Vale, ConRecurso, TypeRecursos
  <2>3. Head(cola[r]) \in Pids
    BY <1>4, <2>2, HeadTailProperties
  <2>4. v \in Locales
    BY <1>1, <2>3 DEF Locales, PcHilo
  <2>5. Sola(h, v, instancias) /\ Reclama(h, hilo[h]) /\ v.recurso = r
    BY <1>1, <1>2 DEF Sola, Reclama, Locales
  <2>6. Reservas'
    BY <1>2, <2>1, <2>4, <2>5, PasoReservas
  <2>7. ConTurno' = ConTurno
    BY <1>1, <1>2, <2>1, <2>4, TurnoDeLargo DEF ConTurno, DesdeSignal, HilosBien, TypeHilos, Locales
  <2>8. QED
    BY <1>2, <2>6, <2>7, PasoTurno
<1>5. QED
  BY <1>3, <1>4

(* A process that came from the CPU gives the turn back, one that a SIGNAL   *)
(* or the end of another process unblocked has none to give.                 *)
LEMMA TurnoWaitDesconocido ==
  ASSUME HilosBien, TypeRecursos, Coinciden = {}, Reservas, Turno, NEW h \in Hilos, WaitDesconocido(h)
  PROVE  Reservas' /\ Turno'
<1>1. hilo[h] \in Locales /\ Sola(h, hilo[h], instancias)
  BY DEF HilosBien, TypeHilos, Reservas
<1>2. hilo[h].pc = "wait_buscar" /\ hilo[h].recurso \notin Nombres /\ UNCHANGED instancias
  BY DEF WaitDesconocido, recursoVars
<1>3. h = "dispatch" /\ ~DesdeSignal(h)
  BY <1>1, <1>2 DEF Sola, Reclama, De, DesdeSignal
<1>4. hilo' = [hilo EXCEPT !["dispatch"] = EnReposo]
  BY <1>3 DEF WaitDesconocido, Volver
<1>5. EnReposo \in Locales /\ EnReposo.pc = "reposo"
  BY DEF EnReposo, Locales, PcHilo
<1>6. Reservas'
  BY <1>2, <1>4, <1>5, PasoReservas DEF Sola, Reclama
<1>7. ConTurno /\ ~ConTurno'
  BY <1>2, <1>3, <1>4, <1>5 DEF ConTurno, HilosBien, TypeHilos
<1>8. semCpu' = semCpu + 1 /\ enCpu' = enCpu /\ semCpu \in Nat /\ Len(enCpu) \in Nat
  BY LenProperties DEF WaitDesconocido, EnviarAExit, TypeRecursos
<1>9. QED
  BY <1>6, <1>7, <1>8 DEF Turno

LEMMA TurnoWaitBloquear ==
  ASSUME HilosBien, TypeRecursos, Coinciden = {}, Reservas, Turno, NEW h \in Hilos, WaitBloquear(h)
  PROVE  Reservas' /\ Turno'
<1>1. hilo[h] \in Locales /\ Sola(h, hilo[h], instancias)
  BY DEF HilosBien, TypeHilos, Reservas
<1>2. hilo[h].pc = "wait_bloquear" /\ UNCHANGED instancias
  BY DEF WaitBloquear
<1>3. h = "dispatch" /\ ~DesdeSignal(h)
  BY <1>1, <1>2 DEF Sola, De, DesdeSignal
<1> DEFINE v == [hilo["dispatch"] EXCEPT !.pc = "soltar"]
<1>4. hilo' = [hilo EXCEPT !["dispatch"] = v]
  BY <1>3 DEF WaitBloquear, Poner
<1>5. v \in Locales /\ v.pc = "soltar" /\ v.pcb = hilo["dispatch"].pcb /\ v.pid = hilo["dispatch"].pid
  BY <1>1, <1>3 DEF Locales, PcHilo
<1>6. Reservas'
  BY <1>2, <1>4, <1>5, PasoReservas DEF Sola, Reclama
<1>7. ConTurno /\ ~ConTurno'
  BY <1>2, <1>3, <1>4, <1>5 DEF ConTurno, DesdeSignal, HilosBien, TypeHilos
<1>8. semCpu' = semCpu + 1 /\ enCpu' = enCpu /\ semCpu \in Nat /\ Len(enCpu) \in Nat
  BY LenProperties DEF WaitBloquear, TypeRecursos
<1>9. QED
  BY <1>6, <1>7, <1>8 DEF Turno

LEMMA TurnoSoltar ==
  ASSUME HilosBien, TypeRecursos, Coinciden = {}, Reservas, Turno, NEW h \in Hilos, Soltar(h)
  PROVE  Reservas' /\ Turno'
<1>1. hilo[h] \in Locales /\ hilo[h].pid \in Pids /\ hilo[h].pc = "soltar"
  BY DEF HilosBien, TypeHilos, LocalesValen, Vale, Soltar
<1> DEFINE l == [EnReposo EXCEPT !.pc = "liberar", !.pid = hilo[h].pid]
           s == [hilo[h] EXCEPT !.pc = "signal_enviar"]
<1>2. /\ l \in Locales /\ s \in Locales /\ EnReposo \in Locales
      /\ l.pc = "liberar" /\ s.pc = "signal_enviar" /\ EnReposo.pc = "reposo"
  BY <1>1 DEF Locales, PcHilo, EnReposo
<1>3. \/ h = "largo" /\ hilo' = [hilo EXCEPT ![h] = l]
      \/ h = "dispatch" /\ DesdeSignal(h) /\ hilo' = [hilo EXCEPT ![h] = s]
      \/ h = "dispatch" /\ ~DesdeSignal(h) /\ hilo' = [hilo EXCEPT ![h] = EnReposo]
  BY DEF Soltar, Volver
<1>4. UNCHANGED <<instancias, semCpu, enCpu>>
  BY DEF Soltar, planVars, recursoVars
<1>5. Reservas'
  BY <1>2, <1>3, <1>4, PasoReservas DEF Sola, Reclama
<1>6. ConTurno' = ConTurno
  <2>1. CASE h = "largo"
    BY <1>2, <1>3, <2>1, TurnoDeLargo
  <2>2. CASE h = "dispatch"
    BY <1>1, <1>2, <1>3, <2>2 DEF ConTurno, HilosBien, TypeHilos
  <2>3. QED
    BY <2>1, <2>2
<1>7. QED
  BY <1>4, <1>5, <1>6, PasoTurno

LEMMA TurnoSignalRechazar ==
  ASSUME HilosBien, TypeRecursos, Coinciden = {}, Reservas, Turno, SignalRechazar
  PROVE  Reservas' /\ Turno'
<1>1. hilo["dispatch"].pc = "signal_buscar" /\ UNCHANGED instancias
      /\ hilo' = [hilo EXCEPT !["dispatch"] = EnReposo]
  BY DEF SignalRechazar, recursoVars
<1>2. EnReposo \in Locales /\ EnReposo.pc = "reposo"
  BY DEF EnReposo, Locales, PcHilo
<1>3. Reservas'
  BY <1>1, <1>2, PasoReservas DEF Sola, Reclama
<1>4. ConTurno /\ ~ConTurno'
  BY <1>1, <1>2 DEF ConTurno, HilosBien, TypeHilos
<1>5. semCpu' = semCpu + 1 /\ enCpu' = enCpu /\ semCpu \in Nat /\ Len(enCpu) \in Nat
  BY LenProperties DEF SignalRechazar, EnviarAExit, TypeRecursos
<1>6. QED
  BY <1>3, <1>4, <1>5 DEF Turno

LEMMA TurnoSignalEnviar ==
  ASSUME HilosBien, TypeRecursos, Coinciden = {}, Reservas, Turno, SignalEnviar
  PROVE  Reservas' /\ Turno'
<1>1. hilo["dispatch"].pc = "signal_enviar" /\ UNCHANGED <<instancias, semCpu>>
      /\ hilo' = [hilo EXCEPT !["dispatch"] = EnReposo]
  BY DEF SignalEnviar, recursoVars
<1>2. EnReposo \in Locales /\ EnReposo.pc = "reposo"
  BY DEF EnReposo, Locales, PcHilo
<1>3. Reservas'
  BY <1>1, <1>2, PasoReservas DEF Sola, Reclama
<1>4. ConTurno /\ ~ConTurno'
  BY <1>1, <1>2 DEF ConTurno, HilosBien, TypeHilos
<1>5. hilo["dispatch"].pid \in Pids
  BY <1>1 DEF HilosBien, LocalesValen, Vale
<1>6. Len(enCpu') = Len(enCpu) + 1 /\ semCpu \in Nat /\ Len(enCpu) \in Nat
  BY <1>5, AppendProperties, LenProperties DEF SignalEnviar, TypeRecursos
<1>7. QED
  BY <1>1, <1>3, <1>4, <1>6 DEF Turno

LEMMA TurnoPedirWait ==
  ASSUME HilosBien, TypeRecursos, Coinciden = {}, Reservas, Turno, NEW r \in Nombres \cup {Desconocido}, PedirWait(r)
  PROVE  Reservas' /\ Turno'
<1> DEFINE v == [EnReposo EXCEPT !.pc = "wait", !.pid = Head(enCpu), !.pcb = Head(enCpu), !.recurso = r]
<1>1. /\ hilo["dispatch"].pc = "reposo" /\ UNCHANGED <<instancias, semCpu>>
      /\ enCpu # <<>> /\ enCpu' = Tail(enCpu)
  BY DEF PedirWait, recursoVars
<1>2. enCpu \in Seq(Pids) /\ Head(enCpu) \in Pids /\ Len(enCpu') = Len(enCpu) - 1
  BY <1>1, HeadTailProperties DEF TypeRecursos
<1>3. hilo' = [hilo EXCEPT !["dispatch"] = v]
  BY DEF PedirWait
<1>4. v \in Locales /\ v.pc = "wait" /\ v.pcb = v.pid
  BY <1>2 DEF Locales, PcHilo, EnReposo
<1>5. Reservas'
  BY <1>1, <1>3, <1>4, PasoReservas DEF Sola, Reclama, De
<1>6. ~ConTurno /\ ConTurno'
  BY <1>1, <1>3, <1>4 DEF ConTurno, HilosBien, TypeHilos
<1>7. semCpu \in Nat /\ Len(enCpu) \in Nat
  BY LenProperties DEF TypeRecursos
<1>8. QED
  BY <1>1, <1>2, <1>5, <1>6, <1>7 DEF Turno

LEMMA TurnoPedirSignal ==
  ASSUME HilosBien, TypeRecursos, Coinciden = {}, Reservas, Turno, NEW r \in Nombres \cup {Desconocido}, PedirSignal(r)
  PROVE  Reservas' /\ Turno'
<1> DEFINE v == [EnReposo EXCEPT !.pc = "signal", !.pid = Head(enCpu), !.recurso = r]
<1>1. /\ hilo["dispatch"].pc = "reposo" /\ UNCHANGED <<instancias, semCpu>>
      /\ enCpu # <<>> /\ enCpu' = Tail(enCpu)
  BY DEF PedirSignal, recursoVars
<1>2. enCpu \in Seq(Pids) /\ Head(enCpu) \in Pids /\ Len(enCpu') = Len(enCpu) - 1
  BY <1>1, HeadTailProperties DEF TypeRecursos
<1>3. hilo' = [hilo EXCEPT !["dispatch"] = v]
  BY DEF PedirSignal
<1>4. v \in Locales /\ v.pc = "signal"
  BY <1>2 DEF Locales, PcHilo, EnReposo
<1>5. Reservas'
  BY <1>1, <1>3, <1>4, PasoReservas DEF Sola, Reclama, De
<1>6. ~ConTurno /\ ConTurno'
  BY <1>1, <1>3, <1>4 DEF ConTurno, HilosBien, TypeHilos
<1>7. semCpu \in Nat /\ Len(enCpu) \in Nat
  BY LenProperties DEF TypeRecursos
<1>8. QED
  BY <1>1, <1>2, <1>5, <1>6, <1>7 DEF Turno

(* The planning around the resources moves the turn between SEM_CPU and the  *)
(* CPU.                                                                      *)
LEMMA TurnoPlanes ==
  ASSUME HilosBien, TypeRecursos, Coinciden = {}, Reservas, Turno, UNCHANGED <<hilo, instancias>>,
         \/ \E p \in Pids : semCpu > 0 /\ semCpu' = semCpu - 1 /\ enCpu' = Append(enCpu, p)
         \/ enCpu # <<>> /\ enCpu' = Tail(enCpu) /\ semCpu' = semCpu + 1
         \/ UNCHANGED <<semCpu, enCpu>>
  PROVE  Reservas' /\ Turno'
<1>1. Reservas' /\ ConTurno' = ConTurno
  BY DEF Reservas, Ambas, ConTurno, DesdeSignal
<1>2. semCpu \in Nat /\ enCpu \in Seq(Pids) /\ Len(enCpu) \in Nat
  BY LenProperties DEF TypeRecursos
<1>3. semCpu' + Len(enCpu') = semCpu + Len(enCpu)
  <2>1. CASE \E p \in Pids : semCpu > 0 /\ semCpu' = semCpu - 1 /\ enCpu' = Append(enCpu, p)
    BY <1>2, <2>1, AppendProperties
  <2>2. CASE enCpu # <<>> /\ enCpu' = Tail(enCpu) /\ semCpu' = semCpu + 1
    BY <1>2, <2>2, HeadTailProperties
  <2>3. CASE UNCHANGED <<semCpu, enCpu>>
    BY <2>3
  <2>4. QED
    BY <2>1, <2>2, <2>3
<1>4. QED
  BY <1>1, <1>3 DEF Turno

(* The instance that is given back is one more for whoever counts on one.    *)
LEMMA TurnoIncEscribir ==
  ASSUME HilosBien, TypeRecursos, Coinciden = {}, Reservas, Turno, NEW h \in Hilos, IncEscribir(h)
  PROVE  Reservas' /\ Turno'
<1>1. hilo[h] \in Locales /\ Vale(hilo[h], instancias) /\ Sola(h, hilo[h], instancias)
  BY DEF HilosBien, TypeHilos, LocalesValen, Reservas
<1> DEFINE r == hilo[h].recurso
           v == [hilo[h] EXCEPT !.pc = "mirar_cola"]
<1>2. hilo[h].pc = "inc_escribir" /\ UNCHANGED <<semCpu, enCpu>>
  BY DEF IncEscribir, planVars
<1>3. v \in Locales /\ hilo' = [hilo EXCEPT ![h] = v]
  BY <1>1 DEF IncEscribir, Poner, Locales, PcHilo
<1>4. /\ r \in Nombres
      /\ instancias' = [instancias EXCEPT ![r] = instancias[r] + 1]
      /\ instancias \in [Nombres -> Nat]
  BY <1>1, <1>2 DEF IncEscribir, Sola, Vale, ConRecurso, TypeRecursos
<1>5. hilo'[h] = v /\ \A k \in Hilos \ {h} : hilo'[k] = hilo[k]
  BY <1>3 DEF HilosBien, TypeHilos
<1>6. v.pc = "mirar_cola" /\ v.recurso = r
  BY <1>1 DEF Locales
<1>7. Sola(h, v, instancias')
  BY <1>4, <1>6 DEF Sola
<1>8. ASSUME NEW k \in Hilos \ {h} PROVE Sola(k, hilo[k], instancias')
  <2>1. Sola(k, hilo[k], instancias) /\ Vale(hilo[k], instancias)
    BY DEF Reservas, HilosBien, LocalesValen
  <2>2. hilo[k].pc \in {"inc_escribir", "wait_asignar"} => hilo[k].recurso # r
    BY <1>2 DEF Coinciden, ConMutex, SinMutex, HilosBien, DuenoDelMutex, BajoMutex
  <2>3. QED
    BY <1>4, <2>1, <2>2 DEF Sola, Vale, ConRecurso
<1>9. Ambas'
  <2> SUFFICES ASSUME Reclama("dispatch", hilo'["dispatch"]), Reclama("largo", hilo'["largo"]),
                      hilo'["dispatch"].recurso = hilo'["largo"].recurso
               PROVE  instancias'[hilo'["largo"].recurso] >= 2
    BY DEF Ambas
  <2>1. PICK k \in Hilos : k # h
    OBVIOUS
  <2>2. hilo'[k] = hilo[k] /\ Sola(k, hilo[k], instancias)
    BY <1>5, <2>1 DEF Reservas
  <2>3. Reclama(k, hilo[k]) /\ hilo[k].recurso = r /\ hilo'["largo"].recurso = r
    BY <1>5, <1>6, <2>1, <2>2
  <2>4. instancias[r] >= 1
    BY <2>2, <2>3 DEF Sola
  <2>5. QED
    BY <1>4, <2>3, <2>4
<1>10. Reservas'
  BY <1>5, <1>7, <1>8, <1>9 DEF Reservas
<1>11. ConTurno' = ConTurno
  BY <1>1, <1>2, <1>3, TurnoDeLargo DEF ConTurno, DesdeSignal, HilosBien, TypeHilos, Locales
<1>12. QED
  BY <1>2, <1>10, <1>11, PasoTurno

(* The instance that is assigned is not the one the other thread counts on.  *)
LEMMA TurnoWaitAsignar ==
  ASSUME HilosBien, TypeRecursos, Coinciden = {}, Reservas, Turno, NEW h \in Hilos, WaitAsignar(h)
  PROVE  Reservas' /\ Turno'
<1>1. hilo[h] \in Locales /\ Vale(hilo[h], instancias) /\ Sola(h, hilo[h], instancias)
  BY DEF HilosBien, TypeHilos, LocalesValen, Reservas
<1> DEFINE r == hilo[h].recurso
           v == [hilo[h] EXCEPT !.pc = "soltar"]
<1>2. hilo[h].pc = "wait_asignar" /\ UNCHANGED semCpu
  BY DEF WaitAsignar
<1>3. v \in Locales /\ hilo' = [hilo EXCEPT ![h] = v]
  BY <1>1 DEF WaitAsignar, Poner, Locales, PcHilo
<1>4. /\ r \in Nombres
      /\ instancias' = [instancias EXCEPT ![r] = instancias[r] - 1]
      /\ instancias \in [Nombres -> Nat]
  BY <1>1, <1>2 DEF WaitAsignar, Sola, Vale, ConRecurso, TypeRecursos
<1>5. hilo'[h] = v /\ \A k \in Hilos \ {h} : hilo'[k] = hilo[k]
  BY <1>3 DEF HilosBien, TypeHilos
<1>6. v.pc = "soltar" /\ v.pcb = hilo[h].pcb /\ v.pid = hilo[h].pid
  BY <1>1 DEF Locales
<1>7. Sola(h, v, instancias') /\ ~Reclama(h, v)
  BY <1>6 DEF Sola, Reclama
<1>8. ASSUME NEW k \in Hilos \ {h} PROVE Sola(k, hilo[k], instancias')
  <2>1. Sola(k, hilo[k], instancias) /\ Vale(hilo[k], instancias)
    BY DEF Reservas, HilosBien, LocalesValen
  <2>2. CASE hilo[k].recurso # r
    BY <1>4, <2>1, <2>2 DEF Sola, Vale, ConRecurso
  <2>3. CASE hilo[k].recurso = r
    <3>1. mutexRecursos = h
      BY <1>2 DEF HilosBien, DuenoDelMutex, BajoMutex
    <3>2. ~BajoMutex(k, hilo[k].pc)
      BY <3>1 DEF HilosBien, DuenoDelMutex
    <3>3. hilo[k].pc \notin {"inc_escribir", "wait_asignar"}
      BY <1>2, <2>3, <3>2 DEF Coinciden, ConMutex, SinMutex, BajoMutex
    <3>4. CASE h = "dispatch"
      <4>1. k = "largo" /\ hilo[k].pc \notin SinMutex \cup {"wait"}
        BY <1>2, <2>3, <3>4 DEF Coinciden, ConMutex, SinMutex
      <4>2. ~Reclama(k, hilo[k])
        BY <3>2, <4>1 DEF Reclama, BajoMutex, SinMutex
      <4>3. QED
        BY <2>1, <3>3, <4>2 DEF Sola
    <3>5. CASE h = "largo"
      <4>1. k = "dispatch"
        BY <3>5
      <4>2. Reclama(h, hilo[h])
        BY <1>2, <3>5 DEF Reclama, De
      <4>3. Reclama(k, hilo[k]) => instancias[r] >= 2
        BY <2>3, <3>5, <4>1, <4>2 DEF Reservas, Ambas
      <4>4. QED
        BY <1>4, <2>1, <2>3, <3>3, <4>3 DEF Sola
    <3>6. QED
      BY <3>4, <3>5
  <2>4. QED
    BY <2>2, <2>3
<1>9. Ambas'
  BY <1>5, <1>7 DEF Ambas
<1>10. Reservas'
  BY <1>5, <1>7, <1>8, <1>9 DEF Reservas
<1>11. semCpu \in Nat /\ enCpu \in Seq(Pids) /\ Len(enCpu) \in Nat /\ hilo[h].pcb \in Pids
  BY <1>1, <1>2, LenProperties DEF TypeRecursos, Vale, PideWait
<1>12. CASE DesdeSignal(h)
  <2>1. enCpu' = enCpu
    BY <1>12 DEF WaitAsignar
  <2>2. ConTurno' = ConTurno
    BY <1>2, <1>3, <1>5, <1>6, <1>12, TurnoDeLargo DEF ConTurno, DesdeSignal
  <2>3. QED
    BY <1>2, <1>10, <2>1, <2>2, PasoTurno
<1>13. CASE ~DesdeSignal(h)
  <2>1. h = "dispatch" /\ enCpu' = Append(enCpu, hilo[h].pcb)
    BY <1>13 DEF WaitAsignar, DesdeSignal
  <2>2. ConTurno /\ ~ConTurno'
    BY <1>2, <1>5, <1>6, <1>13, <2>1 DEF ConTurno, DesdeSignal
  <2>3. Len(enCpu') = Len(enCpu) + 1
    BY <1>11, <2>1, AppendProperties
  <2>4. QED
    BY <1>2, <1>10, <1>11, <2>2, <2>3 DEF Turno
<1>14. QED
  BY <1>12, <1>13

LEMMA SinCruceRecursos ==
  ASSUME Bien, SinCruce, RecursosNext, UNCHANGED ioVars, carrera' = carrera \cup Coinciden'
  PROVE  SinCruce'
<1> SUFFICES ASSUME carrera' = {} PROVE Coinciden' = {} /\ Reservas' /\ Turno'
  BY DEF SinCruce
<1>1. Coinciden' = {} /\ carrera = {}
  OBVIOUS
<1>2. HilosBien /\ TypeRecursos /\ Coinciden = {} /\ Reservas /\ Turno
  BY <1>1 DEF Bien, SinCruce
<1>3. ASSUME NEW h \in Hilos, HandleWait(h)
      PROVE  Reservas' /\ Turno'
  BY <1>2, <1>3, TurnoTomarMutex, TurnoWaitDesconocido, TurnoWaitMirar, TurnoWaitLeer,
     TurnoWaitAsignar, TurnoWaitBloquear, TurnoSoltar DEF HandleWait
<1>4. ASSUME HandleSignal PROVE Reservas' /\ Turno'
  <2>1. "dispatch" \in Hilos
    OBVIOUS
  <2>2. CASE \/ TomarMutex("dispatch", "signal", "signal_buscar") \/ SignalRechazar
             \/ SignalRemover \/ SignalSoltar \/ SignalEnviar
    BY <1>2, <2>1, <2>2, TurnoTomarMutex, TurnoSignalRechazar, TurnoSignalRemover,
       TurnoSignalSoltar, TurnoSignalEnviar
  <2>3. CASE IncLeer("dispatch") \/ IncEscribir("dispatch") \/ AlguienEspera("dispatch")
    BY <1>2, <2>1, <2>3, TurnoIncLeer, TurnoIncEscribir, TurnoAlguienEspera
  <2>4. CASE NadieEspera("dispatch", "signal_soltar")
    BY <1>2, <2>1, <2>4, TurnoNadieEspera
  <2>5. CASE Desbloquear("dispatch", "signal_soltar")
    BY <1>2, <2>1, <2>5, TurnoDesbloquear
  <2>6. QED
    BY <1>4, <2>2, <2>3, <2>4, <2>5 DEF HandleSignal
<1>5. ASSUME LargoPlazo PROVE Reservas' /\ Turno'
  BY <1>2, <1>5, TurnoEndProcess, TurnoLiberarUno, TurnoIncLeer, TurnoIncEscribir,
     TurnoNadieEspera, TurnoAlguienEspera, TurnoDesbloquear, TurnoFreeResource DEF LargoPlazo
<1>6. ASSUME NEW p \in Pids, Ejecutar(p) PROVE Reservas' /\ Turno'
  BY <1>2, <1>6, TurnoPlanes DEF Ejecutar, recursoVars
<1>7. ASSUME Desalojar \/ Salir PROVE Reservas' /\ Turno'
  BY <1>2, <1>7, TurnoPlanes DEF Desalojar, Salir, recursoVars
<1>8. ASSUME NEW r \in Nombres \cup {Desconocido}, PedirWait(r) \/ PedirSignal(r)
      PROVE  Reservas' /\ Turno'
  BY <1>2, <1>8, TurnoPedirWait, TurnoPedirSignal
<1>9. QED
  BY <1>1, <1>3, <1>4, <1>5, <1>6, <1>7, <1>8 DEF RecursosNext, Dispatch, Largo

LEMMA SinCruceInterfaces ==
  ASSUME Bien, SinCruce, InterfacesNext, carrera' = carrera \cup Coinciden'
  PROVE  SinCruce'
<1> SUFFICES ASSUME carrera' = {} PROVE Coinciden' = {} /\ Reservas' /\ Turno'
  BY DEF SinCruce
<1>1. Coinciden' = {} /\ carrera = {}
  OBVIOUS
<1>2. HilosBien /\ TypeRecursos /\ Coinciden = {} /\ Reservas /\ Turno
  BY <1>1 DEF Bien, SinCruce
<1>3. PICK i \in Ios : Conectar(i) \/ Desconectar(i) \/ Responder(i) \/ Callar(i)
                         \/ PedirIo(i) \/ AtenderKernelIO(i)
  BY DEF InterfacesNext
<1>4. CASE PedirIo(i)
  BY <1>1, <1>2, <1>4, TurnoPlanes DEF PedirIo, recursoVars
<1>5. CASE Conectar(i) \/ Desconectar(i) \/ Responder(i) \/ Callar(i)
  <2>1. UNCHANGED <<hilo, instancias, semCpu, enCpu>>
    BY <1>5 DEF Conectar, Desconectar, Responder, Callar, planVars, recursoVars
  <2>2. QED
    BY <1>1, <1>2, <2>1, TurnoPlanes
<1>6. CASE AtenderKernelIO(i)
  <2>1. UNCHANGED <<hilo, instancias, semCpu, enCpu>>
    BY <1>6 DEF AtenderKernelIO, AtenderTomar, AtenderEnviar, AtenderEnvioFallido,
                AtenderRespuesta, planVars, recursoVars
  <2>2. QED
    BY <1>1, <1>2, <2>1, TurnoPlanes
<1>7. QED
  BY <1>3, <1>4, <1>5, <1>6

(* As long as the long-term planner and the dispatch thread never met on a   *)
(* resource, SEM_CPU, the CPU and the dispatch thread hold one turn between  *)
(* them: WAIT and SIGNAL do not put two processes in the CPU (recursos.c).   *)
THEOREM UnSoloTurno == BloqueosSpec => []UnTurno
<1>1. InterfacesInit => Bien /\ SinCruce
  BY BienInicial, SinCruceInicial
<1>2. ASSUME Bien, SinCruce, [BloqueosNext]_todas PROVE Bien' /\ SinCruce'
  <2>1. CASE BloqueosNext
    BY <1>2, <2>1, BienRecursos, BienInterfaces, SinCruceRecursos, SinCruceInterfaces DEF BloqueosNext
  <2>2. CASE UNCHANGED todas
    <3>1. UNCHANGED <<planVars, recursoVars, mutexRecursos, hilo, caido, regalos, carrera, ioVars>>
      BY <2>2 DEF todas, vars
    <3>2. Bien'
      BY <1>2, <3>1 DEF Bien, HilosBien, TypeRecursos, TypeInterfaces, AtendidoValen, TypeHilos,
         LocalesValen, Vale, DuenoDelMutex, planVars, recursoVars, ioVars
    <3>3. SinCruce'
      BY <1>2, <3>1 DEF SinCruce, Coinciden, Reservas, Ambas, Turno, ConTurno, DesdeSignal,
         planVars, recursoVars
    <3>4. QED
      BY <3>2, <3>3
  <2>3. QED
    BY <1>2, <2>1, <2>2
<1>3. SinCruce => UnTurno
  BY DEF SinCruce, Turno, UnTurno
<1>4. QED
  BY <1>1, <1>2, <1>3, PTL DEF BloqueosSpec

-----------------------------------------------------------------------------
(***************************************************************************)
(* Where each process is, and what happens to the instances and the queue  *)
(* of a resource.                                                          *)
(*                                                                         *)
(* Unico says that a process is in one of the places of the kernel and in  *)
(* no other one; ListasBien, ManosBien and AtendidosBien what keeps it so. *)
(* A step either leaves every place as it was (NoMueve) or takes one       *)
(* process from one place to another (Mudar).                              *)
(***************************************************************************)

(* The places *)
Listo == <<"ready", "">>
Libre == <<"liberado", "">>
Cpu   == <<"cpu", "">>
Fin   == <<"exit", "">>
ManoDe(h)      == <<"mano", h>>
ColaDe(r)      == <<"cola", r>>
BloqueadoEn(i) == <<"bloqueado", i>>
AtendidoPor(i) == <<"atendido", i>>

Sitios == {Listo, Libre, Cpu, Fin} \cup {ManoDe(h) : h \in Hilos}
            \cup {ColaDe(r) : r \in Nombres} \cup {BloqueadoEn(i) : i \in Ios}
            \cup {AtendidoPor(i) : i \in Ios}

(* The processes in the place l *)
Ocupa(l) ==
  CASE l[1] = "ready"     -> ready
    [] l[1] = "liberado"  -> liberados
    [] l[1] = "cpu"       -> Elementos(enCpu)
    [] l[1] = "exit"      -> Elementos(exit)
    [] l[1] = "mano"      -> EnMano(l[2]) \cap Pids
    [] l[1] = "cola"      -> Elementos(cola[l[2]])
    [] l[1] = "bloqueado" -> Elementos(bloqueados[l[2]])
    [] l[1] = "atendido"  -> {atendido[l[2]]} \cap Pids

Unico ==
  \A p \in Pids : \E l \in Sitios : /\ p \in Ocupa(l)
                                    /\ \A m \in Sitios : p \in Ocupa(m) => m = l

ListasBien == /\ SinRepetir(enCpu) /\ SinRepetir(exit)
              /\ \A r \in Nombres : SinRepetir(cola[r])
              /\ \A i \in Ios : SinRepetir(bloqueados[i])

(* What the thread h has in hand with the local variables v, and that it is  *)
(* not twice the same process.                                               *)
Lleva(h, v) ==
  (IF v.pc \in PideWait \cup {"signal_soltar"} THEN {v.pcb} ELSE {})
    \cup (IF v.pc = "reposo" \/ (h = "dispatch" /\ ~De(h, v) /\ v.pc \in PideWait \cup {"soltar"})
          THEN {} ELSE {v.pid})

AntesDeSoltar == {"signal", "signal_buscar", "inc_leer", "inc_escribir", "mirar_cola", "desbloquear"}

Distintos(h, v) ==
  /\ h = "largo" /\ v.pc \in PideWait => v.pcb # v.pid
  /\ h = "dispatch" /\ v.pc = "signal_soltar" => v.pcb # v.pid
  /\ h = "dispatch" /\ v.pc \in AntesDeSoltar => v.pcb = Nadie

ManosBien     == \A h \in Hilos : Distintos(h, hilo[h])
AtendidosBien ==
  \A i \in Ios : /\ hiloIo[i] \notin {"enviar", "recibir"} => atendido[i] = Nadie
                 /\ conexion[i] = "ausente" => hiloIo[i] = "no_creado"

Puesto == Unico /\ ListasBien /\ ManosBien /\ AtendidosBien

-----------------------------------------------------------------------------
(***************************************************************************)
(* Where nothing moves, and where one process does.                        *)
(***************************************************************************)
LEMMA OcupaDe ==
  /\ Ocupa(Listo) = ready /\ Ocupa(Libre) = liberados
  /\ Ocupa(Cpu) = Elementos(enCpu) /\ Ocupa(Fin) = Elementos(exit)
  /\ \A h \in Hilos : Ocupa(ManoDe(h)) = EnMano(h) \cap Pids
  /\ \A r \in Nombres : Ocupa(ColaDe(r)) = Elementos(cola[r])
  /\ \A i \in Ios : Ocupa(BloqueadoEn(i)) = Elementos(bloqueados[i])
  /\ \A i \in Ios : Ocupa(AtendidoPor(i)) = {atendido[i]} \cap Pids
  BY DEF Ocupa, Listo, Libre, Cpu, Fin, ManoDe, ColaDe, BloqueadoEn, AtendidoPor

LEMMA OcuparaDe ==
  /\ Ocupa(Listo)' = ready' /\ Ocupa(Libre)' = liberados'
  /\ Ocupa(Cpu)' = Elementos(enCpu') /\ Ocupa(Fin)' = Elementos(exit')
  /\ \A h \in Hilos : Ocupa(ManoDe(h))' = EnMano(h)' \cap Pids
  /\ \A r \in Nombres : Ocupa(ColaDe(r))' = Elementos(cola'[r])
  /\ \A i \in Ios : Ocupa(BloqueadoEn(i))' = Elementos(bloqueados'[i])
  /\ \A i \in Ios : Ocupa(AtendidoPor(i))' = {atendido'[i]} \cap Pids
  BY DEF Ocupa, Listo, Libre, Cpu, Fin, ManoDe, ColaDe, BloqueadoEn, AtendidoPor

LEMMA SitiosSon ==
  /\ Listo \in Sitios /\ Libre \in Sitios /\ Cpu \in Sitios /\ Fin \in Sitios
  /\ \A h \in Hilos : ManoDe(h) \in Sitios /\ ManoDe(h) \notin {Listo, Libre, Cpu, Fin}
  /\ \A r \in Nombres : /\ ColaDe(r) \in Sitios /\ ColaDe(r) \notin {Listo, Libre, Cpu, Fin}
                        /\ \A h \in Hilos : ColaDe(r) # ManoDe(h)
  /\ \A i \in Ios : /\ BloqueadoEn(i) \in Sitios /\ BloqueadoEn(i) \notin {Listo, Libre, Cpu, Fin}
                    /\ AtendidoPor(i) \in Sitios /\ AtendidoPor(i) \notin {Listo, Libre, Cpu, Fin}
                    /\ BloqueadoEn(i) # AtendidoPor(i)
  /\ Listo \notin {Cpu, Fin, Libre} /\ Cpu \notin {Fin, Libre} /\ Fin # Libre
  BY DEF Sitios, Listo, Libre, Cpu, Fin, ManoDe, ColaDe, BloqueadoEn, AtendidoPor

(* What is unchanged outside of the places T leaves the other places alone.  *)
LEMMA Quieto ==
  ASSUME NEW T,
         ready' = ready \/ Listo \in T, liberados' = liberados \/ Libre \in T,
         enCpu' = enCpu \/ Cpu \in T, exit' = exit \/ Fin \in T,
         \A h \in Hilos : EnMano(h)' \cap Pids = EnMano(h) \cap Pids \/ ManoDe(h) \in T,
         \A r \in Nombres : cola'[r] = cola[r] \/ ColaDe(r) \in T,
         \A i \in Ios : bloqueados'[i] = bloqueados[i] \/ BloqueadoEn(i) \in T,
         \A i \in Ios : atendido'[i] = atendido[i] \/ AtendidoPor(i) \in T
  PROVE  \A l \in Sitios \ T : Ocupa(l)' = Ocupa(l)
<1> SUFFICES ASSUME NEW l \in Sitios, l \notin T PROVE Ocupa(l)' = Ocupa(l)
  OBVIOUS
<1>1. CASE l \in {Listo, Libre, Cpu, Fin}
  BY <1>1, OcupaDe, OcuparaDe
<1>2. CASE \E h \in Hilos : l = ManoDe(h)
  BY <1>2, OcupaDe, OcuparaDe
<1>3. CASE \E r \in Nombres : l = ColaDe(r)
  BY <1>3, OcupaDe, OcuparaDe
<1>4. CASE \E i \in Ios : l = BloqueadoEn(i)
  BY <1>4, OcupaDe, OcuparaDe
<1>5. CASE \E i \in Ios : l = AtendidoPor(i)
  BY <1>5, OcupaDe, OcuparaDe
<1>6. QED
  BY <1>1, <1>2, <1>3, <1>4, <1>5 DEF Sitios

LEMMA SoloAhi ==
  ASSUME Unico, NEW p \in Pids, NEW a \in Sitios, p \in Ocupa(a), NEW b \in Sitios, b # a
  PROVE  p \notin Ocupa(b)
  BY DEF Unico

(* The process p goes from a to b.                                           *)
LEMMA Mudar ==
  ASSUME Unico, NEW p \in Pids, NEW a \in Sitios, NEW b \in Sitios, a # b,
         p \in Ocupa(a), Ocupa(a)' = Ocupa(a) \ {p}, Ocupa(b)' = Ocupa(b) \cup {p},
         \A l \in Sitios \ {a, b} : Ocupa(l)' = Ocupa(l)
  PROVE  Unico'
<1> SUFFICES ASSUME NEW q \in Pids
             PROVE  \E l \in Sitios : q \in Ocupa(l)' /\ \A m \in Sitios : q \in Ocupa(m)' => m = l
  BY DEF Unico
<1>1. PICK l \in Sitios : q \in Ocupa(l) /\ \A m \in Sitios : q \in Ocupa(m) => m = l
  BY DEF Unico
<1>2. CASE q = p
  <2>1. \A m \in Sitios : p \in Ocupa(m) => m = a
    BY <1>1, <1>2
  <2>2. p \in Ocupa(b)' /\ \A m \in Sitios : p \in Ocupa(m)' => m = b
    BY <2>1
  <2>3. QED
    BY <1>2, <2>2
<1>3. CASE q # p
  <2>1. \A m \in Sitios : q \in Ocupa(m)' <=> q \in Ocupa(m)
    BY <1>3
  <2>2. QED
    BY <1>1, <2>1
<1>4. QED
  BY <1>2, <1>3

LEMMA NoMueve ==
  ASSUME Unico, \A l \in Sitios : Ocupa(l)' = Ocupa(l)
  PROVE  Unico'
  BY DEF Unico

(* What a thread has in hand, before and after a step of h.                  *)
LEMMA LlevaTras ==
  ASSUME TypeHilos, NEW h \in Hilos, NEW v, hilo' = [hilo EXCEPT ![h] = v]
  PROVE  /\ EnMano(h) = Lleva(h, hilo[h])
         /\ EnMano(h)' = Lleva(h, v)
         /\ \A k \in Hilos \ {h} : EnMano(k)' = EnMano(k)
<1>1. /\ hilo'[h] = v
      /\ \A k \in Hilos \ {h} : hilo'[k] = hilo[k]
  BY DEF TypeHilos
<1>2. EnMano(h) = Lleva(h, hilo[h])
  BY DEF EnMano, Lleva, DesdeSignal, De
<1>3. EnMano(h)' = Lleva(h, v)
  BY <1>1 DEF EnMano, Lleva, DesdeSignal, De
<1>4. ASSUME NEW k \in Hilos \ {h} PROVE EnMano(k)' = EnMano(k)
  BY <1>1 DEF EnMano, DesdeSignal
<1>5. QED
  BY <1>2, <1>3, <1>4

LEMMA ManosTras ==
  ASSUME TypeHilos, ManosBien, NEW h \in Hilos, NEW v, hilo' = [hilo EXCEPT ![h] = v], Distintos(h, v)
  PROVE  ManosBien'
<1>1. /\ hilo'[h] = v
      /\ \A k \in Hilos \ {h} : hilo'[k] = hilo[k]
  BY DEF TypeHilos
<1>2. QED
  BY <1>1 DEF ManosBien, Distintos

LEMMA HiloQuieto ==
  ASSUME TypeHilos, Puesto, NEW h \in Hilos, NEW v, hilo' = [hilo EXCEPT ![h] = v],
         Lleva(h, v) \cap Pids = Lleva(h, hilo[h]) \cap Pids, Distintos(h, v),
         UNCHANGED <<planVars, cola, ioVars>>
  PROVE  Puesto'
<1>1. \A k \in Hilos : EnMano(k)' \cap Pids = EnMano(k) \cap Pids
  BY LlevaTras
<1>2. \A l \in Sitios : Ocupa(l)' = Ocupa(l)
  <2> DEFINE T == {}
  <2>1. \A l \in Sitios \ T : Ocupa(l)' = Ocupa(l)
    BY <1>1, Quieto DEF planVars, ioVars
  <2>2. QED
    BY <2>1
<1>3. Unico'
  BY <1>2, NoMueve DEF Puesto
<1>4. ManosBien'
  BY ManosTras DEF Puesto
<1>5. QED
  BY <1>3, <1>4 DEF Puesto, ListasBien, AtendidosBien, planVars, ioVars

(* The process p that a thread has in hand goes to the place b.              *)
LEMMA Entregar ==
  ASSUME TypeHilos, Puesto, NEW h \in Hilos, NEW v, hilo' = [hilo EXCEPT ![h] = v], Distintos(h, v),
         NEW p \in Pids, p \in Lleva(h, hilo[h]),
         Lleva(h, v) \cap Pids = (Lleva(h, hilo[h]) \cap Pids) \ {p},
         NEW b \in Sitios, b # ManoDe(h), Ocupa(b)' = Ocupa(b) \cup {p},
         ready' = ready \/ b = Listo, liberados' = liberados \/ b = Libre,
         enCpu' = enCpu \/ b = Cpu, exit' = exit \/ b = Fin,
         \A r \in Nombres : cola'[r] = cola[r] \/ b = ColaDe(r),
         UNCHANGED ioVars
  PROVE  Unico' /\ ManosBien' /\ AtendidosBien'
<1>1. /\ EnMano(h) = Lleva(h, hilo[h]) /\ EnMano(h)' = Lleva(h, v)
      /\ \A k \in Hilos \ {h} : EnMano(k)' = EnMano(k)
  BY LlevaTras
<1>2. ManoDe(h) \in Sitios /\ p \in Ocupa(ManoDe(h)) /\ Ocupa(ManoDe(h))' = Ocupa(ManoDe(h)) \ {p}
  BY <1>1, SitiosSon, OcupaDe, OcuparaDe
<1>3. \A l \in Sitios \ {ManoDe(h), b} : Ocupa(l)' = Ocupa(l)
  <2> DEFINE T == {ManoDe(h), b}
  <2>1. \A k \in Hilos : EnMano(k)' \cap Pids = EnMano(k) \cap Pids \/ ManoDe(k) \in T
    BY <1>1
  <2>2. \A l \in Sitios \ T : Ocupa(l)' = Ocupa(l)
    BY <2>1, Quieto DEF ioVars
  <2>3. QED
    BY <2>2
<1>4. Unico'
  BY <1>2, <1>3, Mudar DEF Puesto
<1>5. ManosBien'
  BY ManosTras DEF Puesto
<1>6. QED
  BY <1>4, <1>5 DEF Puesto, AtendidosBien, ioVars

(* A thread takes the process p from the place a.                            *)
LEMMA Tomar ==
  ASSUME TypeHilos, Puesto, NEW h \in Hilos, NEW v, hilo' = [hilo EXCEPT ![h] = v], Distintos(h, v),
         NEW p \in Pids, NEW a \in Sitios, a # ManoDe(h), p \in Ocupa(a), Ocupa(a)' = Ocupa(a) \ {p},
         Lleva(h, v) \cap Pids = (Lleva(h, hilo[h]) \cap Pids) \cup {p},
         ready' = ready, liberados' = liberados,
         enCpu' = enCpu \/ a = Cpu, exit' = exit \/ a = Fin,
         \A r \in Nombres : cola'[r] = cola[r] \/ a = ColaDe(r),
         UNCHANGED ioVars
  PROVE  Unico' /\ ManosBien' /\ AtendidosBien'
<1>1. /\ EnMano(h) = Lleva(h, hilo[h]) /\ EnMano(h)' = Lleva(h, v)
      /\ \A k \in Hilos \ {h} : EnMano(k)' = EnMano(k)
  BY LlevaTras
<1>2. ManoDe(h) \in Sitios /\ Ocupa(ManoDe(h))' = Ocupa(ManoDe(h)) \cup {p}
  BY <1>1, SitiosSon, OcupaDe, OcuparaDe
<1>3. \A l \in Sitios \ {a, ManoDe(h)} : Ocupa(l)' = Ocupa(l)
  <2> DEFINE T == {a, ManoDe(h)}
  <2>1. \A k \in Hilos : EnMano(k)' \cap Pids = EnMano(k) \cap Pids \/ ManoDe(k) \in T
    BY <1>1
  <2>2. \A l \in Sitios \ T : Ocupa(l)' = Ocupa(l)
    BY <2>1, Quieto DEF ioVars
  <2>3. QED
    BY <2>2
<1>4. Unico'
  BY <1>2, <1>3, Mudar DEF Puesto
<1>5. ManosBien'
  BY ManosTras DEF Puesto
<1>6. QED
  BY <1>4, <1>5 DEF Puesto, AtendidosBien, ioVars

(* The process p goes from a to b and no thread takes part.                  *)
LEMMA Pasar ==
  ASSUME Puesto, UNCHANGED <<hilo, cola, liberados>>, NEW p \in Pids,
         NEW a \in Sitios, NEW b \in Sitios, a # b, p \in Ocupa(a),
         Ocupa(a)' = Ocupa(a) \ {p}, Ocupa(b)' = Ocupa(b) \cup {p},
         ready' = ready \/ Listo \in {a, b},
         enCpu' = enCpu \/ Cpu \in {a, b}, exit' = exit \/ Fin \in {a, b},
         \A i \in Ios : bloqueados'[i] = bloqueados[i] \/ BloqueadoEn(i) \in {a, b},
         \A i \in Ios : atendido'[i] = atendido[i] \/ AtendidoPor(i) \in {a, b}
  PROVE  Unico' /\ ManosBien'
<1>1. \A k \in Hilos : EnMano(k)' = EnMano(k)
  BY DEF EnMano, DesdeSignal
<1>2. \A l \in Sitios \ {a, b} : Ocupa(l)' = Ocupa(l)
  <2> DEFINE T == {a, b}
  <2>1. \A l \in Sitios \ T : Ocupa(l)' = Ocupa(l)
    BY <1>1, Quieto
  <2>2. QED
    BY <2>1
<1>3. Unico'
  BY <1>2, Mudar DEF Puesto
<1>4. QED
  BY <1>3 DEF Puesto, ManosBien

LEMMA PuestoInicial == InterfacesInit => Puesto
<1> SUFFICES ASSUME InterfacesInit PROVE Puesto
  OBVIOUS
<1> USE DEF InterfacesInit, Init
<1>1. \A h \in Hilos : hilo[h] = EnReposo
  OBVIOUS
<1>2. \A h \in Hilos : EnMano(h) = {}
  BY <1>1 DEF EnMano, EnReposo, PideWait
<1>3. \A l \in Sitios : Ocupa(l) = IF l = Listo THEN Pids ELSE {}
  <2> SUFFICES ASSUME NEW l \in Sitios PROVE Ocupa(l) = IF l = Listo THEN Pids ELSE {}
    OBVIOUS
  <2>1. CASE l \in {Listo, Libre, Cpu, Fin}
    BY <2>1, OcupaDe, SitiosSon, Vacia
  <2>2. CASE \E h \in Hilos : l = ManoDe(h)
    BY <1>2, <2>2, OcupaDe, SitiosSon
  <2>3. CASE \E r \in Nombres : l = ColaDe(r)
    BY <2>3, OcupaDe, SitiosSon, Vacia
  <2>4. CASE \E i \in Ios : l = BloqueadoEn(i)
    BY <2>4, OcupaDe, SitiosSon, Vacia
  <2>5. CASE \E i \in Ios : l = AtendidoPor(i)
    <3>1. PICK i \in Ios : l = AtendidoPor(i)
      BY <2>5
    <3>2. Ocupa(l) = {}
      BY <3>1, OcupaDe, RecursosAssumption
    <3>3. QED
      BY <3>1, <3>2, SitiosSon
  <2>6. QED
    BY <2>1, <2>2, <2>3, <2>4, <2>5 DEF Sitios
<1>4. Unico
  BY <1>3, SitiosSon DEF Unico
<1>5. ListasBien
  BY Vacia DEF ListasBien
<1>6. ManosBien /\ AtendidosBien
  BY <1>1 DEF ManosBien, Distintos, EnReposo, PideWait, AntesDeSoltar, AtendidosBien
<1>7. QED
  BY <1>4, <1>5, <1>6 DEF Puesto

-----------------------------------------------------------------------------
(***************************************************************************)
(* The steps of a thread that move nothing.                                *)
(***************************************************************************)
LEMMA MismoPcb ==
  ASSUME HilosBien, Puesto, NEW h \in Hilos, NEW v, hilo' = [hilo EXCEPT ![h] = v],
         v.pid = hilo[h].pid, v.pcb = hilo[h].pcb,
         \/ hilo[h].pc \in PideWait /\ v.pc \in PideWait
         \/ hilo[h].pc \in AntesDeSoltar /\ v.pc \in AntesDeSoltar
         \/ h = "dispatch" /\ hilo[h].pc = "mirar_cola" /\ v.pc = "signal_soltar"
         \/ h = "largo" /\ hilo[h].pc = "mirar_cola" /\ v.pc = "liberar"
         \/ h = "dispatch" /\ hilo[h].pc = "signal_soltar" /\ v.pc = "signal_enviar" /\ v.pcb = Nadie
         \/ h = "dispatch" /\ hilo[h].pc = "signal_soltar" /\ v.pc = "wait",
         UNCHANGED <<planVars, cola, ioVars>>
  PROVE  Puesto'
<1>1. Distintos(h, hilo[h]) /\ TypeHilos /\ Vale(hilo[h], instancias)
  BY DEF Puesto, ManosBien, HilosBien, LocalesValen
<1>2. hilo[h].pc # "reposo" => hilo[h].pid \in Pids /\ hilo[h].pid # Nadie
  BY <1>1, RecursosAssumption DEF Vale
<1>3. Distintos(h, v)
  BY <1>1, <1>2 DEF Distintos, PideWait, AntesDeSoltar
<1>4. Lleva(h, v) \cap Pids = Lleva(h, hilo[h]) \cap Pids
  BY <1>1, <1>2, RecursosAssumption DEF Lleva, Distintos, De, PideWait, AntesDeSoltar
<1>5. QED
  BY <1>1, <1>3, <1>4, HiloQuieto

LEMMA PuestoTomarMutex ==
  ASSUME HilosBien, Puesto, UNCHANGED ioVars, NEW h \in Hilos, NEW desde, NEW hacia,
         \/ desde = "wait" /\ hacia = "wait_buscar"
         \/ desde = "signal" /\ hacia = "signal_buscar" /\ h = "dispatch",
         TomarMutex(h, desde, hacia)
  PROVE  Puesto'
<1> DEFINE v == [hilo[h] EXCEPT !.pc = hacia]
<1>1. hilo[h] \in Locales /\ hilo' = [hilo EXCEPT ![h] = v] /\ hilo[h].pc = desde
  BY DEF TomarMutex, Poner, HilosBien, TypeHilos
<1>2. v.pid = hilo[h].pid /\ v.pcb = hilo[h].pcb /\ v.pc = hacia
  BY <1>1 DEF Locales
<1>3. UNCHANGED <<planVars, cola>>
  BY DEF TomarMutex, recursoVars
<1> HIDE DEF v
<1>4. QED
  BY <1>1, <1>2, <1>3, MismoPcb DEF PideWait, AntesDeSoltar

LEMMA PuestoWaitMirar ==
  ASSUME HilosBien, Puesto, UNCHANGED ioVars, NEW h \in Hilos, WaitMirar(h)
  PROVE  Puesto'
<1>1. PICK pc \in {"wait_leer", "wait_bloquear"} : Poner(h, pc)
  BY DEF WaitMirar
<1> DEFINE v == [hilo[h] EXCEPT !.pc = pc]
<1>2. hilo[h] \in Locales /\ hilo' = [hilo EXCEPT ![h] = v] /\ hilo[h].pc = "wait_buscar"
  BY <1>1 DEF WaitMirar, Poner, HilosBien, TypeHilos
<1>3. v.pid = hilo[h].pid /\ v.pcb = hilo[h].pcb /\ v.pc = pc
  BY <1>2 DEF Locales
<1>4. UNCHANGED <<planVars, cola>>
  BY DEF WaitMirar, recursoVars
<1> HIDE DEF v
<1>5. QED
  BY <1>2, <1>3, <1>4, MismoPcb DEF PideWait

LEMMA PuestoLeer ==
  ASSUME HilosBien, Puesto, UNCHANGED ioVars, NEW h \in Hilos, WaitLeer(h) \/ IncLeer(h)
  PROVE  Puesto'
<1>1. PICK pc \in {"wait_asignar", "inc_escribir"} :
         /\ hilo[h].pc = IF pc = "wait_asignar" THEN "wait_leer" ELSE "inc_leer"
         /\ hilo' = [hilo EXCEPT ![h].leido = instancias[hilo[h].recurso], ![h].pc = pc]
  BY DEF WaitLeer, IncLeer
<1> DEFINE v == [hilo[h] EXCEPT !.leido = instancias[hilo[h].recurso], !.pc = pc]
<1>2. hilo[h] \in Locales /\ hilo' = [hilo EXCEPT ![h] = v]
  BY <1>1 DEF HilosBien, TypeHilos
<1>3. v.pid = hilo[h].pid /\ v.pcb = hilo[h].pcb /\ v.pc = pc
  BY <1>2 DEF Locales
<1>4. UNCHANGED <<planVars, cola>>
  BY DEF WaitLeer, IncLeer, recursoVars
<1> HIDE DEF v
<1>5. QED
  BY <1>1, <1>2, <1>3, <1>4, MismoPcb DEF PideWait, AntesDeSoltar

LEMMA PuestoSignalRemover ==
  ASSUME HilosBien, Puesto, UNCHANGED ioVars, SignalRemover
  PROVE  Puesto'
<1> DEFINE h == "dispatch"
           v == [hilo[h] EXCEPT !.pc = "inc_leer"]
<1>1. h \in Hilos /\ hilo[h] \in Locales /\ hilo' = [hilo EXCEPT ![h] = v] /\ hilo[h].pc = "signal_buscar"
  BY DEF SignalRemover, Poner, HilosBien, TypeHilos
<1>2. v.pid = hilo[h].pid /\ v.pcb = hilo[h].pcb /\ v.pc = "inc_leer"
  BY <1>1 DEF Locales
<1>3. UNCHANGED <<planVars, cola>>
  BY DEF SignalRemover
<1> HIDE DEF v
<1>4. QED
  BY <1>1, <1>2, <1>3, MismoPcb DEF AntesDeSoltar

LEMMA PuestoIncEscribir ==
  ASSUME HilosBien, Puesto, UNCHANGED ioVars, NEW h \in Hilos, IncEscribir(h)
  PROVE  Puesto'
<1> DEFINE v == [hilo[h] EXCEPT !.pc = "mirar_cola"]
<1>1. hilo[h] \in Locales /\ hilo' = [hilo EXCEPT ![h] = v] /\ hilo[h].pc = "inc_escribir"
  BY DEF IncEscribir, Poner, HilosBien, TypeHilos
<1>2. v.pid = hilo[h].pid /\ v.pcb = hilo[h].pcb /\ v.pc = "mirar_cola"
  BY <1>1 DEF Locales
<1>3. UNCHANGED <<planVars, cola>>
  BY DEF IncEscribir
<1> HIDE DEF v
<1>4. QED
  BY <1>1, <1>2, <1>3, MismoPcb DEF AntesDeSoltar

LEMMA PuestoMirarCola ==
  ASSUME HilosBien, Puesto, UNCHANGED ioVars, NEW h \in Hilos, NEW hacia,
         AlguienEspera(h) \/ NadieEspera(h, hacia),
         \/ h = "dispatch" /\ hacia = "signal_soltar"
         \/ h = "largo" /\ hacia = "liberar"
  PROVE  Puesto'
<1>1. PICK pc \in {"desbloquear", hacia} : Poner(h, pc)
  BY DEF AlguienEspera, NadieEspera
<1> DEFINE v == [hilo[h] EXCEPT !.pc = pc]
<1>2. hilo[h] \in Locales /\ hilo' = [hilo EXCEPT ![h] = v] /\ hilo[h].pc = "mirar_cola"
  BY <1>1 DEF AlguienEspera, NadieEspera, Poner, HilosBien, TypeHilos
<1>3. v.pid = hilo[h].pid /\ v.pcb = hilo[h].pcb /\ v.pc = pc
  BY <1>2 DEF Locales
<1>4. UNCHANGED <<planVars, cola>>
  BY DEF AlguienEspera, NadieEspera, recursoVars
<1> HIDE DEF v
<1>5. QED
  BY <1>2, <1>3, <1>4, MismoPcb DEF AntesDeSoltar

LEMMA PuestoSignalSoltar ==
  ASSUME HilosBien, Puesto, UNCHANGED ioVars, SignalSoltar
  PROVE  Puesto'
<1> DEFINE h == "dispatch"
<1>1. PICK pc \in {"signal_enviar", "wait"} :
         Poner(h, pc) /\ (pc = "signal_enviar" => hilo[h].pcb = Nadie)
  BY DEF SignalSoltar
<1> DEFINE v == [hilo[h] EXCEPT !.pc = pc]
<1>2. h \in Hilos /\ hilo[h] \in Locales /\ hilo' = [hilo EXCEPT ![h] = v] /\ hilo[h].pc = "signal_soltar"
  BY <1>1 DEF SignalSoltar, Poner, HilosBien, TypeHilos
<1>3. v.pid = hilo[h].pid /\ v.pcb = hilo[h].pcb /\ v.pc = pc
  BY <1>2 DEF Locales
<1>4. UNCHANGED <<planVars, cola>>
  BY DEF SignalSoltar, recursoVars
<1> HIDE DEF v
<1>5. QED
  BY <1>1, <1>2, <1>3, <1>4, MismoPcb

(* Where a thread goes on, it has all it had but the process that waited.    *)
LEMMA VolverLleva ==
  ASSUME HilosBien, Puesto, NEW h \in Hilos, hilo[h].pc \in PideWait \cup {"soltar"}, Volver(h)
  PROVE  \E v : /\ hilo' = [hilo EXCEPT ![h] = v]
                /\ Distintos(h, v)
                /\ Lleva(h, v) = IF h = "largo" \/ De(h, hilo[h]) THEN {hilo[h].pid} ELSE {}
<1>1. hilo[h] \in Locales
  BY DEF HilosBien, TypeHilos
<1> DEFINE l == [EnReposo EXCEPT !.pc = "liberar", !.pid = hilo[h].pid]
           s == [hilo[h] EXCEPT !.pc = "signal_enviar"]
<1>2. l.pc = "liberar" /\ l.pid = hilo[h].pid /\ s.pc = "signal_enviar" /\ s.pid = hilo[h].pid
      /\ EnReposo.pc = "reposo"
  BY <1>1 DEF Locales, EnReposo
<1>3. hilo' = [hilo EXCEPT ![h] = IF h = "largo" THEN l ELSE IF De(h, hilo[h]) THEN s ELSE EnReposo]
  BY DEF Volver, DesdeSignal, De
<1> HIDE DEF l, s
<1> DEFINE v == IF h = "largo" THEN l ELSE IF De(h, hilo[h]) THEN s ELSE EnReposo
<1>4. Distintos(h, v)
  BY <1>2 DEF Distintos, PideWait, AntesDeSoltar
<1>5. Lleva(h, v) = IF h = "largo" \/ De(h, hilo[h]) THEN {hilo[h].pid} ELSE {}
  BY <1>2 DEF Lleva, PideWait
<1>6. QED
  BY <1>3, <1>4, <1>5

LEMMA PuestoSoltar ==
  ASSUME HilosBien, Puesto, UNCHANGED ioVars, NEW h \in Hilos, Soltar(h)
  PROVE  Puesto'
<1>1. hilo[h].pc = "soltar" /\ UNCHANGED <<planVars, cola>>
  BY DEF Soltar, recursoVars
<1>2. PICK v : /\ hilo' = [hilo EXCEPT ![h] = v]
               /\ Distintos(h, v)
               /\ Lleva(h, v) = IF h = "largo" \/ De(h, hilo[h]) THEN {hilo[h].pid} ELSE {}
  BY <1>1, VolverLleva DEF Soltar
<1>3. Lleva(h, hilo[h]) = Lleva(h, v)
  BY <1>1, <1>2 DEF Lleva, PideWait, De
<1>4. QED
  BY <1>1, <1>2, <1>3, HiloQuieto DEF HilosBien

LEMMA PuestoLiberarUno ==
  ASSUME HilosBien, Puesto, UNCHANGED ioVars, LiberarUno
  PROVE  Puesto'
<1> DEFINE h == "largo"
           v == [hilo[h] EXCEPT !.recurso = Head(asignados[hilo[h].pid]), !.pcb = Nadie, !.pc = "inc_leer"]
<1>1. h \in Hilos /\ hilo[h] \in Locales /\ hilo' = [hilo EXCEPT ![h] = v] /\ hilo[h].pc = "liberar"
  BY DEF LiberarUno, HilosBien, TypeHilos
<1>2. v.pid = hilo[h].pid /\ v.pc = "inc_leer"
  BY <1>1 DEF Locales
<1>3. UNCHANGED <<planVars, cola>>
  BY DEF LiberarUno
<1> HIDE DEF v
<1>4. Distintos(h, v) /\ Lleva(h, v) = Lleva(h, hilo[h])
  BY <1>1, <1>2 DEF Distintos, Lleva, PideWait, AntesDeSoltar
<1>5. QED
  BY <1>1, <1>3, <1>4, HiloQuieto DEF HilosBien

-----------------------------------------------------------------------------
(***************************************************************************)
(* The steps of a thread that move a process.                              *)
(***************************************************************************)
LEMMA EnSuMano ==
  ASSUME NEW h \in Hilos, NEW p \in Pids, p \in Lleva(h, hilo[h])
  PROVE  p \in Ocupa(ManoDe(h)) /\ ManoDe(h) \in Sitios
<1>1. EnMano(h) = Lleva(h, hilo[h])
  BY DEF EnMano, Lleva, DesdeSignal, De
<1>2. QED
  BY <1>1, OcupaDe, SitiosSon

LEMMA PuestoWaitDesconocido ==
  ASSUME TypeRecursos, HilosBien, Puesto, UNCHANGED ioVars, NEW h \in Hilos, WaitDesconocido(h)
  PROVE  Puesto'
<1> DEFINE p == hilo[h].pcb
<1>1. /\ hilo[h].pc = "wait_buscar" /\ exit' = Append(exit, p)
      /\ UNCHANGED <<ready, enCpu, liberados, cola>>
  BY DEF WaitDesconocido, EnviarAExit, recursoVars
<1>2. p \in Pids /\ Distintos(h, hilo[h])
  BY <1>1 DEF HilosBien, LocalesValen, Vale, PideWait, Puesto, ManosBien
<1>3. PICK v : /\ hilo' = [hilo EXCEPT ![h] = v]
               /\ Distintos(h, v)
               /\ Lleva(h, v) = IF h = "largo" \/ De(h, hilo[h]) THEN {hilo[h].pid} ELSE {}
  BY <1>1, VolverLleva DEF WaitDesconocido, PideWait
<1>4. /\ p \in Lleva(h, hilo[h])
      /\ Lleva(h, v) \cap Pids = (Lleva(h, hilo[h]) \cap Pids) \ {p}
  BY <1>1, <1>2, <1>3 DEF Lleva, PideWait, De, Distintos
<1>5. p \notin Elementos(exit) /\ Fin \in Sitios /\ Fin # ManoDe(h)
  BY <1>2, <1>4, EnSuMano, SitiosSon, OcupaDe, SoloAhi DEF Puesto
<1>6. Ocupa(Fin)' = Ocupa(Fin) \cup {p} /\ SinRepetir(exit')
  BY <1>1, <1>2, <1>5, AlFinal, OcupaDe, OcuparaDe DEF TypeRecursos, Puesto, ListasBien
<1> HIDE DEF p
<1>7. Unico' /\ ManosBien' /\ AtendidosBien'
  BY <1>1, <1>2, <1>3, <1>4, <1>5, <1>6, Entregar DEF HilosBien
<1>8. QED
  BY <1>1, <1>6, <1>7 DEF Puesto, ListasBien, ioVars

LEMMA PuestoWaitAsignar ==
  ASSUME TypeRecursos, HilosBien, Puesto, UNCHANGED ioVars, NEW h \in Hilos, WaitAsignar(h)
  PROVE  Puesto'
<1> DEFINE p == hilo[h].pcb
           v == [hilo[h] EXCEPT !.pc = "soltar"]
<1>1. /\ hilo[h].pc = "wait_asignar" /\ UNCHANGED <<exit, liberados, cola>>
      /\ hilo[h] \in Locales /\ hilo' = [hilo EXCEPT ![h] = v]
  BY DEF WaitAsignar, Poner, HilosBien, TypeHilos
<1>2. p \in Pids /\ Distintos(h, hilo[h])
  BY <1>1 DEF HilosBien, LocalesValen, Vale, PideWait, Puesto, ManosBien
<1>3. v.pc = "soltar" /\ v.pid = hilo[h].pid /\ v.pcb = p
  BY <1>1 DEF Locales
<1> HIDE DEF v
<1>4. /\ p \in Lleva(h, hilo[h]) /\ Distintos(h, v)
      /\ Lleva(h, v) \cap Pids = (Lleva(h, hilo[h]) \cap Pids) \ {p}
  BY <1>1, <1>2, <1>3 DEF Lleva, PideWait, De, Distintos, AntesDeSoltar
<1>5. /\ p \notin Elementos(enCpu) /\ Cpu \in Sitios /\ Cpu # ManoDe(h)
      /\ Listo \in Sitios /\ Listo # ManoDe(h) /\ Cpu # Listo
  BY <1>2, <1>4, EnSuMano, SitiosSon, OcupaDe, SoloAhi DEF Puesto
<1>6. CASE DesdeSignal(h)
  <2>1. ready' = ready \cup {p} /\ UNCHANGED enCpu
    BY <1>6 DEF WaitAsignar
  <2>2. Ocupa(Listo)' = Ocupa(Listo) \cup {p}
    BY <2>1, OcupaDe, OcuparaDe
  <2> HIDE DEF p
  <2>3. Unico' /\ ManosBien' /\ AtendidosBien'
    BY <1>1, <1>2, <1>4, <1>5, <2>1, <2>2, Entregar DEF HilosBien
  <2>4. QED
    BY <1>1, <2>1, <2>3 DEF Puesto, ListasBien, ioVars
<1>7. CASE ~DesdeSignal(h)
  <2>1. enCpu' = Append(enCpu, p) /\ UNCHANGED ready
    BY <1>7 DEF WaitAsignar
  <2>2. Ocupa(Cpu)' = Ocupa(Cpu) \cup {p} /\ SinRepetir(enCpu')
    BY <1>2, <1>5, <2>1, AlFinal, OcupaDe, OcuparaDe DEF TypeRecursos, Puesto, ListasBien
  <2> HIDE DEF p
  <2>3. Unico' /\ ManosBien' /\ AtendidosBien'
    BY <1>1, <1>2, <1>4, <1>5, <2>1, <2>2, Entregar DEF HilosBien
  <2>4. QED
    BY <1>1, <2>2, <2>3 DEF Puesto, ListasBien, ioVars
<1>8. QED
  BY <1>6, <1>7

LEMMA PuestoWaitBloquear ==
  ASSUME TypeRecursos, HilosBien, Puesto, UNCHANGED ioVars, NEW h \in Hilos, WaitBloquear(h)
  PROVE  Puesto'
<1> DEFINE p == hilo[h].pcb
           v == [hilo[h] EXCEPT !.pc = "soltar"]
<1>0. PICK r \in Nombres : r = hilo[h].recurso
  BY DEF WaitBloquear, HilosBien, LocalesValen, Vale, ConRecurso
<1>1. /\ hilo[h].pc = "wait_bloquear" /\ UNCHANGED <<ready, enCpu, exit, liberados>>
      /\ cola' = [cola EXCEPT ![r] = Append(cola[r], p)]
      /\ hilo[h] \in Locales /\ hilo' = [hilo EXCEPT ![h] = v]
  BY <1>0 DEF WaitBloquear, Poner, HilosBien, TypeHilos
<1>2. p \in Pids /\ Distintos(h, hilo[h])
  BY <1>1 DEF HilosBien, LocalesValen, Vale, PideWait, Puesto, ManosBien
<1>3. v.pc = "soltar" /\ v.pid = hilo[h].pid /\ v.pcb = p
  BY <1>1 DEF Locales
<1> HIDE DEF v
<1>4. /\ p \in Lleva(h, hilo[h]) /\ Distintos(h, v)
      /\ Lleva(h, v) \cap Pids = (Lleva(h, hilo[h]) \cap Pids) \ {p}
  BY <1>1, <1>2, <1>3 DEF Lleva, PideWait, De, Distintos, AntesDeSoltar
<1>5. p \notin Elementos(cola[r]) /\ ColaDe(r) \in Sitios /\ ColaDe(r) # ManoDe(h)
  BY <1>2, <1>4, EnSuMano, SitiosSon, OcupaDe, SoloAhi DEF Puesto
<1>6. cola'[r] = Append(cola[r], p) /\ \A q \in Nombres \ {r} : cola'[q] = cola[q]
  BY <1>1, <1>2 DEF TypeRecursos
<1>7. Ocupa(ColaDe(r))' = Ocupa(ColaDe(r)) \cup {p} /\ SinRepetir(cola'[r])
  <2>1. cola[r] \in Seq(Pids) /\ SinRepetir(cola[r])
    BY <1>2 DEF TypeRecursos, Puesto, ListasBien
  <2>2. Elementos(cola'[r]) = Elementos(cola[r]) \cup {p} /\ SinRepetir(cola'[r])
    BY <1>2, <1>5, <1>6, <2>1, AlFinal
  <2>3. QED
    BY <1>2, <2>2, OcupaDe, OcuparaDe
<1> HIDE DEF p
<1>8. Unico' /\ ManosBien' /\ AtendidosBien'
  <2>1. \A q \in Nombres : cola'[q] = cola[q] \/ ColaDe(r) = ColaDe(q)
    BY <1>6
  <2>2. QED
    BY <1>1, <1>2, <1>4, <1>5, <1>7, <2>1, Entregar DEF HilosBien
<1>9. QED
  BY <1>1, <1>6, <1>7, <1>8 DEF Puesto, ListasBien, ioVars

LEMMA PuestoSignalRechazar ==
  ASSUME TypeRecursos, HilosBien, Puesto, UNCHANGED ioVars, SignalRechazar
  PROVE  Puesto'
<1> DEFINE h == "dispatch"
           p == hilo[h].pid
<1>1. /\ h \in Hilos /\ hilo[h].pc = "signal_buscar" /\ exit' = Append(exit, p)
      /\ UNCHANGED <<ready, enCpu, liberados, cola>> /\ hilo' = [hilo EXCEPT ![h] = EnReposo]
  BY DEF SignalRechazar, EnviarAExit, recursoVars
<1>2. p \in Pids
  BY <1>1 DEF HilosBien, LocalesValen, Vale
<1>3. /\ p \in Lleva(h, hilo[h]) /\ Distintos(h, EnReposo)
      /\ Lleva(h, EnReposo) \cap Pids = (Lleva(h, hilo[h]) \cap Pids) \ {p}
  BY <1>1 DEF Lleva, PideWait, Distintos, EnReposo, AntesDeSoltar
<1>4. p \notin Elementos(exit) /\ Fin \in Sitios /\ Fin # ManoDe(h)
  BY <1>1, <1>2, <1>3, EnSuMano, SitiosSon, OcupaDe, SoloAhi DEF Puesto
<1>5. Ocupa(Fin)' = Ocupa(Fin) \cup {p} /\ SinRepetir(exit')
  BY <1>1, <1>2, <1>4, AlFinal, OcupaDe, OcuparaDe DEF TypeRecursos, Puesto, ListasBien
<1> HIDE DEF p
<1>6. Unico' /\ ManosBien' /\ AtendidosBien'
  BY <1>1, <1>2, <1>3, <1>4, <1>5, Entregar DEF HilosBien
<1>7. QED
  BY <1>1, <1>5, <1>6 DEF Puesto, ListasBien, ioVars

LEMMA PuestoSignalEnviar ==
  ASSUME TypeRecursos, HilosBien, Puesto, UNCHANGED ioVars, SignalEnviar
  PROVE  Puesto'
<1> DEFINE h == "dispatch"
           p == hilo[h].pid
<1>1. /\ h \in Hilos /\ hilo[h].pc = "signal_enviar" /\ enCpu' = Append(enCpu, p)
      /\ UNCHANGED <<ready, exit, liberados, cola>> /\ hilo' = [hilo EXCEPT ![h] = EnReposo]
  BY DEF SignalEnviar, recursoVars
<1>2. p \in Pids
  BY <1>1 DEF HilosBien, LocalesValen, Vale
<1>3. /\ p \in Lleva(h, hilo[h]) /\ Distintos(h, EnReposo)
      /\ Lleva(h, EnReposo) \cap Pids = (Lleva(h, hilo[h]) \cap Pids) \ {p}
  BY <1>1 DEF Lleva, PideWait, Distintos, EnReposo, AntesDeSoltar
<1>4. p \notin Elementos(enCpu) /\ Cpu \in Sitios /\ Cpu # ManoDe(h)
  BY <1>1, <1>2, <1>3, EnSuMano, SitiosSon, OcupaDe, SoloAhi DEF Puesto
<1>5. Ocupa(Cpu)' = Ocupa(Cpu) \cup {p} /\ SinRepetir(enCpu')
  BY <1>1, <1>2, <1>4, AlFinal, OcupaDe, OcuparaDe DEF TypeRecursos, Puesto, ListasBien
<1> HIDE DEF p
<1>6. Unico' /\ ManosBien' /\ AtendidosBien'
  BY <1>1, <1>2, <1>3, <1>4, <1>5, Entregar DEF HilosBien
<1>7. QED
  BY <1>1, <1>5, <1>6 DEF Puesto, ListasBien, ioVars

(* free_resource takes the process out of no queue: it ends in the hands of *)
(* the long-term planner, so it waits in none.                              *)
LEMMA ColaSinElQueTermina ==
  ASSUME TypeRecursos, HilosBien, Puesto, FreeResource
  PROVE  cola' = cola
<1> DEFINE h == "largo"
           p == hilo[h].pid
<1>1. h \in Hilos /\ hilo[h].pc = "liberar" /\ cola' = [r \in Nombres |-> ListRemoveElement(cola[r], p)]
  BY DEF FreeResource
<1>2. p \in Pids /\ p \in Lleva(h, hilo[h])
  BY <1>1 DEF HilosBien, LocalesValen, Vale, Lleva
<1>3. ASSUME NEW r \in Nombres PROVE ListRemoveElement(cola[r], p) = cola[r]
  <2>1. p \notin Elementos(cola[r])
    BY <1>1, <1>2, EnSuMano, SitiosSon, OcupaDe, SoloAhi DEF Puesto
  <2>2. QED
    BY <2>1, NoEsta DEF TypeRecursos
<1>4. QED
  BY <1>1, <1>3 DEF TypeRecursos

LEMMA PuestoFreeResource ==
  ASSUME TypeRecursos, HilosBien, Puesto, UNCHANGED ioVars, FreeResource
  PROVE  Puesto'
<1> DEFINE h == "largo"
           p == hilo[h].pid
<1>1. /\ h \in Hilos /\ hilo[h].pc = "liberar" /\ liberados' = liberados \cup {p}
      /\ UNCHANGED <<ready, enCpu, exit>> /\ hilo' = [hilo EXCEPT ![h] = EnReposo]
  BY DEF FreeResource
<1>2. p \in Pids /\ cola' = cola
  BY <1>1, ColaSinElQueTermina DEF HilosBien, LocalesValen, Vale
<1>3. /\ p \in Lleva(h, hilo[h]) /\ Distintos(h, EnReposo)
      /\ Lleva(h, EnReposo) \cap Pids = (Lleva(h, hilo[h]) \cap Pids) \ {p}
  BY <1>1 DEF Lleva, PideWait, Distintos, EnReposo, AntesDeSoltar
<1>4. Libre \in Sitios /\ Libre # ManoDe(h) /\ Ocupa(Libre)' = Ocupa(Libre) \cup {p}
  BY <1>1, SitiosSon, OcupaDe, OcuparaDe
<1> HIDE DEF p
<1>5. Unico' /\ ManosBien' /\ AtendidosBien'
  BY <1>1, <1>2, <1>3, <1>4, Entregar DEF HilosBien
<1>6. QED
  BY <1>1, <1>2, <1>5 DEF Puesto, ListasBien, ioVars

(* The unblocked process is not the one that gave the instance back.         *)
LEMMA PuestoDesbloquear ==
  ASSUME TypeRecursos, HilosBien, Puesto, UNCHANGED ioVars, NEW h \in Hilos, NEW hacia,
         Desbloquear(h, hacia),
         \/ h = "dispatch" /\ hacia = "signal_soltar"
         \/ h = "largo" /\ hacia = "wait"
  PROVE  Puesto'
<1>0. PICK r \in Nombres : r = hilo[h].recurso
  BY DEF Desbloquear, HilosBien, LocalesValen, Vale, ConRecurso
<1> DEFINE p == Head(cola[r])
           v == [hilo[h] EXCEPT !.pcb = p, !.pc = hacia]
<1>1. hilo[h].pc = "desbloquear" /\ UNCHANGED planVars /\ hilo[h] \in Locales
  BY DEF Desbloquear, HilosBien, TypeHilos
<1>2. hilo[h].pid \in Pids /\ cola[r] \in Seq(Pids)
  BY <1>1 DEF HilosBien, LocalesValen, Vale, TypeRecursos
<1>3. CASE cola[r] = <<>>
  <2>1. UNCHANGED <<cola, hilo>>
    BY <1>0, <1>3 DEF Desbloquear
  <2>2. hilo' = [hilo EXCEPT ![h] = hilo[h]]
    BY <2>1 DEF HilosBien, TypeHilos
  <2>3. QED
    BY <1>1, <2>1, <2>2, HiloQuieto DEF HilosBien, Puesto, ManosBien
<1>4. CASE cola[r] # <<>>
  <2>1. hilo' = [hilo EXCEPT ![h] = v] /\ cola' = [cola EXCEPT ![r] = Tail(cola[r])]
    BY <1>0, <1>1, <1>4 DEF Desbloquear, HilosBien, TypeHilos
  <2>2. cola'[r] = Tail(cola[r]) /\ \A q \in Nombres \ {r} : cola'[q] = cola[q]
    BY <1>2, <2>1 DEF TypeRecursos
  <2>3. /\ p \in Pids /\ p \in Elementos(cola[r])
        /\ Elementos(cola'[r]) = Elementos(cola[r]) \ {p} /\ SinRepetir(cola'[r])
    BY <1>2, <1>4, <2>2, DelPrincipio DEF Puesto, ListasBien
  <2>4. v.pc = hacia /\ v.pid = hilo[h].pid /\ v.pcb = p
    BY <1>1 DEF Locales
  <2> HIDE DEF v
  <2>5. hilo[h].pid \in Lleva(h, hilo[h])
    BY <1>1 DEF Lleva, PideWait
  <2>6. ColaDe(r) \in Sitios /\ ColaDe(r) # ManoDe(h) /\ p \in Ocupa(ColaDe(r))
        /\ Ocupa(ColaDe(r))' = Ocupa(ColaDe(r)) \ {p}
    BY <1>2, <2>3, SitiosSon, OcupaDe, OcuparaDe
  <2>7. p # hilo[h].pid
    <3>1. hilo[h].pid \in Ocupa(ManoDe(h)) /\ ManoDe(h) \in Sitios
      BY <1>2, <2>5, EnSuMano
    <3>2. hilo[h].pid \notin Ocupa(ColaDe(r))
      BY <1>2, <2>6, <3>1, SoloAhi DEF Puesto
    <3>3. QED
      BY <2>6, <3>2
  <2>8. /\ Distintos(h, v)
        /\ Lleva(h, v) \cap Pids = (Lleva(h, hilo[h]) \cap Pids) \cup {p}
    BY <1>1, <2>3, <2>4, <2>7 DEF Lleva, PideWait, De, Distintos, AntesDeSoltar
  <2> HIDE DEF p
  <2>9. Unico' /\ ManosBien' /\ AtendidosBien'
    <3>1. \A q \in Nombres : cola'[q] = cola[q] \/ ColaDe(r) = ColaDe(q)
      BY <2>2
    <3>2. QED
      BY <1>1, <2>1, <2>3, <2>6, <2>8, <3>1, Tomar DEF HilosBien, planVars
  <2>10. QED
    BY <1>1, <2>2, <2>3, <2>9 DEF Puesto, ListasBien, ioVars, planVars
<1>5. QED
  BY <1>3, <1>4

LEMMA PuestoPedir ==
  ASSUME TypeRecursos, HilosBien, Puesto, UNCHANGED ioVars, NEW r \in Nombres \cup {Desconocido},
         PedirWait(r) \/ PedirSignal(r)
  PROVE  Puesto'
<1> DEFINE h == "dispatch"
           p == Head(enCpu)
<1>1. /\ h \in Hilos /\ hilo[h].pc = "reposo" /\ enCpu # <<>> /\ enCpu' = Tail(enCpu)
      /\ UNCHANGED <<ready, exit, liberados, cola>>
  BY DEF PedirWait, PedirSignal, recursoVars
<1>2. PICK v : /\ hilo' = [hilo EXCEPT ![h] = v] /\ v.pid = p
               /\ \/ v.pc = "wait" /\ v.pcb = p
                  \/ v.pc = "signal" /\ v.pcb = Nadie
  <2>1. CASE PedirWait(r)
    <3> DEFINE w == [EnReposo EXCEPT !.pc = "wait", !.pid = p, !.pcb = p, !.recurso = r]
    <3>1. hilo' = [hilo EXCEPT ![h] = w]
      BY <2>1 DEF PedirWait
    <3>2. w.pid = p /\ w.pc = "wait" /\ w.pcb = p
      BY DEF EnReposo
    <3> HIDE DEF w
    <3>3. QED
      BY <3>1, <3>2
  <2>2. CASE PedirSignal(r)
    <3> DEFINE w == [EnReposo EXCEPT !.pc = "signal", !.pid = p, !.recurso = r]
    <3>1. hilo' = [hilo EXCEPT ![h] = w]
      BY <2>2 DEF PedirSignal
    <3>2. w.pid = p /\ w.pc = "signal" /\ w.pcb = Nadie
      BY DEF EnReposo
    <3> HIDE DEF w
    <3>3. QED
      BY <3>1, <3>2
  <2>3. QED
    BY <2>1, <2>2
<1>3. /\ p \in Pids /\ p \in Elementos(enCpu)
      /\ Elementos(enCpu') = Elementos(enCpu) \ {p} /\ SinRepetir(enCpu')
  BY <1>1, DelPrincipio DEF TypeRecursos, Puesto, ListasBien
<1>4. /\ Distintos(h, v)
      /\ Lleva(h, v) \cap Pids = (Lleva(h, hilo[h]) \cap Pids) \cup {p}
  BY <1>1, <1>2, <1>3 DEF Lleva, PideWait, De, Distintos, AntesDeSoltar
<1>5. Cpu \in Sitios /\ Cpu # ManoDe(h) /\ p \in Ocupa(Cpu) /\ Ocupa(Cpu)' = Ocupa(Cpu) \ {p}
  BY <1>1, <1>3, SitiosSon, OcupaDe, OcuparaDe
<1> HIDE DEF p
<1>6. Unico' /\ ManosBien' /\ AtendidosBien'
  BY <1>1, <1>2, <1>3, <1>4, <1>5, Tomar DEF HilosBien
<1>7. QED
  BY <1>1, <1>3, <1>6 DEF Puesto, ListasBien, ioVars

LEMMA PuestoEndProcess ==
  ASSUME TypeRecursos, HilosBien, Puesto, UNCHANGED ioVars, EndProcess
  PROVE  Puesto'
<1> DEFINE h == "largo"
           p == Head(exit)
           v == [EnReposo EXCEPT !.pc = "liberar", !.pid = p]
<1>1. /\ h \in Hilos /\ hilo[h].pc = "reposo" /\ exit # <<>> /\ exit' = Tail(exit)
      /\ UNCHANGED <<ready, enCpu, liberados, cola>> /\ hilo' = [hilo EXCEPT ![h] = v]
  BY DEF EndProcess, recursoVars
<1>2. v.pid = p /\ v.pc = "liberar"
  BY DEF EnReposo
<1> HIDE DEF v
<1>3. /\ p \in Pids /\ p \in Elementos(exit)
      /\ Elementos(exit') = Elementos(exit) \ {p} /\ SinRepetir(exit')
  BY <1>1, DelPrincipio DEF TypeRecursos, Puesto, ListasBien
<1>4. /\ Distintos(h, v)
      /\ Lleva(h, v) \cap Pids = (Lleva(h, hilo[h]) \cap Pids) \cup {p}
  BY <1>1, <1>2, <1>3 DEF Lleva, PideWait, De, Distintos, AntesDeSoltar
<1>5. Fin \in Sitios /\ Fin # ManoDe(h) /\ p \in Ocupa(Fin) /\ Ocupa(Fin)' = Ocupa(Fin) \ {p}
  BY <1>1, <1>3, SitiosSon, OcupaDe, OcuparaDe
<1> HIDE DEF p
<1>6. Unico' /\ ManosBien' /\ AtendidosBien'
  BY <1>1, <1>3, <1>4, <1>5, Tomar DEF HilosBien
<1>7. QED
  BY <1>1, <1>3, <1>6 DEF Puesto, ListasBien, ioVars

-----------------------------------------------------------------------------
(***************************************************************************)
(* The planning and the interfaces.                                        *)
(***************************************************************************)
LEMMA PuestoEjecutar ==
  ASSUME TypeRecursos, Puesto, UNCHANGED ioVars, NEW p \in Pids, Ejecutar(p)
  PROVE  Puesto'
<1>1. /\ p \in ready /\ ready' = ready \ {p} /\ enCpu' = Append(enCpu, p)
      /\ UNCHANGED <<exit, liberados, cola, hilo>>
  BY DEF Ejecutar, recursoVars
<1>2. /\ Listo \in Sitios /\ Cpu \in Sitios /\ Listo # Cpu
      /\ p \in Ocupa(Listo) /\ Ocupa(Listo)' = Ocupa(Listo) \ {p}
  BY <1>1, SitiosSon, OcupaDe, OcuparaDe
<1>3. p \notin Elementos(enCpu)
  BY <1>2, OcupaDe, SoloAhi DEF Puesto
<1>4. Ocupa(Cpu)' = Ocupa(Cpu) \cup {p} /\ SinRepetir(enCpu')
  BY <1>1, <1>3, AlFinal, OcupaDe, OcuparaDe DEF TypeRecursos, Puesto, ListasBien
<1>5. Unico' /\ ManosBien'
  BY <1>1, <1>2, <1>4, Pasar DEF ioVars
<1>6. QED
  BY <1>1, <1>4, <1>5 DEF Puesto, ListasBien, AtendidosBien, ioVars

(* The PCB that comes back from the CPU leaves the list of those sent to it. *)
LEMMA SaleDeCpu ==
  ASSUME TypeRecursos, Puesto, enCpu # <<>>, enCpu' = Tail(enCpu)
  PROVE  /\ Head(enCpu) \in Pids /\ Head(enCpu) \in Ocupa(Cpu)
         /\ Ocupa(Cpu)' = Ocupa(Cpu) \ {Head(enCpu)} /\ SinRepetir(enCpu')
  BY DelPrincipio, OcupaDe, OcuparaDe DEF TypeRecursos, Puesto, ListasBien

LEMMA PuestoDesalojar ==
  ASSUME TypeRecursos, Puesto, UNCHANGED ioVars, Desalojar
  PROVE  Puesto'
<1>1. /\ enCpu # <<>> /\ enCpu' = Tail(enCpu) /\ ready' = ready \cup {Head(enCpu)}
      /\ UNCHANGED <<exit, liberados, cola, hilo>>
  BY DEF Desalojar, recursoVars
<1>2. PICK p \in Pids : p = Head(enCpu)
  BY <1>1, SaleDeCpu
<1>3. /\ p \in Ocupa(Cpu) /\ Ocupa(Cpu)' = Ocupa(Cpu) \ {p} /\ SinRepetir(enCpu')
      /\ Listo \in Sitios /\ Cpu \in Sitios /\ Listo # Cpu
      /\ Ocupa(Listo)' = Ocupa(Listo) \cup {p}
  BY <1>1, <1>2, SaleDeCpu, SitiosSon, OcupaDe, OcuparaDe
<1>4. Unico' /\ ManosBien'
  BY <1>1, <1>3, Pasar DEF ioVars
<1>5. QED
  BY <1>1, <1>3, <1>4 DEF Puesto, ListasBien, AtendidosBien, ioVars

(* A process that ends, here or in PedirIo.                                  *)
LEMMA AExit ==
  ASSUME TypeRecursos, Puesto, NEW p \in Pids, NEW a \in Sitios, a # Fin, p \in Ocupa(a),
         exit' = Append(exit, p)
  PROVE  Ocupa(Fin)' = Ocupa(Fin) \cup {p} /\ SinRepetir(exit') /\ Fin \in Sitios
<1>1. p \notin Elementos(exit) /\ Fin \in Sitios
  BY SitiosSon, OcupaDe, SoloAhi DEF Puesto
<1>2. QED
  BY <1>1, AlFinal, OcupaDe, OcuparaDe DEF TypeRecursos, Puesto, ListasBien

LEMMA PuestoSalir ==
  ASSUME TypeRecursos, Puesto, UNCHANGED <<hilo, cola, liberados, ready, ioVars>>,
         enCpu # <<>>, enCpu' = Tail(enCpu), exit' = Append(exit, Head(enCpu))
  PROVE  Puesto'
<1>1. PICK p \in Pids : p = Head(enCpu)
  BY SaleDeCpu
<1>2. /\ p \in Ocupa(Cpu) /\ Ocupa(Cpu)' = Ocupa(Cpu) \ {p} /\ SinRepetir(enCpu')
      /\ Cpu \in Sitios /\ Cpu # Fin
  BY <1>1, SaleDeCpu, SitiosSon
<1>3. Ocupa(Fin)' = Ocupa(Fin) \cup {p} /\ SinRepetir(exit') /\ Fin \in Sitios
  BY <1>1, <1>2, AExit
<1>4. Unico' /\ ManosBien'
  BY <1>2, <1>3, Pasar DEF ioVars
<1>5. QED
  BY <1>2, <1>3, <1>4 DEF Puesto, ListasBien, AtendidosBien, ioVars

LEMMA PuestoPedirIo ==
  ASSUME TypeRecursos, TypeInterfaces, Puesto, NEW i \in Ios, PedirIo(i)
  PROVE  Puesto'
<1>1. /\ enCpu # <<>> /\ enCpu' = Tail(enCpu)
      /\ UNCHANGED <<ready, liberados, cola, hilo, atendido, hiloIo, conexion>>
  BY DEF PedirIo, recursoVars
<1>2. CASE exit' = Append(exit, Head(enCpu)) /\ UNCHANGED bloqueados
  <2>1. PICK p \in Pids : p = Head(enCpu)
    BY <1>1, SaleDeCpu
  <2>2. /\ p \in Ocupa(Cpu) /\ Ocupa(Cpu)' = Ocupa(Cpu) \ {p} /\ SinRepetir(enCpu')
        /\ Cpu \in Sitios /\ Cpu # Fin
    BY <1>1, <2>1, SaleDeCpu, SitiosSon
  <2>3. Ocupa(Fin)' = Ocupa(Fin) \cup {p} /\ SinRepetir(exit') /\ Fin \in Sitios
    BY <1>2, <2>1, <2>2, AExit
  <2>4. Unico' /\ ManosBien'
    BY <1>1, <1>2, <2>2, <2>3, Pasar
  <2>5. QED
    BY <1>1, <1>2, <2>2, <2>3, <2>4 DEF Puesto, ListasBien, AtendidosBien
<1>3. CASE bloqueados' = [bloqueados EXCEPT ![i] = Append(bloqueados[i], Head(enCpu))] /\ UNCHANGED exit
  <2>1. PICK p \in Pids : p = Head(enCpu)
    BY <1>1, SaleDeCpu
  <2>2. /\ p \in Ocupa(Cpu) /\ Ocupa(Cpu)' = Ocupa(Cpu) \ {p} /\ SinRepetir(enCpu')
        /\ Cpu \in Sitios /\ BloqueadoEn(i) \in Sitios /\ Cpu # BloqueadoEn(i)
    BY <1>1, <2>1, SaleDeCpu, SitiosSon
  <2>3. bloqueados'[i] = Append(bloqueados[i], p) /\ \A j \in Ios \ {i} : bloqueados'[j] = bloqueados[j]
    BY <1>3, <2>1 DEF TypeInterfaces
  <2>4. p \notin Elementos(bloqueados[i])
    BY <2>2, OcupaDe, SoloAhi DEF Puesto
  <2>5. Elementos(bloqueados'[i]) = Elementos(bloqueados[i]) \cup {p} /\ SinRepetir(bloqueados'[i])
    BY <2>3, <2>4, AlFinal DEF TypeInterfaces, Puesto, ListasBien
  <2>6. Ocupa(BloqueadoEn(i))' = Ocupa(BloqueadoEn(i)) \cup {p}
    BY <2>5, OcupaDe, OcuparaDe
  <2>7. Unico' /\ ManosBien'
    BY <1>1, <1>3, <2>2, <2>3, <2>6, Pasar
  <2>8. QED
    BY <1>1, <1>3, <2>2, <2>3, <2>5, <2>7 DEF Puesto, ListasBien, AtendidosBien
<1>4. QED
  BY <1>2, <1>3 DEF PedirIo

LEMMA PuestoAtenderTomar ==
  ASSUME TypeRecursos, TypeInterfaces, Puesto, NEW i \in Ios, AtenderTomar(i)
  PROVE  Puesto'
<1>1. hiloIo[i] = "espera" /\ UNCHANGED <<planVars, cola, hilo, conexion>>
  BY DEF AtenderTomar, recursoVars
<1>2. CASE hiloIo' = [hiloIo EXCEPT ![i] = "terminado"] /\ UNCHANGED <<bloqueados, atendido>>
  <2>1. \A k \in Hilos : EnMano(k)' = EnMano(k)
    BY <1>1 DEF EnMano, DesdeSignal
  <2> DEFINE T == {}
  <2>2. \A l \in Sitios \ T : Ocupa(l)' = Ocupa(l)
    BY <1>1, <1>2, <2>1, Quieto DEF planVars
  <2>3. Unico'
    BY <2>2, NoMueve DEF Puesto
  <2>4. AtendidosBien'
    BY <1>1, <1>2 DEF Puesto, AtendidosBien, TypeInterfaces
  <2>5. QED
    BY <1>1, <1>2, <2>3, <2>4 DEF Puesto, ListasBien, ManosBien, planVars
<1>3. CASE bloqueados[i] # <<>> /\ hiloIo' = [hiloIo EXCEPT ![i] = "enviar"] /\ ObtenerProcesoBloqueado(i)
  <2>1. bloqueados[i] \in Seq(Pids) /\ SinRepetir(bloqueados[i])
    BY DEF TypeInterfaces, Puesto, ListasBien
  <2>2. PICK p \in Pids : p = Head(bloqueados[i])
    BY <1>3, <2>1, DelPrincipio
  <2>3. /\ bloqueados'[i] = Tail(bloqueados[i]) /\ atendido'[i] = p
        /\ \A j \in Ios \ {i} : bloqueados'[j] = bloqueados[j] /\ atendido'[j] = atendido[j]
    BY <1>3, <2>2 DEF ObtenerProcesoBloqueado, TypeInterfaces
  <2>4. /\ p \in Elementos(bloqueados[i])
        /\ Elementos(bloqueados'[i]) = Elementos(bloqueados[i]) \ {p} /\ SinRepetir(bloqueados'[i])
    BY <1>3, <2>1, <2>2, <2>3, DelPrincipio
  <2>5. atendido[i] = Nadie
    BY <1>1 DEF Puesto, AtendidosBien
  <2>6. /\ BloqueadoEn(i) \in Sitios /\ AtendidoPor(i) \in Sitios /\ BloqueadoEn(i) # AtendidoPor(i)
        /\ p \in Ocupa(BloqueadoEn(i))
        /\ Ocupa(BloqueadoEn(i))' = Ocupa(BloqueadoEn(i)) \ {p}
        /\ Ocupa(AtendidoPor(i))' = Ocupa(AtendidoPor(i)) \cup {p}
    BY <2>3, <2>4, <2>5, SitiosSon, OcupaDe, OcuparaDe, RecursosAssumption
  <2>7. Unico' /\ ManosBien'
    <3>1. /\ \A j \in Ios : bloqueados'[j] = bloqueados[j] \/ BloqueadoEn(j) \in {BloqueadoEn(i), AtendidoPor(i)}
          /\ \A j \in Ios : atendido'[j] = atendido[j] \/ AtendidoPor(j) \in {BloqueadoEn(i), AtendidoPor(i)}
      BY <2>3
    <3>2. QED
      BY <1>1, <2>6, <3>1, Pasar DEF planVars
  <2>8. AtendidosBien'
    BY <1>1, <1>3, <2>3 DEF Puesto, AtendidosBien, TypeInterfaces
  <2>9. QED
    BY <1>1, <2>3, <2>4, <2>7, <2>8 DEF Puesto, ListasBien, planVars
<1>4. QED
  BY <1>2, <1>3 DEF AtenderTomar

LEMMA PuestoAtenderTermina ==
  ASSUME TypeRecursos, TypeInterfaces, AtendidoValen, Puesto, NEW i \in Ios,
         AtenderEnvioFallido(i) \/ AtenderRespuesta(i)
  PROVE  Puesto'
<1>1. /\ UNCHANGED <<enCpu, liberados, cola, hilo, bloqueados, conexion>>
      /\ atendido' = [atendido EXCEPT ![i] = Nadie]
      /\ \E x \in {"espera", "terminado"} : hiloIo' = [hiloIo EXCEPT ![i] = x]
      /\ hiloIo[i] \in {"enviar", "recibir"}
  BY DEF AtenderEnvioFallido, AtenderRespuesta, recursoVars
<1>2. PICK p \in Pids : p = atendido[i]
  BY <1>1 DEF AtendidoValen
<1>3. atendido'[i] = Nadie /\ \A j \in Ios \ {i} : atendido'[j] = atendido[j]
  BY <1>1 DEF TypeInterfaces
<1>4. /\ AtendidoPor(i) \in Sitios /\ AtendidoPor(i) \notin {Listo, Fin}
      /\ p \in Ocupa(AtendidoPor(i))
      /\ Ocupa(AtendidoPor(i))' = Ocupa(AtendidoPor(i)) \ {p}
  BY <1>2, <1>3, SitiosSon, OcupaDe, OcuparaDe, RecursosAssumption
<1>5. AtendidosBien'
  BY <1>1, <1>3 DEF Puesto, AtendidosBien, TypeInterfaces
<1>6. CASE AtenderEnvioFallido(i)
  <2>1. exit' = Append(exit, p) /\ UNCHANGED ready
    BY <1>2, <1>6 DEF AtenderEnvioFallido
  <2>2. Ocupa(Fin)' = Ocupa(Fin) \cup {p} /\ SinRepetir(exit') /\ Fin \in Sitios
    BY <1>4, <2>1, AExit
  <2>3. Unico' /\ ManosBien'
    BY <1>1, <1>3, <1>4, <2>1, <2>2, Pasar
  <2>4. QED
    BY <1>1, <1>5, <2>2, <2>3 DEF Puesto, ListasBien
<1>7. CASE AtenderRespuesta(i)
  <2>1. ready' = ready \cup {p} /\ UNCHANGED exit
    BY <1>2, <1>7 DEF AtenderRespuesta
  <2>2. Listo \in Sitios /\ Ocupa(Listo)' = Ocupa(Listo) \cup {p}
    BY <2>1, SitiosSon, OcupaDe, OcuparaDe
  <2>3. Unico' /\ ManosBien'
    BY <1>1, <1>3, <1>4, <2>1, <2>2, Pasar
  <2>4. QED
    BY <1>1, <1>5, <2>1, <2>3 DEF Puesto, ListasBien
<1>8. QED
  BY <1>6, <1>7

(* What an interface does, and the request that is sent to it.               *)
LEMMA PuestoInterfazSola ==
  ASSUME Puesto, AtendidosBien', UNCHANGED <<planVars, cola, hilo, bloqueados, atendido>>
  PROVE  Puesto'
<1>1. \A k \in Hilos : EnMano(k)' = EnMano(k)
  BY DEF EnMano, DesdeSignal
<1> DEFINE T == {}
<1>2. \A l \in Sitios \ T : Ocupa(l)' = Ocupa(l)
  BY <1>1, Quieto DEF planVars
<1>3. Unico'
  BY <1>2, NoMueve DEF Puesto
<1>4. QED
  BY <1>3 DEF Puesto, ListasBien, ManosBien, planVars

LEMMA PuestoInterfaces ==
  ASSUME Bien, Puesto, InterfacesNext
  PROVE  Puesto'
<1>1. TypeRecursos /\ TypeInterfaces /\ AtendidoValen
  BY DEF Bien
<1>2. PICK i \in Ios : Conectar(i) \/ Desconectar(i) \/ Responder(i) \/ Callar(i)
                         \/ PedirIo(i) \/ AtenderKernelIO(i)
  BY DEF InterfacesNext
<1>3. CASE Conectar(i) \/ Desconectar(i) \/ Responder(i) \/ Callar(i) \/ AtenderEnviar(i)
  <2>1. UNCHANGED <<planVars, cola, hilo, bloqueados, atendido>>
    BY <1>3 DEF Conectar, Desconectar, Responder, Callar, AtenderEnviar, recursoVars
  <2>2. AtendidosBien'
    BY <1>1, <1>3 DEF Conectar, Desconectar, Responder, Callar, AtenderEnviar, Puesto, AtendidosBien,
                      TypeInterfaces
  <2>3. QED
    BY <2>1, <2>2, PuestoInterfazSola
<1>4. QED
  BY <1>1, <1>2, <1>3, PuestoPedirIo, PuestoAtenderTomar, PuestoAtenderTermina DEF AtenderKernelIO

LEMMA PuestoRecursos ==
  ASSUME Bien, Puesto, RecursosNext, UNCHANGED ioVars
  PROVE  Puesto'
<1>1. TypeRecursos /\ HilosBien
  BY DEF Bien
<1>2. ASSUME NEW h \in Hilos, HandleWait(h) PROVE Puesto'
  BY <1>1, <1>2, PuestoTomarMutex, PuestoWaitDesconocido, PuestoWaitMirar, PuestoLeer,
     PuestoWaitAsignar, PuestoWaitBloquear, PuestoSoltar DEF HandleWait
<1>3. ASSUME HandleSignal PROVE Puesto'
  <2>1. "dispatch" \in Hilos
    OBVIOUS
  <2>2. CASE \/ TomarMutex("dispatch", "signal", "signal_buscar") \/ SignalRechazar
             \/ SignalRemover \/ SignalSoltar \/ SignalEnviar
    BY <1>1, <2>1, <2>2, PuestoTomarMutex, PuestoSignalRechazar, PuestoSignalRemover,
       PuestoSignalSoltar, PuestoSignalEnviar
  <2>3. CASE IncLeer("dispatch") \/ IncEscribir("dispatch")
    BY <1>1, <2>1, <2>3, PuestoLeer, PuestoIncEscribir
  <2>4. CASE AlguienEspera("dispatch") \/ NadieEspera("dispatch", "signal_soltar")
    BY <1>1, <2>1, <2>4, PuestoMirarCola
  <2>5. CASE Desbloquear("dispatch", "signal_soltar")
    BY <1>1, <2>1, <2>5, PuestoDesbloquear
  <2>6. QED
    BY <1>3, <2>2, <2>3, <2>4, <2>5 DEF HandleSignal
<1>4. ASSUME LargoPlazo PROVE Puesto'
  <2>1. "largo" \in Hilos
    OBVIOUS
  <2>2. CASE EndProcess \/ LiberarUno \/ FreeResource
    BY <1>1, <2>2, PuestoEndProcess, PuestoLiberarUno, PuestoFreeResource
  <2>3. CASE IncLeer("largo") \/ IncEscribir("largo")
    BY <1>1, <2>1, <2>3, PuestoLeer, PuestoIncEscribir
  <2>4. CASE AlguienEspera("largo") \/ NadieEspera("largo", "liberar")
    BY <1>1, <2>1, <2>4, PuestoMirarCola
  <2>5. CASE Desbloquear("largo", "wait")
    BY <1>1, <2>1, <2>5, PuestoDesbloquear
  <2>6. QED
    BY <1>4, <2>2, <2>3, <2>4, <2>5 DEF LargoPlazo
<1>5. ASSUME NEW p \in Pids, Ejecutar(p) PROVE Puesto'
  BY <1>1, <1>5, PuestoEjecutar
<1>6. ASSUME Desalojar PROVE Puesto'
  BY <1>1, <1>6, PuestoDesalojar
<1>7. ASSUME Salir PROVE Puesto'
  BY <1>1, <1>7, PuestoSalir DEF Salir, recursoVars
<1>8. ASSUME NEW r \in Nombres \cup {Desconocido}, PedirWait(r) \/ PedirSignal(r) PROVE Puesto'
  BY <1>1, <1>8, PuestoPedir
<1>9. QED
  BY <1>2, <1>3, <1>4, <1>5, <1>6, <1>7, <1>8 DEF RecursosNext, Dispatch, Largo

LEMMA PuestoSiempre == BloqueosSpec => [](Bien /\ Puesto)
<1>1. InterfacesInit => Bien /\ Puesto
  BY BienInicial, PuestoInicial
<1>2. ASSUME Bien, Puesto, [BloqueosNext]_todas PROVE Bien' /\ Puesto'
  <2>1. CASE BloqueosNext
    BY <1>2, <2>1, BienRecursos, BienInterfaces, PuestoRecursos, PuestoInterfaces DEF BloqueosNext
  <2>2. CASE UNCHANGED todas
    <3>1. UNCHANGED <<planVars, recursoVars, mutexRecursos, hilo, caido, regalos, carrera, ioVars>>
      BY <2>2 DEF todas, vars
    <3>2. Bien'
      BY <1>2, <3>1 DEF Bien, HilosBien, TypeRecursos, TypeInterfaces, AtendidoValen, TypeHilos,
         LocalesValen, Vale, DuenoDelMutex, planVars, recursoVars, ioVars
    <3>3. AtendidosBien'
      BY <1>2, <3>1 DEF Puesto, AtendidosBien, ioVars
    <3>4. Puesto'
      BY <1>2, <3>1, <3>3, PuestoInterfazSola DEF planVars, recursoVars, ioVars
    <3>5. QED
      BY <3>2, <3>4
  <2>3. QED
    BY <1>2, <2>1, <2>2
<1>3. QED
  BY <1>1, <1>2, PTL DEF BloqueosSpec

-----------------------------------------------------------------------------
(***************************************************************************)
(* One place is one element of Puestos.                                    *)
(***************************************************************************)
Donde(lugar, s, p) == {<<lugar, k>> : k \in {j \in DOMAIN s : s[j] = p}}

LEMMA DondeUno ==
  ASSUME NEW lugar, NEW s, NEW p, SinRepetir(s)
  PROVE  /\ p \notin Elementos(s) => Donde(lugar, s, p) = {}
         /\ p \in Elementos(s) => \E x : Donde(lugar, s, p) = {x}
<1>1. ASSUME p \notin Elementos(s) PROVE Donde(lugar, s, p) = {}
  BY <1>1 DEF Donde, Elementos
<1>2. ASSUME p \in Elementos(s) PROVE \E x : Donde(lugar, s, p) = {x}
  <2>1. PICK k \in DOMAIN s : s[k] = p
    BY <1>2 DEF Elementos
  <2>2. {j \in DOMAIN s : s[j] = p} = {k}
    BY <2>1 DEF SinRepetir
  <2>3. Donde(lugar, s, p) = {<<lugar, k>>}
    BY <2>2 DEF Donde
  <2>4. QED
    BY <2>3
<1>3. QED
  BY <1>1, <1>2

LEMMA UnPuesto ==
  ASSUME Puesto, NEW p \in Pids
  PROVE  Cardinality(Puestos(p)) = 1
<1>1. PICK l \in Sitios : p \in Ocupa(l) /\ \A m \in Sitios : p \in Ocupa(m) => m = l
  BY DEF Puesto, Unico
<1>2. SinRepetir(enCpu) /\ SinRepetir(exit) /\ (\A r \in Nombres : SinRepetir(cola[r]))
      /\ \A i \in Ios : SinRepetir(bloqueados[i])
  BY DEF Puesto, ListasBien
<1> DEFINE S1 == Donde("cpu", enCpu, p)
           S2 == Donde("exit", exit, p)
           S3 == {<<"ready", 0>> : q \in ready \cap {p}}
           S4 == {<<"liberado", 0>> : q \in liberados \cap {p}}
           S5 == {<<h, 0>> : h \in {x \in Hilos : p \in EnMano(x)}}
           S6 == UNION {Donde(r, cola[r], p) : r \in Nombres}
           S7 == UNION {Donde(i, bloqueados[i], p) : i \in Ios}
           S8 == {<<i, 0>> : i \in {j \in Ios : atendido[j] = p}}
<1>3. Puestos(p) = S1 \cup S2 \cup S3 \cup S4 \cup S5 \cup S6 \cup S7 \cup S8
  BY DEF Puestos, Donde
<1>4. (l # Cpu => S1 = {}) /\ (l = Cpu => \E x : S1 = {x})
  <2>1. l = Cpu <=> p \in Elementos(enCpu)
    BY <1>1, OcupaDe, SitiosSon
  <2>2. QED
    BY <1>2, <2>1, DondeUno
<1>5. (l # Fin => S2 = {}) /\ (l = Fin => \E x : S2 = {x})
  <2>1. l = Fin <=> p \in Elementos(exit)
    BY <1>1, OcupaDe, SitiosSon
  <2>2. QED
    BY <1>2, <2>1, DondeUno
<1>6. (l # Listo => S3 = {}) /\ (l = Listo => \E x : S3 = {x})
  <2>1. l = Listo <=> p \in ready
    BY <1>1, OcupaDe, SitiosSon
  <2>2. QED
    BY <2>1
<1>7. (l # Libre => S4 = {}) /\ (l = Libre => \E x : S4 = {x})
  <2>1. l = Libre <=> p \in liberados
    BY <1>1, OcupaDe, SitiosSon
  <2>2. QED
    BY <2>1
<1>8. \A h \in Hilos : p \in EnMano(h) <=> l = ManoDe(h)
  BY <1>1, OcupaDe, SitiosSon
<1>9. \A r \in Nombres : p \in Elementos(cola[r]) <=> l = ColaDe(r)
  BY <1>1, OcupaDe, SitiosSon
<1>10. \A i \in Ios : p \in Elementos(bloqueados[i]) <=> l = BloqueadoEn(i)
  BY <1>1, OcupaDe, SitiosSon
<1>11. \A i \in Ios : atendido[i] = p <=> l = AtendidoPor(i)
  BY <1>1, OcupaDe, SitiosSon
<1>12. /\ (\A h \in Hilos : l # ManoDe(h)) => S5 = {}
       /\ \A h \in Hilos : l = ManoDe(h) => \E x : S5 = {x}
  <2>1. \A h, k \in Hilos : ManoDe(h) = ManoDe(k) => h = k
    BY DEF ManoDe
  <2>2. ASSUME NEW h \in Hilos, l = ManoDe(h) PROVE \E x : S5 = {x}
    <3>1. {x \in Hilos : p \in EnMano(x)} = {h}
      BY <1>8, <2>1, <2>2
    <3>2. S5 = {<<h, 0>>}
      BY <3>1
    <3>3. QED
      BY <3>2
  <2>3. QED
    BY <1>8, <2>2
<1>13. /\ (\A r \in Nombres : l # ColaDe(r)) => S6 = {}
       /\ \A r \in Nombres : l = ColaDe(r) => \E x : S6 = {x}
  <2>1. \A r, q \in Nombres : ColaDe(r) = ColaDe(q) => r = q
    BY DEF ColaDe
  <2>2. \A r \in Nombres : l # ColaDe(r) => Donde(r, cola[r], p) = {}
    BY <1>2, <1>9, DondeUno
  <2>3. ASSUME NEW r \in Nombres, l = ColaDe(r) PROVE \E x : S6 = {x}
    <3>1. \E x : Donde(r, cola[r], p) = {x}
      BY <1>2, <1>9, <2>3, DondeUno
    <3>2. \A q \in Nombres \ {r} : Donde(q, cola[q], p) = {}
      BY <2>1, <2>2, <2>3
    <3>3. S6 = Donde(r, cola[r], p)
      BY <3>2
    <3>4. QED
      BY <3>1, <3>3
  <2>4. ASSUME \A r \in Nombres : l # ColaDe(r) PROVE S6 = {}
    BY <2>2, <2>4
  <2>5. QED
    BY <2>3, <2>4
<1>14. /\ (\A i \in Ios : l # BloqueadoEn(i)) => S7 = {}
       /\ \A i \in Ios : l = BloqueadoEn(i) => \E x : S7 = {x}
  <2>1. \A i, j \in Ios : BloqueadoEn(i) = BloqueadoEn(j) => i = j
    BY DEF BloqueadoEn
  <2>2. \A i \in Ios : l # BloqueadoEn(i) => Donde(i, bloqueados[i], p) = {}
    BY <1>2, <1>10, DondeUno
  <2>3. ASSUME NEW i \in Ios, l = BloqueadoEn(i) PROVE \E x : S7 = {x}
    <3>1. \E x : Donde(i, bloqueados[i], p) = {x}
      BY <1>2, <1>10, <2>3, DondeUno
    <3>2. \A j \in Ios \ {i} : Donde(j, bloqueados[j], p) = {}
      BY <2>1, <2>2, <2>3
    <3>3. S7 = Donde(i, bloqueados[i], p)
      BY <3>2
    <3>4. QED
      BY <3>1, <3>3
  <2>4. ASSUME \A i \in Ios : l # BloqueadoEn(i) PROVE S7 = {}
    BY <2>2, <2>4
  <2>5. QED
    BY <2>3, <2>4
<1>15. /\ (\A i \in Ios : l # AtendidoPor(i)) => S8 = {}
       /\ \A i \in Ios : l = AtendidoPor(i) => \E x : S8 = {x}
  <2>1. \A i, j \in Ios : AtendidoPor(i) = AtendidoPor(j) => i = j
    BY DEF AtendidoPor
  <2>2. ASSUME NEW i \in Ios, l = AtendidoPor(i) PROVE \E x : S8 = {x}
    <3>1. {j \in Ios : atendido[j] = p} = {i}
      BY <1>11, <2>1, <2>2
    <3>2. S8 = {<<i, 0>>}
      BY <3>1
    <3>3. QED
      BY <3>2
  <2>3. QED
    BY <1>11, <2>2
<1> HIDE DEF S1, S2, S3, S4, S5, S6, S7, S8
<1>16. \E x : Puestos(p) = {x}
  <2>1. CASE l \in {Listo, Libre, Cpu, Fin}
    <3>1. S5 = {} /\ S6 = {} /\ S7 = {} /\ S8 = {}
      BY <1>12, <1>13, <1>14, <1>15, <2>1, SitiosSon
    <3>2. QED
      BY <1>3, <1>4, <1>5, <1>6, <1>7, <2>1, <3>1, SitiosSon
  <2>2. CASE l \notin {Listo, Libre, Cpu, Fin}
    <3>1. S1 = {} /\ S2 = {} /\ S3 = {} /\ S4 = {}
      BY <1>4, <1>5, <1>6, <1>7, <2>2
    <3>2. CASE \E h \in Hilos : l = ManoDe(h)
      <4>1. S6 = {} /\ S7 = {} /\ S8 = {}
        BY <1>13, <1>14, <1>15, <3>2 DEF ManoDe, ColaDe, BloqueadoEn, AtendidoPor
      <4>2. QED
        BY <1>3, <1>12, <3>1, <3>2, <4>1
    <3>3. CASE \E r \in Nombres : l = ColaDe(r)
      <4>1. S5 = {} /\ S7 = {} /\ S8 = {}
        BY <1>12, <1>14, <1>15, <3>3 DEF ManoDe, ColaDe, BloqueadoEn, AtendidoPor
      <4>2. QED
        BY <1>3, <1>13, <3>1, <3>3, <4>1
    <3>4. CASE \E i \in Ios : l = BloqueadoEn(i)
      <4>1. S5 = {} /\ S6 = {} /\ S8 = {}
        BY <1>12, <1>13, <1>15, <3>4 DEF ManoDe, ColaDe, BloqueadoEn, AtendidoPor
      <4>2. QED
        BY <1>3, <1>14, <3>1, <3>4, <4>1
    <3>5. CASE \E i \in Ios : l = AtendidoPor(i)
      <4>1. S5 = {} /\ S6 = {} /\ S7 = {}
        BY <1>12, <1>13, <1>14, <3>5 DEF ManoDe, ColaDe, BloqueadoEn, AtendidoPor
      <4>2. QED
        BY <1>3, <1>15, <3>1, <3>5, <4>1
    <3>6. QED
      BY <2>2, <3>2, <3>3, <3>4, <3>5 DEF Sitios
  <2>3. QED
    BY <2>1, <2>2
<1>17. QED
  BY <1>16, FS_Singleton

(* A process is in exactly one place: a READY list, the CPU, the hands of a *)
(* thread, the queue of one resource or of one interface, COLA_EXIT or      *)
(* freed. Nothing that blocks it, unblocks it, ends it or gives it back to  *)
(* the CPU (recursos.c, manager_ios.c, io_interface.c) loses it or does so  *)
(* twice, whatever the order of the threads.                                *)
THEOREM CadaProcesoEnUnPuesto == BloqueosSpec => []UnSoloPuesto
<1>1. Bien /\ Puesto => UnSoloPuesto
  BY UnPuesto DEF UnSoloPuesto
<1>2. QED
  BY <1>1, PuestoSiempre, PTL
-----------------------------------------------------------------------------
(***************************************************************************)
(* While the two threads never worked on the data of the same resource.    *)
(***************************************************************************)
(* What a thread knows of the resource: the process it is about to unblock  *)
(* is there, there is no instance when it blocks, and what it read of the   *)
(* instances is what they are.                                              *)
Dato(v, inst, col) ==
  /\ v.pc = "desbloquear" => col[v.recurso] # <<>>
  /\ v.pc = "wait_bloquear" => inst[v.recurso] = 0
  /\ v.pc \in {"inc_escribir", "wait_asignar"} => v.leido = inst[v.recurso]

(* A process waits for a resource with instances only if each of them was    *)
(* given back for a process that a thread still has to unblock or to serve.  *)
Aporta(h, v, r) == Uno(Reclama(h, v) /\ v.recurso = r)

ColasBien ==
  \A r \in Nombres :
    cola[r] # <<>> => instancias[r] <= Aporta("dispatch", hilo["dispatch"], r)
                                         + Aporta("largo", hilo["largo"], r)

Datos == (\A h \in Hilos : Dato(hilo[h], instancias, cola)) /\ ColasBien

SinDatos == "datos" \notin carrera => "datos" \notin Coinciden /\ Datos /\ ~caido

LEMMA AportaEs == \A h, v, r : Aporta(h, v, r) \in {0, 1}
  BY DEF Aporta, Uno

LEMMA PasoDatos ==
  ASSUME TypeRecursos, TypeHilos, Datos, NEW h \in Hilos, NEW v, hilo' = [hilo EXCEPT ![h] = v],
         instancias' \in [Nombres -> Nat],
         Dato(v, instancias', cola'),
         \A k \in Hilos \ {h} : Dato(hilo[k], instancias', cola'),
         \A r \in Nombres : cola'[r] # <<>> =>
           \/ instancias'[r] = 0
           \/ /\ cola[r] # <<>>
              /\ instancias'[r] + Aporta(h, hilo[h], r) <= instancias[r] + Aporta(h, v, r)
  PROVE  Datos'
<1>1. /\ hilo'[h] = v
      /\ \A k \in Hilos \ {h} : hilo'[k] = hilo[k]
  BY DEF TypeHilos
<1>2. \A k \in Hilos : Dato(hilo'[k], instancias', cola')
  BY <1>1
<1>3. ASSUME NEW r \in Nombres, cola'[r] # <<>>
      PROVE  instancias'[r] <= Aporta("dispatch", hilo'["dispatch"], r) + Aporta("largo", hilo'["largo"], r)
  <2> DEFINE a(k) == Aporta(k, hilo[k], r)
             b(k) == Aporta(k, hilo'[k], r)
  <2>1. /\ instancias'[r] \in Nat /\ instancias[r] \in Nat
        /\ \A k \in Hilos : a(k) \in {0, 1} /\ b(k) \in {0, 1}
    BY AportaEs DEF TypeRecursos
  <2>2. CASE instancias'[r] = 0
    BY <2>1, <2>2
  <2>3. CASE cola[r] # <<>> /\ instancias'[r] + a(h) <= instancias[r] + b(h)
    <3>1. instancias[r] <= a("dispatch") + a("largo")
      BY <2>3 DEF Datos, ColasBien
    <3>2. \A k \in Hilos \ {h} : a(k) = b(k)
      BY <1>1
    <3> HIDE DEF a, b
    <3>3. instancias'[r] <= b("dispatch") + b("largo")
      <4>1. CASE h = "dispatch"
        BY <2>1, <2>3, <3>1, <3>2, <4>1
      <4>2. CASE h = "largo"
        BY <2>1, <2>3, <3>1, <3>2, <4>2
      <4>3. QED
        BY <4>1, <4>2
    <3>4. QED
      BY <3>3 DEF b
  <2>4. QED
    BY <1>1, <1>3, <2>2, <2>3
<1>4. QED
  BY <1>2, <1>3 DEF Datos, ColasBien

(* The instances and the queues stay: what matters is what h goes on with.   *)
LEMMA DatosQuieto ==
  ASSUME TypeRecursos, TypeHilos, Datos, NEW h \in Hilos, NEW v, hilo' = [hilo EXCEPT ![h] = v],
         UNCHANGED <<instancias, cola>>, Dato(v, instancias, cola),
         Reclama(h, hilo[h]) /\ hilo[h].recurso \in Nombres =>
           \/ Reclama(h, v) /\ v.recurso = hilo[h].recurso
           \/ instancias[hilo[h].recurso] = 0
           \/ cola[hilo[h].recurso] = <<>>
  PROVE  Datos'
<1>1. instancias' \in [Nombres -> Nat] /\ Dato(v, instancias', cola')
  BY DEF TypeRecursos
<1>2. \A k \in Hilos \ {h} : Dato(hilo[k], instancias', cola')
  BY DEF Datos
<1>3. ASSUME NEW r \in Nombres, cola'[r] # <<>>, instancias'[r] # 0
      PROVE  cola[r] # <<>> /\ instancias'[r] + Aporta(h, hilo[h], r) <= instancias[r] + Aporta(h, v, r)
  <2>1. Aporta(h, hilo[h], r) <= Aporta(h, v, r)
    BY <1>3 DEF Aporta, Uno
  <2>2. instancias[r] \in Nat
    BY DEF TypeRecursos
  <2>3. QED
    BY <1>3, <2>1, <2>2, AportaEs
<1>4. QED
  BY <1>1, <1>2, <1>3, PasoDatos

LEMMA DatosTomarMutex ==
  ASSUME TypeRecursos, HilosBien, Datos, NEW h \in Hilos, NEW desde, NEW hacia,
         \/ desde = "wait" /\ hacia = "wait_buscar"
         \/ desde = "signal" /\ hacia = "signal_buscar",
         TomarMutex(h, desde, hacia)
  PROVE  Datos'
<1> DEFINE v == [hilo[h] EXCEPT !.pc = hacia]
<1>1. /\ TypeHilos /\ hilo[h] \in Locales /\ hilo' = [hilo EXCEPT ![h] = v] /\ hilo[h].pc = desde
      /\ UNCHANGED <<instancias, cola>>
  BY DEF TomarMutex, Poner, HilosBien, TypeHilos, recursoVars
<1>2. v.pid = hilo[h].pid /\ v.pcb = hilo[h].pcb /\ v.pc = hacia /\ v.recurso = hilo[h].recurso
  BY <1>1 DEF Locales
<1> HIDE DEF v
<1>3. Dato(v, instancias, cola) /\ (Reclama(h, hilo[h]) => Reclama(h, v))
  BY <1>1, <1>2 DEF Dato, Reclama, De
<1>4. QED
  BY <1>1, <1>2, <1>3, DatosQuieto

(* handle_wait or handle_signal end: the thread counts on nothing any more.  *)
LEMMA DatosVolver ==
  ASSUME TypeRecursos, HilosBien, Datos, NEW h \in Hilos, Volver(h),
         hilo[h].pc = "soltar" \/ hilo[h].recurso \notin Nombres, UNCHANGED <<instancias, cola>>
  PROVE  Datos'
<1>1. TypeHilos /\ hilo[h] \in Locales
  BY DEF HilosBien, TypeHilos
<1> DEFINE l == [EnReposo EXCEPT !.pc = "liberar", !.pid = hilo[h].pid]
           s == [hilo[h] EXCEPT !.pc = "signal_enviar"]
<1>2. l.pc = "liberar" /\ s.pc = "signal_enviar" /\ EnReposo.pc = "reposo"
  BY <1>1 DEF Locales, EnReposo
<1>3. PICK v : hilo' = [hilo EXCEPT ![h] = v] /\ v.pc \in {"liberar", "signal_enviar", "reposo"}
  <2>1. hilo' = [hilo EXCEPT ![h] = l] \/ hilo' = [hilo EXCEPT ![h] = s] \/ hilo' = [hilo EXCEPT ![h] = EnReposo]
    BY DEF Volver
  <2> HIDE DEF l, s
  <2>2. QED
    BY <1>2, <2>1
<1>4. Dato(v, instancias, cola)
  BY <1>3 DEF Dato
<1>5. ~(Reclama(h, hilo[h]) /\ hilo[h].recurso \in Nombres)
  BY DEF Reclama
<1>6. QED
  BY <1>1, <1>3, <1>4, <1>5, DatosQuieto

LEMMA DatosWaitMirar ==
  ASSUME TypeRecursos, HilosBien, Datos, NEW h \in Hilos, WaitMirar(h)
  PROVE  Datos'
<1>1. PICK pc \in {"wait_leer", "wait_bloquear"} :
         Poner(h, pc) /\ (pc = "wait_bloquear" => ~(instancias[hilo[h].recurso] > 0))
  BY DEF WaitMirar
<1> DEFINE v == [hilo[h] EXCEPT !.pc = pc]
<1>2. /\ TypeHilos /\ hilo[h] \in Locales /\ hilo' = [hilo EXCEPT ![h] = v] /\ hilo[h].pc = "wait_buscar"
      /\ UNCHANGED <<instancias, cola>> /\ hilo[h].recurso \in Nombres
  BY <1>1 DEF WaitMirar, Poner, HilosBien, TypeHilos, recursoVars
<1>3. v.pid = hilo[h].pid /\ v.pcb = hilo[h].pcb /\ v.pc = pc /\ v.recurso = hilo[h].recurso
  BY <1>2 DEF Locales
<1>4. instancias[hilo[h].recurso] \in Nat
  BY <1>2 DEF TypeRecursos
<1>5. pc = "wait_bloquear" => instancias[hilo[h].recurso] = 0
  BY <1>1, <1>4
<1> HIDE DEF v
<1>6. /\ Dato(v, instancias, cola)
      /\ Reclama(h, hilo[h]) => Reclama(h, v) \/ instancias[hilo[h].recurso] = 0
  BY <1>2, <1>3, <1>5 DEF Dato, Reclama, De
<1>7. QED
  BY <1>2, <1>3, <1>6, DatosQuieto

LEMMA DatosLeer ==
  ASSUME TypeRecursos, HilosBien, Datos, NEW h \in Hilos, WaitLeer(h) \/ IncLeer(h)
  PROVE  Datos'
<1>1. PICK pc \in {"wait_asignar", "inc_escribir"} :
         /\ hilo[h].pc = IF pc = "wait_asignar" THEN "wait_leer" ELSE "inc_leer"
         /\ hilo' = [hilo EXCEPT ![h].leido = instancias[hilo[h].recurso], ![h].pc = pc]
  BY DEF WaitLeer, IncLeer
<1> DEFINE v == [hilo[h] EXCEPT !.leido = instancias[hilo[h].recurso], !.pc = pc]
<1>2. /\ TypeHilos /\ hilo[h] \in Locales /\ hilo' = [hilo EXCEPT ![h] = v]
      /\ UNCHANGED <<instancias, cola>>
  BY <1>1 DEF WaitLeer, IncLeer, HilosBien, TypeHilos, recursoVars
<1>3. /\ v.pid = hilo[h].pid /\ v.pcb = hilo[h].pcb /\ v.pc = pc /\ v.recurso = hilo[h].recurso
      /\ v.leido = instancias[hilo[h].recurso]
  BY <1>2 DEF Locales
<1> HIDE DEF v
<1>4. Dato(v, instancias, cola) /\ (Reclama(h, hilo[h]) => Reclama(h, v))
  BY <1>1, <1>3 DEF Dato, Reclama, De
<1>5. QED
  BY <1>2, <1>3, <1>4, DatosQuieto

LEMMA DatosMirarCola ==
  ASSUME TypeRecursos, HilosBien, Datos, NEW h \in Hilos, NEW hacia,
         AlguienEspera(h) \/ NadieEspera(h, hacia), hacia \in {"signal_soltar", "liberar"}
  PROVE  Datos'
<1>1. PICK pc \in {"desbloquear", hacia} :
         /\ Poner(h, pc)
         /\ IF pc = "desbloquear" THEN cola[hilo[h].recurso] # <<>> ELSE cola[hilo[h].recurso] = <<>>
  BY DEF AlguienEspera, NadieEspera
<1> DEFINE v == [hilo[h] EXCEPT !.pc = pc]
<1>2. /\ TypeHilos /\ hilo[h] \in Locales /\ hilo' = [hilo EXCEPT ![h] = v]
      /\ UNCHANGED <<instancias, cola>>
  BY <1>1 DEF AlguienEspera, NadieEspera, Poner, HilosBien, TypeHilos, recursoVars
<1>3. v.pcb = hilo[h].pcb /\ v.pc = pc /\ v.recurso = hilo[h].recurso
  BY <1>2 DEF Locales
<1> HIDE DEF v
<1>4. Dato(v, instancias, cola) /\ (pc = "desbloquear" => Reclama(h, v))
  BY <1>1, <1>3 DEF Dato, Reclama
<1>5. QED
  BY <1>1, <1>2, <1>3, <1>4, DatosQuieto

(* The steps that start or leave a request that has not changed anything.    *)
LEMMA DatosSinReclamo ==
  ASSUME TypeRecursos, TypeHilos, Datos, NEW h \in Hilos, NEW v, hilo' = [hilo EXCEPT ![h] = v],
         UNCHANGED <<instancias, cola>>,
         v.pc \in {"reposo", "wait", "signal", "inc_leer", "liberar", "signal_enviar"},
         ~Reclama(h, hilo[h])
  PROVE  Datos'
<1>1. Dato(v, instancias, cola)
  BY DEF Dato
<1>2. QED
  BY <1>1, DatosQuieto

LEMMA DatosSignalSoltar ==
  ASSUME TypeRecursos, HilosBien, Puesto, Datos, SignalSoltar
  PROVE  Datos'
<1> DEFINE h == "dispatch"
<1>1. PICK pc \in {"signal_enviar", "wait"} :
         Poner(h, pc) /\ (pc = "signal_enviar" => hilo[h].pcb = Nadie)
  BY DEF SignalSoltar
<1> DEFINE v == [hilo[h] EXCEPT !.pc = pc]
<1>2. /\ h \in Hilos /\ TypeHilos /\ hilo[h] \in Locales /\ hilo' = [hilo EXCEPT ![h] = v]
      /\ hilo[h].pc = "signal_soltar" /\ UNCHANGED <<instancias, cola>>
  BY <1>1 DEF SignalSoltar, Poner, HilosBien, TypeHilos, recursoVars
<1>3. v.pcb = hilo[h].pcb /\ v.pid = hilo[h].pid /\ v.pc = pc /\ v.recurso = hilo[h].recurso
  BY <1>2 DEF Locales
<1> HIDE DEF v
<1>4. hilo[h].pcb # hilo[h].pid
  BY <1>2 DEF Puesto, ManosBien, Distintos
<1>5. Dato(v, instancias, cola) /\ (Reclama(h, hilo[h]) => Reclama(h, v))
  BY <1>1, <1>2, <1>3, <1>4 DEF Dato, Reclama, De
<1>6. QED
  BY <1>2, <1>3, <1>5, DatosQuieto

(* The other thread is not at the instances nor at the queue of the same     *)
(* resource when a thread changes them.                                      *)
LEMMA ElOtroLejos ==
  ASSUME HilosBien, "datos" \notin Coinciden, NEW h \in Hilos, NEW k \in Hilos \ {h},
         hilo[k].recurso = hilo[h].recurso,
         hilo[h].pc \in {"inc_escribir", "wait_asignar", "wait_bloquear", "desbloquear"}
  PROVE  /\ hilo[k].pc \notin {"inc_escribir", "wait_asignar", "wait_bloquear"}
         /\ hilo[h].pc = "desbloquear" => hilo[k].pc # "desbloquear"
<1>1. ~(/\ hilo["largo"].pc \in SinMutex
        /\ hilo["dispatch"].pc \in ConMutex
        /\ hilo["largo"].recurso = hilo["dispatch"].recurso)
  BY DEF Coinciden
<1>2. \A x \in Hilos : BajoMutex(x, hilo[x].pc) => mutexRecursos = x
  BY DEF HilosBien, DuenoDelMutex
<1>3. CASE h = "dispatch" /\ k = "largo"
  BY <1>1, <1>2, <1>3 DEF BajoMutex, SinMutex, ConMutex
<1>4. CASE h = "largo" /\ k = "dispatch"
  BY <1>1, <1>2, <1>4 DEF BajoMutex, SinMutex, ConMutex
<1>5. QED
  BY <1>3, <1>4

LEMMA DatosIncEscribir ==
  ASSUME TypeRecursos, HilosBien, "datos" \notin Coinciden, Datos, NEW h \in Hilos, IncEscribir(h)
  PROVE  Datos'
<1>1. PICK r \in Nombres : r = hilo[h].recurso
  BY DEF IncEscribir, HilosBien, LocalesValen, Vale, ConRecurso
<1> DEFINE v == [hilo[h] EXCEPT !.pc = "mirar_cola"]
<1>2. /\ TypeHilos /\ hilo[h] \in Locales /\ hilo' = [hilo EXCEPT ![h] = v]
      /\ hilo[h].pc = "inc_escribir" /\ UNCHANGED cola
  BY DEF IncEscribir, Poner, HilosBien, TypeHilos
<1>3. v.pc = "mirar_cola" /\ v.recurso = r
  BY <1>1, <1>2 DEF Locales
<1> HIDE DEF v
<1>4. instancias' = [instancias EXCEPT ![r] = instancias[r] + 1] /\ instancias \in [Nombres -> Nat]
  BY <1>1, <1>2 DEF IncEscribir, Datos, Dato, TypeRecursos
<1>5. instancias' \in [Nombres -> Nat] /\ Dato(v, instancias', cola')
  BY <1>3, <1>4 DEF Dato
<1>6. ASSUME NEW k \in Hilos \ {h} PROVE Dato(hilo[k], instancias', cola')
  <2>1. Dato(hilo[k], instancias, cola) /\ Vale(hilo[k], instancias)
    BY DEF Datos, HilosBien, LocalesValen
  <2>2. hilo[k].recurso = r => hilo[k].pc \notin {"inc_escribir", "wait_asignar", "wait_bloquear"}
    BY <1>1, <1>2, ElOtroLejos
  <2>3. QED
    BY <1>2, <1>4, <2>1, <2>2 DEF Dato, Vale, ConRecurso
<1>7. ASSUME NEW q \in Nombres, cola'[q] # <<>>
      PROVE  cola[q] # <<>> /\ instancias'[q] + Aporta(h, hilo[h], q) <= instancias[q] + Aporta(h, v, q)
  <2>1. Aporta(h, hilo[h], q) = 0 /\ Aporta(h, v, q) = Uno(q = r)
    BY <1>2, <1>3 DEF Aporta, Uno, Reclama
  <2>2. QED
    BY <1>2, <1>4, <1>7, <2>1 DEF Uno
<1>8. QED
  BY <1>2, <1>5, <1>6, <1>7, PasoDatos

LEMMA DatosWaitAsignar ==
  ASSUME TypeRecursos, HilosBien, "datos" \notin Coinciden, Datos, NEW h \in Hilos, WaitAsignar(h)
  PROVE  Datos'
<1>1. PICK r \in Nombres : r = hilo[h].recurso
  BY DEF WaitAsignar, HilosBien, LocalesValen, Vale, ConRecurso
<1> DEFINE v == [hilo[h] EXCEPT !.pc = "soltar"]
<1>2. /\ TypeHilos /\ hilo[h] \in Locales /\ hilo' = [hilo EXCEPT ![h] = v]
      /\ hilo[h].pc = "wait_asignar" /\ UNCHANGED cola
  BY DEF WaitAsignar, Poner, HilosBien, TypeHilos
<1>3. v.pc = "soltar"
  BY <1>2 DEF Locales
<1> HIDE DEF v
<1>4. /\ instancias' = [instancias EXCEPT ![r] = instancias[r] - 1] /\ instancias \in [Nombres -> Nat]
      /\ instancias[r] > 0
  BY <1>1, <1>2 DEF WaitAsignar, Datos, Dato, TypeRecursos, HilosBien, LocalesValen, Vale
<1>5. instancias' \in [Nombres -> Nat] /\ Dato(v, instancias', cola')
  BY <1>3, <1>4 DEF Dato
<1>6. ASSUME NEW k \in Hilos \ {h} PROVE Dato(hilo[k], instancias', cola')
  <2>1. Dato(hilo[k], instancias, cola) /\ Vale(hilo[k], instancias)
    BY DEF Datos, HilosBien, LocalesValen
  <2>2. hilo[k].recurso = r => hilo[k].pc \notin {"inc_escribir", "wait_asignar", "wait_bloquear"}
    BY <1>1, <1>2, ElOtroLejos
  <2>3. QED
    BY <1>2, <1>4, <2>1, <2>2 DEF Dato, Vale, ConRecurso
<1>7. ASSUME NEW q \in Nombres, cola'[q] # <<>>
      PROVE  cola[q] # <<>> /\ instancias'[q] + Aporta(h, hilo[h], q) <= instancias[q] + Aporta(h, v, q)
  <2>1. Aporta(h, hilo[h], q) <= Uno(q = r) /\ Aporta(h, v, q) = 0
    BY <1>1, <1>2, <1>3 DEF Aporta, Uno, Reclama
  <2>2. Uno(q = r) \in {0, 1} /\ Aporta(h, hilo[h], q) \in {0, 1} /\ instancias[q] \in Nat
    BY <1>4, AportaEs DEF Uno
  <2>3. instancias'[q] = instancias[q] - Uno(q = r)
    BY <1>4 DEF Uno
  <2>4. QED
    BY <1>2, <1>7, <2>1, <2>2, <2>3
<1>8. QED
  BY <1>2, <1>5, <1>6, <1>7, PasoDatos

LEMMA DatosWaitBloquear ==
  ASSUME TypeRecursos, HilosBien, "datos" \notin Coinciden, Datos, NEW h \in Hilos, WaitBloquear(h)
  PROVE  Datos'
<1>1. PICK r \in Nombres : r = hilo[h].recurso
  BY DEF WaitBloquear, HilosBien, LocalesValen, Vale, ConRecurso
<1> DEFINE v == [hilo[h] EXCEPT !.pc = "soltar"]
<1>2. /\ TypeHilos /\ hilo[h] \in Locales /\ hilo' = [hilo EXCEPT ![h] = v]
      /\ hilo[h].pc = "wait_bloquear" /\ UNCHANGED instancias
      /\ cola' = [cola EXCEPT ![r] = Append(cola[r], hilo[h].pcb)]
  BY <1>1 DEF WaitBloquear, Poner, HilosBien, TypeHilos
<1>3. v.pc = "soltar"
  BY <1>2 DEF Locales
<1> HIDE DEF v
<1>4. /\ instancias' \in [Nombres -> Nat] /\ Dato(v, instancias', cola')
      /\ instancias[r] = 0
  BY <1>1, <1>2, <1>3 DEF Dato, TypeRecursos, Datos
<1>5. cola'[r] # <<>> /\ \A q \in Nombres \ {r} : cola'[q] = cola[q]
  <2>1. cola[r] \in Seq(Pids) /\ hilo[h].pcb \in Pids
    BY <1>2 DEF TypeRecursos, HilosBien, LocalesValen, Vale, PideWait
  <2>2. Append(cola[r], hilo[h].pcb) # <<>>
    BY <2>1, AppendProperties
  <2>3. QED
    BY <1>2, <2>2 DEF TypeRecursos
<1>6. ASSUME NEW k \in Hilos \ {h} PROVE Dato(hilo[k], instancias', cola')
  <2>1. Dato(hilo[k], instancias, cola) /\ Vale(hilo[k], instancias)
    BY DEF Datos, HilosBien, LocalesValen
  <2>2. QED
    BY <1>2, <1>5, <2>1 DEF Dato, Vale, ConRecurso
<1>7. ASSUME NEW q \in Nombres, cola'[q] # <<>>
      PROVE  \/ instancias'[q] = 0
             \/ cola[q] # <<>> /\ instancias'[q] + Aporta(h, hilo[h], q) <= instancias[q] + Aporta(h, v, q)
  <2>1. Aporta(h, hilo[h], q) = 0 \/ q = r
    BY <1>1 DEF Aporta, Uno
  <2>2. instancias[q] \in Nat /\ Aporta(h, v, q) \in {0, 1}
    BY AportaEs DEF TypeRecursos
  <2>3. QED
    BY <1>2, <1>4, <1>5, <1>7, <2>1, <2>2
<1>8. QED
  BY <1>2, <1>4, <1>6, <1>7, PasoDatos

(* The queue is not empty: no thread uses the PCB of nobody.                 *)
LEMMA DatosDesbloquear ==
  ASSUME TypeRecursos, HilosBien, Puesto, "datos" \notin Coinciden, Datos, NEW h \in Hilos, NEW hacia,
         Desbloquear(h, hacia),
         \/ h = "dispatch" /\ hacia = "signal_soltar"
         \/ h = "largo" /\ hacia = "wait"
  PROVE  Datos' /\ UNCHANGED caido
<1>1. PICK r \in Nombres : r = hilo[h].recurso
  BY DEF Desbloquear, HilosBien, LocalesValen, Vale, ConRecurso
<1>2. TypeHilos /\ hilo[h] \in Locales /\ hilo[h].pc = "desbloquear" /\ cola[r] # <<>> /\ cola[r] \in Seq(Pids)
  BY <1>1 DEF Desbloquear, HilosBien, TypeHilos, Datos, Dato, TypeRecursos
<1> DEFINE p == Head(cola[r])
           v == [hilo[h] EXCEPT !.pcb = p, !.pc = hacia]
<1>3. /\ hilo' = [hilo EXCEPT ![h] = v] /\ UNCHANGED <<instancias, caido>>
      /\ cola' = [cola EXCEPT ![r] = Tail(cola[r])]
  BY <1>1, <1>2 DEF Desbloquear
<1>4. v.pc = hacia /\ v.recurso = r /\ v.pcb = p
  BY <1>1, <1>2 DEF Locales
<1> HIDE DEF v
<1>5. p \in Pids /\ p # Nadie
  BY <1>2, DelPrincipio, RecursosAssumption
<1>6. instancias' \in [Nombres -> Nat] /\ Dato(v, instancias', cola')
  BY <1>3, <1>4 DEF Dato, TypeRecursos
<1>7. Reclama(h, v)
  BY <1>4, <1>5 DEF Reclama, De
<1>8. ASSUME NEW k \in Hilos \ {h} PROVE Dato(hilo[k], instancias', cola')
  <2>1. Dato(hilo[k], instancias, cola) /\ Vale(hilo[k], instancias)
    BY DEF Datos, HilosBien, LocalesValen
  <2>2. hilo[k].recurso = r => hilo[k].pc # "desbloquear"
    BY <1>1, <1>2, ElOtroLejos
  <2>3. QED
    BY <1>3, <2>1, <2>2 DEF Dato, Vale, ConRecurso, TypeRecursos
<1>9. ASSUME NEW q \in Nombres, cola'[q] # <<>>
      PROVE  cola[q] # <<>> /\ instancias'[q] + Aporta(h, hilo[h], q) <= instancias[q] + Aporta(h, v, q)
  <2>1. cola[q] # <<>>
    BY <1>2, <1>3, <1>9 DEF TypeRecursos
  <2>2. Aporta(h, hilo[h], q) <= Aporta(h, v, q)
    BY <1>1, <1>4, <1>7 DEF Aporta, Uno
  <2>3. instancias[q] \in Nat
    BY DEF TypeRecursos
  <2>4. QED
    BY <1>3, <2>1, <2>2, <2>3, AportaEs
<1>10. QED
  BY <1>2, <1>3, <1>6, <1>8, <1>9, PasoDatos

LEMMA DatosIguales ==
  ASSUME Datos, UNCHANGED <<hilo, instancias, cola>>
  PROVE  Datos'
  BY DEF Datos, ColasBien

LEMMA SinDatosInicial == InterfacesInit => SinDatos
<1> SUFFICES ASSUME InterfacesInit PROVE SinDatos
  OBVIOUS
<1> USE DEF InterfacesInit, Init
<1>1. \A h \in Hilos : hilo[h] = EnReposo
  OBVIOUS
<1>2. "datos" \notin Coinciden
  BY <1>1 DEF Coinciden, EnReposo, ConMutex
<1>3. Datos
  BY <1>1 DEF Datos, Dato, ColasBien, EnReposo
<1>4. QED
  BY <1>2, <1>3 DEF SinDatos

LEMMA SinDatosRecursos ==
  ASSUME Bien, Puesto, "datos" \notin Coinciden, Datos, RecursosNext
  PROVE  Datos' /\ UNCHANGED caido
<1>1. TypeRecursos /\ HilosBien /\ TypeHilos
  BY DEF Bien, HilosBien
<1>2. ASSUME NEW h \in Hilos, HandleWait(h) PROVE Datos' /\ UNCHANGED caido
  <2>1. CASE TomarMutex(h, "wait", "wait_buscar")
    BY <1>1, <2>1, DatosTomarMutex DEF TomarMutex
  <2>2. CASE WaitDesconocido(h)
    BY <1>1, <2>2, DatosVolver DEF WaitDesconocido, recursoVars
  <2>3. CASE WaitMirar(h)
    BY <1>1, <2>3, DatosWaitMirar DEF WaitMirar
  <2>4. CASE WaitLeer(h)
    BY <1>1, <2>4, DatosLeer DEF WaitLeer
  <2>5. CASE WaitAsignar(h)
    BY <1>1, <2>5, DatosWaitAsignar DEF WaitAsignar
  <2>6. CASE WaitBloquear(h)
    BY <1>1, <2>6, DatosWaitBloquear DEF WaitBloquear
  <2>7. CASE Soltar(h)
    BY <1>1, <2>7, DatosVolver DEF Soltar, recursoVars
  <2>8. QED
    BY <1>2, <2>1, <2>2, <2>3, <2>4, <2>5, <2>6, <2>7 DEF HandleWait
<1>3. ASSUME HandleSignal PROVE Datos' /\ UNCHANGED caido
  <2> DEFINE h == "dispatch"
  <2>1. h \in Hilos
    OBVIOUS
  <2>2. CASE TomarMutex(h, "signal", "signal_buscar")
    BY <1>1, <2>1, <2>2, DatosTomarMutex DEF TomarMutex
  <2>3. CASE SignalRechazar \/ SignalEnviar
    <3>1. /\ hilo' = [hilo EXCEPT ![h] = EnReposo] /\ UNCHANGED <<instancias, cola, caido>>
          /\ hilo[h].pc \in {"signal_buscar", "signal_enviar"} /\ EnReposo.pc = "reposo"
      BY <2>3 DEF SignalRechazar, SignalEnviar, recursoVars, EnReposo
    <3>2. ~Reclama(h, hilo[h])
      BY <3>1 DEF Reclama
    <3>3. QED
      BY <1>1, <2>1, <3>1, <3>2, DatosSinReclamo
  <2>4. CASE SignalRemover
    <3> DEFINE v == [hilo[h] EXCEPT !.pc = "inc_leer"]
    <3>1. /\ hilo' = [hilo EXCEPT ![h] = v] /\ UNCHANGED <<instancias, cola, caido>>
          /\ hilo[h].pc = "signal_buscar" /\ hilo[h] \in Locales
      BY <1>1, <2>4 DEF SignalRemover, Poner, TypeHilos
    <3>2. v.pc = "inc_leer"
      BY <3>1 DEF Locales
    <3> HIDE DEF v
    <3>3. ~Reclama(h, hilo[h])
      BY <3>1 DEF Reclama
    <3>4. QED
      BY <1>1, <2>1, <3>1, <3>2, <3>3, DatosSinReclamo
  <2>5. CASE IncLeer(h)
    BY <1>1, <2>1, <2>5, DatosLeer DEF IncLeer
  <2>6. CASE IncEscribir(h)
    BY <1>1, <2>1, <2>6, DatosIncEscribir DEF IncEscribir
  <2>7. CASE NadieEspera(h, "signal_soltar") \/ AlguienEspera(h)
    BY <1>1, <2>1, <2>7, DatosMirarCola DEF NadieEspera, AlguienEspera
  <2>8. CASE Desbloquear(h, "signal_soltar")
    BY <1>1, <2>1, <2>8, DatosDesbloquear
  <2>9. CASE SignalSoltar
    BY <1>1, <2>9, DatosSignalSoltar DEF SignalSoltar
  <2>10. QED
    BY <1>3, <2>2, <2>3, <2>4, <2>5, <2>6, <2>7, <2>8, <2>9 DEF HandleSignal
<1>4. ASSUME LargoPlazo PROVE Datos' /\ UNCHANGED caido
  <2> DEFINE h == "largo"
  <2>1. h \in Hilos
    OBVIOUS
  <2>2. CASE EndProcess \/ LiberarUno \/ FreeResource
    <3> DEFINE e == [EnReposo EXCEPT !.pc = "liberar", !.pid = Head(exit)]
               u == [hilo[h] EXCEPT !.recurso = Head(asignados[hilo[h].pid]), !.pcb = Nadie, !.pc = "inc_leer"]
    <3>1. hilo[h] \in Locales
      BY <1>1 DEF TypeHilos
    <3>2. e.pc = "liberar" /\ u.pc = "inc_leer" /\ EnReposo.pc = "reposo"
      BY <3>1 DEF Locales, EnReposo
    <3>3. hilo' = [hilo EXCEPT ![h] = e] \/ hilo' = [hilo EXCEPT ![h] = u] \/ hilo' = [hilo EXCEPT ![h] = EnReposo]
      BY <1>1, <2>2 DEF EndProcess, LiberarUno, FreeResource, TypeHilos
    <3>4. UNCHANGED <<instancias, cola, caido>> /\ hilo[h].pc \in {"reposo", "liberar"}
      BY <1>1, <2>2, ColaSinElQueTermina DEF EndProcess, LiberarUno, FreeResource, recursoVars
    <3> HIDE DEF e, u
    <3>5. ~Reclama(h, hilo[h])
      BY <3>4 DEF Reclama
    <3>6. QED
      BY <1>1, <2>1, <3>2, <3>3, <3>4, <3>5, DatosSinReclamo
  <2>3. CASE IncLeer(h)
    BY <1>1, <2>1, <2>3, DatosLeer DEF IncLeer
  <2>4. CASE IncEscribir(h)
    BY <1>1, <2>1, <2>4, DatosIncEscribir DEF IncEscribir
  <2>5. CASE NadieEspera(h, "liberar") \/ AlguienEspera(h)
    BY <1>1, <2>1, <2>5, DatosMirarCola DEF NadieEspera, AlguienEspera
  <2>6. CASE Desbloquear(h, "wait")
    BY <1>1, <2>1, <2>6, DatosDesbloquear
  <2>7. QED
    BY <1>4, <2>2, <2>3, <2>4, <2>5, <2>6 DEF LargoPlazo
<1>5. ASSUME NEW r \in Nombres \cup {Desconocido}, PedirWait(r) \/ PedirSignal(r)
      PROVE  Datos' /\ UNCHANGED caido
  <2> DEFINE h == "dispatch"
             w == [EnReposo EXCEPT !.pc = "wait", !.pid = Head(enCpu), !.pcb = Head(enCpu), !.recurso = r]
             s == [EnReposo EXCEPT !.pc = "signal", !.pid = Head(enCpu), !.recurso = r]
  <2>1. /\ hilo' = [hilo EXCEPT ![h] = w] \/ hilo' = [hilo EXCEPT ![h] = s]
        /\ UNCHANGED <<instancias, cola, caido>> /\ hilo[h].pc = "reposo" /\ h \in Hilos
    BY <1>5 DEF PedirWait, PedirSignal, recursoVars
  <2>2. w.pc = "wait" /\ s.pc = "signal"
    BY DEF EnReposo
  <2> HIDE DEF w, s
  <2>3. ~Reclama(h, hilo[h])
    BY <2>1 DEF Reclama
  <2>4. QED
    BY <1>1, <2>1, <2>2, <2>3, DatosSinReclamo
<1>6. ASSUME (\E p \in Pids : Ejecutar(p)) \/ Desalojar \/ Salir PROVE Datos' /\ UNCHANGED caido
  BY <1>6, DatosIguales DEF Ejecutar, Desalojar, Salir, recursoVars
<1>7. QED
  BY <1>2, <1>3, <1>4, <1>5, <1>6 DEF RecursosNext, Dispatch, Largo

LEMMA DatosInterfaces ==
  ASSUME Datos, InterfacesNext
  PROVE  Datos' /\ UNCHANGED caido
<1>1. PICK i \in Ios : \/ Conectar(i) \/ Desconectar(i) \/ Responder(i)
                       \/ Callar(i) \/ PedirIo(i) \/ AtenderKernelIO(i)
  BY DEF InterfacesNext
<1>2. UNCHANGED <<hilo, instancias, cola, caido>>
  BY <1>1 DEF Conectar, Desconectar, Responder, Callar, PedirIo, AtenderKernelIO, AtenderTomar,
     AtenderEnviar, AtenderEnvioFallido, AtenderRespuesta, recursoVars
<1>3. QED
  BY <1>2, DatosIguales

LEMMA SinDatosSiempre == BloqueosSpec => [](Bien /\ Puesto /\ SinDatos)
<1>1. InterfacesInit => SinDatos
  BY SinDatosInicial
<1>2. ASSUME Bien, Puesto, SinDatos, [BloqueosNext]_todas PROVE SinDatos'
  <2>1. CASE BloqueosNext
    <3> SUFFICES ASSUME "datos" \notin carrera' PROVE "datos" \notin Coinciden' /\ Datos' /\ ~caido'
      BY DEF SinDatos
    <3>1. "datos" \notin Coinciden' /\ "datos" \notin carrera
      BY <2>1 DEF BloqueosNext
    <3>2. "datos" \notin Coinciden /\ Datos /\ ~caido
      BY <1>2, <3>1 DEF SinDatos
    <3>3. CASE RecursosNext /\ UNCHANGED ioVars
      BY <1>2, <3>1, <3>2, <3>3, SinDatosRecursos
    <3>4. CASE InterfacesNext
      BY <1>2, <3>1, <3>2, <3>4, DatosInterfaces
    <3>5. QED
      BY <2>1, <3>3, <3>4 DEF BloqueosNext
  <2>2. CASE UNCHANGED todas
    <3>1. UNCHANGED <<hilo, instancias, cola, caido, carrera>>
      BY <2>2 DEF todas, vars, recursoVars
    <3>2. Datos => Datos'
      BY <3>1, DatosIguales
    <3>3. UNCHANGED Coinciden
      BY <3>1 DEF Coinciden
    <3>4. QED
      BY <1>2, <3>1, <3>2, <3>3 DEF SinDatos
  <2>3. QED
    BY <1>2, <2>1, <2>2
<1>3. QED
  BY <1>1, <1>2, PuestoSiempre, PTL DEF BloqueosSpec

(* The kernel uses a NULL PCB (desbloquear_proceso, recursos.c) only if both *)
(* threads were on the data of the same resource: otherwise the process that *)
(* a thread saw in the queue is still there when it takes it.                *)
THEOREM CaeSoloSiCorren == BloqueosSpec => []CaeSoloPorCarrera
<1>1. SinDatos => CaeSoloPorCarrera
  BY DEF SinDatos, CaeSoloPorCarrera
<1>2. QED
  BY <1>1, SinDatosSiempre, PTL

(* handle_signal and liberar_recursos_de_proceso give an instance back and   *)
(* wake at most one process: nobody waits for a resource that has instances  *)
(* once no thread is working on it.                                          *)
THEOREM NadieEsperaEnVano == BloqueosSpec => []SinEsperaInutil
<1>1. ASSUME Bien, SinDatos PROVE SinEsperaInutil
  <2> SUFFICES ASSUME "datos" \notin carrera, NEW r \in Nombres,
                      \A h \in Hilos : hilo[h].recurso # r \/ hilo[h].pc \in
                           {"reposo", "soltar", "liberar", "signal",
                            "signal_buscar", "signal_enviar"},
                      cola[r] # <<>>
               PROVE  instancias[r] = 0
    BY DEF SinEsperaInutil
  <2>1. ASSUME NEW h \in Hilos PROVE Aporta(h, hilo[h], r) = 0
    BY DEF Aporta, Uno, Reclama
  <2>2. instancias[r] <= 0 /\ instancias[r] \in Nat
    BY <1>1, <2>1 DEF SinDatos, Datos, ColasBien, Bien, TypeRecursos
  <2>3. QED
    BY <2>2
<1>2. QED
  BY <1>1, SinDatosSiempre, PTL
-----------------------------------------------------------------------------
(***************************************************************************)
(* The instances: those of the resource, those the processes have, and the *)
(* ones a thread is giving back.                                           *)
(***************************************************************************)
Listado(a)   == [p \in Pids |-> IF a[p] = SinLista THEN <<>> ELSE a[p]]
Dadas(a, r)  == Pares(Pids, Listado(a), r)
EnInc        == {"inc_leer", "inc_escribir"}
Vuelve(v, r) == Uno(v.recurso = r /\ v.pc \in EnInc)

Suma ==
  \A r \in Nombres :
    /\ IsFiniteSet(Dadas(asignados, r))
    /\ instancias[r] + Cardinality(Dadas(asignados, r))
         + Vuelve(hilo["dispatch"], r) + Vuelve(hilo["largo"], r)
       = Instancias[r] + regalos[r]

SinPerder == "datos" \notin carrera => Suma

LEMMA ListadoTipo ==
  ASSUME NEW a \in [Pids -> Seq(Nombres) \cup {SinLista}]
  PROVE  Listado(a) \in [Pids -> Seq(Nombres)]
<1>1. <<>> \in Seq(Nombres)
  OBVIOUS
<1>2. QED
  BY <1>1 DEF Listado

LEMMA VuelveEs == \A v, r : Vuelve(v, r) \in {0, 1}
  BY DEF Vuelve, Uno

LEMMA SumaQuieta ==
  ASSUME Suma, UNCHANGED <<instancias, regalos>>, Listado(asignados') = Listado(asignados),
         \A k \in Hilos : /\ hilo'[k].pc \in EnInc <=> hilo[k].pc \in EnInc
                          /\ hilo[k].pc \in EnInc => hilo'[k].recurso = hilo[k].recurso
  PROVE  Suma'
<1>1. ASSUME NEW k \in Hilos, NEW r PROVE Vuelve(hilo'[k], r) = Vuelve(hilo[k], r)
  BY DEF Vuelve
<1>2. \A r : Dadas(asignados', r) = Dadas(asignados, r)
  BY DEF Dadas
<1>3. QED
  BY <1>1, <1>2 DEF Suma

(* The thread h goes on with v: what it takes from the instances, from the   *)
(* list of p and from what it was giving back is what it gave for nothing.   *)
Cuadra(h, v, p) ==
  \A r \in Nombres :
    instancias'[r] + Veces(Listado(asignados')[p], r) + Vuelve(v, r) + regalos[r]
      = instancias[r] + Veces(Listado(asignados)[p], r) + Vuelve(hilo[h], r) + regalos'[r]

LEMMA PasoSuma ==
  ASSUME TypeRecursos, TypeRecursos', TypeHilos, Suma, NEW h \in Hilos, NEW v, hilo' = [hilo EXCEPT ![h] = v],
         NEW p \in Pids, \A q \in Pids \ {p} : Listado(asignados')[q] = Listado(asignados)[q], Cuadra(h, v, p)
  PROVE  Suma'
<1> SUFFICES ASSUME NEW r \in Nombres
             PROVE  /\ IsFiniteSet(Dadas(asignados', r))
                    /\ instancias'[r] + Cardinality(Dadas(asignados', r))
                         + Vuelve(hilo'["dispatch"], r) + Vuelve(hilo'["largo"], r)
                       = Instancias[r] + regalos'[r]
  BY DEF Suma
<1>1. PICK L \in [Pids -> Seq(Nombres)] : L = Listado(asignados)
  BY ListadoTipo DEF TypeRecursos
<1>2. PICK M \in [Pids -> Seq(Nombres)] : M = Listado(asignados')
  BY ListadoTipo DEF TypeRecursos
<1>3. /\ IsFiniteSet(Dadas(asignados, r))
      /\ instancias[r] + Cardinality(Dadas(asignados, r))
           + Vuelve(hilo["dispatch"], r) + Vuelve(hilo["largo"], r)
         = Instancias[r] + regalos[r]
  BY DEF Suma
<1>4. /\ IsFiniteSet(Dadas(asignados', r))
      /\ Cardinality(Dadas(asignados', r)) \in Nat /\ Cardinality(Dadas(asignados, r)) \in Nat
      /\ Cardinality(Dadas(asignados', r)) + Veces(L[p], r) = Cardinality(Dadas(asignados, r)) + Veces(M[p], r)
  <2>1. Dadas(asignados, r) = Pares(Pids, L, r) /\ Dadas(asignados', r) = Pares(Pids, M, r)
    BY <1>1, <1>2 DEF Dadas
  <2>2. \A q \in Pids \ {p} : M[q] = L[q]
    BY <1>1, <1>2
  <2>3. /\ IsFiniteSet(Pares(Pids, M, r))
        /\ Cardinality(Pares(Pids, M, r)) \in Nat /\ Cardinality(Pares(Pids, L, r)) \in Nat
        /\ Cardinality(Pares(Pids, M, r)) + Veces(L[p], r) = Cardinality(Pares(Pids, L, r)) + Veces(M[p], r)
    <3>1. L \in ListasDe(Pids, Nombres) /\ M \in ListasDe(Pids, Nombres)
      BY DEF ListasDe
    <3>2. IsFiniteSet(Pares(Pids, L, r))
      BY <1>3, <2>1
    <3>3. QED
      BY <2>2, <3>1, <3>2, UnaLista
  <2>4. QED
    BY <2>1, <2>3
<1>5. Veces(L[p], r) \in Nat /\ Veces(M[p], r) \in Nat
  BY VecesTipo
<1>6. /\ instancias[r] \in Nat /\ instancias'[r] \in Nat
      /\ regalos[r] \in Nat /\ regalos'[r] \in Nat /\ Instancias[r] \in Nat
  BY RecursosAssumption DEF TypeRecursos
<1>7. hilo'[h] = v /\ \A k \in Hilos \ {h} : hilo'[k] = hilo[k]
  BY DEF TypeHilos
<1>8. instancias'[r] + Veces(M[p], r) + Vuelve(v, r) + regalos[r]
        = instancias[r] + Veces(L[p], r) + Vuelve(hilo[h], r) + regalos'[r]
  BY <1>1, <1>2 DEF Cuadra
<1>9. \A k \in Hilos : Vuelve(hilo[k], r) \in Nat
  BY DEF Vuelve, Uno
<1>10. Vuelve(v, r) \in Nat
  BY DEF Vuelve, Uno
<1>11. PICK i \in Nat, j \in Nat, g \in Nat, k \in Nat, t \in Nat :
         /\ i = instancias[r] /\ j = instancias'[r]
         /\ g = regalos[r] /\ k = regalos'[r] /\ t = Instancias[r]
  BY <1>6
<1>12. PICK A \in Nat, B \in Nat, x \in Nat, y \in Nat :
         /\ A = Cardinality(Dadas(asignados, r)) /\ B = Cardinality(Dadas(asignados', r))
         /\ x = Veces(L[p], r) /\ y = Veces(M[p], r)
  BY <1>4, <1>5
<1>13. PICK a \in Nat, b \in Nat, c \in Nat :
         /\ a = Vuelve(hilo[h], r) /\ c = Vuelve(v, r)
         /\ \A q \in Hilos \ {h} : b = Vuelve(hilo[q], r)
  <2>1. CASE h = "dispatch"
    BY <1>9, <1>10, <2>1
  <2>2. CASE h = "largo"
    BY <1>9, <1>10, <2>2
  <2>3. QED
    BY <2>1, <2>2
<1>14. i + A + a + b = t + g
  <2>1. CASE h = "dispatch"
    BY <1>3, <1>11, <1>12, <1>13, <2>1
  <2>2. CASE h = "largo"
    <3>1. i + A + b + a = t + g
      BY <1>3, <1>11, <1>12, <1>13, <2>2
    <3>2. QED
      BY <3>1
  <2>3. QED
    BY <2>1, <2>2
<1>15. B + x = A + y /\ j + y + c + g = i + x + a + k
  BY <1>4, <1>8, <1>11, <1>12, <1>13
<1>16. j + B + c + b = t + k
  BY <1>14, <1>15
<1>17. instancias'[r] + Cardinality(Dadas(asignados', r))
         + Vuelve(hilo'["dispatch"], r) + Vuelve(hilo'["largo"], r)
       = Instancias[r] + regalos'[r]
  <2>1. CASE h = "dispatch"
    BY <1>7, <1>11, <1>12, <1>13, <1>16, <2>1
  <2>2. CASE h = "largo"
    <3>1. j + B + b + c = t + k
      BY <1>16
    <3>2. QED
      BY <1>7, <1>11, <1>12, <1>13, <3>1, <2>2
  <2>3. QED
    BY <2>1, <2>2
<1>18. QED
  BY <1>4, <1>17

LEMMA SumaInicial == InterfacesInit => Suma
<1> SUFFICES ASSUME InterfacesInit PROVE Suma
  OBVIOUS
<1>1. /\ hilo = [h \in Hilos |-> EnReposo] /\ asignados = [p \in Pids |-> SinLista]
      /\ instancias = Instancias /\ regalos = [r \in Nombres |-> 0]
  BY DEF InterfacesInit, Init
<1>2. ASSUME NEW r \in Nombres PROVE Dadas(asignados, r) = {}
  <2>1. \A p \in Pids : Listado(asignados)[p] = <<>>
    BY <1>1 DEF Listado
  <2>2. \A p \in Pids : Fila(p, <<>>, r) = {}
    BY DEF Fila
  <2>3. QED
    BY <2>1, <2>2 DEF Dadas, Pares
<1>3. \A h \in Hilos, r \in Nombres : Vuelve(hilo[h], r) = 0
  BY <1>1 DEF Vuelve, Uno, EnReposo, EnInc
<1>4. IsFiniteSet({}) /\ Cardinality({}) = 0
  BY FS_EmptySet
<1>5. ASSUME NEW r \in Nombres
      PROVE  instancias[r] + 0 + 0 + 0 = Instancias[r] + regalos[r]
  BY <1>1, RecursosAssumption
<1>6. QED
  BY <1>2, <1>3, <1>4, <1>5 DEF Suma

(* handle_wait assigns an instance to the process.                           *)
LEMMA SumaWaitAsignar ==
  ASSUME TypeRecursos, TypeRecursos', HilosBien, Datos, Suma, NEW h \in Hilos, WaitAsignar(h)
  PROVE  Suma'
<1>1. PICK r \in Nombres : r = hilo[h].recurso
  BY DEF WaitAsignar, HilosBien, LocalesValen, Vale, ConRecurso
<1>2. PICK p \in Pids : p = hilo[h].pcb
  BY DEF WaitAsignar, HilosBien, LocalesValen, Vale, PideWait
<1> DEFINE v == [hilo[h] EXCEPT !.pc = "soltar"]
<1>3. /\ TypeHilos /\ hilo[h] \in Locales /\ hilo' = [hilo EXCEPT ![h] = v]
      /\ hilo[h].pc = "wait_asignar" /\ UNCHANGED regalos
  BY DEF WaitAsignar, Poner, HilosBien, TypeHilos
<1>4. \A q \in Nombres : Vuelve(hilo[h], q) = 0 /\ Vuelve(v, q) = 0
  BY <1>3 DEF Vuelve, Uno, EnInc, Locales
<1> HIDE DEF v
<1>5. /\ instancias' = [instancias EXCEPT ![r] = instancias[r] - 1] /\ instancias \in [Nombres -> Nat]
      /\ instancias[r] > 0
  BY <1>1, <1>3 DEF WaitAsignar, Datos, Dato, TypeRecursos, HilosBien, LocalesValen, Vale
<1>6. /\ Listado(asignados) \in [Pids -> Seq(Nombres)]
      /\ \A q \in Pids \ {p} : Listado(asignados')[q] = Listado(asignados)[q]
      /\ Listado(asignados')[p] = Append(Listado(asignados)[p], r)
  <2>1. asignados' = [asignados EXCEPT ![p] = IF asignados[p] = SinLista THEN <<r>> ELSE Append(asignados[p], r)]
    BY <1>1, <1>2 DEF WaitAsignar, Anotar
  <2>2. asignados \in [Pids -> Seq(Nombres) \cup {SinLista}]
    BY DEF TypeRecursos
  <2>3. Append(<<>>, r) = <<r>>
    OBVIOUS
  <2>4. ASSUME NEW s \in Seq(Nombres) PROVE Append(s, r) # SinLista
    <3>1. Append(s, r) \in Seq(Nombres)
      BY AlFinal
    <3>2. QED
      BY <3>1, RecursosAssumption
  <2>5. <<r>> # SinLista
    <3>1. <<r>> \in Seq(Nombres)
      OBVIOUS
    <3>2. QED
      BY <3>1, RecursosAssumption
  <2>6. QED
    BY <2>1, <2>2, <2>3, <2>4, <2>5, ListadoTipo DEF Listado
<1>7. Cuadra(h, v, p)
  <2> SUFFICES ASSUME NEW q \in Nombres
               PROVE  instancias'[q] + Veces(Listado(asignados')[p], q) + 0 + regalos[q]
                        = instancias[q] + Veces(Listado(asignados)[p], q) + 0 + regalos'[q]
    BY <1>4 DEF Cuadra
  <2>1. PICK s \in Seq(Nombres) : s = Listado(asignados)[p]
    BY <1>6
  <2>2. Veces(Append(s, r), q) = Veces(s, q) + Uno(r = q) /\ Veces(s, q) \in Nat
    BY VecesAlFinal, VecesTipo
  <2>3. PICK i \in Nat, g \in Nat, n \in Nat : i = instancias[q] /\ g = regalos[q] /\ n = Veces(s, q)
    BY <2>2 DEF TypeRecursos
  <2>4. instancias'[q] = i - Uno(r = q) /\ Uno(r = q) \in {0, 1}
    BY <1>5, <2>3 DEF Uno
  <2>5. (i - Uno(r = q)) + (n + Uno(r = q)) + 0 + g = i + n + 0 + g
    BY <2>4
  <2>6. QED
    BY <1>3, <1>6, <2>1, <2>2, <2>3, <2>4, <2>5
<1>8. QED
  BY <1>3, <1>6, <1>7, PasoSuma

(* The instance that a thread gives back is one of the resource again.       *)
LEMMA SumaIncEscribir ==
  ASSUME TypeRecursos, TypeRecursos', HilosBien, Datos, Suma, NEW h \in Hilos, IncEscribir(h)
  PROVE  Suma'
<1>1. PICK r \in Nombres : r = hilo[h].recurso
  BY DEF IncEscribir, HilosBien, LocalesValen, Vale, ConRecurso
<1>2. PICK p \in Pids : p = hilo[h].pid
  BY DEF IncEscribir, HilosBien, LocalesValen, Vale
<1> DEFINE v == [hilo[h] EXCEPT !.pc = "mirar_cola"]
<1>3. /\ TypeHilos /\ hilo[h] \in Locales /\ hilo' = [hilo EXCEPT ![h] = v]
      /\ hilo[h].pc = "inc_escribir" /\ UNCHANGED <<asignados, regalos>>
  BY DEF IncEscribir, Poner, HilosBien, TypeHilos
<1>4. \A q \in Nombres : Vuelve(hilo[h], q) = Uno(r = q) /\ Vuelve(v, q) = 0
  BY <1>1, <1>3 DEF Vuelve, Uno, EnInc, Locales
<1> HIDE DEF v
<1>5. instancias' = [instancias EXCEPT ![r] = instancias[r] + 1] /\ instancias \in [Nombres -> Nat]
  BY <1>1, <1>3 DEF IncEscribir, Datos, Dato, TypeRecursos
<1>6. Listado(asignados) \in [Pids -> Seq(Nombres)]
  BY ListadoTipo DEF TypeRecursos
<1>7. Cuadra(h, v, p)
  <2> SUFFICES ASSUME NEW q \in Nombres
               PROVE  instancias'[q] + Veces(Listado(asignados)[p], q) + 0 + regalos[q]
                        = instancias[q] + Veces(Listado(asignados)[p], q) + Uno(r = q) + regalos[q]
    BY <1>3, <1>4 DEF Cuadra
  <2>1. PICK s \in Seq(Nombres) : s = Listado(asignados)[p]
    BY <1>6
  <2>2. Veces(s, q) \in Nat
    BY VecesTipo
  <2>3. PICK i \in Nat, g \in Nat, n \in Nat : i = instancias[q] /\ g = regalos[q] /\ n = Veces(s, q)
    BY <2>2 DEF TypeRecursos
  <2>4. instancias'[q] = i + Uno(r = q) /\ Uno(r = q) \in {0, 1}
    BY <1>5, <2>3 DEF Uno
  <2>5. (i + Uno(r = q)) + n + 0 + g = i + n + Uno(r = q) + g
    BY <2>4
  <2>6. QED
    BY <2>1, <2>3, <2>4, <2>5
<1>8. QED
  BY <1>3, <1>7, PasoSuma

(* remover_recurso_de_proceso takes the resource off the list, or answers    *)
(* that it did: then the instance is a gift.                                 *)
LEMMA SumaSignalRemover ==
  ASSUME TypeRecursos, TypeRecursos', HilosBien, Suma, SignalRemover
  PROVE  Suma'
<1> DEFINE h == "dispatch"
           v == [hilo[h] EXCEPT !.pc = "inc_leer"]
<1>1. PICK r \in Nombres : r = hilo[h].recurso
  BY DEF SignalRemover
<1>2. PICK p \in Pids : p = hilo[h].pid
  BY DEF SignalRemover, HilosBien, LocalesValen, Vale
<1>3. /\ TypeHilos /\ hilo[h] \in Locales /\ hilo' = [hilo EXCEPT ![h] = v]
      /\ hilo[h].pc = "signal_buscar" /\ UNCHANGED instancias
  BY DEF SignalRemover, Poner, HilosBien, TypeHilos
<1>4. \A q \in Nombres : Vuelve(hilo[h], q) = 0 /\ Vuelve(v, q) = Uno(r = q)
  BY <1>1, <1>3 DEF Vuelve, Uno, EnInc, Locales
<1> HIDE DEF v
<1>5. PICK s \in Seq(Nombres) : s = asignados[p] /\ s # SinLista /\ s = Listado(asignados)[p]
  BY <1>2 DEF SignalRemover, TypeRecursos, Listado
<1>6. \A q \in Pids \ {p} : Listado(asignados')[q] = Listado(asignados)[q]
  BY <1>2 DEF SignalRemover, Listado, TypeRecursos
<1>7. Cuadra(h, v, p)
  <2> SUFFICES ASSUME NEW q \in Nombres
               PROVE  instancias[q] + Veces(Listado(asignados')[p], q) + Uno(r = q) + regalos[q]
                        = instancias[q] + Veces(s, q) + 0 + regalos'[q]
    BY <1>3, <1>4, <1>5 DEF Cuadra
  <2>1. PICK i \in Nat, g \in Nat, n \in Nat : i = instancias[q] /\ g = regalos[q] /\ n = Veces(s, q)
    BY VecesTipo DEF TypeRecursos
  <2>2. Uno(r = q) \in {0, 1}
    BY DEF Uno
  <2>3. CASE Tiene(p, r)
    <3>1. r \in Elementos(s)
      BY <1>5, <2>3 DEF Tiene, Range, Elementos
    <3>2. asignados' = [asignados EXCEPT ![p] = ListRemoveElement(asignados[p], r)] /\ UNCHANGED regalos
      BY <1>1, <1>2, <2>3 DEF SignalRemover
    <3>3. PICK t \in Seq(Nombres) : t = ListRemoveElement(s, r) /\ t # SinLista
      BY ListRemoveElementTipo, RecursosAssumption
    <3>4. Listado(asignados')[p] = t
      BY <1>5, <3>2, <3>3 DEF Listado, TypeRecursos
    <3>5. Veces(s, q) = Veces(t, q) + Uno(r = q) /\ Veces(t, q) \in Nat
      BY <3>1, <3>3, VecesSinUno, VecesTipo
    <3>6. PICK m \in Nat : m = Veces(t, q)
      BY <3>5
    <3>7. PICK u \in Nat : u = Uno(r = q)
      BY <2>2
    <3>8. n = m + u
      BY <2>1, <3>5, <3>6, <3>7
    <3>9. i + m + u + g = i + n + 0 + g
      BY <3>8
    <3>10. QED
      BY <2>1, <3>2, <3>4, <3>6, <3>7, <3>9
  <2>4. CASE ~Tiene(p, r)
    <3>1. regalos' = [regalos EXCEPT ![r] = regalos[r] + 1] /\ UNCHANGED asignados
      BY <1>1, <1>2, <2>4 DEF SignalRemover
    <3>2. regalos'[q] = g + Uno(r = q)
      <4>1. regalos[q] = g /\ regalos'[q] = IF q = r THEN g + 1 ELSE g
        BY <2>1, <3>1 DEF TypeRecursos
      <4>2. QED
        BY <4>1 DEF Uno
    <3>3. i + n + Uno(r = q) + g = i + n + 0 + (g + Uno(r = q))
      BY <2>2
    <3>4. QED
      BY <1>5, <2>1, <3>1, <3>2, <3>3
  <2>5. QED
    BY <2>3, <2>4
<1>8. QED
  BY <1>3, <1>6, <1>7, PasoSuma

(* liberar_recursos_de_proceso takes the first resource of the list.         *)
LEMMA SumaLiberarUno ==
  ASSUME TypeRecursos, TypeRecursos', HilosBien, Suma, LiberarUno
  PROVE  Suma'
<1> DEFINE h == "largo"
<1>1. PICK p \in Pids : p = hilo[h].pid
  BY DEF LiberarUno, HilosBien, LocalesValen, Vale
<1>2. PICK s \in Seq(Nombres) : s = asignados[p] /\ s # SinLista /\ s # <<>> /\ s = Listado(asignados)[p]
  BY <1>1 DEF LiberarUno, TypeRecursos, Listado
<1>3. PICK r \in Nombres : r = Head(s)
  BY <1>2, DelPrincipio
<1> DEFINE v == [hilo[h] EXCEPT !.recurso = r, !.pcb = Nadie, !.pc = "inc_leer"]
<1>4. /\ TypeHilos /\ hilo[h] \in Locales /\ hilo' = [hilo EXCEPT ![h] = v]
      /\ hilo[h].pc = "liberar" /\ UNCHANGED <<instancias, regalos>>
  BY <1>1, <1>2, <1>3 DEF LiberarUno, HilosBien, TypeHilos
<1>5. \A q \in Nombres : Vuelve(hilo[h], q) = 0 /\ Vuelve(v, q) = Uno(r = q)
  BY <1>4 DEF Vuelve, Uno, EnInc, Locales
<1> HIDE DEF v
<1>6. PICK t \in Seq(Nombres) : t = Tail(s) /\ t # SinLista
  <2>1. Tail(s) \in Seq(Nombres)
    BY <1>2, DelPrincipio
  <2>2. QED
    BY <2>1, RecursosAssumption
<1>7. asignados' = [asignados EXCEPT ![p] = t]
  BY <1>1, <1>2, <1>6 DEF LiberarUno
<1>8. /\ \A q \in Pids \ {p} : Listado(asignados')[q] = Listado(asignados)[q]
      /\ Listado(asignados')[p] = t
  BY <1>6, <1>7 DEF Listado, TypeRecursos
<1>9. Cuadra(h, v, p)
  <2> SUFFICES ASSUME NEW q \in Nombres
               PROVE  instancias[q] + Veces(t, q) + Uno(r = q) + regalos[q]
                        = instancias[q] + Veces(s, q) + 0 + regalos[q]
    BY <1>2, <1>4, <1>5, <1>8 DEF Cuadra
  <2>1. Veces(s, q) = Veces(t, q) + Uno(r = q)
    BY <1>2, <1>3, <1>6, VecesDelPrincipio
  <2>2. PICK i \in Nat, g \in Nat, n \in Nat, m \in Nat :
          i = instancias[q] /\ g = regalos[q] /\ n = Veces(s, q) /\ m = Veces(t, q)
    BY VecesTipo DEF TypeRecursos
  <2>3. PICK u \in Nat : u = Uno(r = q)
    BY DEF Uno
  <2>4. n = m + u
    BY <2>1, <2>2, <2>3
  <2>5. i + m + u + g = i + n + 0 + g
    BY <2>4
  <2>6. QED
    BY <2>2, <2>3, <2>5
<1>10. QED
  BY <1>4, <1>8, <1>9, PasoSuma

(* Nothing is given or taken back: h was not giving anything and goes on     *)
(* with e, which is not either.                                              *)
LEMMA SumaSinDevolver ==
  ASSUME TypeHilos, Suma, UNCHANGED <<instancias, regalos, asignados>>,
         NEW h \in Hilos, NEW e, hilo' = [hilo EXCEPT ![h] = e],
         e.pc \notin EnInc, hilo[h].pc \notin EnInc
  PROVE  Suma'
<1>1. hilo'[h] = e /\ \A k \in Hilos \ {h} : hilo'[k] = hilo[k]
  BY DEF TypeHilos
<1>2. QED
  BY <1>1, SumaQuieta

LEMMA SumaPoner ==
  ASSUME TypeHilos, Suma, UNCHANGED <<instancias, regalos, asignados>>,
         NEW h \in Hilos, NEW pc, Poner(h, pc),
         pc \notin EnInc, hilo[h].pc \notin EnInc
  PROVE  Suma'
<1> DEFINE e == [hilo[h] EXCEPT !.pc = pc]
<1>1. hilo' = [hilo EXCEPT ![h] = e] /\ e.pc = pc
  BY DEF Poner, TypeHilos, Locales
<1> HIDE DEF e
<1>2. QED
  BY <1>1, SumaSinDevolver

LEMMA SumaVolver ==
  ASSUME TypeHilos, Suma, UNCHANGED <<instancias, regalos, asignados>>,
         NEW h \in Hilos, Volver(h), hilo[h].pc \notin EnInc
  PROVE  Suma'
<1> DEFINE e == IF h = "largo"
                THEN [EnReposo EXCEPT !.pc = "liberar", !.pid = hilo[h].pid]
                ELSE IF DesdeSignal(h) THEN [hilo[h] EXCEPT !.pc = "signal_enviar"] ELSE EnReposo
<1>1. hilo' = [hilo EXCEPT ![h] = e]
  BY DEF Volver
<1>2. e.pc \in {"liberar", "signal_enviar", "reposo"}
  BY DEF EnReposo, TypeHilos, Locales
<1> HIDE DEF e
<1>3. QED
  BY <1>1, <1>2, SumaSinDevolver DEF EnInc

LEMMA SumaLeer ==
  ASSUME TypeHilos, Suma, UNCHANGED <<instancias, regalos, asignados>>,
         NEW h \in Hilos, WaitLeer(h) \/ IncLeer(h)
  PROVE  Suma'
<1>1. CASE WaitLeer(h)
  <2> DEFINE e == [hilo[h] EXCEPT !.leido = instancias[hilo[h].recurso], !.pc = "wait_asignar"]
  <2>1. hilo' = [hilo EXCEPT ![h] = e] /\ e.pc = "wait_asignar" /\ hilo[h].pc = "wait_leer"
    BY <1>1 DEF WaitLeer, TypeHilos, Locales
  <2> HIDE DEF e
  <2>2. QED
    BY <2>1, SumaSinDevolver DEF EnInc
<1>2. CASE IncLeer(h)
  <2>1. /\ hilo'[h].pc = "inc_escribir" /\ hilo[h].pc = "inc_leer" /\ hilo'[h].recurso = hilo[h].recurso
        /\ \A k \in Hilos \ {h} : hilo'[k] = hilo[k]
    BY <1>2 DEF IncLeer, TypeHilos, Locales
  <2>2. QED
    BY <2>1, SumaQuieta DEF EnInc
<1>3. QED
  BY <1>1, <1>2

LEMMA SumaDesbloquear ==
  ASSUME TypeHilos, Suma, NEW h \in Hilos, NEW hacia, hacia \notin EnInc, Desbloquear(h, hacia)
  PROVE  Suma'
<1>1. hilo[h].pc = "desbloquear" /\ UNCHANGED <<instancias, regalos, asignados>>
  BY DEF Desbloquear
<1>2. CASE UNCHANGED hilo
  BY <1>1, <1>2, SumaQuieta
<1>3. CASE ~UNCHANGED hilo
  <2> DEFINE e == [hilo[h] EXCEPT !.pcb = Head(cola[hilo[h].recurso]), !.pc = hacia]
  <2>1. hilo' = [hilo EXCEPT ![h] = e] /\ e.pc = hacia
    BY <1>3, ZenonT(40) DEF Desbloquear, TypeHilos, Locales
  <2> HIDE DEF e
  <2>2. QED
    BY <1>1, <2>1, SumaSinDevolver DEF EnInc
<1>4. QED
  BY <1>2, <1>3

LEMMA SumaFreeResource ==
  ASSUME TypeRecursos, HilosBien, Suma, FreeResource
  PROVE  Suma'
<1>1. TypeHilos /\ UNCHANGED <<instancias, regalos>>
  BY DEF FreeResource, HilosBien
<1>2. hilo' = [hilo EXCEPT !["largo"] = EnReposo] /\ EnReposo.pc = "reposo" /\ hilo["largo"].pc = "liberar"
  BY DEF FreeResource, EnReposo
<1>3. /\ asignados' = [asignados EXCEPT ![hilo["largo"].pid] = SinLista]
      /\ asignados[hilo["largo"].pid] \in {SinLista, <<>>}
  BY DEF FreeResource
<1>4. Listado(asignados') = Listado(asignados)
  BY <1>3 DEF Listado, TypeRecursos
<1>5. hilo'["largo"] = EnReposo /\ hilo'["dispatch"] = hilo["dispatch"]
  BY <1>1, <1>2 DEF TypeHilos
<1>6. QED
  BY <1>1, <1>2, <1>4, <1>5, SumaQuieta DEF EnInc

LEMMA SumaRecursos ==
  ASSUME Bien, Datos, Suma, RecursosNext, TypeRecursos'
  PROVE  Suma'
<1>1. TypeRecursos /\ HilosBien /\ TypeHilos
  BY DEF Bien, HilosBien
<1>2. ASSUME NEW h \in Hilos, HandleWait(h) PROVE Suma'
  <2>1. CASE TomarMutex(h, "wait", "wait_buscar")
    BY <1>1, <2>1, SumaPoner DEF TomarMutex, recursoVars, EnInc
  <2>2. CASE WaitDesconocido(h) \/ Soltar(h)
    BY <1>1, <2>2, SumaVolver DEF WaitDesconocido, Soltar, recursoVars, EnInc
  <2>3. CASE WaitMirar(h)
    <3>1. PICK pc \in {"wait_leer", "wait_bloquear"} : Poner(h, pc)
      BY <2>3 DEF WaitMirar
    <3>2. QED
      BY <1>1, <2>3, <3>1, SumaPoner DEF WaitMirar, recursoVars, EnInc
  <2>4. CASE WaitLeer(h)
    BY <1>1, <2>4, SumaLeer DEF WaitLeer, recursoVars
  <2>5. CASE WaitAsignar(h)
    BY <1>1, <2>5, SumaWaitAsignar
  <2>6. CASE WaitBloquear(h)
    BY <1>1, <2>6, SumaPoner DEF WaitBloquear, EnInc
  <2>7. QED
    BY <1>2, <2>1, <2>2, <2>3, <2>4, <2>5, <2>6 DEF HandleWait
<1>3. ASSUME HandleSignal PROVE Suma'
  <2> DEFINE h == "dispatch"
  <2>1. h \in Hilos
    OBVIOUS
  <2>2. CASE TomarMutex(h, "signal", "signal_buscar")
    BY <1>1, <2>1, <2>2, SumaPoner DEF TomarMutex, recursoVars, EnInc
  <2>3. CASE SignalRechazar \/ SignalEnviar
    <3>1. /\ hilo' = [hilo EXCEPT ![h] = EnReposo] /\ UNCHANGED <<instancias, regalos, asignados>>
          /\ hilo[h].pc \in {"signal_buscar", "signal_enviar"} /\ EnReposo.pc = "reposo"
      BY <2>3 DEF SignalRechazar, SignalEnviar, recursoVars, EnReposo
    <3>2. QED
      BY <1>1, <2>1, <3>1, SumaSinDevolver DEF EnInc
  <2>4. CASE SignalRemover
    BY <1>1, <2>4, SumaSignalRemover
  <2>5. CASE IncLeer(h)
    BY <1>1, <2>1, <2>5, SumaLeer DEF IncLeer, recursoVars
  <2>6. CASE IncEscribir(h)
    BY <1>1, <2>1, <2>6, SumaIncEscribir
  <2>7. CASE NadieEspera(h, "signal_soltar") \/ AlguienEspera(h)
    BY <1>1, <2>1, <2>7, SumaPoner DEF NadieEspera, AlguienEspera, recursoVars, EnInc
  <2>8. CASE Desbloquear(h, "signal_soltar")
    BY <1>1, <2>1, <2>8, SumaDesbloquear DEF EnInc
  <2>9. CASE SignalSoltar
    <3>1. PICK pc \in {"signal_enviar", "wait"} : Poner(h, pc)
      BY <2>9 DEF SignalSoltar
    <3>2. QED
      BY <1>1, <2>1, <2>9, <3>1, SumaPoner DEF SignalSoltar, recursoVars, EnInc
  <2>10. QED
    BY <1>3, <2>2, <2>3, <2>4, <2>5, <2>6, <2>7, <2>8, <2>9 DEF HandleSignal
<1>4. ASSUME LargoPlazo PROVE Suma'
  <2> DEFINE h == "largo"
  <2>1. h \in Hilos
    OBVIOUS
  <2>2. CASE EndProcess
    <3> DEFINE e == [EnReposo EXCEPT !.pc = "liberar", !.pid = Head(exit)]
    <3>1. /\ hilo' = [hilo EXCEPT ![h] = e] /\ UNCHANGED <<instancias, regalos, asignados>>
          /\ hilo[h].pc = "reposo" /\ e.pc = "liberar"
      BY <2>2 DEF EndProcess, recursoVars, EnReposo
    <3> HIDE DEF e
    <3>2. QED
      BY <1>1, <2>1, <3>1, SumaSinDevolver DEF EnInc
  <2>3. CASE LiberarUno \/ FreeResource
    BY <1>1, <2>3, SumaLiberarUno, SumaFreeResource
  <2>4. CASE IncLeer(h)
    BY <1>1, <2>1, <2>4, SumaLeer DEF IncLeer, recursoVars
  <2>5. CASE IncEscribir(h)
    BY <1>1, <2>1, <2>5, SumaIncEscribir
  <2>6. CASE NadieEspera(h, "liberar") \/ AlguienEspera(h)
    BY <1>1, <2>1, <2>6, SumaPoner DEF NadieEspera, AlguienEspera, recursoVars, EnInc
  <2>7. CASE Desbloquear(h, "wait")
    BY <1>1, <2>1, <2>7, SumaDesbloquear DEF EnInc
  <2>8. QED
    BY <1>4, <2>2, <2>3, <2>4, <2>5, <2>6, <2>7 DEF LargoPlazo
<1>5. ASSUME NEW r \in Nombres \cup {Desconocido}, PedirWait(r) \/ PedirSignal(r)
      PROVE  Suma'
  <2> DEFINE h == "dispatch"
             w == [EnReposo EXCEPT !.pc = "wait", !.pid = Head(enCpu), !.pcb = Head(enCpu), !.recurso = r]
             s == [EnReposo EXCEPT !.pc = "signal", !.pid = Head(enCpu), !.recurso = r]
  <2>1. /\ hilo' = [hilo EXCEPT ![h] = w] \/ hilo' = [hilo EXCEPT ![h] = s]
        /\ UNCHANGED <<instancias, regalos, asignados>> /\ hilo[h].pc = "reposo" /\ h \in Hilos
    BY <1>5 DEF PedirWait, PedirSignal, recursoVars
  <2>2. w.pc = "wait" /\ s.pc = "signal"
    BY DEF EnReposo
  <2> HIDE DEF w, s
  <2>3. QED
    BY <1>1, <2>1, <2>2, SumaSinDevolver DEF EnInc
<1>6. ASSUME (\E p \in Pids : Ejecutar(p)) \/ Desalojar \/ Salir PROVE Suma'
  BY <1>6, SumaQuieta DEF Ejecutar, Desalojar, Salir, recursoVars
<1>7. QED
  BY <1>2, <1>3, <1>4, <1>5, <1>6 DEF RecursosNext, Dispatch, Largo

LEMMA SumaIguales ==
  ASSUME Suma, UNCHANGED <<hilo, instancias, regalos, asignados>>
  PROVE  Suma'
  BY SumaQuieta

LEMMA SumaSiempre == BloqueosSpec => [](Bien /\ SinPerder)
<1>1. InterfacesInit => SinPerder
  BY SumaInicial DEF SinPerder
<1>2. ASSUME Bien, Bien', SinDatos, SinPerder, [BloqueosNext]_todas PROVE SinPerder'
  <2>1. CASE BloqueosNext
    <3> SUFFICES ASSUME "datos" \notin carrera' PROVE Suma'
      BY DEF SinPerder
    <3>1. "datos" \notin carrera
      BY <2>1 DEF BloqueosNext
    <3>2. Datos /\ Suma /\ TypeRecursos'
      BY <1>2, <3>1 DEF SinDatos, SinPerder, Bien
    <3>3. CASE RecursosNext /\ UNCHANGED ioVars
      BY <1>2, <3>2, <3>3, SumaRecursos
    <3>4. CASE InterfacesNext
      <4>1. PICK i \in Ios : \/ Conectar(i) \/ Desconectar(i) \/ Responder(i)
                             \/ Callar(i) \/ PedirIo(i) \/ AtenderKernelIO(i)
        BY <3>4 DEF InterfacesNext
      <4>2. UNCHANGED <<hilo, instancias, regalos, asignados>>
        BY <4>1 DEF Conectar, Desconectar, Responder, Callar, PedirIo, AtenderKernelIO, AtenderTomar,
           AtenderEnviar, AtenderEnvioFallido, AtenderRespuesta, recursoVars
      <4>3. QED
        BY <3>2, <4>2, SumaIguales
    <3>5. QED
      BY <2>1, <3>3, <3>4 DEF BloqueosNext
  <2>2. CASE UNCHANGED todas
    <3>1. UNCHANGED <<hilo, instancias, regalos, asignados, carrera>>
      BY <2>2 DEF todas, vars, recursoVars
    <3>2. QED
      BY <1>2, <3>1, SumaIguales DEF SinPerder
  <2>3. QED
    BY <1>2, <2>1, <2>2
<1>3. QED
  BY <1>1, <1>2, SinDatosSiempre, PTL DEF BloqueosSpec

LEMMA CaminoEs ==
  ASSUME NEW r \in Nombres
  PROVE  EnCamino(r) = Vuelve(hilo["dispatch"], r) + Vuelve(hilo["largo"], r)
<1> DEFINE Va(h) == hilo[h].recurso = r /\ hilo[h].pc \in {"inc_leer", "inc_escribir"}
           S     == {h \in Hilos : Va(h)}
<1>1. EnCamino(r) = Cardinality(S)
  BY DEF EnCamino
<1>2. \A h : Vuelve(hilo[h], r) = IF Va(h) THEN 1 ELSE 0
  BY DEF Vuelve, Uno, EnInc
<1>3. "dispatch" # "largo"
  OBVIOUS
<1>4. /\ Va("dispatch") /\ Va("largo") => S = {"dispatch", "largo"}
      /\ Va("dispatch") /\ ~Va("largo") => S = {"dispatch"}
      /\ ~Va("dispatch") /\ Va("largo") => S = {"largo"}
      /\ ~Va("dispatch") /\ ~Va("largo") => S = {}
  OBVIOUS
<1> HIDE DEF Va, S
<1>5. /\ Cardinality({}) = 0
      /\ Cardinality({"dispatch"}) = 1 /\ Cardinality({"largo"}) = 1
      /\ Cardinality({"dispatch", "largo"}) = 2
  <2>1. IsFiniteSet({"dispatch"}) /\ Cardinality({"dispatch"}) = 1 /\ Cardinality({"largo"}) = 1
    BY FS_Singleton
  <2>2. Cardinality({"dispatch"} \cup {"largo"}) = Cardinality({"dispatch"}) + 1
    BY <1>3, <2>1, FS_AddElement
  <2>3. {"dispatch", "largo"} = {"dispatch"} \cup {"largo"}
    OBVIOUS
  <2>4. QED
    BY <2>1, <2>2, <2>3, FS_EmptySet
<1>6. QED
  BY <1>1, <1>2, <1>4, <1>5

LEMMA ManosSon == \A r \in Nombres : EnManos(r) = Cardinality(Dadas(asignados, r))
<1> SUFFICES ASSUME NEW r \in Nombres
             PROVE  (UNION {Mano(p, r) : p \in Pids}) = Dadas(asignados, r)
  BY DEF EnManos
<1>1. \A p \in Pids : Mano(p, r) = Fila(p, Listado(asignados)[p], r)
  BY DEF Mano, Lista, Fila, Listado
<1>2. QED
  BY <1>1 DEF Dadas, Pares

(* The instances of a resource, those its holders were assigned and the one  *)
(* on its way back (decrementar_recurso, remover_recurso_de_proceso,         *)
(* incrementar_recurso) add up to those of the configuration and the gifts,  *)
(* as long as both threads were never on the data of the same resource.      *)
THEOREM NoSePierdenInstancias == BloqueosSpec => []Conservacion
<1>1. ASSUME Bien, SinPerder PROVE Conservacion
  <2> SUFFICES ASSUME "datos" \notin carrera, NEW r \in Nombres
               PROVE  instancias[r] + EnManos(r) + EnCamino(r) = Instancias[r] + regalos[r]
    BY DEF Conservacion
  <2>1. /\ IsFiniteSet(Dadas(asignados, r))
        /\ instancias[r] + Cardinality(Dadas(asignados, r))
             + Vuelve(hilo["dispatch"], r) + Vuelve(hilo["largo"], r)
           = Instancias[r] + regalos[r]
    BY <1>1 DEF SinPerder, Suma
  <2>2. PICK i \in Nat, m \in Nat, a \in Nat, b \in Nat :
          /\ i = instancias[r] /\ m = Cardinality(Dadas(asignados, r))
          /\ a = Vuelve(hilo["dispatch"], r) /\ b = Vuelve(hilo["largo"], r)
    <3>1. /\ instancias[r] \in Nat /\ Cardinality(Dadas(asignados, r)) \in Nat
          /\ Vuelve(hilo["dispatch"], r) \in Nat /\ Vuelve(hilo["largo"], r) \in Nat
      BY <1>1, <2>1, FS_CardinalityType DEF Bien, TypeRecursos, Vuelve, Uno
    <3>2. QED
      BY <3>1
  <2>3. i + m + (a + b) = i + m + a + b
    OBVIOUS
  <2>4. EnManos(r) = m /\ EnCamino(r) = a + b
    BY <2>2, CaminoEs, ManosSon
  <2>5. QED
    BY <2>1, <2>2, <2>3, <2>4
<1>2. QED
  BY <1>1, SumaSiempre, PTL
=============================================================================
