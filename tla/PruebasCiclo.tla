----------------------------- MODULE PruebasCiclo -----------------------------
(***************************************************************************)
(* The kernel as a whole: lists against semaphores and what can bring it    *)
(* down, the one place of each process, the degree of multiprogramming, and *)
(* the five-state life that the kernel and the CPU implement.              *)
(***************************************************************************)
EXTENDS PruebasPlanificacion

USE DEF Pids, PidsONulo, Nulo

-----------------------------------------------------------------------------
(* Every element of a list has a unit of its semaphore, also when           *)
(* FINALIZAR_PROCESO takes others out.  Between adding to a READY list and   *)
(* posting its semaphore a thread logs the list.                            *)

ColasAlcanzan == \A c \in Colas : Pendientes(c) >= Len(cola[c])
ExitAlcanza == sem["EXIT"] = Len(colaExit)
IoAlcanza == \A i \in Interfaces : ioSem[i] + Uno(ioPc[i] = "obtener") >= Len(ioCola[i])

(* A thread has a list noted only while it logs it, and the long-term       *)
(* planner only logs COLA_READY.                                            *)
Listando ==
  /\ listado["largo"].lista \in {"NINGUNA", "READY"}
  /\ listado["largo"].lista # "NINGUNA" => pc["largo"] = "mostrar"
  /\ listado["despacho"].lista # "NINGUNA" => pc["despacho"] = "mostrar"
  /\ \A i \in Interfaces : listado[i].lista # "NINGUNA" => ioPc[i] = "mostrar"

Alcanzan == ColasAlcanzan /\ ExitAlcanza /\ IoAlcanza /\ Listando

LEMMA InterfacesAparte == "largo" \notin Interfaces /\ "despacho" \notin Interfaces
  BY NombresAssumption DEF Hilos

LEMMA EnListaFinita ==
  ASSUME NEW c
  PROVE  IsFiniteSet(EnLista(c)) /\ Cardinality(EnLista(c)) \in Nat
<1>1. IsFiniteSet(Interfaces \cup {"largo"})
  BY InterfacesAssumption, FS_AddElement
<1>2. IsFiniteSet(Lectores)
  <2>1. Lectores = (Interfaces \cup {"largo"}) \cup {"despacho"}
    BY DEF Lectores
  <2>2. QED
    BY <1>1, <2>1, FS_AddElement
<1>3. EnLista(c) \subseteq Lectores
  BY DEF EnLista
<1>4. QED
  BY <1>2, <1>3, FS_Subset, FS_CardinalityType

LEMMA PendientesTipo ==
  ASSUME Tipos, NEW c \in Colas
  PROVE  sem[c] \in Nat /\ Cardinality(EnLista(c)) \in Nat /\ Pendientes(c) \in Nat /\ Len(cola[c]) \in Nat
<1>1. sem[c] \in Nat
  BY NombresSem DEF Colas, Tipos, TypeOK, SemTypeOK
<1>2. Len(cola[c]) \in Nat
  BY LenProperties DEF Colas, Tipos, TypeOK, ListasTypeOK
<1>3. QED
  BY <1>1, <1>2, EnListaFinita DEF Pendientes, Uno

(* Noting and forgetting the list that is logged *)
LEMMA EnListaMarco ==
  ASSUME Tipos, NEW c
  PROVE  /\ UNCHANGED listado => EnLista(c)' = EnLista(c)
         /\ \A x : RomperListados(x) => EnLista(c)' = EnLista(c)
<1>1. UNCHANGED listado => EnLista(c)' = EnLista(c)
  BY DEF EnLista
<1>2. ASSUME NEW x, RomperListados(x)
      PROVE  EnLista(c)' = EnLista(c)
  <2>1. ASSUME NEW l \in Lectores PROVE listado'[l].lista = listado[l].lista
    <3>1. listado[l] \in Listados
      BY DEF Tipos, TypeOK, ListasTypeOK
    <3>2. [listado[l] EXCEPT !.rota = TRUE].lista = listado[l].lista
      BY <3>1 DEF Listados
    <3>3. QED
      BY <1>2, <3>2 DEF RomperListados
  <2>2. QED
    BY <2>1 DEF EnLista
<1>3. QED
  BY <1>1, <1>2

LEMMA EnListaListar ==
  ASSUME Tipos, NEW l \in Lectores, NEW x \in {"READY", "AUX_READY"}, Listar(l, x),
         listado[l].lista = "NINGUNA", NEW c \in Colas
  PROVE  /\ Cardinality(EnLista(c)') = Cardinality(EnLista(c)) + Uno(c = x)
         /\ \A k \in Lectores \ {l} : listado'[k] = listado[k]
         /\ listado'[l].lista = x
<1>1. /\ \A k \in Lectores \ {l} : listado'[k] = listado[k]
      /\ listado'[l].lista = x
  BY DEF Listar, Tipos, TypeOK, ListasTypeOK
<1>2. l \notin EnLista(c)
  BY DEF EnLista, Colas
<1>3. EnLista(c)' = IF c = x THEN EnLista(c) \cup {l} ELSE EnLista(c)
  BY <1>1, <1>2 DEF EnLista
<1>4. Cardinality(EnLista(c) \cup {l}) = Cardinality(EnLista(c)) + 1
  BY <1>2, EnListaFinita, FS_AddElement
<1>5. QED
  BY <1>1, <1>3, <1>4, EnListaFinita DEF Uno

LEMMA EnListaTerminar ==
  ASSUME Tipos, NEW l \in Lectores, TerminarListado(l), NEW c \in Colas
  PROVE  /\ Cardinality(EnLista(c)) = Cardinality(EnLista(c)') + Uno(c = listado[l].lista)
         /\ \A k \in Lectores \ {l} : listado'[k] = listado[k]
         /\ listado'[l].lista = "NINGUNA"
<1>1. /\ \A k \in Lectores \ {l} : listado'[k] = listado[k]
      /\ listado'[l].lista = "NINGUNA"
  BY DEF TerminarListado, SinListado, Tipos, TypeOK, ListasTypeOK
<1>2. l \notin EnLista(c)'
  BY <1>1 DEF EnLista, Colas
<1>3. EnLista(c)' = EnLista(c) \ {l}
  BY <1>1, <1>2 DEF EnLista
<1>4. l \in EnLista(c) <=> c = listado[l].lista
  BY DEF EnLista
<1>5. Cardinality(EnLista(c) \ {l}) =
        IF l \in EnLista(c) THEN Cardinality(EnLista(c)) - 1 ELSE Cardinality(EnLista(c))
  BY EnListaFinita, FS_RemoveElement
<1>6. QED
  BY <1>1, <1>3, <1>4, <1>5, EnListaFinita DEF Uno

(* The parts of the invariant that a step leaves alone *)
LEMMA ColasQuietas ==
  ASSUME Tipos, ColasAlcanzan, UNCHANGED cola, \A c \in Colas : sem'[c] = sem[c] /\ EnLista(c)' = EnLista(c),
         pc'["largo"] = pc["largo"]
  PROVE  ColasAlcanzan'
  BY DEF ColasAlcanzan, Pendientes

LEMMA IoQuieta ==
  ASSUME IoAlcanza, UNCHANGED <<ioCola, ioSem, ioPc>>
  PROVE  IoAlcanza'
  BY DEF IoAlcanza

LEMMA ListandoQuieto ==
  ASSUME Listando, UNCHANGED <<listado, ioPc>>, pc'["largo"] = pc["largo"], pc'["despacho"] = pc["despacho"]
  PROVE  Listando'
  BY DEF Listando

LEMMA AlcanzanInicial == Init => Alcanzan
<1> SUFFICES ASSUME Init PROVE Alcanzan
  OBVIOUS
<1>1. Tipos
  BY TiposInicial
<1>2. ColasAlcanzan
  <2>1. ASSUME NEW c \in Colas PROVE Pendientes(c) >= Len(cola[c])
    <3>1. cola[c] = <<>>
      BY DEF Init, KernelInit, Colas
    <3>2. Len(cola[c]) = 0
      BY <3>1
    <3>3. QED
      BY <1>1, <3>2, PendientesTipo
  <2>2. QED
    BY <2>1 DEF ColasAlcanzan
<1>3. ExitAlcanza
  BY NombresSem DEF Init, KernelInit, ExitAlcanza, SemPlanes
<1>4. IoAlcanza
  BY DEF Init, KernelInit, IoAlcanza, Uno
<1>5. Listando
  BY LectoresHay DEF Init, KernelInit, Listando, SinListado
<1>6. QED
  BY <1>2, <1>3, <1>4, <1>5 DEF Alcanzan

LEMMA AlcanzanMarco ==
  ASSUME Tipos, Alcanzan, UNCHANGED <<cola, listado, ioCola, ioSem, ioPc>>, Len(colaExit') = Len(colaExit),
         \A s \in Colas \cup {"EXIT"} : sem'[s] = sem[s],
         pc'["largo"] = pc["largo"], listado["despacho"].lista # "NINGUNA" => pc'["despacho"] = "mostrar"
  PROVE  Alcanzan'
<1>1. ColasAlcanzan'
  BY EnListaMarco, ColasQuietas DEF Alcanzan
<1>2. ExitAlcanza'
  BY DEF Alcanzan, ExitAlcanza
<1>3. IoAlcanza'
  BY IoQuieta DEF Alcanzan
<1>4. Listando'
  BY DEF Alcanzan, Listando
<1>5. QED
  BY <1>1, <1>2, <1>3, <1>4 DEF Alcanzan

LEMMA AlcanzanCpu ==
  ASSUME Tipos, Alcanzan, UNCHANGED kernelVars
  PROVE  Alcanzan'
<1>1. UNCHANGED <<sem, cola, colaExit, listado, pc, ioCola, ioSem, ioPc>>
  BY DEF kernelVars, listas, hilos, ioVars
<1>2. listado["despacho"].lista # "NINGUNA" => pc["despacho"] = "mostrar"
  BY DEF Alcanzan, Listando
<1>3. QED
  BY <1>1, <1>2, AlcanzanMarco

(* A semaphore other than those of the lists *)
LEMMA OtroSemaforo ==
  ASSUME Tipos, NEW s \in Semaforos \ (Colas \cup {"EXIT"}), Esperar(s) \/ Publicar(s)
  PROVE  \A x \in Colas \cup {"EXIT"} : sem'[x] = sem[x]
BY NombresSem DEF Esperar, Publicar, Tipos, TypeOK, SemTypeOK, Colas

LEMMA AlcanzanGestion ==
  ASSUME Tipos, Alcanzan,
         \/ ConsolaTrabada \/ DetenerPlanificacion \/ IniciarPlanificacion
         \/ \E k \in Cambios, g \in Grados : CambiarGrado(k, g)
         \/ \E p \in Pids : FinalizarBuscar(p)
         \/ FinalizarVerificar \/ FinalizarComparar
         \/ \E s \in SemPlanes : DetenerCola(s)
         \/ \E k \in Cambios : Cambio(k)
  PROVE  Alcanzan'
<1>1. UNCHANGED <<cola, colaExit, listado, ioCola, ioSem, ioPc>>
  BY DEF ConsolaTrabada, DetenerPlanificacion, IniciarPlanificacion, CambiarGrado, FinalizarBuscar,
         FinalizarVerificar, FinalizarComparar, DetenerCola, Cambio, CambioTomar, CambioAjustar,
         CambioTerminar, listas, ioVars
<1>2. \A s \in Colas \cup {"EXIT"} : sem'[s] = sem[s]
  <2>1. SemPlanes \subseteq Semaforos \ (Colas \cup {"EXIT"})
        /\ "ORDEN" \in Semaforos \ (Colas \cup {"EXIT"})
        /\ "MULTIPROGRAMACION" \in Semaforos \ (Colas \cup {"EXIT"})
        /\ Colas \cup {"EXIT"} \subseteq Semaforos \ SemPlanes
    BY DEF Semaforos, SemPlanes, Colas
  <2>2. CASE UNCHANGED sem
    BY <2>2
  <2>3. CASE \E s \in SemPlanes \cup {"ORDEN", "MULTIPROGRAMACION"} : Esperar(s) \/ Publicar(s)
    BY <2>1, <2>3, OtroSemaforo
  <2>4. CASE sem' = [s \in Semaforos |-> IF s \in SemPlanes THEN sem[s] + 1 ELSE sem[s]]
    BY <2>1, <2>4
  <2>5. QED
    BY <2>2, <2>3, <2>4
    DEF ConsolaTrabada, DetenerPlanificacion, IniciarPlanificacion, CambiarGrado, FinalizarBuscar,
        FinalizarVerificar, FinalizarComparar, DetenerCola, Cambio, CambioTomar, CambioAjustar, CambioTerminar
<1>3. pc'["largo"] = pc["largo"] /\ pc'["despacho"] = pc["despacho"]
  <2>1. UNCHANGED pc \/ \E s : pc' = [pc EXCEPT !["consola"] = s]
    BY DEF ConsolaTrabada, DetenerPlanificacion, IniciarPlanificacion, CambiarGrado, FinalizarBuscar,
           FinalizarVerificar, FinalizarComparar, DetenerCola, Cambio, CambioTomar, CambioAjustar,
           CambioTerminar, Ir, hilos
  <2>2. QED
    BY <2>1 DEF Tipos, TypeOK, HilosTypeOK, Hilos
<1>4. QED
  BY <1>1, <1>2, <1>3, AlcanzanMarco DEF Alcanzan, Listando

(* What a step adds to a list and to what is pending for it *)
LEMMA Suben ==
  ASSUME Tipos, NEW c \in Colas, Pendientes(c) >= Len(cola[c]), NEW u \in Nat, NEW v \in Nat, u >= v,
         UNCHANGED pc, EnLista(c)' = EnLista(c), sem'[c] = sem[c] + u, Len(cola'[c]) = Len(cola[c]) + v
  PROVE  Pendientes(c)' >= Len(cola'[c])
<1>1. PICK a, m, k, n \in Nat : /\ a = sem[c] /\ k = Cardinality(EnLista(c)) /\ n = Len(cola[c])
                                /\ m = Uno(c = "NEW" /\ pc["largo"] \in {"orden", "multi", "sacar"})
  BY PendientesTipo DEF Uno
<1>2. Pendientes(c) = a + m + k /\ Pendientes(c)' = (a + u) + m + k
  BY <1>1 DEF Pendientes
<1>3. QED
  BY <1>1, <1>2, SMTT(30)

LEMMA AlcanzanIniciar ==
  ASSUME Tipos, Alcanzan, IniciarProceso
  PROVE  Alcanzan'
<1>1. /\ UNCHANGED <<colaExit, listado, pc, ioCola, ioSem, ioPc>>
      /\ cola' = [cola EXCEPT !["NEW"] = Append(@, identificador)]
      /\ identificador \in Pids
  <2>1. identificador \in 1..(MaxPid + 1) /\ identificador <= MaxPid
    BY DEF IniciarProceso, Tipos, TypeOK, GestionTypeOK
  <2>2. identificador \in Pids
    BY <2>1, MaxPidAssumption
  <2>3. QED
    BY <2>2 DEF IniciarProceso, hilos, ioVars
<1>2. /\ sem'["NEW"] = sem["NEW"] + 1
      /\ \A s \in {"READY", "AUX_READY", "EXIT"} : sem'[s] = sem[s]
  BY NombresSem DEF IniciarProceso, Publicar, Tipos, TypeOK, SemTypeOK
<1>3. /\ Len(cola'["NEW"]) = Len(cola["NEW"]) + 1
      /\ \A c \in Colas \ {"NEW"} : cola'[c] = cola[c]
  BY <1>1, AppendProperties DEF Tipos, TypeOK, ListasTypeOK, Colas
<1>4. ColasAlcanzan'
  <2>1. ASSUME NEW c \in Colas PROVE Pendientes(c)' >= Len(cola'[c])
    <3>1. /\ UNCHANGED pc /\ EnLista(c)' = EnLista(c) /\ Pendientes(c) >= Len(cola[c])
      BY <1>1, EnListaMarco DEF Alcanzan, ColasAlcanzan
    <3>2. CASE c = "NEW"
      BY <1>2, <1>3, <3>1, <3>2, Suben
    <3>3. CASE c # "NEW"
      <4>1. sem[c] \in Nat /\ Len(cola[c]) \in Nat
        BY PendientesTipo
      <4>2. sem'[c] = sem[c] /\ Len(cola'[c]) = Len(cola[c])
        BY <1>2, <1>3, <3>3, <4>1 DEF Colas
      <4>3. QED
        BY <3>1, <4>2 DEF Pendientes
    <3>4. QED
      BY <3>2, <3>3
  <2>2. QED
    BY <2>1 DEF ColasAlcanzan
<1>5. QED
  BY <1>1, <1>2, <1>4, IoQuieta, ListandoQuieto DEF Alcanzan, ExitAlcanza

LEMMA AlcanzanEliminar ==
  ASSUME Tipos, Alcanzan, vivo, FinalizarEliminar
  PROVE  Alcanzan'
<1>1. UNCHANGED <<sem, colaExit, ioSem, ioPc>>
  BY DEF FinalizarEliminar
<1>2. pc'["largo"] = pc["largo"] /\ pc'["despacho"] = pc["despacho"]
  BY DEF FinalizarEliminar, Ir, Tipos, TypeOK, HilosTypeOK, Hilos
<1>3. \A c \in Colas : Len(cola'[c]) <= Len(cola[c])
  <2>1. cola \in [Colas -> Seq(Pids)]
    BY DEF Tipos, TypeOK, ListasTypeOK, Colas
  <2>2. \A c \in Colas : /\ Len(cola[c]) \in Nat
                         /\ Len(ListRemoveElement(cola[c], local["consola"])) <= Len(cola[c])
    BY <2>1, ListRemoveElementTipo, LenProperties
  <2>3. cola' = cola \/ \E e \in {"NEW", "READY"} :
          cola' = [cola EXCEPT ![e] = ListRemoveElement(@, local["consola"])]
    BY DEF FinalizarEliminar
  <2>4. QED
    BY <2>1, <2>2, <2>3, SMTT(30) DEF Colas
<1>4. \A i \in Interfaces : Len(ioCola'[i]) <= Len(ioCola[i]) /\ Len(ioCola'[i]) \in Nat /\ Len(ioCola[i]) \in Nat
  <2>1. ioCola \in [Interfaces -> Seq(Pids)]
    BY DEF Tipos, TypeOK, IoTypeOK
  <2>2. \A i \in Interfaces : /\ ListRemoveElement(ioCola[i], local["consola"]) \in Seq(Pids)
                              /\ Len(ListRemoveElement(ioCola[i], local["consola"])) <= Len(ioCola[i])
    BY <2>1, ListRemoveElementTipo
  <2>3. ioCola' = ioCola \/ ioCola' = [i \in Interfaces |-> ListRemoveElement(ioCola[i], local["consola"])]
    BY DEF FinalizarEliminar
  <2>4. QED
    BY <2>1, <2>2, <2>3, LenProperties
<1>5. listado' = listado \/ RomperListados("READY")
  BY DEF FinalizarEliminar
<1>6. ColasAlcanzan'
  <2>1. Tipos'
    BY TiposFinalizar
  <2>2. ASSUME NEW c \in Colas PROVE Pendientes(c)' >= Len(cola'[c])
    <3>1. Pendientes(c)' = Pendientes(c)
      BY <1>1, <1>2, <1>5, EnListaMarco DEF Pendientes
    <3>2. Pendientes(c) >= Len(cola[c]) /\ Len(cola'[c]) <= Len(cola[c]) /\ Len(cola'[c]) \in Nat
      BY <1>3, <2>1, LenProperties DEF Alcanzan, ColasAlcanzan, Tipos, TypeOK, ListasTypeOK, Colas
    <3>3. QED
      BY <3>1, <3>2, PendientesTipo
  <2>3. QED
    BY <2>2 DEF ColasAlcanzan
<1>7. IoAlcanza'
  <2>1. ASSUME NEW i \in Interfaces PROVE ioSem'[i] + Uno(ioPc'[i] = "obtener") >= Len(ioCola'[i])
    <3>1. ioSem[i] + Uno(ioPc[i] = "obtener") >= Len(ioCola[i]) /\ ioSem[i] \in Nat
      BY DEF Alcanzan, IoAlcanza, Tipos, TypeOK, IoTypeOK
    <3>2. QED
      BY <1>1, <1>4, <3>1 DEF Uno
  <2>2. QED
    BY <2>1 DEF IoAlcanza
<1>8. Listando'
  <2>1. \A l \in Lectores : listado'[l].lista = listado[l].lista
    <3>1. CASE listado' = listado
      BY <3>1
    <3>2. CASE RomperListados("READY")
      <4>1. ASSUME NEW l \in Lectores PROVE [listado[l] EXCEPT !.rota = TRUE].lista = listado[l].lista
        BY DEF Tipos, TypeOK, ListasTypeOK, Listados
      <4>2. QED
        BY <3>2, <4>1 DEF RomperListados
    <3>3. QED
      BY <1>5, <3>1, <3>2
  <2>2. QED
    BY <1>1, <1>2, <2>1, LectoresHay DEF Alcanzan, Listando
<1>9. QED
  BY <1>1, <1>6, <1>7, <1>8 DEF Alcanzan, ExitAlcanza

LEMMA AlcanzanEncolar ==
  ASSUME Tipos, Alcanzan, FinalizarEncolar
  PROVE  Alcanzan'
<1>1. UNCHANGED <<cola, listado, ioCola, ioSem, ioPc>>
  BY DEF FinalizarEncolar, ioVars
<1>2. pc'["largo"] = pc["largo"] /\ pc'["despacho"] = pc["despacho"]
  BY DEF FinalizarEncolar, Ir, Tipos, TypeOK, HilosTypeOK, Hilos
<1>3. /\ sem'["EXIT"] = sem["EXIT"] + 1
      /\ \A s \in Colas : sem'[s] = sem[s]
  BY NombresSem DEF FinalizarEncolar, Publicar, Tipos, TypeOK, SemTypeOK, Colas
<1>4. Len(colaExit') = Len(colaExit) + 1
  BY AppendProperties DEF FinalizarEncolar, Tipos, TypeOK, ListasTypeOK
<1>5. ColasAlcanzan'
  BY <1>1, <1>2, <1>3, EnListaMarco, ColasQuietas DEF Alcanzan
<1>6. QED
  BY <1>1, <1>2, <1>3, <1>4, <1>5, IoQuieta, ListandoQuieto DEF Alcanzan, ExitAlcanza

(* send_new_to_ready *)
PorSacar(c) == Uno(c = "NEW" /\ pc["largo"] \in {"orden", "multi", "sacar"})

LEMMA PendientesEs ==
  ASSUME Tipos, NEW c \in Colas
  PROVE  /\ Pendientes(c) = sem[c] + PorSacar(c) + Cardinality(EnLista(c))
         /\ sem[c] \in Nat /\ PorSacar(c) \in {0, 1} /\ Cardinality(EnLista(c)) \in Nat /\ Len(cola[c]) \in Nat
BY PendientesTipo DEF Pendientes, PorSacar, Uno

LEMMA Vaciada ==
  ASSUME Tipos', NEW c \in Colas, cola'[c] = <<>>
  PROVE  Pendientes(c)' >= Len(cola'[c])
<1>1. sem'[c] \in Nat
  BY NombresSem DEF Colas, Tipos, TypeOK, SemTypeOK
<1>2. Cardinality(EnLista(c)') \in Nat
  <2>1. IsFiniteSet(Lectores)
    <3>1. IsFiniteSet(Interfaces \cup {"largo"})
      BY InterfacesAssumption, FS_AddElement
    <3>2. Lectores = (Interfaces \cup {"largo"}) \cup {"despacho"}
      BY DEF Lectores
    <3>3. QED
      BY <3>1, <3>2, FS_AddElement
  <2>2. EnLista(c)' \subseteq Lectores
    BY DEF EnLista
  <2>3. QED
    BY <2>1, <2>2, FS_Subset, FS_CardinalityType
<1>3. Len(cola'[c]) = 0
  OBVIOUS
<1>4. QED
  BY <1>1, <1>2, <1>3 DEF Pendientes, Uno

LEMMA AlcanzanLargoEsperar ==
  ASSUME Tipos, Alcanzan, vivo, LargoEsperar \/ LargoOrden \/ LargoMulti
  PROVE  Alcanzan'
<1>1. UNCHANGED <<cola, colaExit, listado, ioCola, ioSem, ioPc>> /\ Tipos'
  BY TiposLargo DEF LargoPlazo, LargoEsperar, LargoOrden, LargoMulti, ioVars, listas
<1>2. \A c \in Colas : EnLista(c)' = EnLista(c)
  BY <1>1, EnListaMarco
<1>3. pc \in [Hilos -> Pasos] /\ "largo" \in Hilos /\ "despacho" \in Hilos
  BY DEF Tipos, TypeOK, HilosTypeOK, Hilos
<1>4. pc'["despacho"] = pc["despacho"] /\ listado'["largo"].lista = "NINGUNA"
  BY <1>1, <1>3 DEF LargoEsperar, LargoOrden, LargoMulti, En, Ir, Alcanzan, Listando
<1>5. sem'["EXIT"] = sem["EXIT"] /\ \A c \in Colas \ {"NEW"} : sem'[c] = sem[c]
  BY NombresSem DEF LargoEsperar, LargoOrden, LargoMulti, Esperar, Tipos, TypeOK, SemTypeOK, Colas
<1>6. ColasAlcanzan'
  <2>1. ASSUME NEW c \in Colas PROVE Pendientes(c)' >= Len(cola'[c])
    <3>1. Pendientes(c) >= Len(cola[c])
      BY DEF Alcanzan, ColasAlcanzan
    <3>2. CASE c # "NEW"
      BY <1>1, <1>2, <1>5, <3>1, <3>2 DEF Pendientes
    <3>3. CASE c = "NEW" /\ (LargoOrden \/ LargoMulti)
      <4>1. sem'[c] = sem[c]
        BY <3>3, NombresSem DEF LargoOrden, LargoMulti, Esperar, Tipos, TypeOK, SemTypeOK
      <4>2. pc["largo"] \in {"orden", "multi"} /\ pc'["largo"] \in {"multi", "sacar"}
        BY <1>3, <3>3 DEF LargoOrden, LargoMulti, En, Ir
      <4>3. QED
        BY <1>1, <1>2, <3>1, <4>1, <4>2 DEF Pendientes
    <3>4. CASE c = "NEW" /\ LargoEsperar /\ cola[c] = <<>>
      BY <1>1, <3>4, Vaciada
    <3>5. CASE c = "NEW" /\ LargoEsperar /\ cola[c] # <<>>
      <4>1. sem'[c] = sem[c] - 1
        BY <3>5, NombresSem DEF LargoEsperar, Esperar, Tipos, TypeOK, SemTypeOK
      <4>2. pc["largo"] = "espera" /\ pc'["largo"] = "orden"
        BY <1>3, <3>5 DEF LargoEsperar, En, Ir
      <4>3. PorSacar(c) = 0 /\ PorSacar(c)' = 1
        BY <3>5, <4>2 DEF PorSacar, Uno
      <4>4. Pendientes(c)' = sem'[c] + PorSacar(c)' + Cardinality(EnLista(c)')
        BY DEF Pendientes, PorSacar
      <4>5. QED
        BY <1>1, <1>2, <3>1, <4>1, <4>3, <4>4, PendientesEs
    <3>6. QED
      BY <3>2, <3>3, <3>4, <3>5
  <2>2. QED
    BY <2>1 DEF ColasAlcanzan
<1>7. Listando'
  BY <1>1, <1>4 DEF Alcanzan, Listando
<1>8. QED
  BY <1>1, <1>5, <1>6, <1>7, IoQuieta DEF Alcanzan, ExitAlcanza

LEMMA AlcanzanLargoSacar ==
  ASSUME Tipos, Alcanzan, vivo, LargoSacar
  PROVE  Alcanzan'
<1>1. UNCHANGED <<colaExit, listado, ioCola, ioSem, ioPc>> /\ Tipos'
  BY TiposLargo DEF LargoPlazo, LargoSacar, ioVars
<1>2. \A c \in Colas : EnLista(c)' = EnLista(c)
  BY <1>1, EnListaMarco
<1>3. pc["largo"] = "sacar" /\ pc'["largo"] = "agregar" /\ pc'["despacho"] = pc["despacho"]
  BY DEF LargoSacar, En, Ir, Tipos, TypeOK, HilosTypeOK, Hilos
<1>4. sem'["EXIT"] = sem["EXIT"] /\ \A c \in Colas : sem'[c] = sem[c]
  BY NombresSem DEF LargoSacar, Esperar, Tipos, TypeOK, SemTypeOK, Colas
<1>5. cola \in [Colas -> Seq(Pids)]
  BY DEF Tipos, TypeOK, ListasTypeOK, Colas
<1>6. ColasAlcanzan'
  <2>1. ASSUME NEW c \in Colas PROVE Pendientes(c)' >= Len(cola'[c])
    <3>1. Pendientes(c) >= Len(cola[c])
      BY DEF Alcanzan, ColasAlcanzan
    <3>2. CASE c # "NEW"
      <4>1. cola'[c] = cola[c]
        BY <1>5, <3>2 DEF LargoSacar
      <4>2. QED
        BY <1>2, <1>4, <3>1, <3>2, <4>1 DEF Pendientes
    <3>3. CASE c = "NEW" /\ cola[c] = <<>>
      <4>1. cola'[c] = <<>>
        BY <3>3 DEF LargoSacar
      <4>2. QED
        BY <1>1, <4>1, Vaciada
    <3>4. CASE c = "NEW" /\ cola[c] # <<>>
      <4>1. cola'[c] = ListRemove(cola[c])
        BY <1>5, <3>4 DEF LargoSacar
      <4>2. Len(cola'[c]) = Len(cola[c]) - 1
        BY <1>5, <3>4, <4>1, ListRemoveTipo
      <4>3. PorSacar(c) = 1 /\ PorSacar(c)' = 0
        BY <1>3, <3>4 DEF PorSacar, Uno
      <4>4. Pendientes(c)' = sem'[c] + PorSacar(c)' + Cardinality(EnLista(c)')
        BY DEF Pendientes, PorSacar
      <4>5. QED
        BY <1>2, <1>4, <3>1, <4>2, <4>3, <4>4, PendientesEs
    <3>5. QED
      BY <3>2, <3>3, <3>4
  <2>2. QED
    BY <2>1 DEF ColasAlcanzan
<1>7. Listando'
  BY <1>1, <1>3 DEF Alcanzan, Listando
<1>8. QED
  BY <1>1, <1>4, <1>6, <1>7, IoQuieta DEF Alcanzan, ExitAlcanza

(* To a READY list, and to its semaphore after the log *)
LEMMA ColasAlListar ==
  ASSUME Tipos, ColasAlcanzan, NEW l \in Lectores, NEW x \in {"READY", "AUX_READY"}, NEW p \in Pids,
         Listar(l, x), listado[l].lista = "NINGUNA", cola' = [cola EXCEPT ![x] = Append(@, p)],
         \A c \in Colas : sem'[c] = sem[c] /\ PorSacar(c)' = PorSacar(c)
  PROVE  ColasAlcanzan'
<1>1. cola \in [Colas -> Seq(Pids)] /\ x \in Colas
  BY DEF Tipos, TypeOK, ListasTypeOK, Colas
<1>2. ASSUME NEW c \in Colas PROVE Pendientes(c)' >= Len(cola'[c])
  <2>1. Cardinality(EnLista(c)') = Cardinality(EnLista(c)) + Uno(c = x)
    BY EnListaListar
  <2>2. Len(cola'[c]) = Len(cola[c]) + Uno(c = x)
    <3>1. CASE c = x
      <4>1. cola'[c] = Append(cola[c], p)
        BY <1>1, <3>1
      <4>2. QED
        BY <1>1, <3>1, <4>1, AppendProperties DEF Uno
    <3>2. CASE c # x
      BY <1>1, <3>2, PendientesEs DEF Uno
    <3>3. QED
      BY <3>1, <3>2
  <2>3. Pendientes(c)' = sem'[c] + PorSacar(c)' + Cardinality(EnLista(c)')
    BY DEF Pendientes, PorSacar
  <2>4. Pendientes(c) >= Len(cola[c]) /\ Uno(c = x) \in {0, 1}
    BY DEF ColasAlcanzan, Uno
  <2>5. QED
    BY <2>1, <2>2, <2>3, <2>4, PendientesEs
<1>3. QED
  BY <1>2 DEF ColasAlcanzan

LEMMA ColasAlMostrar ==
  ASSUME Tipos, ColasAlcanzan, NEW l \in Lectores, TerminarListado(l), UNCHANGED cola,
         \A c \in Colas : sem'[c] = sem[c] + Uno(c = listado[l].lista) /\ PorSacar(c)' = PorSacar(c)
  PROVE  ColasAlcanzan'
<1>1. ASSUME NEW c \in Colas PROVE Pendientes(c)' >= Len(cola'[c])
  <2>1. Cardinality(EnLista(c)) = Cardinality(EnLista(c)') + Uno(c = listado[l].lista)
    BY EnListaTerminar
  <2>2. Pendientes(c)' = sem'[c] + PorSacar(c)' + Cardinality(EnLista(c)')
    BY DEF Pendientes, PorSacar
  <2>3. Pendientes(c) >= Len(cola[c]) /\ Uno(c = listado[l].lista) \in {0, 1}
    BY DEF ColasAlcanzan, Uno
  <2>4. EnLista(c)' \subseteq EnLista(c)
    <3>1. /\ \A k \in Lectores \ {l} : listado'[k] = listado[k]
          /\ listado'[l].lista = "NINGUNA"
      BY EnListaTerminar
    <3>2. QED
      BY <3>1 DEF EnLista, Colas
  <2>5. Cardinality(EnLista(c)') \in Nat
    BY <2>4, EnListaFinita, FS_Subset, FS_CardinalityType
  <2>6. QED
    BY <2>1, <2>2, <2>3, <2>5, PendientesEs
<1>2. QED
  BY <1>1 DEF ColasAlcanzan

LEMMA AlcanzanLargoAgregar ==
  ASSUME Tipos, Alcanzan, vivo, LargoAgregar
  PROVE  Alcanzan'
<1>1. UNCHANGED <<sem, colaExit, ioCola, ioSem, ioPc>>
  BY DEF LargoAgregar, ioVars
<1>2. pc["largo"] = "agregar" /\ pc'["largo"] = "mostrar" /\ pc'["despacho"] = pc["despacho"]
  BY DEF LargoAgregar, En, Ir, Tipos, TypeOK, HilosTypeOK, Hilos
<1>3. local["largo"] \in Pids /\ listado["largo"].lista = "NINGUNA"
  BY <1>2 DEF Tipos, Punteros, Alcanzan, Listando
<1>4. /\ Listar("largo", "READY")
      /\ cola' = [cola EXCEPT !["READY"] = Append(@, local["largo"])]
  BY DEF LargoAgregar
<1>5. ColasAlcanzan'
  <2>1. \A c \in Colas : PorSacar(c)' = PorSacar(c)
    BY <1>2 DEF PorSacar, Uno
  <2>2. QED
    BY <1>1, <1>3, <1>4, <2>1, LectoresHay, ColasAlListar DEF Alcanzan
<1>6. Listando'
  <2>1. /\ \A k \in Lectores \ {"largo"} : listado'[k] = listado[k]
        /\ listado'["largo"].lista = "READY"
    BY <1>3, <1>4, LectoresHay, EnListaListar DEF Colas
  <2>2. QED
    BY <1>1, <1>2, <2>1, LectoresHay, InterfacesAparte DEF Alcanzan, Listando
<1>7. QED
  BY <1>1, <1>5, <1>6, IoQuieta DEF Alcanzan, ExitAlcanza

LEMMA AlcanzanLargoMostrar ==
  ASSUME Tipos, Alcanzan, vivo, LargoMostrar
  PROVE  Alcanzan'
<1>1. UNCHANGED <<cola, colaExit, ioCola, ioSem, ioPc>>
  BY DEF LargoMostrar, ioVars
<1>2. pc["largo"] = "mostrar" /\ pc'["largo"] = "espera" /\ pc'["despacho"] = pc["despacho"]
  BY DEF LargoMostrar, En, Ir, Tipos, TypeOK, HilosTypeOK, Hilos
<1>3. /\ sem'["READY"] = sem["READY"] + 1
      /\ \A s \in {"NEW", "AUX_READY", "EXIT"} : sem'[s] = sem[s]
  BY NombresSem DEF LargoMostrar, Tipos, TypeOK, SemTypeOK
<1>4. TerminarListado("largo")
  BY DEF LargoMostrar
<1>5. ColasAlcanzan'
  <2>1. ASSUME NEW c \in Colas PROVE Pendientes(c)' >= Len(cola'[c])
    <3>1. Cardinality(EnLista(c)) = Cardinality(EnLista(c)') + Uno(c = listado["largo"].lista)
      BY <1>4, LectoresHay, EnListaTerminar
    <3>2. sem'[c] = IF c = "READY" THEN sem[c] + 1 ELSE sem[c]
      BY <1>3 DEF Colas
    <3>3. Uno(c = listado["largo"].lista) = 0 \/ (c = "READY" /\ Uno(c = listado["largo"].lista) = 1)
      <4>1. listado["largo"].lista \in {"NINGUNA", "READY"} /\ c # "NINGUNA"
        BY DEF Colas, Alcanzan, Listando
      <4>2. CASE c = listado["largo"].lista
        BY <4>1, <4>2 DEF Uno
      <4>3. CASE c # listado["largo"].lista
        BY <4>3 DEF Uno
      <4>4. QED
        BY <4>2, <4>3
    <3>4. Pendientes(c)' = sem'[c] + PorSacar(c)' + Cardinality(EnLista(c)') /\ PorSacar(c)' = PorSacar(c)
      BY <1>2 DEF Pendientes, PorSacar
    <3>5. EnLista(c)' \subseteq EnLista(c)
      <4>1. /\ \A k \in Lectores \ {"largo"} : listado'[k] = listado[k]
            /\ listado'["largo"].lista = "NINGUNA"
        BY <1>4, LectoresHay, EnListaTerminar
      <4>2. QED
        BY <4>1 DEF EnLista, Colas
    <3>6. Cardinality(EnLista(c)') \in Nat /\ Pendientes(c) >= Len(cola[c])
      BY <3>5, EnListaFinita, FS_Subset, FS_CardinalityType DEF Alcanzan, ColasAlcanzan
    <3>7. PICK a, m, k, n, u \in Nat :
            /\ a = sem[c] /\ m = PorSacar(c) /\ k = Cardinality(EnLista(c)') /\ n = Len(cola[c])
            /\ u = Uno(c = listado["largo"].lista)
      BY <3>3, <3>6, PendientesEs
    <3>8. a + m + (k + u) >= n
      BY <3>1, <3>6, <3>7, PendientesEs
    <3>9. Pendientes(c)' = (IF c = "READY" THEN a + 1 ELSE a) + m + k /\ Len(cola'[c]) = n
      BY <1>1, <3>2, <3>4, <3>7
    <3>10. u = 0 \/ (c = "READY" /\ u = 1)
      BY <3>3, <3>7
    <3>11. CASE c = "READY"
      <4>1. Pendientes(c)' = a + 1 + m + k /\ u <= 1
        BY <3>9, <3>10, <3>11
      <4>2. a + 1 + m + k >= n
        BY <3>8, <4>1
      <4>3. QED
        BY <3>9, <4>1, <4>2
    <3>12. CASE c # "READY"
      <4>1. Pendientes(c)' = a + m + k /\ u = 0
        BY <3>9, <3>10, <3>12
      <4>2. a + m + k >= n
        BY <3>8, <4>1
      <4>3. QED
        BY <3>9, <4>1, <4>2
    <3>13. QED
      BY <3>11, <3>12
  <2>2. QED
    BY <2>1 DEF ColasAlcanzan
<1>6. Listando'
  <2>1. /\ \A k \in Lectores \ {"largo"} : listado'[k] = listado[k]
        /\ listado'["largo"].lista = "NINGUNA"
    BY <1>4, LectoresHay, EnListaTerminar DEF Colas
  <2>2. QED
    BY <1>1, <1>2, <2>1, LectoresHay, InterfacesAparte DEF Alcanzan, Listando
<1>7. QED
  BY <1>1, <1>3, <1>5, <1>6, IoQuieta DEF Alcanzan, ExitAlcanza

LEMMA AlcanzanEndProcess ==
  ASSUME Tipos, Alcanzan, EndProcess
  PROVE  Alcanzan'
<1>1. UNCHANGED <<cola, listado, pc, ioCola, ioSem, ioPc>>
  BY DEF EndProcess, hilos, ioVars
<1>2. sem'["EXIT"] = sem["EXIT"] - 1 /\ \A c \in Colas : sem'[c] = sem[c]
  BY NombresSem DEF EndProcess, Tipos, TypeOK, SemTypeOK, Colas
<1>3. Len(colaExit') = Len(colaExit) - 1
  BY ListRemoveTipo DEF EndProcess, Tipos, TypeOK, ListasTypeOK
<1>4. ColasAlcanzan'
  BY <1>1, <1>2, EnListaMarco, ColasQuietas DEF Alcanzan
<1>5. QED
  BY <1>1, <1>2, <1>3, <1>4, IoQuieta, ListandoQuieto DEF Alcanzan, ExitAlcanza

(* The short-term planner and the quantum *)
LEMMA AlcanzanCortoResto ==
  ASSUME Tipos, Alcanzan, CortoElegir \/ CortoCpu \/ CortoEjecutar \/ InterrupcionQuantum \/ CortoUnir \/ Quantum
  PROVE  Alcanzan'
<1>1. SemTypeOK /\ HilosTypeOK
  BY DEF Tipos, TypeOK
<1>2. CASE CortoElegir \/ CortoCpu
  <2>1. UNCHANGED <<cola, colaExit, listado, ioCola, ioSem, ioPc>>
    BY <1>2 DEF CortoElegir, CortoCpu, listas, ioVars
  <2>2. \A s \in Colas \cup {"EXIT"} : sem'[s] = sem[s]
    BY <1>1, <1>2, NombresSem DEF CortoElegir, CortoCpu, Esperar, SemTypeOK, Colas
  <2>3. pc'["largo"] = pc["largo"] /\ pc'["despacho"] = pc["despacho"]
    BY <1>1, <1>2 DEF CortoElegir, CortoCpu, Ir, HilosTypeOK, Hilos
  <2>4. QED
    BY <2>1, <2>2, <2>3, AlcanzanMarco DEF Alcanzan, Listando
<1>3. CASE CortoEjecutar
  <2>1. UNCHANGED <<sem, cola, colaExit, listado, ioCola, ioSem, ioPc>>
    BY <1>3 DEF CortoEjecutar, ioVars
  <2>2. pc'["largo"] = pc["largo"] /\ pc'["despacho"] = pc["despacho"]
    BY <1>1, <1>3 DEF CortoEjecutar, Ir, HilosTypeOK, Hilos
  <2>3. QED
    BY <2>1, <2>2, AlcanzanMarco DEF Alcanzan, Listando
<1>4. CASE QuantumCrear \/ QuantumVencer
  <2>1. UNCHANGED <<sem, cola, colaExit, listado, ioCola, ioSem, ioPc>>
    BY <1>4 DEF QuantumCrear, QuantumVencer, listas, ioVars
  <2>2. pc'["largo"] = pc["largo"] /\ pc'["despacho"] = pc["despacho"]
    BY <1>1, <1>4 DEF QuantumCrear, QuantumVencer, Ir, HilosTypeOK, Hilos
  <2>3. QED
    BY <2>1, <2>2, AlcanzanMarco DEF Alcanzan, Listando
<1>5. CASE CortoUnir
  <2>1. UNCHANGED <<sem, cola, colaExit, listado, ioCola, ioSem, ioPc>>
    BY <1>5 DEF CortoUnir, listas, ioVars
  <2>2. pc'["largo"] = pc["largo"] /\ pc'["despacho"] = pc["despacho"]
    BY <1>1, <1>5 DEF CortoUnir, HilosTypeOK, Hilos
  <2>3. QED
    BY <2>1, <2>2, AlcanzanMarco DEF Alcanzan, Listando
<1>6. CASE InterrupcionQuantum
  <2>0. UNCHANGED <<sem, listas, ioVars>> /\ (UNCHANGED hilos \/ pc' = [pc EXCEPT !.corto = "unir", !.quantum = "crear"])
    BY <1>6, Zenon DEF InterrupcionQuantum
  <2>1. UNCHANGED <<sem, cola, colaExit, listado, ioCola, ioSem, ioPc>>
    BY <2>0 DEF listas, ioVars
  <2>2. pc' = pc \/ pc' = [pc EXCEPT !.corto = "unir", !.quantum = "crear"]
    BY <2>0 DEF hilos
  <2>3. pc'["largo"] = pc["largo"] /\ pc'["despacho"] = pc["despacho"]
    BY <1>1, <2>2 DEF HilosTypeOK, Hilos
  <2>4. QED
    BY <2>1, <2>3, AlcanzanMarco DEF Alcanzan, Listando
<1>7. QED
  BY <1>2, <1>3, <1>4, <1>5, <1>6 DEF Quantum

LEMMA AlcanzanCortoSacar ==
  ASSUME Tipos, Alcanzan, vivo, NEW paso \in {"ready", "aux"}, NEW x \in {"READY", "AUX_READY"},
         CortoSacar(paso, x), Tipos'
  PROVE  Alcanzan'
<1>1. UNCHANGED <<colaExit, ioCola, ioSem, ioPc>>
  BY DEF CortoSacar, ioVars
<1>2. pc'["largo"] = pc["largo"] /\ pc'["despacho"] = pc["despacho"]
  BY DEF CortoSacar, Ir, Tipos, TypeOK, HilosTypeOK, Hilos
<1>3. sem'[x] = sem[x] - 1 /\ \A s \in (Colas \cup {"EXIT"}) \ {x} : sem'[s] = sem[s]
  BY NombresSem DEF CortoSacar, Esperar, Tipos, TypeOK, SemTypeOK, Colas
<1>4. cola \in [Colas -> Seq(Pids)] /\ x \in Colas
  BY DEF Tipos, TypeOK, ListasTypeOK, Colas
<1>5. listado' = listado \/ RomperListados(x)
  BY DEF CortoSacar
<1>6. \A c \in Colas : EnLista(c)' = EnLista(c)
  BY <1>5, EnListaMarco
<1>7. ColasAlcanzan'
  <2>1. ASSUME NEW c \in Colas PROVE Pendientes(c)' >= Len(cola'[c])
    <3>1. Pendientes(c) >= Len(cola[c])
      BY DEF Alcanzan, ColasAlcanzan
    <3>2. CASE c # x
      <4>1. cola'[c] = cola[c]
        BY <1>4, <3>2 DEF CortoSacar
      <4>2. QED
        BY <1>2, <1>3, <1>6, <3>1, <3>2, <4>1 DEF Pendientes
    <3>3. CASE c = x /\ cola[c] = <<>>
      <4>1. cola'[c] = <<>>
        BY <3>3 DEF CortoSacar
      <4>2. QED
        BY <4>1, Vaciada
    <3>4. CASE c = x /\ cola[c] # <<>>
      <4>1. cola'[c] = ListRemove(cola[c])
        BY <1>4, <3>4 DEF CortoSacar
      <4>2. Len(cola'[c]) = Len(cola[c]) - 1
        BY <1>4, <3>4, <4>1, ListRemoveTipo
      <4>3. Pendientes(c)' = sem'[c] + PorSacar(c)' + Cardinality(EnLista(c)') /\ PorSacar(c)' = PorSacar(c)
        BY <1>2 DEF Pendientes, PorSacar
      <4>4. sem'[c] = sem[c] - 1
        BY <1>3, <3>4
      <4>5. PICK a, m, k, n \in Nat :
              a = sem[c] /\ m = PorSacar(c) /\ k = Cardinality(EnLista(c)) /\ n = Len(cola[c])
        BY PendientesEs
      <4>6. a + m + k >= n
        BY <3>1, <4>5, PendientesEs
      <4>7. Pendientes(c)' = a - 1 + m + k /\ Len(cola'[c]) = n - 1
        BY <1>6, <4>2, <4>3, <4>4, <4>5
      <4>8. QED
        BY <4>6, <4>7
    <3>5. QED
      BY <3>2, <3>3, <3>4
  <2>2. QED
    BY <2>1 DEF ColasAlcanzan
<1>8. Listando'
  <2>1. \A l \in Lectores : listado'[l].lista = listado[l].lista
    <3>1. CASE listado' = listado
      BY <3>1
    <3>2. CASE RomperListados(x)
      <4>1. ASSUME NEW l \in Lectores PROVE [listado[l] EXCEPT !.rota = TRUE].lista = listado[l].lista
        BY DEF Tipos, TypeOK, ListasTypeOK, Listados
      <4>2. QED
        BY <3>2, <4>1 DEF RomperListados
    <3>3. QED
      BY <1>5, <3>1, <3>2
  <2>2. QED
    BY <1>1, <1>2, <2>1, LectoresHay DEF Alcanzan, Listando
<1>9. ExitAlcanza'
  BY <1>1, <1>3 DEF Alcanzan, ExitAlcanza, Colas
<1>10. QED
  BY <1>1, <1>7, <1>8, <1>9, IoQuieta DEF Alcanzan

(* The dispatch server *)
LEMMA AlcanzanDespachoResto ==
  ASSUME Tipos, Alcanzan,
         \/ RecibirPcbOSolicitud \/ RecibirInterrumpido \/ Cancelar \/ ActualizarPcbQuantum
         \/ ActualizarPcbFinal \/ Bloquear
  PROVE  Alcanzan'
<1>1. UNCHANGED <<cola, listado, ioCola, ioSem, ioPc>>
  BY DEF RecibirPcbOSolicitud, RecibirInterrumpido, Cancelar, ActualizarPcbQuantum, ActualizarPcbFinal,
         Bloquear, listas, ioVars
<1>2. Len(colaExit') = Len(colaExit)
  BY ReemplazadoTipo
  DEF RecibirPcbOSolicitud, RecibirInterrumpido, Cancelar, ActualizarPcbQuantum, ActualizarPcbFinal,
      Bloquear, listas, ActualizarTabla, Tipos, TypeOK, ListasTypeOK
<1>3. \A s \in Colas \cup {"EXIT"} : sem'[s] = sem[s]
  BY NombresSem
  DEF RecibirPcbOSolicitud, RecibirInterrumpido, Cancelar, ActualizarPcbQuantum, ActualizarPcbFinal,
      Bloquear, Esperar, Publicar, Tipos, TypeOK, SemTypeOK, Colas
<1>4. pc'["largo"] = pc["largo"]
  BY DEF RecibirPcbOSolicitud, RecibirInterrumpido, Cancelar, CancelarQuantum, ActualizarPcbQuantum,
         ActualizarPcbFinal, Bloquear, Terminar, Ir, Tipos, TypeOK, HilosTypeOK, Hilos
<1>5. listado["despacho"].lista = "NINGUNA"
  <2>1. pc["despacho"] # "mostrar"
    BY DEF RecibirPcbOSolicitud, RecibirInterrumpido, RecibirDe, Cancelar, ActualizarPcbQuantum,
           ActualizarPcbFinal, Bloquear, En
  <2>2. QED
    BY <2>1 DEF Alcanzan, Listando
<1>6. QED
  BY <1>1, <1>2, <1>3, <1>4, <1>5, AlcanzanMarco

LEMMA AlcanzanAExit ==
  ASSUME Tipos, Alcanzan, AgregarAExit
  PROVE  Alcanzan'
<1>1. UNCHANGED <<cola, listado, ioCola, ioSem, ioPc>>
  BY DEF AgregarAExit, ioVars
<1>2. pc'["largo"] = pc["largo"] /\ pc["despacho"] = "exit"
  BY DEF AgregarAExit, En, Ir, Tipos, TypeOK, HilosTypeOK, Hilos
<1>3. sem'["EXIT"] = sem["EXIT"] + 1 /\ \A s \in Colas : sem'[s] = sem[s]
  BY NombresSem DEF AgregarAExit, Publicar, Tipos, TypeOK, SemTypeOK, Colas
<1>4. Len(colaExit') = Len(colaExit) + 1
  BY AppendProperties DEF AgregarAExit, Tipos, TypeOK, ListasTypeOK
<1>5. ColasAlcanzan'
  BY <1>1, <1>2, <1>3, EnListaMarco, ColasQuietas DEF Alcanzan
<1>6. QED
  BY <1>1, <1>2, <1>3, <1>4, <1>5, IoQuieta DEF Alcanzan, ExitAlcanza, Listando

LEMMA AlcanzanEncolarBloqueado ==
  ASSUME Tipos, Alcanzan, AgregarProcesoBloqueado
  PROVE  Alcanzan'
<1>1. UNCHANGED <<cola, colaExit, listado, ioPc>>
  BY DEF AgregarProcesoBloqueado, listas
<1>2. pc'["largo"] = pc["largo"] /\ pc["despacho"] = "encolar"
  BY DEF AgregarProcesoBloqueado, Terminar, En, Ir, Tipos, TypeOK, HilosTypeOK, Hilos
<1>3. \A s \in Colas \cup {"EXIT"} : sem'[s] = sem[s]
  BY NombresSem DEF AgregarProcesoBloqueado, Tipos, TypeOK, SemTypeOK, Colas
<1>4. ColasAlcanzan'
  BY <1>1, <1>2, <1>3, EnListaMarco, ColasQuietas DEF Alcanzan
<1>5. IoAlcanza'
  <2>1. mensaje.pid \in Pids
    BY <1>2 DEF Tipos, Punteros, Mensajes
  <2>2. ioCola \in [Interfaces -> Seq(Pids)] /\ ioSem \in [Interfaces -> Nat]
    BY DEF Tipos, TypeOK, IoTypeOK
  <2>3. ASSUME NEW i \in Interfaces PROVE ioSem'[i] + Uno(ioPc'[i] = "obtener") >= Len(ioCola'[i])
    <3>1. /\ ioSem[i] + Uno(ioPc[i] = "obtener") >= Len(ioCola[i])
          /\ Uno(ioPc[i] = "obtener") \in {0, 1} /\ Len(ioCola[i]) \in Nat
      BY <2>2, LenProperties DEF Alcanzan, IoAlcanza, Uno
    <3>2. CASE i = mensaje.interfaz
      <4>1. ioSem'[i] = ioSem[i] + 1 /\ ioCola'[i] = Append(ioCola[i], mensaje.pid)
        BY <2>2, <3>2 DEF AgregarProcesoBloqueado
      <4>2. Len(ioCola'[i]) = Len(ioCola[i]) + 1
        BY <2>1, <2>2, <4>1, AppendProperties
      <4>3. QED
        BY <1>1, <2>2, <3>1, <4>1, <4>2
    <3>3. CASE i # mensaje.interfaz
      BY <1>1, <2>2, <3>1, <3>3 DEF AgregarProcesoBloqueado
    <3>4. QED
      BY <3>2, <3>3
  <2>4. QED
    BY <2>3 DEF IoAlcanza
<1>6. QED
  BY <1>1, <1>2, <1>3, <1>4, <1>5 DEF Alcanzan, ExitAlcanza, Listando

LEMMA AlcanzanExecuteAReady ==
  ASSUME Tipos, Alcanzan, AgregarDeExecuteAReady
  PROVE  Alcanzan'
<1>1. UNCHANGED <<colaExit, ioCola, ioSem, ioPc>>
  BY DEF AgregarDeExecuteAReady, ioVars
<1>2. pc["despacho"] = "aReady" /\ pc'["despacho"] = "mostrar" /\ pc'["largo"] = pc["largo"]
  BY DEF AgregarDeExecuteAReady, En, Ir, Tipos, TypeOK, HilosTypeOK, Hilos
<1>3. \A s \in Colas \cup {"EXIT"} : sem'[s] = sem[s]
  BY NombresSem DEF AgregarDeExecuteAReady, Esperar, Tipos, TypeOK, SemTypeOK, Colas
<1>4. mensaje.pid \in Pids /\ listado["despacho"].lista = "NINGUNA"
  BY <1>2 DEF Tipos, Punteros, Mensajes, Alcanzan, Listando
<1>5. PICK x \in {"READY", "AUX_READY"} :
        Listar("despacho", x) /\ cola' = [cola EXCEPT ![x] = Append(@, mensaje.pid)]
  BY DEF AgregarDeExecuteAReady, ColaReadyDe
<1>6. ColasAlcanzan'
  <2>1. \A c \in Colas : sem'[c] = sem[c] /\ PorSacar(c)' = PorSacar(c)
    BY <1>2, <1>3 DEF PorSacar
  <2>2. QED
    BY <1>4, <1>5, <2>1, LectoresHay, ColasAlListar DEF Alcanzan
<1>7. Listando'
  <2>1. /\ \A k \in Lectores \ {"despacho"} : listado'[k] = listado[k]
        /\ listado'["despacho"].lista = x
    BY <1>4, <1>5, LectoresHay, EnListaListar DEF Colas
  <2>2. QED
    BY <1>1, <1>2, <2>1, LectoresHay, InterfacesAparte DEF Alcanzan, Listando
<1>8. QED
  BY <1>1, <1>3, <1>6, <1>7, IoQuieta DEF Alcanzan, ExitAlcanza

LEMMA AlcanzanMostrarExecute ==
  ASSUME Tipos, Alcanzan, MostrarExecuteAReady
  PROVE  Alcanzan'
<1>1. UNCHANGED <<cola, colaExit, ioCola, ioSem, ioPc>>
  BY DEF MostrarExecuteAReady, ioVars
<1>2. pc'["largo"] = pc["largo"]
  BY DEF MostrarExecuteAReady, Terminar, Ir, Tipos, TypeOK, HilosTypeOK, Hilos
<1>3. listado["despacho"].lista \in {"NINGUNA", "READY", "AUX_READY"}
  BY LectoresHay, ListaLeida
<1>4. /\ sem'["EXIT"] = sem["EXIT"]
      /\ \A c \in Colas : sem'[c] = IF c = listado["despacho"].lista THEN sem[c] + 1 ELSE sem[c]
  BY <1>3, NombresSem DEF MostrarExecuteAReady, Tipos, TypeOK, SemTypeOK, Colas
<1>5. TerminarListado("despacho")
  BY DEF MostrarExecuteAReady
<1>6. ColasAlcanzan'
  <2>1. ASSUME NEW c \in Colas
        PROVE  sem'[c] = sem[c] + Uno(c = listado["despacho"].lista) /\ PorSacar(c)' = PorSacar(c)
    BY <1>2, <1>4, PendientesEs DEF PorSacar, Uno
  <2>2. QED
    BY <1>1, <1>5, <2>1, LectoresHay, ColasAlMostrar DEF Alcanzan
<1>7. Listando'
  <2>1. /\ \A k \in Lectores \ {"despacho"} : listado'[k] = listado[k]
        /\ listado'["despacho"].lista = "NINGUNA"
    BY <1>5, LectoresHay, EnListaTerminar DEF Colas
  <2>2. QED
    BY <1>1, <1>2, <2>1, LectoresHay, InterfacesAparte DEF Alcanzan, Listando
<1>8. QED
  BY <1>1, <1>4, <1>6, <1>7, IoQuieta DEF Alcanzan, ExitAlcanza

(* The interfaces *)
LEMMA AlcanzanIO ==
  ASSUME Tipos, Alcanzan, NEW i \in Interfaces, IoEsperar(i) \/ IoObtener(i) \/ IoResponder(i)
  PROVE  Alcanzan'
<1>1. UNCHANGED <<sem, cola, colaExit, listado, pc>>
  BY DEF IoEsperar, IoObtener, IoResponder, listas, hilos
<1>2. ioCola \in [Interfaces -> Seq(Pids)] /\ ioSem \in [Interfaces -> Nat] /\ DOMAIN ioPc = Interfaces
  BY DEF Tipos, TypeOK, IoTypeOK
<1>3. ColasAlcanzan'
  BY <1>1, EnListaMarco, ColasQuietas DEF Alcanzan
<1>4. IoAlcanza'
  <2>1. ASSUME NEW j \in Interfaces \ {i} PROVE ioSem'[j] + Uno(ioPc'[j] = "obtener") >= Len(ioCola'[j])
    <3>1. ioSem'[j] = ioSem[j] /\ ioPc'[j] = ioPc[j] /\ ioCola'[j] = ioCola[j]
      BY <1>2, <2>1 DEF IoEsperar, IoObtener, IoResponder, IrIO
    <3>2. QED
      BY <2>1, <3>1 DEF Alcanzan, IoAlcanza
  <2>2. PICK a, u, n \in Nat : /\ a = ioSem[i] /\ n = Len(ioCola[i]) /\ a + u >= n
                              /\ u = Uno(ioPc[i] = "obtener")
    <3>1. ioSem[i] \in Nat /\ Len(ioCola[i]) \in Nat /\ Uno(ioPc[i] = "obtener") \in Nat
      BY <1>2, LenProperties DEF Uno
    <3>2. QED
      BY <3>1 DEF Alcanzan, IoAlcanza
  <2>3. ioPc[i] # "obtener" => u = 0
    BY <2>2 DEF Uno
  <2>4. PICK v \in {0, 1} : v = Uno(ioPc'[i] = "obtener") /\ (ioPc'[i] = "obtener" => v = 1)
    BY DEF Uno
  <2>5. ASSUME IoEsperar(i) PROVE ioSem'[i] + v >= Len(ioCola'[i])
    <3>1. /\ ioPc[i] = "esperar" /\ ioSem[i] > 0 /\ ioSem'[i] = ioSem[i] - 1 /\ ioCola' = ioCola
          /\ ioPc'[i] = IF ioCola[i] = <<>> THEN "fin" ELSE "obtener"
      BY <1>2, <2>5 DEF IoEsperar, IrIO
    <3>2. a > 0 /\ u = 0 /\ ioSem'[i] = a - 1 /\ Len(ioCola'[i]) = n
      BY <2>2, <2>3, <3>1
    <3>3. n = 0 \/ v = 1
      BY <2>2, <2>4, <3>1
    <3>4. QED
      BY <2>2, <2>4, <3>2, <3>3
  <2>6. ASSUME IoObtener(i) PROVE ioSem'[i] + v >= Len(ioCola'[i])
    <3>1. ioPc[i] = "obtener" /\ ioSem'[i] = a
      BY <2>2, <2>6 DEF IoObtener
    <3>2. Len(ioCola'[i]) = 0 \/ (n > 0 /\ Len(ioCola'[i]) = n - 1)
      <4>1. CASE ioCola[i] = <<>>
        BY <2>6, <4>1 DEF IoObtener
      <4>2. CASE ioCola[i] # <<>>
        <5>1. ioCola'[i] = ListRemove(ioCola[i])
          BY <1>2, <2>6, <4>2 DEF IoObtener
        <5>2. QED
          BY <1>2, <2>2, <4>2, <5>1, ListRemoveTipo, EmptySeq
      <4>3. QED
        BY <4>1, <4>2
    <3>3. u = 1
      BY <2>2, <3>1 DEF Uno
    <3>4. CASE Len(ioCola'[i]) = 0
      BY <2>2, <2>4, <3>1, <3>4
    <3>5. CASE Len(ioCola'[i]) = n - 1
      <4>1. a + 1 >= n /\ v \in Nat
        BY <2>2, <2>4, <3>3
      <4>2. a + v >= n - 1
        BY <4>1
      <4>3. QED
        BY <3>1, <3>5, <4>2
    <3>6. QED
      BY <3>2, <3>4, <3>5
  <2>7. ASSUME IoResponder(i) PROVE ioSem'[i] + v >= Len(ioCola'[i])
    <3>1. u = 0 /\ ioSem'[i] = a /\ Len(ioCola'[i]) = n
      BY <2>2, <2>3, <2>7 DEF IoResponder
    <3>2. QED
      BY <2>2, <2>4, <3>1
  <2>8. QED
    BY <2>1, <2>4, <2>5, <2>6, <2>7 DEF IoAlcanza
<1>5. Listando'
  <2>1. ASSUME NEW j \in Interfaces, listado'[j].lista # "NINGUNA" PROVE ioPc'[j] = "mostrar"
    <3>1. ioPc[j] = "mostrar"
      BY <1>1, <2>1 DEF Alcanzan, Listando
    <3>2. j # i
      BY <3>1 DEF IoEsperar, IoObtener, IoResponder
    <3>3. QED
      BY <1>2, <3>1, <3>2 DEF IoEsperar, IoObtener, IoResponder, IrIO
  <2>2. QED
    BY <1>1, <2>1 DEF Alcanzan, Listando
<1>6. QED
  BY <1>1, <1>3, <1>4, <1>5 DEF Alcanzan, ExitAlcanza

LEMMA AlcanzanBlockedAReady ==
  ASSUME Tipos, Alcanzan, NEW i \in Interfaces, AgregarDeBlockedAReady(i)
  PROVE  Alcanzan'
<1>1. UNCHANGED <<colaExit, pc, ioCola, ioSem>>
  BY DEF AgregarDeBlockedAReady, hilos
<1>2. /\ ioPc[i] = "agregar" /\ ioPc'[i] = "mostrar"
      /\ \A j \in Interfaces \ {i} : ioPc'[j] = ioPc[j]
  BY DEF AgregarDeBlockedAReady, IrIO, Tipos, TypeOK, IoTypeOK
<1>3. \A s \in Colas \cup {"EXIT"} : sem'[s] = sem[s]
  BY NombresSem DEF AgregarDeBlockedAReady, Esperar, Tipos, TypeOK, SemTypeOK, Colas
<1>4. ioPid[i] \in Pids /\ listado[i].lista = "NINGUNA" /\ i \in Lectores
  BY <1>2, LectoresHay DEF Tipos, Punteros, Alcanzan, Listando
<1>5. PICK x \in {"READY", "AUX_READY"} :
        Listar(i, x) /\ cola' = [cola EXCEPT ![x] = Append(@, ioPid[i])]
  BY DEF AgregarDeBlockedAReady, ColaReadyDe
<1>6. ColasAlcanzan'
  <2>1. \A c \in Colas : sem'[c] = sem[c] /\ PorSacar(c)' = PorSacar(c)
    BY <1>1, <1>3 DEF PorSacar
  <2>2. QED
    BY <1>4, <1>5, <2>1, ColasAlListar DEF Alcanzan
<1>7. Listando'
  <2>1. /\ \A k \in Lectores \ {i} : listado'[k] = listado[k]
        /\ listado'[i].lista = x
    BY <1>4, <1>5, EnListaListar DEF Colas
  <2>2. QED
    BY <1>1, <1>2, <2>1, LectoresHay, InterfacesAparte DEF Alcanzan, Listando
<1>8. IoAlcanza'
  <2>1. \A j \in Interfaces : ioPc'[j] = "obtener" <=> ioPc[j] = "obtener"
    BY <1>2
  <2>2. QED
    BY <1>1, <2>1 DEF Alcanzan, IoAlcanza, Uno
<1>9. QED
  BY <1>1, <1>3, <1>6, <1>7, <1>8 DEF Alcanzan, ExitAlcanza

LEMMA AlcanzanMostrarBlocked ==
  ASSUME Tipos, Alcanzan, NEW i \in Interfaces, MostrarBlockedAReady(i)
  PROVE  Alcanzan'
<1>1. UNCHANGED <<cola, colaExit, pc, ioCola, ioSem>>
  BY DEF MostrarBlockedAReady, hilos
<1>2. /\ ioPc[i] = "mostrar" /\ ioPc'[i] = "esperar"
      /\ \A j \in Interfaces \ {i} : ioPc'[j] = ioPc[j]
  BY DEF MostrarBlockedAReady, IrIO, Tipos, TypeOK, IoTypeOK
<1>3. listado[i].lista \in {"NINGUNA", "READY", "AUX_READY"} /\ i \in Lectores
  BY LectoresHay, ListaLeida
<1>4. /\ sem'["EXIT"] = sem["EXIT"]
      /\ \A c \in Colas : sem'[c] = IF c = listado[i].lista THEN sem[c] + 1 ELSE sem[c]
  BY <1>3, NombresSem DEF MostrarBlockedAReady, Tipos, TypeOK, SemTypeOK, Colas
<1>5. TerminarListado(i)
  BY DEF MostrarBlockedAReady
<1>6. ColasAlcanzan'
  <2>1. ASSUME NEW c \in Colas
        PROVE  sem'[c] = sem[c] + Uno(c = listado[i].lista) /\ PorSacar(c)' = PorSacar(c)
    BY <1>1, <1>4, PendientesEs DEF PorSacar, Uno
  <2>2. QED
    BY <1>1, <1>3, <1>5, <2>1, ColasAlMostrar DEF Alcanzan
<1>7. Listando'
  <2>1. /\ \A k \in Lectores \ {i} : listado'[k] = listado[k]
        /\ listado'[i].lista = "NINGUNA"
    BY <1>3, <1>5, EnListaTerminar DEF Colas
  <2>2. QED
    BY <1>1, <1>2, <2>1, LectoresHay, InterfacesAparte DEF Alcanzan, Listando
<1>8. IoAlcanza'
  <2>1. \A j \in Interfaces : ioPc'[j] = "obtener" <=> ioPc[j] = "obtener"
    BY <1>2
  <2>2. QED
    BY <1>1, <2>1 DEF Alcanzan, IoAlcanza, Uno
<1>9. QED
  BY <1>1, <1>4, <1>6, <1>7, <1>8 DEF Alcanzan, ExitAlcanza

LEMMA AlcanzanPaso == Tipos /\ Alcanzan /\ [Next]_vars => Alcanzan'
<1> SUFFICES ASSUME Tipos, Alcanzan, [Next]_vars PROVE Alcanzan'
  OBVIOUS
<1>1. CASE UNCHANGED vars
  BY <1>1, AlcanzanCpu DEF vars
<1>2. CASE vivo /\ Cpu
  BY <1>2, AlcanzanCpu DEF Cpu
<1>3. CASE vivo /\ Kernel
  <2>1. CASE Consola \/ (\E s \in SemPlanes : DetenerCola(s)) \/ (\E k \in Cambios : Cambio(k))
    BY <1>3, <2>1, AlcanzanGestion, AlcanzanIniciar, AlcanzanEliminar, AlcanzanEncolar DEF Consola
  <2>2. CASE LargoPlazo \/ EndProcess
    BY <1>3, <2>2, AlcanzanLargoEsperar, AlcanzanLargoSacar, AlcanzanLargoAgregar, AlcanzanLargoMostrar,
       AlcanzanEndProcess DEF LargoPlazo
  <2>3. CASE CortoPlazo \/ Quantum
    <3>1. Tipos'
      BY TiposPaso
    <3>2. QED
      BY <1>3, <2>3, <3>1, AlcanzanCortoResto, AlcanzanCortoSacar DEF CortoPlazo
  <2>4. CASE Despacho
    BY <2>4, AlcanzanDespachoResto, AlcanzanAExit, AlcanzanEncolarBloqueado, AlcanzanExecuteAReady,
       AlcanzanMostrarExecute DEF Despacho
  <2>5. CASE \E i \in Interfaces : HiloIO(i)
    BY <2>5, AlcanzanIO, AlcanzanBlockedAReady, AlcanzanMostrarBlocked DEF HiloIO
  <2>6. QED
    BY <1>3, <2>1, <2>2, <2>3, <2>4, <2>5 DEF Kernel
<1>4. QED
  BY <1>1, <1>2, <1>3 DEF Next

LEMMA AlcanzanSiempre == Spec => [](Tipos /\ Alcanzan)
  BY TiposInicial, TiposPaso, AlcanzanInicial, AlcanzanPaso, PTL DEF Spec

(* No process is left in a list whose semaphore will not be posted for it,  *)
(* with any algorithm, however many FINALIZAR_PROCESO take others out of the *)
(* lists at any moment.                                                      *)
THEOREM NingunoOlvidado == Spec => []UnidadesAlcanzan
<1>1. Alcanzan => UnidadesAlcanzan
  BY DEF Alcanzan, ColasAlcanzan, ExitAlcanza, IoAlcanza, PendientesIo, UnidadesAlcanzan
<1>2. QED
  BY <1>1, AlcanzanSiempre, PTL

-----------------------------------------------------------------------------
(* The other way round: no list has more units than elements but for those   *)
(* that FINALIZAR_PROCESO takes out.  A step that keeps to it does not make   *)
(* the units of a list grow more than the list.                              *)

ColasQuedan == \A c \in Colas : Pendientes(c)' + Len(cola[c]) <= Pendientes(c) + Len(cola'[c])
IoQuedan == \A i \in Interfaces : PendientesIo(i)' + Len(ioCola[i]) <= PendientesIo(i) + Len(ioCola'[i])

(* The long-term planner only posts SEM_READY for the list it has noted. *)
Apuntado == pc["largo"] = "mostrar" => listado["largo"].lista = "READY"

Quedan == ColasQuedan /\ IoQuedan /\ Eliminaciones' >= Eliminaciones

Contables ==
  /\ \A c \in Colas : Pendientes(c) \in Nat /\ Len(cola[c]) \in Nat
  /\ \A i \in Interfaces : PendientesIo(i) \in Nat /\ Len(ioCola[i]) \in Nat
  /\ Eliminaciones \in Int

LEMMA ContablesHay == Tipos => Contables
<1> SUFFICES ASSUME Tipos PROVE Contables
  OBVIOUS
<1>1. \A c \in Colas : Pendientes(c) \in Nat /\ Len(cola[c]) \in Nat
  BY PendientesTipo
<1>2. \A i \in Interfaces : PendientesIo(i) \in Nat /\ Len(ioCola[i]) \in Nat
  BY LenProperties DEF PendientesIo, Uno, Tipos, TypeOK, IoTypeOK
<1>3. Eliminaciones \in Int
  BY CotasAssumption DEF Eliminaciones, Uno, Tipos, TypeOK, GestionTypeOK
<1>4. QED
  BY <1>1, <1>2, <1>3 DEF Contables

LEMMA ContablesPrima == Tipos' => Contables'
  BY ContablesHay, PTL

(* What a step that leaves the lists alone keeps *)
LEMMA ColasQuedanMarco ==
  ASSUME Tipos, UNCHANGED cola, UNCHANGED listado \/ \E x : RomperListados(x),
         \A c \in Colas : sem'[c] = sem[c] /\ PorSacar(c)' = PorSacar(c)
  PROVE  ColasQuedan
<1>1. ASSUME NEW c \in Colas PROVE Pendientes(c)' + Len(cola[c]) <= Pendientes(c) + Len(cola'[c])
  <2>1. Pendientes(c)' = Pendientes(c)
    BY EnListaMarco DEF Pendientes, PorSacar
  <2>2. QED
    BY <2>1, PendientesTipo
<1>2. QED
  BY <1>1 DEF ColasQuedan

LEMMA IoQuedanMarco ==
  ASSUME Tipos, UNCHANGED <<ioCola, ioSem>>, \A i \in Interfaces : ioPc'[i] = "obtener" <=> ioPc[i] = "obtener"
  PROVE  IoQuedan
<1>1. ASSUME NEW i \in Interfaces PROVE PendientesIo(i)' + Len(ioCola[i]) <= PendientesIo(i) + Len(ioCola'[i])
  <2>1. PendientesIo(i)' = PendientesIo(i)
    BY DEF PendientesIo, Uno
  <2>2. QED
    BY <2>1, ContablesHay DEF Contables
<1>2. QED
  BY <1>1 DEF IoQuedan

LEMMA EliminacionesMarco ==
  ASSUME Tipos, UNCHANGED finalizaciones, pc'["consola"] = pc["consola"]
  PROVE  Eliminaciones' >= Eliminaciones
<1>1. Eliminaciones' = Eliminaciones
  BY DEF Eliminaciones
<1>2. QED
  BY <1>1, ContablesHay DEF Contables

LEMMA ApuntadoMarco ==
  ASSUME Tipos, Apuntado, UNCHANGED listado \/ \E x : RomperListados(x), pc'["largo"] = pc["largo"]
  PROVE  Apuntado'
<1>1. [listado["largo"] EXCEPT !.rota = TRUE].lista = listado["largo"].lista
  BY LectoresHay DEF Tipos, TypeOK, ListasTypeOK, Listados
<1>2. listado'["largo"].lista = listado["largo"].lista
  BY <1>1, LectoresHay DEF RomperListados
<1>3. QED
  BY <1>2 DEF Apuntado

LEMMA QuedanMarco ==
  ASSUME Tipos, Apuntado, UNCHANGED <<cola, listado, ioCola, ioSem, ioPc, finalizaciones>>,
         \A c \in Colas : sem'[c] = sem[c], pc'["largo"] = pc["largo"], pc'["consola"] = pc["consola"]
  PROVE  Quedan /\ Apuntado'
<1>1. \A c \in Colas : PorSacar(c)' = PorSacar(c)
  BY DEF PorSacar
<1>2. QED
  BY <1>1, ColasQuedanMarco, IoQuedanMarco, EliminacionesMarco, ApuntadoMarco DEF Quedan

LEMMA QuedanCpu ==
  ASSUME Tipos, Apuntado, UNCHANGED kernelVars
  PROVE  Quedan /\ Apuntado'
<1>1. UNCHANGED <<sem, cola, listado, pc, ioCola, ioSem, ioPc, finalizaciones>>
  BY DEF kernelVars, listas, hilos, ioVars, gestionVars, consolaVars
<1>2. QED
  BY <1>1, QuedanMarco

(* The console *)
LEMMA QuedanGestion ==
  ASSUME Tipos, Apuntado,
         \/ ConsolaTrabada \/ DetenerPlanificacion \/ IniciarPlanificacion
         \/ \E k \in Cambios, g \in Grados : CambiarGrado(k, g)
         \/ \E p \in Pids : FinalizarBuscar(p)
         \/ FinalizarVerificar \/ FinalizarComparar \/ FinalizarEncolar
         \/ \E s \in SemPlanes : DetenerCola(s)
         \/ \E k \in Cambios : Cambio(k)
  PROVE  Quedan /\ Apuntado'
<1>1. UNCHANGED <<cola, listado, ioCola, ioSem, ioPc>>
  BY DEF ConsolaTrabada, DetenerPlanificacion, IniciarPlanificacion, CambiarGrado, FinalizarBuscar,
         FinalizarVerificar, FinalizarComparar, FinalizarEncolar, DetenerCola, Cambio, CambioTomar,
         CambioAjustar, CambioTerminar, listas, ioVars
<1>2. \A c \in Colas : sem'[c] = sem[c]
  <2>1. /\ SemPlanes \cup {"ORDEN", "MULTIPROGRAMACION"} \subseteq Semaforos \ (Colas \cup {"EXIT"})
        /\ Colas \cup {"EXIT"} \subseteq Semaforos \ SemPlanes
    BY DEF Semaforos, SemPlanes, Colas
  <2>2. CASE UNCHANGED sem
    BY <2>2
  <2>3. CASE \E s \in SemPlanes \cup {"ORDEN", "MULTIPROGRAMACION"} : Esperar(s) \/ Publicar(s)
    BY <2>1, <2>3, OtroSemaforo
  <2>4. CASE sem' = [s \in Semaforos |-> IF s \in SemPlanes THEN sem[s] + 1 ELSE sem[s]]
    BY <2>1, <2>4
  <2>5. CASE Publicar("EXIT")
    BY <2>5, NombresSem DEF Publicar, Tipos, TypeOK, SemTypeOK, Colas
  <2>6. QED
    BY <2>2, <2>3, <2>4, <2>5
    DEF ConsolaTrabada, DetenerPlanificacion, IniciarPlanificacion, CambiarGrado, FinalizarBuscar,
        FinalizarVerificar, FinalizarComparar, FinalizarEncolar, DetenerCola, Cambio, CambioTomar,
        CambioAjustar, CambioTerminar
<1>3. pc'["largo"] = pc["largo"]
  <2>1. UNCHANGED pc \/ \E s : pc' = [pc EXCEPT !["consola"] = s]
    BY DEF ConsolaTrabada, DetenerPlanificacion, IniciarPlanificacion, CambiarGrado, FinalizarBuscar,
           FinalizarVerificar, FinalizarComparar, FinalizarEncolar, DetenerCola, Cambio, CambioTomar,
           CambioAjustar, CambioTerminar, Ir, hilos
  <2>2. QED
    BY <2>1 DEF Tipos, TypeOK, HilosTypeOK, Hilos
<1>4. Eliminaciones' >= Eliminaciones
  <2>1. pc \in [Hilos -> Pasos] /\ "consola" \in Hilos /\ finalizaciones \in Int
    BY CotasAssumption DEF Hilos, Tipos, TypeOK, HilosTypeOK, GestionTypeOK
  <2>2. CASE \E p \in Pids : FinalizarBuscar(p)
    <3>1. /\ pc["consola"] = "listo" /\ finalizaciones' = finalizaciones + 1
          /\ UNCHANGED pc \/ pc' = [pc EXCEPT !["consola"] = "verificar"]
      BY <2>2 DEF FinalizarBuscar, En, Ir, hilos
    <3>2. QED
      BY <2>1, <3>1 DEF Eliminaciones, Uno
  <2>3. CASE FinalizarVerificar \/ FinalizarComparar
    <3>1. UNCHANGED finalizaciones /\ pc["consola"] \in {"verificar", "comparar"}
      BY <2>3 DEF FinalizarVerificar, FinalizarComparar, En, gestionVars, consolaVars
    <3>2. QED
      BY <2>1, <3>1 DEF Eliminaciones, Uno
  <2>4. CASE FinalizarEncolar
    <3>1. UNCHANGED finalizaciones /\ pc["consola"] = "encolar" /\ pc'["consola"] = "listo"
      BY <2>1, <2>4 DEF FinalizarEncolar, En, Ir, gestionVars, consolaVars
    <3>2. QED
      BY <2>1, <3>1 DEF Eliminaciones, Uno
  <2>5. CASE ConsolaTrabada
    <3>1. UNCHANGED finalizaciones /\ pc["consola"] = "listo" /\ pc'["consola"] = "trabada"
      BY <2>1, <2>5 DEF ConsolaTrabada, En, Ir, gestionVars, consolaVars
    <3>2. QED
      BY <2>1, <3>1 DEF Eliminaciones, Uno
  <2>6. CASE \/ DetenerPlanificacion \/ IniciarPlanificacion
             \/ \E k \in Cambios, g \in Grados : CambiarGrado(k, g)
             \/ \E s \in SemPlanes : DetenerCola(s)
             \/ \E k \in Cambios : Cambio(k)
    <3>1. UNCHANGED <<finalizaciones, pc>>
      BY <2>6 DEF DetenerPlanificacion, IniciarPlanificacion, CambiarGrado, DetenerCola, Cambio,
                  CambioTomar, CambioAjustar, CambioTerminar, hilos, consolaVars
    <3>2. QED
      BY <3>1, EliminacionesMarco
  <2>7. QED
    BY <2>2, <2>3, <2>4, <2>5, <2>6
<1>5. \A c \in Colas : PorSacar(c)' = PorSacar(c)
  BY <1>3 DEF PorSacar
<1>6. QED
  BY <1>1, <1>2, <1>3, <1>4, <1>5, ColasQuedanMarco, IoQuedanMarco, ApuntadoMarco DEF Quedan

LEMMA QuedanIniciar ==
  ASSUME Tipos, Apuntado, IniciarProceso
  PROVE  Quedan /\ Apuntado'
<1>1. /\ UNCHANGED <<listado, pc, ioCola, ioSem, ioPc, finalizaciones>>
      /\ cola' = [cola EXCEPT !["NEW"] = Append(@, identificador)]
  BY DEF IniciarProceso, hilos, ioVars
<1>2. identificador \in Pids
  <2>1. identificador \in 1..(MaxPid + 1) /\ identificador <= MaxPid
    BY DEF IniciarProceso, Tipos, TypeOK, GestionTypeOK
  <2>2. QED
    BY <2>1, MaxPidAssumption
<1>3. sem' = [sem EXCEPT !["NEW"] = @ + 1] /\ sem \in [Semaforos -> Nat] /\ Colas \subseteq Semaforos
  BY NombresSem DEF IniciarProceso, Publicar, Tipos, TypeOK, SemTypeOK, Colas
<1>4. cola \in [Colas -> Seq(Pids)]
  BY DEF Tipos, TypeOK, ListasTypeOK, Colas
<1>5. ASSUME NEW c \in Colas PROVE Pendientes(c)' + Len(cola[c]) <= Pendientes(c) + Len(cola'[c])
  <2>1. PICK s, m, k, n \in Nat : s = sem[c] /\ m = PorSacar(c) /\ k = Cardinality(EnLista(c)) /\ n = Len(cola[c])
    BY PendientesEs
  <2>2. Pendientes(c) = s + m + k
    BY <2>1, PendientesEs
  <2>3. Pendientes(c)' = sem'[c] + m + k
    BY <1>1, <2>1, EnListaMarco DEF Pendientes, PorSacar
  <2>4. CASE c = "NEW"
    <3>1. sem'[c] = s + 1 /\ cola'[c] = Append(cola[c], identificador)
      BY <1>1, <1>3, <1>4, <2>1, <2>4
    <3>2. Len(cola'[c]) = n + 1
      BY <1>2, <1>4, <2>1, <3>1, AppendProperties
    <3>3. QED
      BY <2>1, <2>2, <2>3, <3>1, <3>2, SMTT(30)
  <2>5. CASE c # "NEW"
    <3>1. sem'[c] = s /\ cola'[c] = cola[c]
      BY <1>1, <1>3, <1>4, <2>1, <2>5
    <3>2. QED
      BY <2>1, <2>2, <2>3, <3>1
  <2>6. QED
    BY <2>4, <2>5
<1>6. QED
  BY <1>1, <1>5, IoQuedanMarco, EliminacionesMarco, ApuntadoMarco DEF Quedan, ColasQuedan

(* send_new_to_ready *)
LEMMA QuedanLargoEsperar ==
  ASSUME Tipos, Apuntado, LargoEsperar \/ LargoOrden \/ LargoMulti
  PROVE  Quedan /\ Apuntado'
<1>1. UNCHANGED <<cola, listado, ioCola, ioSem, ioPc, finalizaciones>>
  BY DEF LargoEsperar, LargoOrden, LargoMulti, ioVars, listas, gestionVars, consolaVars
<1>2. pc \in [Hilos -> Pasos] /\ {"largo", "consola"} \subseteq Hilos
  BY DEF Tipos, TypeOK, HilosTypeOK, Hilos
<1>3. pc'["consola"] = pc["consola"] /\ pc'["largo"] # "mostrar"
  BY <1>2 DEF LargoEsperar, LargoOrden, LargoMulti, Ir
<1>4. CASE LargoOrden \/ LargoMulti
  <2>1. \A c \in Colas : sem'[c] = sem[c]
    BY <1>4, NombresSem DEF LargoOrden, LargoMulti, Esperar, Tipos, TypeOK, SemTypeOK, Colas
  <2>2. pc["largo"] \in {"orden", "multi"} /\ pc'["largo"] \in {"multi", "sacar"}
    BY <1>2, <1>4 DEF LargoOrden, LargoMulti, En, Ir
  <2>3. \A c \in Colas : PorSacar(c)' = PorSacar(c)
    BY <2>2 DEF PorSacar, Uno
  <2>4. QED
    BY <1>1, <1>3, <2>1, <2>3, ColasQuedanMarco, IoQuedanMarco, EliminacionesMarco DEF Quedan, Apuntado
<1>5. CASE LargoEsperar
  <2>1. sem["NEW"] > 0 /\ sem' = [sem EXCEPT !["NEW"] = @ - 1] /\ pc["largo"] = "espera"
    BY <1>5 DEF LargoEsperar, Esperar, En
  <2>2. ASSUME NEW c \in Colas PROVE Pendientes(c)' + Len(cola[c]) <= Pendientes(c) + Len(cola'[c])
    <3>1. PICK s, k, n \in Nat : s = sem[c] /\ k = Cardinality(EnLista(c)) /\ n = Len(cola[c])
      BY PendientesEs
    <3>2. Pendientes(c) = s + k /\ PorSacar(c) = 0
      <4>1. PorSacar(c) = 0
        BY <2>1 DEF PorSacar, Uno
      <4>2. QED
        BY <3>1, <4>1, PendientesEs
    <3>3. PICK u \in {0, 1} : u = PorSacar(c)' /\ (c # "NEW" => u = 0)
      BY DEF PorSacar, Uno
    <3>4. Pendientes(c)' = sem'[c] + u + k
      BY <1>1, <3>1, <3>3, EnListaMarco DEF Pendientes, PorSacar
    <3>5. sem'[c] = IF c = "NEW" THEN s - 1 ELSE s
      BY <2>1, <3>1, NombresSem DEF Tipos, TypeOK, SemTypeOK, Colas
    <3>6. PICK p \in Nat : p = Pendientes(c)' /\ p <= s + k
      <4>1. CASE c = "NEW"
        <5>1. s = sem["NEW"]
          BY <3>1, <4>1
        <5>2. s > 0
          BY <2>1, <5>1
        <5>3. Pendientes(c)' = (s - 1) + u + k
          BY <3>4, <3>5, <4>1
        <5>4. (s - 1) + u + k \in Nat /\ (s - 1) + u + k <= s + k
          BY <5>2
        <5>5. QED
          BY <5>3, <5>4
      <4>2. CASE c # "NEW"
        <5>1. u = 0
          BY <3>3, <4>2
        <5>2. Pendientes(c)' = s + k
          BY <3>4, <3>5, <4>2, <5>1
        <5>3. QED
          BY <5>2
      <4>3. QED
        BY <4>1, <4>2
    <3>7. Len(cola[c]) = n /\ Len(cola'[c]) = n
      BY <1>1, <3>1
    <3>8. QED
      BY <3>2, <3>6, <3>7
  <2>3. QED
    BY <1>1, <1>3, <2>2, IoQuedanMarco, EliminacionesMarco DEF Quedan, ColasQuedan, Apuntado
<1>6. QED
  BY <1>4, <1>5

(* A thread that takes an element out of the list x, with a unit of it *)
LEMMA ColasQuedanAlSacar ==
  ASSUME Tipos, NEW x \in Colas, UNCHANGED listado \/ \E y : RomperListados(y),
         cola' = cola \/ (cola[x] # <<>> /\ cola' = [cola EXCEPT ![x] = ListRemove(@)]),
         \A c \in Colas : /\ sem'[c] + PorSacar(c)' = sem[c] + PorSacar(c) - Uno(c = x)
                          /\ sem'[c] \in Nat /\ PorSacar(c)' \in Nat
  PROVE  ColasQuedan
<1>1. cola \in [Colas -> Seq(Pids)]
  BY DEF Tipos, TypeOK, ListasTypeOK, Colas
<1>2. ASSUME NEW c \in Colas PROVE Pendientes(c)' + Len(cola[c]) <= Pendientes(c) + Len(cola'[c])
  <2>1. PICK s, m, k, n \in Nat : s = sem[c] /\ m = PorSacar(c) /\ k = Cardinality(EnLista(c)) /\ n = Len(cola[c])
    BY PendientesEs
  <2>2. PICK t, r \in Nat :
          /\ t = sem'[c] /\ r = PorSacar(c)'
          /\ c = x => t + r = s + m - 1
          /\ c # x => t + r = s + m
    BY <2>1 DEF Uno
  <2>3. Pendientes(c) = s + m + k
    BY <2>1, PendientesEs
  <2>4. Pendientes(c)' = t + r + k
    BY <2>1, <2>2, EnListaMarco DEF Pendientes, PorSacar
  <2>5. CASE cola' = cola
    <3>1. t + r <= s + m
      BY <2>2
    <3>2. Len(cola[c]) = n /\ Len(cola'[c]) = n
      BY <2>1, <2>5
    <3>3. QED
      BY <2>3, <2>4, <3>1, <3>2
  <2>6. CASE cola[x] # <<>> /\ cola' = [cola EXCEPT ![x] = ListRemove(@)]
    <3>1. CASE c = x
      <4>1. cola'[c] = ListRemove(cola[c]) /\ cola[c] # <<>> /\ cola[c] \in Seq(Pids)
        BY <1>1, <2>6, <3>1
      <4>2. Len(cola'[c]) = n - 1
        BY <2>1, <4>1, ListRemoveTipo
      <4>3. t + r = s + m - 1 /\ Len(cola[c]) = n
        BY <2>1, <2>2, <3>1
      <4>4. QED
        BY <2>3, <2>4, <4>2, <4>3
    <3>2. CASE c # x
      <4>1. cola'[c] = cola[c]
        BY <1>1, <2>6, <3>2
      <4>2. t + r = s + m /\ Len(cola[c]) = n /\ Len(cola'[c]) = n
        BY <2>1, <2>2, <3>2, <4>1
      <4>3. QED
        BY <2>3, <2>4, <4>2
    <3>3. QED
      BY <3>1, <3>2
  <2>7. QED
    BY <2>5, <2>6
<1>3. QED
  BY <1>2 DEF ColasQuedan

LEMMA QuedanLargoSacar ==
  ASSUME Tipos, Apuntado, LargoSacar
  PROVE  Quedan /\ Apuntado'
<1>1. UNCHANGED <<listado, ioCola, ioSem, ioPc, finalizaciones>>
  BY DEF LargoSacar, ioVars, gestionVars, consolaVars
<1>2. pc["largo"] = "sacar" /\ pc'["largo"] = "agregar" /\ pc'["consola"] = pc["consola"]
  BY DEF LargoSacar, En, Ir, Tipos, TypeOK, HilosTypeOK, Hilos
<1>3. "NEW" \in Colas /\ \A c \in Colas : sem'[c] = sem[c] /\ sem[c] \in Nat
  BY NombresSem DEF LargoSacar, Esperar, Tipos, TypeOK, SemTypeOK, Colas
<1>4. cola' = cola \/ (cola["NEW"] # <<>> /\ cola' = [cola EXCEPT !["NEW"] = ListRemove(@)])
  BY DEF LargoSacar
<1>5. \A c \in Colas : PorSacar(c) = Uno(c = "NEW") /\ PorSacar(c)' = 0 /\ Uno(c = "NEW") \in {0, 1}
  BY <1>2 DEF PorSacar, Uno
<1>6. ColasQuedan
  BY <1>1, <1>3, <1>4, <1>5, ColasQuedanAlSacar
<1>7. QED
  BY <1>1, <1>2, <1>6, IoQuedanMarco, EliminacionesMarco DEF Quedan, Apuntado

(* To a READY list, and to its semaphore after the log *)
LEMMA ColasQuedanAlListar ==
  ASSUME Tipos, NEW l \in Lectores, NEW x \in {"READY", "AUX_READY"}, NEW p \in Pids,
         Listar(l, x), listado[l].lista = "NINGUNA", cola' = [cola EXCEPT ![x] = Append(@, p)],
         \A c \in Colas : sem'[c] = sem[c] /\ PorSacar(c)' = PorSacar(c)
  PROVE  ColasQuedan
<1>1. cola \in [Colas -> Seq(Pids)] /\ x \in Colas
  BY DEF Tipos, TypeOK, ListasTypeOK, Colas
<1>2. ASSUME NEW c \in Colas PROVE Pendientes(c)' + Len(cola[c]) <= Pendientes(c) + Len(cola'[c])
  <2>1. PICK s, m, k, n \in Nat : s = sem[c] /\ m = PorSacar(c) /\ k = Cardinality(EnLista(c)) /\ n = Len(cola[c])
    BY PendientesEs
  <2>2. PICK u \in {0, 1} : u = Uno(c = x) /\ (c = x => u = 1) /\ (c # x => u = 0)
    BY DEF Uno
  <2>3. Cardinality(EnLista(c)') = k + u
    BY <2>1, <2>2, EnListaListar
  <2>4. Len(cola'[c]) = n + u /\ Len(cola[c]) = n
    <3>1. CASE c = x
      <4>1. cola'[c] = Append(cola[c], p)
        BY <1>1, <3>1
      <4>2. QED
        BY <1>1, <2>1, <2>2, <3>1, <4>1, AppendProperties
    <3>2. CASE c # x
      <4>1. cola'[c] = cola[c] /\ u = 0
        BY <1>1, <2>2, <3>2
      <4>2. Len(cola'[c]) = n /\ Len(cola[c]) = n
        BY <2>1, <4>1
      <4>3. n = n + u
        BY <4>1
      <4>4. QED
        BY <4>2, <4>3
    <3>3. QED
      BY <3>1, <3>2
  <2>5. Pendientes(c) = s + m + k
    BY <2>1, PendientesEs
  <2>6. Pendientes(c)' = s + m + (k + u)
    BY <2>1, <2>3 DEF Pendientes, PorSacar
  <2>7. s \in Nat /\ m \in Nat /\ k \in Nat /\ n \in Nat /\ u \in Nat
    BY <2>1, <2>2
  <2>8. s + m + (k + u) + n <= s + m + k + (n + u)
    BY <2>7
  <2>9. QED
    BY <2>4, <2>5, <2>6, <2>8
<1>3. QED
  BY <1>2 DEF ColasQuedan

LEMMA ColasQuedanAlMostrar ==
  ASSUME Tipos, NEW l \in Lectores, TerminarListado(l), UNCHANGED cola,
         \A c \in Colas : sem'[c] = sem[c] + Uno(c = listado[l].lista) /\ PorSacar(c)' = PorSacar(c)
  PROVE  ColasQuedan
<1>1. ASSUME NEW c \in Colas PROVE Pendientes(c)' + Len(cola[c]) <= Pendientes(c) + Len(cola'[c])
  <2>1. Cardinality(EnLista(c)) = Cardinality(EnLista(c)') + Uno(c = listado[l].lista)
    BY EnListaTerminar
  <2>2. EnLista(c)' \subseteq EnLista(c)
    <3>1. /\ \A k \in Lectores \ {l} : listado'[k] = listado[k]
          /\ listado'[l].lista = "NINGUNA"
      BY EnListaTerminar
    <3>2. QED
      BY <3>1 DEF EnLista, Colas
  <2>3. Cardinality(EnLista(c)') \in Nat
    BY <2>2, EnListaFinita, FS_Subset, FS_CardinalityType
  <2>4. PICK s, m, k, n, u \in Nat :
          /\ s = sem[c] /\ m = PorSacar(c) /\ k = Cardinality(EnLista(c)') /\ n = Len(cola[c])
          /\ u = Uno(c = listado[l].lista)
    BY <2>3, PendientesEs DEF Uno
  <2>5. Pendientes(c) = s + m + (k + u)
    BY <2>1, <2>4, PendientesEs
  <2>6. Pendientes(c)' = (s + u) + m + k
    BY <2>4 DEF Pendientes, PorSacar
  <2>7. Len(cola[c]) = n /\ Len(cola'[c]) = n
    BY <2>4
  <2>8. s \in Nat /\ m \in Nat /\ k \in Nat /\ n \in Nat /\ u \in Nat
    OBVIOUS
  <2>9. QED
    BY <2>5, <2>6, <2>7, <2>8
<1>2. QED
  BY <1>1 DEF ColasQuedan

LEMMA QuedanLargoAgregar ==
  ASSUME Tipos, Alcanzan, vivo, LargoAgregar
  PROVE  Quedan /\ Apuntado'
<1>1. UNCHANGED <<sem, ioCola, ioSem, ioPc, finalizaciones>>
  BY DEF LargoAgregar, ioVars, gestionVars, consolaVars
<1>2. pc["largo"] = "agregar" /\ pc'["largo"] = "mostrar" /\ pc'["consola"] = pc["consola"]
  BY DEF LargoAgregar, En, Ir, Tipos, TypeOK, HilosTypeOK, Hilos
<1>3. local["largo"] \in Pids /\ listado["largo"].lista = "NINGUNA"
  BY <1>2 DEF Tipos, Punteros, Alcanzan, Listando
<1>4. Listar("largo", "READY") /\ cola' = [cola EXCEPT !["READY"] = Append(@, local["largo"])]
  BY DEF LargoAgregar
<1>5. ColasQuedan
  <2>1. \A c \in Colas : PorSacar(c)' = PorSacar(c)
    BY <1>2 DEF PorSacar, Uno
  <2>2. QED
    BY <1>1, <1>3, <1>4, <2>1, LectoresHay, ColasQuedanAlListar
<1>6. listado'["largo"].lista = "READY"
  BY <1>3, <1>4, LectoresHay, EnListaListar DEF Colas
<1>7. QED
  BY <1>1, <1>2, <1>5, <1>6, IoQuedanMarco, EliminacionesMarco DEF Quedan, Apuntado

LEMMA QuedanLargoMostrar ==
  ASSUME Tipos, Apuntado, LargoMostrar
  PROVE  Quedan /\ Apuntado'
<1>1. UNCHANGED <<cola, ioCola, ioSem, ioPc, finalizaciones>>
  BY DEF LargoMostrar, ioVars, gestionVars, consolaVars
<1>2. pc["largo"] = "mostrar" /\ pc'["largo"] = "espera" /\ pc'["consola"] = pc["consola"]
  BY DEF LargoMostrar, En, Ir, Tipos, TypeOK, HilosTypeOK, Hilos
<1>3. TerminarListado("largo") /\ listado["largo"].lista = "READY"
  BY <1>2 DEF LargoMostrar, Apuntado
<1>4. ASSUME NEW c \in Colas PROVE sem'[c] = sem[c] + Uno(c = listado["largo"].lista)
  <2>1. sem \in [Semaforos -> Nat] /\ c \in Semaforos /\ sem[c] \in Nat /\ "PLAN_NEW_READY" # c
    BY NombresSem DEF Tipos, TypeOK, SemTypeOK, Colas
  <2>2. QED
    BY <1>3, <2>1 DEF LargoMostrar, Uno
<1>5. ColasQuedan
  <2>1. \A c \in Colas : PorSacar(c)' = PorSacar(c)
    BY <1>2 DEF PorSacar, Uno
  <2>2. QED
    BY <1>1, <1>3, <1>4, <2>1, LectoresHay, ColasQuedanAlMostrar
<1>6. QED
  BY <1>1, <1>2, <1>5, IoQuedanMarco, EliminacionesMarco DEF Quedan, Apuntado

LEMMA QuedanEndProcess ==
  ASSUME Tipos, Apuntado, EndProcess
  PROVE  Quedan /\ Apuntado'
<1>1. UNCHANGED <<cola, listado, pc, ioCola, ioSem, ioPc, finalizaciones>>
  BY DEF EndProcess, hilos, ioVars, consolaVars
<1>2. \A c \in Colas : sem'[c] = sem[c]
  BY NombresSem DEF EndProcess, Tipos, TypeOK, SemTypeOK, Colas
<1>3. QED
  BY <1>1, <1>2, QuedanMarco

(* The short-term planner and the quantum *)
LEMMA QuedanCorto ==
  ASSUME Tipos, Apuntado, CortoElegir \/ CortoCpu \/ CortoEjecutar \/ InterrupcionQuantum \/ CortoUnir \/ Quantum
  PROVE  Quedan /\ Apuntado'
<1>1. SemTypeOK /\ HilosTypeOK
  BY DEF Tipos, TypeOK
<1>2. UNCHANGED <<cola, listado, ioCola, ioSem, ioPc, finalizaciones>>
  <2>1. CASE InterrupcionQuantum
    <3>1. UNCHANGED <<listas, ioVars, gestionVars>>
      BY <2>1, Zenon DEF InterrupcionQuantum
    <3>2. QED
      BY <3>1 DEF listas, ioVars, gestionVars, consolaVars
  <2>2. QED
    BY <2>1 DEF CortoElegir, CortoCpu, CortoEjecutar, CortoUnir, Quantum, QuantumCrear, QuantumVencer, listas,
                ioVars, gestionVars, consolaVars
<1>3. \A c \in Colas : sem'[c] = sem[c]
  <2>1. UNCHANGED sem \/ Esperar("CPU")
    <3>1. CASE InterrupcionQuantum
      BY <3>1, Zenon DEF InterrupcionQuantum
    <3>2. QED
      BY <3>1 DEF CortoElegir, CortoCpu, CortoEjecutar, CortoUnir, Quantum, QuantumCrear, QuantumVencer
  <2>2. "CPU" \in Semaforos \ (Colas \cup {"EXIT"})
    BY DEF Semaforos, Colas
  <2>3. QED
    BY <2>1, <2>2, OtroSemaforo
<1>4. pc'["largo"] = pc["largo"] /\ pc'["consola"] = pc["consola"]
  <2>1. CASE InterrupcionQuantum
    <3>1. UNCHANGED hilos \/ pc' = [pc EXCEPT !.corto = "unir", !.quantum = "crear"]
      BY <2>1, Zenon DEF InterrupcionQuantum
    <3>2. UNCHANGED pc \/ pc' = [pc EXCEPT !.corto = "unir", !.quantum = "crear"]
      BY <3>1 DEF hilos
    <3>3. QED
      BY <1>1, <3>2 DEF HilosTypeOK, Hilos
  <2>2. CASE CortoElegir \/ CortoCpu \/ CortoEjecutar
    BY <1>1, <2>2 DEF CortoElegir, CortoCpu, CortoEjecutar, Ir, HilosTypeOK, Hilos
  <2>3. CASE CortoUnir
    BY <1>1, <2>3 DEF CortoUnir, HilosTypeOK, Hilos
  <2>4. CASE Quantum
    BY <1>1, <2>4 DEF Quantum, QuantumCrear, QuantumVencer, Ir, HilosTypeOK, Hilos
  <2>5. QED
    BY <2>1, <2>2, <2>3, <2>4
<1>5. QED
  BY <1>2, <1>3, <1>4, QuedanMarco

LEMMA QuedanCortoSacar ==
  ASSUME Tipos, Apuntado, NEW paso \in {"ready", "aux"}, NEW x \in {"READY", "AUX_READY"}, CortoSacar(paso, x)
  PROVE  Quedan /\ Apuntado'
<1>1. UNCHANGED <<ioCola, ioSem, ioPc, finalizaciones>> /\ x \in Colas
  BY DEF CortoSacar, ioVars, gestionVars, consolaVars, Colas
<1>2. pc'["largo"] = pc["largo"] /\ pc'["consola"] = pc["consola"]
  BY DEF CortoSacar, Ir, Tipos, TypeOK, HilosTypeOK, Hilos
<1>3. listado' = listado \/ RomperListados(x)
  BY DEF CortoSacar
<1>4. cola' = cola \/ (cola[x] # <<>> /\ cola' = [cola EXCEPT ![x] = ListRemove(@)])
  BY DEF CortoSacar
<1>5. \A c \in Colas : PorSacar(c)' = PorSacar(c) /\ PorSacar(c) \in {0, 1}
  BY <1>2 DEF PorSacar, Uno
<1>6. sem[x] > 0 /\ sem' = [sem EXCEPT ![x] = @ - 1] /\ sem \in [Semaforos -> Nat] /\ Colas \subseteq Semaforos
  BY NombresSem DEF CortoSacar, Esperar, Tipos, TypeOK, SemTypeOK, Colas
<1>7. ASSUME NEW c \in Colas
      PROVE  sem'[c] + PorSacar(c)' = sem[c] + PorSacar(c) - Uno(c = x) /\ sem'[c] \in Nat /\ PorSacar(c)' \in Nat
  <2>1. CASE c = x
    BY <1>5, <1>6, <2>1 DEF Uno
  <2>2. CASE c # x
    BY <1>5, <1>6, <2>2 DEF Uno
  <2>3. QED
    BY <2>1, <2>2
<1>8. ColasQuedan
  BY <1>1, <1>3, <1>4, <1>7, ColasQuedanAlSacar
<1>9. QED
  BY <1>1, <1>2, <1>3, <1>8, IoQuedanMarco, EliminacionesMarco, ApuntadoMarco DEF Quedan

(* The dispatch server *)
LEMMA QuedanDespachoResto ==
  ASSUME Tipos, Apuntado,
         \/ RecibirPcbOSolicitud \/ RecibirInterrumpido \/ Cancelar \/ ActualizarPcbQuantum
         \/ ActualizarPcbFinal \/ Bloquear \/ AgregarAExit
  PROVE  Quedan /\ Apuntado'
<1>1. UNCHANGED <<cola, listado, ioCola, ioSem, ioPc, finalizaciones>>
  BY DEF RecibirPcbOSolicitud, RecibirInterrumpido, Cancelar, ActualizarPcbQuantum, ActualizarPcbFinal,
         Bloquear, AgregarAExit, listas, ioVars, gestionVars, consolaVars
<1>2. \A c \in Colas : sem'[c] = sem[c]
  BY NombresSem
  DEF RecibirPcbOSolicitud, RecibirInterrumpido, Cancelar, ActualizarPcbQuantum, ActualizarPcbFinal,
      Bloquear, AgregarAExit, Esperar, Publicar, Tipos, TypeOK, SemTypeOK, Colas
<1>3. pc'["largo"] = pc["largo"] /\ pc'["consola"] = pc["consola"]
  BY DEF RecibirPcbOSolicitud, RecibirInterrumpido, Cancelar, CancelarQuantum, ActualizarPcbQuantum,
         ActualizarPcbFinal, Bloquear, AgregarAExit, Terminar, Ir, Tipos, TypeOK, HilosTypeOK, Hilos
<1>4. QED
  BY <1>1, <1>2, <1>3, QuedanMarco

LEMMA QuedanEncolarBloqueado ==
  ASSUME Tipos, Apuntado, AgregarProcesoBloqueado
  PROVE  Quedan /\ Apuntado'
<1>1. UNCHANGED <<cola, listado, ioPc, finalizaciones>>
  BY DEF AgregarProcesoBloqueado, listas, gestionVars, consolaVars
<1>2. pc'["largo"] = pc["largo"] /\ pc'["consola"] = pc["consola"] /\ pc["despacho"] = "encolar"
  BY DEF AgregarProcesoBloqueado, Terminar, En, Ir, Tipos, TypeOK, HilosTypeOK, Hilos
<1>3. \A c \in Colas : sem'[c] = sem[c] /\ PorSacar(c)' = PorSacar(c)
  BY <1>2, NombresSem DEF AgregarProcesoBloqueado, PorSacar, Tipos, TypeOK, SemTypeOK, Colas
<1>4. IoQuedan
  <2>1. mensaje.pid \in Pids
    BY <1>2 DEF Tipos, Punteros, Mensajes
  <2>2. ioCola \in [Interfaces -> Seq(Pids)] /\ ioSem \in [Interfaces -> Nat]
    BY DEF Tipos, TypeOK, IoTypeOK
  <2>3. ASSUME NEW i \in Interfaces PROVE PendientesIo(i)' + Len(ioCola[i]) <= PendientesIo(i) + Len(ioCola'[i])
    <3>1. PICK s, u, n \in Nat : s = ioSem[i] /\ u = Uno(ioPc[i] = "obtener") /\ n = Len(ioCola[i])
      BY <2>2, LenProperties DEF Uno
    <3>2. PendientesIo(i) = s + u /\ PendientesIo(i)' = ioSem'[i] + u
      BY <1>1, <3>1 DEF PendientesIo
    <3>3. CASE i = mensaje.interfaz
      <4>1. ioSem'[i] = s + 1 /\ ioCola'[i] = Append(ioCola[i], mensaje.pid)
        BY <2>2, <3>1, <3>3 DEF AgregarProcesoBloqueado
      <4>2. Len(ioCola'[i]) = n + 1
        BY <2>1, <2>2, <3>1, <4>1, AppendProperties
      <4>3. QED
        BY <3>1, <3>2, <4>1, <4>2
    <3>4. CASE i # mensaje.interfaz
      <4>1. ioSem'[i] = s /\ ioCola'[i] = ioCola[i]
        BY <2>2, <3>1, <3>4 DEF AgregarProcesoBloqueado
      <4>2. QED
        BY <3>1, <3>2, <4>1
    <3>5. QED
      BY <3>3, <3>4
  <2>4. QED
    BY <2>3 DEF IoQuedan
<1>5. QED
  BY <1>1, <1>2, <1>3, <1>4, ColasQuedanMarco, EliminacionesMarco, ApuntadoMarco DEF Quedan

LEMMA QuedanExecuteAReady ==
  ASSUME Tipos, Alcanzan, Apuntado, AgregarDeExecuteAReady
  PROVE  Quedan /\ Apuntado'
<1>1. UNCHANGED <<ioCola, ioSem, ioPc, finalizaciones>>
  BY DEF AgregarDeExecuteAReady, ioVars, gestionVars, consolaVars
<1>2. pc["despacho"] = "aReady" /\ pc'["largo"] = pc["largo"] /\ pc'["consola"] = pc["consola"]
  BY DEF AgregarDeExecuteAReady, En, Ir, Tipos, TypeOK, HilosTypeOK, Hilos
<1>3. \A c \in Colas : sem'[c] = sem[c] /\ PorSacar(c)' = PorSacar(c)
  BY <1>2, NombresSem DEF AgregarDeExecuteAReady, Esperar, PorSacar, Tipos, TypeOK, SemTypeOK, Colas
<1>4. mensaje.pid \in Pids /\ listado["despacho"].lista = "NINGUNA"
  BY <1>2 DEF Tipos, Punteros, Mensajes, Alcanzan, Listando
<1>5. PICK x \in {"READY", "AUX_READY"} :
        Listar("despacho", x) /\ cola' = [cola EXCEPT ![x] = Append(@, mensaje.pid)]
  BY DEF AgregarDeExecuteAReady, ColaReadyDe
<1>6. ColasQuedan
  BY <1>3, <1>4, <1>5, LectoresHay, ColasQuedanAlListar
<1>7. listado'["largo"] = listado["largo"]
  BY <1>5, LectoresHay DEF Listar, Tipos, TypeOK, ListasTypeOK
<1>8. QED
  BY <1>1, <1>2, <1>6, <1>7, IoQuedanMarco, EliminacionesMarco DEF Quedan, Apuntado

LEMMA QuedanMostrarExecute ==
  ASSUME Tipos, Apuntado, MostrarExecuteAReady
  PROVE  Quedan /\ Apuntado'
<1>1. UNCHANGED <<cola, ioCola, ioSem, ioPc, finalizaciones>> /\ TerminarListado("despacho")
  BY DEF MostrarExecuteAReady, ioVars, gestionVars, consolaVars
<1>2. pc'["largo"] = pc["largo"] /\ pc'["consola"] = pc["consola"]
  BY DEF MostrarExecuteAReady, Terminar, Ir, Tipos, TypeOK, HilosTypeOK, Hilos
<1>3. listado["despacho"].lista \in {"NINGUNA", "READY", "AUX_READY"}
  BY LectoresHay, ListaLeida
<1>4. \A c \in Colas : sem'[c] = IF c = listado["despacho"].lista THEN sem[c] + 1 ELSE sem[c]
  BY <1>3, NombresSem DEF MostrarExecuteAReady, Tipos, TypeOK, SemTypeOK, Colas
<1>5. ASSUME NEW c \in Colas
      PROVE  sem'[c] = sem[c] + Uno(c = listado["despacho"].lista) /\ PorSacar(c)' = PorSacar(c)
  BY <1>2, <1>4, PendientesEs DEF PorSacar, Uno
<1>6. ColasQuedan
  BY <1>1, <1>5, LectoresHay, ColasQuedanAlMostrar
<1>7. listado'["largo"] = listado["largo"]
  BY <1>1, LectoresHay DEF TerminarListado, Tipos, TypeOK, ListasTypeOK
<1>8. QED
  BY <1>1, <1>2, <1>6, <1>7, IoQuedanMarco, EliminacionesMarco DEF Quedan, Apuntado

(* The interfaces *)
LEMMA QuedanIO ==
  ASSUME Tipos, Apuntado, NEW i \in Interfaces, IoEsperar(i) \/ IoObtener(i) \/ IoResponder(i)
  PROVE  Quedan /\ Apuntado'
<1>1. UNCHANGED <<sem, cola, listado, pc, finalizaciones>>
  BY DEF IoEsperar, IoObtener, IoResponder, listas, hilos, gestionVars, consolaVars
<1>2. ioCola \in [Interfaces -> Seq(Pids)] /\ ioSem \in [Interfaces -> Nat] /\ DOMAIN ioPc = Interfaces
  BY DEF Tipos, TypeOK, IoTypeOK
<1>3. ASSUME NEW j \in Interfaces \ {i}
      PROVE  PendientesIo(j)' + Len(ioCola[j]) <= PendientesIo(j) + Len(ioCola'[j])
  <2>1. ioSem'[j] = ioSem[j] /\ ioPc'[j] = ioPc[j] /\ ioCola'[j] = ioCola[j]
    BY <1>2, <1>3 DEF IoEsperar, IoObtener, IoResponder, IrIO
  <2>2. PendientesIo(j)' = PendientesIo(j)
    BY <2>1 DEF PendientesIo
  <2>3. PendientesIo(j) \in Nat /\ Len(ioCola[j]) \in Nat
    BY ContablesHay DEF Contables
  <2>4. QED
    BY <2>1, <2>2, <2>3
<1>4. PendientesIo(i)' + Len(ioCola[i]) <= PendientesIo(i) + Len(ioCola'[i])
  <2>1. PICK s, u, n \in Nat : s = ioSem[i] /\ n = Len(ioCola[i]) /\ u = Uno(ioPc[i] = "obtener")
                               /\ (ioPc[i] = "obtener" => u = 1)
    BY <1>2, LenProperties DEF Uno
  <2>2. PICK v \in {0, 1} : v = Uno(ioPc'[i] = "obtener") /\ (ioPc'[i] # "obtener" => v = 0)
    BY DEF Uno
  <2>3. PendientesIo(i) = s + u /\ PendientesIo(i)' = ioSem'[i] + v
    BY <2>1, <2>2 DEF PendientesIo
  <2>4. CASE IoEsperar(i)
    <3>1. ioSem'[i] = s - 1 /\ ioCola' = ioCola /\ s > 0
      BY <1>2, <2>1, <2>4 DEF IoEsperar
    <3>2. PICK p \in Nat : p = PendientesIo(i)' /\ p <= s
      <4>1. PendientesIo(i)' = (s - 1) + v
        BY <2>3, <3>1
      <4>2. QED
        BY <2>2, <3>1, <4>1
    <3>3. PICK w \in {0, 1} : w = u
      BY <2>1 DEF Uno
    <3>4. PendientesIo(i) = s + w
      BY <2>3, <3>3
    <3>5. QED
      BY <2>1, <3>1, <3>2, <3>4
  <2>5. CASE IoObtener(i)
    <3>1. ioSem'[i] = s /\ u = 1
      BY <2>1, <2>5 DEF IoObtener
    <3>2. CASE ioCola[i] = <<>>
      <4>1. ioCola' = ioCola
        BY <2>5, <3>2 DEF IoObtener
      <4>2. QED
        BY <2>1, <2>2, <2>3, <3>1, <4>1
    <3>3. CASE ioCola[i] # <<>>
      <4>1. ioCola'[i] = ListRemove(ioCola[i]) /\ ioPc'[i] = "servicio"
        BY <1>2, <2>5, <3>3 DEF IoObtener, IrIO
      <4>2. Len(ioCola'[i]) = n - 1 /\ v = 0
        BY <1>2, <2>1, <2>2, <3>3, <4>1, ListRemoveTipo
      <4>3. QED
        BY <2>1, <2>3, <3>1, <4>2
    <3>4. QED
      BY <3>2, <3>3
  <2>6. CASE IoResponder(i)
    <3>1. ioSem'[i] = s /\ ioCola' = ioCola /\ ioPc'[i] # "obtener"
      BY <1>2, <2>1, <2>6 DEF IoResponder, IrIO
    <3>2. QED
      BY <2>1, <2>2, <2>3, <3>1
  <2>7. QED
    BY <2>4, <2>5, <2>6
<1>5. \A c \in Colas : sem'[c] = sem[c] /\ PorSacar(c)' = PorSacar(c)
  BY <1>1 DEF PorSacar
<1>6. QED
  BY <1>1, <1>3, <1>4, <1>5, ColasQuedanMarco, EliminacionesMarco, ApuntadoMarco DEF Quedan, IoQuedan

LEMMA QuedanBlockedAReady ==
  ASSUME Tipos, Alcanzan, Apuntado, NEW i \in Interfaces, AgregarDeBlockedAReady(i)
  PROVE  Quedan /\ Apuntado'
<1>1. UNCHANGED <<pc, ioCola, ioSem, finalizaciones>>
  BY DEF AgregarDeBlockedAReady, hilos, gestionVars, consolaVars
<1>2. /\ ioPc[i] = "agregar" /\ ioPc'[i] = "mostrar"
      /\ \A j \in Interfaces \ {i} : ioPc'[j] = ioPc[j]
  BY DEF AgregarDeBlockedAReady, IrIO, Tipos, TypeOK, IoTypeOK
<1>3. \A c \in Colas : sem'[c] = sem[c] /\ PorSacar(c)' = PorSacar(c)
  BY <1>1, NombresSem DEF AgregarDeBlockedAReady, Esperar, PorSacar, Tipos, TypeOK, SemTypeOK, Colas
<1>4. ioPid[i] \in Pids /\ listado[i].lista = "NINGUNA" /\ i \in Lectores /\ i # "largo"
  BY <1>2, LectoresHay, InterfacesAparte DEF Tipos, Punteros, Alcanzan, Listando
<1>5. PICK x \in {"READY", "AUX_READY"} : Listar(i, x) /\ cola' = [cola EXCEPT ![x] = Append(@, ioPid[i])]
  BY DEF AgregarDeBlockedAReady, ColaReadyDe
<1>6. ColasQuedan
  BY <1>3, <1>4, <1>5, ColasQuedanAlListar
<1>7. listado'["largo"] = listado["largo"]
  BY <1>4, <1>5, LectoresHay DEF Listar, Tipos, TypeOK, ListasTypeOK
<1>8. \A j \in Interfaces : ioPc'[j] = "obtener" <=> ioPc[j] = "obtener"
  BY <1>2
<1>9. QED
  BY <1>1, <1>6, <1>7, <1>8, IoQuedanMarco, EliminacionesMarco DEF Quedan, Apuntado

LEMMA QuedanMostrarBlocked ==
  ASSUME Tipos, Apuntado, NEW i \in Interfaces, MostrarBlockedAReady(i)
  PROVE  Quedan /\ Apuntado'
<1>1. UNCHANGED <<cola, pc, ioCola, ioSem, finalizaciones>> /\ TerminarListado(i)
  BY DEF MostrarBlockedAReady, hilos, gestionVars, consolaVars
<1>2. /\ ioPc[i] = "mostrar" /\ ioPc'[i] = "esperar"
      /\ \A j \in Interfaces \ {i} : ioPc'[j] = ioPc[j]
  BY DEF MostrarBlockedAReady, IrIO, Tipos, TypeOK, IoTypeOK
<1>3. listado[i].lista \in {"NINGUNA", "READY", "AUX_READY"} /\ i \in Lectores /\ i # "largo"
  BY LectoresHay, InterfacesAparte, ListaLeida
<1>4. \A c \in Colas : sem'[c] = IF c = listado[i].lista THEN sem[c] + 1 ELSE sem[c]
  BY <1>3, NombresSem DEF MostrarBlockedAReady, Tipos, TypeOK, SemTypeOK, Colas
<1>5. ASSUME NEW c \in Colas
      PROVE  sem'[c] = sem[c] + Uno(c = listado[i].lista) /\ PorSacar(c)' = PorSacar(c)
  BY <1>1, <1>4, PendientesEs DEF PorSacar, Uno
<1>6. ColasQuedan
  BY <1>1, <1>3, <1>5, ColasQuedanAlMostrar
<1>7. listado'["largo"] = listado["largo"]
  BY <1>1, <1>3, LectoresHay DEF TerminarListado, Tipos, TypeOK, ListasTypeOK
<1>8. \A j \in Interfaces : ioPc'[j] = "obtener" <=> ioPc[j] = "obtener"
  BY <1>2
<1>9. QED
  BY <1>1, <1>6, <1>7, <1>8, IoQuedanMarco, EliminacionesMarco DEF Quedan, Apuntado

(* FINALIZAR_PROCESO takes one element out of each list, at the most. *)
LEMMA AlSumoUno ==
  ASSUME NEW S, NEW s \in Seq(S), NEW e
  PROVE  Len(ListRemoveElement(s, e)) \in Nat /\ Len(s) \in Nat /\ Len(s) <= Len(ListRemoveElement(s, e)) + 1
<1>1. Len(s) \in Nat /\ ListRemoveElement(s, e) \in Seq(S)
  BY LenProperties, ListRemoveElementTipo
<1>2. CASE \A i \in 1..Len(s) : s[i] # e
  BY <1>1, <1>2 DEF ListRemoveElement
<1>3. CASE \E i \in 1..Len(s) : s[i] = e
  <2>1. Len(s) - 1 \in Nat
    BY <1>1, <1>3
  <2>2. DOMAIN ListRemoveElement(s, e) = 1..(Len(s) - 1)
    BY <1>3 DEF ListRemoveElement
  <2>3. Len(ListRemoveElement(s, e)) = Len(s) - 1
    BY <1>1, <2>1, <2>2, LenProperties
  <2>4. QED
    BY <1>1, <2>1, <2>3
<1>4. QED
  BY <1>2, <1>3

LEMMA QuedanEliminar ==
  ASSUME Tipos, Apuntado, SobrantesAcotados, vivo, FinalizarEliminar
  PROVE  SobrantesAcotados' /\ Apuntado'
<1>1. UNCHANGED <<sem, ioSem, ioPc, finalizaciones>>
  BY DEF FinalizarEliminar, gestionVars, consolaVars
<1>2. pc["consola"] = "eliminar" /\ pc'["consola"] = "encolar" /\ pc'["largo"] = pc["largo"]
  BY DEF FinalizarEliminar, En, Ir, Tipos, TypeOK, HilosTypeOK, Hilos
<1>3. listado' = listado \/ RomperListados("READY")
  BY DEF FinalizarEliminar
<1>4. PICK d \in Int : d = Eliminaciones /\ Eliminaciones' = d + 1
  <2>1. finalizaciones \in Int
    BY CotasAssumption DEF Tipos, TypeOK, GestionTypeOK
  <2>2. QED
    BY <1>1, <1>2, <2>1 DEF Eliminaciones, Uno
<1>5. ASSUME NEW c \in Colas PROVE Pendientes(c)' <= Len(cola'[c]) + Eliminaciones'
  <2>1. PICK r, n \in Nat : r = Pendientes(c) /\ n = Len(cola[c]) /\ r <= n + d
    BY <1>4, PendientesTipo DEF SobrantesAcotados
  <2>2. Pendientes(c)' = r
    BY <1>1, <1>2, <1>3, <2>1, EnListaMarco DEF Pendientes
  <2>3. cola \in [Colas -> Seq(Pids)]
    BY DEF Tipos, TypeOK, ListasTypeOK, Colas
  <2>4. cola'[c] = cola[c] \/ cola'[c] = ListRemoveElement(cola[c], local["consola"])
    BY <2>3 DEF FinalizarEliminar, Colas
  <2>5. PICK m \in Nat : m = Len(cola'[c]) /\ n <= m + 1
    BY <2>1, <2>3, <2>4, AlSumoUno
  <2>6. PICK e \in Int : e = Eliminaciones' /\ e = d + 1
    BY <1>4
  <2>7. r <= m + e
    <3>1. r <= n + d
      BY <2>1
    <3>2. n <= m + 1
      BY <2>5
    <3>3. e = d + 1 /\ d \in Int
      BY <1>4, <2>6
    <3>4. QED
      BY <3>1, <3>2, <3>3
  <2>8. QED
    BY <2>2, <2>5, <2>6, <2>7
<1>6. ASSUME NEW i \in Interfaces PROVE PendientesIo(i)' <= Len(ioCola'[i]) + Eliminaciones'
  <2>1. PICK r, n \in Nat : r = PendientesIo(i) /\ n = Len(ioCola[i]) /\ r <= n + d
    BY <1>4, ContablesHay DEF SobrantesAcotados, Contables
  <2>2. PendientesIo(i)' = r
    BY <1>1, <2>1 DEF PendientesIo
  <2>3. ioCola[i] \in Seq(Pids)
    BY DEF Tipos, TypeOK, IoTypeOK
  <2>4. ioCola'[i] = ioCola[i] \/ ioCola'[i] = ListRemoveElement(ioCola[i], local["consola"])
    BY DEF FinalizarEliminar
  <2>5. PICK m \in Nat : m = Len(ioCola'[i]) /\ n <= m + 1
    BY <2>1, <2>3, <2>4, AlSumoUno
  <2>6. PICK e \in Int : e = Eliminaciones' /\ e = d + 1
    BY <1>4
  <2>7. r <= m + e
    <3>1. r <= n + d
      BY <2>1
    <3>2. n <= m + 1
      BY <2>5
    <3>3. e = d + 1 /\ d \in Int
      BY <1>4, <2>6
    <3>4. QED
      BY <3>1, <3>2, <3>3
  <2>8. QED
    BY <2>2, <2>5, <2>6, <2>7
<1>7. QED
  BY <1>2, <1>3, <1>5, <1>6, ApuntadoMarco DEF SobrantesAcotados

LEMMA Acotados ==
  ASSUME Tipos, Tipos', SobrantesAcotados, Quedan
  PROVE  SobrantesAcotados'
<1>1. Contables /\ Contables'
  BY ContablesHay, ContablesPrima
<1>2. PICK d, e \in Int : d = Eliminaciones /\ e = Eliminaciones' /\ e >= d
  BY <1>1 DEF Contables, Quedan
<1>3. ASSUME NEW c \in Colas PROVE Pendientes(c)' <= Len(cola'[c]) + Eliminaciones'
  <2>1. PICK r, n, s, m \in Nat : r = Pendientes(c) /\ n = Len(cola[c]) /\ s = Pendientes(c)' /\ m = Len(cola'[c])
    BY <1>1 DEF Contables
  <2>2. r <= n + d /\ s + n <= r + m
    BY <1>2, <2>1 DEF SobrantesAcotados, Quedan, ColasQuedan
  <2>3. QED
    BY <1>2, <2>1, <2>2
<1>4. ASSUME NEW i \in Interfaces PROVE PendientesIo(i)' <= Len(ioCola'[i]) + Eliminaciones'
  <2>1. PICK r, n, s, m \in Nat :
          r = PendientesIo(i) /\ n = Len(ioCola[i]) /\ s = PendientesIo(i)' /\ m = Len(ioCola'[i])
    BY <1>1 DEF Contables
  <2>2. r <= n + d /\ s + n <= r + m
    BY <1>2, <2>1 DEF SobrantesAcotados, Quedan, IoQuedan
  <2>3. QED
    BY <1>2, <2>1, <2>2
<1>5. QED
  BY <1>3, <1>4 DEF SobrantesAcotados

LEMMA AcotadosInicial == Init => SobrantesAcotados /\ Apuntado
<1> SUFFICES ASSUME Init PROVE SobrantesAcotados /\ Apuntado
  OBVIOUS
<1>1. /\ \A c \in Colas : cola[c] = <<>>
      /\ \A l \in Lectores : listado[l].lista = "NINGUNA"
      /\ pc["largo"] = "espera" /\ pc["consola"] = "listo" /\ finalizaciones = 0
      /\ \A i \in Interfaces : ioCola[i] = <<>> /\ ioSem[i] = 0 /\ ioPc[i] = "esperar"
  BY DEF Init, KernelInit, SinListado, Colas
<1>2. \A c \in Colas : sem[c] = 0
  BY NombresSem DEF Init, KernelInit, SemPlanes, Colas
<1>3. Eliminaciones = 0
  <2>1. pc["consola"] \notin {"verificar", "comparar", "eliminar"}
    BY <1>1
  <2>2. finalizaciones = 0
    BY <1>1
  <2>3. Eliminaciones = finalizaciones - 0
    BY <2>1 DEF Eliminaciones, Uno
  <2>4. QED
    BY <2>2, <2>3
<1>4. ASSUME NEW c \in Colas PROVE Pendientes(c) <= Len(cola[c]) + Eliminaciones
  <2>1. EnLista(c) = {}
    BY <1>1 DEF EnLista, Colas
  <2>2. Cardinality(EnLista(c)) = 0
    BY <2>1, FS_EmptySet
  <2>3. Pendientes(c) = 0
    BY <1>1, <1>2, <2>2 DEF Pendientes, Uno
  <2>4. Len(cola[c]) = 0
    BY <1>1
  <2>5. QED
    BY <1>3, <2>3, <2>4
<1>5. ASSUME NEW i \in Interfaces PROVE PendientesIo(i) <= Len(ioCola[i]) + Eliminaciones
  <2>1. PendientesIo(i) = 0 /\ Len(ioCola[i]) = 0
    BY <1>1 DEF PendientesIo, Uno
  <2>2. QED
    BY <1>3, <2>1
<1>6. QED
  BY <1>1, <1>4, <1>5 DEF SobrantesAcotados, Apuntado

LEMMA AcotadosPaso ==
  Tipos /\ Alcanzan /\ SobrantesAcotados /\ Apuntado /\ [Next]_vars => SobrantesAcotados' /\ Apuntado'
<1> SUFFICES ASSUME Tipos, Alcanzan, SobrantesAcotados, Apuntado, [Next]_vars
             PROVE  SobrantesAcotados' /\ Apuntado'
  OBVIOUS
<1>1. CASE FinalizarEliminar /\ vivo
  BY <1>1, QuedanEliminar
<1>2. ASSUME ~(FinalizarEliminar /\ vivo) PROVE Quedan /\ Apuntado'
  <2>1. CASE UNCHANGED vars \/ (vivo /\ Cpu)
    BY <2>1, QuedanCpu DEF vars, Cpu
  <2>2. CASE vivo /\ (Consola \/ (\E s \in SemPlanes : DetenerCola(s)) \/ (\E k \in Cambios : Cambio(k)))
    BY <1>2, <2>2, QuedanGestion, QuedanIniciar DEF Consola
  <2>3. CASE vivo /\ (LargoPlazo \/ EndProcess)
    BY <2>3, QuedanLargoEsperar, QuedanLargoSacar, QuedanLargoAgregar, QuedanLargoMostrar,
       QuedanEndProcess DEF LargoPlazo
  <2>4. CASE vivo /\ (CortoPlazo \/ Quantum)
    BY <2>4, QuedanCorto, QuedanCortoSacar DEF CortoPlazo
  <2>5. CASE vivo /\ Despacho
    BY <2>5, QuedanDespachoResto, QuedanEncolarBloqueado, QuedanExecuteAReady, QuedanMostrarExecute DEF Despacho
  <2>6. CASE vivo /\ \E i \in Interfaces : HiloIO(i)
    BY <2>6, QuedanIO, QuedanBlockedAReady, QuedanMostrarBlocked DEF HiloIO
  <2>7. QED
    BY <2>1, <2>2, <2>3, <2>4, <2>5, <2>6 DEF Next, Kernel
<1>3. Tipos'
  BY TiposPaso
<1>4. QED
  BY <1>1, <1>2, <1>3, Acotados

(* With any algorithm, and with FINALIZAR_PROCESO at any moment, a list has  *)
(* at most as many units over its processes as commands have been through    *)
(* the lists: none is left by the planners, the dispatch or the interfaces.  *)
THEOREM SobrantesContados == Spec => []SobrantesAcotados
<1>1. Tipos /\ Alcanzan /\ SobrantesAcotados /\ Apuntado /\ [Next]_vars => (SobrantesAcotados /\ Apuntado)'
  BY AcotadosPaso
<1>2. QED
  BY <1>1, AcotadosInicial, AlcanzanSiempre, PTL DEF Spec

-----------------------------------------------------------------------------
(* What can bring the kernel down, under FIFO and without FINALIZAR_PROCESO. *)
(* Every unit of a semaphore has an element of its list, so no thread takes  *)
(* from an empty one, and no interruption is ever sent.                      *)

ColasCubren ==
  /\ sem["NEW"] + PorSacar("NEW") <= Len(cola["NEW"])
  /\ sem["READY"] + Cardinality(EnLista("READY")) <= Len(cola["READY"])
IoCubre == \A i \in Interfaces : ioSem[i] + Uno(ioPc[i] = "obtener") <= Len(ioCola[i])
Sereno ==
  /\ canalInt = <<>>
  /\ pc["consola"] \in {"listo", "trabada"}
  /\ pc["corto"] \in {"elegir", "cpu", "ready", "ejecutar"}
  /\ pc["quantum"] = "ninguno"
  /\ pc["largo"] = "mostrar" => listado["largo"].lista = "READY"

Cubren == ColasCubren /\ IoCubre /\ Sereno

(* A step after which both programs are as they were, or that ends a walk   *)
(* over a list that shrank                                                   *)
Aguanta == UNCHANGED <<vivo, cpuViva>> \/ \E l \in Lectores : listado[l].rota /\ ~listado'[l].rota

LEMMA CubrenInicial == Init => Cubren
<1> SUFFICES ASSUME Init PROVE Cubren
  OBVIOUS
<1>1. /\ cola["NEW"] = <<>> /\ cola["READY"] = <<>> /\ canalInt = <<>>
      /\ \A l \in Lectores : listado[l].lista = "NINGUNA"
      /\ pc["consola"] = "listo" /\ pc["largo"] = "espera" /\ pc["corto"] = "elegir" /\ pc["quantum"] = "ninguno"
      /\ \A i \in Interfaces : ioCola[i] = <<>> /\ ioSem[i] = 0 /\ ioPc[i] = "esperar"
  BY DEF Init, CpuInit, KernelInit, SinListado
<1>2. sem["NEW"] = 0 /\ sem["READY"] = 0
  BY NombresSem DEF Init, KernelInit, SemPlanes
<1>3. EnLista("READY") = {}
  BY <1>1 DEF EnLista
<1>4. Cardinality(EnLista("READY")) = 0
  BY <1>3, FS_EmptySet
<1>5. QED
  BY <1>1, <1>2, <1>4 DEF Cubren, ColasCubren, IoCubre, Sereno, PorSacar, Uno

(* The parts that a step leaves alone *)
LEMMA IoCubreQuieto ==
  ASSUME IoCubre, UNCHANGED <<ioCola, ioSem, ioPc>>
  PROVE  IoCubre'
  BY DEF IoCubre

LEMMA ColasCubrenQuietas ==
  ASSUME Tipos, ColasCubren, UNCHANGED cola, UNCHANGED listado \/ RomperListados("READY"),
         sem'["NEW"] = sem["NEW"], sem'["READY"] = sem["READY"], PorSacar("NEW")' = PorSacar("NEW")
  PROVE  ColasCubren'
<1>1. EnLista("READY")' = EnLista("READY")
  BY EnListaMarco
<1>2. QED
  BY <1>1 DEF ColasCubren

LEMMA CubrenMarco ==
  ASSUME Tipos, Cubren, UNCHANGED <<cola, listado, ioCola, ioSem, ioPc, canalInt>>,
         sem'["NEW"] = sem["NEW"], sem'["READY"] = sem["READY"],
         pc'["largo"] = pc["largo"], pc'["quantum"] = pc["quantum"], pc'["consola"] \in {"listo", "trabada"},
         pc'["corto"] \in {"elegir", "cpu", "ready", "ejecutar"}
  PROVE  Cubren'
<1>1. ColasCubren'
  BY ColasCubrenQuietas DEF Cubren, PorSacar
<1>2. IoCubre'
  BY IoCubreQuieto DEF Cubren
<1>3. Sereno'
  BY DEF Cubren, Sereno
<1>4. QED
  BY <1>1, <1>2, <1>3 DEF Cubren

LEMMA CubrenCpu ==
  ASSUME Tipos, Cubren, Cpu
  PROVE  Cubren' /\ Aguanta
<1>1. UNCHANGED <<sem, cola, listado, pc, ioCola, ioSem, ioPc, vivo>>
  BY DEF Cpu, kernelVars, listas, hilos, ioVars
<1>2. UNCHANGED <<canalInt, cpuViva>>
  BY DEF Cpu, CpuNext, RecibirPcb, RecibirInterrupcion, AnotarInterrupcion, AtenderInterrupcion, SolicitarIO,
         EnviarPcbFinalizado,
         DesestimarInterrupcion, InformarKernelError, Cubren, Sereno
<1>3. Cubren'
  BY <1>1, <1>2, CubrenMarco DEF Cubren, Sereno
<1>4. QED
  BY <1>1, <1>2, <1>3 DEF Aguanta

LEMMA CubrenGestion ==
  ASSUME Tipos, Cubren,
         \/ ConsolaTrabada \/ DetenerPlanificacion \/ IniciarPlanificacion
         \/ \E k \in Cambios, g \in Grados : CambiarGrado(k, g)
         \/ \E s \in SemPlanes : DetenerCola(s)
         \/ \E k \in Cambios : Cambio(k)
  PROVE  Cubren' /\ Aguanta
<1>1. UNCHANGED <<cola, listado, ioCola, ioSem, ioPc, canalInt, vivo, cpuViva>>
  BY DEF ConsolaTrabada, DetenerPlanificacion, IniciarPlanificacion, CambiarGrado, DetenerCola, Cambio,
         CambioTomar, CambioAjustar, CambioTerminar, listas, ioVars, cpuVars, cpuInterna
<1>2. \A s \in Colas \cup {"EXIT"} : sem'[s] = sem[s]
  <2>1. SemPlanes \subseteq Semaforos \ (Colas \cup {"EXIT"})
        /\ "ORDEN" \in Semaforos \ (Colas \cup {"EXIT"})
        /\ "MULTIPROGRAMACION" \in Semaforos \ (Colas \cup {"EXIT"})
        /\ Colas \cup {"EXIT"} \subseteq Semaforos \ SemPlanes
    BY DEF Semaforos, SemPlanes, Colas
  <2>2. CASE UNCHANGED sem
    BY <2>2
  <2>3. CASE \E s \in SemPlanes \cup {"ORDEN", "MULTIPROGRAMACION"} : Esperar(s) \/ Publicar(s)
    BY <2>1, <2>3, OtroSemaforo
  <2>4. CASE sem' = [s \in Semaforos |-> IF s \in SemPlanes THEN sem[s] + 1 ELSE sem[s]]
    BY <2>1, <2>4
  <2>5. QED
    BY <2>2, <2>3, <2>4
    DEF ConsolaTrabada, DetenerPlanificacion, IniciarPlanificacion, CambiarGrado, DetenerCola, Cambio,
        CambioTomar, CambioAjustar, CambioTerminar
<1>3. /\ pc'["largo"] = pc["largo"] /\ pc'["corto"] = pc["corto"] /\ pc'["quantum"] = pc["quantum"]
      /\ pc'["consola"] \in {pc["consola"], "trabada"}
  <2>1. UNCHANGED pc \/ pc' = [pc EXCEPT !["consola"] = "trabada"]
    BY DEF ConsolaTrabada, DetenerPlanificacion, IniciarPlanificacion, CambiarGrado, DetenerCola, Cambio,
           CambioTomar, CambioAjustar, CambioTerminar, Ir, hilos
  <2>2. QED
    BY <2>1 DEF Tipos, TypeOK, HilosTypeOK, Hilos
<1>4. Cubren'
  BY <1>1, <1>2, <1>3, CubrenMarco DEF Cubren, Sereno, Colas
<1>5. QED
  BY <1>1, <1>4 DEF Aguanta

LEMMA CubrenIniciar ==
  ASSUME Tipos, Cubren, IniciarProceso
  PROVE  Cubren' /\ Aguanta
<1>1. UNCHANGED <<listado, pc, ioCola, ioSem, ioPc, canalInt, vivo, cpuViva>>
      /\ cola' = [cola EXCEPT !["NEW"] = Append(@, identificador)]
  BY DEF IniciarProceso, hilos, ioVars, cpuVars, cpuInterna
<1>2. identificador \in Pids
  <2>1. identificador \in 1..(MaxPid + 1) /\ identificador <= MaxPid
    BY DEF IniciarProceso, Tipos, TypeOK, GestionTypeOK
  <2>2. QED
    BY <2>1, MaxPidAssumption
<1>3. sem'["NEW"] = sem["NEW"] + 1 /\ sem'["READY"] = sem["READY"] /\ sem["NEW"] \in Nat
  BY NombresSem DEF IniciarProceso, Publicar, Tipos, TypeOK, SemTypeOK
<1>4. Len(cola'["NEW"]) = Len(cola["NEW"]) + 1 /\ cola'["READY"] = cola["READY"] /\ Len(cola["NEW"]) \in Nat
  BY <1>1, <1>2, AppendProperties, LenProperties DEF Tipos, TypeOK, ListasTypeOK
<1>5. ColasCubren'
  <2>1. EnLista("READY")' = EnLista("READY") /\ PorSacar("NEW")' = PorSacar("NEW") /\ PorSacar("NEW") \in {0, 1}
    BY <1>1, EnListaMarco DEF PorSacar, Uno
  <2>2. sem'["NEW"] + PorSacar("NEW")' <= Len(cola'["NEW"])
    BY <1>3, <1>4, <2>1 DEF Cubren, ColasCubren
  <2>3. QED
    BY <1>3, <1>4, <2>1, <2>2 DEF Cubren, ColasCubren
<1>6. IoCubre' /\ Sereno'
  BY <1>1, IoCubreQuieto DEF Cubren, Sereno
<1>7. QED
  BY <1>1, <1>5, <1>6 DEF Cubren, Aguanta

(* With MaxFinalizar = 0 the console gives no FINALIZAR_PROCESO. *)
LEMMA SinFinalizar ==
  ASSUME MaxFinalizar = 0, Tipos, Cubren,
         (\E p \in Pids : FinalizarBuscar(p)) \/ FinalizarVerificar \/ FinalizarComparar \/ FinalizarEliminar
           \/ FinalizarEncolar
  PROVE  FALSE
<1>1. finalizaciones = 0 /\ pc["consola"] \in {"listo", "trabada"}
  BY DEF Tipos, TypeOK, GestionTypeOK, Cubren, Sereno
<1>2. QED
  BY <1>1 DEF FinalizarBuscar, FinalizarVerificar, FinalizarComparar, FinalizarEliminar, FinalizarEncolar, En

(* send_new_to_ready *)
LEMMA CubrenLargoEsperar ==
  ASSUME Tipos, Cubren, LargoEsperar \/ LargoOrden \/ LargoMulti
  PROVE  Cubren' /\ Aguanta
<1>1. UNCHANGED <<cola, listado, ioCola, ioSem, ioPc, canalInt, vivo, cpuViva>>
  BY DEF LargoEsperar, LargoOrden, LargoMulti, ioVars, listas, cpuVars, cpuInterna
<1>2. pc \in [Hilos -> Pasos] /\ {"largo", "consola", "corto", "quantum"} \subseteq Hilos
  BY DEF Tipos, TypeOK, HilosTypeOK, Hilos
<1>3. sem'["READY"] = sem["READY"] /\ sem["NEW"] \in Nat
  BY NombresSem DEF LargoEsperar, LargoOrden, LargoMulti, Esperar, Tipos, TypeOK, SemTypeOK
<1>4. sem'["NEW"] + PorSacar("NEW")' <= Len(cola'["NEW"])
  <2>1. sem["NEW"] + PorSacar("NEW") <= Len(cola["NEW"]) /\ Len(cola["NEW"]) \in Nat
    BY LenProperties DEF Cubren, ColasCubren, Tipos, TypeOK, ListasTypeOK
  <2>2. CASE LargoEsperar
    <3>1. sem["NEW"] > 0 /\ sem'["NEW"] = sem["NEW"] - 1 /\ pc["largo"] = "espera"
      BY <2>2, NombresSem DEF LargoEsperar, Esperar, En, Tipos, TypeOK, SemTypeOK
    <3>2. PorSacar("NEW") = 0 /\ PorSacar("NEW")' \in {0, 1}
      BY <3>1 DEF PorSacar, Uno
    <3>3. QED
      BY <1>1, <1>3, <2>1, <3>1, <3>2
  <2>3. CASE LargoOrden \/ LargoMulti
    <3>1. sem'["NEW"] = sem["NEW"]
      BY <2>3, NombresSem DEF LargoOrden, LargoMulti, Esperar, Tipos, TypeOK, SemTypeOK
    <3>2. pc["largo"] \in {"orden", "multi"} /\ pc'["largo"] \in {"multi", "sacar"}
      BY <1>2, <2>3 DEF LargoOrden, LargoMulti, En, Ir
    <3>3. PorSacar("NEW") = 1 /\ PorSacar("NEW")' = 1
      BY <3>2 DEF PorSacar, Uno
    <3>4. QED
      BY <1>1, <2>1, <3>1, <3>3
  <2>4. QED
    BY <2>2, <2>3
<1>5. ColasCubren'
  <2>1. EnLista("READY")' = EnLista("READY")
    BY <1>1, EnListaMarco
  <2>2. QED
    BY <1>1, <1>3, <1>4, <2>1 DEF Cubren, ColasCubren
<1>6. Sereno'
  BY <1>1, <1>2 DEF Cubren, Sereno, LargoEsperar, LargoOrden, LargoMulti, Ir
<1>7. QED
  BY <1>1, <1>5, <1>6, IoCubreQuieto DEF Cubren, Aguanta

LEMMA CubrenLargoSacar ==
  ASSUME Tipos, Cubren, LargoSacar
  PROVE  Cubren' /\ Aguanta
<1>1. UNCHANGED <<listado, ioCola, ioSem, ioPc, canalInt, cpuViva>>
  BY DEF LargoSacar, ioVars, cpuVars, cpuInterna
<1>2. /\ pc["largo"] = "sacar" /\ pc'["largo"] = "agregar" /\ pc'["consola"] = pc["consola"]
      /\ pc'["corto"] = pc["corto"] /\ pc'["quantum"] = pc["quantum"]
  BY DEF LargoSacar, En, Ir, Tipos, TypeOK, HilosTypeOK, Hilos
<1>3. sem'["READY"] = sem["READY"] /\ sem'["NEW"] = sem["NEW"] /\ sem["NEW"] \in Nat
  BY NombresSem DEF LargoSacar, Esperar, Tipos, TypeOK, SemTypeOK
<1>4. cola["NEW"] \in Seq(Pids) /\ Len(cola["NEW"]) \in Nat
  BY LenProperties DEF Tipos, TypeOK, ListasTypeOK
<1>5. PorSacar("NEW") = 1 /\ PorSacar("NEW")' = 0
  BY <1>2 DEF PorSacar, Uno
<1>6. cola["NEW"] # <<>>
  <2>1. Len(cola["NEW"]) >= 1
    BY <1>3, <1>4, <1>5 DEF Cubren, ColasCubren
  <2>2. QED
    BY <2>1
<1>7. /\ UNCHANGED vivo /\ cola'["READY"] = cola["READY"] /\ Len(cola'["NEW"]) = Len(cola["NEW"]) - 1
  <2>1. UNCHANGED vivo /\ cola' = [cola EXCEPT !["NEW"] = ListRemove(@)]
    BY <1>6 DEF LargoSacar
  <2>2. cola'["NEW"] = ListRemove(cola["NEW"]) /\ cola'["READY"] = cola["READY"]
    BY <2>1 DEF Tipos, TypeOK, ListasTypeOK
  <2>3. QED
    BY <1>4, <1>6, <2>1, <2>2, ListRemoveTipo
<1>8. ColasCubren'
  <2>1. EnLista("READY")' = EnLista("READY")
    BY <1>1, EnListaMarco
  <2>2. sem'["NEW"] + PorSacar("NEW")' <= Len(cola'["NEW"])
    BY <1>3, <1>4, <1>5, <1>7 DEF Cubren, ColasCubren
  <2>3. QED
    BY <1>3, <1>7, <2>1, <2>2 DEF Cubren, ColasCubren
<1>9. Sereno'
  BY <1>1, <1>2 DEF Cubren, Sereno
<1>10. QED
  BY <1>1, <1>7, <1>8, <1>9, IoCubreQuieto DEF Cubren, Aguanta

(* To a READY list, and to its semaphore after the log *)
LEMMA CubrenAlListar ==
  ASSUME Tipos, ColasCubren, NEW l \in Lectores, NEW x \in {"READY", "AUX_READY"}, NEW p \in Pids,
         Listar(l, x), listado[l].lista = "NINGUNA", cola' = [cola EXCEPT ![x] = Append(@, p)],
         sem'["NEW"] = sem["NEW"], sem'["READY"] = sem["READY"], PorSacar("NEW")' = PorSacar("NEW")
  PROVE  ColasCubren'
<1>1. cola \in [Colas -> Seq(Pids)] /\ {"NEW", "READY", "AUX_READY"} = Colas
  BY DEF Tipos, TypeOK, ListasTypeOK, Colas
<1>2. PICK k, n, s, u \in Nat : /\ k = Cardinality(EnLista("READY")) /\ n = Len(cola["READY"])
                                /\ s = sem["READY"] /\ u = Uno("READY" = x)
  BY <1>1, PendientesEs DEF Uno
<1>3. Cardinality(EnLista("READY")') = k + u
  BY <1>1, <1>2, EnListaListar
<1>4. Len(cola'["READY"]) = n + u
  <2>1. CASE x = "READY"
    <3>1. cola'["READY"] = Append(cola["READY"], p)
      BY <1>1, <2>1
    <3>2. QED
      BY <1>1, <1>2, <2>1, <3>1, AppendProperties DEF Uno
  <2>2. CASE x # "READY"
    <3>1. cola'["READY"] = cola["READY"] /\ u = 0
      BY <1>1, <1>2, <2>2 DEF Uno
    <3>2. Len(cola'["READY"]) = Len(cola["READY"])
      BY <3>1
    <3>3. n + u = n
      BY <3>1
    <3>4. QED
      BY <1>2, <3>2, <3>3
  <2>3. QED
    BY <2>1, <2>2
<1>5. cola'["NEW"] = cola["NEW"]
  BY <1>1
<1>6. s + (k + u) <= n + u
  BY <1>2 DEF ColasCubren
<1>7. QED
  BY <1>2, <1>3, <1>4, <1>5, <1>6 DEF ColasCubren

LEMMA CubrenAlMostrar ==
  ASSUME Tipos, ColasCubren, NEW l \in Lectores, TerminarListado(l), UNCHANGED cola,
         sem'["READY"] = sem["READY"] + Uno("READY" = listado[l].lista),
         sem'["NEW"] = sem["NEW"], PorSacar("NEW")' = PorSacar("NEW")
  PROVE  ColasCubren'
<1>1. "READY" \in Colas
  BY DEF Colas
<1>2. Cardinality(EnLista("READY")) = Cardinality(EnLista("READY")') + Uno("READY" = listado[l].lista)
  BY <1>1, EnListaTerminar
<1>3. EnLista("READY")' \subseteq EnLista("READY")
  <2>1. /\ \A k \in Lectores \ {l} : listado'[k] = listado[k]
        /\ listado'[l].lista = "NINGUNA"
    BY <1>1, EnListaTerminar
  <2>2. QED
    BY <2>1 DEF EnLista
<1>4. Cardinality(EnLista("READY")') \in Nat
  BY <1>3, EnListaFinita, FS_Subset, FS_CardinalityType
<1>5. PICK k, n, s, u \in Nat : /\ k = Cardinality(EnLista("READY")') /\ n = Len(cola["READY"])
                                /\ s = sem["READY"] /\ u = Uno("READY" = listado[l].lista)
  BY <1>1, <1>4, PendientesEs DEF Uno
<1>6. s + (k + u) <= n
  BY <1>2, <1>5 DEF ColasCubren
<1>7. (s + u) + k <= n
  BY <1>6
<1>8. QED
  BY <1>5, <1>7 DEF ColasCubren

(* The end of a walk takes the kernel down only if the list had shrunk. *)
LEMMA AguantaElListado ==
  ASSUME Tipos, NEW l \in Lectores, TerminarListado(l), UNCHANGED cpuViva
  PROVE  Aguanta
<1>1. listado'[l].rota = FALSE
  BY DEF TerminarListado, SinListado, Tipos, TypeOK, ListasTypeOK
<1>2. CASE listado[l].rota
  BY <1>1, <1>2 DEF Aguanta
<1>3. CASE ~listado[l].rota
  BY <1>3 DEF TerminarListado, Aguanta
<1>4. QED
  BY <1>2, <1>3

LEMMA CubrenLargoAgregar ==
  ASSUME Tipos, Alcanzan, Cubren, vivo, LargoAgregar
  PROVE  Cubren' /\ Aguanta
<1>1. UNCHANGED <<sem, ioCola, ioSem, ioPc, canalInt, vivo, cpuViva>>
  BY DEF LargoAgregar, ioVars, cpuVars, cpuInterna
<1>2. /\ pc["largo"] = "agregar" /\ pc'["largo"] = "mostrar" /\ pc'["consola"] = pc["consola"]
      /\ pc'["corto"] = pc["corto"] /\ pc'["quantum"] = pc["quantum"]
  BY DEF LargoAgregar, En, Ir, Tipos, TypeOK, HilosTypeOK, Hilos
<1>3. local["largo"] \in Pids /\ listado["largo"].lista = "NINGUNA"
  BY <1>2 DEF Tipos, Punteros, Alcanzan, Listando
<1>4. Listar("largo", "READY") /\ cola' = [cola EXCEPT !["READY"] = Append(@, local["largo"])]
  BY DEF LargoAgregar
<1>5. ColasCubren'
  <2>1. PorSacar("NEW")' = PorSacar("NEW")
    BY <1>2 DEF PorSacar, Uno
  <2>2. QED
    BY <1>1, <1>3, <1>4, <2>1, LectoresHay, CubrenAlListar DEF Cubren
<1>6. listado'["largo"].lista = "READY"
  BY <1>3, <1>4, LectoresHay, EnListaListar DEF Colas
<1>7. Sereno'
  BY <1>1, <1>2, <1>6 DEF Cubren, Sereno
<1>8. QED
  BY <1>1, <1>5, <1>7, IoCubreQuieto DEF Cubren, Aguanta

LEMMA CubrenLargoMostrar ==
  ASSUME Tipos, Cubren, LargoMostrar
  PROVE  Cubren' /\ Aguanta
<1>1. UNCHANGED <<cola, ioCola, ioSem, ioPc, canalInt, cpuViva>>
  BY DEF LargoMostrar, ioVars, cpuVars, cpuInterna
<1>2. /\ pc["largo"] = "mostrar" /\ pc'["largo"] = "espera" /\ pc'["consola"] = pc["consola"]
      /\ pc'["corto"] = pc["corto"] /\ pc'["quantum"] = pc["quantum"]
  BY DEF LargoMostrar, En, Ir, Tipos, TypeOK, HilosTypeOK, Hilos
<1>3. TerminarListado("largo") /\ listado["largo"].lista = "READY"
  BY <1>2 DEF LargoMostrar, Cubren, Sereno
<1>4. sem'["READY"] = sem["READY"] + Uno("READY" = listado["largo"].lista) /\ sem'["NEW"] = sem["NEW"]
  BY <1>3, NombresSem DEF LargoMostrar, Uno, Tipos, TypeOK, SemTypeOK
<1>5. ColasCubren'
  <2>1. PorSacar("NEW")' = PorSacar("NEW")
    BY <1>2 DEF PorSacar, Uno
  <2>2. QED
    BY <1>1, <1>3, <1>4, <2>1, LectoresHay, CubrenAlMostrar DEF Cubren
<1>6. Sereno'
  BY <1>1, <1>2 DEF Cubren, Sereno
<1>7. QED
  BY <1>1, <1>3, <1>5, <1>6, LectoresHay, AguantaElListado, IoCubreQuieto DEF Cubren

LEMMA CubrenEndProcess ==
  ASSUME Tipos, Cubren, EndProcess
  PROVE  Cubren' /\ Aguanta
<1>1. UNCHANGED <<cola, listado, pc, ioCola, ioSem, ioPc, canalInt, vivo, cpuViva>>
  BY DEF EndProcess, hilos, ioVars, cpuVars, cpuInterna
<1>2. sem'["READY"] = sem["READY"] /\ sem'["NEW"] = sem["NEW"]
  BY NombresSem DEF EndProcess, Tipos, TypeOK, SemTypeOK
<1>3. Cubren'
  BY <1>1, <1>2, CubrenMarco DEF Cubren, Sereno
<1>4. QED
  BY <1>1, <1>3 DEF Aguanta

(* planificador_FIFO: no quantum thread is ever made. *)
LEMMA CubrenCorto ==
  ASSUME Algoritmo = "FIFO", Tipos, Cubren, CortoPlazo \/ Quantum
  PROVE  Cubren' /\ Aguanta
<1>1. SemTypeOK /\ HilosTypeOK /\ ListasTypeOK
  BY DEF Tipos, TypeOK
<1>2. pc["corto"] \in {"elegir", "cpu", "ready", "ejecutar"} /\ pc["quantum"] = "ninguno"
  BY DEF Cubren, Sereno
<1>3. CortoElegir \/ CortoCpu \/ CortoSacar("ready", "READY") \/ CortoEjecutar
  BY <1>2 DEF CortoPlazo, Quantum, CortoSacar, InterrupcionQuantum, CortoUnir, QuantumCrear, QuantumVencer, En
<1>4. CASE CortoElegir \/ CortoCpu \/ CortoEjecutar
  <2>1. UNCHANGED <<cola, listado, ioCola, ioSem, ioPc, canalInt, vivo, cpuViva>>
    BY <1>4 DEF CortoElegir, CortoCpu, CortoEjecutar, listas, ioVars, cpuVars, cpuInterna
  <2>2. sem'["READY"] = sem["READY"] /\ sem'["NEW"] = sem["NEW"]
    BY <1>1, <1>4, NombresSem DEF CortoElegir, CortoCpu, CortoEjecutar, Esperar, SemTypeOK
  <2>3. /\ pc'["largo"] = pc["largo"] /\ pc'["quantum"] = pc["quantum"] /\ pc'["consola"] = pc["consola"]
        /\ pc'["corto"] \in {"elegir", "cpu", "ready", "ejecutar"}
    BY <1>1, <1>2, <1>4 DEF CortoElegir, CortoCpu, CortoEjecutar, Ir, HilosTypeOK, Hilos
  <2>4. Cubren'
    BY <2>1, <2>2, <2>3, CubrenMarco DEF Cubren, Sereno
  <2>5. QED
    BY <2>1, <2>4 DEF Aguanta
<1>5. CASE CortoSacar("ready", "READY")
  <2>1. UNCHANGED <<ioCola, ioSem, ioPc, canalInt, cpuViva>>
    BY <1>5 DEF CortoSacar, ioVars, cpuVars, cpuInterna
  <2>2. sem["READY"] \in Nat /\ sem["READY"] > 0 /\ sem'["READY"] = sem["READY"] - 1 /\ sem'["NEW"] = sem["NEW"]
    BY <1>1, <1>5, NombresSem DEF CortoSacar, Esperar, SemTypeOK
  <2>3. /\ pc'["largo"] = pc["largo"] /\ pc'["quantum"] = pc["quantum"] /\ pc'["consola"] = pc["consola"]
        /\ pc'["corto"] = "ejecutar"
    BY <1>1, <1>5 DEF CortoSacar, Ir, HilosTypeOK, Hilos
  <2>4. PICK k, n, s \in Nat : /\ k = Cardinality(EnLista("READY")) /\ n = Len(cola["READY"]) /\ s = sem["READY"]
    BY <1>1, <2>2, EnListaFinita, LenProperties DEF ListasTypeOK
  <2>5. cola["READY"] # <<>>
    <3>1. n > 0
      BY <2>2, <2>4 DEF Cubren, ColasCubren
    <3>2. QED
      BY <2>4, <3>1
  <2>6. /\ UNCHANGED vivo /\ RomperListados("READY") /\ cola' = [cola EXCEPT !["READY"] = ListRemove(@)]
    BY <1>5, <2>5 DEF CortoSacar
  <2>7. cola'["NEW"] = cola["NEW"] /\ cola'["READY"] = ListRemove(cola["READY"]) /\ cola["READY"] \in Seq(Pids)
    BY <1>1, <2>6 DEF ListasTypeOK
  <2>8. Len(cola'["READY"]) = n - 1
    BY <2>4, <2>5, <2>7, ListRemoveTipo
  <2>9. ColasCubren'
    <3>1. EnLista("READY")' = EnLista("READY") /\ PorSacar("NEW")' = PorSacar("NEW")
      BY <2>3, <2>6, EnListaMarco DEF PorSacar
    <3>2. (s - 1) + k <= n - 1
      BY <2>4 DEF Cubren, ColasCubren
    <3>3. QED
      BY <2>2, <2>4, <2>7, <2>8, <3>1, <3>2 DEF Cubren, ColasCubren
  <2>10. Sereno'
    <3>1. listado'["largo"].lista = listado["largo"].lista
      <4>1. [listado["largo"] EXCEPT !.rota = TRUE].lista = listado["largo"].lista
        BY <1>1, LectoresHay DEF ListasTypeOK, Listados
      <4>2. QED
        BY <2>6, <4>1, LectoresHay DEF RomperListados
    <3>2. QED
      BY <2>1, <2>3, <3>1 DEF Cubren, Sereno
  <2>11. QED
    BY <2>1, <2>6, <2>9, <2>10, IoCubreQuieto DEF Cubren, Aguanta
<1>6. QED
  BY <1>3, <1>4, <1>5

(* The dispatch server *)
LEMMA CubrenDespacho ==
  ASSUME Algoritmo = "FIFO", Tipos, Alcanzan, Cubren, vivo, Despacho
  PROVE  Cubren' /\ Aguanta
<1>1. SemTypeOK /\ HilosTypeOK /\ ListasTypeOK /\ IoTypeOK
  BY DEF Tipos, TypeOK
<1>2. /\ UNCHANGED canalInt /\ UNCHANGED cpuViva
      /\ \A h \in {"consola", "largo", "corto", "quantum"} : pc'[h] = pc[h]
  <2>1. UNCHANGED <<canalInt, cpuViva>>
    BY DEF Despacho, RecibirPcbOSolicitud, RecibirDe, Cancelar, RecibirInterrumpido, ActualizarPcbQuantum,
           AgregarDeExecuteAReady, MostrarExecuteAReady, AgregarAExit, ActualizarPcbFinal, Bloquear,
           AgregarProcesoBloqueado, cpuVars, cpuInterna
  <2>2. \E x : Ir("despacho", x)
    BY DEF Despacho, RecibirPcbOSolicitud, Cancelar, CancelarQuantum, RecibirInterrumpido, ActualizarPcbQuantum,
           AgregarDeExecuteAReady, MostrarExecuteAReady, AgregarAExit, ActualizarPcbFinal, Bloquear,
           AgregarProcesoBloqueado, Terminar
  <2>3. QED
    BY <1>1, <2>1, <2>2 DEF Ir, HilosTypeOK, Hilos
<1>3. ASSUME UNCHANGED <<cola, listado, ioCola, ioSem, ioPc, vivo>>, sem'["NEW"] = sem["NEW"], sem'["READY"] = sem["READY"]
      PROVE  Cubren' /\ Aguanta
  BY <1>2, <1>3, CubrenMarco DEF Cubren, Sereno, Aguanta
<1>4. CASE RecibirPcbOSolicitud \/ RecibirInterrumpido
  BY <1>3, <1>4 DEF RecibirPcbOSolicitud, RecibirInterrumpido, listas, ioVars
<1>5. CASE Cancelar
  BY <1>3, <1>5 DEF Cancelar, CancelarQuantum, listas, ioVars
<1>6. CASE ActualizarPcbQuantum
  BY <1>3, <1>6 DEF ActualizarPcbQuantum, ioVars
<1>7. CASE AgregarAExit \/ ActualizarPcbFinal \/ Bloquear
  <2>1. UNCHANGED <<cola, listado, ioCola, ioSem, ioPc, vivo>>
    BY <1>7 DEF AgregarAExit, ActualizarPcbFinal, Bloquear, ioVars
  <2>2. sem'["NEW"] = sem["NEW"] /\ sem'["READY"] = sem["READY"]
    BY <1>1, <1>7, NombresSem DEF AgregarAExit, ActualizarPcbFinal, Bloquear, Esperar, Publicar, SemTypeOK
  <2>3. QED
    BY <1>3, <2>1, <2>2
<1>8. CASE AgregarProcesoBloqueado
  <2>1. UNCHANGED <<cola, listado, ioPc, vivo>>
        /\ ioCola' = [ioCola EXCEPT ![mensaje.interfaz] = Append(@, mensaje.pid)]
        /\ ioSem' = [ioSem EXCEPT ![mensaje.interfaz] = @ + 1]
    BY <1>8 DEF AgregarProcesoBloqueado, listas
  <2>2. sem'["NEW"] = sem["NEW"] /\ sem'["READY"] = sem["READY"]
    BY <1>1, <1>8, NombresSem DEF AgregarProcesoBloqueado, SemTypeOK
  <2>3. mensaje.pid \in Pids
    BY <1>8 DEF AgregarProcesoBloqueado, En, Tipos, Punteros, Mensajes
  <2>4. IoCubre'
    <3>1. ASSUME NEW i \in Interfaces PROVE ioSem'[i] + Uno(ioPc'[i] = "obtener") <= Len(ioCola'[i])
      <4>1. /\ ioSem[i] + Uno(ioPc[i] = "obtener") <= Len(ioCola[i])
            /\ ioSem[i] \in Nat /\ Uno(ioPc[i] = "obtener") \in {0, 1} /\ ioCola[i] \in Seq(Pids) /\ Len(ioCola[i]) \in Nat
        BY <1>1, LenProperties DEF Cubren, IoCubre, IoTypeOK, Uno
      <4>2. CASE i = mensaje.interfaz
        <5>1. ioCola'[i] = Append(ioCola[i], mensaje.pid) /\ ioSem'[i] = ioSem[i] + 1
          BY <1>1, <2>1, <4>2 DEF IoTypeOK
        <5>2. Len(ioCola'[i]) = Len(ioCola[i]) + 1
          BY <2>3, <4>1, <5>1, AppendProperties
        <5>3. QED
          BY <2>1, <4>1, <5>1, <5>2
      <4>3. CASE i # mensaje.interfaz
        BY <1>1, <2>1, <4>1, <4>3 DEF IoTypeOK
      <4>4. QED
        BY <4>2, <4>3
    <3>2. QED
      BY <3>1 DEF IoCubre
  <2>5. ColasCubren'
    BY <1>2, <2>1, <2>2, ColasCubrenQuietas DEF Cubren, PorSacar
  <2>6. Sereno'
    BY <1>2, <2>1 DEF Cubren, Sereno
  <2>7. QED
    BY <1>2, <2>1, <2>4, <2>5, <2>6 DEF Cubren, Aguanta
<1>9. CASE AgregarDeExecuteAReady
  <2>1. UNCHANGED <<ioCola, ioSem, ioPc, vivo>>
    BY <1>9 DEF AgregarDeExecuteAReady, ioVars
  <2>2. sem'["NEW"] = sem["NEW"] /\ sem'["READY"] = sem["READY"]
    BY <1>1, <1>9, NombresSem DEF AgregarDeExecuteAReady, Esperar, SemTypeOK
  <2>3. mensaje.pid \in Pids /\ listado["despacho"].lista = "NINGUNA"
    BY <1>9 DEF AgregarDeExecuteAReady, En, Tipos, Punteros, Mensajes, Alcanzan, Listando
  <2>4. PICK x \in {"READY", "AUX_READY"} :
          Listar("despacho", x) /\ cola' = [cola EXCEPT ![x] = Append(@, mensaje.pid)]
    BY <1>9 DEF AgregarDeExecuteAReady, ColaReadyDe
  <2>5. ColasCubren'
    <3>1. PorSacar("NEW")' = PorSacar("NEW")
      BY <1>2 DEF PorSacar
    <3>2. QED
      BY <2>2, <2>3, <2>4, <3>1, LectoresHay, CubrenAlListar DEF Cubren
  <2>6. listado'["largo"] = listado["largo"]
    BY <2>4 DEF Listar, ListasTypeOK
  <2>7. Sereno'
    BY <1>2, <2>6 DEF Cubren, Sereno
  <2>8. QED
    BY <1>2, <2>1, <2>5, <2>7, IoCubreQuieto DEF Cubren, Aguanta
<1>10. CASE MostrarExecuteAReady
  <2>1. UNCHANGED <<cola, ioCola, ioSem, ioPc>> /\ TerminarListado("despacho")
    BY <1>10 DEF MostrarExecuteAReady, ioVars
  <2>2. /\ sem'["NEW"] = sem["NEW"]
        /\ sem'["READY"] = sem["READY"] + Uno("READY" = listado["despacho"].lista)
    <3>1. listado["despacho"].lista \in {"NINGUNA", "READY", "AUX_READY"}
      BY LectoresHay, ListaLeida
    <3>2. sem["READY"] \in Nat
      BY <1>1, NombresSem DEF SemTypeOK
    <3>3. QED
      BY <1>1, <1>10, <3>1, <3>2, NombresSem DEF MostrarExecuteAReady, SemTypeOK, Uno
  <2>3. ColasCubren'
    <3>1. PorSacar("NEW")' = PorSacar("NEW")
      BY <1>2 DEF PorSacar
    <3>2. QED
      BY <2>1, <2>2, <3>1, LectoresHay, CubrenAlMostrar DEF Cubren
  <2>4. listado'["largo"] = listado["largo"]
    BY <2>1, LectoresHay DEF TerminarListado
  <2>5. Sereno'
    BY <1>2, <2>4 DEF Cubren, Sereno
  <2>6. QED
    BY <1>2, <2>1, <2>3, <2>5, LectoresHay, AguantaElListado, IoCubreQuieto DEF Cubren
<1>11. QED
  BY <1>4, <1>5, <1>6, <1>7, <1>8, <1>9, <1>10 DEF Despacho

(* atender_kernel_IO *)
LEMMA CubrenIO ==
  ASSUME Algoritmo = "FIFO", Tipos, Alcanzan, Cubren, vivo, NEW i \in Interfaces, HiloIO(i)
  PROVE  Cubren' /\ Aguanta
<1>1. SemTypeOK /\ ListasTypeOK /\ IoTypeOK /\ i \in Lectores
  BY LectoresHay DEF Tipos, TypeOK
<1>2. UNCHANGED <<canalInt, cpuViva, pc>>
  BY DEF HiloIO, IoEsperar, IoObtener, IoResponder, AgregarDeBlockedAReady, MostrarBlockedAReady,
         cpuVars, cpuInterna, hilos
<1>3. \A j \in Interfaces : /\ ioSem[j] + Uno(ioPc[j] = "obtener") <= Len(ioCola[j])
                            /\ ioSem[j] \in Nat /\ Uno(ioPc[j] = "obtener") \in {0, 1}
                            /\ ioCola[j] \in Seq(Pids) /\ Len(ioCola[j]) \in Nat
  BY <1>1, LenProperties DEF Cubren, IoCubre, IoTypeOK, Uno
<1>4. ASSUME \A j \in Interfaces \ {i} : /\ ioSem'[j] = ioSem[j] /\ ioPc'[j] = ioPc[j] /\ ioCola'[j] = ioCola[j],
             ioSem'[i] + Uno(ioPc'[i] = "obtener") <= Len(ioCola'[i])
      PROVE  IoCubre'
  BY <1>3, <1>4 DEF IoCubre
<1>5. CASE IoEsperar(i) \/ IoObtener(i) \/ IoResponder(i)
  <2>1. UNCHANGED <<sem, cola, listado>>
    BY <1>5 DEF IoEsperar, IoObtener, IoResponder, listas
  <2>2. ColasCubren' /\ Sereno'
    BY <1>2, <2>1, ColasCubrenQuietas DEF Cubren, Sereno, PorSacar
  <2>3. CASE IoEsperar(i)
    <3>1. UNCHANGED <<ioCola, vivo>> /\ ioSem[i] > 0 /\ ioPc[i] = "esperar" /\ ioSem'[i] = ioSem[i] - 1
          /\ \A j \in Interfaces \ {i} : ioSem'[j] = ioSem[j] /\ ioPc'[j] = ioPc[j]
      BY <1>1, <2>3 DEF IoEsperar, IrIO, IoTypeOK
    <3>2. Uno(ioPc[i] = "obtener") = 0 /\ Uno(ioPc'[i] = "obtener") \in {0, 1}
      BY <3>1 DEF Uno
    <3>3. ioSem'[i] + Uno(ioPc'[i] = "obtener") <= Len(ioCola'[i])
      BY <1>3, <3>1, <3>2
    <3>4. IoCubre'
      BY <1>4, <3>1, <3>3
    <3>5. QED
      BY <1>2, <2>2, <3>1, <3>4 DEF Cubren, Aguanta
  <2>4. CASE IoObtener(i)
    <3>1. Uno(ioPc[i] = "obtener") = 1 /\ UNCHANGED ioSem
      BY <2>4 DEF IoObtener, Uno
    <3>2. ioCola[i] # <<>>
      <4>1. Len(ioCola[i]) >= 1
        BY <1>3, <3>1
      <4>2. QED
        BY <4>1
    <3>3. /\ UNCHANGED vivo /\ ioPc'[i] = "servicio" /\ ioCola'[i] = ListRemove(ioCola[i])
          /\ \A j \in Interfaces \ {i} : ioCola'[j] = ioCola[j] /\ ioPc'[j] = ioPc[j]
      BY <1>1, <2>4, <3>2 DEF IoObtener, IrIO, IoTypeOK
    <3>4. Len(ioCola'[i]) = Len(ioCola[i]) - 1 /\ Uno(ioPc'[i] = "obtener") = 0
      BY <1>3, <3>2, <3>3, ListRemoveTipo DEF Uno
    <3>5. ioSem'[i] + Uno(ioPc'[i] = "obtener") <= Len(ioCola'[i])
      BY <1>3, <3>1, <3>4
    <3>6. IoCubre'
      BY <1>4, <3>1, <3>3, <3>5
    <3>7. QED
      BY <1>2, <2>2, <3>3, <3>6 DEF Cubren, Aguanta
  <2>5. CASE IoResponder(i)
    <3>1. UNCHANGED <<ioCola, ioSem, vivo>> /\ ioPc[i] # "obtener" /\ ioPc'[i] # "obtener"
          /\ \A j \in Interfaces \ {i} : ioPc'[j] = ioPc[j]
      BY <1>1, <2>5 DEF IoResponder, IrIO, IoTypeOK
    <3>2. Uno(ioPc[i] = "obtener") = 0 /\ Uno(ioPc'[i] = "obtener") = 0
      BY <3>1 DEF Uno
    <3>3. ioSem'[i] + Uno(ioPc'[i] = "obtener") <= Len(ioCola'[i])
      BY <1>3, <3>1, <3>2
    <3>4. IoCubre'
      BY <1>4, <3>1, <3>3
    <3>5. QED
      BY <1>2, <2>2, <3>1, <3>4 DEF Cubren, Aguanta
  <2>6. QED
    BY <1>5, <2>3, <2>4, <2>5
<1>6. ASSUME AgregarDeBlockedAReady(i) \/ MostrarBlockedAReady(i)
      PROVE  IoCubre'
  <2>1. UNCHANGED <<ioCola, ioSem>> /\ ioPc[i] # "obtener" /\ ioPc'[i] # "obtener"
        /\ \A j \in Interfaces \ {i} : ioPc'[j] = ioPc[j]
    BY <1>1, <1>6 DEF AgregarDeBlockedAReady, MostrarBlockedAReady, IrIO, IoTypeOK
  <2>2. Uno(ioPc[i] = "obtener") = 0 /\ Uno(ioPc'[i] = "obtener") = 0
    BY <2>1 DEF Uno
  <2>3. ioSem'[i] + Uno(ioPc'[i] = "obtener") <= Len(ioCola'[i])
    BY <1>3, <2>1, <2>2
  <2>4. QED
    BY <1>4, <2>1, <2>3
<1>7. CASE AgregarDeBlockedAReady(i)
  <2>1. sem'["NEW"] = sem["NEW"] /\ sem'["READY"] = sem["READY"]
    BY <1>1, <1>7, NombresSem DEF AgregarDeBlockedAReady, Esperar, SemTypeOK
  <2>2. ioPid[i] \in Pids /\ listado[i].lista = "NINGUNA" /\ i # "largo"
    BY <1>7, InterfacesAparte DEF AgregarDeBlockedAReady, Tipos, Punteros, Alcanzan, Listando
  <2>3. PICK x \in {"READY", "AUX_READY"} : Listar(i, x) /\ cola' = [cola EXCEPT ![x] = Append(@, ioPid[i])]
    BY <1>7 DEF AgregarDeBlockedAReady, ColaReadyDe
  <2>4. ColasCubren'
    <3>1. PorSacar("NEW")' = PorSacar("NEW")
      BY <1>2 DEF PorSacar
    <3>2. QED
      BY <1>1, <2>1, <2>2, <2>3, <3>1, CubrenAlListar DEF Cubren
  <2>5. listado'["largo"] = listado["largo"]
    BY <1>1, <2>2, <2>3 DEF Listar, ListasTypeOK
  <2>6. Sereno' /\ UNCHANGED vivo
    BY <1>2, <1>7, <2>5 DEF Cubren, Sereno, AgregarDeBlockedAReady
  <2>7. QED
    BY <1>2, <1>6, <1>7, <2>4, <2>6 DEF Cubren, Aguanta
<1>8. CASE MostrarBlockedAReady(i)
  <2>1. UNCHANGED cola /\ TerminarListado(i) /\ i # "largo"
    BY <1>8, InterfacesAparte DEF MostrarBlockedAReady
  <2>2. /\ sem'["NEW"] = sem["NEW"]
        /\ sem'["READY"] = sem["READY"] + Uno("READY" = listado[i].lista)
    <3>1. listado[i].lista \in {"NINGUNA", "READY", "AUX_READY"}
      BY <1>1, ListaLeida
    <3>2. sem["READY"] \in Nat
      BY <1>1, NombresSem DEF SemTypeOK
    <3>3. QED
      BY <1>1, <1>8, <3>1, <3>2, NombresSem DEF MostrarBlockedAReady, SemTypeOK, Uno
  <2>3. ColasCubren'
    <3>1. PorSacar("NEW")' = PorSacar("NEW")
      BY <1>2 DEF PorSacar
    <3>2. QED
      BY <1>1, <2>1, <2>2, <3>1, CubrenAlMostrar DEF Cubren
  <2>4. listado'["largo"] = listado["largo"]
    BY <1>1, <2>1 DEF TerminarListado, ListasTypeOK
  <2>5. Sereno'
    BY <1>2, <2>4 DEF Cubren, Sereno
  <2>6. QED
    BY <1>1, <1>2, <1>6, <1>8, <2>1, <2>3, <2>5, AguantaElListado DEF Cubren
<1>9. QED
  BY <1>5, <1>7, <1>8 DEF HiloIO

LEMMA CubrenPaso ==
  ASSUME Algoritmo = "FIFO", MaxFinalizar = 0
  PROVE  Tipos /\ Alcanzan /\ Cubren /\ [Next]_vars => Cubren' /\ Aguanta
<1> SUFFICES ASSUME Tipos, Alcanzan, Cubren, [Next]_vars PROVE Cubren' /\ Aguanta
  OBVIOUS
<1>1. CASE UNCHANGED vars
  <2>1. UNCHANGED <<cola, listado, ioCola, ioSem, ioPc, canalInt, sem, pc, vivo, cpuViva>>
    BY <1>1 DEF vars, cpuVars, cpuInterna, kernelVars, listas, hilos, ioVars
  <2>2. Cubren'
    BY <2>1, CubrenMarco DEF Cubren, Sereno
  <2>3. QED
    BY <2>1, <2>2 DEF Aguanta
<1>2. CASE vivo /\ Cpu
  BY <1>2, CubrenCpu
<1>3. CASE vivo /\ Kernel
  <2>1. CASE Consola \/ (\E s \in SemPlanes : DetenerCola(s)) \/ (\E k \in Cambios : Cambio(k))
    BY <2>1, CubrenGestion, CubrenIniciar, SinFinalizar DEF Consola
  <2>2. CASE LargoPlazo \/ EndProcess
    BY <1>3, <2>2, CubrenLargoEsperar, CubrenLargoSacar, CubrenLargoAgregar, CubrenLargoMostrar,
       CubrenEndProcess DEF LargoPlazo
  <2>3. CASE CortoPlazo \/ Quantum
    BY <2>3, CubrenCorto
  <2>4. CASE Despacho
    BY <1>3, <2>4, CubrenDespacho
  <2>5. CASE \E i \in Interfaces : HiloIO(i)
    BY <1>3, <2>5, CubrenIO
  <2>6. QED
    BY <1>3, <2>1, <2>2, <2>3, <2>4, <2>5 DEF Kernel
<1>4. QED
  BY <1>1, <1>2, <1>3 DEF Next

(* Under FIFO, and without FINALIZAR_PROCESO, whatever is started, blocked,  *)
(* stopped or regraded, the one thing that can bring the kernel or the CPU   *)
(* down is the walk of a READY list that shrank while it was being logged.   *)
THEOREM SoloCaeListando ==
  ASSUME Algoritmo = "FIFO", MaxFinalizar = 0
  PROVE  Spec => CaeSoloListando
<1>1. Spec => [](Tipos /\ Alcanzan)
  BY AlcanzanSiempre
<1>2. Init => Cubren
  BY CubrenInicial
<1>3. Tipos /\ Alcanzan /\ Cubren /\ [Next]_vars => Cubren'
  BY CubrenPaso
<1>4. Tipos /\ Alcanzan /\ Cubren /\ [Next]_vars
        => [~SinCaidas' => \E l \in Lectores : listado[l].rota /\ ~listado'[l].rota]_<<vivo, cpuViva>>
  BY CubrenPaso DEF Aguanta
<1>5. QED
  BY <1>1, <1>2, <1>3, <1>4, PTL DEF Spec, CaeSoloListando

-----------------------------------------------------------------------------
(* Where each process is, when FINALIZAR_PROCESO is not used                *)

(* The pids of COLA_EXIT *)
PidsDe(s) == [k \in 1..Len(s) |-> s[k].pid]

LEMMA ListaDe ==
  ASSUME NEW S, NEW n \in Nat, NEW f \in [1..n -> S]
  PROVE  f \in Seq(S)
  OBVIOUS

LEMMA PidsDeTipo ==
  ASSUME NEW s \in Seq(Salidas)
  PROVE  /\ PidsDe(s) \in Seq(Pids) /\ Len(PidsDe(s)) = Len(s)
         /\ \A p : Cardinality({k \in DOMAIN s : s[k].pid = p}) = Veces(PidsDe(s), p)
<1>1. Len(s) \in Nat /\ DOMAIN s = 1..Len(s) /\ \A k \in 1..Len(s) : s[k] \in Salidas
  BY LenProperties, ElementOfSeq
<1>2. DOMAIN PidsDe(s) = 1..Len(s) /\ PidsDe(s) \in [1..Len(s) -> Pids]
  BY <1>1 DEF PidsDe, Salidas
<1>3. PidsDe(s) \in Seq(Pids)
  BY <1>1, <1>2, ListaDe
<1>4. Len(PidsDe(s)) = Len(s)
  <2>1. Len(PidsDe(s)) \in Nat /\ DOMAIN PidsDe(s) = 1..Len(PidsDe(s))
    BY <1>3, LenProperties
  <2>2. QED
    BY <1>1, <1>2, <2>1
<1>5. ASSUME NEW p
      PROVE  Cardinality({k \in DOMAIN s : s[k].pid = p}) = Veces(PidsDe(s), p)
  <2>1. {k \in DOMAIN s : s[k].pid = p} = {k \in DOMAIN PidsDe(s) : PidsDe(s)[k] = p}
    BY <1>1 DEF PidsDe
  <2>2. QED
    BY <2>1 DEF Veces
<1>6. QED
  BY <1>3, <1>4, <1>5

LEMMA PidsDeCambio ==
  ASSUME NEW s \in Seq(Salidas)
  PROVE  /\ \A e \in Salidas : PidsDe(Append(s, e)) = Append(PidsDe(s), e.pid)
         /\ s # <<>> => /\ PidsDe(ListRemove(s)) = Tail(PidsDe(s))
                        /\ PidsDe(s) # <<>> /\ Head(PidsDe(s)) = Head(s).pid
         /\ \A p : PidsDe(Reemplazado(s, p)) = PidsDe(s)
<1>1. Len(s) \in Nat /\ DOMAIN s = 1..Len(s) /\ \A k \in 1..Len(s) : s[k] \in Salidas
  BY LenProperties, ElementOfSeq
<1>2. PidsDe(s) \in Seq(Pids) /\ Len(PidsDe(s)) = Len(s)
  BY PidsDeTipo
<1>3. ASSUME NEW e \in Salidas PROVE PidsDe(Append(s, e)) = Append(PidsDe(s), e.pid)
  <2>1. /\ Append(s, e) \in Seq(Salidas) /\ Len(Append(s, e)) = Len(s) + 1
        /\ \A k \in 1..Len(s) : Append(s, e)[k] = s[k]
        /\ Append(s, e)[Len(s) + 1] = e
    BY <1>1, AppendProperties
  <2>2. e.pid \in Pids
    BY DEF Salidas
  <2>3. /\ Append(PidsDe(s), e.pid) \in Seq(Pids) /\ Len(Append(PidsDe(s), e.pid)) = Len(s) + 1
        /\ \A k \in 1..Len(s) : Append(PidsDe(s), e.pid)[k] = s[k].pid
        /\ Append(PidsDe(s), e.pid)[Len(s) + 1] = e.pid
    BY <1>1, <1>2, <2>2, AppendProperties DEF PidsDe
  <2>4. PidsDe(Append(s, e)) \in Seq(Pids) /\ Len(PidsDe(Append(s, e))) = Len(s) + 1
    BY <2>1, PidsDeTipo
  <2>5. \A k \in 1..(Len(s) + 1) : PidsDe(Append(s, e))[k] = Append(PidsDe(s), e.pid)[k]
    BY <1>1, <2>1, <2>3 DEF PidsDe
  <2>6. QED
    BY <2>3, <2>4, <2>5, SeqEqual
<1>4. ASSUME s # <<>>
      PROVE  /\ PidsDe(ListRemove(s)) = Tail(PidsDe(s))
             /\ PidsDe(s) # <<>> /\ Head(PidsDe(s)) = Head(s).pid
  <2>1. /\ Tail(s) \in Seq(Salidas) /\ Len(Tail(s)) = Len(s) - 1 /\ Head(s) = s[1] /\ Len(s) > 0
        /\ \A k \in 1..(Len(s) - 1) : Tail(s)[k] = s[k + 1]
    BY <1>1, <1>4, HeadTailProperties, EmptySeq
  <2>2. PidsDe(s) # <<>>
    BY <1>2, <2>1
  <2>3. /\ Tail(PidsDe(s)) \in Seq(Pids) /\ Len(Tail(PidsDe(s))) = Len(s) - 1 /\ Head(PidsDe(s)) = PidsDe(s)[1]
        /\ \A k \in 1..(Len(s) - 1) : Tail(PidsDe(s))[k] = PidsDe(s)[k + 1]
    BY <1>2, <2>1, <2>2, HeadTailProperties
  <2>4. PidsDe(Tail(s)) \in Seq(Pids) /\ Len(PidsDe(Tail(s))) = Len(s) - 1
    <3>1. \A t \in Seq(Salidas) : PidsDe(t) \in Seq(Pids) /\ Len(PidsDe(t)) = Len(t)
      BY PidsDeTipo
    <3>2. QED
      BY <2>1, <3>1
  <2>5. \A k \in 1..(Len(s) - 1) : PidsDe(Tail(s))[k] = Tail(PidsDe(s))[k]
    BY <1>1, <2>1, <2>3 DEF PidsDe
  <2>6. PidsDe(Tail(s)) = Tail(PidsDe(s))
    BY <2>3, <2>4, <2>5, SeqEqual
  <2>7. PidsDe(s)[1] = s[1].pid
    BY <1>1, <2>1 DEF PidsDe
  <2>8. QED
    BY <2>1, <2>2, <2>3, <2>6, <2>7 DEF ListRemove
<1>5. ASSUME NEW p PROVE PidsDe(Reemplazado(s, p)) = PidsDe(s)
  <2>1. Len(Reemplazado(s, p)) = Len(s)
    BY ReemplazadoTipo
  <2>2. ASSUME NEW k \in 1..Len(s) PROVE Reemplazado(s, p)[k].pid = s[k].pid
    <3>1. s[k] \in Salidas
      BY <1>1
    <3>2. [s[k] EXCEPT !.objeto = IF @ = "nuevo" THEN "tabla" ELSE "liberado"].pid = s[k].pid
      BY <3>1 DEF Salidas
    <3>3. QED
      BY <1>1, <3>2 DEF Reemplazado
  <2>3. QED
    BY <2>1, <2>2 DEF PidsDe
<1>6. QED
  BY <1>3, <1>4, <1>5

(* The places of a process: the lists, the variables of the threads and     *)
(* EXECUTE, the interfaces, and its end.                                    *)
EnColas(p) == Veces(cola["NEW"], p) + Veces(cola["READY"], p) + Veces(cola["AUX_READY"], p)
ConPcb == pc["despacho"] \in {"cancelar", "exit", "bloquear", "encolar", "interrumpido", "aReady"}
EnVariables(p) ==
  Uno(local["largo"] = p) + Uno(pc["corto"] = "ejecutar" /\ local["corto"] = p)
  + Uno(execute = p) + Uno(ConPcb /\ mensaje.pid = p)
Atendidos(p) == {i \in Interfaces : ioPid[i] = p}
EnIo(p) == Cardinality(Atendidos(p)) + Cardinality(Pares(Interfaces, ioCola, p))
EnSalida(p) == Veces(PidsDe(colaExit), p) + finMemoria[p]

LEMMA ParesFinitosHay ==
  ASSUME NEW L \in [Interfaces -> Seq(Pids)], NEW p
  PROVE  IsFiniteSet(Pares(Interfaces, L, p)) /\ Cardinality(Pares(Interfaces, L, p)) \in Nat
<1> DEFINE T == {Fila(i, L[i], p) : i \in Interfaces}
           f == [i \in Interfaces |-> Fila(i, L[i], p)]
<1>1. \A A \in T : IsFiniteSet(A)
  <2>1. \A i \in Interfaces : L[i] \in Seq(Pids)
    OBVIOUS
  <2>2. QED
    BY <2>1, ParesDeUno
<1>2. f \in Surjection(Interfaces, T)
  <2>1. f \in [Interfaces -> T] /\ \A A \in T : \E i \in Interfaces : f[i] = A
    OBVIOUS
  <2>2. QED
    BY <2>1 DEF Surjection
<1>3. IsFiniteSet(T)
  BY <1>2, FS_Surjection, InterfacesAssumption
<1>4. IsFiniteSet(UNION T)
  BY <1>1, <1>3, FS_UNION
<1>5. QED
  BY <1>4, FS_CardinalityType DEF Pares

LEMMA AtendidosTipo ==
  ASSUME Tipos, NEW p
  PROVE  /\ IsFiniteSet(Atendidos(p)) /\ Cardinality(Atendidos(p)) \in Nat
         /\ IsFiniteSet(Pares(Interfaces, ioCola, p)) /\ Cardinality(Pares(Interfaces, ioCola, p)) \in Nat
<1>1. Atendidos(p) \subseteq Interfaces
  BY DEF Atendidos
<1>2. IsFiniteSet(Atendidos(p)) /\ Cardinality(Atendidos(p)) \in Nat
  BY <1>1, InterfacesAssumption, FS_Subset, FS_CardinalityType
<1>3. ioCola \in [Interfaces -> Seq(Pids)]
  BY DEF Tipos, TypeOK, IoTypeOK
<1>4. IsFiniteSet(Pares(Interfaces, ioCola, p)) /\ Cardinality(Pares(Interfaces, ioCola, p)) \in Nat
  BY <1>3, ParesFinitosHay
<1>5. QED
  BY <1>2, <1>4

LEMMA LugaresTipos ==
  ASSUME Tipos, NEW p \in Pids
  PROVE  EnColas(p) \in Nat /\ EnVariables(p) \in Nat /\ EnIo(p) \in Nat /\ EnSalida(p) \in Nat
<1>1. EnColas(p) \in Nat
  BY VecesTipo DEF EnColas, Tipos, TypeOK, ListasTypeOK
<1>2. EnVariables(p) \in Nat
  BY DEF EnVariables, Uno
<1>3. EnIo(p) \in Nat
  BY AtendidosTipo DEF EnIo
<1>4. EnSalida(p) \in Nat
  <2>1. PidsDe(colaExit) \in Seq(Pids)
    BY PidsDeTipo DEF Tipos, TypeOK, ListasTypeOK
  <2>2. QED
    BY <2>1, VecesTipo DEF EnSalida, Tipos, TypeOK, GestionTypeOK
<1>5. QED
  BY <1>1, <1>2, <1>3, <1>4

LugaresDe(p) == EnColas(p) + EnVariables(p) + EnIo(p) + EnSalida(p)
CadaUnoEnSuLugar == \A p \in Pids : LugaresDe(p) = Uno(p < identificador)

(* A thread has the pid of a PCB only while it works on it, and a process   *)
(* blocks on an interface that is connected.                                *)
HilosSanos ==
  /\ pc["consola"] = "listo" /\ dic = "libre" /\ local["consola"] = Nulo
  /\ local["largo"] # Nulo => pc["largo"] = "agregar"
  /\ local["corto"] # Nulo => pc["corto"] \in {"ejecutar", "quantum"}
  /\ \A i \in Interfaces : ioPid[i] # Nulo => ioPc[i] \in {"servicio", "agregar"}
  /\ pc["despacho"] \in {"bloquear", "encolar"} => mensaje.interfaz \in Interfaces

(* The table has the processes created, a process is FINISHED there only    *)
(* when it is in COLA_EXIT or past it, and the elements of COLA_EXIT point   *)
(* to the table but for the one that update_pcb is about to put there.       *)
TablaSana ==
  /\ \A p \in Pids : tabla[p] = "NINGUNO" <=> p >= identificador
  /\ \A p \in Pids : tabla[p] = "FINISHED" => EnSalida(p) >= 1
  /\ pc["despacho"] = "actualizar" => EnSalida(mensaje.pid) >= 1
  /\ \A k \in DOMAIN colaExit :
       colaExit[k].objeto =
         IF pc["despacho"] = "actualizar" /\ mensaje.pid = colaExit[k].pid THEN "nuevo" ELSE "tabla"

Ubicados == CadaUnoEnSuLugar /\ HilosSanos /\ TablaSana

(* What a step must do for each process to stay in one place *)
Mudanza == \A p \in Pids : LugaresDe(p)' = LugaresDe(p) /\ EnSalida(p)' >= EnSalida(p)

(* The dispatch server has the PCB that the CPU returned, or has already    *)
(* blocked it.                                                              *)
Volviendo == pc["despacho"] \in {"cancelar", "exit", "bloquear", "interrumpido", "aReady"}
Encolando == pc["despacho"] = "encolar"

(* A step in which no process changes its place *)
Inmovil ==
  /\ UNCHANGED <<cola, execute, ioPid, ioCola, finMemoria>> /\ PidsDe(colaExit') = PidsDe(colaExit)
  /\ local'["largo"] = local["largo"]
  /\ \A p \in Pids : /\ (pc'["corto"] = "ejecutar" /\ local'["corto"] = p)
                          <=> (pc["corto"] = "ejecutar" /\ local["corto"] = p)
                     /\ (Volviendo' /\ mensaje'.pid = p) <=> (Volviendo /\ mensaje.pid = p)
                     /\ (Encolando' /\ mensaje'.pid = p) <=> (Encolando /\ mensaje.pid = p)

LEMMA LugaresQuietos ==
  ASSUME Tipos,
         UNCHANGED <<cola, execute, ioPid, ioCola, finMemoria>>, PidsDe(colaExit') = PidsDe(colaExit),
         local'["largo"] = local["largo"],
         \A p \in Pids : /\ (pc'["corto"] = "ejecutar" /\ local'["corto"] = p)
                             <=> (pc["corto"] = "ejecutar" /\ local["corto"] = p)
                         /\ (ConPcb' /\ mensaje'.pid = p) <=> (ConPcb /\ mensaje.pid = p)
  PROVE  Mudanza
<1> SUFFICES ASSUME NEW p \in Pids
             PROVE  LugaresDe(p)' = LugaresDe(p) /\ EnSalida(p)' >= EnSalida(p)
  BY DEF Mudanza
<1>1. EnColas(p)' = EnColas(p) /\ EnIo(p)' = EnIo(p) /\ EnSalida(p)' = EnSalida(p)
  BY DEF EnColas, EnIo, Atendidos, EnSalida
<1>2. EnVariables(p)' = EnVariables(p)
  BY DEF EnVariables, Uno
<1>3. EnSalida(p) \in Nat
  BY LugaresTipos
<1>4. QED
  BY <1>1, <1>2, <1>3 DEF LugaresDe

(* What the actions that move no process have in common *)
LEMMA NadieSeMueve ==
  ASSUME Tipos,
         UNCHANGED <<cola, execute, ioPid, ioCola, finMemoria, mensaje, colaExit>>,
         local'["largo"] = local["largo"], Volviendo' = Volviendo, Encolando' = Encolando,
         \/ pc'["corto"] = pc["corto"] /\ local'["corto"] = local["corto"]
         \/ pc["corto"] # "ejecutar" /\ pc'["corto"] # "ejecutar"
  PROVE  Mudanza /\ Inmovil
<1>1. Inmovil
  BY DEF Inmovil
<1>2. QED
  BY <1>1, LugaresQuietos DEF Inmovil, ConPcb, Volviendo, Encolando

LEMMA MudanzaGestion ==
  ASSUME Tipos, HilosSanos, MaxFinalizar = 0,
         Cpu \/ Consola \/ (\E s \in SemPlanes : DetenerCola(s)) \/ (\E k \in Cambios : Cambio(k)),
         ~IniciarProceso
  PROVE  /\ Mudanza /\ Inmovil
         /\ UNCHANGED <<colaExit, mensaje, pc, local, tabla, identificador, dic, ioPid, ioPc, cola, finMemoria>>
<1>1. Cpu \/ DetenerPlanificacion \/ IniciarPlanificacion \/ (\E k \in Cambios, g \in Grados : CambiarGrado(k, g))
      \/ (\E s \in SemPlanes : DetenerCola(s)) \/ (\E k \in Cambios : Cambio(k))
  <2>1. ~ConsolaTrabada /\ ~FinalizarVerificar /\ ~FinalizarComparar /\ ~FinalizarEliminar /\ ~FinalizarEncolar
    BY DEF HilosSanos, ConsolaTrabada, FinalizarVerificar, FinalizarComparar, FinalizarEliminar,
           FinalizarEncolar, En
  <2>2. \A p \in Pids : ~FinalizarBuscar(p)
    BY DEF FinalizarBuscar, Tipos, TypeOK, GestionTypeOK
  <2>3. QED
    BY <2>1, <2>2 DEF Consola
<1>2. UNCHANGED <<cola, execute, ioPid, ioPc, ioCola, finMemoria, mensaje, colaExit, pc, local, tabla, identificador, dic>>
  <2>1. CASE Cpu
    BY <2>1 DEF Cpu, kernelVars, turnoVars, listas, hilos, ioVars, gestionVars, consolaVars
  <2>2. CASE DetenerPlanificacion \/ IniciarPlanificacion \/ (\E k \in Cambios, g \in Grados : CambiarGrado(k, g))
    BY <2>2 DEF DetenerPlanificacion, IniciarPlanificacion, CambiarGrado, turnoVars, listas, hilos, ioVars,
                consolaVars
  <2>3. CASE (\E s \in SemPlanes : DetenerCola(s)) \/ (\E k \in Cambios : Cambio(k))
    BY <2>3 DEF DetenerCola, Cambio, CambioTomar, CambioAjustar, CambioTerminar, turnoVars, listas, hilos, ioVars,
                consolaVars
  <2>4. QED
    BY <1>1, <2>1, <2>2, <2>3
<1>3. Mudanza /\ Inmovil
  BY <1>2, NadieSeMueve DEF Volviendo, Encolando
<1>4. QED
  BY <1>2, <1>3

LEMMA MudanzaLargoQuieto ==
  ASSUME Tipos, HilosSanos, LargoEsperar \/ LargoOrden \/ LargoMulti \/ LargoMostrar
  PROVE  Mudanza /\ Inmovil
<1>1. UNCHANGED <<cola, execute, ioPid, ioCola, finMemoria, mensaje, colaExit, local>>
  BY DEF LargoEsperar, LargoOrden, LargoMulti, LargoMostrar, turnoVars, listas, ioVars, gestionVars
<1>2. pc'["corto"] = pc["corto"] /\ pc'["despacho"] = pc["despacho"]
  BY DEF LargoEsperar, LargoOrden, LargoMulti, LargoMostrar, Ir, Tipos, TypeOK, HilosTypeOK, Hilos
<1>3. QED
  BY <1>1, <1>2, NadieSeMueve DEF Volviendo, Encolando

LEMMA MudanzaCortoQuieto ==
  ASSUME Tipos, HilosSanos, CortoElegir \/ CortoCpu \/ InterrupcionQuantum \/ CortoUnir \/ Quantum
  PROVE  Mudanza /\ Inmovil
<1>1. HilosTypeOK
  BY DEF Tipos, TypeOK
<1>2. CASE CortoElegir \/ CortoCpu \/ CortoUnir
  <2>1. UNCHANGED <<cola, execute, ioPid, ioCola, finMemoria, mensaje, colaExit, local>>
    BY <1>2 DEF CortoElegir, CortoCpu, CortoUnir, turnoVars, listas, ioVars, gestionVars
  <2>2. /\ pc["corto"] # "ejecutar" /\ pc'["corto"] # "ejecutar"
        /\ pc'["despacho"] = pc["despacho"]
    BY <1>1, <1>2 DEF CortoElegir, CortoCpu, CortoUnir, En, Ir, HilosTypeOK, Hilos
  <2>3. QED
    BY <2>1, <2>2, NadieSeMueve DEF Volviendo, Encolando
<1>3. CASE Quantum
  <2>1. UNCHANGED <<cola, execute, ioPid, ioCola, finMemoria, mensaje, colaExit>>
    BY <1>3 DEF Quantum, QuantumCrear, QuantumVencer, turnoVars, listas, ioVars, gestionVars
  <2>2. /\ pc'["corto"] = pc["corto"] /\ pc'["despacho"] = pc["despacho"]
        /\ local'["corto"] = local["corto"] /\ local'["largo"] = local["largo"]
    BY <1>1, <1>3 DEF Quantum, QuantumCrear, QuantumVencer, Tener, Ir, HilosTypeOK, Hilos
  <2>3. QED
    BY <2>1, <2>2, NadieSeMueve DEF Volviendo, Encolando
<1>4. CASE InterrupcionQuantum
  <2>1. UNCHANGED <<listas, turnoVars, ioVars, gestionVars>> /\ pc["corto"] = "quantum"
    BY <1>4, Zenon DEF InterrupcionQuantum, En
  <2>2. UNCHANGED <<cola, execute, ioPid, ioCola, finMemoria, mensaje, colaExit>>
    BY <2>1 DEF turnoVars, listas, ioVars, gestionVars
  <2>3. \/ UNCHANGED hilos
        \/ /\ pc' = [pc EXCEPT !.corto = "unir", !.quantum = "crear"]
           /\ \E q : local' = [local EXCEPT !.corto = Nulo, !.quantum = q]
    BY <1>4, Zenon DEF InterrupcionQuantum
  <2>4. /\ pc'["corto"] # "ejecutar" /\ pc'["despacho"] = pc["despacho"]
        /\ local'["largo"] = local["largo"]
    <3>1. CASE UNCHANGED hilos
      BY <2>1, <3>1 DEF hilos
    <3>2. CASE pc' = [pc EXCEPT !.corto = "unir", !.quantum = "crear"]
      <4>1. pc'["corto"] # "ejecutar" /\ pc'["despacho"] = pc["despacho"]
        BY <1>1, <3>2 DEF HilosTypeOK, Hilos
      <4>2. UNCHANGED hilos \/ \E q : local' = [local EXCEPT !.corto = Nulo, !.quantum = q]
        BY <2>3
      <4>3. local'["largo"] = local["largo"]
        BY <1>1, <4>2 DEF HilosTypeOK, Hilos, hilos
      <4>4. QED
        BY <4>1, <4>3
    <3>3. QED
      BY <2>3, <3>1, <3>2
  <2>5. QED
    BY <2>1, <2>2, <2>4, NadieSeMueve DEF Volviendo, Encolando
<1>5. QED
  BY <1>2, <1>3, <1>4

LEMMA MudanzaDespachoQuieto ==
  ASSUME Tipos, HilosSanos,
         Cancelar \/ ActualizarPcbQuantum \/ MostrarExecuteAReady \/ ActualizarPcbFinal \/ Bloquear
  PROVE  Mudanza /\ (~Bloquear => Inmovil)
<1>1. HilosTypeOK
  BY DEF Tipos, TypeOK
<1>2. CASE Cancelar
  <2>1. UNCHANGED <<listas, local, turnoVars, ioVars, gestionVars>> /\ pc["despacho"] = "cancelar"
    BY <1>2 DEF Cancelar, En
  <2>2. UNCHANGED <<cola, execute, ioPid, ioCola, finMemoria, mensaje, colaExit, local>>
    BY <2>1 DEF turnoVars, listas, ioVars, gestionVars
  <2>3. \E s \in {"exit", "bloquear"} :
          \/ pc' = [pc EXCEPT !["despacho"] = s]
          \/ \E q : pc' = [pc EXCEPT !["despacho"] = s, !["quantum"] = q]
    BY <1>2 DEF Cancelar, CancelarQuantum, Ir
  <2>4. pc'["corto"] = pc["corto"] /\ pc'["despacho"] \in {"exit", "bloquear"}
    BY <1>1, <2>3 DEF HilosTypeOK, Hilos
  <2>5. QED
    BY <2>1, <2>2, <2>4, NadieSeMueve DEF Volviendo, Encolando
<1>3. CASE ActualizarPcbQuantum \/ MostrarExecuteAReady \/ ActualizarPcbFinal \/ Bloquear
  <2>1. UNCHANGED <<cola, execute, ioPid, ioCola, finMemoria, local>>
    BY <1>3 DEF ActualizarPcbQuantum, MostrarExecuteAReady, ActualizarPcbFinal, Bloquear, turnoVars, ioVars,
                gestionVars
  <2>2. PidsDe(colaExit') = PidsDe(colaExit)
    <3>1. UNCHANGED colaExit \/ \E p : colaExit' = Reemplazado(colaExit, p)
      BY <1>3 DEF ActualizarPcbQuantum, MostrarExecuteAReady, ActualizarPcbFinal, Bloquear, ActualizarTabla
    <3>2. QED
      BY <3>1, PidsDeCambio DEF Tipos, TypeOK, ListasTypeOK
  <2>3. /\ pc'["corto"] = pc["corto"]
        /\ \/ UNCHANGED mensaje /\ ConPcb /\ ConPcb'
           \/ ~ConPcb /\ ~ConPcb'
        /\ ~Bloquear => /\ ~Encolando /\ ~Encolando' /\ Volviendo' = Volviendo
                        /\ Volviendo => UNCHANGED mensaje
    BY <1>1, <1>3 DEF ActualizarPcbQuantum, MostrarExecuteAReady, ActualizarPcbFinal, Bloquear, Terminar, En, Ir,
                      HilosTypeOK, Hilos, ConPcb, Volviendo, Encolando, turnoVars
  <2>4. Mudanza
    BY <2>1, <2>2, <2>3, LugaresQuietos
  <2>5. ~Bloquear => Inmovil
    BY <2>1, <2>2, <2>3 DEF Inmovil
  <2>6. QED
    BY <2>4, <2>5
<1>4. QED
  BY <1>2, <1>3

LEMMA MudanzaIOQuieto ==
  ASSUME Tipos, HilosSanos, CadaUnoEnSuLugar, TablaSana, NEW i \in Interfaces,
         IoEsperar(i) \/ IoResponder(i) \/ MostrarBlockedAReady(i)
  PROVE  Mudanza /\ Inmovil
<1>1. UNCHANGED <<cola, execute, ioCola, finMemoria, mensaje, colaExit, local, pc>>
  BY DEF IoEsperar, IoResponder, MostrarBlockedAReady, turnoVars, listas, hilos, ioVars, gestionVars
<1>2. UNCHANGED ioPid
  <2>1. CASE IoEsperar(i) \/ MostrarBlockedAReady(i)
    BY <2>1 DEF IoEsperar, MostrarBlockedAReady
  <2>2. CASE IoResponder(i)
    <3> DEFINE p == ioPid[i]
    <3>1. p \in Pids
      BY <2>2 DEF IoResponder, Tipos, Punteros
    <3>2. i \in Atendidos(p) /\ IsFiniteSet(Atendidos(p))
      BY AtendidosTipo DEF Atendidos
    <3>3. Cardinality(Atendidos(p)) >= 1
      BY <3>2, FS_EmptySet, FS_CardinalityType
    <3>4. EnIo(p) >= 1
      BY <3>3, AtendidosTipo DEF EnIo
    <3>5. LugaresDe(p) <= 1
      BY <3>1 DEF CadaUnoEnSuLugar, Uno
    <3>6. EnSalida(p) = 0
      BY <3>1, <3>4, <3>5, LugaresTipos DEF LugaresDe
    <3>7. tabla[p] # "FINISHED"
      BY <3>1, <3>6 DEF TablaSana
    <3>8. QED
      BY <2>2, <3>7 DEF IoResponder
  <2>3. QED
    BY <2>1, <2>2
<1>3. QED
  BY <1>1, <1>2, NadieSeMueve DEF Volviendo, Encolando

(* The actions that move a process *)
LEMMA ColaAlFinal ==
  ASSUME Tipos, NEW c \in Colas, NEW x \in Pids, NEW p \in Pids,
         cola'[c] = Append(cola[c], x), \A d \in Colas \ {c} : cola'[d] = cola[d]
  PROVE  EnColas(p)' = EnColas(p) + Uno(x = p)
<1>1. /\ cola \in [Colas -> Seq(Pids)] /\ cola'[c] = Append(cola[c], x)
      /\ \A d \in Colas \ {c} : cola'[d] = cola[d]
  BY DEF Tipos, TypeOK, ListasTypeOK, Colas
<1>2. Veces(cola'[c], p) = Veces(cola[c], p) + Uno(x = p)
  <2> HIDE DEF Pids
  <2>1. cola[c] \in Seq(Pids)
    BY <1>1
  <2>2. QED
    BY <1>1, <2>1, VecesAlFinal
<1>3. Uno(x = p) \in Nat /\ \A d \in Colas : Veces(cola[d], p) \in Nat
  <2>1. \A d \in Colas : cola[d] \in Seq(Pids)
    BY <1>1
  <2>2. QED
    BY <2>1, VecesTipo DEF Uno
<1>4. ASSUME NEW d \in Colas
      PROVE  Veces(cola'[d], p) = Veces(cola[d], p) + (IF c = d THEN Uno(x = p) ELSE 0)
  <2>1. CASE c = d
    BY <1>2, <2>1
  <2>2. CASE c # d
    BY <1>1, <1>3, <2>2
  <2>3. QED
    BY <2>1, <2>2
<1>5. QED
  BY <1>3, <1>4 DEF EnColas, Colas

LEMMA ColaDelPrincipio ==
  ASSUME Tipos, NEW c \in Colas, cola[c] # <<>>, cola' = [cola EXCEPT ![c] = ListRemove(@)], NEW p \in Pids
  PROVE  EnColas(p) = EnColas(p)' + Uno(Head(cola[c]) = p) /\ EnColas(p)' \in Nat /\ Head(cola[c]) \in Pids
<1>1. /\ cola \in [Colas -> Seq(Pids)] /\ cola'[c] = Tail(cola[c])
      /\ \A d \in Colas \ {c} : cola'[d] = cola[d]
  BY DEF Tipos, TypeOK, ListasTypeOK, Colas, ListRemove
<1>2. Veces(cola[c], p) = Veces(cola'[c], p) + Uno(Head(cola[c]) = p) /\ Head(cola[c]) \in Pids
      /\ cola'[c] \in Seq(Pids)
  <2> HIDE DEF Pids
  <2>1. cola[c] \in Seq(Pids)
    BY <1>1
  <2>2. Tail(cola[c]) \in Seq(Pids) /\ Head(cola[c]) \in Pids
    BY <2>1, HeadTailProperties
  <2>3. Veces(cola[c], p) = Veces(Tail(cola[c]), p) + Uno(Head(cola[c]) = p)
    BY <2>1, VecesDelPrincipio
  <2>4. QED
    BY <1>1, <2>2, <2>3
<1>3. Uno(Head(cola[c]) = p) \in Nat /\ \A d \in Colas : Veces(cola'[d], p) \in Nat
  <2>1. \A d \in Colas : cola'[d] \in Seq(Pids)
    BY <1>1, <1>2
  <2>2. QED
    BY <2>1, VecesTipo DEF Uno
<1>4. QED
  BY <1>1, <1>2, <1>3, SMTT(30) DEF EnColas, Colas

LugaresNat ==
  \A p \in Pids : EnColas(p) \in Nat /\ EnVariables(p) \in Nat /\ EnIo(p) \in Nat /\ EnSalida(p) \in Nat

LEMMA LugaresNatHay == Tipos => LugaresNat
  BY LugaresTipos DEF LugaresNat

LEMMA LugaresNatPrima == Tipos' => LugaresNat'
  BY LugaresNatHay, PTL

LEMMA MudanzaLargoSacar ==
  ASSUME Tipos, Tipos', HilosSanos, LargoSacar
  PROVE  Mudanza
<1>1. HilosTypeOK /\ UNCHANGED <<execute, ioPid, ioCola, finMemoria, mensaje, colaExit>>
  BY DEF LargoSacar, turnoVars, ioVars, gestionVars, Tipos, TypeOK
<1>2. pc'["corto"] = pc["corto"] /\ pc'["despacho"] = pc["despacho"]
  BY <1>1 DEF LargoSacar, Ir, HilosTypeOK, Hilos
<1>3. local["largo"] = Nulo
  BY DEF HilosSanos, LargoSacar, En
<1>4. CASE cola["NEW"] = <<>>
  <2>1. UNCHANGED <<cola, local>>
    BY <1>4 DEF LargoSacar
  <2>2. QED
    BY <1>1, <1>2, <2>1, NadieSeMueve DEF Volviendo, Encolando
<1>5. CASE cola["NEW"] # <<>>
  <2> SUFFICES ASSUME NEW p \in Pids
               PROVE  LugaresDe(p)' = LugaresDe(p) /\ EnSalida(p)' >= EnSalida(p)
    BY DEF Mudanza
  <2>1. cola' = [cola EXCEPT !["NEW"] = ListRemove(@)] /\ local' = [local EXCEPT !["largo"] = Head(cola["NEW"])]
    BY <1>5 DEF LargoSacar, Tener
  <2>2. EnColas(p) = EnColas(p)' + Uno(Head(cola["NEW"]) = p)
    BY <1>5, <2>1, ColaDelPrincipio DEF Colas
  <2>3. local'["largo"] = Head(cola["NEW"]) /\ local'["corto"] = local["corto"]
    BY <1>1, <2>1 DEF HilosTypeOK, Hilos
  <2>4. EnVariables(p)' = EnVariables(p) + Uno(Head(cola["NEW"]) = p)
    BY <1>1, <1>2, <1>3, <2>3 DEF EnVariables, ConPcb, Uno
  <2>5. EnIo(p)' = EnIo(p) /\ EnSalida(p)' = EnSalida(p)
    BY <1>1 DEF EnIo, Atendidos, EnSalida
  <2>6. Uno(Head(cola["NEW"]) = p) \in Nat
    BY DEF Uno
  <2>7. /\ EnColas(p) \in Nat /\ EnVariables(p) \in Nat /\ EnIo(p) \in Nat /\ EnSalida(p) \in Nat
        /\ EnColas(p)' \in Nat /\ EnVariables(p)' \in Nat /\ EnIo(p)' \in Nat /\ EnSalida(p)' \in Nat
    BY LugaresNatHay, LugaresNatPrima DEF LugaresNat
  <2>8. QED
    BY <2>2, <2>4, <2>5, <2>6, <2>7 DEF LugaresDe
<1>6. QED
  BY <1>4, <1>5

LEMMA MudanzaLargoAgregar ==
  ASSUME Tipos, Tipos', vivo, LargoAgregar
  PROVE  Mudanza
<1>1. HilosTypeOK /\ UNCHANGED <<execute, ioPid, ioCola, finMemoria, mensaje, colaExit>>
  BY DEF LargoAgregar, turnoVars, ioVars, gestionVars, Tipos, TypeOK
<1>2. pc'["corto"] = pc["corto"] /\ pc'["despacho"] = pc["despacho"]
  BY <1>1 DEF LargoAgregar, Ir, HilosTypeOK, Hilos
<1>3. local["largo"] \in Pids /\ cola' = [cola EXCEPT !["READY"] = Append(@, local["largo"])]
  BY DEF LargoAgregar, En, Tipos, Punteros
<1>4. local'["largo"] = Nulo /\ local'["corto"] = local["corto"]
  BY <1>1 DEF LargoAgregar, Tener, HilosTypeOK, Hilos
<1> SUFFICES ASSUME NEW p \in Pids
             PROVE  LugaresDe(p)' = LugaresDe(p) /\ EnSalida(p)' >= EnSalida(p)
  BY DEF Mudanza
<1>5. EnColas(p)' = EnColas(p) + Uno(local["largo"] = p)
  <2>1. cola'["READY"] = Append(cola["READY"], local["largo"]) /\ \A d \in Colas \ {"READY"} : cola'[d] = cola[d]
    BY <1>3 DEF Tipos, TypeOK, ListasTypeOK, Colas
  <2>2. "READY" \in Colas
    BY DEF Colas
  <2> HIDE DEF Pids
  <2>3. QED
    BY <1>3, <2>1, <2>2, ColaAlFinal
<1>6. EnVariables(p) = EnVariables(p)' + Uno(local["largo"] = p)
  BY <1>1, <1>2, <1>4 DEF EnVariables, ConPcb, Uno
<1>7. EnIo(p)' = EnIo(p) /\ EnSalida(p)' = EnSalida(p)
  BY <1>1 DEF EnIo, Atendidos, EnSalida
<1>8. Uno(local["largo"] = p) \in Nat
  BY DEF Uno
<1>9. QED
  BY <1>5, <1>6, <1>7, <1>8, LugaresNatHay, LugaresNatPrima DEF LugaresDe, LugaresNat

LEMMA MudanzaIniciar ==
  ASSUME Tipos, Tipos', CadaUnoEnSuLugar, IniciarProceso
  PROVE  /\ CadaUnoEnSuLugar'
         /\ \A p \in Pids : EnSalida(p)' = EnSalida(p)
<1>1. /\ identificador \in Pids /\ identificador' = identificador + 1
      /\ cola' = [cola EXCEPT !["NEW"] = Append(@, identificador)]
  BY DEF IniciarProceso, Tipos, TypeOK, GestionTypeOK
<1>2. UNCHANGED <<execute, ioPid, ioCola, finMemoria, mensaje, colaExit, pc, local>>
  BY DEF IniciarProceso, turnoVars, ioVars, hilos
<1>3. ASSUME NEW p \in Pids
      PROVE  LugaresDe(p)' = Uno(p < identificador)' /\ EnSalida(p)' = EnSalida(p)
  <2>1. EnColas(p)' = EnColas(p) + Uno(identificador = p)
    <3>1. cola'["NEW"] = Append(cola["NEW"], identificador) /\ \A d \in Colas \ {"NEW"} : cola'[d] = cola[d]
      BY <1>1 DEF Tipos, TypeOK, ListasTypeOK, Colas
    <3>2. "NEW" \in Colas
      BY DEF Colas
    <3> HIDE DEF Pids
    <3>3. QED
      BY <1>1, <3>1, <3>2, ColaAlFinal
  <2>2. EnVariables(p)' = EnVariables(p) /\ EnIo(p)' = EnIo(p) /\ EnSalida(p)' = EnSalida(p)
    BY <1>2 DEF EnVariables, ConPcb, EnIo, Atendidos, EnSalida
  <2>3. Uno(p < identificador)' = Uno(p < identificador) + Uno(identificador = p)
    BY <1>1 DEF Uno
  <2>4. Uno(p < identificador) \in Nat /\ Uno(identificador = p) \in Nat
    BY DEF Uno
  <2>5. EnColas(p) + EnVariables(p) + EnIo(p) + EnSalida(p) = Uno(p < identificador)
    BY DEF CadaUnoEnSuLugar, LugaresDe
  <2>6. LugaresDe(p)' = Uno(p < identificador) + Uno(identificador = p)
    BY <2>1, <2>2, <2>4, <2>5, LugaresNatHay, LugaresNatPrima DEF LugaresDe, LugaresNat
  <2>7. QED
    BY <2>2, <2>3, <2>6
<1>4. QED
  BY <1>3 DEF CadaUnoEnSuLugar

LEMMA MudanzaCortoSacar ==
  ASSUME Tipos, Tipos', HilosSanos, NEW paso \in {"ready", "aux"}, NEW c \in {"READY", "AUX_READY"},
         CortoSacar(paso, c)
  PROVE  Mudanza
<1>1. HilosTypeOK /\ UNCHANGED <<execute, ioPid, ioCola, finMemoria, mensaje, colaExit>>
  BY DEF CortoSacar, turnoVars, ioVars, gestionVars, Tipos, TypeOK
<1>2. pc["corto"] = paso /\ pc'["corto"] = "ejecutar" /\ pc'["despacho"] = pc["despacho"]
  BY <1>1 DEF CortoSacar, En, Ir, HilosTypeOK, Hilos
<1>3. local["corto"] = Nulo
  BY <1>2 DEF HilosSanos
<1>4. CASE cola[c] = <<>>
  <2>1. UNCHANGED <<cola, local>>
    BY <1>4 DEF CortoSacar
  <2>2. QED
    BY <1>1, <1>2, <1>3, <2>1, LugaresQuietos DEF ConPcb
<1>5. CASE cola[c] # <<>>
  <2> SUFFICES ASSUME NEW p \in Pids
               PROVE  LugaresDe(p)' = LugaresDe(p) /\ EnSalida(p)' >= EnSalida(p)
    BY DEF Mudanza
  <2>1. cola' = [cola EXCEPT ![c] = ListRemove(@)] /\ local' = [local EXCEPT !["corto"] = Head(cola[c])]
    BY <1>5 DEF CortoSacar, Tener
  <2>2. EnColas(p) = EnColas(p)' + Uno(Head(cola[c]) = p)
    BY <1>5, <2>1, ColaDelPrincipio DEF Colas
  <2>3. local'["corto"] = Head(cola[c]) /\ local'["largo"] = local["largo"]
    BY <1>1, <2>1 DEF HilosTypeOK, Hilos
  <2>4. EnVariables(p)' = EnVariables(p) + Uno(Head(cola[c]) = p)
    BY <1>1, <1>2, <1>3, <2>3 DEF EnVariables, ConPcb, Uno
  <2>5. EnIo(p)' = EnIo(p) /\ EnSalida(p)' = EnSalida(p)
    BY <1>1 DEF EnIo, Atendidos, EnSalida
  <2>6. Uno(Head(cola[c]) = p) \in Nat
    BY DEF Uno
  <2>7. QED
    BY <2>2, <2>4, <2>5, <2>6, LugaresNatHay, LugaresNatPrima DEF LugaresDe, LugaresNat
<1>6. QED
  BY <1>4, <1>5

(* EXECUTE is free, and becomes the process that corto had chosen. *)
LEMMA MudanzaCortoEjecutar ==
  ASSUME Tipos, Turno, CortoEjecutar
  PROVE  Mudanza
<1>1. HilosTypeOK /\ UNCHANGED <<cola, ioPid, ioCola, finMemoria, mensaje, colaExit>>
  BY DEF CortoEjecutar, ioVars, gestionVars, Tipos, TypeOK
<1>2. execute = Nulo /\ pc["corto"] = "ejecutar" /\ execute' = local["corto"]
  BY DEF Turno, CortoEjecutar, En, Elegido
<1>3. /\ pc'["corto"] # "ejecutar" /\ pc'["despacho"] = pc["despacho"]
      /\ local'["largo"] = local["largo"]
  BY <1>1 DEF CortoEjecutar, Ir, Tener, HilosTypeOK, Hilos
<1> SUFFICES ASSUME NEW p \in Pids
             PROVE  LugaresDe(p)' = LugaresDe(p) /\ EnSalida(p)' >= EnSalida(p)
  BY DEF Mudanza
<1>4. EnVariables(p)' = EnVariables(p)
  BY <1>1, <1>2, <1>3 DEF EnVariables, ConPcb, Uno
<1>5. EnColas(p)' = EnColas(p) /\ EnIo(p)' = EnIo(p) /\ EnSalida(p)' = EnSalida(p)
  BY <1>1 DEF EnColas, EnIo, Atendidos, EnSalida
<1>6. QED
  BY <1>4, <1>5, LugaresNatHay DEF LugaresDe, LugaresNat

(* EXECUTE comes back in the message, and the message stands for it. *)
LEMMA MudanzaRecibir ==
  ASSUME Tipos, Turno, RecibirPcbOSolicitud \/ RecibirInterrumpido
  PROVE  Mudanza
<1>1. /\ HilosTypeOK /\ CpuTypeOK
      /\ UNCHANGED <<cola, ioPid, ioCola, finMemoria, colaExit, local>>
  BY DEF RecibirPcbOSolicitud, RecibirInterrumpido, listas, ioVars, gestionVars, Tipos, TypeOK
<1>2. pc["despacho"] = "recibir" /\ deCpu # <<>> /\ mensaje' = Head(deCpu) /\ execute' = Nulo
  BY DEF RecibirPcbOSolicitud, RecibirInterrumpido, RecibirDe, ExecuteToNull, En
<1>3. Head(deCpu).pid = execute /\ execute \in Pids
  <2>1. Len(deCpu) = 1 /\ deCpu[1].pid = execute /\ execute \in Pids
    BY <1>2 DEF Turno
  <2>2. Head(deCpu) = deCpu[1]
    BY <1>1, <1>2, HeadTailProperties DEF CpuTypeOK
  <2>3. QED
    BY <2>1, <2>2
<1>4. pc'["corto"] = pc["corto"] /\ ConPcb' /\ ~ConPcb
  BY <1>1, <1>2 DEF RecibirPcbOSolicitud, RecibirInterrumpido, Ir, HilosTypeOK, Hilos, ConPcb
<1> SUFFICES ASSUME NEW p \in Pids
             PROVE  LugaresDe(p)' = LugaresDe(p) /\ EnSalida(p)' >= EnSalida(p)
  BY DEF Mudanza
<1>5. EnVariables(p)' = EnVariables(p)
  BY <1>1, <1>2, <1>3, <1>4 DEF EnVariables, Uno
<1>6. EnColas(p)' = EnColas(p) /\ EnIo(p)' = EnIo(p) /\ EnSalida(p)' = EnSalida(p)
  BY <1>1 DEF EnColas, EnIo, Atendidos, EnSalida
<1>7. QED
  BY <1>5, <1>6, LugaresNatHay DEF LugaresDe, LugaresNat

(* The message is put away in a list. *)
LEMMA DejarMensaje ==
  ASSUME Tipos, ConPcb, ~ConPcb', UNCHANGED <<local, execute>>, pc'["corto"] = pc["corto"], NEW p \in Pids
  PROVE  EnVariables(p) = EnVariables(p)' + Uno(mensaje.pid = p) /\ Uno(mensaje.pid = p) \in Nat
<1>1. Uno(ConPcb /\ mensaje.pid = p) = Uno(mensaje.pid = p) /\ Uno(ConPcb' /\ mensaje'.pid = p) = 0
  BY DEF Uno
<1>2. /\ Uno(local["largo"] = p) \in Nat /\ Uno(pc["corto"] = "ejecutar" /\ local["corto"] = p) \in Nat
      /\ Uno(execute = p) \in Nat /\ Uno(mensaje.pid = p) \in Nat
  BY DEF Uno
<1>3. EnVariables(p)' = Uno(local["largo"] = p) + Uno(pc["corto"] = "ejecutar" /\ local["corto"] = p)
                        + Uno(execute = p) + 0
  BY <1>1 DEF EnVariables
<1>4. QED
  BY <1>1, <1>2, <1>3 DEF EnVariables

LEMMA MudanzaExecuteAReady ==
  ASSUME Tipos, Tipos', AgregarDeExecuteAReady
  PROVE  Mudanza
<1>1. HilosTypeOK /\ UNCHANGED <<execute, local, ioPid, ioCola, finMemoria, colaExit>>
  BY DEF AgregarDeExecuteAReady, turnoVars, ioVars, gestionVars, Tipos, TypeOK
<1>2. pc'["corto"] = pc["corto"] /\ ConPcb /\ ~ConPcb'
  BY <1>1 DEF AgregarDeExecuteAReady, En, Ir, HilosTypeOK, Hilos, ConPcb
<1>3. PICK c \in Colas : cola' = [cola EXCEPT ![c] = Append(@, mensaje.pid)]
  BY DEF AgregarDeExecuteAReady, ColaReadyDe, Colas
<1>4. mensaje.pid \in Pids
  BY DEF AgregarDeExecuteAReady, En, Tipos, Punteros, Mensajes
<1> SUFFICES ASSUME NEW p \in Pids
             PROVE  LugaresDe(p)' = LugaresDe(p) /\ EnSalida(p)' >= EnSalida(p)
  BY DEF Mudanza
<1>5. EnColas(p)' = EnColas(p) + Uno(mensaje.pid = p)
  <2>1. cola'[c] = Append(cola[c], mensaje.pid) /\ \A d \in Colas \ {c} : cola'[d] = cola[d]
    BY <1>3 DEF Tipos, TypeOK, ListasTypeOK, Colas
  <2> HIDE DEF Pids
  <2>2. QED
    BY <1>4, <2>1, ColaAlFinal
<1>6. EnVariables(p) = EnVariables(p)' + Uno(mensaje.pid = p) /\ Uno(mensaje.pid = p) \in Nat
  BY <1>1, <1>2, DejarMensaje
<1>7. EnIo(p)' = EnIo(p) /\ EnSalida(p)' = EnSalida(p)
  BY <1>1 DEF EnIo, Atendidos, EnSalida
<1>8. QED
  BY <1>5, <1>6, <1>7, LugaresNatHay, LugaresNatPrima DEF LugaresDe, LugaresNat

LEMMA MudanzaAExit ==
  ASSUME Tipos, Tipos', AgregarAExit
  PROVE  Mudanza /\ EnSalida(mensaje.pid)' >= 1
<1>1. HilosTypeOK /\ UNCHANGED <<execute, local, ioPid, ioCola, finMemoria, cola, mensaje>>
  BY DEF AgregarAExit, turnoVars, ioVars, gestionVars, Tipos, TypeOK
<1>2. pc'["corto"] = pc["corto"] /\ ConPcb /\ ~ConPcb'
  BY <1>1 DEF AgregarAExit, En, Ir, HilosTypeOK, Hilos, ConPcb
<1>3. mensaje.pid \in Pids
  BY DEF AgregarAExit, En, Tipos, Punteros, Mensajes
<1>4. PidsDe(colaExit') = Append(PidsDe(colaExit), mensaje.pid)
  <2>1. [pid |-> mensaje.pid, objeto |-> "nuevo"] \in Salidas
    BY <1>3 DEF Salidas
  <2>2. PICK x \in Salidas : x = [pid |-> mensaje.pid, objeto |-> "nuevo"]
    BY <2>1
  <2>3. colaExit' = Append(colaExit, x) /\ x.pid = mensaje.pid /\ colaExit \in Seq(Salidas)
    BY <2>2 DEF AgregarAExit, Tipos, TypeOK, ListasTypeOK
  <2>4. PidsDe(Append(colaExit, x)) = Append(PidsDe(colaExit), x.pid)
    BY <2>3, PidsDeCambio
  <2>5. QED
    BY <2>3, <2>4
<1>5. ASSUME NEW p \in Pids
      PROVE  EnSalida(p)' = EnSalida(p) + Uno(mensaje.pid = p)
  <2>1. PidsDe(colaExit) \in Seq(Pids)
    BY PidsDeTipo DEF Tipos, TypeOK, ListasTypeOK
  <2> HIDE DEF Pids
  <2>2. Veces(PidsDe(colaExit'), p) = Veces(PidsDe(colaExit), p) + Uno(mensaje.pid = p)
    BY <1>3, <1>4, <2>1, VecesAlFinal
  <2>3. Veces(PidsDe(colaExit), p) \in Nat /\ Uno(mensaje.pid = p) \in Nat /\ finMemoria[p] \in Nat
    BY <2>1, VecesTipo DEF Uno, Tipos, TypeOK, GestionTypeOK
  <2>4. QED
    BY <1>1, <2>2, <2>3 DEF EnSalida
<1>6. ASSUME NEW p \in Pids
      PROVE  LugaresDe(p)' = LugaresDe(p) /\ EnSalida(p)' >= EnSalida(p)
  <2>1. EnVariables(p) = EnVariables(p)' + Uno(mensaje.pid = p) /\ Uno(mensaje.pid = p) \in Nat
    BY <1>1, <1>2, DejarMensaje
  <2>2. EnIo(p)' = EnIo(p) /\ EnColas(p)' = EnColas(p)
    BY <1>1 DEF EnIo, Atendidos, EnColas
  <2>3. QED
    BY <1>5, <2>1, <2>2, LugaresNatHay, LugaresNatPrima DEF LugaresDe, LugaresNat
<1>7. EnSalida(mensaje.pid)' >= 1
  <2>1. PICK q \in Pids : q = mensaje.pid
    BY <1>3
  <2>2. EnSalida(q)' = EnSalida(q) + 1 /\ EnSalida(q) \in Nat
    BY <1>5, <2>1, LugaresNatHay DEF LugaresNat, Uno
  <2>3. EnSalida(mensaje.pid)' = EnSalida(q)'
    BY <1>1, <2>1
  <2>4. QED
    BY <2>2, <2>3
<1>8. QED
  BY <1>6, <1>7 DEF Mudanza

(* The interfaces *)
LEMMA ColaDeUna ==
  ASSUME Tipos, NEW i \in Interfaces, NEW M \in [Interfaces -> Seq(Pids)],
         \A j \in Interfaces \ {i} : M[j] = ioCola[j], NEW p \in Pids
  PROVE  /\ Cardinality(Pares(Interfaces, M, p)) \in Nat
         /\ Cardinality(Pares(Interfaces, M, p)) + Veces(ioCola[i], p)
              = Cardinality(Pares(Interfaces, ioCola, p)) + Veces(M[i], p)
<1>1. ioCola \in ListasDe(Interfaces, Pids) /\ M \in ListasDe(Interfaces, Pids)
  BY DEF ListasDe, Tipos, TypeOK, IoTypeOK
<1>2. IsFiniteSet(Pares(Interfaces, ioCola, p))
  BY AtendidosTipo
<1> HIDE DEF Pids
<1>3. QED
  BY <1>1, <1>2, UnaLista

LEMMA MudanzaEncolar ==
  ASSUME Tipos, Tipos', HilosSanos, AgregarProcesoBloqueado
  PROVE  Mudanza
<1>1. HilosTypeOK /\ UNCHANGED <<execute, local, ioPid, finMemoria, cola, colaExit>>
  BY DEF AgregarProcesoBloqueado, listas, gestionVars, Tipos, TypeOK
<1>2. pc'["corto"] = pc["corto"] /\ ConPcb /\ ~ConPcb'
  BY <1>1 DEF AgregarProcesoBloqueado, Terminar, En, Ir, HilosTypeOK, Hilos, ConPcb
<1>3. mensaje.pid \in Pids /\ mensaje.interfaz \in Interfaces
  BY DEF AgregarProcesoBloqueado, En, Tipos, Punteros, Mensajes, HilosSanos
<1>4. PICK i \in Interfaces : i = mensaje.interfaz
  BY <1>3
<1>5. /\ ioCola \in [Interfaces -> Seq(Pids)] /\ ioCola' \in [Interfaces -> Seq(Pids)]
      /\ ioCola'[i] = Append(ioCola[i], mensaje.pid)
      /\ \A j \in Interfaces \ {i} : ioCola'[j] = ioCola[j]
  BY <1>4 DEF AgregarProcesoBloqueado, Tipos, TypeOK, IoTypeOK
<1> SUFFICES ASSUME NEW p \in Pids
             PROVE  LugaresDe(p)' = LugaresDe(p) /\ EnSalida(p)' >= EnSalida(p)
  BY DEF Mudanza
<1>6. EnVariables(p) = EnVariables(p)' + Uno(mensaje.pid = p) /\ Uno(mensaje.pid = p) \in Nat
  BY <1>1, <1>2, DejarMensaje
<1>7. EnIo(p)' = EnIo(p) + Uno(mensaje.pid = p)
  <2>1. PICK n, m \in Nat : n = Veces(ioCola[i], p) /\ m = Cardinality(Pares(Interfaces, ioCola, p))
    <3>1. ioCola[i] \in Seq(Pids)
      BY <1>5
    <3>2. QED
      BY <3>1, VecesTipo, AtendidosTipo
  <2>2. Veces(ioCola'[i], p) = n + Uno(mensaje.pid = p)
    <3>1. ioCola[i] \in Seq(Pids)
      BY <1>5
    <3> HIDE DEF Pids
    <3>2. QED
      BY <1>3, <1>5, <2>1, <3>1, VecesAlFinal
  <2>3. PICK k \in Nat : k = Cardinality(Pares(Interfaces, ioCola', p)) /\ k + n = m + Veces(ioCola'[i], p)
    <3> HIDE DEF Pids
    <3>1. QED
      BY <1>5, <2>1, ColaDeUna
  <2>4. k = m + Uno(mensaje.pid = p)
    BY <1>6, <2>2, <2>3
  <2>5. Atendidos(p)' = Atendidos(p) /\ Cardinality(Atendidos(p)) \in Nat
    BY <1>1, AtendidosTipo DEF Atendidos
  <2>6. EnIo(p)' = Cardinality(Atendidos(p)) + k /\ EnIo(p) = Cardinality(Atendidos(p)) + m
    BY <2>1, <2>3, <2>5 DEF EnIo
  <2>7. QED
    BY <1>6, <2>4, <2>5, <2>6
<1>8. EnColas(p)' = EnColas(p) /\ EnSalida(p)' = EnSalida(p)
  BY <1>1 DEF EnColas, EnSalida
<1>9. QED
  BY <1>6, <1>7, <1>8, LugaresNatHay, LugaresNatPrima DEF LugaresDe, LugaresNat

(* The thread of an interface takes a pid, or leaves it. *)
LEMMA AtendidosCambia ==
  ASSUME Tipos, NEW i \in Interfaces, \A j \in Interfaces \ {i} : ioPid'[j] = ioPid[j], NEW p \in Pids
  PROVE  /\ Cardinality(Atendidos(p))' + Uno(ioPid[i] = p) = Cardinality(Atendidos(p)) + Uno(ioPid'[i] = p)
         /\ Cardinality(Atendidos(p))' \in Nat
<1> DEFINE R == Atendidos(p) \ {i}
<1>1. IsFiniteSet(Atendidos(p))
  BY AtendidosTipo
<1>2. IsFiniteSet(R) /\ Cardinality(R) \in Nat /\ i \notin R
  BY <1>1, FS_Subset, FS_CardinalityType
<1>3. Atendidos(p) = IF ioPid[i] = p THEN R \cup {i} ELSE R
  BY DEF Atendidos
<1>4. Atendidos(p)' = IF ioPid'[i] = p THEN R \cup {i} ELSE R
  BY DEF Atendidos
<1>5. Cardinality(R \cup {i}) = Cardinality(R) + 1
  BY <1>2, FS_AddElement
<1>6. Cardinality(Atendidos(p)) = Cardinality(R) + Uno(ioPid[i] = p)
  <2>1. CASE ioPid[i] = p
    BY <1>3, <1>5, <2>1 DEF Uno
  <2>2. CASE ioPid[i] # p
    <3>1. Cardinality(Atendidos(p)) = Cardinality(R) /\ Uno(ioPid[i] = p) = 0
      BY <1>3, <2>2 DEF Uno
    <3>2. QED
      BY <1>2, <3>1
  <2>3. QED
    BY <2>1, <2>2
<1>7. Cardinality(Atendidos(p)') = Cardinality(R) + Uno(ioPid'[i] = p)
  BY <1>2, <1>4, <1>5 DEF Uno
<1>8. Uno(ioPid[i] = p) \in Nat /\ Uno(ioPid'[i] = p) \in Nat
  BY DEF Uno
<1> HIDE DEF R
<1>9. QED
  BY <1>2, <1>6, <1>7, <1>8

LEMMA MudanzaObtener ==
  ASSUME Tipos, Tipos', HilosSanos, NEW i \in Interfaces, IoObtener(i)
  PROVE  Mudanza
<1>1. UNCHANGED <<execute, local, pc, mensaje, finMemoria, cola, colaExit>>
  BY DEF IoObtener, listas, turnoVars, hilos, gestionVars
<1>2. CASE ioCola[i] = <<>>
  BY <1>1, <1>2, NadieSeMueve DEF IoObtener, Volviendo, Encolando
<1>3. CASE ioCola[i] # <<>>
  <2> DEFINE x == Head(ioCola[i])
  <2>1. /\ ioCola \in [Interfaces -> Seq(Pids)] /\ ioCola' \in [Interfaces -> Seq(Pids)]
        /\ ioCola'[i] = Tail(ioCola[i])
        /\ \A j \in Interfaces \ {i} : ioCola'[j] = ioCola[j]
    BY <1>3 DEF IoObtener, Tipos, TypeOK, IoTypeOK, ListRemove
  <2>2. /\ ioPid[i] = Nulo /\ ioPid'[i] = x
        /\ \A j \in Interfaces \ {i} : ioPid'[j] = ioPid[j]
    BY <1>3 DEF IoObtener, Tipos, TypeOK, IoTypeOK, HilosSanos
  <2> SUFFICES ASSUME NEW p \in Pids
               PROVE  LugaresDe(p)' = LugaresDe(p) /\ EnSalida(p)' >= EnSalida(p)
    BY DEF Mudanza
  <2>3. PICK n, m, a, u \in Nat :
          /\ n = Veces(ioCola'[i], p) /\ m = Cardinality(Pares(Interfaces, ioCola, p))
          /\ a = Cardinality(Atendidos(p)) /\ u = Uno(x = p)
    <3>1. ioCola'[i] \in Seq(Pids)
      BY <2>1
    <3>2. QED
      BY <3>1, VecesTipo, AtendidosTipo DEF Uno
  <2>4. Veces(ioCola[i], p) = n + u
    <3>1. ioCola[i] \in Seq(Pids)
      BY <2>1
    <3> HIDE DEF Pids
    <3>2. QED
      BY <1>3, <2>1, <2>3, <3>1, VecesDelPrincipio
  <2>5. PICK k \in Nat : k = Cardinality(Pares(Interfaces, ioCola', p)) /\ k + Veces(ioCola[i], p) = m + n
    <3> HIDE DEF Pids
    <3>1. QED
      BY <2>1, <2>3, ColaDeUna
  <2>6. Cardinality(Atendidos(p))' = a + u
    <3>1. Uno(ioPid[i] = p) = 0 /\ Uno(ioPid'[i] = p) = u
      BY <2>2, <2>3 DEF Uno
    <3>2. Cardinality(Atendidos(p))' + Uno(ioPid[i] = p) = a + Uno(ioPid'[i] = p) /\ Cardinality(Atendidos(p))' \in Nat
      BY <2>2, <2>3, AtendidosCambia
    <3>3. QED
      BY <3>1, <3>2
  <2>7. EnIo(p)' = a + u + k /\ EnIo(p) = a + m
    BY <2>3, <2>5, <2>6 DEF EnIo
  <2>8. EnIo(p)' = EnIo(p)
    BY <2>4, <2>5, <2>7
  <2>9. EnColas(p)' = EnColas(p) /\ EnSalida(p)' = EnSalida(p) /\ EnVariables(p)' = EnVariables(p)
    BY <1>1 DEF EnColas, EnSalida, EnVariables, ConPcb
  <2>10. QED
    BY <2>8, <2>9, LugaresNatHay DEF LugaresDe, LugaresNat
<1>4. QED
  BY <1>2, <1>3

LEMMA IoSuelta ==
  ASSUME Tipos, NEW i \in Interfaces, NEW x \in Pids, x = ioPid[i], ioPid'[i] = Nulo,
         \A j \in Interfaces \ {i} : ioPid'[j] = ioPid[j], UNCHANGED ioCola, NEW p \in Pids
  PROVE  EnIo(p) = EnIo(p)' + Uno(x = p) /\ EnIo(p)' \in Nat
<1>1. PICK m, a, u \in Nat :
        m = Cardinality(Pares(Interfaces, ioCola, p)) /\ a = Cardinality(Atendidos(p)) /\ u = Uno(x = p)
  BY AtendidosTipo DEF Uno
<1>2. PICK b \in Nat : b = Cardinality(Atendidos(p))' /\ b + u = a
  <2>1. Uno(ioPid[i] = p) = u /\ Uno(ioPid'[i] = p) = 0
    BY <1>1 DEF Uno
  <2>2. Cardinality(Atendidos(p))' + Uno(ioPid[i] = p) = a + Uno(ioPid'[i] = p) /\ Cardinality(Atendidos(p))' \in Nat
    BY <1>1, AtendidosCambia
  <2>3. QED
    BY <1>1, <2>1, <2>2
<1>3. EnIo(p)' = b + m /\ EnIo(p) = a + m
  BY <1>1, <1>2 DEF EnIo
<1>4. QED
  BY <1>1, <1>2, <1>3

LEMMA MudanzaBlockedAReady ==
  ASSUME Tipos, Tipos', NEW i \in Interfaces, AgregarDeBlockedAReady(i)
  PROVE  Mudanza
<1>1. UNCHANGED <<execute, local, pc, mensaje, finMemoria, colaExit, ioCola>>
  BY DEF AgregarDeBlockedAReady, turnoVars, hilos, gestionVars
<1>2. PICK x \in Pids : x = ioPid[i]
  BY DEF AgregarDeBlockedAReady, Tipos, Punteros
<1>3. /\ ioPid'[i] = Nulo /\ \A j \in Interfaces \ {i} : ioPid'[j] = ioPid[j]
  BY DEF AgregarDeBlockedAReady, Tipos, TypeOK, IoTypeOK
<1>4. PICK c \in Colas : cola' = [cola EXCEPT ![c] = Append(@, x)]
  BY <1>2 DEF AgregarDeBlockedAReady, ColaReadyDe, Colas
<1> SUFFICES ASSUME NEW p \in Pids
             PROVE  LugaresDe(p)' = LugaresDe(p) /\ EnSalida(p)' >= EnSalida(p)
  BY DEF Mudanza
<1>5. EnColas(p)' = EnColas(p) + Uno(x = p)
  <2>1. cola'[c] = Append(cola[c], x) /\ \A d \in Colas \ {c} : cola'[d] = cola[d]
    BY <1>4 DEF Tipos, TypeOK, ListasTypeOK, Colas
  <2> HIDE DEF Pids
  <2>2. QED
    BY <2>1, ColaAlFinal
<1>6. EnIo(p) = EnIo(p)' + Uno(x = p)
  BY <1>1, <1>2, <1>3, IoSuelta
<1>7. Uno(x = p) \in Nat /\ EnSalida(p)' = EnSalida(p) /\ EnVariables(p)' = EnVariables(p)
  BY <1>1 DEF EnSalida, EnVariables, ConPcb, Uno
<1>8. QED
  BY <1>5, <1>6, <1>7, LugaresNatHay, LugaresNatPrima DEF LugaresDe, LugaresNat

LEMMA MudanzaEndProcess ==
  ASSUME Tipos, Tipos', TablaSana, EndProcess
  PROVE  Mudanza
<1>1. UNCHANGED <<execute, local, pc, mensaje, cola, ioCola, ioPid>>
  BY DEF EndProcess, turnoVars, hilos, ioVars
<1>2. colaExit \in Seq(Salidas) /\ colaExit # <<>> /\ colaExit' = ListRemove(colaExit)
  BY DEF EndProcess, Tipos, TypeOK, ListasTypeOK
<1>3. Head(colaExit).objeto # "liberado" /\ Head(colaExit).pid \in Pids
  <2>1. Head(colaExit) = colaExit[1] /\ 1 \in DOMAIN colaExit /\ Head(colaExit) \in Salidas
    BY <1>2, HeadTailProperties, LenProperties, EmptySeq
  <2>2. QED
    BY <2>1 DEF TablaSana, Salidas
<1>4. PICK x \in Pids : x = Head(colaExit).pid
  BY <1>3
<1>5. finMemoria \in [Pids -> Nat] /\ finMemoria' = [finMemoria EXCEPT ![x] = @ + 1]
  BY <1>3, <1>4 DEF EndProcess, Tipos, TypeOK, GestionTypeOK
<1>6. PidsDe(colaExit') = Tail(PidsDe(colaExit)) /\ PidsDe(colaExit) # <<>> /\ Head(PidsDe(colaExit)) = x
  BY <1>2, <1>4, PidsDeCambio
<1> SUFFICES ASSUME NEW p \in Pids
             PROVE  LugaresDe(p)' = LugaresDe(p) /\ EnSalida(p)' >= EnSalida(p)
  BY DEF Mudanza
<1>7. EnSalida(p)' = EnSalida(p)
  <2>1. PidsDe(colaExit) \in Seq(Pids) /\ Tail(PidsDe(colaExit)) \in Seq(Pids)
    <3>1. PidsDe(colaExit) \in Seq(Pids)
      BY <1>2, PidsDeTipo
    <3>2. QED
      BY <1>6, <3>1, HeadTailProperties
  <2>2. PICK n, u, f \in Nat : n = Veces(Tail(PidsDe(colaExit)), p) /\ u = Uno(x = p) /\ f = finMemoria[p]
    BY <1>5, <2>1, VecesTipo DEF Uno
  <2>3. Veces(PidsDe(colaExit), p) = n + u
    <3> HIDE DEF Pids
    <3>1. QED
      BY <1>6, <2>1, <2>2, VecesDelPrincipio
  <2>4. finMemoria'[p] = f + u
    BY <1>5, <2>2 DEF Uno
  <2>5. EnSalida(p)' = n + (f + u) /\ EnSalida(p) = (n + u) + f
    BY <1>6, <2>2, <2>3, <2>4 DEF EnSalida
  <2>6. QED
    BY <2>5
<1>8. EnColas(p)' = EnColas(p) /\ EnIo(p)' = EnIo(p) /\ EnVariables(p)' = EnVariables(p)
  BY <1>1 DEF EnColas, EnIo, Atendidos, EnVariables, ConPcb
<1>9. QED
  BY <1>7, <1>8, LugaresNatHay DEF LugaresDe, LugaresNat

(* The threads stay sound. *)
LEMMA HilosQuietos ==
  ASSUME Tipos, HilosSanos,
         \A h \in {"consola", "largo", "corto", "despacho"} : pc'[h] = pc[h] /\ local'[h] = local[h],
         UNCHANGED <<dic, ioPid, ioPc, mensaje>>
  PROVE  HilosSanos'
  BY DEF HilosSanos

LEMMA HilosLargo ==
  ASSUME Tipos, HilosSanos, LargoPlazo
  PROVE  HilosSanos'
<1>1. HilosTypeOK
  BY DEF Tipos, TypeOK
<1>2. UNCHANGED <<dic, ioPid, ioPc, mensaje>>
  BY DEF LargoPlazo, LargoEsperar, LargoOrden, LargoMulti, LargoSacar, LargoAgregar, LargoMostrar, turnoVars,
         ioVars, gestionVars, consolaVars
<1>3. \A h \in {"consola", "corto", "despacho"} : pc'[h] = pc[h] /\ local'[h] = local[h]
  BY <1>1 DEF LargoPlazo, LargoEsperar, LargoOrden, LargoMulti, LargoSacar, LargoAgregar, LargoMostrar, Ir, Tener,
              HilosTypeOK, Hilos
<1>4. local'["largo"] # Nulo => pc'["largo"] = "agregar"
  <2>1. CASE LargoEsperar \/ LargoOrden \/ LargoMulti \/ LargoMostrar
    BY <2>1 DEF LargoEsperar, LargoOrden, LargoMulti, LargoMostrar, En, HilosSanos
  <2>2. CASE LargoSacar
    BY <1>1, <2>2 DEF LargoSacar, Ir, HilosTypeOK, Hilos
  <2>3. CASE LargoAgregar
    BY <1>1, <2>3 DEF LargoAgregar, Tener, HilosTypeOK, Hilos
  <2>4. QED
    BY <2>1, <2>2, <2>3 DEF LargoPlazo
<1>5. QED
  BY <1>2, <1>3, <1>4 DEF HilosSanos

LEMMA HilosCorto ==
  ASSUME Tipos, HilosSanos, CortoPlazo \/ Quantum
  PROVE  HilosSanos'
<1>1. HilosTypeOK
  BY DEF Tipos, TypeOK
<1>2. CASE CortoElegir \/ CortoCpu \/ CortoUnir
  <2>1. UNCHANGED <<dic, ioPid, ioPc, mensaje, local>>
    BY <1>2 DEF CortoElegir, CortoCpu, CortoUnir, turnoVars, ioVars, gestionVars, consolaVars
  <2>2. /\ pc["corto"] \notin {"ejecutar", "quantum"}
        /\ \A h \in {"consola", "largo", "despacho"} : pc'[h] = pc[h]
    BY <1>1, <1>2 DEF CortoElegir, CortoCpu, CortoUnir, En, Ir, HilosTypeOK, Hilos
  <2>3. QED
    BY <2>1, <2>2 DEF HilosSanos
<1>3. ASSUME NEW paso \in {"ready", "aux"}, NEW c \in {"READY", "AUX_READY"}, CortoSacar(paso, c)
      PROVE  HilosSanos'
  <2>1. UNCHANGED <<dic, ioPid, ioPc, mensaje>>
    BY <1>3 DEF CortoSacar, turnoVars, ioVars, gestionVars, consolaVars
  <2>2. \A h \in {"consola", "largo", "despacho"} : pc'[h] = pc[h] /\ local'[h] = local[h]
    BY <1>1, <1>3 DEF CortoSacar, Ir, Tener, HilosTypeOK, Hilos
  <2>3. pc'["corto"] = "ejecutar"
    BY <1>1, <1>3 DEF CortoSacar, Ir, HilosTypeOK, Hilos
  <2>4. QED
    BY <2>1, <2>2, <2>3 DEF HilosSanos
<1>4. CASE CortoEjecutar
  <2>1. UNCHANGED <<dic, ioPid, ioPc, mensaje>>
    BY <1>4 DEF CortoEjecutar, ioVars, gestionVars, consolaVars
  <2>2. \A h \in {"consola", "largo", "despacho"} : pc'[h] = pc[h] /\ local'[h] = local[h]
    BY <1>1, <1>4 DEF CortoEjecutar, Ir, Tener, HilosTypeOK, Hilos
  <2>3. pc'["corto"] = "quantum" \/ local'["corto"] = Nulo
    BY <1>1, <1>4 DEF CortoEjecutar, Ir, Tener, HilosTypeOK, Hilos
  <2>4. QED
    BY <2>1, <2>2, <2>3 DEF HilosSanos
<1>5. CASE InterrupcionQuantum
  <2>1. UNCHANGED <<turnoVars, ioVars, gestionVars>>
    BY <1>5, Zenon DEF InterrupcionQuantum
  <2>2. UNCHANGED <<dic, ioPid, ioPc, mensaje>>
    BY <2>1 DEF turnoVars, ioVars, gestionVars, consolaVars
  <2>3. UNCHANGED hilos \/ \E q : local' = [local EXCEPT !.corto = Nulo, !.quantum = q]
    BY <1>5, Zenon DEF InterrupcionQuantum
  <2>4. UNCHANGED hilos \/ pc' = [pc EXCEPT !.corto = "unir", !.quantum = "crear"]
    BY <1>5, Zenon DEF InterrupcionQuantum
  <2>5. CASE UNCHANGED hilos
    BY <2>2, <2>5, HilosQuietos DEF hilos
  <2>6. CASE ~UNCHANGED hilos
    <3>1. \A h \in {"consola", "largo", "despacho"} : pc'[h] = pc[h]
      BY <1>1, <2>4, <2>6 DEF HilosTypeOK, Hilos
    <3>2. local'["corto"] = Nulo /\ \A h \in {"consola", "largo", "despacho"} : local'[h] = local[h]
      BY <1>1, <2>3, <2>6 DEF HilosTypeOK, Hilos
    <3>3. QED
      BY <2>2, <3>1, <3>2 DEF HilosSanos
  <2>7. QED
    BY <2>5, <2>6
<1>6. CASE Quantum
  <2>1. UNCHANGED <<dic, ioPid, ioPc, mensaje>>
    BY <1>6 DEF Quantum, QuantumCrear, QuantumVencer, turnoVars, ioVars, gestionVars, consolaVars
  <2>2. \A h \in {"consola", "largo", "corto", "despacho"} : pc'[h] = pc[h] /\ local'[h] = local[h]
    BY <1>1, <1>6 DEF Quantum, QuantumCrear, QuantumVencer, Ir, Tener, HilosTypeOK, Hilos
  <2>3. QED
    BY <2>1, <2>2, HilosQuietos
<1>7. QED
  BY <1>2, <1>3, <1>4, <1>5, <1>6 DEF CortoPlazo

LEMMA HilosDespacho ==
  ASSUME Tipos, HilosSanos, Despacho
  PROVE  HilosSanos'
<1>1. HilosTypeOK
  BY DEF Tipos, TypeOK
<1>2. UNCHANGED <<dic, ioPid, ioPc, local>>
  BY DEF Despacho, RecibirPcbOSolicitud, Cancelar, RecibirInterrumpido, ActualizarPcbQuantum,
         AgregarDeExecuteAReady, MostrarExecuteAReady, AgregarAExit, ActualizarPcbFinal, Bloquear,
         AgregarProcesoBloqueado, ioVars, gestionVars, consolaVars
<1>3. CASE Cancelar
  <2>1. \E s \in {"exit", "bloquear"} :
          /\ s = "bloquear" => mensaje.interfaz \in Interfaces
          /\ \/ pc' = [pc EXCEPT !["despacho"] = s]
             \/ \E q : pc' = [pc EXCEPT !["despacho"] = s, !["quantum"] = q]
    BY <1>3 DEF Cancelar, CancelarQuantum, Ir
  <2>2. /\ \A h \in {"consola", "largo", "corto"} : pc'[h] = pc[h]
        /\ pc'["despacho"] \in {"exit", "bloquear"}
        /\ pc'["despacho"] = "bloquear" => mensaje.interfaz \in Interfaces
    BY <1>1, <2>1 DEF HilosTypeOK, Hilos
  <2>3. UNCHANGED mensaje
    BY <1>3 DEF Cancelar, turnoVars
  <2>4. QED
    BY <1>2, <2>2, <2>3 DEF HilosSanos
<1>4. CASE ~Cancelar
  <2>1. \E s : pc' = [pc EXCEPT !["despacho"] = s]
    BY <1>4 DEF Despacho, RecibirPcbOSolicitud, RecibirInterrumpido, ActualizarPcbQuantum, Terminar,
         AgregarDeExecuteAReady, MostrarExecuteAReady, AgregarAExit, ActualizarPcbFinal, Bloquear,
         AgregarProcesoBloqueado, Ir
  <2>2. \A h \in {"consola", "largo", "corto"} : pc'[h] = pc[h]
    BY <1>1, <2>1 DEF HilosTypeOK, Hilos
  <2>3. CASE Bloquear
    BY <1>1, <1>2, <2>2, <2>3 DEF Bloquear, En, HilosSanos, turnoVars
  <2>4. CASE ~Bloquear
    <3>1. pc'["despacho"] \notin {"bloquear", "encolar"}
      BY <1>1, <1>4, <2>4
      DEF Despacho, RecibirPcbOSolicitud, RecibirInterrumpido, ActualizarPcbQuantum, Terminar,
          AgregarDeExecuteAReady, MostrarExecuteAReady, AgregarAExit, ActualizarPcbFinal,
          AgregarProcesoBloqueado, Ir, HilosTypeOK, Hilos
    <3>2. QED
      BY <1>2, <2>2, <3>1 DEF HilosSanos
  <2>5. QED
    BY <2>3, <2>4
<1>5. QED
  BY <1>3, <1>4

LEMMA HilosIO ==
  ASSUME Tipos, HilosSanos, NEW i \in Interfaces, HiloIO(i)
  PROVE  HilosSanos'
<1>1. UNCHANGED <<dic, pc, local, mensaje>>
  BY DEF HiloIO, IoEsperar, IoObtener, IoResponder, AgregarDeBlockedAReady, MostrarBlockedAReady, turnoVars, hilos,
         gestionVars, consolaVars
<1>2. IoTypeOK
  BY DEF Tipos, TypeOK
<1>3. \A j \in Interfaces \ {i} : ioPid'[j] = ioPid[j] /\ ioPc'[j] = ioPc[j]
  BY <1>2 DEF HiloIO, IoEsperar, IoObtener, IoResponder, AgregarDeBlockedAReady, MostrarBlockedAReady, IrIO, IoTypeOK
<1>4. ioPid'[i] # Nulo => ioPc'[i] \in {"servicio", "agregar"}
  <2>1. CASE IoEsperar(i) \/ MostrarBlockedAReady(i)
    BY <2>1 DEF IoEsperar, MostrarBlockedAReady, HilosSanos
  <2>2. CASE IoObtener(i)
    BY <1>2, <2>2 DEF IoObtener, IrIO, HilosSanos, IoTypeOK
  <2>3. CASE IoResponder(i)
    BY <1>2, <2>3 DEF IoResponder, IrIO, HilosSanos, IoTypeOK
  <2>4. CASE AgregarDeBlockedAReady(i)
    BY <1>2, <2>4 DEF AgregarDeBlockedAReady, IoTypeOK
  <2>5. QED
    BY <2>1, <2>2, <2>3, <2>4 DEF HiloIO
<1>5. QED
  BY <1>1, <1>3, <1>4 DEF HilosSanos

(* The table and COLA_EXIT stay sound. *)
LEMMA Presente ==
  ASSUME Tipos, CadaUnoEnSuLugar, NEW p \in Pids,
         EnColas(p) >= 1 \/ EnVariables(p) >= 1 \/ EnIo(p) >= 1
  PROVE  p < identificador /\ EnSalida(p) = 0
<1>1. LugaresDe(p) = Uno(p < identificador)
  BY DEF CadaUnoEnSuLugar
<1>2. Uno(p < identificador) \in {0, 1}
  BY DEF Uno
<1>3. LugaresDe(p) >= 1 + EnSalida(p) /\ EnSalida(p) \in Nat
  BY LugaresNatHay DEF LugaresDe, LugaresNat
<1>4. Uno(p < identificador) = 1 /\ EnSalida(p) = 0
  BY <1>1, <1>2, <1>3
<1>5. QED
  BY <1>4 DEF Uno

LEMMA ConVariable ==
  ASSUME NEW p \in Pids,
         \/ local["largo"] = p
         \/ pc["corto"] = "ejecutar" /\ local["corto"] = p
         \/ ConPcb /\ mensaje.pid = p
  PROVE  EnVariables(p) >= 1
<1>1. /\ Uno(local["largo"] = p) \in Nat /\ Uno(pc["corto"] = "ejecutar" /\ local["corto"] = p) \in Nat
      /\ Uno(execute = p) \in Nat /\ Uno(ConPcb /\ mensaje.pid = p) \in Nat
  BY DEF Uno
<1>2. \/ Uno(local["largo"] = p) = 1
      \/ Uno(pc["corto"] = "ejecutar" /\ local["corto"] = p) = 1
      \/ Uno(ConPcb /\ mensaje.pid = p) = 1
  BY DEF Uno
<1>3. QED
  BY <1>1, <1>2 DEF EnVariables

LEMMA ConInterfaz ==
  ASSUME Tipos, NEW i \in Interfaces, NEW p \in Pids, ioPid[i] = p
  PROVE  EnIo(p) >= 1
<1>1. i \in Atendidos(p) /\ IsFiniteSet(Atendidos(p))
  BY AtendidosTipo DEF Atendidos
<1>2. Cardinality(Atendidos(p)) >= 1
  BY <1>1, FS_EmptySet, FS_CardinalityType
<1>3. QED
  BY <1>2, AtendidosTipo DEF EnIo

LEMMA FueraDeExit ==
  ASSUME Tipos, NEW p \in Pids, EnSalida(p) = 0
  PROVE  /\ \A k \in DOMAIN colaExit : colaExit[k].pid # p
         /\ Reemplazado(colaExit, p) = colaExit
<1>1. colaExit \in Seq(Salidas) /\ finMemoria[p] \in Nat /\ DOMAIN colaExit = 1..Len(colaExit)
  BY LenProperties DEF Tipos, TypeOK, ListasTypeOK, GestionTypeOK
<1>2. PidsDe(colaExit) \in Seq(Pids) /\ Len(PidsDe(colaExit)) = Len(colaExit)
  BY <1>1, PidsDeTipo
<1>3. Veces(PidsDe(colaExit), p) = 0
  BY <1>1, <1>2, VecesTipo DEF EnSalida
<1>4. p \notin Elementos(PidsDe(colaExit))
  BY <1>2, <1>3, VecesCero
<1>5. \A k \in DOMAIN colaExit : colaExit[k].pid # p
  BY <1>1, <1>4 DEF Elementos, PidsDe
<1>6. Reemplazado(colaExit, p) = [k \in DOMAIN colaExit |-> colaExit[k]]
  BY <1>5 DEF Reemplazado
<1>7. QED
  BY <1>1, <1>5, <1>6

Actualizando == pc["despacho"] = "actualizar"

SalidaSube == \A p \in Pids : EnSalida(p)' >= EnSalida(p) /\ EnSalida(p) \in Nat /\ EnSalida(p)' \in Nat

LEMMA TablaCambia ==
  ASSUME Tipos, TablaSana, SalidaSube, UNCHANGED <<identificador, colaExit>>,
         \A p \in Pids : \/ tabla'[p] = tabla[p]
                         \/ p < identificador /\ tabla'[p] \notin {"NINGUNO", "FINISHED"},
         Actualizando' = Actualizando, Actualizando => UNCHANGED mensaje
  PROVE  TablaSana'
<1>1. Actualizando => mensaje.pid \in Pids
  BY DEF Actualizando, Tipos, Punteros, Mensajes
<1>2. Actualizando' => EnSalida(mensaje.pid)' >= 1
  <2>1. SUFFICES ASSUME Actualizando PROVE EnSalida(mensaje.pid)' >= 1
    OBVIOUS
  <2>2. PICK q \in Pids : q = mensaje.pid
    BY <1>1, <2>1
  <2>3. EnSalida(q) >= 1
    BY <2>1, <2>2 DEF TablaSana, Actualizando
  <2>4. EnSalida(mensaje.pid)' = EnSalida(q)'
    BY <2>1, <2>2
  <2>5. QED
    BY <2>3, <2>4 DEF SalidaSube
<1>3. \A k \in DOMAIN colaExit :
        colaExit[k].objeto = IF Actualizando' /\ mensaje'.pid = colaExit[k].pid THEN "nuevo" ELSE "tabla"
  BY DEF TablaSana, Actualizando
<1>4. \A p \in Pids : tabla'[p] = "FINISHED" => EnSalida(p)' >= 1
  BY DEF TablaSana, SalidaSube
<1>5. \A p \in Pids : tabla'[p] = "NINGUNO" <=> p >= identificador
  <2>1. identificador \in Nat
    BY DEF Tipos, TypeOK, GestionTypeOK
  <2>2. QED
    BY <2>1 DEF TablaSana
<1>6. QED
  BY <1>2, <1>3, <1>4, <1>5 DEF TablaSana, Actualizando

LEMMA SalidaSubeHay ==
  ASSUME Tipos, Tipos', Mudanza
  PROVE  SalidaSube
  BY LugaresNatHay, LugaresNatPrima DEF Mudanza, SalidaSube, LugaresNat

LEMMA TablaLargoCorto ==
  ASSUME Tipos, Tipos', vivo, CadaUnoEnSuLugar, TablaSana, Mudanza, LargoPlazo \/ CortoPlazo \/ Quantum
  PROVE  TablaSana'
<1>1. SalidaSube
  BY SalidaSubeHay
<1>2. HilosTypeOK
  BY DEF Tipos, TypeOK
<1>3. UNCHANGED <<identificador, colaExit, mensaje>>
  <2>1. CASE InterrupcionQuantum
    <3>1. UNCHANGED <<listas, turnoVars, gestionVars>>
      BY <2>1, Zenon DEF InterrupcionQuantum
    <3>2. QED
      BY <3>1 DEF listas, turnoVars, gestionVars, consolaVars
  <2>2. CASE ~InterrupcionQuantum
    BY <2>2 DEF LargoPlazo, LargoEsperar, LargoOrden, LargoMulti, LargoSacar, LargoAgregar, LargoMostrar,
      CortoPlazo, CortoElegir, CortoCpu, CortoSacar, CortoEjecutar, CortoUnir, Quantum, QuantumCrear, QuantumVencer,
      listas, turnoVars, gestionVars, consolaVars
  <2>3. QED
    BY <2>1, <2>2
<1>4. Actualizando' = Actualizando
  <2>1. CASE InterrupcionQuantum
    <3>1. UNCHANGED hilos \/ pc' = [pc EXCEPT !.corto = "unir", !.quantum = "crear"]
      BY <2>1, Zenon DEF InterrupcionQuantum
    <3>2. QED
      BY <1>2, <3>1 DEF hilos, Actualizando, HilosTypeOK, Hilos
  <2>2. CASE ~InterrupcionQuantum
    BY <1>2, <2>2 DEF LargoPlazo, LargoEsperar, LargoOrden, LargoMulti, LargoSacar, LargoAgregar, LargoMostrar,
      CortoPlazo, CortoElegir, CortoCpu, CortoSacar, CortoEjecutar, CortoUnir, Quantum, QuantumCrear, QuantumVencer,
      Ir, Actualizando, HilosTypeOK, Hilos
  <2>3. QED
    BY <2>1, <2>2
<1>5. ASSUME NEW p \in Pids
      PROVE  \/ tabla'[p] = tabla[p]
             \/ p < identificador /\ tabla'[p] \notin {"NINGUNO", "FINISHED"}
  <2>1. tabla \in [Pids -> Estados]
    BY DEF Tipos, TypeOK, ListasTypeOK
  <2>2. CASE LargoAgregar
    <3>1. local["largo"] \in Pids /\ tabla' = [tabla EXCEPT ![local["largo"]] = "READY"]
      BY <2>2 DEF LargoAgregar, En, Tipos, Punteros
    <3>2. p = local["largo"] => p < identificador
      BY <3>1, ConVariable, Presente
    <3>3. QED
      BY <2>1, <3>1, <3>2
  <2>3. CASE CortoEjecutar
    <3>1. local["corto"] \in Pids /\ tabla' = [tabla EXCEPT ![local["corto"]] = "EXEC"] /\ pc["corto"] = "ejecutar"
      BY <2>3 DEF CortoEjecutar, En, Tipos, Punteros
    <3>2. p = local["corto"] => p < identificador
      BY <3>1, ConVariable, Presente
    <3>3. QED
      BY <2>1, <3>1, <3>2
  <2>4. CASE InterrupcionQuantum
    <3>1. UNCHANGED listas
      BY <2>4, Zenon DEF InterrupcionQuantum
    <3>2. QED
      BY <3>1 DEF listas
  <2>5. CASE ~LargoAgregar /\ ~CortoEjecutar /\ ~InterrupcionQuantum
    BY <2>5 DEF LargoPlazo, LargoEsperar, LargoOrden, LargoMulti, LargoSacar, LargoMostrar,
      CortoPlazo, CortoElegir, CortoCpu, CortoSacar, CortoUnir, Quantum, QuantumCrear, QuantumVencer, listas
  <2>6. QED
    BY <2>2, <2>3, <2>4, <2>5
<1>6. QED
  BY <1>1, <1>3, <1>4, <1>5, TablaCambia

LEMMA EnSalidaCreado ==
  ASSUME Tipos, CadaUnoEnSuLugar, NEW p \in Pids, EnSalida(p) >= 1
  PROVE  p < identificador
<1>1. LugaresDe(p) = Uno(p < identificador) /\ LugaresDe(p) >= 1
  BY LugaresNatHay DEF CadaUnoEnSuLugar, LugaresDe, LugaresNat
<1>2. QED
  BY <1>1 DEF Uno

LEMMA TablaIniciar ==
  ASSUME Tipos, Tipos', TablaSana, \A p \in Pids : EnSalida(p)' = EnSalida(p), IniciarProceso
  PROVE  TablaSana'
<1>1. /\ tabla \in [Pids -> Estados] /\ identificador \in Pids /\ identificador' = identificador + 1
      /\ tabla' = [tabla EXCEPT ![identificador] = "NEW"]
  BY DEF IniciarProceso, Tipos, TypeOK, ListasTypeOK, GestionTypeOK
<1>2. UNCHANGED <<colaExit, mensaje, pc>>
  BY DEF IniciarProceso, turnoVars, hilos
<1>3. \A p \in Pids : tabla'[p] = IF p = identificador THEN "NEW" ELSE tabla[p]
  BY <1>1
<1>4. \A p \in Pids : tabla'[p] = "NINGUNO" <=> p >= identificador'
  BY <1>1, <1>3 DEF TablaSana
<1>5. \A p \in Pids : tabla'[p] = "FINISHED" => EnSalida(p)' >= 1
  BY <1>3 DEF TablaSana
<1>6. pc'["despacho"] = "actualizar" => EnSalida(mensaje.pid)' >= 1
  <2>1. SUFFICES ASSUME pc["despacho"] = "actualizar" PROVE EnSalida(mensaje.pid)' >= 1
    BY <1>2
  <2>2. PICK q \in Pids : q = mensaje.pid
    BY <2>1 DEF Tipos, Punteros, Mensajes
  <2>3. EnSalida(mensaje.pid)' = EnSalida(q) /\ EnSalida(q) = EnSalida(mensaje.pid)
    BY <1>2, <2>2
  <2>4. QED
    BY <2>1, <2>3 DEF TablaSana
<1>7. QED
  BY <1>2, <1>4, <1>5, <1>6 DEF TablaSana

LEMMA TablaEndProcess ==
  ASSUME Tipos, Tipos', TablaSana, Mudanza, EndProcess
  PROVE  TablaSana'
<1>1. SalidaSube
  BY SalidaSubeHay
<1>2. UNCHANGED <<tabla, identificador, mensaje, pc>>
  BY DEF EndProcess, turnoVars, hilos, consolaVars
<1>3. /\ colaExit \in Seq(Salidas) /\ colaExit # <<>> /\ colaExit' = Tail(colaExit)
  BY DEF EndProcess, Tipos, TypeOK, ListasTypeOK, ListRemove
<1>4. \A k \in DOMAIN colaExit' :
        colaExit'[k].objeto = IF pc["despacho"] = "actualizar" /\ mensaje.pid = colaExit'[k].pid THEN "nuevo" ELSE "tabla"
  <2>1. /\ Len(colaExit) \in Nat \ {0} /\ DOMAIN colaExit = 1..Len(colaExit)
        /\ DOMAIN Tail(colaExit) = 1..(Len(colaExit) - 1)
        /\ \A k \in 1..(Len(colaExit) - 1) : Tail(colaExit)[k] = colaExit[k + 1]
    BY <1>3, LenProperties, HeadTailProperties, EmptySeq
  <2>2. ASSUME NEW k \in DOMAIN colaExit'
        PROVE  k + 1 \in DOMAIN colaExit /\ colaExit'[k] = colaExit[k + 1]
    BY <1>3, <2>1
  <2>3. QED
    BY <2>2 DEF TablaSana
<1>5. pc["despacho"] = "actualizar" => EnSalida(mensaje.pid)' >= 1
  <2>1. SUFFICES ASSUME pc["despacho"] = "actualizar" PROVE EnSalida(mensaje.pid)' >= 1
    OBVIOUS
  <2>2. PICK q \in Pids : q = mensaje.pid
    BY <2>1 DEF Tipos, Punteros, Mensajes
  <2>3. EnSalida(mensaje.pid)' = EnSalida(q)' /\ EnSalida(q) >= 1
    BY <1>2, <2>1, <2>2 DEF TablaSana
  <2>4. QED
    BY <1>1, <2>3 DEF SalidaSube
<1>6. \A p \in Pids : tabla[p] = "FINISHED" => EnSalida(p)' >= 1
  BY <1>1 DEF TablaSana, SalidaSube
<1>7. QED
  BY <1>2, <1>4, <1>5, <1>6 DEF TablaSana

LEMMA TablaIO ==
  ASSUME Tipos, Tipos', CadaUnoEnSuLugar, TablaSana, Mudanza, NEW i \in Interfaces, HiloIO(i)
  PROVE  TablaSana'
<1>1. SalidaSube
  BY SalidaSubeHay
<1>2. UNCHANGED <<identificador, colaExit, mensaje, pc>>
  BY DEF HiloIO, IoEsperar, IoObtener, IoResponder, AgregarDeBlockedAReady, MostrarBlockedAReady, turnoVars, hilos,
         listas, gestionVars, consolaVars
<1>3. ASSUME NEW p \in Pids
      PROVE  \/ tabla'[p] = tabla[p]
             \/ p < identificador /\ tabla'[p] \notin {"NINGUNO", "FINISHED"}
  <2>1. CASE AgregarDeBlockedAReady(i)
    <3>1. /\ ioPid[i] \in Pids /\ tabla' = [tabla EXCEPT ![ioPid[i]] = "READY"]
          /\ tabla \in [Pids -> Estados]
      BY <2>1 DEF AgregarDeBlockedAReady, Tipos, Punteros, TypeOK, ListasTypeOK
    <3>2. p = ioPid[i] => p < identificador
      BY ConInterfaz, Presente
    <3>3. QED
      BY <3>1, <3>2
  <2>2. CASE ~AgregarDeBlockedAReady(i)
    BY <2>2 DEF HiloIO, IoEsperar, IoObtener, IoResponder, MostrarBlockedAReady, listas
  <2>3. QED
    BY <2>1, <2>2
<1>4. QED
  BY <1>1, <1>2, <1>3, TablaCambia DEF Actualizando

LEMMA TablaDespacho ==
  ASSUME Tipos, Tipos', CadaUnoEnSuLugar, TablaSana, Mudanza, Despacho,
         AgregarAExit => EnSalida(mensaje.pid)' >= 1
  PROVE  TablaSana'
<1>1. SalidaSube
  BY SalidaSubeHay
<1>2. HilosTypeOK /\ tabla \in [Pids -> Estados]
  BY DEF Tipos, TypeOK, ListasTypeOK
<1>3. UNCHANGED identificador
  BY DEF Despacho, RecibirPcbOSolicitud, Cancelar, RecibirInterrumpido, ActualizarPcbQuantum,
         AgregarDeExecuteAReady, MostrarExecuteAReady, AgregarAExit, ActualizarPcbFinal, Bloquear,
         AgregarProcesoBloqueado, gestionVars, consolaVars
<1>4. CASE RecibirPcbOSolicitud \/ RecibirInterrumpido \/ Cancelar \/ MostrarExecuteAReady \/ AgregarProcesoBloqueado
  <2>1. UNCHANGED <<tabla, colaExit>>
    BY <1>4 DEF RecibirPcbOSolicitud, RecibirInterrumpido, Cancelar, MostrarExecuteAReady, AgregarProcesoBloqueado,
                listas
  <2>2. ~Actualizando
    BY <1>4 DEF RecibirPcbOSolicitud, RecibirInterrumpido, RecibirDe, Cancelar, MostrarExecuteAReady,
                AgregarProcesoBloqueado, En, Actualizando
  <2>3. ~Actualizando'
    <3>1. CASE Cancelar
      <4>1. \E s \in {"exit", "bloquear"} :
              \/ pc' = [pc EXCEPT !["despacho"] = s]
              \/ \E q : pc' = [pc EXCEPT !["despacho"] = s, !["quantum"] = q]
        BY <3>1 DEF Cancelar, CancelarQuantum, Ir
      <4>2. QED
        BY <1>2, <4>1 DEF HilosTypeOK, Hilos, Actualizando
    <3>2. CASE ~Cancelar
      BY <1>2, <1>4, <3>2 DEF RecibirPcbOSolicitud, RecibirInterrumpido, MostrarExecuteAReady,
                 AgregarProcesoBloqueado, Terminar, Ir, HilosTypeOK, Hilos, Actualizando
    <3>3. QED
      BY <3>1, <3>2
  <2>4. QED
    BY <1>1, <1>3, <2>1, <2>2, <2>3, TablaCambia DEF Actualizando
<1>5. CASE ActualizarPcbQuantum \/ Bloquear \/ AgregarDeExecuteAReady
  <2>1. ConPcb /\ ~Actualizando /\ ~Actualizando'
    BY <1>2, <1>5 DEF ActualizarPcbQuantum, Bloquear, AgregarDeExecuteAReady, En, Ir, HilosTypeOK, Hilos, ConPcb,
                      Actualizando
  <2>2. mensaje.pid \in Pids
    BY <2>1 DEF ConPcb, Tipos, Punteros, Mensajes
  <2>3. mensaje.pid < identificador /\ EnSalida(mensaje.pid) = 0
    BY <2>1, <2>2, ConVariable, Presente
  <2>4. colaExit' = colaExit
    BY <1>5, <2>2, <2>3, FueraDeExit DEF ActualizarPcbQuantum, Bloquear, AgregarDeExecuteAReady, ActualizarTabla
  <2>5. PICK e \in {"NEW", "BLOCKED", "READY"} : tabla' = [tabla EXCEPT ![mensaje.pid] = e]
    BY <1>5 DEF ActualizarPcbQuantum, Bloquear, AgregarDeExecuteAReady, ActualizarTabla
  <2>6. ASSUME NEW p \in Pids
        PROVE  \/ tabla'[p] = tabla[p]
               \/ p < identificador /\ tabla'[p] \notin {"NINGUNO", "FINISHED"}
    BY <1>2, <2>2, <2>3, <2>5
  <2>7. QED
    BY <1>1, <1>3, <2>1, <2>4, <2>6, TablaCambia DEF Actualizando
<1>6. CASE AgregarAExit
  <2>1. UNCHANGED <<tabla, mensaje>> /\ pc["despacho"] = "exit" /\ pc'["despacho"] = "actualizar"
    BY <1>2, <1>6 DEF AgregarAExit, En, Ir, turnoVars, HilosTypeOK, Hilos
  <2>2. mensaje.pid \in Pids
    BY <2>1 DEF Tipos, Punteros, Mensajes
  <2>3. EnSalida(mensaje.pid) = 0
    BY <2>1, <2>2, ConVariable, Presente DEF ConPcb
  <2>4. \A k \in DOMAIN colaExit : colaExit[k].pid # mensaje.pid /\ colaExit[k].objeto = "tabla"
    BY <2>1, <2>2, <2>3, FueraDeExit DEF TablaSana
  <2>5. PICK x \in Salidas : x = [pid |-> mensaje.pid, objeto |-> "nuevo"]
    BY <2>2 DEF Salidas
  <2>6. colaExit' = Append(colaExit, x) /\ x.pid = mensaje.pid /\ x.objeto = "nuevo" /\ colaExit \in Seq(Salidas)
    BY <1>6, <2>5 DEF AgregarAExit, Tipos, TypeOK, ListasTypeOK
  <2>7. \A k \in DOMAIN colaExit' :
          colaExit'[k].objeto = IF mensaje.pid = colaExit'[k].pid THEN "nuevo" ELSE "tabla"
    <3>1. /\ Len(colaExit) \in Nat /\ DOMAIN colaExit = 1..Len(colaExit)
          /\ DOMAIN colaExit' = 1..(Len(colaExit) + 1)
          /\ \A k \in 1..Len(colaExit) : colaExit'[k] = colaExit[k]
          /\ colaExit'[Len(colaExit) + 1] = x
      BY <2>6, LenProperties, AppendProperties
    <3>2. ASSUME NEW k \in 1..(Len(colaExit) + 1)
          PROVE  k \in 1..Len(colaExit) \/ k = Len(colaExit) + 1
      BY <3>1
    <3>3. QED
      BY <2>4, <2>6, <3>1, <3>2
  <2>8. \A p \in Pids : tabla[p] = "FINISHED" => EnSalida(p)' >= 1
    BY <1>1 DEF TablaSana, SalidaSube
  <2>9. QED
    BY <1>3, <1>6, <2>1, <2>7, <2>8 DEF TablaSana
<1>7. CASE ActualizarPcbFinal
  <2>1. pc["despacho"] = "actualizar" /\ pc'["despacho"] = "recibir"
    BY <1>2, <1>7 DEF ActualizarPcbFinal, Terminar, En, Ir, HilosTypeOK, Hilos
  <2>2. mensaje.pid \in Pids
    BY <2>1 DEF Tipos, Punteros, Mensajes
  <2>3. tabla' = [tabla EXCEPT ![mensaje.pid] = "FINISHED"] /\ colaExit' = Reemplazado(colaExit, mensaje.pid)
    BY <1>7 DEF ActualizarPcbFinal, ActualizarTabla
  <2>4. \A p \in Pids : tabla'[p] = "FINISHED" => EnSalida(p)' >= 1
    <3>1. SUFFICES ASSUME NEW p \in Pids, tabla'[p] = "FINISHED" PROVE EnSalida(p)' >= 1
      OBVIOUS
    <3>2. CASE p = mensaje.pid
      BY <1>1, <2>1, <3>2 DEF TablaSana, SalidaSube
    <3>3. CASE p # mensaje.pid
      BY <1>1, <1>2, <2>3, <3>1, <3>3 DEF TablaSana, SalidaSube
    <3>4. QED
      BY <3>2, <3>3
  <2>5. \A p \in Pids : tabla'[p] = "NINGUNO" <=> p >= identificador
    <3>1. EnSalida(mensaje.pid) >= 1
      BY <2>1 DEF TablaSana
    <3>2. mensaje.pid < identificador
      BY <2>2, <3>1, EnSalidaCreado
    <3>3. identificador \in Nat
      BY DEF Tipos, TypeOK, GestionTypeOK
    <3>4. QED
      BY <1>2, <2>2, <2>3, <3>2, <3>3 DEF TablaSana
  <2>6. \A k \in DOMAIN colaExit' : colaExit'[k].objeto = "tabla"
    <3>1. colaExit \in Seq(Salidas) /\ DOMAIN colaExit = 1..Len(colaExit)
      BY LenProperties DEF Tipos, TypeOK, ListasTypeOK
    <3>2. SUFFICES ASSUME NEW k \in DOMAIN colaExit PROVE colaExit'[k].objeto = "tabla"
      BY <2>3 DEF Reemplazado
    <3>3. colaExit[k] \in Salidas
      BY <3>1, ElementOfSeq
    <3>4. colaExit'[k] = IF colaExit[k].pid # mensaje.pid THEN colaExit[k]
                         ELSE [colaExit[k] EXCEPT !.objeto = IF @ = "nuevo" THEN "tabla" ELSE "liberado"]
      BY <2>3 DEF Reemplazado
    <3>5. colaExit[k].objeto = IF mensaje.pid = colaExit[k].pid THEN "nuevo" ELSE "tabla"
      BY <2>1 DEF TablaSana
    <3>6. QED
      BY <3>3, <3>4, <3>5 DEF Salidas
  <2>7. QED
    BY <1>3, <2>1, <2>4, <2>5, <2>6 DEF TablaSana
<1>8. QED
  BY <1>4, <1>5, <1>6, <1>7 DEF Despacho

LEMMA UbicadosInicial == Init => Ubicados
<1> SUFFICES ASSUME Init PROVE Ubicados
  OBVIOUS
<1>1. /\ colaExit = <<>> /\ identificador = 1 /\ tabla = [p \in Pids |-> "NINGUNO"]
      /\ finMemoria = [p \in Pids |-> 0] /\ execute = Nulo
      /\ cola["NEW"] = <<>> /\ cola["READY"] = <<>> /\ cola["AUX_READY"] = <<>>
      /\ \A i \in Interfaces : ioPid[i] = Nulo /\ ioCola[i] = <<>>
      /\ pc["consola"] = "listo" /\ dic = "libre"
      /\ pc["despacho"] = "recibir" /\ pc["corto"] = "elegir"
      /\ local["consola"] = Nulo /\ local["largo"] = Nulo /\ local["corto"] = Nulo
  BY DEF Init, KernelInit, Hilos
<1>2. HilosSanos
  BY <1>1 DEF HilosSanos
<1>3. PidsDe(colaExit) = <<>>
  BY <1>1 DEF PidsDe
<1>4. ASSUME NEW p \in Pids
      PROVE  LugaresDe(p) = Uno(p < identificador)
  <2>1. EnColas(p) = 0 /\ EnSalida(p) = 0
    BY <1>1, <1>3, VecesVacia DEF EnColas, EnSalida
  <2>2. EnVariables(p) = 0
    BY <1>1 DEF EnVariables, ConPcb, Uno
  <2>3. Atendidos(p) = {} /\ Pares(Interfaces, ioCola, p) = {}
    BY <1>1 DEF Atendidos, Pares, Fila
  <2>4. EnIo(p) = 0
    BY <2>3, FS_EmptySet DEF EnIo
  <2>5. Uno(p < identificador) = 0
    BY <1>1 DEF Uno
  <2>6. QED
    BY <2>1, <2>2, <2>4, <2>5 DEF LugaresDe
<1>5. TablaSana
  BY <1>1 DEF TablaSana
<1>6. QED
  BY <1>2, <1>4, <1>5 DEF Ubicados, CadaUnoEnSuLugar

LEMMA Mudados ==
  ASSUME CadaUnoEnSuLugar, Mudanza, UNCHANGED identificador
  PROVE  CadaUnoEnSuLugar'
  BY DEF CadaUnoEnSuLugar, Mudanza

LEMMA UbicadosPaso ==
  ASSUME MaxFinalizar = 0
  PROVE  Tipos /\ Turno /\ Ubicados /\ [Next]_vars => Ubicados'
<1> SUFFICES ASSUME Tipos, Turno, Ubicados, [Next]_vars PROVE Ubicados'
  OBVIOUS
<1>1. Tipos' /\ CadaUnoEnSuLugar /\ HilosSanos /\ TablaSana
  BY TiposPaso DEF Ubicados
<1>2. ASSUME Mudanza, UNCHANGED <<tabla, identificador, colaExit, mensaje, pc>>
      PROVE  TablaSana'
  BY <1>1, <1>2, SalidaSubeHay, TablaCambia DEF Actualizando
<1>3. CASE UNCHANGED vars
  <2>1. UNCHANGED <<cola, execute, ioPid, ioPc, ioCola, finMemoria, mensaje, colaExit, pc, local, tabla, identificador, dic>>
    BY <1>3 DEF vars, kernelVars, turnoVars, listas, hilos, ioVars, gestionVars, consolaVars
  <2>2. Mudanza
    BY <2>1, NadieSeMueve DEF Volviendo, Encolando
  <2>3. QED
    BY <1>1, <1>2, <2>1, <2>2, Mudados, HilosQuietos DEF Ubicados
<1>4. CASE vivo /\ (Cpu \/ Consola \/ (\E s \in SemPlanes : DetenerCola(s)) \/ (\E k \in Cambios : Cambio(k))) /\ ~IniciarProceso
  <2>1. Mudanza /\ UNCHANGED <<colaExit, mensaje, pc, local, tabla, identificador, dic, ioPid, ioPc>>
    BY <1>1, <1>4, MudanzaGestion
  <2>2. QED
    BY <1>1, <1>2, <2>1, Mudados, HilosQuietos DEF Ubicados
<1>5. CASE vivo /\ IniciarProceso
  <2>1. UNCHANGED <<pc, local, dic, ioPid, ioPc, mensaje>>
    BY <1>5 DEF IniciarProceso, hilos, ioVars, turnoVars
  <2>2. QED
    BY <1>1, <1>5, <2>1, MudanzaIniciar, TablaIniciar, HilosQuietos DEF Ubicados
<1>6. CASE vivo /\ LargoPlazo
  <2>1. Mudanza
    BY <1>1, <1>6, MudanzaLargoQuieto, MudanzaLargoSacar, MudanzaLargoAgregar DEF LargoPlazo
  <2>2. UNCHANGED identificador
    BY <1>6 DEF LargoPlazo, LargoEsperar, LargoOrden, LargoMulti, LargoSacar, LargoAgregar, LargoMostrar,
                gestionVars, consolaVars
  <2>3. QED
    BY <1>1, <1>6, <2>1, <2>2, Mudados, HilosLargo, TablaLargoCorto DEF Ubicados
<1>7. CASE vivo /\ EndProcess
  <2>1. Mudanza
    BY <1>1, <1>7, MudanzaEndProcess
  <2>2. UNCHANGED <<identificador, pc, local, dic, ioPid, ioPc, mensaje>>
    BY <1>7 DEF EndProcess, hilos, ioVars, turnoVars, consolaVars
  <2>3. QED
    BY <1>1, <1>7, <2>1, <2>2, Mudados, HilosQuietos, TablaEndProcess DEF Ubicados
<1>8. CASE vivo /\ (CortoPlazo \/ Quantum)
  <2>1. Mudanza
    BY <1>1, <1>8, MudanzaCortoQuieto, MudanzaCortoSacar, MudanzaCortoEjecutar DEF CortoPlazo
  <2>2. UNCHANGED identificador
    <3>1. CASE InterrupcionQuantum
      <4>1. UNCHANGED gestionVars
        BY <3>1, Zenon DEF InterrupcionQuantum
      <4>2. QED
        BY <4>1 DEF gestionVars, consolaVars
    <3>2. CASE ~InterrupcionQuantum
      BY <1>8, <3>2 DEF CortoPlazo, CortoElegir, CortoCpu, CortoSacar, CortoEjecutar, CortoUnir, Quantum,
                        QuantumCrear, QuantumVencer, gestionVars, consolaVars
    <3>3. QED
      BY <3>1, <3>2
  <2>3. QED
    BY <1>1, <1>8, <2>1, <2>2, Mudados, HilosCorto, TablaLargoCorto DEF Ubicados
<1>9. CASE vivo /\ Despacho
  <2>1. Mudanza /\ (AgregarAExit => EnSalida(mensaje.pid)' >= 1)
    BY <1>1, <1>9, MudanzaDespachoQuieto, MudanzaRecibir, MudanzaExecuteAReady, MudanzaAExit, MudanzaEncolar
    DEF Despacho
  <2>2. UNCHANGED identificador
    BY <1>9 DEF Despacho, RecibirPcbOSolicitud, Cancelar, RecibirInterrumpido, ActualizarPcbQuantum,
         AgregarDeExecuteAReady, MostrarExecuteAReady, AgregarAExit, ActualizarPcbFinal, Bloquear,
         AgregarProcesoBloqueado, gestionVars, consolaVars
  <2>3. QED
    BY <1>1, <1>9, <2>1, <2>2, Mudados, HilosDespacho, TablaDespacho DEF Ubicados
<1>10. ASSUME vivo, NEW i \in Interfaces, HiloIO(i)
       PROVE  Ubicados'
  <2>1. Mudanza
    BY <1>1, <1>10, MudanzaIOQuieto, MudanzaObtener, MudanzaBlockedAReady DEF HiloIO
  <2>2. UNCHANGED identificador
    BY <1>10 DEF HiloIO, IoEsperar, IoObtener, IoResponder, AgregarDeBlockedAReady, MostrarBlockedAReady,
                 gestionVars, consolaVars
  <2>3. QED
    BY <1>1, <1>10, <2>1, <2>2, Mudados, HilosIO, TablaIO DEF Ubicados
<1>11. QED
  BY <1>3, <1>4, <1>5, <1>6, <1>7, <1>8, <1>9, <1>10 DEF Next, Kernel

LEMMA UbicadosSiempre ==
  ASSUME MaxFinalizar = 0
  PROVE  Spec => [](Tipos /\ Turno /\ Ubicados)
<1>1. Tipos /\ Turno /\ Ubicados /\ [Next]_vars => Ubicados'
  BY UbicadosPaso
<1>2. QED
  BY <1>1, TiposInicial, TiposPaso, TurnoInicial, TurnoPaso, UbicadosInicial, PTL DEF Spec

(* Without FINALIZAR_PROCESO every process created is in exactly one list,  *)
(* variable, message or interface, until the memory is told, once, to       *)
(* release it: with any algorithm, whatever MULTIPROGRAMACION,              *)
(* DETENER_PLANIFICACION and the console do meanwhile.                      *)
THEOREM CadaUnoEnUnLugar ==
  ASSUME MaxFinalizar = 0
  PROVE  Spec => []UnLugar
<1>1. ASSUME Tipos, Turno, Ubicados
      PROVE  UnLugar
  <2> SUFFICES ASSUME NEW p \in Pids PROVE Lugares(p) = Uno(p < identificador)
    BY DEF UnLugar
  <2>1. p \in EnVuelo <=> execute = p
    <3>1. ExecuteCoherente
      BY <1>1, ExecuteDeTurno DEF Tipos
    <3>2. QED
      BY <3>1 DEF ExecuteCoherente
  <2>2. Cardinality({k \in DOMAIN colaExit : colaExit[k].pid = p}) = Veces(PidsDe(colaExit), p)
    BY <1>1, PidsDeTipo DEF Tipos, TypeOK, ListasTypeOK
  <2>3. Cardinality(UNION {({i} \X {k \in DOMAIN ioCola[i] : ioCola[i][k] = p}) : i \in Interfaces})
          = Cardinality(Pares(Interfaces, ioCola, p))
    BY DEF Pares, Fila
  <2>4. PICK a, b, c, d, e, f, g, h, i, j, k \in Nat :
          /\ a = Veces(cola["NEW"], p) /\ b = Veces(cola["READY"], p) /\ c = Veces(cola["AUX_READY"], p)
          /\ d = Uno(local["largo"] = p) /\ e = Uno(pc["corto"] = "ejecutar" /\ local["corto"] = p)
          /\ f = Uno(execute = p) /\ g = Uno(ConPcb /\ mensaje.pid = p)
          /\ h = Cardinality(Atendidos(p)) /\ i = Cardinality(Pares(Interfaces, ioCola, p))
          /\ j = Veces(PidsDe(colaExit), p) /\ k = finMemoria[p]
    <3>1. cola["NEW"] \in Seq(Pids) /\ cola["READY"] \in Seq(Pids) /\ cola["AUX_READY"] \in Seq(Pids)
      BY <1>1 DEF Tipos, TypeOK, ListasTypeOK
    <3>2. Veces(cola["NEW"], p) \in Nat /\ Veces(cola["READY"], p) \in Nat /\ Veces(cola["AUX_READY"], p) \in Nat
      BY <3>1, VecesTipo
    <3>3. Veces(PidsDe(colaExit), p) \in Nat /\ finMemoria[p] \in Nat
      <4>1. PidsDe(colaExit) \in Seq(Pids)
        BY <1>1, PidsDeTipo DEF Tipos, TypeOK, ListasTypeOK
      <4>2. QED
        BY <1>1, <4>1, VecesTipo DEF Tipos, TypeOK, GestionTypeOK
    <3>4. /\ Uno(local["largo"] = p) \in Nat /\ Uno(pc["corto"] = "ejecutar" /\ local["corto"] = p) \in Nat
          /\ Uno(execute = p) \in Nat /\ Uno(ConPcb /\ mensaje.pid = p) \in Nat
      BY DEF Uno
    <3>5. Cardinality(Atendidos(p)) \in Nat /\ Cardinality(Pares(Interfaces, ioCola, p)) \in Nat
      BY <1>1, AtendidosTipo
    <3>6. QED
      BY <3>2, <3>3, <3>4, <3>5
  <2>5. Uno(p \in EnVuelo) = f
    BY <2>1, <2>4
  <2>6. Lugares(p) = a + b + c + d + e + f + g + h + i + j + k
    BY <2>2, <2>3, <2>4, <2>5 DEF Lugares, ConPcb, Atendidos
  <2>7. LugaresDe(p) = (a + b + c) + (d + e + f + g) + (h + i) + (j + k)
    BY <2>4 DEF LugaresDe, EnColas, EnVariables, EnIo, EnSalida
  <2>8. QED
    BY <1>1, <2>6, <2>7 DEF Ubicados, CadaUnoEnSuLugar
<1>2. Spec => [](Tipos /\ Turno /\ Ubicados)
  BY UbicadosSiempre
<1>3. QED
  BY <1>1, <1>2, PTL

-----------------------------------------------------------------------------
(* The degree of multiprogramming                                           *)

(* Only one MULTIPROGRAMACION command at a time moves the semaphore. *)
OrdenSano ==
  \/ sem["ORDEN"] = 1 /\ \A k \in Cambios : cambio[k].paso # "ajuste"
  \/ sem["ORDEN"] = 0 /\ \E k \in Cambios : \A j \in Cambios : cambio[j].paso = "ajuste" <=> j = k

Contados == ConteoMultiprogramacion /\ OrdenSano

GradoDe(c, g) ==
  IF \E k \in Cambios : c[k].paso = "ajuste"
  THEN LET k == CHOOSE k \in Cambios : c[k].paso = "ajuste" IN c[k].nuevo - c[k].falta
  ELSE g

LEMMA GradoEfectivoEs == GradoEfectivo = GradoDe(cambio, grado) /\ GradoEfectivo' = GradoDe(cambio', grado')
  BY DEF GradoEfectivo, GradoDe

LEMMA GradoAjustando ==
  ASSUME NEW c, NEW g, NEW k \in Cambios, \A j \in Cambios : c[j].paso = "ajuste" <=> j = k
  PROVE  GradoDe(c, g) = c[k].nuevo - c[k].falta
<1>1. c[k].paso = "ajuste"
  OBVIOUS
<1>2. (CHOOSE j \in Cambios : c[j].paso = "ajuste") = k
  BY <1>1
<1>3. QED
  BY <1>1, <1>2 DEF GradoDe

LEMMA AdmitidosFinito == IsFiniteSet(Admitidos) /\ Cardinality(Admitidos) \in Nat
<1>1. IsFiniteSet(1..MaxPid)
  BY MaxPidAssumption, FS_Interval
<1>2. Admitidos \subseteq 1..MaxPid
  BY DEF Admitidos
<1>3. QED
  BY <1>1, <1>2, FS_Subset, FS_CardinalityType

LEMMA ContadosTipos ==
  ASSUME Tipos
  PROVE  /\ sem["MULTIPROGRAMACION"] \in Nat /\ sem["ORDEN"] \in Nat /\ grado \in Nat
         /\ \A k \in Cambios : cambio[k].nuevo \in Nat /\ cambio[k].falta \in Int
  BY NombresSem DEF Tipos, TypeOK, SemTypeOK, GestionTypeOK

LEMMA ContadosInicial == Init => Contados
<1> SUFFICES ASSUME Init PROVE Contados
  OBVIOUS
<1>1. /\ sem["MULTIPROGRAMACION"] = GradoInicial /\ sem["ORDEN"] = 1
      /\ cambio = [k \in Cambios |-> [paso |-> "libre", nuevo |-> 0, falta |-> 0]] /\ grado = GradoInicial
      /\ tabla = [p \in Pids |-> "NINGUNO"] /\ pc["largo"] = "espera"
  BY NombresSem DEF Init, KernelInit, SemPlanes
<1>2. GradoEfectivo = GradoInicial
  BY <1>1 DEF GradoEfectivo
<1>3. Admitidos = {}
  BY <1>1 DEF Admitidos
<1>4. Cardinality(Admitidos) = 0 /\ Uno(pc["largo"] \in {"sacar", "agregar"}) = 0
  BY <1>1, <1>3, FS_EmptySet DEF Uno
<1>5. QED
  BY <1>1, <1>2, <1>4, GradosAssumption DEF Contados, ConteoMultiprogramacion, OrdenSano

(* Whoever is in the table was created, so a step that leaves alone the     *)
(* pids given, COLA_NEW, the long-term planner and the memory admits nobody. *)
LEMMA MismosAdmitidos ==
  ASSUME Tipos, Ubicados, Ubicados', UNCHANGED <<identificador, finMemoria>>, cola'["NEW"] = cola["NEW"],
         local'["largo"] = local["largo"]
  PROVE  Admitidos' = Admitidos
<1>1. \A p \in Pids : tabla'[p] = "NINGUNO" <=> tabla[p] = "NINGUNO"
  BY DEF Ubicados, TablaSana
<1>2. QED
  BY <1>1 DEF Admitidos

LEMMA ContadosMarco ==
  ASSUME Tipos, Contados, sem'["MULTIPROGRAMACION"] = sem["MULTIPROGRAMACION"], sem'["ORDEN"] = sem["ORDEN"],
         UNCHANGED <<cambio, grado>>, Admitidos' = Admitidos,
         pc'["largo"] \in {"sacar", "agregar"} <=> pc["largo"] \in {"sacar", "agregar"}
  PROVE  Contados'
<1>1. GradoEfectivo' = GradoEfectivo
  BY DEF GradoEfectivo
<1>2. Uno(pc'["largo"] \in {"sacar", "agregar"}) = Uno(pc["largo"] \in {"sacar", "agregar"})
  BY DEF Uno
<1>3. QED
  BY <1>1, <1>2 DEF Contados, ConteoMultiprogramacion, OrdenSano

LEMMA ContadosCambio ==
  ASSUME Tipos, Contados, NEW k \in Cambios, Cambio(k), Admitidos' = Admitidos
  PROVE  Contados'
<1>1. /\ cambio \in [Cambios -> [paso : {"libre", "orden", "ajuste", "hecho"}, nuevo : Nat, falta : Int]]
      /\ SemTypeOK /\ UNCHANGED pc /\ "ORDEN" \in Semaforos /\ "MULTIPROGRAMACION" \in Semaforos
  BY NombresSem DEF Cambio, CambioTomar, CambioAjustar, CambioTerminar, hilos, Tipos, TypeOK, GestionTypeOK
<1>2. \A j \in Cambios \ {k} : cambio'[j] = cambio[j]
  BY <1>1 DEF Cambio, CambioTomar, CambioAjustar, CambioTerminar
<1>3. PICK m, a, u \in Nat :
        /\ m = sem["MULTIPROGRAMACION"] /\ a = Cardinality(Admitidos)
        /\ u = Uno(pc["largo"] \in {"sacar", "agregar"})
  BY ContadosTipos, AdmitidosFinito DEF Uno
<1>4. m + a + u = GradoDe(cambio, grado)
  BY <1>3, GradoEfectivoEs DEF Contados, ConteoMultiprogramacion
<1>5. ASSUME sem'["MULTIPROGRAMACION"] + a + u = GradoDe(cambio', grado')
      PROVE  ConteoMultiprogramacion'
  BY <1>1, <1>3, <1>5, GradoEfectivoEs DEF ConteoMultiprogramacion
<1>6. CASE CambioTomar(k)
  <2>1. /\ sem["ORDEN"] > 0 /\ sem'["ORDEN"] = sem["ORDEN"] - 1 /\ sem'["MULTIPROGRAMACION"] = m /\ UNCHANGED grado
        /\ cambio'[k].paso = "ajuste" /\ cambio'[k].nuevo = cambio[k].nuevo
        /\ cambio'[k].falta = cambio[k].nuevo - grado
    BY <1>1, <1>3, <1>6 DEF CambioTomar, Esperar, SemTypeOK
  <2>2. sem["ORDEN"] = 1 /\ \A j \in Cambios : cambio[j].paso # "ajuste"
    BY <2>1 DEF Contados, OrdenSano
  <2>3. \A j \in Cambios : cambio'[j].paso = "ajuste" <=> j = k
    BY <1>2, <2>1, <2>2
  <2>4. GradoDe(cambio', grado') = cambio[k].nuevo - (cambio[k].nuevo - grado)
    BY <2>1, <2>3, GradoAjustando
  <2>5. GradoDe(cambio, grado) = grado
    BY <2>2 DEF GradoDe
  <2>6. cambio[k].nuevo - (cambio[k].nuevo - grado) = grado
    BY ContadosTipos
  <2>7. QED
    BY <1>4, <1>5, <2>1, <2>2, <2>3, <2>4, <2>5, <2>6 DEF Contados, OrdenSano
<1>7. CASE CambioAjustar(k)
  <2>1. /\ sem'["ORDEN"] = sem["ORDEN"] /\ UNCHANGED grado
        /\ cambio[k].paso = "ajuste" /\ cambio'[k].paso = "ajuste" /\ cambio'[k].nuevo = cambio[k].nuevo
    BY <1>1, <1>7 DEF CambioAjustar, Esperar, Publicar, SemTypeOK
  <2>2. \A j \in Cambios : cambio[j].paso = "ajuste" <=> j = k
    BY <2>1 DEF Contados, OrdenSano
  <2>3. \A j \in Cambios : cambio'[j].paso = "ajuste" <=> j = k
    BY <1>2, <2>1, <2>2
  <2>4. /\ GradoDe(cambio, grado) = cambio[k].nuevo - cambio[k].falta
        /\ GradoDe(cambio', grado') = cambio[k].nuevo - cambio'[k].falta
    BY <2>1, <2>2, <2>3, GradoAjustando
  <2>5. \/ sem'["MULTIPROGRAMACION"] = m + 1 /\ cambio'[k].falta = cambio[k].falta - 1
        \/ sem'["MULTIPROGRAMACION"] = m - 1 /\ cambio'[k].falta = cambio[k].falta + 1
    BY <1>1, <1>3, <1>7 DEF CambioAjustar, Esperar, Publicar, SemTypeOK
  <2>6. sem'["MULTIPROGRAMACION"] + a + u = cambio[k].nuevo - cambio'[k].falta
    <3>1. PICK n \in Nat, f \in Int : n = cambio[k].nuevo /\ f = cambio[k].falta
      BY ContadosTipos
    <3>2. m + a + u = n - f
      BY <1>4, <2>4, <3>1
    <3>3. QED
      BY <2>5, <3>1, <3>2
  <2>7. QED
    BY <1>5, <2>1, <2>3, <2>4, <2>6 DEF Contados, OrdenSano
<1>8. CASE CambioTerminar(k)
  <2>1. /\ sem'["ORDEN"] = sem["ORDEN"] + 1 /\ sem'["MULTIPROGRAMACION"] = m /\ grado' = cambio[k].nuevo
        /\ cambio[k].paso = "ajuste" /\ cambio[k].falta = 0 /\ cambio'[k].paso = "hecho"
    BY <1>1, <1>3, <1>8 DEF CambioTerminar, Publicar, SemTypeOK
  <2>2. sem["ORDEN"] = 0 /\ \A j \in Cambios : cambio[j].paso = "ajuste" <=> j = k
    BY <2>1 DEF Contados, OrdenSano
  <2>3. \A j \in Cambios : cambio'[j].paso # "ajuste"
    BY <1>2, <2>1, <2>2
  <2>4. GradoDe(cambio, grado) = cambio[k].nuevo - 0
    BY <2>1, <2>2, GradoAjustando
  <2>5. GradoDe(cambio', grado') = cambio[k].nuevo
    BY <2>1, <2>3 DEF GradoDe
  <2>6. QED
    BY <1>4, <1>5, <2>1, <2>2, <2>3, <2>4, <2>5, ContadosTipos DEF Contados, OrdenSano
<1>9. QED
  BY <1>6, <1>7, <1>8 DEF Cambio

LEMMA SemOrden ==
  ASSUME Tipos, HilosSanos, MaxFinalizar = 0,
         \/ Cpu \/ (Consola /\ \A k \in Cambios, g \in Grados : ~CambiarGrado(k, g))
         \/ (\E s \in SemPlanes : DetenerCola(s)) \/ LargoEsperar \/ LargoOrden \/ LargoSacar \/ LargoAgregar
         \/ LargoMostrar \/ CortoPlazo \/ Quantum \/ Despacho \/ (\E i \in Interfaces : HiloIO(i))
  PROVE  /\ sem'["MULTIPROGRAMACION"] = sem["MULTIPROGRAMACION"] /\ sem'["ORDEN"] = sem["ORDEN"]
         /\ UNCHANGED <<cambio, grado>>
<1>1. SemTypeOK /\ "MULTIPROGRAMACION" \in Semaforos /\ "ORDEN" \in Semaforos
      /\ "MULTIPROGRAMACION" \notin SemPlanes /\ "ORDEN" \notin SemPlanes
  BY NombresSem DEF Tipos, TypeOK, SemPlanes
<1>2. \A l \in Lectores : listado[l].lista \in {"NINGUNA", "READY", "AUX_READY"}
  BY DEF Tipos, TypeOK, ListasTypeOK, Listados
<1>3. CASE Cpu
  BY <1>3 DEF Cpu, kernelVars, gestionVars, planVars
<1>4. CASE Consola /\ \A k \in Cambios, g \in Grados : ~CambiarGrado(k, g)
  <2>1. IniciarProceso \/ DetenerPlanificacion \/ IniciarPlanificacion
    BY <1>4 DEF Consola, HilosSanos, ConsolaTrabada, FinalizarBuscar, FinalizarVerificar, FinalizarComparar,
         FinalizarEliminar, FinalizarEncolar, En, Tipos, TypeOK, GestionTypeOK
  <2>2. QED
    BY <1>1, <2>1 DEF IniciarProceso, DetenerPlanificacion, IniciarPlanificacion, Publicar, SemTypeOK, planVars
<1>5. CASE \E s \in SemPlanes : DetenerCola(s)
  BY <1>1, <1>5 DEF DetenerCola, Esperar, SemTypeOK
<1>6. CASE LargoEsperar \/ LargoOrden \/ LargoSacar \/ LargoAgregar \/ LargoMostrar
  BY <1>1, <1>6 DEF LargoEsperar, LargoOrden, LargoSacar, LargoAgregar, LargoMostrar, Esperar, SemTypeOK, gestionVars,
                    planVars
<1>7. CASE CortoPlazo \/ Quantum
  <2>1. CASE InterrupcionQuantum
    <3>1. UNCHANGED sem /\ UNCHANGED gestionVars
      BY <2>1, Zenon DEF InterrupcionQuantum
    <3>2. QED
      BY <3>1 DEF gestionVars, planVars
  <2>2. CASE CortoSacar("ready", "READY") \/ CortoSacar("aux", "AUX_READY") \/ CortoCpu
    BY <1>1, <2>2 DEF CortoSacar, CortoCpu, Esperar, SemTypeOK, gestionVars, planVars
  <2>3. CASE CortoElegir \/ CortoEjecutar \/ CortoUnir \/ Quantum
    BY <2>3 DEF CortoElegir, CortoEjecutar, CortoUnir, Quantum, QuantumCrear, QuantumVencer, gestionVars, planVars
  <2>4. QED
    BY <1>7, <2>1, <2>2, <2>3 DEF CortoPlazo
<1>8. CASE Despacho
  <2>1. listado["despacho"].lista \in {"NINGUNA", "READY", "AUX_READY"}
    BY <1>2 DEF Lectores
  <2>2. UNCHANGED gestionVars
    BY <1>8 DEF Despacho, RecibirPcbOSolicitud, Cancelar, RecibirInterrumpido, ActualizarPcbQuantum,
         AgregarDeExecuteAReady, MostrarExecuteAReady, AgregarAExit, ActualizarPcbFinal, Bloquear,
         AgregarProcesoBloqueado
  <2>3. sem'["MULTIPROGRAMACION"] = sem["MULTIPROGRAMACION"] /\ sem'["ORDEN"] = sem["ORDEN"]
    <3>1. CASE RecibirPcbOSolicitud \/ Cancelar \/ RecibirInterrumpido \/ ActualizarPcbQuantum
      BY <3>1 DEF RecibirPcbOSolicitud, Cancelar, RecibirInterrumpido, ActualizarPcbQuantum
    <3>2. CASE AgregarDeExecuteAReady \/ AgregarAExit \/ ActualizarPcbFinal \/ Bloquear \/ AgregarProcesoBloqueado
      BY <1>1, <3>2 DEF AgregarDeExecuteAReady, AgregarAExit, ActualizarPcbFinal, Bloquear, AgregarProcesoBloqueado,
           Esperar, Publicar, SemTypeOK
    <3>3. CASE MostrarExecuteAReady
      BY <1>1, <2>1, <3>3 DEF MostrarExecuteAReady, SemTypeOK
    <3>4. QED
      BY <1>8, <3>1, <3>2, <3>3 DEF Despacho
  <2>4. QED
    BY <2>2, <2>3 DEF gestionVars, planVars
<1>9. ASSUME NEW i \in Interfaces, HiloIO(i)
      PROVE  /\ sem'["MULTIPROGRAMACION"] = sem["MULTIPROGRAMACION"] /\ sem'["ORDEN"] = sem["ORDEN"]
             /\ UNCHANGED gestionVars
  <2>1. listado[i].lista \in {"NINGUNA", "READY", "AUX_READY"}
    BY <1>2 DEF Lectores
  <2>2. QED
    BY <1>1, <1>9, <2>1 DEF HiloIO, IoEsperar, IoObtener, IoResponder, AgregarDeBlockedAReady, MostrarBlockedAReady,
         Esperar, SemTypeOK
<1>10. QED
  BY <1>3, <1>4, <1>5, <1>6, <1>7, <1>8, <1>9 DEF gestionVars, planVars

(* The long-term planner moves only in its own steps. *)
LEMMA LargoAparte ==
  ASSUME Tipos, HilosSanos, CortoPlazo \/ Quantum \/ Despacho \/ (\E i \in Interfaces : HiloIO(i))
  PROVE  /\ pc'["largo"] = pc["largo"] /\ local'["largo"] = local["largo"]
         /\ UNCHANGED <<identificador, finMemoria>> /\ cola'["NEW"] = cola["NEW"]
<1>1. HilosTypeOK /\ cola \in [{"NEW", "READY", "AUX_READY"} -> Seq(Pids)]
  BY DEF Tipos, TypeOK, ListasTypeOK
<1>2. CASE CortoPlazo \/ Quantum
  <2>1. CASE InterrupcionQuantum
    <3>1. /\ UNCHANGED gestionVars /\ UNCHANGED listas
          /\ \/ UNCHANGED hilos
             \/ /\ pc' = [pc EXCEPT !.corto = "unir", !.quantum = "crear"]
                /\ \E p \in PidDelQuantum : local' = [local EXCEPT !.corto = Nulo, !.quantum = p]
      BY <2>1, Zenon DEF InterrupcionQuantum
    <3>2. CASE UNCHANGED hilos
      BY <3>1, <3>2 DEF hilos, gestionVars, consolaVars, listas
    <3>3. CASE pc' = [pc EXCEPT !.corto = "unir", !.quantum = "crear"]
               /\ \E p \in PidDelQuantum : local' = [local EXCEPT !.corto = Nulo, !.quantum = p]
      <4>1. PICK p : local' = [local EXCEPT !.corto = Nulo, !.quantum = p]
        BY <3>3
      <4>2. local'["largo"] = local["largo"]
        BY <1>1, <4>1 DEF HilosTypeOK, Hilos
      <4>3. pc'["largo"] = pc["largo"]
        BY <1>1, <3>3 DEF HilosTypeOK, Hilos
      <4>4. QED
        BY <3>1, <4>2, <4>3 DEF gestionVars, consolaVars, listas
    <3>4. QED
      BY <3>1, <3>2, <3>3
  <2>2. CASE ~InterrupcionQuantum
    <3>1. pc'["largo"] = pc["largo"] /\ local'["largo"] = local["largo"]
      BY <1>1, <1>2, <2>2 DEF CortoPlazo, CortoElegir, CortoCpu, CortoSacar, CortoEjecutar, CortoUnir, Quantum,
           QuantumCrear, QuantumVencer, Ir, Tener, HilosTypeOK, Hilos
    <3>2. UNCHANGED <<identificador, finMemoria>> /\ cola'["NEW"] = cola["NEW"]
      BY <1>1, <1>2, <2>2 DEF CortoPlazo, CortoElegir, CortoCpu, CortoSacar, CortoEjecutar, CortoUnir, Quantum,
           QuantumCrear, QuantumVencer, gestionVars, consolaVars, listas
    <3>3. QED
      BY <3>1, <3>2
  <2>3. QED
    BY <2>1, <2>2
<1>3. CASE Despacho
  <2>1. UNCHANGED <<identificador, finMemoria, local>> /\ cola'["NEW"] = cola["NEW"]
    BY <1>1, <1>3 DEF Despacho, RecibirPcbOSolicitud, Cancelar, RecibirInterrumpido, ActualizarPcbQuantum,
         AgregarDeExecuteAReady, MostrarExecuteAReady, AgregarAExit, ActualizarPcbFinal, Bloquear,
         AgregarProcesoBloqueado, gestionVars, consolaVars, listas, ColaReadyDe
  <2>2. pc'["largo"] = pc["largo"]
    <3>1. CASE Cancelar
      <4>1. \E s \in {"exit", "bloquear"} :
              \/ pc' = [pc EXCEPT !["despacho"] = s]
              \/ \E q : pc' = [pc EXCEPT !["despacho"] = s, !["quantum"] = q]
        BY <3>1 DEF Cancelar, CancelarQuantum, Ir
      <4>2. QED
        BY <1>1, <4>1 DEF HilosTypeOK, Hilos
    <3>2. CASE ~Cancelar
      BY <1>1, <1>3, <3>2 DEF Despacho, RecibirPcbOSolicitud, RecibirInterrumpido, ActualizarPcbQuantum,
         AgregarDeExecuteAReady, MostrarExecuteAReady, AgregarAExit, ActualizarPcbFinal, Bloquear,
         AgregarProcesoBloqueado, Terminar, Ir, HilosTypeOK, Hilos
    <3>3. QED
      BY <3>1, <3>2
  <2>3. QED
    BY <2>1, <2>2
<1>4. ASSUME NEW i \in Interfaces, HiloIO(i)
      PROVE  UNCHANGED <<pc, local, identificador, finMemoria>> /\ cola'["NEW"] = cola["NEW"]
  BY <1>1, <1>4 DEF HiloIO, IoEsperar, IoObtener, IoResponder, AgregarDeBlockedAReady, MostrarBlockedAReady,
       listas, hilos, gestionVars, consolaVars, ColaReadyDe
<1>5. QED
  BY <1>2, <1>3, <1>4

(* Who is admitted by each step, when somebody is *)
LEMMA IniciarNoAdmite ==
  ASSUME Tipos, TablaSana, IniciarProceso
  PROVE  Admitidos' = Admitidos
<1>1. /\ identificador \in Pids /\ cola'["NEW"] = Append(cola["NEW"], identificador) /\ cola["NEW"] \in Seq(Pids)
      /\ tabla' = [tabla EXCEPT ![identificador] = "NEW"] /\ tabla \in [Pids -> Estados]
      /\ tabla[identificador] = "NINGUNO"
  BY DEF IniciarProceso, Tipos, TypeOK, GestionTypeOK, ListasTypeOK, TablaSana
<1>2. UNCHANGED <<finMemoria, local>>
  BY DEF IniciarProceso, hilos
<1>3. ASSUME NEW p \in Pids
      PROVE  /\ Veces(cola'["NEW"], p) = Veces(cola["NEW"], p) + Uno(identificador = p)
             /\ Veces(cola["NEW"], p) \in Nat
  <2> HIDE DEF Pids
  <2>1. QED
    BY <1>1, VecesAlFinal, VecesTipo
<1>4. ASSUME NEW p \in Pids
      PROVE  p \in Admitidos' <=> p \in Admitidos
  <2>1. CASE p = identificador
    <3>1. Veces(cola'["NEW"], p) # 0
      BY <1>3, <2>1 DEF Uno
    <3>2. QED
      BY <1>1, <2>1, <3>1 DEF Admitidos
  <2>2. CASE p # identificador
    <3>1. Veces(cola'["NEW"], p) = Veces(cola["NEW"], p) /\ tabla'[p] = tabla[p]
      BY <1>1, <1>3, <2>2 DEF Uno
    <3>2. QED
      BY <1>2, <3>1 DEF Admitidos
  <2>3. QED
    BY <2>1, <2>2
<1>5. QED
  BY <1>4 DEF Admitidos

LEMMA SacarNoAdmite ==
  ASSUME Tipos, HilosSanos, LargoSacar
  PROVE  Admitidos' = Admitidos
<1>1. UNCHANGED <<finMemoria, tabla>> /\ local["largo"] = Nulo /\ HilosTypeOK
      /\ cola \in [Colas -> Seq(Pids)]
  BY DEF LargoSacar, gestionVars, HilosSanos, En, Tipos, TypeOK, ListasTypeOK, Colas
<1>2. CASE cola["NEW"] = <<>>
  <2>1. UNCHANGED <<cola, local>>
    BY <1>2 DEF LargoSacar
  <2>2. QED
    BY <1>1, <2>1 DEF Admitidos
<1>3. CASE cola["NEW"] # <<>>
  <2>1. cola'["NEW"] = Tail(cola["NEW"]) /\ local' = [local EXCEPT !["largo"] = Head(cola["NEW"])]
    BY <1>1, <1>3 DEF LargoSacar, Tener, ListRemove, Colas
  <2>2. local'["largo"] = Head(cola["NEW"]) /\ cola["NEW"] \in Seq(Pids)
    BY <1>1, <2>1 DEF HilosTypeOK, Hilos, Colas
  <2>3. ASSUME NEW p \in Pids
        PROVE  /\ Veces(cola["NEW"], p) = Veces(cola'["NEW"], p) + Uno(Head(cola["NEW"]) = p)
               /\ Veces(cola'["NEW"], p) \in Nat
    <3> HIDE DEF Pids
    <3>1. Tail(cola["NEW"]) \in Seq(Pids)
      BY <1>3, <2>2, HeadTailProperties
    <3>2. Veces(cola["NEW"], p) = Veces(Tail(cola["NEW"]), p) + Uno(Head(cola["NEW"]) = p)
      BY <1>3, <2>2, VecesDelPrincipio
    <3>3. Veces(Tail(cola["NEW"]), p) \in Nat
      BY <3>1, VecesTipo
    <3>4. QED
      BY <2>1, <3>2, <3>3
  <2>4. ASSUME NEW p \in Pids
        PROVE  p \in Admitidos' <=> p \in Admitidos
    <3>1. p # Nulo
      OBVIOUS
    <3>2. CASE p = Head(cola["NEW"])
      BY <2>2, <2>3, <3>2 DEF Admitidos, Uno
    <3>3. CASE p # Head(cola["NEW"])
      <4>1. Veces(cola["NEW"], p) = Veces(cola'["NEW"], p)
        BY <2>3, <3>3 DEF Uno
      <4>2. QED
        BY <1>1, <2>2, <3>1, <3>3, <4>1 DEF Admitidos
    <3>4. QED
      BY <3>2, <3>3
  <2>5. QED
    BY <2>4 DEF Admitidos
<1>4. QED
  BY <1>2, <1>3

LEMMA SoloUnLugar ==
  ASSUME Tipos, CadaUnoEnSuLugar, NEW p \in Pids
  PROVE  /\ EnColas(p) + EnVariables(p) + EnIo(p) + EnSalida(p) <= 1
         /\ EnColas(p) \in Nat /\ EnVariables(p) \in Nat /\ EnIo(p) \in Nat /\ EnSalida(p) \in Nat
  BY LugaresNatHay DEF CadaUnoEnSuLugar, LugaresDe, LugaresNat, Uno

LEMMA AgregarAdmite ==
  ASSUME Tipos, vivo, Ubicados, LargoAgregar
  PROVE  /\ local["largo"] \notin Admitidos /\ Admitidos' = Admitidos \cup {local["largo"]}
         /\ local["largo"] \in Pids
<1>1. /\ local["largo"] \in Pids /\ HilosTypeOK /\ UNCHANGED finMemoria
      /\ tabla \in [Pids -> Estados] /\ tabla' = [tabla EXCEPT ![local["largo"]] = "READY"]
      /\ cola'["NEW"] = cola["NEW"]
  BY DEF LargoAgregar, En, Tipos, Punteros, TypeOK, ListasTypeOK, gestionVars
<1>2. local'["largo"] = Nulo
  BY <1>1 DEF LargoAgregar, Tener, HilosTypeOK, Hilos
<1>3. PICK x \in Pids : x = local["largo"]
  BY <1>1
<1>4. Veces(cola["NEW"], x) = 0 /\ finMemoria[x] = 0
  <2>1. EnVariables(x) >= 1
    BY <1>3, ConVariable
  <2>2. EnColas(x) = 0 /\ EnSalida(x) = 0
    BY <2>1, SoloUnLugar DEF Ubicados
  <2>3. PidsDe(colaExit) \in Seq(Pids)
    BY PidsDeTipo DEF Tipos, TypeOK, ListasTypeOK
  <2>4. PICK a, b, c, d, e \in Nat :
          /\ a = Veces(cola["NEW"], x) /\ b = Veces(cola["READY"], x) /\ c = Veces(cola["AUX_READY"], x)
          /\ d = Veces(PidsDe(colaExit), x) /\ e = finMemoria[x]
    BY <2>3, VecesTipo DEF Tipos, TypeOK, ListasTypeOK, GestionTypeOK
  <2>5. a + b + c = 0 /\ d + e = 0
    BY <2>2, <2>4 DEF EnColas, EnSalida
  <2>6. a = 0 /\ e = 0
    BY <2>5
  <2>7. QED
    BY <2>4, <2>6
<1>5. ASSUME NEW p \in Pids
      PROVE  p \in Admitidos' <=> p \in Admitidos \/ p = x
  BY <1>1, <1>2, <1>3, <1>4 DEF Admitidos
<1>6. x \notin Admitidos
  BY <1>3 DEF Admitidos
<1>7. QED
  BY <1>3, <1>5, <1>6 DEF Admitidos

LEMMA EndProcessDespide ==
  ASSUME Tipos, Ubicados, EndProcess
  PROVE  Head(colaExit).pid \in Admitidos /\ Admitidos' = Admitidos \ {Head(colaExit).pid}
<1>1. UNCHANGED <<tabla, local, cola>>
  BY DEF EndProcess, hilos
<1>2. /\ colaExit \in Seq(Salidas) /\ colaExit # <<>>
  BY DEF EndProcess, Tipos, TypeOK, ListasTypeOK
<1>3. Head(colaExit).objeto # "liberado" /\ Head(colaExit).pid \in Pids
  <2>1. Head(colaExit) = colaExit[1] /\ 1 \in DOMAIN colaExit /\ Head(colaExit) \in Salidas
    BY <1>2, HeadTailProperties, LenProperties, EmptySeq
  <2>2. QED
    BY <2>1 DEF Ubicados, TablaSana, Salidas
<1>4. PICK x \in Pids : x = Head(colaExit).pid
  BY <1>3
<1>5. finMemoria \in [Pids -> Nat] /\ finMemoria' = [finMemoria EXCEPT ![x] = @ + 1]
  BY <1>3, <1>4 DEF EndProcess, Tipos, TypeOK, GestionTypeOK
<1>6. PidsDe(colaExit) # <<>> /\ Head(PidsDe(colaExit)) = x /\ PidsDe(colaExit) \in Seq(Pids)
  BY <1>2, <1>4, PidsDeCambio, PidsDeTipo
<1>7. Veces(PidsDe(colaExit), x) \in Nat \ {0}
  <2>1. Veces(PidsDe(colaExit), x) = Veces(Tail(PidsDe(colaExit)), x) + Uno(x = x)
    <3> HIDE DEF Pids
    <3>1. QED
      BY <1>6, VecesDelPrincipio
  <2>2. Veces(Tail(PidsDe(colaExit)), x) \in Nat
    BY <1>6, HeadTailProperties, VecesTipo
  <2>3. QED
    BY <2>1, <2>2 DEF Uno
<1>8. EnSalida(x) >= 1 /\ EnSalida(x) <= 1 /\ EnColas(x) = 0 /\ EnVariables(x) = 0
  <2>1. EnSalida(x) >= 1
    BY <1>5, <1>7 DEF EnSalida
  <2>2. QED
    BY <2>1, SoloUnLugar DEF Ubicados
<1>9. finMemoria[x] = 0
  BY <1>5, <1>7, <1>8 DEF EnSalida
<1>10. Veces(cola["NEW"], x) = 0
  BY <1>8, VecesTipo DEF EnColas, Tipos, TypeOK, ListasTypeOK
<1>11. local["largo"] # x
  BY <1>8, ConVariable
<1>12. tabla[x] # "NINGUNO"
  <2>1. x < identificador /\ identificador \in Nat
    BY <1>8, EnSalidaCreado DEF Ubicados, Tipos, TypeOK, GestionTypeOK
  <2>2. QED
    BY <2>1 DEF Ubicados, TablaSana
<1>13. x \in Admitidos
  BY <1>9, <1>10, <1>11, <1>12 DEF Admitidos
<1>14. ASSUME NEW p \in Pids
       PROVE  p \in Admitidos' <=> p \in Admitidos /\ p # x
  <2>1. finMemoria'[p] = IF p = x THEN 1 ELSE finMemoria[p]
    BY <1>5, <1>9
  <2>2. QED
    BY <1>1, <2>1 DEF Admitidos
<1>15. QED
  BY <1>4, <1>13, <1>14 DEF Admitidos

(* Arithmetic of a step that moves one unit between the terms of the count *)
LEMMA ContadosMueve ==
  ASSUME Tipos, Tipos', Contados, sem'["ORDEN"] = sem["ORDEN"], UNCHANGED <<cambio, grado>>,
         NEW m \in Int, NEW a \in Int, NEW u \in Int, m + a + u = 0,
         sem'["MULTIPROGRAMACION"] = sem["MULTIPROGRAMACION"] + m,
         Cardinality(Admitidos') = Cardinality(Admitidos) + a,
         Uno(pc'["largo"] \in {"sacar", "agregar"}) = Uno(pc["largo"] \in {"sacar", "agregar"}) + u
  PROVE  Contados'
<1>1. GradoEfectivo' = GradoEfectivo
  BY DEF GradoEfectivo
<1>2. PICK x, y, z \in Nat : /\ x = sem["MULTIPROGRAMACION"] /\ y = Cardinality(Admitidos)
                             /\ z = Uno(pc["largo"] \in {"sacar", "agregar"})
  BY ContadosTipos, AdmitidosFinito DEF Uno
<1>3. x + y + z = GradoEfectivo
  BY <1>2 DEF Contados, ConteoMultiprogramacion
<1>4. (x + m) + (y + a) + (z + u) = x + y + z
  OBVIOUS
<1>5. sem'["MULTIPROGRAMACION"] + Cardinality(Admitidos') + Uno(pc'["largo"] \in {"sacar", "agregar"}) = GradoEfectivo'
  BY <1>1, <1>2, <1>3, <1>4
<1>6. QED
  BY <1>5 DEF Contados, ConteoMultiprogramacion, OrdenSano

LEMMA ContadosLargo ==
  ASSUME MaxFinalizar = 0, Tipos, Tipos', vivo, Ubicados, Ubicados', Contados, LargoPlazo
  PROVE  Contados'
<1>1. HilosTypeOK /\ SemTypeOK
  BY DEF Tipos, TypeOK
<1>2. CASE LargoEsperar \/ LargoOrden \/ LargoMostrar
  <2>1. UNCHANGED <<identificador, finMemoria, cola, local>>
    BY <1>2 DEF LargoEsperar, LargoOrden, LargoMostrar, listas, gestionVars, consolaVars
  <2>2. pc["largo"] \notin {"sacar", "agregar"} /\ pc'["largo"] \notin {"sacar", "agregar"}
    BY <1>1, <1>2 DEF LargoEsperar, LargoOrden, LargoMostrar, En, Ir, HilosTypeOK, Hilos
  <2>3. QED
    BY <1>2, <2>1, <2>2, MismosAdmitidos, SemOrden, ContadosMarco DEF Ubicados
<1>3. CASE LargoMulti
  <2>1. UNCHANGED <<identificador, finMemoria, cola, local, cambio, grado>>
    BY <1>3 DEF LargoMulti, listas, gestionVars, consolaVars, planVars
  <2>2. Admitidos' = Admitidos
    BY <2>1, MismosAdmitidos
  <2>3. sem'["ORDEN"] = sem["ORDEN"] /\ sem'["MULTIPROGRAMACION"] = sem["MULTIPROGRAMACION"] + (-1)
    BY <1>1, <1>3, NombresSem DEF LargoMulti, Esperar, SemTypeOK
  <2>4. Uno(pc'["largo"] \in {"sacar", "agregar"}) = Uno(pc["largo"] \in {"sacar", "agregar"}) + 1
    BY <1>1, <1>3 DEF LargoMulti, En, Ir, HilosTypeOK, Hilos, Uno
  <2>5. Cardinality(Admitidos') = Cardinality(Admitidos) + 0
    BY <2>2, AdmitidosFinito
  <2>6. (-1) + 0 + 1 = 0 /\ -1 \in Int /\ 0 \in Int /\ 1 \in Int
    OBVIOUS
  <2>7. QED
    BY <2>1, <2>3, <2>4, <2>5, <2>6, ContadosMueve
<1>4. CASE LargoSacar
  <2>1. Admitidos' = Admitidos
    BY <1>4, SacarNoAdmite DEF Ubicados
  <2>2. pc["largo"] = "sacar" /\ pc'["largo"] = "agregar"
    BY <1>1, <1>4 DEF LargoSacar, En, Ir, HilosTypeOK, Hilos
  <2>3. QED
    BY <1>4, <2>1, <2>2, SemOrden, ContadosMarco DEF Ubicados
<1>5. CASE LargoAgregar
  <2>1. Cardinality(Admitidos') = Cardinality(Admitidos) + 1
    BY <1>5, AgregarAdmite, AdmitidosFinito, FS_AddElement
  <2>2. Uno(pc'["largo"] \in {"sacar", "agregar"}) = Uno(pc["largo"] \in {"sacar", "agregar"}) + (-1)
    BY <1>1, <1>5 DEF LargoAgregar, En, Ir, HilosTypeOK, Hilos, Uno
  <2>3. UNCHANGED <<cambio, grado, sem>>
    BY <1>5 DEF LargoAgregar, gestionVars, planVars
  <2>4. sem'["MULTIPROGRAMACION"] = sem["MULTIPROGRAMACION"] + 0
    BY <2>3, ContadosTipos
  <2>5. 0 + 1 + (-1) = 0 /\ -1 \in Int /\ 0 \in Int /\ 1 \in Int
    OBVIOUS
  <2>6. QED
    BY <2>1, <2>2, <2>3, <2>4, <2>5, ContadosMueve
<1>6. QED
  BY <1>2, <1>3, <1>4, <1>5 DEF LargoPlazo

LEMMA ContadosEndProcess ==
  ASSUME Tipos, Tipos', Ubicados, Contados, EndProcess
  PROVE  Contados'
<1>1. Cardinality(Admitidos') = Cardinality(Admitidos) + (-1)
  <2>1. Cardinality(Admitidos') = Cardinality(Admitidos) - 1
    BY EndProcessDespide, AdmitidosFinito, FS_RemoveElement
  <2>2. QED
    BY <2>1, AdmitidosFinito
<1>2. sem'["ORDEN"] = sem["ORDEN"] /\ sem'["MULTIPROGRAMACION"] = sem["MULTIPROGRAMACION"] + 1
  BY NombresSem DEF EndProcess, Tipos, TypeOK, SemTypeOK
<1>3. UNCHANGED <<cambio, grado, pc>>
  BY DEF EndProcess, planVars, hilos
<1>4. Uno(pc'["largo"] \in {"sacar", "agregar"}) = Uno(pc["largo"] \in {"sacar", "agregar"}) + 0
  BY <1>3 DEF Uno
<1>5. 1 + (-1) + 0 = 0 /\ -1 \in Int /\ 0 \in Int /\ 1 \in Int
  OBVIOUS
<1>6. QED
  BY <1>1, <1>2, <1>3, <1>4, <1>5, ContadosMueve

LEMMA ContadosCambiarGrado ==
  ASSUME Tipos, Contados, NEW k \in Cambios, NEW g \in Grados, CambiarGrado(k, g), Admitidos' = Admitidos
  PROVE  Contados'
<1>1. /\ \A j \in Cambios : cambio'[j].paso = "ajuste" <=> cambio[j].paso = "ajuste"
      /\ \A j \in Cambios : cambio[j].paso = "ajuste" => cambio'[j] = cambio[j]
      /\ UNCHANGED <<sem, grado, pc>>
  BY DEF CambiarGrado, hilos, Tipos, TypeOK, GestionTypeOK
<1>2. GradoDe(cambio', grado') = GradoDe(cambio, grado)
  <2>1. CASE \A j \in Cambios : cambio[j].paso # "ajuste"
    BY <1>1, <2>1 DEF GradoDe
  <2>2. CASE \E i \in Cambios : \A j \in Cambios : cambio[j].paso = "ajuste" <=> j = i
    <3>1. PICK i \in Cambios : \A j \in Cambios : cambio[j].paso = "ajuste" <=> j = i
      BY <2>2
    <3>2. /\ GradoDe(cambio, grado) = cambio[i].nuevo - cambio[i].falta
          /\ GradoDe(cambio', grado') = cambio'[i].nuevo - cambio'[i].falta
      BY <1>1, <3>1, GradoAjustando
    <3>3. QED
      BY <1>1, <3>1, <3>2
  <2>3. QED
    BY <2>1, <2>2 DEF Contados, OrdenSano
<1>3. QED
  BY <1>1, <1>2, GradoEfectivoEs DEF Contados, ConteoMultiprogramacion, OrdenSano

LEMMA ContadosPaso ==
  ASSUME MaxFinalizar = 0
  PROVE  Tipos /\ Turno /\ Ubicados /\ Contados /\ [Next]_vars => Contados'
<1> SUFFICES ASSUME Tipos, Turno, Ubicados, Contados, [Next]_vars PROVE Contados'
  OBVIOUS
<1>1. Tipos' /\ Ubicados' /\ HilosSanos /\ TablaSana
  BY TiposPaso, UbicadosPaso DEF Ubicados
<1>2. CASE UNCHANGED vars
  <2>1. UNCHANGED <<sem, cola, finMemoria, pc, local, tabla, identificador, cambio, grado>>
    BY <1>2 DEF vars, kernelVars, listas, hilos, gestionVars, consolaVars, planVars
  <2>2. QED
    BY <1>1, <2>1, MismosAdmitidos, ContadosMarco
<1>3. CASE vivo /\ (Cpu \/ Consola \/ (\E s \in SemPlanes : DetenerCola(s)) \/ (\E k \in Cambios : Cambio(k))) /\ ~IniciarProceso
  <2>1. UNCHANGED <<pc, local, identificador, finMemoria, cola>>
    BY <1>1, <1>3, MudanzaGestion
  <2>2. Admitidos' = Admitidos
    BY <1>1, <2>1, MismosAdmitidos
  <2>3. CASE \E k \in Cambios : Cambio(k)
    BY <2>2, <2>3, ContadosCambio
  <2>4. CASE \E k \in Cambios, g \in Grados : CambiarGrado(k, g)
    BY <2>2, <2>4, ContadosCambiarGrado
  <2>5. CASE Cpu \/ (Consola /\ \A k \in Cambios, g \in Grados : ~CambiarGrado(k, g)) \/ (\E s \in SemPlanes : DetenerCola(s))
    BY <1>1, <2>1, <2>2, <2>5, SemOrden, ContadosMarco
  <2>6. QED
    BY <1>3, <2>3, <2>4, <2>5
<1>4. CASE vivo /\ IniciarProceso
  <2>1. UNCHANGED pc /\ UNCHANGED <<cambio, grado>>
    BY <1>4 DEF IniciarProceso, hilos, planVars
  <2>2. sem'["MULTIPROGRAMACION"] = sem["MULTIPROGRAMACION"] /\ sem'["ORDEN"] = sem["ORDEN"]
    BY <1>4, NombresSem DEF IniciarProceso, Publicar, Tipos, TypeOK, SemTypeOK
  <2>3. QED
    BY <1>1, <1>4, <2>1, <2>2, IniciarNoAdmite, ContadosMarco
<1>5. CASE vivo /\ LargoPlazo
  BY <1>1, <1>5, ContadosLargo
<1>6. CASE vivo /\ EndProcess
  BY <1>1, <1>6, ContadosEndProcess
<1>7. CASE CortoPlazo \/ Quantum \/ Despacho \/ (\E i \in Interfaces : HiloIO(i))
  BY <1>1, <1>7, LargoAparte, SemOrden, MismosAdmitidos, ContadosMarco
<1>8. QED
  BY <1>2, <1>3, <1>4, <1>5, <1>6, <1>7 DEF Next, Kernel

(* Without FINALIZAR_PROCESO the degree of multiprogramming in force is, at *)
(* every step and in the middle of any number of concurrent changes of      *)
(* degree, what SEM_MULTIPROGRAMACION still admits plus what it admitted.   *)
THEOREM GradoContado ==
  ASSUME MaxFinalizar = 0
  PROVE  Spec => []ConteoMultiprogramacion
<1>1. Tipos /\ Turno /\ Ubicados /\ Contados /\ [Next]_vars => Contados'
  BY ContadosPaso
<1>2. Spec => [](Tipos /\ Turno /\ Ubicados)
  BY UbicadosSiempre
<1>3. Contados => ConteoMultiprogramacion
  BY DEF Contados
<1>4. QED
  BY <1>1, <1>2, <1>3, ContadosInicial, PTL DEF Spec

-----------------------------------------------------------------------------
(* The five-state life.  What EstadoDe looks at, counted for each state:    *)
(* the counts of a process add up to its place, so that a step shows what it *)
(* does to all of them but one.                                             *)
Etapas == {"NEW", "READY", "EXEC", "BLOCKED", "EXIT"}

Cuantos(e, p) ==
  CASE e = "NEW" -> Veces(cola["NEW"], p) + Uno(local["largo"] = p)
    [] e = "READY" -> Veces(cola["READY"], p) + Veces(cola["AUX_READY"], p)
                      + Uno(pc["corto"] = "ejecutar" /\ local["corto"] = p)
    [] e = "EXEC" -> Uno(execute = p) + Uno(Volviendo /\ mensaje.pid = p)
    [] e = "BLOCKED" -> EnIo(p) + Uno(Encolando /\ mensaje.pid = p)
    [] OTHER -> EnSalida(p)

Todo == Tipos /\ Turno /\ Ubicados

LEMMA CuantosEs ==
  ASSUME NEW p
  PROVE  /\ Cuantos("NEW", p) = Veces(cola["NEW"], p) + Uno(local["largo"] = p)
         /\ Cuantos("READY", p) = Veces(cola["READY"], p) + Veces(cola["AUX_READY"], p)
                                  + Uno(pc["corto"] = "ejecutar" /\ local["corto"] = p)
         /\ Cuantos("EXEC", p) = Uno(execute = p) + Uno(Volviendo /\ mensaje.pid = p)
         /\ Cuantos("BLOCKED", p) = EnIo(p) + Uno(Encolando /\ mensaje.pid = p)
         /\ Cuantos("EXIT", p) = EnSalida(p)
  BY DEF Cuantos

LEMMA Repartido ==
  ASSUME Todo, NEW p \in Pids
  PROVE  /\ \A e \in Etapas : Cuantos(e, p) \in Nat
         /\ Cuantos("NEW", p) + Cuantos("READY", p) + Cuantos("EXEC", p) + Cuantos("BLOCKED", p)
              + Cuantos("EXIT", p) = Uno(p < identificador)
<1>1. PICK a, b, c, f, g \in Nat :
        /\ a = Veces(cola["NEW"], p) /\ b = Veces(cola["READY"], p) /\ c = Veces(cola["AUX_READY"], p)
        /\ f = EnIo(p) /\ g = EnSalida(p)
  BY VecesTipo, LugaresNatHay DEF Todo, Tipos, TypeOK, ListasTypeOK, LugaresNat
<1>2. PICK u, v, w, x, y, z \in Nat :
        /\ u = Uno(local["largo"] = p) /\ v = Uno(pc["corto"] = "ejecutar" /\ local["corto"] = p)
        /\ w = Uno(execute = p) /\ x = Uno(Volviendo /\ mensaje.pid = p)
        /\ y = Uno(Encolando /\ mensaje.pid = p)
        /\ z = Uno(ConPcb /\ mensaje.pid = p)
  BY DEF Uno
<1>3. z = x + y
  BY <1>2 DEF Uno, ConPcb, Volviendo, Encolando
<1>4. LugaresDe(p) = (a + b + c) + (u + v + w + z) + f + g
  BY <1>1, <1>2 DEF LugaresDe, EnColas, EnVariables
<1>5. /\ Cuantos("NEW", p) = a + u /\ Cuantos("READY", p) = b + c + v /\ Cuantos("EXEC", p) = w + x
      /\ Cuantos("BLOCKED", p) = f + y /\ Cuantos("EXIT", p) = g
  BY <1>1, <1>2, CuantosEs
<1>6. LugaresDe(p) = Uno(p < identificador)
  BY DEF Todo, Ubicados, CadaUnoEnSuLugar
<1>7. (a + u) + (b + c + v) + (w + x) + (f + y) + g = LugaresDe(p)
  BY <1>3, <1>4
<1>8. QED
  BY <1>5, <1>6, <1>7 DEF Etapas

(* A process has exactly one count, of 1, if it was created. *)
LEMMA UnaEtapa ==
  ASSUME Todo, NEW p \in Pids
  PROVE  /\ \A e \in Etapas : Cuantos(e, p) \in {0, 1}
         /\ \A e, f \in Etapas : Cuantos(e, p) = 1 /\ Cuantos(f, p) = 1 => e = f
         /\ p < identificador <=> \E e \in Etapas : Cuantos(e, p) = 1
<1>1. PICK a, b, c, d, e \in Nat :
        /\ Cuantos("NEW", p) = a /\ Cuantos("READY", p) = b /\ Cuantos("EXEC", p) = c
        /\ Cuantos("BLOCKED", p) = d /\ Cuantos("EXIT", p) = e
  BY Repartido DEF Etapas
<1>2. a + b + c + d + e = Uno(p < identificador)
  BY <1>1, Repartido
<1>3. CASE p < identificador
  <2>1. a + b + c + d + e = 1
    BY <1>2, <1>3 DEF Uno
  <2>2. \/ a = 1 /\ b = 0 /\ c = 0 /\ d = 0 /\ e = 0
        \/ a = 0 /\ b = 1 /\ c = 0 /\ d = 0 /\ e = 0
        \/ a = 0 /\ b = 0 /\ c = 1 /\ d = 0 /\ e = 0
        \/ a = 0 /\ b = 0 /\ c = 0 /\ d = 1 /\ e = 0
        \/ a = 0 /\ b = 0 /\ c = 0 /\ d = 0 /\ e = 1
    BY <2>1
  <2>3. QED
    BY <1>1, <1>3, <2>2 DEF Etapas
<1>4. CASE ~(p < identificador)
  <2>1. a + b + c + d + e = 0
    BY <1>2, <1>4 DEF Uno
  <2>2. a = 0 /\ b = 0 /\ c = 0 /\ d = 0 /\ e = 0
    BY <2>1
  <2>3. QED
    BY <1>1, <1>4, <2>2 DEF Etapas
<1>5. QED
  BY <1>3, <1>4

LEMMA EnInterfaz ==
  ASSUME Tipos, NEW p \in Pids
  PROVE  (\E i \in Interfaces : ioPid[i] = p \/ Veces(ioCola[i], p) > 0) <=> EnIo(p) > 0
<1>1. /\ IsFiniteSet(Atendidos(p)) /\ Cardinality(Atendidos(p)) \in Nat
      /\ IsFiniteSet(Pares(Interfaces, ioCola, p)) /\ Cardinality(Pares(Interfaces, ioCola, p)) \in Nat
  BY AtendidosTipo
<1>2. EnIo(p) > 0 <=> Atendidos(p) # {} \/ Pares(Interfaces, ioCola, p) # {}
  BY <1>1, FS_EmptySet DEF EnIo
<1>3. ASSUME NEW i \in Interfaces
      PROVE  Veces(ioCola[i], p) > 0 <=> Fila(i, ioCola[i], p) # {}
  <2>1. ioCola[i] \in Seq(Pids)
    BY DEF Tipos, TypeOK, IoTypeOK
  <2>2. /\ IsFiniteSet(Fila(i, ioCola[i], p)) /\ Cardinality(Fila(i, ioCola[i], p)) = Veces(ioCola[i], p)
        /\ Veces(ioCola[i], p) \in Nat
    BY <2>1, ParesDeUno, VecesTipo
  <2>3. QED
    BY <2>2, FS_EmptySet
<1>4. Pares(Interfaces, ioCola, p) # {} <=> \E i \in Interfaces : Fila(i, ioCola[i], p) # {}
  BY DEF Pares
<1>5. QED
  BY <1>2, <1>3, <1>4 DEF Atendidos

(* EstadoDe reads the count that is 1. *)
LEMMA EstadoEs ==
  ASSUME Todo, NEW p \in Pids
  PROVE  /\ \A e \in Etapas : Cuantos(e, p) = 1 => EstadoDe(p) = e
         /\ p >= identificador => EstadoDe(p) = "NINGUNO"
<1>1. PICK a, b, c, f, u, v, w, x, y \in Nat :
        /\ a = Veces(cola["NEW"], p) /\ b = Veces(cola["READY"], p) /\ c = Veces(cola["AUX_READY"], p)
        /\ f = EnIo(p)
        /\ u = Uno(local["largo"] = p) /\ v = Uno(pc["corto"] = "ejecutar" /\ local["corto"] = p)
        /\ w = Uno(execute = p) /\ x = Uno(Volviendo /\ mensaje.pid = p)
        /\ y = Uno(Encolando /\ mensaje.pid = p)
  BY VecesTipo, LugaresNatHay DEF Todo, Tipos, TypeOK, ListasTypeOK, LugaresNat, Uno
<1>2. /\ Cuantos("NEW", p) = a + u /\ Cuantos("READY", p) = b + c + v /\ Cuantos("EXEC", p) = w + x
      /\ Cuantos("BLOCKED", p) = f + y
  BY <1>1, CuantosEs
<1>3. p \in EnVuelo <=> execute = p
  <2>1. ExecuteCoherente
    BY ExecuteDeTurno DEF Todo, Tipos
  <2>2. QED
    BY <2>1 DEF ExecuteCoherente
<1> DEFINE esNew == Veces(cola["NEW"], p) > 0 \/ local["largo"] = p
           esReady == \/ Veces(cola["READY"], p) + Veces(cola["AUX_READY"], p) > 0
                      \/ pc["corto"] = "ejecutar" /\ local["corto"] = p
           esExec == \/ p \in EnVuelo
                     \/ Volviendo /\ mensaje.pid = p
           esBlocked == \/ \E i \in Interfaces : ioPid[i] = p \/ Veces(ioCola[i], p) > 0
                        \/ Encolando /\ mensaje.pid = p
<1>e. EstadoDe(p) = CASE esNew -> "NEW" [] esReady -> "READY" [] esExec -> "EXEC" [] esBlocked -> "BLOCKED"
                      [] OTHER -> IF p < identificador THEN "EXIT" ELSE "NINGUNO"
  BY Zenon DEF EstadoDe, Volviendo, Encolando
<1>4. esNew <=> a + u > 0
  BY <1>1 DEF Uno
<1>5. esReady <=> b + c + v > 0
  BY <1>1 DEF Uno
<1>6. esExec <=> w + x > 0
  BY <1>1, <1>3 DEF Uno
<1>7. esBlocked <=> f + y > 0
  BY <1>1, EnInterfaz DEF Uno, Todo
<1> HIDE DEF esNew, esReady, esExec, esBlocked
<1>8. /\ (esNew <=> Cuantos("NEW", p) > 0) /\ (esReady <=> Cuantos("READY", p) > 0)
      /\ (esExec <=> Cuantos("EXEC", p) > 0) /\ (esBlocked <=> Cuantos("BLOCKED", p) > 0)
  BY <1>2, <1>4, <1>5, <1>6, <1>7
<1>9. identificador \in Nat
  BY DEF Todo, Tipos, TypeOK, GestionTypeOK
<1>10. ASSUME NEW e \in Etapas, Cuantos(e, p) = 1
       PROVE  EstadoDe(p) = e
  <2>1. \A g \in Etapas \ {e} : Cuantos(g, p) = 0
    BY <1>10, UnaEtapa
  <2>2. p < identificador
    BY <1>10, UnaEtapa
  <2>3. QED
    BY <1>e, <1>8, <1>10, <2>1, <2>2 DEF Etapas
<1>11. ASSUME p >= identificador
       PROVE  EstadoDe(p) = "NINGUNO"
  <2>1. ~(p < identificador)
    BY <1>9, <1>11
  <2>2. \A g \in Etapas : Cuantos(g, p) = 0
    BY <2>1, UnaEtapa
  <2>3. QED
    BY <1>e, <1>8, <2>1, <2>2 DEF Etapas
<1>12. QED
  BY <1>10, <1>11

EtapaClara ==
  \A p \in Pids :
    /\ \A e \in Etapas : Cuantos(e, p) \in {0, 1}
    /\ \A e, f \in Etapas : Cuantos(e, p) = 1 /\ Cuantos(f, p) = 1 => e = f
    /\ p < identificador <=> \E e \in Etapas : Cuantos(e, p) = 1
    /\ \A e \in Etapas : Cuantos(e, p) = 1 => EstadoDe(p) = e
    /\ p >= identificador => EstadoDe(p) = "NINGUNO"

LEMMA EtapaClaraHay == Todo => EtapaClara
  BY UnaEtapa, EstadoEs DEF EtapaClara

LEMMA EtapaClaraPrima == Todo' => EtapaClara'
  BY EtapaClaraHay, PTL

(* What the life of the processes is for CicloDeVida *)
EstadosDe == [p \in Pids |-> EstadoDe(p)]

LEMMA Quieta ==
  ASSUME Todo, Todo', UNCHANGED identificador, NEW a \in Etapas,
         \A p \in Pids : \A e \in Etapas \ {a} : Cuantos(e, p)' = Cuantos(e, p)
  PROVE  UNCHANGED EstadosDe
<1>1. EtapaClara /\ EtapaClara' /\ identificador \in Nat
  BY EtapaClaraHay, EtapaClaraPrima DEF Todo, Tipos, TypeOK, GestionTypeOK
<1>2. ASSUME NEW p \in Pids
      PROVE  EstadoDe(p)' = EstadoDe(p)
  <2>1. CASE p >= identificador
    BY <1>1, <2>1 DEF EtapaClara
  <2>2. CASE p < identificador
    <3>1. PICK e \in Etapas : Cuantos(e, p) = 1
      BY <1>1, <2>2 DEF EtapaClara
    <3>2. PICK f \in Etapas : Cuantos(f, p)' = 1
      BY <1>1, <2>2 DEF EtapaClara
    <3>3. e = f
      BY <1>1, <3>1, <3>2 DEF EtapaClara
    <3>4. QED
      BY <1>1, <3>1, <3>2, <3>3 DEF EtapaClara
  <2>3. QED
    BY <1>1, <2>1, <2>2
<1>3. QED
  BY <1>2 DEF EstadosDe

LEMMA Cambiada ==
  ASSUME Todo, Todo', UNCHANGED identificador, NEW x \in Pids, NEW a \in Etapas, NEW b \in Etapas \ {a},
         \A p \in Pids : \A e \in Etapas \ {b} : Cuantos(e, p) = Cuantos(e, p)' + Uno(e = a /\ p = x)
  PROVE  EstadosDe' = [EstadosDe EXCEPT ![x] = b] /\ EstadoDe(x) = a
<1>1. EtapaClara /\ EtapaClara' /\ identificador \in Nat
  BY EtapaClaraHay, EtapaClaraPrima DEF Todo, Tipos, TypeOK, GestionTypeOK
<1>2. ASSUME NEW p \in Pids, p # x
      PROVE  EstadoDe(p)' = EstadoDe(p)
  <2>1. CASE p >= identificador
    BY <1>1, <2>1 DEF EtapaClara
  <2>2. CASE p < identificador
    <3>1. PICK e \in Etapas : Cuantos(e, p) = 1
      BY <1>1, <2>2 DEF EtapaClara
    <3>2. PICK f \in Etapas : Cuantos(f, p)' = 1
      BY <1>1, <2>2 DEF EtapaClara
    <3>3. \A g \in Etapas \ {b} : Cuantos(g, p) = Cuantos(g, p)'
      BY <1>1, <1>2 DEF Uno, EtapaClara
    <3>4. e = f
      BY <1>1, <3>1, <3>2, <3>3 DEF EtapaClara
    <3>5. QED
      BY <1>1, <3>1, <3>2, <3>4 DEF EtapaClara
  <2>3. QED
    BY <1>1, <2>1, <2>2
<1>3. Cuantos(a, x) = 1 /\ Cuantos(a, x)' = 0
  <2>1. Cuantos(a, x) = Cuantos(a, x)' + Uno(a = a /\ x = x)
    OBVIOUS
  <2>2. Cuantos(a, x) = Cuantos(a, x)' + 1
    BY <2>1 DEF Uno
  <2>3. Cuantos(a, x) \in {0, 1} /\ Cuantos(a, x)' \in {0, 1}
    BY <1>1 DEF EtapaClara
  <2>4. QED
    BY <2>2, <2>3
<1>4. ASSUME NEW e \in Etapas \ {a, b}
      PROVE  Cuantos(e, x)' = 0
  <2>1. Cuantos(e, x) = Cuantos(e, x)' + Uno(e = a /\ x = x)
    OBVIOUS
  <2>2. Uno(e = a /\ x = x) = 0
    BY DEF Uno
  <2>3. Cuantos(e, x) \in {0, 1} /\ Cuantos(e, x)' \in {0, 1} /\ Cuantos(e, x) # 1
    BY <1>1, <1>3 DEF EtapaClara
  <2>4. QED
    BY <2>1, <2>2, <2>3
<1>5. EstadoDe(x) = a /\ x < identificador
  BY <1>1, <1>3 DEF EtapaClara
<1>6. EstadoDe(x)' = b
  <2>1. PICK e \in Etapas : Cuantos(e, x)' = 1
    BY <1>1, <1>5 DEF EtapaClara
  <2>2. e = b
    BY <1>3, <1>4, <2>1
  <2>3. QED
    BY <1>1, <2>1, <2>2 DEF EtapaClara
<1>7. QED
  BY <1>2, <1>5, <1>6 DEF EstadosDe

LEMMA Iguales ==
  ASSUME NEW p \in Pids
  PROVE  /\ cola'["NEW"] = cola["NEW"] /\ local'["largo"] = local["largo"] => Cuantos("NEW", p)' = Cuantos("NEW", p)
         /\ cola'["READY"] = cola["READY"] /\ cola'["AUX_READY"] = cola["AUX_READY"]
            /\ ((pc'["corto"] = "ejecutar" /\ local'["corto"] = p) <=> (pc["corto"] = "ejecutar" /\ local["corto"] = p))
              => Cuantos("READY", p)' = Cuantos("READY", p)
         /\ UNCHANGED execute /\ ((Volviendo' /\ mensaje'.pid = p) <=> (Volviendo /\ mensaje.pid = p))
              => Cuantos("EXEC", p)' = Cuantos("EXEC", p)
         /\ UNCHANGED <<ioPid, ioCola>> /\ ((Encolando' /\ mensaje'.pid = p) <=> (Encolando /\ mensaje.pid = p))
              => Cuantos("BLOCKED", p)' = Cuantos("BLOCKED", p)
         /\ UNCHANGED finMemoria /\ PidsDe(colaExit') = PidsDe(colaExit) => Cuantos("EXIT", p)' = Cuantos("EXIT", p)
<1>1. cola'["NEW"] = cola["NEW"] /\ local'["largo"] = local["largo"] => Cuantos("NEW", p)' = Cuantos("NEW", p)
  BY DEF Cuantos
<1>2. cola'["READY"] = cola["READY"] /\ cola'["AUX_READY"] = cola["AUX_READY"]
      /\ ((pc'["corto"] = "ejecutar" /\ local'["corto"] = p) <=> (pc["corto"] = "ejecutar" /\ local["corto"] = p))
        => Cuantos("READY", p)' = Cuantos("READY", p)
  BY DEF Cuantos, Uno
<1>3. UNCHANGED execute /\ ((Volviendo' /\ mensaje'.pid = p) <=> (Volviendo /\ mensaje.pid = p))
        => Cuantos("EXEC", p)' = Cuantos("EXEC", p)
  BY DEF Cuantos, Uno
<1>4. UNCHANGED <<ioPid, ioCola>> /\ ((Encolando' /\ mensaje'.pid = p) <=> (Encolando /\ mensaje.pid = p))
        => Cuantos("BLOCKED", p)' = Cuantos("BLOCKED", p)
  BY DEF Cuantos, Uno, EnIo, Atendidos
<1>5. UNCHANGED finMemoria /\ PidsDe(colaExit') = PidsDe(colaExit) => Cuantos("EXIT", p)' = Cuantos("EXIT", p)
  BY DEF Cuantos, EnSalida
<1>6. QED
  BY <1>1, <1>2, <1>3, <1>4, <1>5

LEMMA InmovilQuieta ==
  ASSUME Todo, Todo', UNCHANGED identificador, Inmovil
  PROVE  UNCHANGED EstadosDe
<1>1. \A p \in Pids : \A e \in Etapas \ {"NEW"} : Cuantos(e, p)' = Cuantos(e, p)
  BY Iguales DEF Inmovil, Etapas
<1>2. QED
  BY <1>1, Quieta DEF Etapas

(* The steps that change the place of a process and not its state *)
LEMMA SacarQuieta ==
  ASSUME Todo, Todo', LargoSacar \/ (\E c \in {"READY", "AUX_READY"}, paso \in {"ready", "aux"} : CortoSacar(paso, c))
  PROVE  UNCHANGED EstadosDe
<1>1. HilosTypeOK /\ ListasTypeOK
  BY DEF Todo, Tipos, TypeOK
<1>2. CASE LargoSacar
  <2>1. UNCHANGED <<execute, mensaje, ioPid, ioCola, colaExit, finMemoria, identificador>>
        /\ cola'["READY"] = cola["READY"] /\ cola'["AUX_READY"] = cola["AUX_READY"]
    BY <1>1, <1>2 DEF LargoSacar, turnoVars, ioVars, gestionVars, consolaVars, ListasTypeOK
  <2>2. pc'["corto"] = pc["corto"] /\ local'["corto"] = local["corto"] /\ pc'["despacho"] = pc["despacho"]
    BY <1>1, <1>2 DEF LargoSacar, Ir, Tener, HilosTypeOK, Hilos
  <2>3. \A p \in Pids : \A e \in Etapas \ {"NEW"} : Cuantos(e, p)' = Cuantos(e, p)
    BY <2>1, <2>2, Iguales DEF Etapas, Volviendo, Encolando
  <2>4. QED
    BY <2>1, <2>3, Quieta DEF Etapas
<1>3. ASSUME NEW c \in {"READY", "AUX_READY"}, NEW paso \in {"ready", "aux"}, CortoSacar(paso, c)
      PROVE  UNCHANGED EstadosDe
  <2>1. UNCHANGED <<execute, mensaje, ioPid, ioCola, colaExit, finMemoria, identificador>>
        /\ cola'["NEW"] = cola["NEW"]
    BY <1>1, <1>3 DEF CortoSacar, turnoVars, ioVars, gestionVars, consolaVars, ListasTypeOK
  <2>2. local'["largo"] = local["largo"] /\ pc'["despacho"] = pc["despacho"]
    BY <1>1, <1>3 DEF CortoSacar, Ir, Tener, HilosTypeOK, Hilos
  <2>3. \A p \in Pids : \A e \in Etapas \ {"READY"} : Cuantos(e, p)' = Cuantos(e, p)
    BY <2>1, <2>2, Iguales DEF Etapas, Volviendo, Encolando
  <2>4. QED
    BY <2>1, <2>3, Quieta DEF Etapas
<1>4. QED
  BY <1>2, <1>3

LEMMA EndProcessQuieta ==
  ASSUME Todo, Todo', EndProcess
  PROVE  UNCHANGED EstadosDe
<1>1. UNCHANGED <<execute, mensaje, ioPid, ioCola, cola, local, pc, identificador>>
  BY DEF EndProcess, turnoVars, ioVars, hilos, consolaVars
<1>2. \A p \in Pids : \A e \in Etapas \ {"EXIT"} : Cuantos(e, p)' = Cuantos(e, p)
  BY <1>1, Iguales DEF Etapas, Volviendo, Encolando
<1>3. QED
  BY <1>1, <1>2, Quieta DEF Etapas

LEMMA RecibirQuieta ==
  ASSUME Todo, Todo', RecibirPcbOSolicitud \/ RecibirInterrumpido
  PROVE  UNCHANGED EstadosDe
<1>1. HilosTypeOK
  BY DEF Todo, Tipos, TypeOK
<1>2. UNCHANGED <<ioPid, ioCola, cola, local, colaExit, finMemoria, identificador>>
  BY DEF RecibirPcbOSolicitud, RecibirInterrumpido, listas, ioVars, gestionVars, consolaVars
<1>3. pc'["corto"] = pc["corto"] /\ ~Encolando /\ ~Encolando'
  BY <1>1 DEF RecibirPcbOSolicitud, RecibirInterrumpido, RecibirDe, En, Ir, HilosTypeOK, Hilos, Encolando
<1>4. \A p \in Pids : \A e \in Etapas \ {"EXEC"} : Cuantos(e, p)' = Cuantos(e, p)
  BY <1>2, <1>3, Iguales DEF Etapas
<1>5. QED
  BY <1>2, <1>4, Quieta DEF Etapas

LEMMA EncolarQuieta ==
  ASSUME Todo, Todo', AgregarProcesoBloqueado
  PROVE  UNCHANGED EstadosDe
<1>1. HilosTypeOK
  BY DEF Todo, Tipos, TypeOK
<1>2. UNCHANGED <<execute, cola, local, colaExit, finMemoria, identificador>>
  BY DEF AgregarProcesoBloqueado, listas, gestionVars, consolaVars
<1>3. pc'["corto"] = pc["corto"] /\ ~Volviendo /\ ~Volviendo'
  BY <1>1 DEF AgregarProcesoBloqueado, Terminar, En, Ir, HilosTypeOK, Hilos, Volviendo
<1>4. \A p \in Pids : \A e \in Etapas \ {"BLOCKED"} : Cuantos(e, p)' = Cuantos(e, p)
  BY <1>2, <1>3, Iguales DEF Etapas
<1>5. QED
  BY <1>2, <1>4, Quieta DEF Etapas

LEMMA ObtenerQuieta ==
  ASSUME Todo, Todo', NEW i \in Interfaces, IoObtener(i)
  PROVE  UNCHANGED EstadosDe
<1>1. UNCHANGED <<execute, mensaje, cola, local, pc, colaExit, finMemoria, identificador>>
  BY DEF IoObtener, listas, turnoVars, hilos, gestionVars, consolaVars
<1>2. \A p \in Pids : \A e \in Etapas \ {"BLOCKED"} : Cuantos(e, p)' = Cuantos(e, p)
  BY <1>1, Iguales DEF Etapas, Volviendo
<1>3. QED
  BY <1>1, <1>2, Quieta DEF Etapas

LEMMA Pasa ==
  ASSUME NEW x \in Pids, NEW a, NEW b, EstadosDe' = [EstadosDe EXCEPT ![x] = b], EstadoDe(x) = a
  PROVE  Ciclo!Pasar(x, a, b)
  BY DEF Ciclo!Pasar, EstadosDe

(* The steps that change the state of a process *)
LEMMA IniciarCrea ==
  ASSUME Todo, Todo', IniciarProceso
  PROVE  \E x \in Pids : Ciclo!Crear(x)
<1>1. /\ identificador \in Pids /\ identificador' = identificador + 1
      /\ cola'["NEW"] = Append(cola["NEW"], identificador) /\ cola["NEW"] \in Seq(Pids)
      /\ cola'["READY"] = cola["READY"] /\ cola'["AUX_READY"] = cola["AUX_READY"]
  BY DEF IniciarProceso, Todo, Tipos, TypeOK, GestionTypeOK, ListasTypeOK
<1>2. UNCHANGED <<execute, mensaje, ioPid, ioCola, colaExit, finMemoria, pc, local>>
  BY DEF IniciarProceso, turnoVars, ioVars, hilos
<1>3. EtapaClara /\ EtapaClara'
  BY EtapaClaraHay, EtapaClaraPrima
<1>4. PICK x \in Pids : x = identificador
  BY <1>1
<1>5. ASSUME NEW p \in Pids
      PROVE  /\ Cuantos("NEW", p)' = Cuantos("NEW", p) + Uno(x = p)
             /\ \A e \in Etapas \ {"NEW"} : Cuantos(e, p)' = Cuantos(e, p)
  <2>1. PICK n, u, v \in Nat : n = Veces(cola["NEW"], p) /\ u = Uno(local["largo"] = p) /\ v = Uno(x = p)
    BY <1>1, VecesTipo DEF Uno
  <2>2. Veces(cola'["NEW"], p) = n + v
    <3> HIDE DEF Pids
    <3>1. QED
      BY <1>1, <1>4, <2>1, VecesAlFinal
  <2>3. Cuantos("NEW", p)' = (n + v) + u /\ Cuantos("NEW", p) = n + u
    BY <1>2, <2>1, <2>2 DEF Cuantos
  <2>4. Cuantos("NEW", p)' = Cuantos("NEW", p) + Uno(x = p)
    BY <2>1, <2>3
  <2>5. \A e \in Etapas \ {"NEW"} : Cuantos(e, p)' = Cuantos(e, p)
    BY <1>1, <1>2, Iguales DEF Etapas, Volviendo, Encolando
  <2>6. QED
    BY <2>4, <2>5
<1>6. EstadoDe(x) = "NINGUNO"
  BY <1>3, <1>4 DEF EtapaClara
<1>7. EstadoDe(x)' = "NEW"
  <2>1. Cuantos("NEW", x) \in {0, 1} /\ Cuantos("NEW", x)' \in {0, 1}
    BY <1>3 DEF EtapaClara, Etapas
  <2>2. Cuantos("NEW", x)' = 1
    BY <1>5, <2>1 DEF Uno
  <2>3. QED
    BY <1>3, <2>2 DEF EtapaClara, Etapas
<1>8. ASSUME NEW p \in Pids, p # x
      PROVE  EstadoDe(p)' = EstadoDe(p)
  <2>1. \A e \in Etapas : Cuantos(e, p)' = Cuantos(e, p)
    <3>1. Cuantos("NEW", p)' = Cuantos("NEW", p) + 0 /\ Cuantos("NEW", p) \in {0, 1}
      BY <1>3, <1>5, <1>8 DEF Uno, EtapaClara, Etapas
    <3>2. QED
      BY <1>5, <3>1
  <2>2. p < identificador' <=> p < identificador
    BY <1>1, <1>4, <1>8
  <2>3. CASE p < identificador
    <3>1. PICK e \in Etapas : Cuantos(e, p) = 1
      BY <1>3, <2>3 DEF EtapaClara
    <3>2. QED
      BY <1>3, <2>1, <3>1 DEF EtapaClara
  <2>4. CASE ~(p < identificador)
    <3>1. p >= identificador /\ p >= identificador'
      BY <1>1, <2>2, <2>4
    <3>2. QED
      BY <1>3, <3>1 DEF EtapaClara
  <2>5. QED
    BY <2>3, <2>4
<1>9. EstadosDe' = [EstadosDe EXCEPT ![x] = "NEW"]
  BY <1>7, <1>8 DEF EstadosDe
<1>10. QED
  BY <1>6, <1>9, Pasa DEF Ciclo!Crear

(* With no change of degree, it is the one of kernel.config. *)
GradoFijo == grado = GradoInicial

LEMMA GradoFijoPaso == MaxCambios = 0 /\ GradoFijo /\ [Next]_vars => GradoFijo'
<1> SUFFICES ASSUME MaxCambios = 0, GradoFijo, [Next]_vars PROVE GradoFijo'
  OBVIOUS
<1>1. Cambios = {}
  BY DEF Cambios
<1>2. grado' = grado
  <2>1. CASE UNCHANGED vars
    BY <2>1 DEF vars, kernelVars, gestionVars, planVars
  <2>2. CASE Cpu
    BY <2>2 DEF Cpu, kernelVars, gestionVars, planVars
  <2>3. CASE Consola
    BY <2>3 DEF Consola, IniciarProceso, ConsolaTrabada, DetenerPlanificacion, IniciarPlanificacion, CambiarGrado,
         FinalizarBuscar, FinalizarVerificar, FinalizarComparar, FinalizarEliminar, FinalizarEncolar,
         gestionVars, planVars
  <2>4. CASE LargoPlazo \/ EndProcess
    BY <2>4 DEF LargoPlazo, LargoEsperar, LargoOrden, LargoMulti, LargoSacar, LargoAgregar, LargoMostrar, EndProcess,
         gestionVars, planVars
  <2>5. CASE InterrupcionQuantum
    <3>1. UNCHANGED gestionVars
      BY <2>5, Zenon DEF InterrupcionQuantum
    <3>2. QED
      BY <3>1 DEF gestionVars, planVars
  <2>6. CASE (CortoPlazo /\ ~InterrupcionQuantum) \/ Quantum
    BY <2>6 DEF CortoPlazo, CortoElegir, CortoCpu, CortoSacar, CortoEjecutar, CortoUnir, Quantum,
         QuantumCrear, QuantumVencer, gestionVars, planVars
  <2>7. CASE Despacho
    BY <2>7 DEF Despacho, RecibirPcbOSolicitud, Cancelar, RecibirInterrumpido, ActualizarPcbQuantum,
         AgregarDeExecuteAReady, MostrarExecuteAReady, AgregarAExit, ActualizarPcbFinal, Bloquear,
         AgregarProcesoBloqueado, gestionVars, planVars
  <2>8. CASE \E i \in Interfaces : HiloIO(i)
    BY <2>8 DEF HiloIO, IoEsperar, IoObtener, IoResponder, AgregarDeBlockedAReady, MostrarBlockedAReady,
         gestionVars, planVars
  <2>9. CASE \E s \in SemPlanes : DetenerCola(s)
    BY <2>9 DEF DetenerCola
  <2>10. QED
    BY <1>1, <2>1, <2>2, <2>3, <2>4, <2>5, <2>6, <2>7, <2>8, <2>9 DEF Next, Kernel
<1>3. QED
  BY <1>2 DEF GradoFijo

(* The Cardinality of CicloDeVida is that of this module. *)
LEMMA MismaCardinalidad == ASSUME NEW S PROVE Ciclo!Cardinality(S) = Cardinality(S)
  BY DEF Ciclo!Cardinality, Cardinality

(* The unit of SEM_MULTIPROGRAMACION taken before admitting leaves room. *)
LEMMA AgregarAdmiteCiclo ==
  ASSUME MaxCambios = 0, GradoFijo, Todo, Todo', Contados, vivo, LargoAgregar
  PROVE  \E x \in Pids : Ciclo!Admitir(x)
<1>1. HilosTypeOK /\ ListasTypeOK
  BY DEF Todo, Tipos, TypeOK
<1>2. PICK x \in Pids : x = local["largo"]
  BY DEF LargoAgregar, En, Todo, Tipos, Punteros
<1>3. /\ UNCHANGED <<execute, mensaje, ioPid, ioCola, colaExit, finMemoria, identificador>>
      /\ cola'["NEW"] = cola["NEW"]
  BY <1>1 DEF LargoAgregar, turnoVars, ioVars, gestionVars, consolaVars, ListasTypeOK
<1>4. local'["largo"] = Nulo /\ pc'["despacho"] = pc["despacho"]
  BY <1>1 DEF LargoAgregar, Ir, Tener, HilosTypeOK, Hilos
<1>5. ASSUME NEW p \in Pids, NEW e \in Etapas \ {"READY"}
      PROVE  Cuantos(e, p) = Cuantos(e, p)' + Uno(e = "NEW" /\ p = x)
  <2>1. Cuantos(e, p) \in Nat
    BY Repartido
  <2>2. CASE e = "NEW"
    <3>1. PICK n \in Nat : n = Veces(cola["NEW"], p)
      BY <1>1, VecesTipo DEF ListasTypeOK
    <3>2. Cuantos("NEW", p) = n + Uno(x = p) /\ Cuantos("NEW", p)' = n + 0
      BY <1>2, <1>3, <1>4, <3>1 DEF Cuantos, Uno
    <3>3. QED
      BY <2>2, <3>2 DEF Uno
  <2>3. CASE e # "NEW"
    <3>1. Cuantos(e, p)' = Cuantos(e, p)
      BY <1>3, <1>4, <2>3, Iguales DEF Etapas, Volviendo, Encolando
    <3>2. QED
      BY <2>1, <2>3, <3>1 DEF Uno
  <2>4. QED
    BY <2>2, <2>3
<1>6. EstadosDe' = [EstadosDe EXCEPT ![x] = "READY"] /\ EstadoDe(x) = "NEW"
  BY <1>3, <1>5, Cambiada DEF Etapas
<1>7. Ciclo!Pasar(x, "NEW", "READY")
  BY <1>6, Pasa
<1>8. Cardinality(Ciclo!Admitidos) < GradoInicial
  <2>1. GradoEfectivo = GradoInicial
    BY DEF GradoEfectivo, GradoFijo, Cambios
  <2>2. Uno(pc["largo"] \in {"sacar", "agregar"}) = 1
    BY DEF LargoAgregar, En, Uno
  <2>3. sem["MULTIPROGRAMACION"] + Cardinality(Admitidos) + 1 = GradoInicial
    BY <2>1, <2>2 DEF Contados, ConteoMultiprogramacion
  <2>4. Cardinality(Admitidos) < GradoInicial
    BY <2>3, ContadosTipos, AdmitidosFinito, GradosAssumption DEF Todo
  <2>5. Ciclo!Admitidos \subseteq Admitidos
    <3>1. SUFFICES ASSUME NEW p \in Pids, EstadoDe(p) \in {"READY", "EXEC", "BLOCKED"}
                   PROVE  p \in Admitidos
      BY DEF Ciclo!Admitidos
    <3>2. EtapaClara
      BY EtapaClaraHay
    <3>3. p < identificador /\ identificador \in Nat
      BY <3>1, <3>2 DEF EtapaClara, Todo, Tipos, TypeOK, GestionTypeOK
    <3>4. PICK e \in Etapas : Cuantos(e, p) = 1
      BY <3>2, <3>3 DEF EtapaClara
    <3>5. e \notin {"NEW", "EXIT"}
      BY <3>1, <3>2, <3>4 DEF EtapaClara
    <3>6. Cuantos("NEW", p) = 0 /\ Cuantos("EXIT", p) = 0
      BY <3>2, <3>4, <3>5 DEF EtapaClara, Etapas
    <3>7. Veces(cola["NEW"], p) = 0 /\ local["largo"] # p
      <4>1. PICK n, u \in Nat : n = Veces(cola["NEW"], p) /\ u = Uno(local["largo"] = p)
        BY <1>1, VecesTipo DEF ListasTypeOK, Uno
      <4>2. n + u = 0
        BY <3>6, <4>1 DEF Cuantos
      <4>3. n = 0 /\ u = 0
        BY <4>2
      <4>4. QED
        BY <4>1, <4>3 DEF Uno
    <3>8. finMemoria[p] = 0
      <4>1. PidsDe(colaExit) \in Seq(Pids)
        BY <1>1, PidsDeTipo DEF ListasTypeOK
      <4>2. PICK n, u \in Nat : n = Veces(PidsDe(colaExit), p) /\ u = finMemoria[p]
        BY <4>1, VecesTipo DEF Todo, Tipos, TypeOK, GestionTypeOK
      <4>3. n + u = 0
        BY <3>6, <4>2 DEF Cuantos, EnSalida
      <4>4. u = 0
        BY <4>3
      <4>5. QED
        BY <4>2, <4>4
    <3>9. tabla[p] # "NINGUNO"
      BY <3>3 DEF Todo, Ubicados, TablaSana
    <3>10. QED
      BY <3>7, <3>8, <3>9 DEF Admitidos
  <2>6. Cardinality(Ciclo!Admitidos) <= Cardinality(Admitidos) /\ Cardinality(Ciclo!Admitidos) \in Nat
    BY <2>5, AdmitidosFinito, FS_Subset, FS_CardinalityType
  <2>7. QED
    BY <2>4, <2>6, AdmitidosFinito, GradosAssumption
<1>9. Ciclo!Admitir(x)
  BY <1>7, <1>8, MismaCardinalidad DEF Ciclo!Admitir
<1>10. QED
  BY <1>9

LEMMA EjecutarDespacha ==
  ASSUME Todo, Todo', vivo, CortoEjecutar
  PROVE  \E x \in Pids : Ciclo!Despachar(x)
<1>1. HilosTypeOK /\ ListasTypeOK
  BY DEF Todo, Tipos, TypeOK
<1>2. PICK x \in Pids : x = local["corto"]
  BY DEF CortoEjecutar, En, Todo, Tipos, Punteros
<1>3. UNCHANGED <<cola, mensaje, ioPid, ioCola, colaExit, finMemoria, identificador>>
  BY DEF CortoEjecutar, ioVars, gestionVars, consolaVars
<1>4. /\ pc["corto"] = "ejecutar" /\ pc'["corto"] # "ejecutar"
      /\ local'["largo"] = local["largo"] /\ pc'["despacho"] = pc["despacho"]
  BY <1>1 DEF CortoEjecutar, En, Ir, Tener, HilosTypeOK, Hilos
<1>5. ASSUME NEW p \in Pids, NEW e \in Etapas \ {"EXEC"}
      PROVE  Cuantos(e, p) = Cuantos(e, p)' + Uno(e = "READY" /\ p = x)
  <2>1. Cuantos(e, p) \in Nat
    BY Repartido
  <2>2. CASE e = "READY"
    <3>1. PICK n, m \in Nat : n = Veces(cola["READY"], p) /\ m = Veces(cola["AUX_READY"], p)
      BY <1>1, VecesTipo DEF ListasTypeOK
    <3>2. Cuantos("READY", p) = n + m + Uno(x = p) /\ Cuantos("READY", p)' = n + m + 0
      BY <1>2, <1>3, <1>4, <3>1 DEF Cuantos, Uno
    <3>3. QED
      BY <2>2, <3>2 DEF Uno
  <2>3. CASE e # "READY"
    <3>1. Cuantos(e, p)' = Cuantos(e, p)
      BY <1>3, <1>4, <2>3, Iguales DEF Etapas, Volviendo, Encolando
    <3>2. QED
      BY <2>1, <2>3, <3>1 DEF Uno
  <2>4. QED
    BY <2>2, <2>3
<1>e. "READY" \in Etapas /\ "EXEC" \in Etapas \ {"READY"} /\ UNCHANGED identificador
  BY <1>3 DEF Etapas
<1>6. EstadosDe' = [EstadosDe EXCEPT ![x] = "EXEC"] /\ EstadoDe(x) = "READY"
  <2>1. PICK a \in Etapas : a = "READY"
    BY <1>e
  <2>2. PICK b \in Etapas : b = "EXEC"
    BY <1>e
  <2>3. b \in Etapas \ {a} /\ UNCHANGED identificador
    BY <1>e, <2>1, <2>2
  <2>4. \A p \in Pids : \A e \in Etapas \ {b} : Cuantos(e, p) = Cuantos(e, p)' + Uno(e = a /\ p = x)
    BY <1>5, <2>1, <2>2
  <2> HIDE DEF Pids
  <2>5. EstadosDe' = [EstadosDe EXCEPT ![x] = b] /\ EstadoDe(x) = a
    BY <2>3, <2>4, Cambiada
  <2>6. QED
    BY <2>1, <2>2, <2>5
<1>7. Ciclo!Pasar(x, "READY", "EXEC")
  BY <1>6, Pasa
<1>8. ASSUME NEW q \in Pids, EstadoDe(q) = "EXEC"
      PROVE  FALSE
  <2>1. EtapaClara /\ identificador \in Nat
    BY EtapaClaraHay DEF Todo, Tipos, TypeOK, GestionTypeOK
  <2>2. q < identificador
    BY <1>8, <2>1 DEF EtapaClara
  <2>3. PICK e \in Etapas : Cuantos(e, q) = 1
    BY <2>1, <2>2 DEF EtapaClara
  <2>4. Cuantos("EXEC", q) = 1
    BY <1>8, <2>1, <2>3 DEF EtapaClara
  <2>5. execute = Nulo /\ pc["despacho"] = "recibir"
    BY <1>4 DEF Todo, Turno, Elegido, Atendiendo
  <2>6. Cuantos("EXEC", q) = 0
    BY <2>5 DEF Cuantos, Volviendo, Uno
  <2>7. QED
    BY <2>4, <2>6
<1>9. Ciclo!Despachar(x)
  BY <1>7, <1>8 DEF Ciclo!Despachar
<1>10. QED
  BY <1>9

(* What the three ways out of the CPU have in common *)
LEMMA DejaCpu ==
  ASSUME Todo, Todo', AgregarDeExecuteAReady \/ Bloquear \/ AgregarAExit
  PROVE  /\ mensaje.pid \in Pids
         /\ UNCHANGED <<execute, ioPid, ioCola, finMemoria, identificador, local>>
         /\ cola'["NEW"] = cola["NEW"] /\ pc'["corto"] = pc["corto"] /\ Volviendo /\ ~Volviendo' /\ ~Encolando
         /\ \A p \in Pids : Cuantos("EXEC", p) = Cuantos("EXEC", p)' + Uno(mensaje.pid = p)
<1>1. HilosTypeOK /\ ListasTypeOK
  BY DEF Todo, Tipos, TypeOK
<1>2. UNCHANGED <<execute, ioPid, ioCola, finMemoria, identificador, local>> /\ cola'["NEW"] = cola["NEW"]
  BY <1>1 DEF AgregarDeExecuteAReady, Bloquear, AgregarAExit, turnoVars, ioVars, gestionVars, consolaVars,
              ListasTypeOK, ColaReadyDe
<1>3. pc'["corto"] = pc["corto"] /\ Volviendo /\ ~Volviendo' /\ ~Encolando
  BY <1>1 DEF AgregarDeExecuteAReady, Bloquear, AgregarAExit, En, Ir, HilosTypeOK, Hilos, Volviendo, Encolando
<1>4. mensaje.pid \in Pids
  BY DEF AgregarDeExecuteAReady, Bloquear, AgregarAExit, En, Todo, Tipos, Punteros, Mensajes
<1>5. ASSUME NEW p \in Pids
      PROVE  Cuantos("EXEC", p) = Cuantos("EXEC", p)' + Uno(mensaje.pid = p)
  <2>1. Cuantos("EXEC", p) = Uno(execute = p) + Uno(mensaje.pid = p) /\ Cuantos("EXEC", p)' = Uno(execute = p) + 0
    BY <1>2, <1>3 DEF Cuantos, Uno
  <2>2. QED
    BY <2>1 DEF Uno
<1>6. QED
  BY <1>2, <1>3, <1>4, <1>5

LEMMA DejaCpuHacia ==
  ASSUME Todo, Todo', AgregarDeExecuteAReady \/ Bloquear \/ AgregarAExit, NEW b \in Etapas \ {"EXEC"},
         \A p \in Pids : \A e \in Etapas \ {"EXEC", b} : Cuantos(e, p)' = Cuantos(e, p)
  PROVE  mensaje.pid \in Pids /\ Ciclo!Pasar(mensaje.pid, "EXEC", b)
<1>1. PICK x \in Pids : x = mensaje.pid
  BY DejaCpu
<1>2. ASSUME NEW p \in Pids, NEW e \in Etapas \ {b}
      PROVE  Cuantos(e, p) = Cuantos(e, p)' + Uno(e = "EXEC" /\ p = x)
  <2>1. Cuantos(e, p) \in Nat
    BY Repartido
  <2>2. CASE e = "EXEC"
    BY <1>1, <2>2, DejaCpu DEF Uno
  <2>3. CASE e # "EXEC"
    BY <2>1, <2>3 DEF Uno
  <2>4. QED
    BY <2>2, <2>3
<1>3. "EXEC" \in Etapas /\ UNCHANGED identificador
  BY DejaCpu DEF Etapas
<1>4. EstadosDe' = [EstadosDe EXCEPT ![x] = b] /\ EstadoDe(x) = "EXEC"
  BY <1>2, <1>3, Cambiada
<1>5. QED
  BY <1>1, <1>4, Pasa

LEMMA VuelveDeLaCpu ==
  ASSUME Todo, Todo', AgregarDeExecuteAReady \/ Bloquear \/ AgregarAExit
  PROVE  \E x \in Pids : Ciclo!Desalojar(x) \/ Ciclo!Bloquear(x) \/ Ciclo!Terminar(x)
<1>1. HilosTypeOK /\ ListasTypeOK /\ UNCHANGED <<ioPid, ioCola, finMemoria, local>> /\ cola'["NEW"] = cola["NEW"]
      /\ pc'["corto"] = pc["corto"] /\ ~Encolando
  BY DejaCpu DEF Todo, Tipos, TypeOK
<1>2. CASE AgregarDeExecuteAReady
  <2>1. UNCHANGED colaExit /\ ~Encolando'
    BY <1>1, <1>2 DEF AgregarDeExecuteAReady, Ir, HilosTypeOK, Hilos, Encolando
  <2>2. \A p \in Pids : \A e \in Etapas \ {"EXEC", "READY"} : Cuantos(e, p)' = Cuantos(e, p)
    BY <1>1, <2>1, Iguales DEF Etapas
  <2>3. Ciclo!Desalojar(mensaje.pid) /\ mensaje.pid \in Pids
    BY <1>2, <2>2, DejaCpuHacia DEF Etapas, Ciclo!Desalojar
  <2>4. QED
    BY <2>3
<1>3. CASE Bloquear
  <2>1. UNCHANGED cola /\ PidsDe(colaExit') = PidsDe(colaExit)
    <3>1. UNCHANGED cola /\ \E p : colaExit' = Reemplazado(colaExit, p)
      BY <1>3 DEF Bloquear, ActualizarTabla
    <3>2. QED
      BY <1>1, <3>1, PidsDeCambio DEF ListasTypeOK
  <2>2. \A p \in Pids : \A e \in Etapas \ {"EXEC", "BLOCKED"} : Cuantos(e, p)' = Cuantos(e, p)
    BY <1>1, <2>1, Iguales DEF Etapas
  <2>3. Ciclo!Bloquear(mensaje.pid) /\ mensaje.pid \in Pids
    BY <1>3, <2>2, DejaCpuHacia DEF Etapas, Ciclo!Bloquear
  <2>4. QED
    BY <2>3
<1>4. CASE AgregarAExit
  <2>1. UNCHANGED cola /\ ~Encolando'
    BY <1>1, <1>4 DEF AgregarAExit, Ir, HilosTypeOK, Hilos, Encolando
  <2>2. \A p \in Pids : \A e \in Etapas \ {"EXEC", "EXIT"} : Cuantos(e, p)' = Cuantos(e, p)
    BY <1>1, <2>1, Iguales DEF Etapas
  <2>3. Ciclo!Terminar(mensaje.pid) /\ mensaje.pid \in Pids
    BY <1>4, <2>2, DejaCpuHacia DEF Etapas, Ciclo!Terminar
  <2>4. QED
    BY <2>3
<1>5. QED
  BY <1>2, <1>3, <1>4

LEMMA BlockedAReadyDesbloquea ==
  ASSUME Todo, Todo', NEW i \in Interfaces, AgregarDeBlockedAReady(i)
  PROVE  \E x \in Pids : Ciclo!Desbloquear(x)
<1>1. IoTypeOK /\ ListasTypeOK
  BY DEF Todo, Tipos, TypeOK
<1>2. PICK x \in Pids : x = ioPid[i]
  BY DEF AgregarDeBlockedAReady, Todo, Tipos, Punteros
<1>3. /\ UNCHANGED <<execute, mensaje, ioCola, colaExit, finMemoria, identificador, pc, local>>
      /\ cola'["NEW"] = cola["NEW"]
  BY <1>1 DEF AgregarDeBlockedAReady, turnoVars, hilos, gestionVars, consolaVars, ListasTypeOK, ColaReadyDe
<1>4. ioPid'[i] = Nulo /\ \A j \in Interfaces \ {i} : ioPid'[j] = ioPid[j]
  BY <1>1 DEF AgregarDeBlockedAReady, IoTypeOK
<1>5. ASSUME NEW p \in Pids, NEW e \in Etapas \ {"READY"}
      PROVE  Cuantos(e, p) = Cuantos(e, p)' + Uno(e = "BLOCKED" /\ p = x)
  <2>1. Cuantos(e, p) \in Nat
    BY Repartido
  <2>2. CASE e = "BLOCKED"
    <3>1. EnIo(p) = EnIo(p)' + Uno(x = p) /\ EnIo(p)' \in Nat
      BY <1>2, <1>3, <1>4, IoSuelta DEF Todo
    <3>2. PICK n, u, v \in Nat : n = EnIo(p)' /\ u = Uno(x = p) /\ v = Uno(Encolando /\ mensaje.pid = p)
      BY <3>1 DEF Uno
    <3>3. Cuantos("BLOCKED", p) = (n + u) + v /\ Cuantos("BLOCKED", p)' = n + v
      BY <1>3, <3>1, <3>2 DEF Cuantos, Encolando
    <3>4. QED
      BY <2>2, <3>2, <3>3 DEF Uno
  <2>3. CASE e # "BLOCKED"
    <3>1. Cuantos(e, p)' = Cuantos(e, p)
      BY <1>3, <2>3, Iguales DEF Etapas, Volviendo
    <3>2. QED
      BY <2>1, <2>3, <3>1 DEF Uno
  <2>4. QED
    BY <2>2, <2>3
<1>e. "BLOCKED" \in Etapas /\ "READY" \in Etapas \ {"BLOCKED"} /\ UNCHANGED identificador
  BY <1>3 DEF Etapas
<1>6. EstadosDe' = [EstadosDe EXCEPT ![x] = "READY"] /\ EstadoDe(x) = "BLOCKED"
  <2>1. PICK a \in Etapas : a = "BLOCKED"
    BY <1>e
  <2>2. PICK b \in Etapas : b = "READY"
    BY <1>e
  <2>3. b \in Etapas \ {a} /\ UNCHANGED identificador
    BY <1>e, <2>1, <2>2
  <2>4. \A p \in Pids : \A e \in Etapas \ {b} : Cuantos(e, p) = Cuantos(e, p)' + Uno(e = a /\ p = x)
    BY <1>5, <2>1, <2>2
  <2> HIDE DEF Pids
  <2>5. EstadosDe' = [EstadosDe EXCEPT ![x] = b] /\ EstadoDe(x) = a
    BY <2>3, <2>4, Cambiada
  <2>6. QED
    BY <2>1, <2>2, <2>5
<1>7. Ciclo!Desbloquear(x)
  BY <1>6, Pasa DEF Ciclo!Desbloquear
<1>8. QED
  BY <1>7

LEMMA CicloInicial == Init => Ciclo!Init
<1> SUFFICES ASSUME Init PROVE Ciclo!Init
  OBVIOUS
<1>1. /\ cola["NEW"] = <<>> /\ cola["READY"] = <<>> /\ cola["AUX_READY"] = <<>>
      /\ \A i \in Interfaces : ioPid[i] = Nulo /\ ioCola[i] = <<>>
      /\ pc["despacho"] = "recibir" /\ pc["corto"] = "elegir" /\ local["largo"] = Nulo
      /\ aCpu = <<>> /\ deCpu = <<>> /\ pedida = FALSE /\ identificador = 1
  BY DEF Init, CpuInit, KernelInit, Hilos
<1>2. EnVuelo = {}
  BY <1>1 DEF EnVuelo
<1>3. ASSUME NEW p \in Pids
      PROVE  EstadoDe(p) = "NINGUNO"
  <2>1. Veces(cola["NEW"], p) = 0 /\ Veces(cola["READY"], p) = 0 /\ Veces(cola["AUX_READY"], p) = 0
        /\ \A i \in Interfaces : Veces(ioCola[i], p) = 0
    BY <1>1, VecesVacia
  <2>2. ~(p < identificador)
    BY <1>1
  <2>3. QED
    BY <1>1, <1>2, <2>1, <2>2 DEF EstadoDe
<1>4. QED
  BY <1>3 DEF Ciclo!Init

(* Every step of the kernel and of the CPU is a step of the life of one     *)
(* process, or leaves all of them as they were.                             *)
LEMMA CicloPaso ==
  ASSUME MaxFinalizar = 0, MaxCambios = 0
  PROVE  Todo /\ Contados /\ GradoFijo /\ [Next]_vars => Ciclo!Next \/ UNCHANGED EstadosDe
<1> SUFFICES ASSUME Todo, Contados, GradoFijo, [Next]_vars PROVE Ciclo!Next \/ UNCHANGED EstadosDe
  OBVIOUS
<1>1. Todo'
  <2>1. Tipos' /\ Turno'
    BY TiposPaso, TurnoPaso DEF Todo
  <2>2. Ubicados'
    BY UbicadosPaso DEF Todo
  <2>3. QED
    BY <2>1, <2>2 DEF Todo
<1>2. Tipos /\ HilosSanos /\ CadaUnoEnSuLugar /\ TablaSana
  BY DEF Todo, Ubicados
<1>3. CASE UNCHANGED vars
  <2>1. UNCHANGED <<cola, execute, ioPid, ioCola, finMemoria, mensaje, colaExit, pc, local, identificador>>
    BY <1>3 DEF vars, kernelVars, turnoVars, listas, hilos, ioVars, gestionVars, consolaVars
  <2>2. Inmovil
    BY <1>2, <2>1, NadieSeMueve DEF Volviendo, Encolando
  <2>3. QED
    BY <1>1, <2>1, <2>2, InmovilQuieta
<1>4. CASE (Cpu \/ Consola \/ (\E s \in SemPlanes : DetenerCola(s)) \/ (\E k \in Cambios : Cambio(k))) /\ ~IniciarProceso
  BY <1>1, <1>2, <1>4, MudanzaGestion, InmovilQuieta
<1>5. CASE IniciarProceso
  BY <1>1, <1>5, IniciarCrea DEF Ciclo!Next
<1>6. CASE vivo /\ LargoPlazo
  <2>1. UNCHANGED identificador
    BY <1>6 DEF LargoPlazo, LargoEsperar, LargoOrden, LargoMulti, LargoSacar, LargoAgregar, LargoMostrar,
                gestionVars, consolaVars
  <2>2. CASE LargoEsperar \/ LargoOrden \/ LargoMulti \/ LargoMostrar
    BY <1>1, <1>2, <2>1, <2>2, MudanzaLargoQuieto, InmovilQuieta
  <2>3. CASE LargoSacar
    BY <1>1, <2>3, SacarQuieta
  <2>4. CASE LargoAgregar
    BY <1>1, <1>6, <2>4, AgregarAdmiteCiclo DEF Ciclo!Next
  <2>5. QED
    BY <1>6, <2>2, <2>3, <2>4 DEF LargoPlazo
<1>7. CASE EndProcess
  BY <1>1, <1>7, EndProcessQuieta
<1>8. CASE vivo /\ (CortoPlazo \/ Quantum)
  <2>1. UNCHANGED identificador
    BY <1>2, <1>8, LargoAparte
  <2>2. CASE CortoElegir \/ CortoCpu \/ InterrupcionQuantum \/ CortoUnir \/ Quantum
    BY <1>1, <1>2, <2>1, <2>2, MudanzaCortoQuieto, InmovilQuieta
  <2>3. CASE CortoSacar("ready", "READY") \/ CortoSacar("aux", "AUX_READY")
    BY <1>1, <2>3, SacarQuieta
  <2>4. CASE CortoEjecutar
    BY <1>1, <1>8, <2>4, EjecutarDespacha DEF Ciclo!Next
  <2>5. QED
    BY <1>8, <2>2, <2>3, <2>4 DEF CortoPlazo
<1>9. CASE Despacho
  <2>1. UNCHANGED identificador
    BY <1>2, <1>9, LargoAparte
  <2>2. CASE (Cancelar \/ ActualizarPcbQuantum \/ MostrarExecuteAReady \/ ActualizarPcbFinal) /\ ~Bloquear
    BY <1>1, <1>2, <2>1, <2>2, MudanzaDespachoQuieto, InmovilQuieta
  <2>3. CASE RecibirPcbOSolicitud \/ RecibirInterrumpido
    BY <1>1, <2>3, RecibirQuieta
  <2>4. CASE AgregarProcesoBloqueado
    BY <1>1, <2>4, EncolarQuieta
  <2>5. CASE AgregarDeExecuteAReady \/ Bloquear \/ AgregarAExit
    BY <1>1, <2>5, VuelveDeLaCpu DEF Ciclo!Next
  <2>6. QED
    BY <1>9, <2>2, <2>3, <2>4, <2>5 DEF Despacho
<1>10. ASSUME NEW i \in Interfaces, HiloIO(i)
       PROVE  Ciclo!Next \/ UNCHANGED EstadosDe
  <2>1. UNCHANGED identificador
    BY <1>2, <1>10, LargoAparte
  <2>2. CASE IoEsperar(i) \/ IoResponder(i) \/ MostrarBlockedAReady(i)
    BY <1>1, <1>2, <2>1, <2>2, MudanzaIOQuieto, InmovilQuieta
  <2>3. CASE IoObtener(i)
    BY <1>1, <2>3, ObtenerQuieta
  <2>4. CASE AgregarDeBlockedAReady(i)
    BY <1>1, <2>4, BlockedAReadyDesbloquea DEF Ciclo!Next
  <2>5. QED
    BY <1>10, <2>2, <2>3, <2>4 DEF HiloIO
<1>11. QED
  BY <1>3, <1>4, <1>5, <1>6, <1>7, <1>8, <1>9, <1>10 DEF Next, Kernel

(* Without FINALIZAR_PROCESO nor MULTIPROGRAMACION, the planners, the CPU   *)
(* and the interfaces implement the five-state life: each process is        *)
(* created, admitted within the degree of kernel.config, dispatched when no *)
(* other executes, and comes back only to READY, to BLOCKED or to EXIT.     *)
THEOREM ImplementaElCiclo ==
  ASSUME MaxFinalizar = 0, MaxCambios = 0
  PROVE  Spec => CicloRespetado
<1>1. Todo /\ Contados /\ GradoFijo /\ [Next]_vars => [Ciclo!Next]_([p \in Pids |-> EstadoDe(p)])
  BY CicloPaso DEF EstadosDe
<1>2. Spec => []Todo
  BY UbicadosSiempre DEF Todo
<1>3. Todo /\ Contados /\ [Next]_vars => Contados'
  BY ContadosPaso DEF Todo
<1>4. Init => GradoFijo
  BY DEF Init, KernelInit, GradoFijo
<1>5. GradoFijo /\ [Next]_vars => GradoFijo'
  BY GradoFijoPaso
<1>6. QED
  BY <1>1, <1>2, <1>3, <1>4, <1>5, ContadosInicial, CicloInicial, PTL DEF Spec, CicloRespetado, Ciclo!Spec

=============================================================================
