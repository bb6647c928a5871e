---------------------------- MODULE PruebasDialFS ----------------------------
(***************************************************************************)
(* Proofs about the file system of an interface: what the loop of the      *)
(* compaction keeps, the list of files, and that files neither overlap nor *)
(* lose their contents through requests, compactions and crashes.          *)
(***************************************************************************)
EXTENDS DialFS, PruebasListas

-----------------------------------------------------------------------------
(***************************************************************************)
(* The loop.  A function that is given by what its next value is.          *)
(***************************************************************************)

(* A step H that does not leave M, from a in M, can be taken N times.       *)
Rondas(M, H, a, N) == {g \in [0..N -> M] : g[0] = a /\ \A k \in 1..N : g[k] = H[g[k - 1]]}

LEMMA Repetir ==
  ASSUME NEW M, NEW H \in [M -> M], NEW a \in M, NEW N \in Nat
  PROVE  \E g : g \in Rondas(M, H, a, N)
<1> DEFINE Llega(n) == \E g \in [0..n -> M] : g[0] = a /\ \A k \in 1..n : g[k] = H[g[k - 1]]
           Faltan == {n \in Nat : ~Llega(n)}
<1>1. Llega(0)
  <2>1. [k \in 0..0 |-> a] \in [0..0 -> M] /\ [k \in 0..0 |-> a][0] = a /\ 1..0 = {}
    OBVIOUS
  <2>2. QED
    BY <2>1
<1>2. ASSUME NEW n \in Nat, Llega(n) PROVE Llega(n + 1)
  <2>1. PICK g \in [0..n -> M] : g[0] = a /\ \A k \in 1..n : g[k] = H[g[k - 1]]
    BY <1>2
  <2> DEFINE h == [k \in 0..(n + 1) |-> IF k = n + 1 THEN H[g[n]] ELSE g[k]]
  <2>2. h \in [0..(n + 1) -> M]
    BY <2>1
  <2>3. h[0] = a
    BY <2>1
  <2>4. ASSUME NEW k \in 1..(n + 1) PROVE h[k] = H[h[k - 1]]
    <3>1. CASE k = n + 1
      BY <3>1
    <3>2. CASE k # n + 1
      <4>1. k \in 1..n /\ k - 1 \in 0..n /\ k - 1 # n + 1
        BY <3>2
      <4>2. QED
        BY <2>1, <4>1
    <3>3. QED
      BY <3>1, <3>2
  <2> HIDE DEF h
  <2>5. QED
    BY <2>2, <2>3, <2>4
<1>3. Faltan = {}
  <2>1. SUFFICES ASSUME Faltan # {} PROVE FALSE
    OBVIOUS
  <2>2. Faltan \subseteq Nat
    OBVIOUS
  <2> HIDE DEF Llega
  <2>3. PICK n \in Faltan : \A k \in Faltan : n <= k
    <3> HIDE DEF Faltan
    <3>1. QED
      BY <2>1, <2>2, MenorNatural
  <2>4. n \in Nat /\ ~Llega(n) /\ n # 0
    BY <1>1
  <2>5. n - 1 \in Nat /\ n - 1 \notin Faltan
    BY <2>3, <2>4
  <2>6. Llega(n - 1)
    BY <2>5
  <2>7. Llega((n - 1) + 1)
    BY <1>2, <2>5, <2>6
  <2>8. (n - 1) + 1 = n
    BY <2>4
  <2>9. QED
    BY <2>4, <2>7, <2>8
<1>4. Llega(N)
  BY <1>3
<1>5. QED
  BY <1>4 DEF Rondas

(* What holds of the state of a compaction at its start, and of what one    *)
(* round makes of any state it holds of, holds at its end.                  *)
LEMMA MudanzaGuarda ==
  ASSUME NEW libre, NEW n, NEW M, NEW inicio \in M,
         \A m \in M : Mudar(m, libre, n) \in M
  PROVE  Mudanza(inicio, libre, n) \in M
<1> DEFINE H == [m \in M |-> Mudar(m, libre, n)]
<1>1. H \in [M -> M] /\ Bits \in Nat
  BY DialFSAssumption
<1>2. PICK g \in [0..Bits -> M] : g[0] = inicio /\ \A k \in 1..Bits : g[k] = H[g[k - 1]]
  <2>1. \E g : g \in Rondas(M, H, inicio, Bits)
    <3> HIDE DEF H
    <3>1. QED
      BY <1>1, Repetir
  <2>2. QED
    BY <2>1 DEF Rondas
<1> DEFINE Es(p) == p = [k \in 0..Bits |-> IF k = 0 THEN inicio ELSE Mudar(p[k - 1], libre, n)]
<1>3. Es(g)
  <2>1. ASSUME NEW k \in 0..Bits
        PROVE  g[k] = IF k = 0 THEN inicio ELSE Mudar(g[k - 1], libre, n)
    <3>1. CASE k = 0
      BY <1>2, <3>1
    <3>2. CASE k # 0
      <4>1. k \in 1..Bits /\ k - 1 \in 0..Bits
        BY <1>1, <3>2
      <4>2. g[k - 1] \in M /\ g[k] = H[g[k - 1]]
        BY <1>2, <4>1
      <4>3. QED
        BY <3>2, <4>2
    <3>3. QED
      BY <3>1, <3>2
  <2>2. QED
    BY <1>2, <2>1
<1> DEFINE p == CHOOSE pasos : Es(pasos)
<1>4. Mudanza(inicio, libre, n) = p[Bits]
  BY Zenon DEF Mudanza
<1>5. Es(p)
  <2> HIDE DEF Es
  <2>1. QED
    BY <1>3
<1> HIDE DEF p
<1>6. ASSUME NEW k \in 0..Bits
      PROVE  p[k] = IF k = 0 THEN inicio ELSE Mudar(p[k - 1], libre, n)
  BY <1>5
<1> HIDE DEF Es
<1> DEFINE Fuera == {k \in 0..Bits : p[k] \notin M}
<1>7. Fuera = {}
  <2>1. SUFFICES ASSUME Fuera # {} PROVE FALSE
    OBVIOUS
  <2>2. Fuera \subseteq Nat
    OBVIOUS
  <2>3. PICK k \in Fuera : \A j \in Fuera : k <= j
    <3> HIDE DEF Fuera
    <3>1. QED
      BY <2>1, <2>2, MenorNatural
  <2>4. k \in 0..Bits /\ k \in Nat /\ k # 0 /\ p[k] = Mudar(p[k - 1], libre, n)
    BY <1>6, <2>3
  <2>5. k - 1 \in 0..Bits /\ k - 1 \notin Fuera
    BY <1>1, <2>3, <2>4
  <2>6. p[k - 1] \in M
    BY <2>5
  <2>7. QED
    BY <2>3, <2>4, <2>6
<1>8. QED
  BY <1>1, <1>4, <1>7

-----------------------------------------------------------------------------
(***************************************************************************)
(* Types.                                                                  *)
(***************************************************************************)
Fichas   == [bloque : Nat, tam : Nat]
Directorios == [Nombres -> Fichas \cup {Nada}]

Escritos ==
    [tipo : {"usar", "liberar", "pisar"}, bloque : Nat]
    \cup [tipo : {"borrar"}, nombre : Nombres]
    \cup [tipo : {"metadata"}, nombre : Nombres, bloque : Nat, tam : Nat]
    \cup [tipo : {"copiar"}, desde : Nat, hasta : Nat, cant : Nat]
    \cup [tipo : {"escribir"}, nombre : Nombres, bloque : Nat, bloques : SUBSET Nat]

(* The writes of a request for n: the size of any other file stays.         *)
ConSuTam(x, t) == metadata[x] # Nada /\ metadata[x].tam = t

DePedido(n) ==
    {e \in Escritos : /\ e.tipo = "metadata" => e.nombre = n \/ ConSuTam(e.nombre, e.tam)
                      /\ e.tipo = "borrar" => e.nombre = n}

(* Those that neither make nor delete a file.                               *)
SobreLosQueHay(n) ==
    {e \in DePedido(n) : /\ e.tipo # "borrar"
                         /\ e.tipo = "metadata" => metadata[e.nombre] # Nada}

Planes == [nombre : Nombres \cup {Nada}, escrituras : Seq(Escritos), inocuo : BOOLEAN]

PlanBien ==
    /\ plan \in Planes
    /\ plan.escrituras \in Seq(DePedido(plan.nombre))
    /\ plan.escrituras = <<>> => plan = SinPlan

Tipos == TypeDialFS /\ PlanBien /\ IsFiniteSet(Existentes)

LEMMA EscritosTipo ==
  /\ \A b \in Nat : Usar(b) \in Escritos /\ Liberar(b) \in Escritos /\ Pisar(b) \in Escritos
  /\ \A n \in Nombres : Borrar(n) \in Escritos
  /\ \A n \in Nombres, b, t \in Nat : Metadata(n, b, t) \in Escritos
  /\ \A d, h, c \in Nat : Copiar(d, h, c) \in Escritos
  /\ \A n \in Nombres, b \in Nat, bs \in SUBSET Nat : Escribir(n, b, bs) \in Escritos
<1>1. /\ \A b \in Nat : Usar(b) \in Escritos /\ Liberar(b) \in Escritos /\ Pisar(b) \in Escritos
  BY DEF Escritos, Usar, Liberar, Pisar
<1>2. \A n \in Nombres : Borrar(n) \in Escritos
  BY DEF Escritos, Borrar
<1>3. \A n \in Nombres, b, t \in Nat : Metadata(n, b, t) \in Escritos
  BY DEF Escritos, Metadata
<1>4. \A d, h, c \in Nat : Copiar(d, h, c) \in Escritos
  BY DEF Escritos, Copiar
<1>5. \A n \in Nombres, b \in Nat, bs \in SUBSET Nat : Escribir(n, b, bs) \in Escritos
  BY DEF Escritos, Escribir
<1>6. QED
  BY <1>1, <1>2, <1>3, <1>4, <1>5

(* What the fields of a write are.                                          *)
LEMMA EscritosCampos ==
  ASSUME NEW e \in Escritos
  PROVE  /\ e.tipo \in {"usar", "liberar", "pisar", "borrar", "metadata", "copiar", "escribir"}
         /\ e.tipo \in {"usar", "liberar", "pisar", "metadata", "escribir"} => e.bloque \in Nat
         /\ e.tipo \in {"borrar", "metadata", "escribir"} => e.nombre \in Nombres
         /\ e.tipo = "metadata" => e.tam \in Nat
         /\ e.tipo = "copiar" => e.desde \in Nat /\ e.hasta \in Nat /\ e.cant \in Nat
         /\ e.tipo = "escribir" => e.bloques \subseteq Nat
  BY DEF Escritos

LEMMA Cociente ==
  ASSUME NEW a \in Nat, NEW n \in Nat \ {0}
  PROVE  /\ a \div n \in Nat /\ a % n \in 0..(n - 1)
         /\ a = n * (a \div n) + (a % n)
  OBVIOUS

LEMMA CocienteUnico ==
  ASSUME NEW m \in Nat \ {0}, NEW q \in Nat, NEW r \in Nat, r < m, NEW a \in Nat, a = m * q + r
  PROVE  a \div m = q
<1>1. PICK p \in Nat, s \in Nat : p = a \div m /\ s = a % m /\ s < m /\ a = m * p + s
  BY Cociente
<1>2. ASSUME NEW i \in Nat, NEW j \in Nat, NEW u \in Nat, NEW w \in Nat, u < m,
             m * i + u = m * j + w, i > j
      PROVE  w >= m
  <2>1. PICK k \in Nat : i = j + 1 + k
    <3>1. i - (j + 1) \in Nat /\ i = j + 1 + (i - (j + 1))
      BY <1>2
    <3>2. QED
      BY <3>1
  <2>2. m * i = m * j + m + m * k /\ m * k \in Nat
    BY <2>1
  <2>3. PICK mj \in Nat, mk \in Nat : mj = m * j /\ mk = m * k
    BY <2>2
  <2>4. mj + m + mk + u = mj + w
    BY <1>2, <2>2, <2>3
  <2>5. QED
    BY <2>4
<1>3. ~(p > q)
  <2>1. SUFFICES ASSUME p > q PROVE FALSE
    OBVIOUS
  <2>2. m * p + s = m * q + r
    BY <1>1
  <2>3. r >= m
    BY <1>1, <1>2, <2>1, <2>2
  <2>4. QED
    BY <2>3
<1>4. ~(q > p)
  <2>1. SUFFICES ASSUME q > p PROVE FALSE
    OBVIOUS
  <2>2. m * q + r = m * p + s
    BY <1>1
  <2>3. s >= m
    BY <1>1, <1>2, <2>1, <2>2
  <2>4. QED
    BY <1>1, <2>3
<1>5. QED
  BY <1>1, <1>3, <1>4

LEMMA RestoUnico ==
  ASSUME NEW m \in Nat \ {0}, NEW q \in Nat, NEW r \in Nat, r < m, NEW a \in Nat, a = m * q + r
  PROVE  a % m = r
<1>1. a \div m = q
  BY CocienteUnico
<1>2. PICK s \in Nat : s = a % m
  BY Cociente
<1>3. a = m * q + s
  BY <1>1, <1>2, Cociente
<1>4. PICK p \in Nat : p = m * q
  OBVIOUS
<1>5. s = r
  BY <1>3, <1>4
<1>6. QED
  BY <1>2, <1>5

LEMMA RestoDeMenor ==
  ASSUME NEW m \in Nat \ {0}, NEW a \in Nat, a < m
  PROVE  a % m = a
<1>1. a = m * 0 + a
  OBVIOUS
<1>2. QED
  BY <1>1, RestoUnico

-----------------------------------------------------------------------------
(***************************************************************************)
(* How many blocks a size takes.  It is what the code adds up in 32 bits,  *)
(* so the sizes whose sum does not wrap are told apart.                    *)
(***************************************************************************)
Justo(t) == t \in Nat /\ t + BlockSize - 1 < Ancho

LEMMA Medida ==
  BlockSize \in Nat \ {0} /\ BlockSize >= 2 /\ Ancho \in Nat \ {0} /\ BlockSize <= Ancho
  BY DialFSAssumption

LEMMA OcupaTipo ==
  ASSUME NEW t \in Nat
  PROVE  EnBloques(t) \in Nat /\ Ocupa(t) \in Nat /\ Abarca(t) \in Nat
<1>1. PICK a \in Nat : a = t + BlockSize - 1
  BY Medida
<1>2. PICK r \in Nat : r = a % Ancho
  BY Medida, Cociente
<1>3. a \div BlockSize \in Nat /\ r \div BlockSize \in Nat
  BY Medida, Cociente
<1>4. EnBloques(t) \in Nat
  BY <1>1, <1>2, <1>3 DEF EnBloques
<1>5. Abarca(t) \in Nat
  BY <1>1, <1>3 DEF Abarca
<1>6. QED
  BY <1>4, <1>5 DEF Ocupa

LEMMA JustoEs ==
  ASSUME NEW t, Justo(t)
  PROVE  /\ t \in Nat /\ EnBloques(t) = Abarca(t)
         /\ Ocupa(t) \in Nat /\ Ocupa(t) >= 1
<1>1. t \in Nat
  BY DEF Justo
<1>2. PICK a \in Nat : a = t + BlockSize - 1
  BY <1>1, Medida
<1>3. a < Ancho
  BY <1>2, Medida DEF Justo
<1>4. a % Ancho = a
  BY <1>3, Medida, RestoDeMenor
<1>5. EnBloques(t) = a \div BlockSize /\ Abarca(t) = a \div BlockSize
  BY <1>2, <1>4 DEF EnBloques, Abarca
<1>6. PICK q \in Nat, r \in Nat : q = a \div BlockSize /\ r < BlockSize /\ a = BlockSize * q + r
  <2>1. PICK q \in Nat : q = a \div BlockSize
    BY Medida, Cociente
  <2>2. PICK r \in 0..(BlockSize - 1) : r = a % BlockSize
    BY Medida, Cociente
  <2>3. a = BlockSize * q + r
    BY <2>1, <2>2, Medida, Cociente
  <2>4. r \in Nat /\ r < BlockSize
    BY <2>2, Medida
  <2>5. QED
    BY <2>1, <2>3, <2>4
<1>7. ASSUME t > 0 PROVE q >= 1
  <2>1. SUFFICES ASSUME q = 0 PROVE FALSE
    OBVIOUS
  <2>2. BlockSize * q = 0
    BY <2>1, Medida
  <2>3. QED
    BY <1>1, <1>2, <1>6, <1>7, <2>2, Medida
<1>8. QED
  BY <1>1, <1>5, <1>6, <1>7, OcupaTipo DEF Ocupa

LEMMA JustoPorBloques ==
  ASSUME NEW t \in Nat, t < Ancho, EnBloques(t) >= 1
  PROVE  Justo(t)
<1>1. PICK a \in Nat : a = t + BlockSize - 1
  BY Medida
<1>2. SUFFICES ASSUME a >= Ancho PROVE FALSE
  BY <1>1, Medida DEF Justo
<1>3. PICK r \in Nat : a = Ancho + r
  <2>1. a - Ancho \in Nat /\ a = Ancho + (a - Ancho)
    BY <1>2, Medida
  <2>2. QED
    BY <2>1
<1>4. r < BlockSize /\ r < Ancho
  BY <1>1, <1>3, Medida
<1>5. a = Ancho * 1 + r
  BY <1>3, Medida
<1>6. a % Ancho = r
  BY <1>4, <1>5, Medida, RestoUnico
<1>7. r = BlockSize * 0 + r
  BY Medida
<1>8. r \div BlockSize = 0
  BY <1>4, <1>7, Medida, CocienteUnico
<1>9. QED
  BY <1>1, <1>6, <1>8 DEF EnBloques

LEMMA EnBloquesDe ==
  /\ EnBloques(0) = 0 /\ Ocupa(0) = 1 /\ Justo(0)
  /\ \A t : Justo(t) /\ 0 < t /\ t < BlockSize => EnBloques(t) = 1 /\ Ocupa(t) = 1
  /\ \A t \in Nat : t > 0 => Ocupa(t) = EnBloques(t)
<1>1. BlockSize \in Nat \ {0}
  BY Medida
<1>2. Justo(0)
  BY Medida DEF Justo
<1>3. EnBloques(0) = 0
  <2>1. PICK r \in Nat : r = 0 + BlockSize - 1
    BY <1>1
  <2>2. r = BlockSize * 0 + r /\ r < BlockSize
    BY <1>1, <2>1
  <2>3. r \div BlockSize = 0
    BY <1>1, <2>2, CocienteUnico
  <2>4. EnBloques(0) = Abarca(0)
    BY <1>2, JustoEs
  <2>5. QED
    BY <2>1, <2>3, <2>4 DEF Abarca
<1>4. ASSUME NEW t, Justo(t), 0 < t, t < BlockSize PROVE EnBloques(t) = 1
  <2>1. t \in Nat /\ EnBloques(t) = Abarca(t)
    BY <1>4, JustoEs
  <2>2. PICK r \in Nat : r = t - 1
    BY <1>4, <2>1
  <2>3. PICK a \in Nat : a = t + BlockSize - 1
    BY <1>1, <2>1
  <2>4. a = BlockSize * 1 + r /\ r < BlockSize
    BY <1>1, <1>4, <2>1, <2>2, <2>3
  <2>5. a \div BlockSize = 1
    BY <1>1, <2>4, CocienteUnico
  <2>6. QED
    BY <2>1, <2>3, <2>5 DEF Abarca
<1>5. QED
  BY <1>2, <1>3, <1>4 DEF Ocupa

-----------------------------------------------------------------------------
LEMMA PrimerLibreTipo ==
  /\ PrimerBloqueLibre \in Bloques \cup {Nada}
  /\ PrimerBloqueLibre # Nada => PrimerBloqueLibre \notin bitmap
<1>1. CASE Bloques \ bitmap = {}
  BY <1>1 DEF PrimerBloqueLibre
<1>2. CASE Bloques \ bitmap # {}
  <2> DEFINE L == Bloques \ bitmap
  <2>1. L \subseteq Nat /\ L # {}
    BY <1>2 DEF Bloques
  <2>2. PrimerBloqueLibre = Min(L)
    BY <1>2 DEF PrimerBloqueLibre
  <2>3. \E n \in L : \A k \in L : n <= k
    <3> HIDE DEF L
    <3>1. QED
      BY <2>1, MenorNatural
  <2>4. Min(L) \in L
    <3> HIDE DEF L
    <3>1. QED
      BY <2>3 DEF Min
  <2>5. QED
    BY <2>2, <2>4
<1>3. QED
  BY <1>1, <1>2

LEMMA PorBloqueTipo ==
  ASSUME archivos \in Seq(Nombres), NEW md \in Directorios, NEW b \in Nat,
         PorBloqueInicial(md, b) # Nada
  PROVE  /\ PorBloqueInicial(md, b) \in Nombres
         /\ md[PorBloqueInicial(md, b)] # Nada
         /\ md[PorBloqueInicial(md, b)].bloque = b
<1> DEFINE S == {k \in DOMAIN archivos : md[archivos[k]] # Nada /\ md[archivos[k]].bloque = b}
<1>1. S # {} /\ PorBloqueInicial(md, b) = archivos[Min(S)]
  BY DEF PorBloqueInicial
<1>2. DOMAIN archivos = 1..Len(archivos) /\ Len(archivos) \in Nat
  BY LenProperties
<1>3. S \subseteq Nat
  BY <1>2
<1>4. \E n \in S : \A k \in S : n <= k
  <2> HIDE DEF S
  <2>1. QED
    BY <1>1, <1>3, MenorNatural
<1>5. Min(S) \in S
  <2> HIDE DEF S
  <2>1. QED
    BY <1>4 DEF Min
<1>6. Min(S) \in 1..Len(archivos) /\ md[archivos[Min(S)]] # Nada /\ md[archivos[Min(S)]].bloque = b
  BY <1>2, <1>5
<1>7. QED
  BY <1>1, <1>6, ElementOfSeq

-----------------------------------------------------------------------------
(***************************************************************************)
(* The compaction keeps the files that exist and their sizes.              *)
(***************************************************************************)
Mudas(E) == [ok : BOOLEAN, md : Directorios, escrituras : Seq(E), sig : Nat, pegar : Nat]

LosMismos(md) ==
    \A x \in Nombres : /\ md[x] = Nada <=> metadata[x] = Nada
                       /\ metadata[x] # Nada => md[x].tam = metadata[x].tam

LEMMA MudarBien ==
  ASSUME archivos \in Seq(Nombres), metadata \in Directorios, NEW n \in Existentes, NEW libre,
         NEW m \in Mudas(SobreLosQueHay(n)), LosMismos(m.md)
  PROVE  /\ Mudar(m, libre, n) \in Mudas(SobreLosQueHay(n))
         /\ LosMismos(Mudar(m, libre, n).md)
<1> DEFINE E == SobreLosQueHay(n)
           x == PorBloqueInicial(m.md, m.sig)
           tam == m.md[x].tam
<1>1. /\ m.ok \in BOOLEAN /\ m.md \in Directorios /\ m.escrituras \in Seq(E)
      /\ m.sig \in Nat /\ m.pegar \in Nat
  BY DEF Mudas
<1>2. CASE ~(m.ok /\ m.sig < libre)
  BY <1>2 DEF Mudar
<1>3. CASE m.ok /\ m.sig < libre /\ x = Nada
  <2>1. Mudar(m, libre, n) = [m EXCEPT !.ok = FALSE]
    BY <1>3 DEF Mudar, MoverBloquesArchivo
  <2>2. [m EXCEPT !.ok = FALSE] \in Mudas(E) /\ [m EXCEPT !.ok = FALSE].md = m.md
    BY DEF Mudas
  <2>3. QED
    BY <2>1, <2>2
<1>4. CASE m.ok /\ m.sig < libre /\ x # Nada
  <2>1. x \in Nombres /\ m.md[x] # Nada
    BY <1>1, <1>4, PorBloqueTipo
  <2>2. m.md[x] \in Fichas /\ tam \in Nat
    BY <1>1, <2>1 DEF Directorios, Fichas
  <2>3. metadata[x] # Nada /\ metadata[x].tam = tam
    BY <2>1 DEF LosMismos
  <2>4. Abarca(tam) \in Nat /\ Ocupa(tam) \in Nat
    BY <2>2, OcupaTipo
  <2> DEFINE f == [bloque |-> m.pegar, tam |-> tam]
             e1 == Copiar(m.sig, m.pegar, Abarca(tam))
             e2 == Metadata(x, m.pegar, tam)
             bien == Ocupa(tam) > 0
  <2>5. f \in Fichas /\ f # Nada /\ f.tam = tam
    BY <1>1, <2>2, DialFSAssumption DEF Fichas
  <2>6. [m.md EXCEPT ![x] = f] \in Directorios /\ LosMismos([m.md EXCEPT ![x] = f])
    <3> HIDE DEF f, tam, x
    <3>1. QED
      BY <1>1, <2>1, <2>3, <2>5 DEF Directorios, LosMismos
  <2>7. e1 \in E
    BY <1>1, <2>4, EscritosTipo DEF SobreLosQueHay, DePedido, Copiar
  <2>8. e2 \in E
    BY <1>1, <2>1, <2>2, <2>3, EscritosTipo DEF SobreLosQueHay, DePedido, ConSuTam, Metadata
  <2>9. m.escrituras \o <<e1, e2>> \in Seq(E)
    <3> HIDE DEF e1, e2, E
    <3>1. <<e1, e2>> \in Seq(E)
      BY <2>7, <2>8
    <3>2. QED
      BY <1>1, <3>1, ConcatProperties
  <2>10. Mudar(m, libre, n) = MoverBloquesArchivo(m, n)
    BY <1>4 DEF Mudar
  <2>11. Mudar(m, libre, n) = [ok |-> bien, md |-> [m.md EXCEPT ![x] = f],
                               escrituras |-> m.escrituras \o <<e1, e2>>,
                               sig |-> m.sig + Ocupa(tam), pegar |-> m.pegar + Ocupa(tam)]
    BY <1>4, <2>10 DEF MoverBloquesArchivo, TamanioDelMovido
  <2>12. bien \in BOOLEAN
    OBVIOUS
  <2> HIDE DEF f, e1, e2, x, tam, E, bien
  <2>13. QED
    BY <1>1, <2>4, <2>6, <2>9, <2>11, <2>12 DEF Mudas, E
<1>5. QED
  BY <1>2, <1>3, <1>4

LEMMA MudanzaBien ==
  ASSUME archivos \in Seq(Nombres), metadata \in Directorios, NEW n \in Existentes, NEW libre,
         NEW m \in Mudas(SobreLosQueHay(n)), LosMismos(m.md)
  PROVE  /\ Mudanza(m, libre, n) \in Mudas(SobreLosQueHay(n))
         /\ LosMismos(Mudanza(m, libre, n).md)
<1> DEFINE M == {k \in Mudas(SobreLosQueHay(n)) : LosMismos(k.md)}
<1>1. m \in M
  OBVIOUS
<1>2. \A k \in M : Mudar(k, libre, n) \in M
  BY MudarBien
<1>3. Mudanza(m, libre, n) \in M
  <2> HIDE DEF M
  <2>1. QED
    BY <1>1, <1>2, MudanzaGuarda
<1>4. QED
  BY <1>3

LEMMA CompactarBien ==
  ASSUME archivos \in Seq(Nombres), metadata \in Directorios, NEW n \in Existentes
  PROVE  /\ Compactar(n) \in Mudas(SobreLosQueHay(n))
         /\ LosMismos(Compactar(n).md)
<1> DEFINE E == SobreLosQueHay(n)
           tam == metadata[n].tam
           libre == PrimerBloqueLibre
           inicio == [ok |-> libre # Nada, md |-> metadata, escrituras |-> <<>>,
                      sig |-> PrimerBloqueSiguiente(metadata[n].bloque, tam),
                      pegar |-> metadata[n].bloque]
           fin == Mudanza(inicio, libre, n)
           cola == <<Pisar(fin.pegar), Metadata(n, fin.pegar, tam)>>
<1>1. n \in Nombres /\ metadata[n] # Nada /\ metadata[n] \in Fichas
      /\ metadata[n].bloque \in Nat /\ tam \in Nat
  BY DEF Existentes, Directorios, Fichas
<1>2. PrimerBloqueSiguiente(metadata[n].bloque, tam) \in Nat
  <2>1. tam \div BlockSize \in Nat
    <3> HIDE DEF tam
    <3>1. QED
      BY <1>1, Cociente, Medida
  <2> HIDE DEF tam
  <2>2. QED
    BY <1>1, <2>1 DEF PrimerBloqueSiguiente
<1>3. inicio \in Mudas(E) /\ LosMismos(inicio.md)
  BY <1>1, <1>2 DEF Mudas, LosMismos
<1>4. fin \in Mudas(E) /\ LosMismos(fin.md)
  <2> HIDE DEF inicio, libre
  <2>1. QED
    BY <1>3, MudanzaBien
<1>5. Compactar(n) = IF fin.ok THEN [fin EXCEPT !.escrituras = @ \o cola] ELSE fin
  BY Zenon DEF Compactar
<1>6. cola \in Seq(E)
  <2>1. fin.pegar \in Nat
    BY <1>4 DEF Mudas
  <2> HIDE DEF fin, tam
  <2>2. Pisar(fin.pegar) \in E
    BY <2>1, EscritosTipo DEF SobreLosQueHay, DePedido, Pisar
  <2>3. Metadata(n, fin.pegar, tam) \in E
    BY <1>1, <2>1, EscritosTipo DEF SobreLosQueHay, DePedido, Metadata
  <2> HIDE DEF E
  <2>4. QED
    BY <2>2, <2>3
<1> HIDE DEF fin, cola
<1>7. fin.escrituras \o cola \in Seq(E)
  <2>1. fin.escrituras \in Seq(E)
    BY <1>4 DEF Mudas
  <2> HIDE DEF E
  <2>2. QED
    BY <1>6, <2>1, ConcatProperties
<1>8. [fin EXCEPT !.escrituras = fin.escrituras \o cola] \in Mudas(E)
      /\ [fin EXCEPT !.escrituras = fin.escrituras \o cola].md = fin.md
  <2> HIDE DEF E
  <2>1. QED
    BY <1>4, <1>7 DEF Mudas
<1>9. QED
  BY <1>4, <1>5, <1>8

-----------------------------------------------------------------------------
(***************************************************************************)
(* The plans of the requests.                                              *)
(***************************************************************************)
LEMMA ListaDeFuncion ==
  ASSUME NEW S, NEW n \in Nat, NEW f \in [1..n -> S]
  PROVE  f \in Seq(S) /\ Len(f) = n /\ DOMAIN f = 1..n
  OBVIOUS

LEMMA ListaDe ==
  ASSUME NEW N \in Int, NEW S, NEW f, f = [k \in 1..N |-> f[k]], \A k \in 1..N : f[k] \in S
  PROVE  /\ f \in Seq(S)
         /\ Len(f) = IF N >= 0 THEN N ELSE 0
<1>1. PICK n \in Nat : n = IF N >= 0 THEN N ELSE 0
  OBVIOUS
<1>2. 1..N = 1..n
  BY <1>1
<1>3. f \in [1..n -> S]
  BY <1>2
<1>4. f \in Seq(S) /\ Len(f) = n
  BY <1>3, ListaDeFuncion
<1>5. QED
  BY <1>1, <1>4

LEMMA NuevosBien ==
  ASSUME NEW n \in Existentes, NEW inicial \in Nat, NEW viejos \in Nat, NEW t \in Nat
  PROVE  /\ Nuevos(inicial, viejos, t) \in Seq(SobreLosQueHay(n))
         /\ Len(Nuevos(inicial, viejos, t)) = IF EnBloques(t) >= viejos THEN EnBloques(t) - viejos ELSE 0
         /\ \A k \in 1..(EnBloques(t) - viejos) :
              Nuevos(inicial, viejos, t)[k] = Usar(inicial + viejos + k - 1)
<1> DEFINE f == Nuevos(inicial, viejos, t)
           N == EnBloques(t) - viejos
<1>1. N \in Int
  BY OcupaTipo
<1>2. f = [k \in 1..N |-> Usar(inicial + viejos + k - 1)]
  BY DEF Nuevos
<1>3. ASSUME NEW k \in 1..N PROVE Usar(inicial + viejos + k - 1) \in SobreLosQueHay(n)
  <2>1. inicial + viejos + k - 1 \in Nat
    BY <1>1
  <2>2. QED
    BY <2>1, EscritosTipo DEF SobreLosQueHay, DePedido, Usar
<1> HIDE DEF f, N
<1>4. \A k \in 1..N : f[k] = Usar(inicial + viejos + k - 1)
  BY <1>2
<1>5. f = [k \in 1..N |-> f[k]] /\ \A k \in 1..N : f[k] \in SobreLosQueHay(n)
  BY <1>2, <1>3
<1>6. f \in Seq(SobreLosQueHay(n)) /\ Len(f) = (IF N >= 0 THEN N ELSE 0)
  BY <1>1, <1>5, ListaDe
<1>7. EnBloques(t) \in Nat
  BY OcupaTipo
<1>8. QED
  BY <1>4, <1>6, <1>7 DEF f, N

(* The blocks that shrinking frees, from the last one down.                 *)
Liberados(inicial, viejos, t) ==
    [k \in 1..(viejos - EnBloques(t)) |-> Liberar(inicial + (viejos - k))]

LEMMA LiberadosBien ==
  ASSUME NEW n \in Existentes, NEW inicial \in Nat, NEW viejos \in Nat, NEW t \in Nat
  PROVE  /\ Liberados(inicial, viejos, t) \in Seq(SobreLosQueHay(n))
         /\ Len(Liberados(inicial, viejos, t)) = IF viejos >= EnBloques(t) THEN viejos - EnBloques(t) ELSE 0
         /\ \A k \in 1..(viejos - EnBloques(t)) :
              Liberados(inicial, viejos, t)[k] = Liberar(inicial + (viejos - k))
<1> DEFINE f == Liberados(inicial, viejos, t)
           N == viejos - EnBloques(t)
<1>1. N \in Int /\ EnBloques(t) \in Nat
  BY OcupaTipo
<1>2. f = [k \in 1..N |-> Liberar(inicial + (viejos - k))]
  BY DEF Liberados
<1>3. ASSUME NEW k \in 1..N PROVE Liberar(inicial + (viejos - k)) \in SobreLosQueHay(n)
  <2>1. inicial + (viejos - k) \in Nat
    BY <1>1
  <2>2. QED
    BY <2>1, EscritosTipo DEF SobreLosQueHay, DePedido, Liberar
<1> HIDE DEF f, N
<1>4. \A k \in 1..N : f[k] = Liberar(inicial + (viejos - k))
  BY <1>2
<1>5. f = [k \in 1..N |-> f[k]] /\ \A k \in 1..N : f[k] \in SobreLosQueHay(n)
  BY <1>2, <1>3
<1>6. f \in Seq(SobreLosQueHay(n)) /\ Len(f) = (IF N >= 0 THEN N ELSE 0)
  BY <1>1, <1>5, ListaDe
<1>7. QED
  BY <1>1, <1>4, <1>6 DEF f, N

LEMMA AchicarEs ==
  ASSUME archivos \in Seq(Nombres), metadata \in Directorios, NEW n \in Existentes, NEW t \in Nat
  PROVE  Achicar(n, t) =
           IF Compactar(n).ok
           THEN (Compactar(n).escrituras \o <<Metadata(n, Compactar(n).pegar, t)>>)
                  \o Liberados(Compactar(n).pegar, Ocupa(metadata[n].tam), t)
           ELSE Compactar(n).escrituras
<1> DEFINE v == Ocupa(metadata[n].tam)
           libera == Bajando(v - 1, EnBloques(t))
           p == Compactar(n).pegar
<1>1. v \in Nat /\ EnBloques(t) \in Nat
  BY OcupaTipo DEF Existentes, Directorios, Fichas
<1>2. libera = [k \in 1..(v - EnBloques(t)) |-> v - k]
  <2> HIDE DEF v
  <2>1. PICK w \in Nat, b \in Nat : w = v /\ b = EnBloques(t)
    BY <1>1
  <2>2. /\ ((w - 1) + 1) - b = w - b
        /\ \A k \in 1..(w - b) : ((w - 1) + 1) - k = w - k
    BY <2>1
  <2>3. Bajando(w - 1, b) = [k \in 1..(w - b) |-> w - k]
    BY <2>2 DEF Bajando
  <2>4. QED
    BY <2>1, <2>3
<1>3. [k \in DOMAIN libera |-> Liberar(p + libera[k])]
        = [k \in 1..(v - EnBloques(t)) |-> Liberar(p + (v - k))]
  <2> HIDE DEF v, libera, p
  <2>1. QED
    BY <1>2
<1>4. [k \in DOMAIN libera |-> Liberar(p + libera[k])] = Liberados(p, v, t)
  BY <1>3 DEF Liberados
<1> HIDE DEF p, v
<1>5. QED
  BY <1>4 DEF Achicar, p, v

LEMMA AchicarBien ==
  ASSUME archivos \in Seq(Nombres), metadata \in Directorios, NEW n \in Existentes, NEW t \in Nat
  PROVE  Achicar(n, t) \in Seq(SobreLosQueHay(n))
<1> DEFINE c == Compactar(n)
           E == SobreLosQueHay(n)
           v == Ocupa(metadata[n].tam)
           md == <<Metadata(n, c.pegar, t)>>
<1>1. c.escrituras \in Seq(E) /\ c.pegar \in Nat
  <2>1. c \in Mudas(E)
    BY CompactarBien
  <2> HIDE DEF c, E
  <2>2. QED
    BY <2>1 DEF Mudas
<1>2. v \in Nat /\ n \in Nombres /\ metadata[n] # Nada
  BY OcupaTipo DEF Existentes, Directorios, Fichas
<1>3. md \in Seq(E)
  <2>1. Metadata(n, c.pegar, t) \in E
    BY <1>1, <1>2, EscritosTipo DEF SobreLosQueHay, DePedido, Metadata
  <2> HIDE DEF E
  <2>2. QED
    BY <2>1
<1>4. Liberados(c.pegar, v, t) \in Seq(E)
  <2> HIDE DEF c, v
  <2>1. QED
    BY <1>1, <1>2, LiberadosBien
<1>5. (c.escrituras \o md) \o Liberados(c.pegar, v, t) \in Seq(E)
  <2> HIDE DEF E, c, v, md
  <2>1. QED
    BY <1>1, <1>3, <1>4, ConcatProperties
<1>6. QED
  BY <1>1, <1>5, AchicarEs

LEMMA AlLadoBien ==
  ASSUME archivos \in Seq(Nombres), metadata \in Directorios, NEW n \in Existentes, NEW t \in Nat
  PROVE  AgrandarAlLado(n, t) \in Seq(SobreLosQueHay(n))
<1> DEFINE E == SobreLosQueHay(n)
           i == metadata[n].bloque
           v == Ocupa(metadata[n].tam)
           md == <<Metadata(n, i, t)>>
<1>1. v \in Nat /\ i \in Nat /\ n \in Nombres /\ metadata[n] # Nada
  BY OcupaTipo DEF Existentes, Directorios, Fichas
<1>2. Nuevos(i, v, t) \in Seq(E)
  <2> HIDE DEF i, v
  <2>1. QED
    BY <1>1, NuevosBien
<1>3. md \in Seq(E)
  <2>1. Metadata(n, i, t) \in E
    BY <1>1, EscritosTipo DEF SobreLosQueHay, DePedido, Metadata
  <2> HIDE DEF E
  <2>2. QED
    BY <2>1
<1>4. Nuevos(i, v, t) \o md \in Seq(E)
  <2> HIDE DEF E, i, v, md
  <2>1. QED
    BY <1>2, <1>3, ConcatProperties
<1>5. QED
  BY <1>4 DEF AgrandarAlLado

LEMMA CompactandoBien ==
  ASSUME archivos \in Seq(Nombres), metadata \in Directorios, NEW n \in Existentes, NEW t \in Nat
  PROVE  AgrandarCompactando(n, t) \in Seq(SobreLosQueHay(n))
<1> DEFINE c == Compactar(n)
           E == SobreLosQueHay(n)
           v == Ocupa(metadata[n].tam)
           md == <<Metadata(n, c.pegar, t)>>
<1>1. c.escrituras \in Seq(E) /\ c.pegar \in Nat
  <2>1. c \in Mudas(E)
    BY CompactarBien
  <2> HIDE DEF c, E
  <2>2. QED
    BY <2>1 DEF Mudas
<1>2. v \in Nat /\ n \in Nombres /\ metadata[n] # Nada
  BY OcupaTipo DEF Existentes, Directorios, Fichas
<1>3. md \in Seq(E)
  <2>1. Metadata(n, c.pegar, t) \in E
    BY <1>1, <1>2, EscritosTipo DEF SobreLosQueHay, DePedido, Metadata
  <2> HIDE DEF E
  <2>2. QED
    BY <2>1
<1>4. Nuevos(c.pegar, v, t) \in Seq(E)
  <2> HIDE DEF c, v
  <2>1. QED
    BY <1>1, <1>2, NuevosBien
<1>5. (c.escrituras \o md) \o Nuevos(c.pegar, v, t) \in Seq(E)
  <2> HIDE DEF E, c, v, md
  <2>1. QED
    BY <1>1, <1>3, <1>4, ConcatProperties
<1>6. AgrandarCompactando(n, t) =
        IF c.ok THEN (c.escrituras \o md) \o Nuevos(c.pegar, v, t) ELSE c.escrituras
  BY Zenon DEF AgrandarCompactando
<1>7. QED
  BY <1>1, <1>5, <1>6

LEMMA DelPedido ==
  ASSUME NEW n, NEW E \in Seq(SobreLosQueHay(n))
  PROVE  E \in Seq(DePedido(n))
<1>1. SobreLosQueHay(n) \subseteq DePedido(n)
  BY DEF SobreLosQueHay
<1>2. QED
  BY <1>1, SeqMonotonic

LEMMA HacerBien ==
  ASSUME NEW n \in Nombres, NEW E \in Seq(DePedido(n)), NEW i \in BOOLEAN, NEW b,
         Hacer(n, E, i, b), metadata' = metadata
  PROVE  PlanBien'
<1>1. CASE E = <<>>
  <2>1. plan' = SinPlan
    BY <1>1 DEF Hacer
  <2>2. plan'.escrituras = <<>> /\ plan' \in Planes
    BY <2>1 DEF SinPlan, Planes
  <2>3. QED
    BY <2>1, <2>2 DEF PlanBien
<1>2. CASE E # <<>>
  <2>1. plan' = [nombre |-> n, escrituras |-> E, inocuo |-> i]
    BY <1>2 DEF Hacer
  <2>2. DePedido(n) \subseteq Escritos
    BY DEF DePedido
  <2>3. E \in Seq(Escritos)
    BY <2>2, SeqMonotonic
  <2>4. plan' \in Planes
    BY <2>1, <2>3 DEF Planes
  <2>5. plan'.nombre = n /\ plan'.escrituras = E
    BY <2>1
  <2>6. DePedido(n)' = DePedido(n)
    BY DEF DePedido, ConSuTam
  <2>7. QED
    BY <1>2, <2>4, <2>5, <2>6 DEF PlanBien
<1>3. QED
  BY <1>1, <1>2

LEMMA PedidoTipos ==
  ASSUME Tipos, Pedido, UNCHANGED disco, archivos' \in Seq(Nombres), PlanBien',
         escrito' \in [Nombres -> SUBSET Nat],
         caido' \in BOOLEAN, duplicado' \in BOOLEAN, sano' \in BOOLEAN
  PROVE  Tipos'
<1>1. UNCHANGED <<metadata, bitmap, bloques>>
  BY DEF disco
<1>2. pedidos' \in 0..MaxPedidos
  BY DialFSAssumption DEF Tipos, TypeDialFS, Pedido
<1>3. /\ plan'.nombre \in Nombres \cup {Nada} /\ plan'.inocuo \in BOOLEAN
      /\ plan'.escrituras \in Seq(Escritos)
  BY DEF PlanBien, Planes
<1>4. \A k \in DOMAIN plan'.escrituras :
        plan'.escrituras[k].tipo \in
          {"usar", "liberar", "borrar", "pisar", "metadata", "copiar", "escribir"}
  <2>1. ASSUME NEW k \in DOMAIN plan'.escrituras PROVE plan'.escrituras[k] \in Escritos
    BY <1>3
  <2>2. QED
    BY <2>1, EscritosCampos
<1>5. TypeDialFS'
  BY <1>1, <1>2, <1>3, <1>4 DEF Tipos, TypeDialFS
<1>6. IsFiniteSet(Existentes')
  <2>1. Existentes' = Existentes
    BY <1>1 DEF Existentes
  <2>2. QED
    BY <2>1 DEF Tipos
<1>7. QED
  BY <1>5, <1>6 DEF Tipos

LEMMA CrearTipos ==
  ASSUME Tipos, NEW n \in Nombres, CrearArchivo(n)
  PROVE  Tipos'
<1>1. Pedido /\ UNCHANGED disco /\ caido' \in BOOLEAN
  BY DEF CrearArchivo, Tipos, TypeDialFS
<1>2. UNCHANGED metadata
  BY <1>1 DEF disco
<1>3. /\ archivos \in Seq(Nombres) /\ escrito \in [Nombres -> SUBSET Nat]
      /\ duplicado \in BOOLEAN /\ sano \in BOOLEAN /\ PlanBien
  BY DEF Tipos, TypeDialFS
<1>4. CASE PrimerBloqueLibre = Nada
  <2>1. UNCHANGED <<plan, sano, archivos, escrito, duplicado>>
    BY <1>4 DEF CrearArchivo, NoHacer
  <2>2. PlanBien'
    BY <1>2, <1>3, <2>1 DEF PlanBien, DePedido, ConSuTam
  <2>3. QED
    BY <1>1, <1>3, <2>1, <2>2, PedidoTipos
<1>5. CASE PrimerBloqueLibre # Nada
  <2> DEFINE b == PrimerBloqueLibre
             E == <<Usar(b), Metadata(n, b, 0)>>
  <2>1. /\ archivos' = Append(archivos, n) /\ Hacer(n, E, TRUE, metadata[n] = Nada)
        /\ escrito' = [escrito EXCEPT ![n] = {}]
        /\ duplicado' = (duplicado \/ n \in ToSet(archivos))
    BY <1>5 DEF CrearArchivo
  <2>2. b \in Nat
    BY <1>5, PrimerLibreTipo DEF Bloques
  <2>3. Usar(b) \in DePedido(n) /\ Metadata(n, b, 0) \in DePedido(n)
    <3> HIDE DEF b
    <3>1. QED
      BY <2>2, EscritosTipo DEF DePedido, Usar, Metadata
  <2>4. E \in Seq(DePedido(n))
    <3>1. ASSUME NEW S, NEW x \in S, NEW y \in S PROVE <<x, y>> \in Seq(S)
      OBVIOUS
    <3>2. QED
      BY <2>3, <3>1
  <2>5. PlanBien'
    <3> HIDE DEF E
    <3>1. QED
      BY <1>2, <2>1, <2>4, HacerBien
  <2>6. sano' \in BOOLEAN
    BY <2>1 DEF Hacer
  <2>7. archivos' \in Seq(Nombres) /\ escrito' \in [Nombres -> SUBSET Nat] /\ duplicado' \in BOOLEAN
    BY <1>3, <2>1
  <2>8. QED
    BY <1>1, <2>5, <2>6, <2>7, PedidoTipos
<1>6. QED
  BY <1>4, <1>5

(* A request whose plan is E, for a file that is there.                     *)
LEMMA ConPlanTipos ==
  ASSUME Tipos, NEW n \in Nombres, Hay(n), Pedido, UNCHANGED <<archivos, disco, caido, duplicado>>,
         NEW E \in Seq(DePedido(n)), NEW i \in BOOLEAN, NEW b, Hacer(n, E, i, b),
         escrito' \in [Nombres -> SUBSET Nat]
  PROVE  Tipos'
<1>1. metadata' = metadata
  BY DEF disco
<1>2. PlanBien'
  BY <1>1, HacerBien
<1>3. sano' \in BOOLEAN
  BY DEF Hacer
<1>4. QED
  BY <1>2, <1>3, PedidoTipos DEF Tipos, TypeDialFS

LEMMA SinPlanTipos ==
  ASSUME Tipos, Pedido, UNCHANGED <<archivos, disco, duplicado, escrito>>, NoHacer,
         caido' \in BOOLEAN
  PROVE  Tipos'
<1>1. metadata' = metadata /\ plan' = plan /\ sano' = sano
  BY DEF disco, NoHacer
<1>2. PlanBien'
  BY <1>1 DEF Tipos, PlanBien, DePedido, ConSuTam
<1>3. QED
  BY <1>1, <1>2, PedidoTipos DEF Tipos, TypeDialFS

LEMMA HayEs ==
  ASSUME NEW n \in Nombres, Hay(n), metadata \in Directorios
  PROVE  /\ n \in Existentes
         /\ metadata[n] \in Fichas /\ metadata[n].bloque \in Nat /\ metadata[n].tam \in Nat
  BY DEF Hay, Existentes, Directorios, Fichas

LEMMA EscrituraBien ==
  ASSUME NEW n \in Nombres, Hay(n), metadata \in Directorios, NEW e \in Escrituras
  PROVE  LET primero == (metadata[n].bloque * BlockSize + e[1]) % Ancho
         IN  Escribir(n, metadata[n].bloque,
                      (primero \div BlockSize) .. ((primero + e[2] - 1) \div BlockSize)) \in Escritos
<1> DEFINE i == metadata[n].bloque
           p == e[1]
           l == e[2]
           primero == (i * BlockSize + p) % Ancho
           tocados == (primero \div BlockSize) .. ((primero + l - 1) \div BlockSize)
<1>1. BlockSize \in Nat \ {0} /\ Ancho \in Nat \ {0} /\ p \in Nat /\ i \in Nat
  BY DialFSAssumption, HayEs
<1>2. PICK a \in Nat : a = i * BlockSize + p
  BY <1>1
<1>3. a % Ancho \in Nat
  BY <1>1, Cociente
<1>4. primero \in Nat
  BY <1>2, <1>3
<1> HIDE DEF primero, l, i
<1>5. primero \div BlockSize \in Nat
  BY <1>1, <1>4, Cociente
<1>6. tocados \subseteq Nat
  BY <1>5
<1> HIDE DEF tocados
<1>7. Escribir(n, i, tocados) \in Escritos
  BY <1>1, <1>6, EscritosTipo
<1>8. QED
  BY <1>7 DEF tocados, primero, i, l

LEMMA PedirTipos ==
  ASSUME Tipos, Pedir
  PROVE  Tipos'
<1>1. PICK n \in Nombres :
        \/ LeerMetadataNula(n) \/ Fallar(n)
        \/ CrearArchivo(n) \/ EliminarArchivo(n)
        \/ \E t \in Tamanos :
             \/ TruncarMenos(n, t) \/ TruncarMas(n, t)
             \/ TruncarMasCompactando(n, t) \/ TruncarIgual(n, t)
        \/ \E e \in Escrituras : EscribirArchivo(n, e[1], e[2])
  BY DEF Pedir
<1>2. /\ archivos \in Seq(Nombres) /\ metadata \in Directorios
      /\ escrito \in [Nombres -> SUBSET Nat] /\ caido \in BOOLEAN
  BY DEF Tipos, TypeDialFS, Directorios, Fichas
<1>3. Tamanos \subseteq Nat /\ Escrituras \subseteq Nat \X (Nat \ {0})
  BY DialFSAssumption
<1>4. [escrito EXCEPT ![n] = {}] \in [Nombres -> SUBSET Nat]
  BY <1>2
<1>5. CASE LeerMetadataNula(n)
  <2>1. Pedido /\ UNCHANGED <<archivos, disco, duplicado, escrito>> /\ NoHacer /\ caido' \in BOOLEAN
    BY <1>5 DEF LeerMetadataNula, NoHacer
  <2>2. QED
    BY <2>1, SinPlanTipos
<1>6. CASE Fallar(n)
  <2>1. Pedido /\ UNCHANGED <<archivos, disco, duplicado, escrito>> /\ NoHacer /\ caido' \in BOOLEAN
    BY <1>2, <1>6 DEF Fallar, NoHacer
  <2>2. QED
    BY <2>1, SinPlanTipos
<1>7. CASE CrearArchivo(n)
  BY <1>7, CrearTipos
<1>8. CASE EliminarArchivo(n)
  <2>1. /\ Hay(n) /\ Pedido /\ UNCHANGED <<archivos, disco, caido, duplicado>>
        /\ escrito' = [escrito EXCEPT ![n] = {}]
    BY <1>8 DEF EliminarArchivo
  <2>2. n \in Existentes
    BY <1>2, <2>1, HayEs
  <2>3. Borrar(n) \in DePedido(n)
    BY EscritosTipo DEF DePedido, Borrar
  <2>4. <<Borrar(n)>> \in Seq(DePedido(n)) /\ <<>> \in Seq(DePedido(n))
    <3>1. ASSUME NEW S, NEW x \in S PROVE <<x>> \in Seq(S) /\ <<>> \in Seq(S)
      OBVIOUS
    <3>2. QED
      BY <2>3, <3>1
  <2>5. CASE metadata[n].tam = 0 \/ Ocupa(metadata[n].tam) = 0
    <3>1. Hacer(n, <<Borrar(n)>>, TRUE, TRUE)
      BY <1>8, <2>5 DEF EliminarArchivo
    <3>2. QED
      BY <1>4, <2>1, <2>4, <3>1, ConPlanTipos
  <2>6. CASE ~(metadata[n].tam = 0 \/ Ocupa(metadata[n].tam) = 0)
    <3> DEFINE c == Compactar(n)
               B == IF c.ok THEN <<Borrar(n)>> ELSE <<>>
               E == Achicar(n, 0) \o B
    <3>1. Hacer(n, E, FALSE, Compacta(n, c))
      BY <1>8, <2>6 DEF EliminarArchivo
    <3>2. Achicar(n, 0) \in Seq(DePedido(n))
      BY <1>2, <2>2, AchicarBien, DelPedido
    <3>3. B \in Seq(DePedido(n))
      BY <2>4
    <3>4. E \in Seq(DePedido(n))
      <4> HIDE DEF B
      <4>1. QED
        BY <3>2, <3>3, ConcatProperties
    <3> HIDE DEF E, c
    <3>5. QED
      BY <1>4, <2>1, <3>1, <3>4, ConPlanTipos
  <2>7. QED
    BY <2>5, <2>6
<1>9. ASSUME NEW t \in Tamanos, TruncarMenos(n, t) PROVE Tipos'
  <2>1. /\ Hay(n) /\ Pedido /\ UNCHANGED <<archivos, disco, caido, duplicado>>
        /\ escrito' = [escrito EXCEPT ![n] = {}] /\ t \in Nat
    BY <1>3, <1>9 DEF TruncarMenos
  <2>2. n \in Existentes
    BY <1>2, <2>1, HayEs
  <2>3. Achicar(n, t) \in Seq(DePedido(n))
    BY <1>2, <2>1, <2>2, AchicarBien, DelPedido
  <2> DEFINE i == ~Mueve(n, Compactar(n)) /\ EnBloques(t) > 0
             b == Compacta(n, Compactar(n)) /\ EnBloques(t) > 0
  <2>4. Hacer(n, Achicar(n, t), i, b)
    BY <1>9 DEF TruncarMenos
  <2>5. i \in BOOLEAN
    OBVIOUS
  <2> HIDE DEF i, b
  <2>6. QED
    BY <1>4, <2>1, <2>3, <2>4, <2>5, ConPlanTipos
<1>10. ASSUME NEW t \in Tamanos, TruncarMas(n, t) PROVE Tipos'
  <2>1. /\ Hay(n) /\ Pedido /\ UNCHANGED <<archivos, disco, caido, duplicado, escrito>> /\ t \in Nat
        /\ Hacer(n, AgrandarAlLado(n, t), TRUE, Siguientes(n, t) \subseteq Bloques)
    BY <1>3, <1>10 DEF TruncarMas
  <2>2. n \in Existentes
    BY <1>2, <2>1, HayEs
  <2>3. AgrandarAlLado(n, t) \in Seq(DePedido(n))
    BY <1>2, <2>1, <2>2, AlLadoBien, DelPedido
  <2>4. QED
    BY <1>2, <2>1, <2>3, ConPlanTipos
<1>11. ASSUME NEW t \in Tamanos, TruncarMasCompactando(n, t) PROVE Tipos'
  <2>1. /\ Hay(n) /\ Pedido /\ UNCHANGED <<archivos, disco, caido, duplicado>>
        /\ escrito' = [escrito EXCEPT ![n] = {}] /\ t \in Nat
    BY <1>3, <1>11 DEF TruncarMasCompactando
  <2>2. n \in Existentes
    BY <1>2, <2>1, HayEs
  <2>3. AgrandarCompactando(n, t) \in Seq(DePedido(n))
    BY <1>2, <2>1, <2>2, CompactandoBien, DelPedido
  <2> DEFINE b == Compacta(n, Compactar(n)) /\ (Compactar(n).ok =>
                    (Compactar(n).pegar + Ocupa(metadata[n].tam)) .. (Compactar(n).pegar + EnBloques(t) - 1)
                      \subseteq Bloques \ bitmap)
  <2>4. Hacer(n, AgrandarCompactando(n, t), FALSE, b)
    BY <1>11, Zenon DEF TruncarMasCompactando
  <2> HIDE DEF b
  <2>5. QED
    BY <1>4, <2>1, <2>3, <2>4, ConPlanTipos
<1>12. ASSUME NEW t \in Tamanos, TruncarIgual(n, t) PROVE Tipos'
  <2>1. /\ Hay(n) /\ Pedido /\ UNCHANGED <<archivos, disco, caido, duplicado, escrito>> /\ t \in Nat
    BY <1>3, <1>12 DEF TruncarIgual
  <2>2. metadata[n].bloque \in Nat
    BY <1>2, <2>1, HayEs
  <2>3. CASE t # metadata[n].tam /\ t < BlockSize /\ metadata[n].tam = 0
    <3> DEFINE E == <<Metadata(n, metadata[n].bloque, t)>>
    <3>1. Hacer(n, E, TRUE, TRUE)
      BY <1>12, <2>3 DEF TruncarIgual
    <3>2. Metadata(n, metadata[n].bloque, t) \in DePedido(n)
      BY <2>1, <2>2, EscritosTipo DEF DePedido, Metadata
    <3>3. E \in Seq(DePedido(n))
      <4>1. ASSUME NEW S, NEW x \in S PROVE <<x>> \in Seq(S)
        OBVIOUS
      <4>2. QED
        BY <3>2, <4>1
    <3> HIDE DEF E
    <3>4. QED
      BY <1>2, <2>1, <3>1, <3>3, ConPlanTipos
  <2>4. CASE ~(t # metadata[n].tam /\ t < BlockSize /\ metadata[n].tam = 0)
    <3>1. NoHacer /\ caido' \in BOOLEAN
      BY <1>2, <1>12, <2>1, <2>4 DEF TruncarIgual
    <3>2. QED
      BY <2>1, <3>1, SinPlanTipos
  <2>5. QED
    BY <2>3, <2>4
<1>13. ASSUME NEW e \in Escrituras, EscribirArchivo(n, e[1], e[2]) PROVE Tipos'
  <2> DEFINE p == e[1]
             l == e[2]
             i == metadata[n].bloque
             primero == (i * BlockSize + p) % Ancho
             tocados == (primero \div BlockSize) .. ((primero + l - 1) \div BlockSize)
             E == <<Escribir(n, i, tocados)>>
  <2>1. /\ Hay(n) /\ Pedido /\ UNCHANGED <<archivos, disco, caido, duplicado, escrito>>
        /\ p \in Nat /\ l \in Nat /\ l # 0
    BY <1>3, <1>13 DEF EscribirArchivo
  <2>2. i \in Nat
    BY <1>2, <2>1, HayEs
  <2>3. CASE EntraEnArchivo(n, p, l)
    <3>1. Hacer(n, E, TRUE, p + l < Ancho)
      BY <1>13, <2>3, Zenon DEF EscribirArchivo
    <3>3. Escribir(n, i, tocados) \in DePedido(n)
      <4>1. Escribir(n, i, tocados) \in Escritos
        BY <1>2, <1>3, <2>1, EscrituraBien
      <4>2. QED
        BY <4>1 DEF DePedido, Escribir
    <3>4. E \in Seq(DePedido(n))
      <4>1. ASSUME NEW S, NEW x \in S PROVE <<x>> \in Seq(S)
        OBVIOUS
      <4> HIDE DEF tocados, i
      <4>2. QED
        BY <3>3, <4>1
    <3> HIDE DEF E, p, l
    <3>5. QED
      BY <1>2, <2>1, <3>1, <3>4, ConPlanTipos
  <2>4. CASE ~EntraEnArchivo(n, p, l)
    <3>1. NoHacer /\ caido' \in BOOLEAN
      BY <1>2, <1>13, <2>1, <2>4, Zenon DEF EscribirArchivo
    <3>2. QED
      BY <2>1, <3>1, SinPlanTipos
  <2>5. QED
    BY <2>3, <2>4
<1>14. QED
  BY <1>1, <1>5, <1>6, <1>7, <1>8, <1>9, <1>10, <1>11, <1>12, <1>13

-----------------------------------------------------------------------------
(***************************************************************************)
(* One write to the disk.                                                  *)
(***************************************************************************)
LEMMA Cabeza ==
  ASSUME Tipos, plan.escrituras # <<>>
  PROVE  /\ plan.escrituras \in Seq(DePedido(plan.nombre))
         /\ Head(plan.escrituras) \in DePedido(plan.nombre)
         /\ Head(plan.escrituras) \in Escritos
         /\ Head(plan.escrituras) = plan.escrituras[1]
         /\ Len(plan.escrituras) \in Nat /\ Len(plan.escrituras) >= 1
         /\ Tail(plan.escrituras) \in Seq(DePedido(plan.nombre))
         /\ Len(Tail(plan.escrituras)) = Len(plan.escrituras) - 1
         /\ \A k \in 1..(Len(plan.escrituras) - 1) : Tail(plan.escrituras)[k] = plan.escrituras[k + 1]
         /\ Tail(plan.escrituras) = <<>> <=> Len(plan.escrituras) = 1
<1> DEFINE s == plan.escrituras
           S == DePedido(plan.nombre)
<1>1. s \in Seq(S) /\ s # <<>>
  BY DEF Tipos, PlanBien
<1>2. S \subseteq Escritos
  BY DEF DePedido
<1> HIDE DEF s, S
<1>3. /\ Len(s) \in Nat /\ Len(s) >= 1 /\ Head(s) = s[1] /\ Head(s) \in S /\ Tail(s) \in Seq(S)
      /\ Len(Tail(s)) = Len(s) - 1
      /\ \A k \in 1..(Len(s) - 1) : Tail(s)[k] = s[k + 1]
  BY <1>1, HeadTailProperties, EmptySeq
<1>4. Tail(s) = <<>> <=> Len(s) = 1
  <2>1. PICK t \in Seq(S) : t = Tail(s)
    BY <1>3
  <2>2. t = <<>> <=> Len(t) = 0
    BY EmptySeq
  <2>3. QED
    BY <1>3, <2>1, <2>2
<1>5. QED
  BY <1>1, <1>2, <1>3, <1>4 DEF s, S

LEMMA TrasUnaEscritura ==
  ASSUME Tipos, EscribirDisco, NEW e, e = Head(plan.escrituras)
  PROVE  /\ plan.escrituras # <<>>
         /\ bloques' = BloquesTras(e) /\ bitmap' = BitmapTras(e) /\ metadata' = MetadataTras(e)
         /\ archivos' = (IF e.tipo = "borrar" THEN ListRemoveElement(archivos, e.nombre) ELSE archivos)
         /\ escrito' = (IF e.tipo = "escribir"
                        THEN [escrito EXCEPT ![e.nombre] =
                                @ \cup {b - e.bloque : b \in {x \in e.bloques : x >= e.bloque}}]
                        ELSE escrito)
         /\ UNCHANGED <<caido, pedidos, duplicado, sano>>
         /\ Len(plan.escrituras) = 1 => plan' = SinPlan
         /\ Len(plan.escrituras) # 1 =>
              plan' = [nombre |-> plan.nombre, escrituras |-> Tail(plan.escrituras),
                       inocuo |-> plan.inocuo]
<1>1. /\ plan.escrituras # <<>>
      /\ bloques' = BloquesTras(e) /\ bitmap' = BitmapTras(e) /\ metadata' = MetadataTras(e)
      /\ archivos' = (IF e.tipo = "borrar" THEN ListRemoveElement(archivos, e.nombre) ELSE archivos)
      /\ escrito' = (IF e.tipo = "escribir"
                     THEN [escrito EXCEPT ![e.nombre] =
                             @ \cup {b - e.bloque : b \in {x \in e.bloques : x >= e.bloque}}]
                     ELSE escrito)
      /\ UNCHANGED <<caido, pedidos, duplicado, sano>>
      /\ plan' = IF Len(plan.escrituras) = 1 THEN SinPlan
                 ELSE [plan EXCEPT !.escrituras = Tail(@)]
  BY Zenon DEF EscribirDisco, SacarDeLaLista
<1>2. plan \in Planes
  BY DEF Tipos, PlanBien
<1>3. PICK t : t = Tail(plan.escrituras)
  OBVIOUS
<1>4. [plan EXCEPT !.escrituras = t]
        = [nombre |-> plan.nombre, escrituras |-> t, inocuo |-> plan.inocuo]
  BY <1>2 DEF Planes
<1>5. QED
  BY <1>1, <1>3, <1>4

(* A write keeps the size of every file but the one of the request.         *)
LEMMA TamanoQueda ==
  ASSUME Tipos, EscribirDisco, NEW x \in Nombres, x # plan.nombre, metadata[x] # Nada
  PROVE  metadata'[x] # Nada /\ metadata'[x].tam = metadata[x].tam
<1>1. PICK e : e = Head(plan.escrituras)
  OBVIOUS
<1>2. plan.escrituras # <<>> /\ metadata' = MetadataTras(e)
  BY <1>1, TrasUnaEscritura
<1>3. e \in DePedido(plan.nombre) /\ e \in Escritos
  BY <1>1, <1>2, Cabeza
<1>4. metadata \in Directorios
  BY DEF Tipos, TypeDialFS, Directorios, Fichas
<1>5. CASE e.tipo = "metadata"
  <2>1. e.nombre \in Nombres /\ e.bloque \in Nat /\ e.tam \in Nat
    BY <1>3, <1>5, EscritosCampos
  <2>2. metadata' = [metadata EXCEPT ![e.nombre] = [bloque |-> e.bloque, tam |-> e.tam]]
    BY <1>2, <1>5 DEF MetadataTras
  <2>3. CASE e.nombre = x
    <3>1. e.tam = metadata[x].tam
      BY <1>3, <1>5, <2>3 DEF DePedido, ConSuTam
    <3>2. [bloque |-> e.bloque, tam |-> e.tam] # Nada
      BY <2>1, DialFSAssumption
    <3>3. metadata'[x] = [bloque |-> e.bloque, tam |-> e.tam]
      BY <1>4, <2>2, <2>3 DEF Directorios
    <3>4. QED
      BY <3>1, <3>2, <3>3
  <2>4. CASE e.nombre # x
    BY <1>4, <2>2, <2>4 DEF Directorios
  <2>5. QED
    BY <2>3, <2>4
<1>6. CASE e.tipo = "borrar"
  <2>1. e.nombre = plan.nombre
    BY <1>3, <1>6 DEF DePedido
  <2>2. metadata' = [metadata EXCEPT ![e.nombre] = Nada]
    BY <1>2, <1>6 DEF MetadataTras
  <2>3. QED
    BY <1>4, <2>1, <2>2 DEF Directorios
<1>7. CASE e.tipo # "metadata" /\ e.tipo # "borrar"
  BY <1>2, <1>7 DEF MetadataTras
<1>8. QED
  BY <1>5, <1>6, <1>7

LEMMA EscribirTipos ==
  ASSUME Tipos, EscribirDisco
  PROVE  Tipos'
<1>1. PICK e : e = Head(plan.escrituras)
  OBVIOUS
<1>2. /\ plan.escrituras # <<>>
      /\ bloques' = BloquesTras(e) /\ bitmap' = BitmapTras(e) /\ metadata' = MetadataTras(e)
      /\ archivos' = (IF e.tipo = "borrar" THEN ListRemoveElement(archivos, e.nombre) ELSE archivos)
      /\ escrito' = (IF e.tipo = "escribir"
                     THEN [escrito EXCEPT ![e.nombre] =
                             @ \cup {b - e.bloque : b \in {x \in e.bloques : x >= e.bloque}}]
                     ELSE escrito)
      /\ UNCHANGED <<caido, pedidos, duplicado, sano>>
      /\ Len(plan.escrituras) = 1 => plan' = SinPlan
      /\ Len(plan.escrituras) # 1 =>
           plan' = [nombre |-> plan.nombre, escrituras |-> Tail(plan.escrituras),
                    inocuo |-> plan.inocuo]
  BY <1>1, TrasUnaEscritura
<1>3. e \in DePedido(plan.nombre) /\ e \in Escritos
  BY <1>1, <1>2, Cabeza
<1>4. /\ archivos \in Seq(Nombres) /\ metadata \in Directorios /\ bitmap \subseteq Bloques
      /\ bloques \in [Bloques -> (Nombres \X Nat) \cup {Basura}]
      /\ escrito \in [Nombres -> SUBSET Nat] /\ plan \in Planes
  BY DEF Tipos, TypeDialFS, Directorios, Fichas, PlanBien
<1>5. archivos' \in Seq(Nombres)
  BY <1>2, <1>4, ListRemoveElementTipo
<1>6. metadata' \in Directorios
  <2>1. CASE e.tipo = "metadata"
    <3>1. e.nombre \in Nombres /\ [bloque |-> e.bloque, tam |-> e.tam] \in Fichas
      BY <1>3, <2>1, EscritosCampos DEF Fichas
    <3>2. metadata' = [metadata EXCEPT ![e.nombre] = [bloque |-> e.bloque, tam |-> e.tam]]
      BY <1>2, <2>1 DEF MetadataTras
    <3>3. QED
      BY <1>4, <3>1, <3>2 DEF Directorios
  <2>2. CASE e.tipo # "metadata"
    BY <1>2, <1>4, <2>2 DEF MetadataTras, Directorios
  <2>3. QED
    BY <2>1, <2>2
<1>7. bitmap' \subseteq Bloques
  BY <1>2, <1>4 DEF BitmapTras
<1>8. bloques' \in [Bloques -> (Nombres \X Nat) \cup {Basura}]
  <2> DEFINE T == (Nombres \X Nat) \cup {Basura}
  <2>1. Basura \in T
    OBVIOUS
  <2>2. e.tipo = "escribir" => e.nombre \in Nombres /\ e.bloque \in Nat /\ e.bloques \subseteq Nat
    BY <1>3, EscritosCampos
  <2>3. ASSUME e.tipo = "escribir", NEW b \in Bloques, b >= e.bloque
        PROVE  <<e.nombre, b - e.bloque>> \in T
    <3>1. b \in Nat /\ e.bloque \in Nat
      BY <2>2, <2>3 DEF Bloques
    <3>2. b - e.bloque \in Nat
      BY <2>3, <3>1
    <3>3. QED
      BY <2>2, <2>3, <3>2
  <2>4. \A b \in Bloques : bloques[b] \in T
    BY <1>4
  <2> HIDE DEF T
  <2>5. ASSUME NEW b \in Bloques PROVE BloquesTras(e)[b] \in T
    BY <2>1, <2>3, <2>4 DEF BloquesTras
  <2>6. BloquesTras(e) = [b \in Bloques |-> BloquesTras(e)[b]]
    BY DEF BloquesTras
  <2>7. QED
    BY <1>2, <2>5, <2>6 DEF T
<1>9. escrito' \in [Nombres -> SUBSET Nat]
  <2>1. CASE e.tipo = "escribir"
    <3>1. e.nombre \in Nombres /\ e.bloque \in Nat /\ e.bloques \subseteq Nat
      BY <1>3, <2>1, EscritosCampos
    <3>2. {b - e.bloque : b \in {x \in e.bloques : x >= e.bloque}} \subseteq Nat
      BY <3>1
    <3>3. QED
      BY <1>2, <1>4, <2>1, <3>1, <3>2
  <2>2. CASE e.tipo # "escribir"
    BY <1>2, <1>4, <2>2
  <2>3. QED
    BY <2>1, <2>2
<1>10. PlanBien'
  <2>1. CASE Len(plan.escrituras) = 1
    <3>1. plan' = SinPlan
      BY <1>2, <2>1
    <3>2. plan'.escrituras = <<>> /\ plan' \in Planes
      BY <3>1 DEF SinPlan, Planes
    <3>3. QED
      BY <3>1, <3>2 DEF PlanBien
  <2>2. CASE Len(plan.escrituras) # 1
    <3> DEFINE n == plan.nombre
               t == Tail(plan.escrituras)
    <3>1. t \in Seq(DePedido(n)) /\ t # <<>>
      BY <1>2, <2>2, Cabeza
    <3>2. plan' = [nombre |-> n, escrituras |-> t, inocuo |-> plan.inocuo]
      BY <1>2, <2>2
    <3>3. /\ \A x \in Nombres : x # n /\ metadata[x] # Nada =>
               metadata'[x] # Nada /\ metadata'[x].tam = metadata[x].tam
      BY TamanoQueda
    <3>4. DePedido(n) \subseteq Escritos
      BY DEF DePedido
    <3>5. n' = n => TRUE
      OBVIOUS
    <3>6. PICK m : m = n
      OBVIOUS
    <3>7. DePedido(m) \subseteq DePedido(m)'
      <4>1. ASSUME NEW d \in DePedido(m) PROVE d \in DePedido(m)'
        <5>1. d \in Escritos /\ (d.tipo = "metadata" => d.nombre \in Nombres)
          BY <4>1, EscritosCampos DEF DePedido
        <5> HIDE DEF n
        <5>2. QED
          BY <3>3, <3>6, <4>1, <5>1 DEF DePedido, ConSuTam
      <4>2. QED
        BY <4>1
    <3> HIDE DEF n, t
    <3>8. t \in Seq(DePedido(m)) /\ t \in Seq(Escritos)
      BY <3>1, <3>4, <3>6, SeqMonotonic
    <3>9. t \in Seq(DePedido(m)')
      BY <3>7, <3>8, SeqMonotonic
    <3>10. plan'.nombre = m /\ plan'.escrituras = t
      BY <3>2, <3>6
    <3>11. plan' \in Planes
      <4>1. n \in Nombres \cup {Nada} /\ plan.inocuo \in BOOLEAN
        BY <1>4 DEF Planes, n
      <4>2. QED
        BY <3>2, <3>8, <4>1 DEF Planes
    <3>12. QED
      BY <3>1, <3>9, <3>10, <3>11 DEF PlanBien
  <2>3. QED
    BY <2>1, <2>2
<1>11. IsFiniteSet(Existentes')
  <2>1. Existentes' \subseteq Existentes \cup {e.nombre}
    BY <1>2, <1>4 DEF Existentes, MetadataTras, Directorios
  <2>2. IsFiniteSet(Existentes \cup {e.nombre})
    BY FS_AddElement DEF Tipos
  <2>3. QED
    BY <2>1, <2>2, FS_Subset
<1>12. \A k \in DOMAIN plan'.escrituras :
         plan'.escrituras[k].tipo \in
           {"usar", "liberar", "borrar", "pisar", "metadata", "copiar", "escribir"}
  <2>1. plan'.escrituras \in Seq(Escritos)
    BY <1>10 DEF PlanBien, Planes
  <2>2. ASSUME NEW k \in DOMAIN plan'.escrituras PROVE plan'.escrituras[k] \in Escritos
    BY <2>1
  <2>3. QED
    BY <2>2, EscritosCampos
<1>13. /\ plan'.nombre \in Nombres \cup {Nada} /\ plan'.inocuo \in BOOLEAN
  BY <1>10 DEF PlanBien, Planes
<1>14. /\ caido' \in BOOLEAN /\ pedidos' \in 0..MaxPedidos /\ duplicado' \in BOOLEAN
       /\ sano' \in BOOLEAN
  BY <1>2 DEF Tipos, TypeDialFS
<1>15. TypeDialFS'
  BY <1>5, <1>6, <1>7, <1>8, <1>9, <1>12, <1>13, <1>14 DEF TypeDialFS, Directorios, Fichas
<1>16. QED
  BY <1>10, <1>11, <1>15 DEF Tipos

LEMMA ReiniciarTipos ==
  ASSUME Tipos, Reiniciar
  PROVE  Tipos'
<1>1. /\ archivos' \in SetToSeqs(Existentes) /\ plan' = SinPlan /\ caido' = FALSE
      /\ duplicado' = FALSE /\ sano' = (sano /\ plan.inocuo)
      /\ UNCHANGED <<metadata, bitmap, bloques, pedidos, escrito>>
  BY DEF Reiniciar, disco, Existentes
<1>2. Cardinality(Existentes) \in Nat /\ Existentes \subseteq Nombres
  BY FS_CardinalityType DEF Tipos, Existentes
<1>3. archivos' \in Seq(Nombres)
  <2>1. archivos' \in [1..Cardinality(Existentes) -> Existentes]
    BY <1>1 DEF SetToSeqs
  <2> HIDE DEF Existentes
  <2>2. PICK N \in Nat : N = Cardinality(Existentes)
    BY <1>2
  <2>3. archivos' \in [1..N -> Nombres]
    BY <1>2, <2>1, <2>2
  <2>4. QED
    BY <2>3, ListaDeFuncion
<1>4. PlanBien'
  <2>1. plan'.escrituras = <<>> /\ plan' \in Planes
    BY <1>1 DEF SinPlan, Planes
  <2>2. QED
    BY <1>1, <2>1 DEF PlanBien
<1>5. IsFiniteSet(Existentes')
  <2>1. Existentes' = Existentes
    BY <1>1 DEF Existentes
  <2>2. QED
    BY <2>1 DEF Tipos
<1>6. TypeDialFS'
  <2>1. plan'.escrituras = <<>> /\ plan'.nombre = Nada /\ plan'.inocuo = TRUE
    BY <1>1 DEF SinPlan
  <2>2. \A k \in DOMAIN plan'.escrituras :
         plan'.escrituras[k].tipo \in
           {"usar", "liberar", "borrar", "pisar", "metadata", "copiar", "escribir"}
    BY <2>1
  <2>3. QED
    BY <1>1, <1>3, <2>1, <2>2 DEF Tipos, TypeDialFS
<1>7. QED
  BY <1>4, <1>5, <1>6 DEF Tipos

LEMMA TiposInvariante == Spec => []Tipos
<1>1. Init => Tipos
  <2>1. SUFFICES ASSUME Init PROVE Tipos
    OBVIOUS
  <2>2. Existentes = {}
    BY <2>1 DEF Init, Existentes
  <2>3. IsFiniteSet(Existentes)
    BY <2>2, FS_EmptySet
  <2>4. PlanBien
    BY <2>1 DEF Init, PlanBien, SinPlan, Planes
  <2>5. plan.escrituras = <<>> /\ plan.nombre = Nada /\ plan.inocuo = TRUE
    BY <2>1 DEF Init, SinPlan
  <2>6. \A k \in DOMAIN plan.escrituras :
          plan.escrituras[k].tipo \in
            {"usar", "liberar", "borrar", "pisar", "metadata", "copiar", "escribir"}
    BY <2>5
  <2>7. pedidos \in 0..MaxPedidos
    BY <2>1, DialFSAssumption DEF Init
  <2>8. TypeDialFS
    <3>1. archivos \in Seq(Nombres) /\ bitmap \subseteq Bloques
      BY <2>1 DEF Init
    <3>2. metadata \in [Nombres -> [bloque : Nat, tam : Nat] \cup {Nada}]
      BY <2>1 DEF Init
    <3>3. bloques \in [Bloques -> (Nombres \X Nat) \cup {Basura}]
      BY <2>1 DEF Init
    <3>4. escrito \in [Nombres -> SUBSET Nat]
      BY <2>1 DEF Init
    <3>5. {caido, duplicado, sano} \subseteq BOOLEAN
      BY <2>1 DEF Init
    <3>6. QED
      BY <2>5, <2>6, <2>7, <3>1, <3>2, <3>3, <3>4, <3>5 DEF TypeDialFS
  <2>9. QED
    BY <2>3, <2>4, <2>8 DEF Tipos
<1>2. ASSUME Tipos, [Next]_vars PROVE Tipos'
  <2>1. CASE Next
    BY <1>2, <2>1, PedirTipos, EscribirTipos, ReiniciarTipos DEF Next
  <2>2. CASE UNCHANGED vars
    BY <1>2, <2>2 DEF vars, disco, Tipos, TypeDialFS, PlanBien, DePedido, ConSuTam, Existentes
  <2>3. QED
    BY <1>2, <2>1, <2>2
<1>3. QED
  BY <1>1, <1>2, PTL DEF Spec

-----------------------------------------------------------------------------
(* Every variable keeps its type, for any number of files, blocks and       *)
(* requests, any sizes and any crash; in particular no bit past the end of  *)
(* the bitmap is ever set.                                                  *)
THEOREM TiposDeDialFS == Spec => []TypeDialFS
<1>1. Tipos => TypeDialFS
  BY DEF Tipos
<1>2. QED
  BY <1>1, TiposInvariante, PTL

(* A step changes the size of a file, or takes its metadata away, only for  *)
(* the request of that file, although a compaction writes the metadata of   *)
(* any number of others, before and after a crash and on a broken disk.     *)
THEOREM NadieCambiaElTamanioDeOtro == Spec => TamanosAjenos
<1> DEFINE Queda == \A n \in Existentes :
                      \/ n = plan.nombre
                      \/ metadata'[n] # Nada /\ metadata'[n].tam = metadata[n].tam
<1>1. ASSUME Tipos, [Next]_vars PROVE [Queda]_vars
  <2>1. CASE EscribirDisco
    BY <1>1, <2>1, TamanoQueda DEF Existentes
  <2>2. CASE metadata' = metadata
    BY <2>2 DEF Existentes
  <2>3. CASE Pedir
    <3>1. UNCHANGED disco
      BY <2>3, ZenonT(40) DEF Pedir, LeerMetadataNula, Fallar, CrearArchivo, EliminarArchivo, TruncarMenos,
                  TruncarMas, TruncarMasCompactando, TruncarIgual, EscribirArchivo
    <3>2. QED
      BY <2>2, <3>1 DEF disco
  <2>4. CASE Reiniciar
    BY <2>2, <2>4 DEF Reiniciar, disco
  <2>5. CASE UNCHANGED vars
    BY <2>5
  <2>6. QED
    BY <1>1, <2>1, <2>3, <2>4, <2>5 DEF Next
<1>2. QED
  BY <1>1, TiposInvariante, PTL DEF Spec, TamanosAjenos

-----------------------------------------------------------------------------
(***************************************************************************)
(* The list of files names those of the directory and those that a write   *)
(* still to be done makes, once each.                                      *)
(***************************************************************************)
Crea(E, x) == \E k \in DOMAIN E : E[k].tipo = "metadata" /\ E[k].nombre = x

BorraAlFinal(E) == \A k \in DOMAIN E : E[k].tipo = "borrar" => k = Len(E)

Listado ==
    /\ caido => duplicado
    /\ BorraAlFinal(plan.escrituras)
    /\ ~duplicado => \A x \in Nombres :
                       Veces(archivos, x) = Uno(x \in Existentes \/ Crea(plan.escrituras, x))

LEMMA SinEscrituras == \A x : ~Crea(<<>>, x)
  BY DEF Crea

LEMMA PlanVacio ==
  ASSUME Tipos, plan.escrituras = <<>>
  PROVE  plan = SinPlan
  BY DEF Tipos, PlanBien

(* A request that makes no file.                                            *)
LEMMA SinCrear ==
  ASSUME Tipos, Listado, plan = SinPlan, UNCHANGED <<archivos, disco, caido, duplicado>>,
         NEW n, NEW E \in Seq(Escritos), NEW i, NEW b, Hacer(n, E, i, b), BorraAlFinal(E),
         \A x \in Nombres : Crea(E, x) => x \in Existentes
  PROVE  Listado'
<1>1. plan'.escrituras = E
  BY DEF Hacer, SinPlan
<1>2. plan.escrituras = <<>>
  BY DEF SinPlan
<1>3. Existentes' = Existentes
  BY DEF disco, Existentes
<1>4. QED
  BY <1>1, <1>2, <1>3, SinEscrituras DEF Listado

LEMMA SobreLosQueHayBien ==
  ASSUME NEW n, NEW E \in Seq(SobreLosQueHay(n))
  PROVE  /\ E \in Seq(Escritos)
         /\ \A k \in DOMAIN E : E[k].tipo # "borrar"
         /\ \A x \in Nombres : Crea(E, x) => x \in Existentes
<1>1. SobreLosQueHay(n) \subseteq Escritos
  BY DEF SobreLosQueHay, DePedido
<1>2. E \in Seq(Escritos)
  BY <1>1, SeqMonotonic
<1>3. ASSUME NEW k \in DOMAIN E PROVE E[k] \in SobreLosQueHay(n)
  OBVIOUS
<1>4. QED
  BY <1>2, <1>3 DEF SobreLosQueHay, Crea, Existentes

LEMMA ConPlanListado ==
  ASSUME Tipos, Listado, plan = SinPlan, UNCHANGED <<archivos, disco, caido, duplicado>>,
         NEW n, NEW E \in Seq(SobreLosQueHay(n)), NEW i, NEW b, Hacer(n, E, i, b)
  PROVE  Listado'
<1>1. /\ E \in Seq(Escritos) /\ BorraAlFinal(E)
      /\ \A x \in Nombres : Crea(E, x) => x \in Existentes
  BY SobreLosQueHayBien DEF BorraAlFinal
<1>2. QED
  BY <1>1, SinCrear

LEMMA IgualListado ==
  ASSUME Listado, plan' = plan, UNCHANGED <<archivos, disco, caido, duplicado>>
  PROVE  Listado'
<1>1. Existentes' = Existentes
  BY DEF disco, Existentes
<1>2. QED
  BY <1>1 DEF Listado

LEMMA CrearListado ==
  ASSUME Tipos, Listado, NEW n \in Nombres, CrearArchivo(n)
  PROVE  Listado'
<1>1. plan = SinPlan /\ plan.escrituras = <<>> /\ ~caido /\ UNCHANGED <<disco, caido>>
  BY DEF CrearArchivo, Pedido, SinPlan
<1>2. Existentes' = Existentes
  BY <1>1 DEF disco, Existentes
<1>3. CASE PrimerBloqueLibre = Nada
  <2>1. UNCHANGED <<plan, archivos, duplicado>>
    BY <1>3 DEF CrearArchivo, NoHacer
  <2>2. QED
    BY <1>1, <2>1, IgualListado
<1>4. CASE PrimerBloqueLibre # Nada
  <2> DEFINE e1 == Usar(PrimerBloqueLibre)
             e2 == Metadata(n, PrimerBloqueLibre, 0)
  <2>1. /\ archivos' = Append(archivos, n) /\ Hacer(n, <<e1, e2>>, TRUE, metadata[n] = Nada)
        /\ duplicado' = (duplicado \/ n \in ToSet(archivos))
    BY <1>4 DEF CrearArchivo
  <2>2. plan'.escrituras = <<e1, e2>>
    BY <2>1 DEF Hacer
  <2>3. e1.tipo = "usar" /\ e2.tipo = "metadata" /\ e2.nombre = n
    BY DEF Usar, Metadata
  <2> HIDE DEF e1, e2
  <2>4. BorraAlFinal(<<e1, e2>>) /\ \A x : Crea(<<e1, e2>>, x) <=> x = n
    BY <2>3 DEF BorraAlFinal, Crea
  <2>5. ASSUME ~duplicado', NEW x \in Nombres
        PROVE  Veces(archivos', x) = Uno(x \in Existentes' \/ Crea(plan'.escrituras, x))
    <3>1. ~duplicado /\ n \notin Elementos(archivos)
      BY <2>1, <2>5 DEF ToSet, Elementos
    <3>2. archivos \in Seq(Nombres)
      BY DEF Tipos, TypeDialFS
    <3>3. Veces(archivos, n) = 0
      BY <3>1, <3>2, VecesCero
    <3>4. Veces(archivos, x) = Uno(x \in Existentes)
      BY <1>1, <3>1, SinEscrituras DEF Listado
    <3>5. Veces(archivos', x) = Veces(archivos, x) + Uno(n = x)
      BY <2>1, <3>2, VecesAlFinal
    <3>6. Veces(archivos, n) = Uno(n \in Existentes)
      BY <1>1, <3>1, SinEscrituras DEF Listado
    <3>7. n \notin Existentes
      BY <3>3, <3>6 DEF Uno
    <3>8. Crea(plan'.escrituras, x) <=> x = n
      BY <2>2, <2>4
    <3> HIDE DEF Existentes
    <3>9. QED
      BY <1>2, <3>4, <3>5, <3>7, <3>8 DEF Uno
  <2>6. caido' => duplicado'
    BY <1>1
  <2>7. QED
    BY <2>2, <2>4, <2>5, <2>6 DEF Listado
<1>5. QED
  BY <1>3, <1>4

LEMMA PedirListado ==
  ASSUME Tipos, Listado, Pedir
  PROVE  Listado'
<1>1. PICK n \in Nombres :
        \/ LeerMetadataNula(n) \/ Fallar(n)
        \/ CrearArchivo(n) \/ EliminarArchivo(n)
        \/ \E t \in Tamanos :
             \/ TruncarMenos(n, t) \/ TruncarMas(n, t)
             \/ TruncarMasCompactando(n, t) \/ TruncarIgual(n, t)
        \/ \E e \in Escrituras : EscribirArchivo(n, e[1], e[2])
  BY DEF Pedir
<1>2. /\ archivos \in Seq(Nombres) /\ metadata \in Directorios
  BY DEF Tipos, TypeDialFS, Directorios, Fichas
<1>3. Tamanos \subseteq Nat /\ Escrituras \subseteq Nat \X (Nat \ {0})
  BY DialFSAssumption
<1>4. Pedido => plan = SinPlan /\ plan.escrituras = <<>>
  BY DEF Pedido, SinPlan
<1>5. CASE LeerMetadataNula(n)
  <2>1. /\ n \in Elementos(archivos) /\ metadata[n] = Nada /\ plan.escrituras = <<>>
        /\ UNCHANGED <<archivos, disco, plan, duplicado>>
    BY <1>4, <1>5 DEF LeerMetadataNula, ToSet, Elementos
  <2>2. n \notin Existentes /\ Existentes' = Existentes
    BY <2>1 DEF Existentes, disco
  <2>3. Veces(archivos, n) # 0
    BY <1>2, <2>1, VecesCero
  <2>4. duplicado
    BY <2>1, <2>2, <2>3, SinEscrituras DEF Listado, Uno
  <2>5. QED
    BY <2>1, <2>4 DEF Listado
<1>6. CASE Fallar(n)
  <2>1. UNCHANGED <<archivos, disco, plan, caido, duplicado>>
    BY <1>6 DEF Fallar
  <2>2. QED
    BY <2>1, IgualListado
<1>7. CASE CrearArchivo(n)
  BY <1>7, CrearListado
<1>8. CASE EliminarArchivo(n)
  <2>1. /\ Hay(n) /\ plan = SinPlan /\ UNCHANGED <<archivos, disco, caido, duplicado>>
    BY <1>4, <1>8 DEF EliminarArchivo
  <2>2. n \in Existentes
    BY <1>2, <2>1, HayEs
  <2>3. Borrar(n) \in Escritos /\ Borrar(n).tipo = "borrar"
    BY EscritosTipo DEF Borrar
  <2> DEFINE B == <<Borrar(n)>>
  <2>4. B \in Seq(Escritos) /\ Len(B) = 1 /\ B[1].tipo = "borrar"
    <3>1. PICK r : r = Borrar(n)
      OBVIOUS
    <3>2. <<r>> \in Seq(Escritos) /\ Len(<<r>>) = 1 /\ <<r>>[1] = r
      BY <2>3, <3>1
    <3>3. QED
      BY <2>3, <3>1, <3>2
  <2>5. CASE metadata[n].tam = 0 \/ Ocupa(metadata[n].tam) = 0
    <3>1. Hacer(n, B, TRUE, TRUE)
      BY <1>8, <2>5 DEF EliminarArchivo
    <3> HIDE DEF B
    <3>2. DOMAIN B = 1..1
      BY <2>4
    <3>3. BorraAlFinal(B) /\ \A x : ~Crea(B, x)
      BY <2>4, <3>2 DEF BorraAlFinal, Crea
    <3>4. QED
      BY <2>1, <2>4, <3>1, <3>3, SinCrear
  <2>6. CASE ~(metadata[n].tam = 0 \/ Ocupa(metadata[n].tam) = 0)
    <3> DEFINE c == Compactar(n)
               A == Achicar(n, 0)
               f == Compacta(n, c)
    <3>1. Hacer(n, A \o (IF c.ok THEN B ELSE <<>>), FALSE, f)
      BY <1>8, <2>6 DEF EliminarArchivo
    <3>2. A \in Seq(SobreLosQueHay(n))
      BY <1>2, <2>2, AchicarBien
    <3>3. /\ A \in Seq(Escritos) /\ \A k \in DOMAIN A : A[k].tipo # "borrar"
          /\ \A x \in Nombres : Crea(A, x) => x \in Existentes
      <4> HIDE DEF A
      <4>1. QED
        BY <3>2, SobreLosQueHayBien
    <3> HIDE DEF A, B, f
    <3>4. CASE ~c.ok
      <4>1. A \o <<>> = A
        BY <3>3
      <4>2. Hacer(n, A, FALSE, f)
        BY <3>1, <3>4, <4>1
      <4>3. QED
        BY <2>1, <3>2, <4>2, ConPlanListado
    <3>5. CASE c.ok
      <4>1. PICK E : E = A \o B
        OBVIOUS
      <4>2. Hacer(n, E, FALSE, f)
        BY <3>1, <3>5, <4>1
      <4>3. /\ E \in Seq(Escritos) /\ Len(E) = Len(A) + 1 /\ Len(A) \in Nat
            /\ \A k \in 1..(Len(A) + 1) : E[k] = IF k <= Len(A) THEN A[k] ELSE B[k - Len(A)]
        <5>1. /\ A \o B \in Seq(Escritos) /\ Len(A \o B) = Len(A) + Len(B)
              /\ \A k \in 1..(Len(A) + Len(B)) :
                   (A \o B)[k] = IF k <= Len(A) THEN A[k] ELSE B[k - Len(A)]
          BY <2>4, <3>3, ConcatProperties
        <5>2. QED
          BY <2>4, <3>3, <4>1, <5>1
      <4>4. DOMAIN A = 1..Len(A) /\ DOMAIN E = 1..(Len(A) + 1)
        BY <3>3, <4>3
      <4>5. ASSUME NEW k \in DOMAIN E
            PROVE  \/ k \in DOMAIN A /\ E[k] = A[k]
                   \/ k = Len(E) /\ E[k].tipo = "borrar"
        <5>1. CASE k <= Len(A)
          BY <4>3, <4>4, <5>1
        <5>2. CASE ~(k <= Len(A))
          <6>1. k = Len(A) + 1 /\ k - Len(A) = 1
            BY <4>3, <4>4, <5>2
          <6>2. QED
            BY <2>4, <4>3, <4>4, <5>2, <6>1
        <5>3. QED
          BY <5>1, <5>2
      <4>6. BorraAlFinal(E)
        BY <3>3, <4>5 DEF BorraAlFinal
      <4>7. \A x \in Nombres : Crea(E, x) => x \in Existentes
        <5>1. ASSUME NEW x \in Nombres, Crea(E, x) PROVE Crea(A, x)
          BY <4>5, <5>1 DEF Crea
        <5>2. QED
          BY <3>3, <5>1
      <4>8. QED
        BY <2>1, <4>2, <4>3, <4>6, <4>7, SinCrear
    <3>6. QED
      BY <3>4, <3>5
  <2>7. QED
    BY <2>5, <2>6
<1>9. ASSUME NEW t \in Tamanos, TruncarMenos(n, t) PROVE Listado'
  <2>1. /\ Hay(n) /\ plan = SinPlan /\ UNCHANGED <<archivos, disco, caido, duplicado>> /\ t \in Nat
    BY <1>3, <1>4, <1>9 DEF TruncarMenos
  <2>2. n \in Existentes
    BY <1>2, <2>1, HayEs
  <2>3. Achicar(n, t) \in Seq(SobreLosQueHay(n))
    BY <1>2, <2>1, <2>2, AchicarBien
  <2> DEFINE i == ~Mueve(n, Compactar(n)) /\ EnBloques(t) > 0
             b == Compacta(n, Compactar(n)) /\ EnBloques(t) > 0
  <2>4. Hacer(n, Achicar(n, t), i, b)
    BY <1>9 DEF TruncarMenos
  <2> HIDE DEF i, b
  <2>5. QED
    BY <2>1, <2>3, <2>4, ConPlanListado
<1>10. ASSUME NEW t \in Tamanos, TruncarMas(n, t) PROVE Listado'
  <2>1. /\ Hay(n) /\ plan = SinPlan /\ UNCHANGED <<archivos, disco, caido, duplicado>> /\ t \in Nat
        /\ Hacer(n, AgrandarAlLado(n, t), TRUE, Siguientes(n, t) \subseteq Bloques)
    BY <1>3, <1>4, <1>10 DEF TruncarMas
  <2>2. n \in Existentes
    BY <1>2, <2>1, HayEs
  <2>3. AgrandarAlLado(n, t) \in Seq(SobreLosQueHay(n))
    BY <1>2, <2>1, <2>2, AlLadoBien
  <2>4. QED
    BY <2>1, <2>3, ConPlanListado
<1>11. ASSUME NEW t \in Tamanos, TruncarMasCompactando(n, t) PROVE Listado'
  <2>1. /\ Hay(n) /\ plan = SinPlan /\ UNCHANGED <<archivos, disco, caido, duplicado>> /\ t \in Nat
    BY <1>3, <1>4, <1>11 DEF TruncarMasCompactando
  <2>2. n \in Existentes
    BY <1>2, <2>1, HayEs
  <2>3. AgrandarCompactando(n, t) \in Seq(SobreLosQueHay(n))
    BY <1>2, <2>1, <2>2, CompactandoBien
  <2> DEFINE b == Compacta(n, Compactar(n)) /\ (Compactar(n).ok =>
                    (Compactar(n).pegar + Ocupa(metadata[n].tam)) .. (Compactar(n).pegar + EnBloques(t) - 1)
                      \subseteq Bloques \ bitmap)
  <2>4. Hacer(n, AgrandarCompactando(n, t), FALSE, b)
    BY <1>11, Zenon DEF TruncarMasCompactando
  <2> HIDE DEF b
  <2>5. QED
    BY <2>1, <2>3, <2>4, ConPlanListado
<1>12. ASSUME NEW t \in Tamanos, TruncarIgual(n, t) PROVE Listado'
  <2>1. /\ Hay(n) /\ plan = SinPlan /\ UNCHANGED <<archivos, disco, caido, duplicado>> /\ t \in Nat
    BY <1>3, <1>4, <1>12 DEF TruncarIgual
  <2>2. metadata[n].bloque \in Nat /\ metadata[n] # Nada
    BY <1>2, <2>1, HayEs DEF Hay
  <2>3. CASE t # metadata[n].tam /\ t < BlockSize /\ metadata[n].tam = 0
    <3> DEFINE E == <<Metadata(n, metadata[n].bloque, t)>>
    <3>1. Hacer(n, E, TRUE, TRUE)
      BY <1>12, <2>3 DEF TruncarIgual
    <3>2. Metadata(n, metadata[n].bloque, t) \in SobreLosQueHay(n)
      BY <2>1, <2>2, EscritosTipo DEF SobreLosQueHay, DePedido, Metadata
    <3>3. E \in Seq(SobreLosQueHay(n))
      <4>1. ASSUME NEW S, NEW x \in S PROVE <<x>> \in Seq(S)
        OBVIOUS
      <4>2. QED
        BY <3>2, <4>1
    <3> HIDE DEF E
    <3>4. QED
      BY <2>1, <3>1, <3>3, ConPlanListado
  <2>4. CASE ~(t # metadata[n].tam /\ t < BlockSize /\ metadata[n].tam = 0)
    <3>1. NoHacer
      BY <1>12, <2>4 DEF TruncarIgual
    <3>2. QED
      BY <2>1, <3>1, IgualListado DEF NoHacer
  <2>5. QED
    BY <2>3, <2>4
<1>13. ASSUME NEW e \in Escrituras, EscribirArchivo(n, e[1], e[2]) PROVE Listado'
  <2> DEFINE p == e[1]
             l == e[2]
             i == metadata[n].bloque
             primero == (i * BlockSize + p) % Ancho
             tocados == (primero \div BlockSize) .. ((primero + l - 1) \div BlockSize)
             d == Escribir(n, i, tocados)
             E == <<d>>
  <2>1. plan = SinPlan /\ UNCHANGED <<archivos, disco, caido, duplicado>>
    BY <1>4, <1>13 DEF EscribirArchivo
  <2>2. CASE EntraEnArchivo(n, p, l)
    <3>1. Hacer(n, E, TRUE, p + l < Ancho)
      BY <1>13, <2>2, Zenon DEF EscribirArchivo
    <3>2. d \in Escritos /\ d.tipo = "escribir"
      <4>1. d \in Escritos
        BY <1>2, <1>3, <1>13, EscrituraBien DEF EscribirArchivo
      <4>2. QED
        BY <4>1 DEF Escribir
    <3> HIDE DEF d
    <3>3. E \in Seq(Escritos) /\ DOMAIN E = 1..1 /\ E[1] = d
      BY <3>2
    <3> HIDE DEF E, p, l
    <3>4. BorraAlFinal(E) /\ \A x : ~Crea(E, x)
      BY <3>2, <3>3 DEF BorraAlFinal, Crea
    <3>5. QED
      BY <2>1, <3>1, <3>3, <3>4, SinCrear
  <2>3. CASE ~EntraEnArchivo(n, p, l)
    <3>1. NoHacer
      BY <1>13, <2>3, Zenon DEF EscribirArchivo
    <3>2. QED
      BY <2>1, <3>1, IgualListado DEF NoHacer
  <2>4. QED
    BY <2>2, <2>3
<1>14. QED
  BY <1>1, <1>5, <1>6, <1>7, <1>8, <1>9, <1>10, <1>11, <1>12, <1>13

(* What a write other than a deletion leaves to be made and to be there.    *)
LEMMA EscribirListado ==
  ASSUME Tipos, Listado, EscribirDisco
  PROVE  Listado'
<1>1. PICK e : e = Head(plan.escrituras)
  OBVIOUS
<1>2. PICK E : E = plan.escrituras
  OBVIOUS
<1>3. /\ E # <<>> /\ metadata' = MetadataTras(e)
      /\ archivos' = (IF e.tipo = "borrar" THEN ListRemoveElement(archivos, e.nombre) ELSE archivos)
      /\ UNCHANGED <<caido, duplicado>>
      /\ Len(E) = 1 => plan' = SinPlan
      /\ Len(E) # 1 => plan' = [nombre |-> plan.nombre, escrituras |-> Tail(E),
                                inocuo |-> plan.inocuo]
  BY <1>1, <1>2, TrasUnaEscritura
<1>4. /\ e \in Escritos /\ e = E[1] /\ E \in Seq(Escritos)
      /\ Len(E) \in Nat /\ Len(E) >= 1
      /\ Len(Tail(E)) = Len(E) - 1 /\ Tail(E) \in Seq(DePedido(plan.nombre))
      /\ \A k \in 1..(Len(E) - 1) : Tail(E)[k] = E[k + 1]
      /\ Tail(E) = <<>> <=> Len(E) = 1
  <2>1. E \in Seq(Escritos)
    BY <1>2 DEF Tipos, PlanBien, Planes
  <2>2. QED
    BY <1>1, <1>2, <1>3, <2>1, Cabeza
<1>5. PICK T : T = plan'.escrituras
  OBVIOUS
<1>6. T = Tail(E)
  <2>1. CASE Len(E) = 1
    <3>1. plan' = SinPlan /\ Tail(E) = <<>>
      BY <1>3, <1>4, <2>1
    <3>2. plan'.escrituras = <<>>
      BY <3>1 DEF SinPlan
    <3>3. QED
      BY <1>5, <3>1, <3>2
  <2>2. CASE Len(E) # 1
    BY <1>3, <1>5, <2>2
  <2>3. QED
    BY <2>1, <2>2
<1>7. DOMAIN E = 1..Len(E) /\ DOMAIN T = 1..(Len(E) - 1)
  BY <1>4, <1>6
<1>8. BorraAlFinal(T)
  <2>1. ASSUME NEW k \in DOMAIN T, T[k].tipo = "borrar" PROVE k = Len(T)
    <3>1. k + 1 \in DOMAIN E /\ E[k + 1].tipo = "borrar"
      BY <1>4, <1>6, <1>7, <2>1
    <3>2. k + 1 = Len(E)
      BY <1>2, <3>1 DEF Listado, BorraAlFinal
    <3>3. QED
      BY <1>4, <1>6, <1>7, <3>2
  <2>2. QED
    BY <2>1 DEF BorraAlFinal
<1>9. ASSUME NEW x
      PROVE  Crea(E, x) <=> (e.tipo = "metadata" /\ e.nombre = x) \/ Crea(T, x)
  <2>1. ASSUME NEW k \in DOMAIN T PROVE k + 1 \in DOMAIN E /\ T[k] = E[k + 1]
    BY <1>4, <1>6, <1>7, <2>1
  <2>2. ASSUME NEW k \in DOMAIN E, k # 1 PROVE k - 1 \in DOMAIN T /\ T[k - 1] = E[k]
    <3>1. k - 1 \in 1..(Len(E) - 1) /\ (k - 1) + 1 = k
      BY <1>4, <1>7, <2>2
    <3>2. QED
      BY <1>4, <1>6, <1>7, <3>1
  <2>3. 1 \in DOMAIN E
    BY <1>4, <1>7
  <2>4. QED
    BY <1>4, <2>1, <2>2, <2>3 DEF Crea
<1>10. archivos \in Seq(Nombres) /\ metadata \in Directorios
  BY DEF Tipos, TypeDialFS, Directorios, Fichas
<1>11. e.tipo \in {"borrar", "metadata"} => e.nombre \in Nombres
  BY <1>4, EscritosCampos
<1>12. ASSUME ~duplicado', NEW x \in Nombres
       PROVE  Veces(archivos', x) = Uno(x \in Existentes' \/ Crea(T, x))
  <2>1. ASSUME NEW y \in Nombres PROVE Veces(archivos, y) = Uno(y \in Existentes \/ Crea(E, y))
    BY <1>2, <1>3, <1>12 DEF Listado
  <2>2. CASE e.tipo = "borrar"
    <3>1. Len(E) = 1 /\ T = <<>>
      <4>1. 1 \in DOMAIN E
        BY <1>4, <1>7
      <4>2. 1 = Len(E)
        BY <1>2, <1>4, <2>2, <4>1 DEF Listado, BorraAlFinal
      <4>3. QED
        BY <1>4, <1>6, <4>2
    <3>2. ~Crea(T, x) /\ ~Crea(E, x) /\ ~Crea(E, e.nombre)
      BY <1>9, <2>2, <3>1, SinEscrituras
    <3>3. x \in Existentes' <=> x \in Existentes /\ x # e.nombre
      BY <1>3, <1>10, <1>11, <2>2 DEF MetadataTras, Existentes, Directorios
    <3>4. archivos' = ListRemoveElement(archivos, e.nombre)
      BY <1>3, <2>2
    <3>5. Veces(archivos, x) = Uno(x \in Existentes)
          /\ Veces(archivos, e.nombre) = Uno(e.nombre \in Existentes)
      BY <1>11, <2>1, <2>2, <3>2
    <3> HIDE DEF Existentes
    <3>6. CASE e.nombre \in Elementos(archivos)
      <4>1. Veces(archivos, x) = Veces(archivos', x) + Uno(e.nombre = x)
        BY <1>10, <3>4, <3>6, VecesSinUno
      <4>2. Veces(archivos, e.nombre) # 0
        BY <1>10, <3>6, VecesCero
      <4>3. e.nombre \in Existentes
        BY <3>5, <4>2 DEF Uno
      <4>4. archivos' \in Seq(Nombres)
        BY <1>10, <3>4, ListRemoveElementTipo
      <4>5. Veces(archivos', x) \in Nat
        BY <4>4, VecesTipo
      <4>6. CASE x = e.nombre
        BY <3>2, <3>3, <3>5, <4>1, <4>3, <4>5, <4>6 DEF Uno
      <4>7. CASE x # e.nombre
        BY <3>2, <3>3, <3>5, <4>1, <4>5, <4>7 DEF Uno
      <4>8. QED
        BY <4>6, <4>7
    <3>7. CASE e.nombre \notin Elementos(archivos)
      <4>1. archivos' = archivos
        BY <1>10, <3>4, <3>7, NoEsta
      <4>2. Veces(archivos, e.nombre) = 0
        BY <1>10, <3>7, VecesCero
      <4>3. e.nombre \notin Existentes
        BY <3>5, <4>2 DEF Uno
      <4>4. QED
        BY <3>2, <3>3, <3>5, <4>1, <4>3 DEF Uno
    <3>8. QED
      BY <3>6, <3>7
  <2>3. CASE e.tipo = "metadata"
    <3>1. archivos' = archivos
      BY <1>3, <2>3
    <3>2. x \in Existentes' <=> x \in Existentes \/ x = e.nombre
      <4>1. PICK f : f = [bloque |-> e.bloque, tam |-> e.tam]
        OBVIOUS
      <4>2. f # Nada
        BY <1>4, <2>3, <4>1, EscritosCampos, DialFSAssumption
      <4>3. metadata' = [metadata EXCEPT ![e.nombre] = f]
        BY <1>3, <2>3, <4>1 DEF MetadataTras
      <4>4. QED
        BY <1>10, <1>11, <2>3, <4>2, <4>3 DEF Existentes, Directorios
    <3>3. Crea(E, x) <=> x = e.nombre \/ Crea(T, x)
      BY <1>9, <2>3
    <3> HIDE DEF Existentes
    <3>4. QED
      BY <2>1, <3>1, <3>2, <3>3
  <2>4. CASE e.tipo # "borrar" /\ e.tipo # "metadata"
    <3>1. archivos' = archivos /\ metadata' = metadata
      BY <1>3, <2>4 DEF MetadataTras
    <3>2. x \in Existentes' <=> x \in Existentes
      BY <3>1 DEF Existentes
    <3>3. Crea(E, x) <=> Crea(T, x)
      BY <1>9, <2>4
    <3> HIDE DEF Existentes
    <3>4. QED
      BY <2>1, <3>1, <3>2, <3>3
  <2>5. QED
    BY <2>2, <2>3, <2>4
<1>13. caido' => duplicado'
  BY <1>3 DEF Listado
<1>14. QED
  BY <1>5, <1>8, <1>12, <1>13 DEF Listado

(* A list of all the members of a finite set without repetitions.           *)
LEMMA ListaDeConjunto ==
  ASSUME NEW S, IsFiniteSet(S), NEW s \in SetToSeqs(S), NEW x
  PROVE  Veces(s, x) = Uno(x \in S)
<1>1. PICK N \in Nat : N = Cardinality(S)
  BY FS_CardinalityType
<1>2. s \in [1..N -> S] /\ \A i, j \in 1..N : s[i] = s[j] => i = j
  <2>1. s \in {f \in [1..Cardinality(S) -> S] :
                \A i, j \in 1..Cardinality(S) : i # j => f[i] # f[j]}
    BY Zenon DEF SetToSeqs
  <2>2. QED
    BY <1>1, <2>1
<1>3. IsFiniteSet(1..N) /\ Cardinality(1..N) = N
  <2>1. 1 \in Int /\ N \in Int
    OBVIOUS
  <2>2. IsFiniteSet(1..N) /\ Cardinality(1..N) = (IF 1 > N THEN 0 ELSE N - 1 + 1)
    BY <2>1, FS_Interval
  <2>3. QED
    BY <2>2
<1>4. s \in Injection(1..N, S)
  BY <1>2, Fun_IsInj
<1>5. s \in Surjection(1..N, S)
  BY <1>1, <1>3, <1>4, FS_Injection
<1>6. \A y \in S : \E k \in 1..N : s[k] = y
  BY <1>5, Fun_SurjectionProperties
<1>7. DOMAIN s = 1..N
  BY <1>2
<1>8. CASE x \in S
  <2>1. PICK k \in 1..N : s[k] = x
    BY <1>6, <1>8
  <2>2. {j \in DOMAIN s : s[j] = x} = {k}
    BY <1>2, <1>7, <2>1
  <2>3. QED
    BY <1>8, <2>2, FS_Singleton DEF Veces, Uno
<1>9. CASE x \notin S
  <2>1. {j \in DOMAIN s : s[j] = x} = {}
    BY <1>2, <1>7, <1>9
  <2>2. QED
    BY <1>9, <2>1, FS_EmptySet DEF Veces, Uno
<1>10. QED
  BY <1>8, <1>9

LEMMA ReiniciarListado ==
  ASSUME Tipos, Listado, Reiniciar
  PROVE  Listado'
<1>1. /\ archivos' \in SetToSeqs(Existentes) /\ plan' = SinPlan
      /\ caido' = FALSE /\ duplicado' = FALSE /\ Existentes' = Existentes
  BY DEF Reiniciar, disco, Existentes
<1>2. plan'.escrituras = <<>>
  BY <1>1 DEF SinPlan
<1>3. BorraAlFinal(plan'.escrituras) /\ \A x : ~Crea(plan'.escrituras, x)
  BY <1>2, SinEscrituras DEF BorraAlFinal
<1>4. \A x \in Nombres : Veces(archivos', x) = Uno(x \in Existentes)
  <2>1. IsFiniteSet(Existentes)
    BY DEF Tipos
  <2> HIDE DEF Existentes
  <2>2. QED
    BY <1>1, <2>1, ListaDeConjunto
<1>5. QED
  BY <1>1, <1>3, <1>4 DEF Listado

LEMMA ListadoInvariante == Spec => []Listado
<1>1. Init => Listado
  <2>1. SUFFICES ASSUME Init PROVE Listado
    OBVIOUS
  <2>2. /\ archivos = <<>> /\ plan.escrituras = <<>> /\ Existentes = {} /\ ~caido
    BY <2>1 DEF Init, SinPlan, Existentes
  <2>3. \A x : Veces(archivos, x) = 0
    BY <2>2, VecesVacia
  <2>4. QED
    BY <2>2, <2>3, SinEscrituras DEF Listado, BorraAlFinal, Uno
<1>2. ASSUME Tipos, Listado, [Next]_vars PROVE Listado'
  <2>1. CASE Next
    BY <1>2, <2>1, PedirListado, EscribirListado, ReiniciarListado DEF Next
  <2>2. CASE UNCHANGED vars
    BY <1>2, <2>2 DEF vars, disco, Listado, Existentes
  <2>3. QED
    BY <1>2, <2>1, <2>2
<1>3. QED
  BY <1>1, <1>2, TiposInvariante, PTL DEF Spec

-----------------------------------------------------------------------------
(* Between requests the list names the files of the directory, each once,   *)
(* and metadata that is not there is read only after a name was created     *)
(* twice, whatever the order readdir gives the names in at a start.         *)
THEOREM LaListaEsElDirectorio == Spec => []ListaFiel
<1>1. ASSUME Tipos, Listado PROVE ListaFiel
  <2>1. caido => duplicado
    BY <1>1 DEF Listado
  <2>2. ASSUME ~duplicado, plan = SinPlan
        PROVE  ToSet(archivos) = Existentes /\ Len(archivos) = Cardinality(Existentes)
    <3>1. \A x \in Nombres : Veces(archivos, x) = Uno(x \in Existentes)
      <4>1. plan.escrituras = <<>>
        BY <2>2 DEF SinPlan
      <4>2. QED
        BY <1>1, <2>2, <4>1, SinEscrituras DEF Listado
    <3>2. archivos \in Seq(Nombres) /\ Existentes \subseteq Nombres
      BY <1>1 DEF Tipos, TypeDialFS, Existentes
    <3>3. PICK N \in Nat : N = Len(archivos) /\ DOMAIN archivos = 1..N
      BY <3>2, LenProperties
    <3>4. \A k \in 1..N : archivos[k] \in Nombres
      BY <3>2, <3>3, ElementOfSeq
    <3> HIDE DEF Existentes
    <3>5. ASSUME NEW x \in Nombres PROVE x \in Elementos(archivos) <=> x \in Existentes
      <4>1. Veces(archivos, x) = 0 <=> x \notin Elementos(archivos)
        BY <3>2, VecesCero
      <4>2. QED
        BY <3>1, <4>1 DEF Uno
    <3>6. ToSet(archivos) = Existentes
      BY <3>2, <3>3, <3>4, <3>5 DEF ToSet, Elementos
    <3>7. archivos \in [1..N -> Existentes]
      <4>1. archivos = [k \in 1..N |-> archivos[k]]
        BY <3>2, <3>3, LenProperties
      <4>2. \A k \in 1..N : archivos[k] \in Existentes
        BY <3>3, <3>4, <3>5 DEF Elementos
      <4>3. QED
        BY <4>1, <4>2
    <3>8. ASSUME NEW i \in 1..N, NEW j \in 1..N, archivos[i] = archivos[j] PROVE i = j
      <4>1. PICK x \in Nombres : x = archivos[i]
        BY <3>4
      <4>2. x \in Existentes /\ Veces(archivos, x) = 1
        BY <3>1, <3>3, <3>4, <3>5, <4>1 DEF Elementos, Uno
      <4>3. /\ IsFiniteSet(Posiciones(archivos, x)) /\ Cardinality(Posiciones(archivos, x)) = 1
        BY <3>2, <4>2, VecesTipo
      <4>4. PICK k : Posiciones(archivos, x) = {k}
        BY <4>3, FS_Singleton
      <4>5. i \in Posiciones(archivos, x) /\ j \in Posiciones(archivos, x)
        BY <3>3, <3>8, <4>1 DEF Posiciones
      <4>6. QED
        BY <4>4, <4>5
    <3>9. \A x \in Existentes : \E k \in 1..N : archivos[k] = x
      BY <3>2, <3>3, <3>5 DEF Elementos
    <3>10. IsFiniteSet(1..N) /\ Cardinality(1..N) = N
      <4>1. 1 \in Int /\ N \in Int
        OBVIOUS
      <4>2. IsFiniteSet(1..N) /\ Cardinality(1..N) = (IF 1 > N THEN 0 ELSE N - 1 + 1)
        BY <4>1, FS_Interval
      <4>3. QED
        BY <4>2
    <3>11. Cardinality(Existentes) = Cardinality(1..N)
      BY <3>7, <3>8, <3>9, <3>10, Corridas
    <3>12. QED
      BY <3>3, <3>6, <3>10, <3>11
  <2>3. QED
    BY <2>1, <2>2 DEF ListaFiel
<1>2. QED
  BY <1>1, TiposInvariante, ListadoInvariante, PTL

-----------------------------------------------------------------------------
(***************************************************************************)
(* The disk, with what the processes wrote to it, and what the writes that *)
(* are left make of it.                                                    *)
(***************************************************************************)
Contenidos == (Nombres \X Nat) \cup {Basura}

Discos == [md : Directorios, bm : SUBSET Bloques, bl : [Bloques -> Contenidos],
           es : [Nombres -> SUBSET Nat]]

Disco == [md |-> metadata, bm |-> bitmap, bl |-> bloques, es |-> escrito]

MdTras(md, e) ==
    IF e.tipo = "metadata"
    THEN [md EXCEPT ![e.nombre] = [bloque |-> e.bloque, tam |-> e.tam]]
    ELSE IF e.tipo = "borrar" THEN [md EXCEPT ![e.nombre] = Nada]
    ELSE md

BmTras(bm, e) ==
    IF e.tipo = "usar" THEN bm \cup ({e.bloque} \cap Bloques)
    ELSE IF e.tipo = "liberar" THEN bm \ {e.bloque}
    ELSE bm

BlTras(bl, e) ==
    [b \in Bloques |->
       IF e.tipo = "copiar" /\ e.hasta <= b /\ b < e.hasta + e.cant
       THEN LET origen == e.desde + (b - e.hasta)
            IN  IF origen \in Bloques THEN bl[origen] ELSE Basura
       ELSE IF e.tipo = "pisar" /\ b = e.bloque THEN Basura
       ELSE IF e.tipo = "escribir" /\ b \in e.bloques
       THEN IF b >= e.bloque THEN <<e.nombre, b - e.bloque>> ELSE Basura
       ELSE bl[b]]

EsTras(es, e) ==
    IF e.tipo = "escribir"
    THEN [es EXCEPT ![e.nombre] =
            @ \cup {b - e.bloque : b \in {x \in e.bloques : x >= e.bloque}}]
    ELSE es

Tras(d, e) == [md |-> MdTras(d.md, e), bm |-> BmTras(d.bm, e),
               bl |-> BlTras(d.bl, e), es |-> EsTras(d.es, e)]

LEMMA TrasBien ==
  ASSUME NEW d \in Discos, NEW e \in Escritos
  PROVE  /\ Tras(d, e) \in Discos
         /\ Tras(d, e).md = MdTras(d.md, e) /\ Tras(d, e).bm = BmTras(d.bm, e)
         /\ Tras(d, e).bl = BlTras(d.bl, e) /\ Tras(d, e).es = EsTras(d.es, e)
<1>1. /\ d.md \in Directorios /\ d.bm \subseteq Bloques /\ d.bl \in [Bloques -> Contenidos]
      /\ d.es \in [Nombres -> SUBSET Nat]
  BY DEF Discos
<1>2. MdTras(d.md, e) \in Directorios
  <2>1. CASE e.tipo = "metadata"
    <3>1. PICK f : f = [bloque |-> e.bloque, tam |-> e.tam]
      OBVIOUS
    <3>2. e.nombre \in Nombres /\ f \in Fichas
      BY <2>1, <3>1, EscritosCampos DEF Fichas
    <3>3. MdTras(d.md, e) = [d.md EXCEPT ![e.nombre] = f]
      BY <2>1, <3>1 DEF MdTras
    <3>4. QED
      BY <1>1, <3>2, <3>3 DEF Directorios
  <2>2. CASE e.tipo # "metadata"
    BY <1>1, <2>2 DEF MdTras, Directorios
  <2>3. QED
    BY <2>1, <2>2
<1>3. BmTras(d.bm, e) \subseteq Bloques
  BY <1>1 DEF BmTras
<1>4. BlTras(d.bl, e) \in [Bloques -> Contenidos]
  <2>1. Basura \in Contenidos
    BY DEF Contenidos
  <2>2. e.tipo = "escribir" => e.nombre \in Nombres /\ e.bloque \in Nat /\ e.bloques \subseteq Nat
    BY EscritosCampos
  <2>3. ASSUME e.tipo = "escribir", NEW b \in Bloques, b >= e.bloque
        PROVE  <<e.nombre, b - e.bloque>> \in Contenidos
    <3>1. b \in Nat /\ e.bloque \in Nat
      BY <2>2, <2>3 DEF Bloques
    <3>2. b - e.bloque \in Nat
      BY <2>3, <3>1
    <3>3. QED
      BY <2>2, <2>3, <3>2 DEF Contenidos
  <2>4. \A b \in Bloques : d.bl[b] \in Contenidos
    BY <1>1
  <2>5. ASSUME NEW b \in Bloques PROVE BlTras(d.bl, e)[b] \in Contenidos
    BY <2>1, <2>3, <2>4 DEF BlTras
  <2>6. BlTras(d.bl, e) = [b \in Bloques |-> BlTras(d.bl, e)[b]]
    BY DEF BlTras
  <2>7. QED
    BY <2>5, <2>6
<1>5. EsTras(d.es, e) \in [Nombres -> SUBSET Nat]
  <2>1. CASE e.tipo = "escribir"
    <3>1. e.nombre \in Nombres /\ e.bloque \in Nat /\ e.bloques \subseteq Nat
      BY <2>1, EscritosCampos
    <3>2. {b - e.bloque : b \in {x \in e.bloques : x >= e.bloque}} \subseteq Nat
      BY <3>1
    <3>3. QED
      BY <1>1, <2>1, <3>1, <3>2 DEF EsTras
  <2>2. CASE e.tipo # "escribir"
    BY <1>1, <2>2 DEF EsTras
  <2>3. QED
    BY <2>1, <2>2
<1>6. QED
  BY <1>2, <1>3, <1>4, <1>5 DEF Tras, Discos

LEMMA DiscoBien ==
  ASSUME Tipos
  PROVE  /\ Disco \in Discos
         /\ Disco.md = metadata /\ Disco.bm = bitmap /\ Disco.bl = bloques /\ Disco.es = escrito
  BY DEF Tipos, TypeDialFS, Disco, Discos, Directorios, Fichas, Contenidos

LEMMA EscribirEsTras ==
  ASSUME Tipos, EscribirDisco
  PROVE  Disco' = Tras(Disco, Head(plan.escrituras))
<1>1. PICK e : e = Head(plan.escrituras)
  OBVIOUS
<1>2. bloques' = BloquesTras(e) /\ bitmap' = BitmapTras(e) /\ metadata' = MetadataTras(e)
      /\ escrito' = (IF e.tipo = "escribir"
                     THEN [escrito EXCEPT ![e.nombre] =
                             @ \cup {b - e.bloque : b \in {x \in e.bloques : x >= e.bloque}}]
                     ELSE escrito)
  BY <1>1, TrasUnaEscritura
<1>3. bloques' = BlTras(bloques, e)
  BY <1>2, Zenon DEF BloquesTras, BlTras
<1>4. bitmap' = BmTras(bitmap, e)
  BY <1>2, Zenon DEF BitmapTras, BmTras
<1>5. metadata' = MdTras(metadata, e)
  BY <1>2, Zenon DEF MetadataTras, MdTras
<1>6. escrito' = EsTras(escrito, e)
  BY <1>2, Zenon DEF EsTras
<1>7. QED
  BY <1>1, <1>3, <1>4, <1>5, <1>6, DiscoBien DEF Disco, Tras

(* The disks a list of writes goes through, none of them out of S.          *)
Viajes(d, E, S) ==
    {f \in [0..Len(E) -> S] : f[0] = d /\ \A k \in 1..Len(E) : f[k] = Tras(f[k - 1], E[k])}

Va(d, E, S, fin) == \E f \in Viajes(d, E, S) : f[Len(E)] = fin

LEMMA VaNada ==
  ASSUME NEW S, NEW d \in S
  PROVE  Va(d, <<>>, S, d)
<1>1. [k \in 0..0 |-> d] \in [0..0 -> S] /\ [k \in 0..0 |-> d][0] = d
  OBVIOUS
<1>2. Len(<<>>) = 0 /\ 1..0 = {}
  OBVIOUS
<1>3. QED
  BY <1>1, <1>2 DEF Va, Viajes

(* From the start of a trip, and from its second disk.                      *)
LEMMA VaSale ==
  ASSUME NEW S, NEW d, NEW U, NEW E \in Seq(U), NEW fin, Va(d, E, S, fin)
  PROVE  /\ d \in S /\ fin \in S
         /\ E = <<>> => fin = d
         /\ E # <<>> => Tras(d, Head(E)) \in S /\ Va(Tras(d, Head(E)), Tail(E), S, fin)
<1>1. PICK N \in Nat : N = Len(E)
  BY LenProperties
<1>2. PICK f \in [0..N -> S] : /\ f[0] = d /\ \A k \in 1..N : f[k] = Tras(f[k - 1], E[k])
                               /\ f[N] = fin
  BY <1>1 DEF Va, Viajes
<1>3. d \in S /\ fin \in S
  BY <1>2
<1>4. E = <<>> => fin = d
  <2>1. E = <<>> => N = 0
    BY <1>1
  <2>2. QED
    BY <1>2, <2>1
<1>5. ASSUME E # <<>>
      PROVE  Tras(d, Head(E)) \in S /\ Va(Tras(d, Head(E)), Tail(E), S, fin)
  <2>1. /\ N >= 1 /\ Head(E) = E[1] /\ Len(Tail(E)) = N - 1
        /\ \A k \in 1..(N - 1) : Tail(E)[k] = E[k + 1]
    BY <1>1, <1>5, HeadTailProperties, EmptySeq
  <2>2. PICK M \in Nat : N = M + 1
    <3>1. N - 1 \in Nat /\ N = (N - 1) + 1
      BY <2>1
    <3>2. QED
      BY <3>1
  <2>3. Len(Tail(E)) = M /\ \A k \in 1..M : Tail(E)[k] = E[k + 1]
    BY <2>1, <2>2
  <2>4. PICK g : g = [k \in 0..M |-> f[k + 1]]
    OBVIOUS
  <2>5. g \in [0..M -> S]
    BY <1>2, <2>2, <2>4
  <2>6. f[1] = Tras(d, Head(E))
    BY <1>2, <2>1
  <2>7. g[0] = Tras(d, Head(E)) /\ g[M] = fin
    BY <1>2, <2>2, <2>4, <2>6
  <2>8. ASSUME NEW k \in 1..M PROVE g[k] = Tras(g[k - 1], Tail(E)[k])
    <3>1. k + 1 \in 1..N /\ k - 1 \in 0..M /\ (k - 1) + 1 = k /\ (k + 1) - 1 = k /\ k \in 0..M
      BY <2>2
    <3>2. f[k + 1] = Tras(f[k], E[k + 1])
      BY <1>2, <3>1
    <3>3. g[k] = f[k + 1] /\ g[k - 1] = f[k]
      BY <2>4, <3>1
    <3>4. QED
      BY <2>3, <3>2, <3>3
  <2>9. f[1] \in S
    BY <1>2, <2>1
  <2>10. QED
    BY <2>3, <2>5, <2>6, <2>7, <2>8, <2>9 DEF Va, Viajes
<1>6. QED
  BY <1>3, <1>4, <1>5

LEMMA VaJunto ==
  ASSUME NEW S, NEW d, NEW U, NEW E \in Seq(U), NEW F \in Seq(U), NEW medio, NEW fin,
         Va(d, E, S, medio), Va(medio, F, S, fin)
  PROVE  Va(d, E \o F, S, fin)
<1>1. PICK N \in Nat, M \in Nat : N = Len(E) /\ M = Len(F)
  BY LenProperties
<1>2. PICK f \in [0..N -> S] : /\ f[0] = d /\ \A k \in 1..N : f[k] = Tras(f[k - 1], E[k])
                               /\ f[N] = medio
  BY <1>1 DEF Va, Viajes
<1>3. PICK g \in [0..M -> S] : /\ g[0] = medio /\ \A k \in 1..M : g[k] = Tras(g[k - 1], F[k])
                               /\ g[M] = fin
  BY <1>1 DEF Va, Viajes
<1>4. PICK h : h = [k \in 0..(N + M) |-> IF k <= N THEN f[k] ELSE g[k - N]]
  OBVIOUS
<1>5. PICK G : G = E \o F
  OBVIOUS
<1>6. /\ Len(G) = N + M
      /\ \A k \in 1..(N + M) : G[k] = IF k <= N THEN E[k] ELSE F[k - N]
  BY <1>1, <1>5, ConcatProperties
<1>7. h \in [0..(N + M) -> S]
  <2>1. ASSUME NEW k \in 0..(N + M), ~(k <= N) PROVE k - N \in 0..M
    BY <2>1
  <2>2. ASSUME NEW k \in 0..(N + M), k <= N PROVE k \in 0..N
    BY <2>2
  <2>3. \A k \in 0..(N + M) : (IF k <= N THEN f[k] ELSE g[k - N]) \in S
    BY <1>2, <1>3, <2>1, <2>2
  <2>4. QED
    BY <1>4, <2>3
<1>8. h[0] = d
  BY <1>2, <1>4
<1>9. h[N + M] = fin
  <2>1. CASE M = 0
    BY <1>2, <1>3, <1>4, <2>1
  <2>2. CASE M # 0
    <3>1. ~(N + M <= N) /\ (N + M) - N = M /\ N + M \in 0..(N + M)
      BY <2>2
    <3>2. QED
      BY <1>3, <1>4, <3>1
  <2>3. QED
    BY <2>1, <2>2
<1>10. ASSUME NEW k \in 1..(N + M) PROVE h[k] = Tras(h[k - 1], G[k])
  <2>1. k \in 0..(N + M) /\ k - 1 \in 0..(N + M)
    OBVIOUS
  <2>2. CASE k <= N
    <3>1. k \in 1..N /\ k - 1 <= N
      BY <2>2
    <3>2. h[k] = f[k] /\ h[k - 1] = f[k - 1] /\ G[k] = E[k]
      BY <1>4, <1>6, <2>1, <2>2, <3>1
    <3>3. QED
      BY <1>2, <3>1, <3>2
  <2>3. CASE k = N + 1
    <3>1. k - 1 = N /\ ~(k <= N) /\ k - N = 1 /\ 1 \in 1..M
      BY <2>3
    <3>2. h[k] = g[1] /\ h[k - 1] = f[N] /\ G[k] = F[1]
      BY <1>4, <1>6, <2>1, <3>1
    <3>3. g[1] = Tras(g[1 - 1], F[1]) /\ 1 - 1 = 0
      BY <1>3, <3>1
    <3>4. QED
      BY <1>2, <1>3, <3>2, <3>3
  <2>4. CASE k > N + 1
    <3>1. ~(k <= N) /\ ~(k - 1 <= N) /\ k - N \in 1..M /\ (k - 1) - N = (k - N) - 1
      BY <2>4
    <3>2. h[k] = g[k - N] /\ h[k - 1] = g[(k - N) - 1] /\ G[k] = F[k - N]
      BY <1>4, <1>6, <2>1, <3>1
    <3>3. g[k - N] = Tras(g[(k - N) - 1], F[k - N])
      BY <1>3, <3>1
    <3>4. QED
      BY <3>2, <3>3
  <2>5. QED
    BY <2>2, <2>3, <2>4
<1>11. QED
  BY <1>5, <1>6, <1>7, <1>8, <1>9, <1>10 DEF Va, Viajes

LEMMA VaUno ==
  ASSUME NEW S, NEW d \in S, NEW e, Tras(d, e) \in S
  PROVE  Va(d, <<e>>, S, Tras(d, e))
<1>1. PICK x : x = Tras(d, e)
  OBVIOUS
<1>2. PICK f : f = [k \in 0..1 |-> IF k = 0 THEN d ELSE x]
  OBVIOUS
<1>3. f \in [0..1 -> S] /\ f[0] = d /\ f[1] = x
  BY <1>1, <1>2
<1>4. Len(<<e>>) = 1 /\ <<e>>[1] = e
  OBVIOUS
<1>5. \A k \in 1..1 : f[k] = Tras(f[k - 1], <<e>>[k])
  BY <1>1, <1>3, <1>4
<1>6. QED
  BY <1>1, <1>3, <1>4, <1>5 DEF Va, Viajes

(* Sets that each write of the list leads from one to the next of.          *)
LEMMA VaPasos ==
  ASSUME NEW S, NEW U, NEW E \in Seq(U), NEW T, \A k \in 0..Len(E) : T[k] \subseteq S,
         NEW d \in T[0], \A k \in 1..Len(E) : \A x \in T[k - 1] : Tras(x, E[k]) \in T[k]
  PROVE  \E fin \in T[Len(E)] : Va(d, E, S, fin)
<1>1. PICK N \in Nat : N = Len(E)
  BY LenProperties
<1> DEFINE Anda(n) == n <= N => \E f \in [0..n -> S] :
                        /\ f[0] = d /\ \A k \in 1..n : f[k] = Tras(f[k - 1], E[k])
                        /\ f[n] \in T[n]
           Faltan == {n \in Nat : ~Anda(n)}
<1>2. Anda(0)
  <2>1. d \in S
    BY <1>1
  <2>2. [k \in 0..0 |-> d] \in [0..0 -> S] /\ [k \in 0..0 |-> d][0] = d /\ 1..0 = {}
    BY <2>1
  <2>3. QED
    BY <2>2
<1>3. ASSUME NEW n \in Nat, Anda(n), n + 1 <= N PROVE Anda(n + 1)
  <2>1. PICK f \in [0..n -> S] : /\ f[0] = d /\ \A k \in 1..n : f[k] = Tras(f[k - 1], E[k])
                                 /\ f[n] \in T[n]
    BY <1>3
  <2>2. n + 1 \in 1..Len(E) /\ (n + 1) - 1 = n /\ n + 1 \in 0..Len(E)
    BY <1>1, <1>3
  <2>3. PICK x \in T[n + 1] : x = Tras(f[n], E[n + 1])
    BY <2>1, <2>2
  <2>4. PICK h : h = [k \in 0..(n + 1) |-> IF k = n + 1 THEN x ELSE f[k]]
    OBVIOUS
  <2>5. h \in [0..(n + 1) -> S]
    <3>1. x \in S
      BY <2>2, <2>3
    <3>2. QED
      BY <2>1, <2>4, <3>1
  <2>6. h[0] = d /\ h[n + 1] \in T[n + 1]
    BY <2>1, <2>3, <2>4
  <2>7. ASSUME NEW k \in 1..(n + 1) PROVE h[k] = Tras(h[k - 1], E[k])
    <3>1. CASE k = n + 1
      <4>1. h[k] = x /\ k - 1 = n /\ h[k - 1] = f[n]
        BY <2>4, <3>1
      <4>2. QED
        BY <2>3, <3>1, <4>1
    <3>2. CASE k # n + 1
      <4>1. k \in 1..n /\ k - 1 \in 0..n /\ k - 1 # n + 1 /\ k \in 0..(n + 1) /\ k - 1 \in 0..(n + 1)
        BY <3>2
      <4>2. h[k] = f[k] /\ h[k - 1] = f[k - 1]
        BY <2>4, <3>2, <4>1
      <4>3. QED
        BY <2>1, <4>1, <4>2
    <3>3. QED
      BY <3>1, <3>2
  <2>8. QED
    BY <2>5, <2>6, <2>7
<1>4. Faltan = {}
  <2>1. SUFFICES ASSUME Faltan # {} PROVE FALSE
    OBVIOUS
  <2>2. Faltan \subseteq Nat
    OBVIOUS
  <2>3. PICK n \in Faltan : \A k \in Faltan : n <= k
    <3> HIDE DEF Faltan
    <3>1. QED
      BY <2>1, <2>2, MenorNatural
  <2>4. ~Anda(n)
    BY <2>3
  <2>5. n \in Nat /\ n <= N
    BY <2>3
  <2> HIDE DEF Anda
  <2>6. n # 0
    BY <1>2, <2>4
  <2>7. n - 1 \in Nat /\ n - 1 \notin Faltan /\ (n - 1) + 1 = n
    BY <2>3, <2>5, <2>6
  <2>8. Anda(n - 1)
    BY <2>7
  <2>9. Anda((n - 1) + 1)
    BY <1>3, <2>5, <2>7, <2>8
  <2>10. QED
    BY <2>4, <2>7, <2>9
<1>5. PICK f \in [0..N -> S] : /\ f[0] = d /\ \A k \in 1..N : f[k] = Tras(f[k - 1], E[k])
                               /\ f[N] \in T[N]
  <2>1. N \notin Faltan
    BY <1>4
  <2>2. QED
    BY <2>1
<1>6. QED
  BY <1>1, <1>5 DEF Va, Viajes

(* A trip within a set is one within any greater set.                       *)
LEMMA VaMas ==
  ASSUME NEW S, NEW T, S \subseteq T, NEW d, NEW E, NEW fin, Va(d, E, S, fin)
  PROVE  Va(d, E, T, fin)
  BY DEF Va, Viajes

-----------------------------------------------------------------------------
(***************************************************************************)
(* Order on a disk: the blocks of the files of X are marked, no two of     *)
(* them share one, the count of the blocks of no file wraps, and each file *)
(* has what was written to it, if every byte of the disk has a number of   *)
(* its own.                                                                *)
(***************************************************************************)
Cabe == Bits * BlockSize <= Ancho

Desde(d, x) == d.md[x].bloque
Hasta(d, x) == d.md[x].bloque + Ocupa(d.md[x].tam)

Estan(d, X) == {x \in X : d.md[x] # Nada}

Marcado(d, x) == \A c \in Nat : Desde(d, x) <= c /\ c < Hasta(d, x) => c \in d.bm

Guarda(d, x) ==
    /\ Justo(d.md[x].tam)
    /\ Cabe => \A k \in d.es[x] : /\ k < EnBloques(d.md[x].tam)
                                 /\ d.bl[Desde(d, x) + k] = <<x, k>>

Aparte(d, x, a, b) == Hasta(d, x) <= a \/ b <= Desde(d, x)

Ordenado(d, X) ==
    \A x \in Estan(d, X) :
      /\ Marcado(d, x) /\ Guarda(d, x)
      /\ \A y \in Estan(d, X) : y # x => Aparte(d, y, Desde(d, x), Hasta(d, x))

Bueno(d) == Ordenado(d, Nombres)

(* The files other than n are in order and out of the blocks from a to b.   *)
Hueco(d, n, a, b) ==
    /\ Ordenado(d, Nombres \ {n})
    /\ \A x \in Estan(d, Nombres \ {n}) : Aparte(d, x, a, b)

LEMMA Medidas ==
  ASSUME NEW d \in Discos, NEW x \in Nombres, d.md[x] # Nada
  PROVE  /\ d.md[x] \in Fichas
         /\ d.md[x].tam \in Nat /\ EnBloques(d.md[x].tam) \in Nat
         /\ Desde(d, x) \in Nat /\ Hasta(d, x) \in Nat
         /\ Hasta(d, x) = Desde(d, x) + Ocupa(d.md[x].tam)
         /\ EnBloques(d.md[x].tam) <= Ocupa(d.md[x].tam)
<1>1. d.md[x] \in Fichas
  BY DEF Discos, Directorios
<1>2. d.md[x].tam \in Nat /\ Desde(d, x) \in Nat
  BY <1>1 DEF Fichas, Desde
<1>3. EnBloques(d.md[x].tam) \in Nat /\ Ocupa(d.md[x].tam) \in Nat
  BY <1>2, OcupaTipo
<1>4. EnBloques(d.md[x].tam) <= Ocupa(d.md[x].tam)
  <2>1. CASE d.md[x].tam > 0
    BY <1>3, <2>1 DEF Ocupa
  <2>2. CASE d.md[x].tam = 0
    BY <2>2, EnBloquesDe
  <2>3. QED
    BY <1>2, <2>1, <2>2
<1>5. Hasta(d, x) = Desde(d, x) + Ocupa(d.md[x].tam)
  BY DEF Hasta, Desde
<1>6. QED
  BY <1>1, <1>2, <1>3, <1>4, <1>5

LEMMA Largas ==
  ASSUME NEW d \in Discos, NEW x \in Nombres, d.md[x] # Nada, Guarda(d, x)
  PROVE  /\ Justo(d.md[x].tam)
         /\ Ocupa(d.md[x].tam) \in Nat /\ Ocupa(d.md[x].tam) >= 1
         /\ EnBloques(d.md[x].tam) = Abarca(d.md[x].tam)
         /\ Desde(d, x) < Hasta(d, x)
<1>1. Justo(d.md[x].tam)
  BY DEF Guarda
<1>2. PICK o \in Nat : o = Ocupa(d.md[x].tam) /\ o >= 1
  BY <1>1, JustoEs
<1>3. Desde(d, x) \in Nat /\ Hasta(d, x) = Desde(d, x) + o
  BY <1>2, Medidas
<1>4. Desde(d, x) < Hasta(d, x)
  BY <1>2, <1>3
<1>5. QED
  BY <1>1, <1>2, <1>4, JustoEs

LEMMA DeBueno ==
  ASSUME NEW d \in Discos, NEW x \in Nombres, d.md[x] # Nada, Bueno(d)
  PROVE  Guarda(d, x)
  BY DEF Bueno, Ordenado, Estan

(* Files whose blocks and metadata stay as they are stay in order.          *)
LEMMA MismoOrden ==
  ASSUME NEW d \in Discos, NEW d2, NEW X \in SUBSET Nombres, Ordenado(d, X),
         \A x \in X : d2.md[x] = d.md[x] /\ (Cabe => d2.es[x] = d.es[x]),
         \A x \in Estan(d, X), c \in Nat :
           Desde(d, x) <= c /\ c < Hasta(d, x) =>
             (c \in d.bm => c \in d2.bm) /\ (Cabe => d2.bl[c] = d.bl[c])
  PROVE  Ordenado(d2, X)
<1>1. SUFFICES ASSUME NEW x \in Estan(d2, X)
               PROVE  /\ Marcado(d2, x) /\ Guarda(d2, x)
                      /\ \A y \in Estan(d2, X) : y # x => Aparte(d2, y, Desde(d2, x), Hasta(d2, x))
  BY DEF Ordenado
<1>2. x \in X /\ x \in Nombres /\ x \in Estan(d, X) /\ d.md[x] # Nada /\ d2.md[x] = d.md[x]
  BY <1>1 DEF Estan
<1>3. Desde(d2, x) = Desde(d, x) /\ Hasta(d2, x) = Hasta(d, x)
  BY <1>2 DEF Desde, Hasta
<1>4. /\ d.md[x].tam \in Nat /\ EnBloques(d.md[x].tam) \in Nat /\ Ocupa(d.md[x].tam) \in Nat
      /\ Desde(d, x) \in Nat /\ Hasta(d, x) \in Nat
      /\ Hasta(d, x) = Desde(d, x) + Ocupa(d.md[x].tam)
      /\ EnBloques(d.md[x].tam) <= Ocupa(d.md[x].tam)
  BY <1>2, Medidas, OcupaTipo
<1>5. Marcado(d, x) /\ Guarda(d, x)
  BY <1>2 DEF Ordenado
<1>6. Marcado(d2, x)
  BY <1>2, <1>3, <1>5 DEF Marcado
<1>7. Guarda(d2, x)
  <2>1. SUFFICES ASSUME Cabe, NEW k \in d2.es[x]
                 PROVE  /\ k < EnBloques(d2.md[x].tam)
                        /\ d2.bl[Desde(d2, x) + k] = <<x, k>>
    BY <1>2, <1>5 DEF Guarda
  <2>2. k \in d.es[x] /\ k \in Nat
    BY <1>2, <2>1 DEF Discos
  <2>3. k < EnBloques(d.md[x].tam) /\ d.bl[Desde(d, x) + k] = <<x, k>>
    BY <1>5, <2>1, <2>2 DEF Guarda
  <2>4. PICK c \in Nat : c = Desde(d, x) + k
    BY <1>4, <2>2
  <2>5. Desde(d, x) <= c /\ c < Hasta(d, x)
    BY <1>4, <2>2, <2>3, <2>4
  <2>6. d2.bl[c] = d.bl[c]
    BY <1>2, <2>1, <2>5
  <2>7. QED
    BY <1>2, <1>3, <2>3, <2>4, <2>6
<1>8. ASSUME NEW y \in Estan(d2, X), y # x PROVE Aparte(d2, y, Desde(d2, x), Hasta(d2, x))
  <2>1. y \in Estan(d, X) /\ d2.md[y] = d.md[y]
    BY <1>8 DEF Estan
  <2>2. Aparte(d, y, Desde(d, x), Hasta(d, x))
    BY <1>2, <1>8, <2>1 DEF Ordenado
  <2>3. Desde(d2, y) = Desde(d, y) /\ Hasta(d2, y) = Hasta(d, y)
    BY <2>1 DEF Desde, Hasta
  <2>4. QED
    BY <1>3, <2>2, <2>3 DEF Aparte
<1>9. QED
  BY <1>6, <1>7, <1>8

(* What a request does to its own file and to the gap it has.               *)
DeSuHueco(e, n, a, b) ==
    \/ e.tipo = "usar"
    \/ e.tipo \in {"liberar", "pisar"} /\ a <= e.bloque /\ e.bloque < b
    \/ e.tipo \in {"metadata", "borrar"} /\ e.nombre = n
    \/ /\ e.tipo = "escribir" /\ e.nombre = n
       /\ Cabe => \A c \in e.bloques : a <= c /\ c < b

LEMMA HuecoQueda ==
  ASSUME NEW d \in Discos, NEW n \in Nombres, NEW a \in Nat, NEW b \in Nat, Hueco(d, n, a, b),
         NEW e \in Escritos, DeSuHueco(e, n, a, b)
  PROVE  Hueco(Tras(d, e), n, a, b)
<1>1. PICK X \in SUBSET Nombres : X = Nombres \ {n}
  OBVIOUS
<1>2. PICK d2 : d2 = Tras(d, e)
  OBVIOUS
<1>3. /\ d2.md = MdTras(d.md, e) /\ d2.bm = BmTras(d.bm, e)
      /\ d2.bl = BlTras(d.bl, e) /\ d2.es = EsTras(d.es, e)
  BY <1>2, TrasBien
<1>4. Ordenado(d, X) /\ \A x \in Estan(d, X) : Aparte(d, x, a, b)
  BY <1>1 DEF Hueco
<1>5. /\ e.tipo \in {"usar", "liberar", "pisar", "metadata", "escribir"} => e.bloque \in Nat
      /\ e.tipo \in {"borrar", "metadata", "escribir"} => e.nombre \in Nombres
      /\ e.tipo = "escribir" => e.bloques \subseteq Nat
  BY EscritosCampos
<1>6. /\ d.md \in [Nombres -> Fichas \cup {Nada}] /\ d.es \in [Nombres -> SUBSET Nat]
      /\ d.bm \subseteq Bloques
  BY DEF Discos, Directorios
<1>7. ASSUME NEW x \in X PROVE d2.md[x] = d.md[x] /\ d2.es[x] = d.es[x]
  <2>1. x \in Nombres /\ x # n
    BY <1>1
  <2>2. d2.md[x] = d.md[x]
    BY <1>3, <1>5, <1>6, <2>1 DEF MdTras, DeSuHueco
  <2>3. d2.es[x] = d.es[x]
    BY <1>3, <1>5, <1>6, <2>1 DEF EsTras, DeSuHueco
  <2>4. QED
    BY <2>2, <2>3
<1>8. ASSUME NEW x \in Estan(d, X), NEW c \in Nat, Desde(d, x) <= c, c < Hasta(d, x)
      PROVE  (c \in d.bm => c \in d2.bm) /\ (Cabe => d2.bl[c] = d.bl[c])
  <2>1. x \in Nombres /\ d.md[x] # Nada
    BY <1>1 DEF Estan
  <2>2. Desde(d, x) \in Nat /\ Hasta(d, x) \in Nat
    BY <2>1, Medidas
  <2>3. ~(a <= c /\ c < b)
    BY <1>4, <1>8, <2>2 DEF Aparte
  <2>4. c \in d.bm
    BY <1>4, <1>8 DEF Ordenado, Marcado
  <2>5. c \in d2.bm
    BY <1>3, <1>5, <2>3, <2>4 DEF BmTras, DeSuHueco
  <2>6. ASSUME Cabe PROVE d2.bl[c] = d.bl[c]
    <3>1. c \in Bloques
      BY <1>6, <2>4
    <3>2. ~(e.tipo = "copiar") /\ ~(e.tipo = "pisar" /\ c = e.bloque)
          /\ ~(e.tipo = "escribir" /\ c \in e.bloques)
      BY <1>5, <2>3, <2>6 DEF DeSuHueco
    <3>3. QED
      BY <1>3, <3>1, <3>2 DEF BlTras
  <2>7. QED
    BY <2>5, <2>6
<1>9. Ordenado(d2, X)
  BY <1>4, <1>7, <1>8, MismoOrden
<1>10. ASSUME NEW x \in Estan(d2, X) PROVE Aparte(d2, x, a, b)
  <2>1. x \in Estan(d, X) /\ d2.md[x] = d.md[x]
    BY <1>7, <1>10 DEF Estan
  <2>2. Desde(d2, x) = Desde(d, x) /\ Hasta(d2, x) = Hasta(d, x)
    BY <2>1 DEF Desde, Hasta
  <2>3. QED
    BY <1>4, <2>1, <2>2 DEF Aparte
<1>11. QED
  BY <1>1, <1>2, <1>9, <1>10 DEF Hueco

(* A file of a disk in order has its blocks for itself.                     *)
LEMMA Apertura ==
  ASSUME NEW d \in Discos, NEW n \in Nombres, Bueno(d), d.md[n] # Nada
  PROVE  /\ Hueco(d, n, Desde(d, n), Hasta(d, n))
         /\ Marcado(d, n) /\ Guarda(d, n)
<1>1. n \in Estan(d, Nombres) /\ Estan(d, Nombres \ {n}) = Estan(d, Nombres) \ {n}
  BY DEF Estan
<1>2. Ordenado(d, Nombres \ {n})
  BY <1>1 DEF Bueno, Ordenado
<1>3. QED
  BY <1>1, <1>2 DEF Bueno, Ordenado, Hueco

(* A file within the gap adds to those in order.                            *)
LEMMA Sumar ==
  ASSUME NEW d \in Discos, NEW X \in SUBSET Nombres, NEW n \in Nombres,
         NEW a \in Nat, NEW b \in Nat, Ordenado(d, X \ {n}),
         \A x \in Estan(d, X \ {n}) : Aparte(d, x, a, b),
         d.md[n] # Nada => a <= Desde(d, n) /\ Hasta(d, n) <= b /\ Marcado(d, n) /\ Guarda(d, n)
  PROVE  Ordenado(d, X)
<1>1. SUFFICES ASSUME NEW x \in Estan(d, X)
               PROVE  /\ Marcado(d, x) /\ Guarda(d, x)
                      /\ \A y \in Estan(d, X) : y # x => Aparte(d, y, Desde(d, x), Hasta(d, x))
  BY DEF Ordenado
<1>2. Estan(d, X \ {n}) = Estan(d, X) \ {n}
  BY DEF Estan
<1>3. \A y \in Estan(d, X) : y \in Nombres /\ d.md[y] # Nada
  BY DEF Estan
<1>4. Marcado(d, x) /\ Guarda(d, x)
  BY <1>1, <1>2, <1>3 DEF Ordenado
<1>5. ASSUME NEW y \in Estan(d, X), y # x PROVE Aparte(d, y, Desde(d, x), Hasta(d, x))
  <2>1. /\ Desde(d, x) \in Nat /\ Hasta(d, x) \in Nat /\ Desde(d, y) \in Nat /\ Hasta(d, y) \in Nat
    BY <1>1, <1>3, <1>5, Medidas
  <2>2. CASE x = n
    <3>1. Aparte(d, y, a, b) /\ a <= Desde(d, n) /\ Hasta(d, n) <= b
      BY <1>1, <1>2, <1>3, <1>5, <2>2
    <3>2. QED
      BY <2>1, <2>2, <3>1 DEF Aparte
  <2>3. CASE y = n
    <3>1. Aparte(d, x, a, b) /\ a <= Desde(d, n) /\ Hasta(d, n) <= b
      BY <1>1, <1>2, <1>3, <1>5, <2>3
    <3>2. QED
      BY <2>1, <2>3, <3>1 DEF Aparte
  <2>4. CASE x # n /\ y # n
    BY <1>1, <1>2, <1>5, <2>4 DEF Ordenado
  <2>5. QED
    BY <2>2, <2>3, <2>4
<1>6. QED
  BY <1>4, <1>5

LEMMA Cierre ==
  ASSUME NEW d \in Discos, NEW n \in Nombres, NEW a \in Nat, NEW b \in Nat, Hueco(d, n, a, b),
         d.md[n] # Nada => a <= Desde(d, n) /\ Hasta(d, n) <= b /\ Marcado(d, n) /\ Guarda(d, n)
  PROVE  Bueno(d)
  BY Sumar DEF Hueco, Bueno

(* A block that is not marked is of no file, and adds to the gap before it. *)
LEMMA Ensanchar ==
  ASSUME NEW d \in Discos, NEW n \in Nombres, NEW a \in Nat, NEW b \in Nat, NEW b2 \in Nat,
         Hueco(d, n, a, b), \A c \in Nat : b <= c /\ c < b2 => c \notin d.bm
  PROVE  Hueco(d, n, a, b2)
<1>1. SUFFICES ASSUME NEW x \in Estan(d, Nombres \ {n}) PROVE Aparte(d, x, a, b2)
  BY DEF Hueco
<1>2. Aparte(d, x, a, b) /\ Marcado(d, x) /\ Guarda(d, x)
  BY <1>1 DEF Hueco, Ordenado
<1>3. x \in Nombres /\ d.md[x] # Nada
  BY <1>1 DEF Estan
<1>4. Desde(d, x) \in Nat /\ Hasta(d, x) \in Nat /\ Desde(d, x) < Hasta(d, x)
  BY <1>2, <1>3, Medidas, Largas
<1>5. Desde(d, x) \in d.bm
  BY <1>2, <1>4 DEF Marcado
<1>6. ~(b <= Desde(d, x) /\ Desde(d, x) < b2)
  BY <1>4, <1>5
<1>7. QED
  BY <1>2, <1>4, <1>6 DEF Aparte

LEMMA HuecoVacio ==
  ASSUME NEW d \in Discos, NEW n \in Nombres, NEW a \in Nat, Bueno(d), d.md[n] = Nada,
         a \notin d.bm
  PROVE  Hueco(d, n, a, a + 1)
<1>1. Estan(d, Nombres \ {n}) = Estan(d, Nombres)
  BY DEF Estan
<1>2. Ordenado(d, Nombres \ {n})
  BY <1>1 DEF Ordenado, Bueno
<1>3. ASSUME NEW x \in Estan(d, Nombres) PROVE Aparte(d, x, a, a + 1)
  <2>1. x \in Nombres /\ d.md[x] # Nada
    BY DEF Estan
  <2>2. Desde(d, x) \in Nat /\ Hasta(d, x) \in Nat
    BY <2>1, Medidas
  <2>3. ~(Desde(d, x) <= a /\ a < Hasta(d, x))
    BY DEF Bueno, Ordenado, Marcado
  <2>4. QED
    BY <2>2, <2>3 DEF Aparte
<1>4. QED
  BY <1>1, <1>2, <1>3 DEF Hueco

(* One file moves over the gap, and the gap is after it.                    *)
Marcados(d, a, b) == \A c \in Nat : a <= c /\ c < b => c \in d.bm

Mudado(d, d2, x, a, t) ==
    /\ d2.bm = d.bm /\ d2.es = d.es
    /\ d2.md = [d.md EXCEPT ![x] = [bloque |-> a, tam |-> t]]

LEMMA MudaElHueco ==
  ASSUME NEW d \in Discos, NEW n \in Nombres, NEW a \in Nat, NEW b \in Nat, a < b,
         Hueco(d, n, a, b), Marcados(d, a, b),
         NEW x \in Nombres, x # n, d.md[x] # Nada, Desde(d, x) = b,
         NEW t, t = d.md[x].tam, NEW o, o = Ocupa(t),
         NEW d1, d1 = Tras(d, Copiar(b, a, Abarca(t))),
         NEW d2, d2 = Tras(d1, Metadata(x, a, t))
  PROVE  /\ d1 \in Discos /\ d2 \in Discos
         /\ Hueco(d2, n, a + o, b + o) /\ Marcados(d2, a + o, b + o)
         /\ Mudado(d, d2, x, a, t)
<1>1. /\ d.md \in [Nombres -> Fichas \cup {Nada}] /\ d.es \in [Nombres -> SUBSET Nat]
      /\ d.bm \subseteq Bloques /\ d.bl \in [Bloques -> Contenidos]
  BY DEF Discos, Directorios
<1>2. PICK q : q = EnBloques(t) /\ q = Abarca(t)
  <2>1. Guarda(d, x)
    BY DEF Hueco, Ordenado, Estan
  <2>2. QED
    BY <2>1, Largas
<1>3. /\ t \in Nat /\ o \in Nat /\ o >= 1 /\ q \in Nat /\ q <= o /\ Hasta(d, x) = b + o
      /\ Justo(t)
  <2>1. Guarda(d, x)
    BY DEF Hueco, Ordenado, Estan
  <2>2. QED
    BY <1>2, <2>1, Largas, Medidas
<1>4. PICK e1 : e1 = Copiar(b, a, q)
  OBVIOUS
<1>5. PICK e2 : e2 = Metadata(x, a, t)
  OBVIOUS
<1>6. e1 \in Escritos /\ e2 \in Escritos
  BY <1>3, <1>4, <1>5, EscritosTipo
<1>7. /\ d1 \in Discos /\ d1.md = MdTras(d.md, e1) /\ d1.bm = BmTras(d.bm, e1)
      /\ d1.bl = BlTras(d.bl, e1) /\ d1.es = EsTras(d.es, e1)
  BY <1>2, <1>4, <1>6, TrasBien
<1>8. /\ d2 \in Discos /\ d2.md = MdTras(d1.md, e2) /\ d2.bm = BmTras(d1.bm, e2)
      /\ d2.bl = BlTras(d1.bl, e2) /\ d2.es = EsTras(d1.es, e2)
  BY <1>5, <1>6, <1>7, TrasBien
<1>9. /\ e1.tipo = "copiar" /\ e1.desde = b /\ e1.hasta = a /\ e1.cant = q
  BY <1>4 DEF Copiar
<1>10. /\ e2.tipo = "metadata" /\ e2.nombre = x /\ e2.bloque = a /\ e2.tam = t
  BY <1>5 DEF Metadata
<1>11. PICK f : f = [bloque |-> a, tam |-> t]
  OBVIOUS
<1>12. d2.bm = d.bm /\ d2.es = d.es /\ d1.md = d.md
  BY <1>7, <1>8, <1>9, <1>10 DEF BmTras, EsTras, MdTras
<1>13. d2.md = [d.md EXCEPT ![x] = f]
  BY <1>8, <1>10, <1>11, <1>12 DEF MdTras
<1>14. f \in Fichas /\ f # Nada /\ f.bloque = a /\ f.tam = t
  BY <1>3, <1>11, DialFSAssumption DEF Fichas
<1>15. /\ d2.md[x] = f /\ \A y \in Nombres : y # x => d2.md[y] = d.md[y]
  BY <1>1, <1>13
<1>16. ASSUME NEW c \in Bloques
       PROVE  d2.bl[c] = IF a <= c /\ c < a + q
                         THEN (IF b + (c - a) \in Bloques THEN d.bl[b + (c - a)] ELSE Basura)
                         ELSE d.bl[c]
  <2>1. d2.bl[c] = d1.bl[c]
    BY <1>8, <1>10 DEF BlTras
  <2>2. QED
    BY <1>7, <1>9, <2>1 DEF BlTras
<1>17. PICK X \in SUBSET Nombres : X = Nombres \ {n}
  OBVIOUS
<1>18. Ordenado(d, X) /\ (\A y \in Estan(d, X) : Aparte(d, y, a, b)) /\ x \in Estan(d, X)
  BY <1>17 DEF Hueco, Estan
<1>19. Marcado(d, x) /\ Guarda(d, x)
  BY <1>18 DEF Ordenado
<1>20. ASSUME NEW y \in Estan(d, X), y # x
       PROVE  /\ y \in Nombres /\ Desde(d, y) \in Nat /\ Hasta(d, y) \in Nat
              /\ Desde(d, y) < Hasta(d, y)
              /\ Hasta(d, y) <= a \/ b + o <= Desde(d, y)
  <2>1. y \in Nombres /\ d.md[y] # Nada
    BY <1>20 DEF Estan
  <2>2. Desde(d, y) \in Nat /\ Hasta(d, y) \in Nat /\ Desde(d, y) < Hasta(d, y)
    <3>1. Guarda(d, y)
      BY <1>18, <1>20 DEF Ordenado
    <3>2. QED
      BY <2>1, <3>1, Medidas, Largas
  <2>3. Aparte(d, y, a, b)
    BY <1>18
  <2>4. Aparte(d, y, b, b + o)
    BY <1>3, <1>18, <1>20 DEF Ordenado
  <2>5. QED
    BY <1>3, <2>1, <2>2, <2>3, <2>4 DEF Aparte
<1>21. PICK Y \in SUBSET Nombres : Y = X \ {x}
  OBVIOUS
<1>22. Estan(d, Y) = Estan(d, X) \ {x} /\ Estan(d2, Y) = Estan(d, Y)
  BY <1>15, <1>21 DEF Estan
<1>23. Ordenado(d2, Y)
  <2>1. Ordenado(d, Y)
    BY <1>18, <1>22 DEF Ordenado
  <2>2. \A y \in Y : d2.md[y] = d.md[y] /\ d2.es[y] = d.es[y]
    BY <1>12, <1>15, <1>21
  <2>3. ASSUME NEW y \in Estan(d, Y), NEW c \in Nat, Desde(d, y) <= c, c < Hasta(d, y)
        PROVE  (c \in d.bm => c \in d2.bm) /\ d2.bl[c] = d.bl[c]
    <3>1. y \in Estan(d, X) /\ y # x
      BY <1>22, <2>3
    <3>2. Hasta(d, y) <= a \/ b + o <= Desde(d, y)
      BY <1>20, <3>1
    <3>3. Desde(d, y) \in Nat /\ Hasta(d, y) \in Nat
      BY <1>20, <3>1
    <3>4. ~(a <= c /\ c < a + q)
      BY <1>3, <2>3, <3>2, <3>3
    <3>5. c \in d.bm
      BY <1>18, <2>3, <3>1 DEF Ordenado, Marcado
    <3>6. QED
      BY <1>1, <1>12, <1>16, <3>4, <3>5
  <2>4. QED
    BY <2>1, <2>2, <2>3, MismoOrden
<1>24. ASSUME NEW y \in Estan(d2, Y)
       PROVE  Hasta(d2, y) <= a \/ b + o <= Desde(d2, y)
  <2>1. y \in Estan(d, X) /\ y # x /\ y \in Nombres
    BY <1>22, <1>24 DEF Estan
  <2>2. Desde(d2, y) = Desde(d, y) /\ Hasta(d2, y) = Hasta(d, y)
    BY <1>15, <2>1 DEF Desde, Hasta
  <2>3. QED
    BY <1>20, <2>1, <2>2
<1>25. Desde(d2, x) = a /\ Hasta(d2, x) = a + o
  BY <1>14, <1>15 DEF Desde, Hasta
<1>26. ASSUME NEW c \in Nat, a <= c, c < b + o PROVE c \in d.bm
  <2>1. CASE c < b
    BY <1>26, <2>1 DEF Marcados
  <2>2. CASE ~(c < b)
    BY <1>3, <1>19, <1>26, <2>2 DEF Marcado
  <2>3. QED
    BY <2>1, <2>2
<1>27. Marcado(d2, x)
  <2>1. ASSUME NEW c \in Nat, a <= c, c < a + o PROVE c \in d2.bm
    <3>1. c < b + o
      BY <1>3, <2>1
    <3>2. QED
      BY <1>12, <1>26, <2>1, <3>1
  <2>2. QED
    BY <1>25, <2>1 DEF Marcado
<1>28. Guarda(d2, x)
  <2>1. SUFFICES ASSUME Cabe, NEW k \in d2.es[x]
                 PROVE  k < EnBloques(d2.md[x].tam) /\ d2.bl[Desde(d2, x) + k] = <<x, k>>
    BY <1>3, <1>14, <1>15 DEF Guarda
  <2>2. k \in Nat /\ k < q /\ d.bl[b + k] = <<x, k>>
    BY <1>1, <1>2, <1>12, <1>19, <2>1 DEF Guarda
  <2>3. PICK c \in Nat : c = a + k
    BY <2>2
  <2>4. PICK g \in Nat : g = b + k
    BY <2>2
  <2>5. a <= c /\ c < a + q /\ c < b + o /\ b + (c - a) = g /\ a <= g /\ g < b + o
    BY <1>3, <2>2, <2>3, <2>4
  <2>6. c \in Bloques /\ g \in Bloques
    BY <1>1, <1>26, <2>5
  <2>7. d2.bl[c] = d.bl[g]
    BY <1>16, <2>5, <2>6
  <2>8. QED
    BY <1>2, <1>14, <1>15, <1>25, <2>2, <2>3, <2>4, <2>7
<1>29. Ordenado(d2, X)
  <2>1. \A y \in Estan(d2, X \ {x}) : Aparte(d2, y, a, b + o)
    BY <1>21, <1>24 DEF Aparte
  <2>2. a <= Desde(d2, x) /\ Hasta(d2, x) <= b + o
    BY <1>3, <1>25
  <2>3. b + o \in Nat
    BY <1>3
  <2>4. QED
    BY <1>8, <1>21, <1>23, <1>27, <1>28, <2>1, <2>2, <2>3, Sumar
<1>30. ASSUME NEW y \in Estan(d2, X) PROVE Aparte(d2, y, a + o, b + o)
  <2>1. CASE y = x
    BY <1>3, <1>25, <2>1 DEF Aparte
  <2>2. CASE y # x
    <3>1. y \in Estan(d2, Y) /\ y \in Estan(d, X) /\ y \in Nombres
      BY <1>21, <1>22, <1>30, <2>2 DEF Estan
    <3>2. Desde(d2, y) \in Nat /\ Hasta(d2, y) \in Nat
      <4>1. d2.md[y] # Nada
        BY <1>30 DEF Estan
      <4>2. QED
        BY <1>8, <3>1, <4>1, Medidas
    <3>3. QED
      BY <1>3, <1>24, <3>1, <3>2 DEF Aparte
  <2>3. QED
    BY <2>1, <2>2
<1>31. Marcados(d2, a + o, b + o)
  <2>1. ASSUME NEW c \in Nat, a + o <= c, c < b + o PROVE c \in d2.bm
    <3>1. a <= c
      BY <1>3, <2>1
    <3>2. QED
      BY <1>12, <1>26, <2>1, <3>1
  <2>2. QED
    BY <2>1 DEF Marcados
<1>32. Hueco(d2, n, a + o, b + o)
  BY <1>17, <1>29, <1>30 DEF Hueco
<1>33. QED
  BY <1>7, <1>8, <1>11, <1>12, <1>13, <1>31, <1>32 DEF Mudado

-----------------------------------------------------------------------------
(***************************************************************************)
(* A compaction for a file whose size is not a multiple of the block size. *)
(***************************************************************************)
LEMMA SiguienteEs ==
  ASSUME NEW n, NEW t \in Nat, t = metadata[n].tam, Justo(t), ~Multiplo(n), NEW i \in Nat
  PROVE  PrimerBloqueSiguiente(i, t) = i + Ocupa(t)
<1>1. BlockSize \in Nat \ {0} /\ EnBloques(t) = Abarca(t)
  BY Medida, JustoEs
<1>2. CASE t = 0
  <2>1. t \div BlockSize = 0
    <3>1. t = BlockSize * 0 + 0 /\ 0 < BlockSize
      BY <1>1, <1>2
    <3>2. QED
      BY <1>1, <3>1, CocienteUnico
  <2>2. QED
    BY <1>2, <2>1 DEF PrimerBloqueSiguiente, Ocupa
<1>3. CASE t # 0
  <2>1. PICK q \in Nat, r \in Nat : q = t \div BlockSize /\ r = t % BlockSize
                                    /\ r < BlockSize /\ t = BlockSize * q + r
    <3>1. /\ t \div BlockSize \in Nat /\ t % BlockSize \in 0..(BlockSize - 1)
          /\ t = BlockSize * (t \div BlockSize) + (t % BlockSize)
      BY <1>1, Cociente
    <3>2. PICK q \in Nat : q = t \div BlockSize
      BY <3>1
    <3>3. PICK r \in 0..(BlockSize - 1) : r = t % BlockSize
      BY <3>1
    <3>4. r \in Nat /\ r < BlockSize
      BY <1>1
    <3>5. t = BlockSize * q + r
      BY <3>1, <3>2, <3>3, Zenon
    <3>6. QED
      BY <3>2, <3>3, <3>4, <3>5, Zenon
  <2>2. r # 0
    BY <1>3, <2>1 DEF Multiplo
  <2>3. BlockSize * (q + 1) = BlockSize * q + BlockSize /\ BlockSize * q \in Nat
    BY <1>1
  <2>4. PICK bq \in Nat, b \in Nat : bq = BlockSize * q /\ b = BlockSize
    BY <1>1, <2>3
  <2>5. PICK s \in Nat : r = s + 1
    <3>1. r - 1 \in Nat /\ r = (r - 1) + 1
      BY <2>2
    <3>2. QED
      BY <3>1
  <2>6. t + BlockSize - 1 = BlockSize * (q + 1) + s /\ s < BlockSize /\ t + BlockSize - 1 \in Nat
    <3>1. t = bq + r /\ b >= 1 /\ r < b
      <4>1. t = bq + r
        BY <2>1, <2>4, Zenon
      <4>2. b >= 1
        BY <1>1, <2>4
      <4>3. r < b
        BY <2>1, <2>4, Zenon
      <4>4. QED
        BY <4>1, <4>2, <4>3
    <3>2. t + b - 1 = (bq + b) + s /\ s < b /\ t + b - 1 \in Nat
      BY <2>5, <3>1
    <3>3. QED
      BY <2>3, <2>4, <3>2
  <2>7. q + 1 \in Nat
    OBVIOUS
  <2>8. (t + BlockSize - 1) \div BlockSize = q + 1
    <3>1. PICK a \in Nat : a = t + BlockSize - 1
      BY <2>6
    <3>2. PICK k \in Nat : k = q + 1
      BY <2>7
    <3>3. a = BlockSize * k + s
      BY <2>6, <3>1, <3>2
    <3>4. a \div BlockSize = k
      BY <1>1, <2>6, <3>3, CocienteUnico
    <3>5. QED
      BY <3>1, <3>2, <3>4
  <2>9. Ocupa(t) = q + 1
    <3>1. t > 0
      BY <1>3
    <3>2. Abarca(t) = q + 1
      BY <2>8 DEF Abarca
    <3>3. QED
      BY <1>1, <3>1, <3>2 DEF Ocupa
  <2>10. QED
    BY <2>1, <2>9 DEF PrimerBloqueSiguiente
<1>4. QED
  BY <1>2, <1>3

(* The disk that the moves made so far lead to: the gap of the file is      *)
(* after the files that moved and before those that did not.                *)
EnCurso(d, d0, m, n) ==
    /\ d.md = m.md /\ d.bm = bitmap /\ d.es = d0.es
    /\ m.md[n] = metadata[n]
    /\ m.sig = m.pegar + Ocupa(metadata[n].tam)
    /\ Hueco(d, n, m.pegar, m.sig)
    /\ Marcados(d, m.pegar, m.sig)

Recorrido(d0, m, n) ==
    \/ /\ m.pegar = metadata[n].bloque /\ m.escrituras = <<>> /\ m.md = metadata
       /\ m.sig = PrimerBloqueSiguiente(metadata[n].bloque, metadata[n].tam)
    \/ /\ m.pegar > metadata[n].bloque
       /\ ~Multiplo(n) =>
            \E d \in Discos : Va(d0, m.escrituras, Discos, d) /\ EnCurso(d, d0, m, n)

LEMMA SinMoverse ==
  ASSUME metadata \in Directorios, NEW n \in Existentes, ~Multiplo(n),
         NEW d0 \in Discos, d0.md = metadata, d0.bm = bitmap, Bueno(d0),
         NEW m, m.pegar = metadata[n].bloque, m.escrituras = <<>>, m.md = metadata,
         m.sig = PrimerBloqueSiguiente(metadata[n].bloque, metadata[n].tam)
  PROVE  Va(d0, m.escrituras, Discos, d0) /\ EnCurso(d0, d0, m, n)
<1>1. n \in Nombres /\ d0.md[n] # Nada
  BY DEF Existentes
<1>2. d0.md[n].tam \in Nat /\ Desde(d0, n) \in Nat
  BY <1>1, Medidas
<1>3. Hueco(d0, n, Desde(d0, n), Hasta(d0, n)) /\ Marcado(d0, n)
  BY <1>1, Apertura
<1>4. Desde(d0, n) = m.pegar
  BY DEF Desde
<1>5. PICK t \in Nat, i \in Nat : t = metadata[n].tam /\ i = metadata[n].bloque /\ Justo(t)
  <2>1. Justo(d0.md[n].tam)
    BY <1>1, DeBueno, Largas
  <2>2. QED
    BY <1>2, <2>1 DEF Desde
<1>6. PrimerBloqueSiguiente(i, t) = i + Ocupa(t)
  BY <1>5, SiguienteEs
<1>7. m.sig = m.pegar + Ocupa(metadata[n].tam) /\ Hasta(d0, n) = m.sig
  BY <1>5, <1>6 DEF Hasta
<1>8. Va(d0, <<>>, Discos, d0)
  BY VaNada
<1>9. EnCurso(d0, d0, m, n)
  BY <1>3, <1>4, <1>7 DEF EnCurso, Marcado, Marcados
<1>10. QED
  BY <1>8, <1>9

LEMMA MudarRecorrido ==
  ASSUME archivos \in Seq(Nombres), metadata \in Directorios, NEW n \in Existentes, NEW libre,
         NEW d0 \in Discos, d0.md = metadata, d0.bm = bitmap, Bueno(d0),
         NEW m \in Mudas(SobreLosQueHay(n)), LosMismos(m.md), Recorrido(d0, m, n)
  PROVE  Recorrido(d0, Mudar(m, libre, n), n)
<1> DEFINE U == SobreLosQueHay(n)
<1>1. /\ m.ok \in BOOLEAN /\ m.md \in Directorios /\ m.escrituras \in Seq(U)
      /\ m.sig \in Nat /\ m.pegar \in Nat
  BY DEF Mudas
<1>2. PICK x : x = PorBloqueInicial(m.md, m.sig)
  OBVIOUS
<1>3. n \in Nombres /\ metadata[n] \in Fichas /\ metadata[n].bloque \in Nat /\ metadata[n].tam \in Nat
  BY DEF Existentes, Directorios, Fichas
<1>4. CASE ~(m.ok /\ m.sig < libre)
  BY <1>4 DEF Mudar
<1>5. CASE m.ok /\ m.sig < libre /\ x = Nada
  <2>1. Mudar(m, libre, n) = [m EXCEPT !.ok = FALSE]
    BY <1>2, <1>5 DEF Mudar, MoverBloquesArchivo
  <2>2. PICK h : h = Mudar(m, libre, n)
    OBVIOUS
  <2>3. h.md = m.md /\ h.escrituras = m.escrituras /\ h.sig = m.sig /\ h.pegar = m.pegar
    BY <2>1, <2>2 DEF Mudas
  <2>4. Recorrido(d0, h, n)
    BY <2>3 DEF Recorrido, EnCurso
  <2>5. QED
    BY <2>2, <2>4
<1>6. CASE m.ok /\ m.sig < libre /\ x # Nada
  <2>1. x \in Nombres /\ m.md[x] # Nada /\ m.md[x].bloque = m.sig
    BY <1>1, <1>2, <1>6, PorBloqueTipo
  <2>2. PICK t \in Nat : t = m.md[x].tam
    BY <1>1, <2>1 DEF Directorios, Fichas
  <2>3. PICK o \in Nat : o = Ocupa(t) /\ o >= 1
    <3>1. d0.md[x] # Nada /\ d0.md[x].tam = t
      BY <2>1, <2>2 DEF LosMismos
    <3>2. QED
      BY <2>1, <3>1, DeBueno, Largas
  <2>4. PICK e1 : e1 = Copiar(m.sig, m.pegar, Abarca(t))
    OBVIOUS
  <2>5. PICK e2 : e2 = Metadata(x, m.pegar, t)
    OBVIOUS
  <2>6. PICK md2 : md2 = [m.md EXCEPT ![x] = [bloque |-> m.pegar, tam |-> t]]
    OBVIOUS
  <2>7. Mudar(m, libre, n) = MoverBloquesArchivo(m, n)
    BY <1>6 DEF Mudar
  <2>8. Mudar(m, libre, n) = [ok |-> TRUE, md |-> md2,
                              escrituras |-> m.escrituras \o <<e1, e2>>,
                              sig |-> m.sig + o, pegar |-> m.pegar + o]
    <3>1. Mudar(m, libre, n) = [ok |-> o > 0, md |-> md2,
                                escrituras |-> m.escrituras \o <<e1, e2>>,
                                sig |-> m.sig + o, pegar |-> m.pegar + o]
      BY <1>2, <1>6, <2>2, <2>3, <2>4, <2>5, <2>6, <2>7, Zenon
         DEF MoverBloquesArchivo, TamanioDelMovido
    <3>2. (o > 0) = TRUE
      BY <2>3
    <3>3. QED
      BY <3>1, <3>2
  <2>9. PICK h : h = Mudar(m, libre, n)
    OBVIOUS
  <2>10. /\ h.md = md2 /\ h.escrituras = m.escrituras \o <<e1, e2>>
         /\ h.sig = m.sig + o /\ h.pegar = m.pegar + o
    BY <2>8, <2>9
  <2>11. m.pegar >= metadata[n].bloque
    BY <1>1, <1>3 DEF Recorrido
  <2>12. h.pegar > metadata[n].bloque
    BY <1>1, <1>3, <2>3, <2>10, <2>11
  <2>13. ASSUME ~Multiplo(n)
         PROVE  \E d \in Discos : Va(d0, h.escrituras, Discos, d) /\ EnCurso(d, d0, h, n)
    <3>1. PICK d \in Discos : Va(d0, m.escrituras, Discos, d) /\ EnCurso(d, d0, m, n)
      <4>1. CASE m.pegar > metadata[n].bloque
        BY <1>3, <2>13, <4>1 DEF Recorrido
      <4>2. CASE ~(m.pegar > metadata[n].bloque)
        <5>1. /\ m.pegar = metadata[n].bloque /\ m.escrituras = <<>> /\ m.md = metadata
              /\ m.sig = PrimerBloqueSiguiente(metadata[n].bloque, metadata[n].tam)
          BY <4>2 DEF Recorrido
        <5>2. QED
          BY <2>13, <5>1, SinMoverse
      <4>3. QED
        BY <4>1, <4>2
    <3>2. /\ d.md = m.md /\ d.bm = bitmap /\ d.es = d0.es
          /\ m.md[n] = metadata[n] /\ m.sig = m.pegar + Ocupa(metadata[n].tam)
          /\ Hueco(d, n, m.pegar, m.sig)
          /\ Marcados(d, m.pegar, m.sig)
      BY <3>1 DEF EnCurso
    <3>3. m.pegar < m.sig
      <4>1. PICK v \in Nat : v = Ocupa(metadata[n].tam) /\ v >= 1
        <5>1. d0.md[n] # Nada
          BY DEF Existentes
        <5>2. QED
          BY <1>3, <5>1, DeBueno, Largas
      <4>2. QED
        BY <1>1, <3>2, <4>1
    <3>4. x # n
      BY <1>1, <1>3, <2>1, <2>11, <3>2, <3>3
    <3>5. Desde(d, x) = m.sig /\ d.md[x] # Nada /\ t = d.md[x].tam
      BY <2>1, <2>2, <3>2 DEF Desde
    <3>6. PICK d1 : d1 = Tras(d, e1)
      OBVIOUS
    <3>7. PICK d2 : d2 = Tras(d1, e2)
      OBVIOUS
    <3>8. /\ d1 \in Discos /\ d2 \in Discos
          /\ Hueco(d2, n, m.pegar + o, m.sig + o)
          /\ Marcados(d2, m.pegar + o, m.sig + o)
          /\ Mudado(d, d2, x, m.pegar, t)
      <4>1. PICK a \in Nat : a = m.pegar
        BY <1>1
      <4>2. PICK b \in Nat : b = m.sig
        BY <1>1
      <4>3. a < b /\ Hueco(d, n, a, b) /\ Desde(d, x) = b
        BY <3>2, <3>3, <3>5, <4>1, <4>2
      <4>4. Marcados(d, a, b)
        BY <3>2, <4>1, <4>2
      <4>5. d1 = Tras(d, Copiar(b, a, Abarca(t))) /\ d2 = Tras(d1, Metadata(x, a, t))
        BY <2>4, <2>5, <3>6, <3>7, <4>1, <4>2
      <4>6. /\ d1 \in Discos /\ d2 \in Discos
            /\ Hueco(d2, n, a + o, b + o)
            /\ Marcados(d2, a + o, b + o)
            /\ Mudado(d, d2, x, a, t)
        <5> HIDE DEF Existentes
        <5>1. n \in Nombres /\ x \in Nombres /\ d \in Discos /\ x # n /\ d.md[x] # Nada
              /\ t = d.md[x].tam /\ o = Ocupa(t)
          BY <1>3, <2>1, <2>3, <3>1, <3>4, <3>5
        <5>2. QED
          BY <4>1, <4>2, <4>3, <4>4, <4>5, <5>1, MudaElHueco
      <4>7. QED
        BY <4>1, <4>2, <4>6, Zenon
    <3>9. d2.md = md2
      BY <2>6, <3>2, <3>8 DEF Mudado
    <3>10. md2[n] = metadata[n]
      <4>1. PICK f : f = [bloque |-> m.pegar, tam |-> t]
        OBVIOUS
      <4>2. md2 = [m.md EXCEPT ![x] = f]
        BY <2>6, <4>1
      <4>3. QED
        BY <1>1, <1>3, <3>2, <3>4, <4>2 DEF Directorios
    <3>11. h.sig = h.pegar + Ocupa(metadata[n].tam)
      <4>1. PICK v \in Nat : v = Ocupa(metadata[n].tam)
        BY <1>3, OcupaTipo
      <4>2. QED
        BY <1>1, <2>3, <2>10, <3>2, <4>1
    <3>12. EnCurso(d2, d0, h, n)
      BY <2>10, <3>2, <3>8, <3>9, <3>10, <3>11 DEF EnCurso, Mudado
    <3>13. Va(d, <<e1>>, Discos, d1) /\ Va(d1, <<e2>>, Discos, d2)
      BY <3>6, <3>7, <3>8, VaUno
    <3>14. Va(d, <<e1, e2>>, Discos, d2)
      <4>1. <<e1>> \in Seq({e1, e2}) /\ <<e2>> \in Seq({e1, e2}) /\ <<e1, e2>> = <<e1>> \o <<e2>>
        OBVIOUS
      <4>2. Va(d, <<e1>> \o <<e2>>, Discos, d2)
        BY <3>13, <4>1, VaJunto
      <4>3. QED
        BY <4>1, <4>2
    <3>15. Va(d0, h.escrituras, Discos, d2)
      <4>1. PICK W : W = U \cup {e1, e2}
        OBVIOUS
      <4>2. m.escrituras \in Seq(W)
        <5> HIDE DEF U
        <5>1. U \subseteq W
          BY <4>1
        <5>2. QED
          BY <1>1, <5>1, SeqMonotonic
      <4>3. <<e1, e2>> \in Seq(W)
        <5>1. e1 \in W /\ e2 \in W
          BY <4>1
        <5>2. QED
          BY <5>1
      <4>4. PICK E \in Seq(W) : E = m.escrituras
        BY <4>2
      <4>5. PICK F \in Seq(W) : F = <<e1, e2>>
        BY <4>3
      <4>6. Va(d0, E \o F, Discos, d2)
        BY <3>1, <3>14, <4>4, <4>5, VaJunto
      <4>7. QED
        BY <2>10, <4>4, <4>5, <4>6
    <3>16. QED
      BY <3>8, <3>12, <3>15
  <2>14. Recorrido(d0, h, n)
    BY <2>12, <2>13 DEF Recorrido
  <2>15. QED
    BY <2>9, <2>14
<1>7. QED
  BY <1>4, <1>5, <1>6

(* The metadata of a file written for a place in its gap.                   *)
EstaEn(d, n, a, t) == d.md[n] # Nada /\ d.md[n].bloque = a /\ d.md[n].tam = t

LEMMA Poner ==
  ASSUME NEW d \in Discos, NEW n \in Nombres, NEW a \in Nat, NEW b \in Nat, Hueco(d, n, a, b),
         NEW t \in Nat, NEW d2, d2 = Tras(d, Metadata(n, a, t))
  PROVE  /\ d2 \in Discos /\ Hueco(d2, n, a, b) /\ EstaEn(d2, n, a, t)
         /\ d2.bm = d.bm /\ d2.bl = d.bl /\ d2.es = d.es
<1>1. PICK e \in Escritos : e = Metadata(n, a, t)
  BY EscritosTipo
<1>2. e.tipo = "metadata" /\ e.nombre = n /\ e.bloque = a /\ e.tam = t
  BY <1>1 DEF Metadata
<1>3. /\ d2 \in Discos /\ d2.md = MdTras(d.md, e) /\ d2.bm = BmTras(d.bm, e)
      /\ d2.bl = BlTras(d.bl, e) /\ d2.es = EsTras(d.es, e)
  BY <1>1, TrasBien
<1>4. Hueco(d2, n, a, b)
  BY <1>1, <1>2, HuecoQueda DEF DeSuHueco
<1>5. PICK f : f = [bloque |-> a, tam |-> t]
  OBVIOUS
<1>6. d2.md = [d.md EXCEPT ![n] = f]
  BY <1>2, <1>3, <1>5 DEF MdTras
<1>7. d2.md[n] = f
  BY <1>6 DEF Discos, Directorios
<1>8. f # Nada /\ f.bloque = a /\ f.tam = t
  BY <1>5, DialFSAssumption
<1>9. d2.bm = d.bm /\ d2.es = d.es
  BY <1>2, <1>3 DEF BmTras, EsTras
<1>10. d2.bl = d.bl
  <2>1. d.bl = [c \in Bloques |-> d.bl[c]]
    BY DEF Discos
  <2>2. BlTras(d.bl, e) = [c \in Bloques |-> d.bl[c]]
    BY <1>2 DEF BlTras
  <2>3. QED
    BY <1>3, <2>1, <2>2
<1>11. QED
  BY <1>3, <1>4, <1>7, <1>8, <1>9, <1>10 DEF EstaEn

(* A file that is within its gap, on marked blocks.                         *)
LEMMA EnSuSitio ==
  ASSUME NEW d \in Discos, NEW n \in Nombres, NEW a \in Nat, NEW b \in Nat, Hueco(d, n, a, b),
         NEW t \in Nat, Justo(t), EstaEn(d, n, a, t), a + Ocupa(t) <= b,
         Marcados(d, a, a + Ocupa(t)),
         Cabe => \A k \in d.es[n] : k < EnBloques(t) /\ d.bl[a + k] = <<n, k>>
  PROVE  Bueno(d)
<1>1. Desde(d, n) = a /\ Hasta(d, n) = a + Ocupa(t)
  BY DEF EstaEn, Desde, Hasta
<1>2. Marcado(d, n) /\ Guarda(d, n)
  BY <1>1 DEF Marcado, Marcados, Guarda, EstaEn
<1>3. QED
  BY <1>1, <1>2, Cierre

(* The bits of the gap and a block that is written over.                    *)
LEMMA Tocar ==
  ASSUME NEW d \in Discos, NEW n \in Nombres, NEW a \in Nat, NEW b \in Nat, Hueco(d, n, a, b),
         NEW e \in Escritos,
         \/ e.tipo = "usar"
         \/ e.tipo \in {"liberar", "pisar"} /\ a <= e.bloque /\ e.bloque < b,
         NEW d2, d2 = Tras(d, e)
  PROVE  /\ d2 \in Discos /\ Hueco(d2, n, a, b)
         /\ d2.md = d.md /\ d2.es = d.es
         /\ d2.bm = BmTras(d.bm, e)
         /\ e.tipo # "pisar" => d2.bl = d.bl
<1>1. /\ d2 \in Discos /\ d2.md = MdTras(d.md, e) /\ d2.bm = BmTras(d.bm, e)
      /\ d2.bl = BlTras(d.bl, e) /\ d2.es = EsTras(d.es, e)
  BY TrasBien
<1>2. Hueco(d2, n, a, b)
  BY HuecoQueda DEF DeSuHueco
<1>3. d2.md = d.md /\ d2.es = d.es
  BY <1>1 DEF MdTras, EsTras
<1>4. ASSUME e.tipo # "pisar" PROVE d2.bl = d.bl
  <2>1. d.bl = [c \in Bloques |-> d.bl[c]]
    BY DEF Discos
  <2>2. BlTras(d.bl, e) = [c \in Bloques |-> d.bl[c]]
    BY <1>4 DEF BlTras
  <2>3. QED
    BY <1>1, <2>1, <2>2
<1>5. QED
  BY <1>1, <1>2, <1>3, <1>4

LEMMA CompactarEs ==
  ASSUME archivos \in Seq(Nombres), metadata \in Directorios, NEW n \in Existentes,
         NEW d0 \in Discos, d0.md = metadata, d0.bm = bitmap, Bueno(d0)
  PROVE  \E fin \in Mudas(SobreLosQueHay(n)) :
           /\ Recorrido(d0, fin, n)
           /\ Compactar(n) =
                IF fin.ok
                THEN [fin EXCEPT !.escrituras =
                        @ \o <<Pisar(fin.pegar), Metadata(n, fin.pegar, metadata[n].tam)>>]
                ELSE fin
<1> DEFINE U == SobreLosQueHay(n)
           tam == metadata[n].tam
           libre == PrimerBloqueLibre
           inicio == [ok |-> libre # Nada, md |-> metadata, escrituras |-> <<>>,
                      sig |-> PrimerBloqueSiguiente(metadata[n].bloque, tam),
                      pegar |-> metadata[n].bloque]
           fin == Mudanza(inicio, libre, n)
           M == {m \in Mudas(U) : Recorrido(d0, m, n)}
<1>1. metadata[n].bloque \in Nat /\ tam \in Nat
  BY DEF Existentes, Directorios, Fichas
<1>2. PrimerBloqueSiguiente(metadata[n].bloque, tam) \in Nat
  <2>1. tam \div BlockSize \in Nat
    <3> HIDE DEF tam
    <3>1. QED
      BY <1>1, Cociente, Medida
  <2> HIDE DEF tam
  <2>2. QED
    BY <1>1, <2>1 DEF PrimerBloqueSiguiente
<1>3. inicio \in Mudas(U)
  BY <1>1, <1>2 DEF Mudas
<1>4. Recorrido(d0, inicio, n)
  BY DEF Recorrido
<1>5. LosMismos(metadata)
  BY DEF LosMismos
<1>6. \A m \in Mudas(U) : LosMismos(m.md) /\ Recorrido(d0, m, n) =>
                             Recorrido(d0, Mudar(m, libre, n), n)
  <2> HIDE DEF libre, U
  <2>1. QED
    BY MudarRecorrido DEF U
<1>7. QED
  <2> DEFINE K == {m \in M : LosMismos(m.md)}
  <2>1. inicio \in K
    BY <1>3, <1>4, <1>5
  <2>2. \A m \in K : Mudar(m, libre, n) \in K
    <3> HIDE DEF libre, inicio
    <3>1. ASSUME NEW m \in K PROVE Mudar(m, libre, n) \in K
      <4>1. m \in Mudas(U) /\ Recorrido(d0, m, n) /\ LosMismos(m.md)
        OBVIOUS
      <4>2. Mudar(m, libre, n) \in Mudas(U) /\ LosMismos(Mudar(m, libre, n).md)
        BY <4>1, MudarBien
      <4>3. Recorrido(d0, Mudar(m, libre, n), n)
        BY <1>6, <4>1
      <4> HIDE DEF U
      <4>4. QED
        BY <4>2, <4>3
    <3>2. QED
      BY <3>1
  <2>3. fin \in K
    <3> HIDE DEF K, libre, inicio
    <3>1. QED
      BY <2>1, <2>2, MudanzaGuarda
  <2>4. Compactar(n) =
          IF fin.ok
          THEN [fin EXCEPT !.escrituras = @ \o <<Pisar(fin.pegar), Metadata(n, fin.pegar, tam)>>]
          ELSE fin
    BY Zenon DEF Compactar
  <2>5. PICK g : g = fin
    OBVIOUS
  <2>6. g \in Mudas(U) /\ Recorrido(d0, g, n)
    BY <2>3, <2>5
  <2> HIDE DEF fin, U
  <2>7. QED
    BY <2>4, <2>5, <2>6, Zenon DEF U

(* What is left of a compaction that does not break the disk.               *)
Compactado(d, d0, p, n) ==
    /\ Bueno(d) /\ d.bm = bitmap /\ d.es = d0.es
    /\ EstaEn(d, n, p, metadata[n].tam)

LEMMA CompactarQueda ==
  ASSUME archivos \in Seq(Nombres), metadata \in Directorios, NEW n \in Existentes,
         NEW d0 \in Discos, d0.md = metadata, d0.bm = bitmap, Bueno(d0), d0.es[n] = {},
         NEW c, c = Compactar(n), Compacta(n, c)
  PROVE  /\ c.pegar \in Nat /\ c.ok \in BOOLEAN
         /\ c.ok => \E d \in Discos : Va(d0, c.escrituras, Discos, d) /\ Compactado(d, d0, c.pegar, n)
         /\ ~c.ok => c.escrituras = <<>>
         /\ c.ok /\ ~Mueve(n, c) =>
              c.escrituras = <<Pisar(c.pegar), Metadata(n, c.pegar, metadata[n].tam)>>
<1> DEFINE U == SobreLosQueHay(n)
<1>1. PICK fin \in Mudas(U) :
           /\ Recorrido(d0, fin, n)
           /\ c = IF fin.ok
                  THEN [fin EXCEPT !.escrituras =
                          @ \o <<Pisar(fin.pegar), Metadata(n, fin.pegar, metadata[n].tam)>>]
                  ELSE fin
  BY CompactarEs, Zenon
<1>2. /\ fin.ok \in BOOLEAN /\ fin.escrituras \in Seq(U) /\ fin.pegar \in Nat /\ fin.sig \in Nat
  BY DEF Mudas
<1>3. PICK p \in Nat : p = fin.pegar
  BY <1>2
<1>4. PICK t \in Nat, i \in Nat : t = metadata[n].tam /\ i = metadata[n].bloque
  <2>1. metadata[n].tam \in Nat /\ metadata[n].bloque \in Nat
    BY DEF Existentes, Directorios, Fichas
  <2>2. QED
    BY <2>1
<1>5. PICK e1 \in Escritos : e1 = Pisar(p)
  BY EscritosTipo
<1>6. n \in Nombres /\ metadata[n] # Nada
  BY DEF Existentes
<1>7. PICK e2 \in Escritos : e2 = Metadata(n, p, t)
  BY <1>6, EscritosTipo
<1>8. /\ c.pegar = p /\ c.ok = fin.ok
      /\ fin.ok => c.escrituras = fin.escrituras \o <<e1, e2>>
      /\ ~fin.ok => c.escrituras = fin.escrituras
  <2>1. PICK w : w = fin.escrituras \o <<e1, e2>>
    OBVIOUS
  <2>2. c = IF fin.ok THEN [fin EXCEPT !.escrituras = w] ELSE fin
    BY <1>1, <1>3, <1>4, <1>5, <1>7, <2>1, Zenon
  <2>3. [fin EXCEPT !.escrituras = w].pegar = p /\ [fin EXCEPT !.escrituras = w].ok = fin.ok
        /\ [fin EXCEPT !.escrituras = w].escrituras = w
    BY <1>3 DEF Mudas
  <2>4. QED
    BY <1>3, <2>1, <2>2, <2>3
<1>9. Mueve(n, c) <=> p # i
  BY <1>4, <1>8 DEF Mueve
<1>10. p = i => fin.escrituras = <<>>
  BY <1>1, <1>2, <1>3, <1>4 DEF Recorrido
<1>11. p # i => fin.ok /\ ~Multiplo(n)
  BY <1>8, <1>9 DEF Compacta
<1>12. ASSUME fin.ok
       PROVE  \E d \in Discos : Va(d0, c.escrituras, Discos, d) /\ Compactado(d, d0, p, n)
  <2>1. PICK v \in Nat : v = Ocupa(t) /\ v >= 1 /\ Justo(t)
    BY <1>4, <1>6, DeBueno, Largas
  <2>2. PICK d \in Discos : /\ Va(d0, fin.escrituras, Discos, d)
                            /\ d.bm = bitmap /\ d.es = d0.es
                            /\ Hueco(d, n, p, p + v) /\ Marcados(d, p, p + v)
    <3>1. CASE p = i
      <4>1. Va(d0, fin.escrituras, Discos, d0)
        BY <1>10, <3>1, VaNada
      <4>2. Desde(d0, n) = p /\ Hasta(d0, n) = p + v
        BY <1>4, <2>1, <3>1 DEF Desde, Hasta
      <4>3. Hueco(d0, n, p, p + v) /\ Marcado(d0, n)
        BY <1>6, <4>2, Apertura
      <4>4. Marcados(d0, p, p + v)
        BY <4>2, <4>3 DEF Marcado, Marcados
      <4>5. QED
        BY <4>1, <4>3, <4>4
    <3>2. CASE p # i
      <4>1. \E d \in Discos : Va(d0, fin.escrituras, Discos, d) /\ EnCurso(d, d0, fin, n)
        BY <1>1, <1>3, <1>4, <1>11, <3>2 DEF Recorrido
      <4>2. PICK d \in Discos : Va(d0, fin.escrituras, Discos, d) /\ EnCurso(d, d0, fin, n)
        BY <4>1
      <4>3. fin.sig = p + v
        BY <1>3, <1>4, <2>1, <4>2 DEF EnCurso
      <4>4. QED
        BY <1>3, <4>2, <4>3 DEF EnCurso
    <3>3. QED
      BY <3>1, <3>2
  <2>3. e1.tipo = "pisar" /\ e1.bloque = p
    BY <1>5 DEF Pisar
  <2>4. p <= e1.bloque /\ e1.bloque < p + v /\ p + v \in Nat
    BY <2>1, <2>3
  <2>5. PICK d1 : d1 = Tras(d, e1)
    OBVIOUS
  <2>6. /\ d1 \in Discos /\ Hueco(d1, n, p, p + v) /\ d1.md = d.md /\ d1.es = d.es /\ d1.bm = d.bm
    <3>1. /\ d1 \in Discos /\ Hueco(d1, n, p, p + v) /\ d1.md = d.md /\ d1.es = d.es
          /\ d1.bm = BmTras(d.bm, e1)
      <4>1. e1.tipo \in {"liberar", "pisar"} /\ p <= e1.bloque /\ e1.bloque < p + v
        BY <2>3, <2>4
      <4>2. PICK b \in Nat : b = p + v
        BY <2>4
      <4>3. Hueco(d, n, p, b) /\ e1.bloque < b
        BY <2>2, <4>1, <4>2
      <4>4. /\ d1 \in Discos /\ Hueco(d1, n, p, b) /\ d1.md = d.md /\ d1.es = d.es
            /\ d1.bm = BmTras(d.bm, e1)
        BY <1>5, <1>6, <2>2, <2>5, <4>1, <4>3, Tocar
      <4>5. QED
        BY <4>2, <4>4
    <3>2. BmTras(d.bm, e1) = d.bm
      BY <2>3 DEF BmTras
    <3>3. QED
      BY <3>1, <3>2
  <2>7. PICK d2 : d2 = Tras(d1, e2)
    OBVIOUS
  <2>8. /\ d2 \in Discos /\ Hueco(d2, n, p, p + v) /\ EstaEn(d2, n, p, t)
        /\ d2.bm = d1.bm /\ d2.es = d1.es
    BY <1>6, <1>7, <2>4, <2>6, <2>7, Poner
  <2>9. Bueno(d2)
    <3>1. Marcados(d2, p, p + Ocupa(t))
      BY <2>1, <2>2, <2>6, <2>8 DEF Marcados
    <3>2. d2.es[n] = {}
      BY <2>2, <2>6, <2>8
    <3>3. p + Ocupa(t) <= p + v
      BY <2>1, <2>4
    <3>4. QED
      BY <1>6, <2>1, <2>4, <2>8, <3>1, <3>2, <3>3, EnSuSitio
  <2>10. Va(d, <<e1, e2>>, Discos, d2)
    <3>1. <<e1>> \in Seq(Escritos) /\ <<e2>> \in Seq(Escritos) /\ <<e1, e2>> = <<e1>> \o <<e2>>
      OBVIOUS
    <3>2. Va(d, <<e1>>, Discos, d1) /\ Va(d1, <<e2>>, Discos, d2)
      BY <2>5, <2>6, <2>7, <2>8, VaUno
    <3>3. Va(d, <<e1>> \o <<e2>>, Discos, d2)
      BY <3>1, <3>2, VaJunto
    <3>4. QED
      BY <3>1, <3>3
  <2>11. Va(d0, c.escrituras, Discos, d2)
    <3>1. U \subseteq Escritos
      BY DEF SobreLosQueHay, DePedido
    <3>2. PICK E \in Seq(Escritos) : E = fin.escrituras
      BY <1>2, <3>1, SeqMonotonic
    <3>3. PICK F \in Seq(Escritos) : F = <<e1, e2>>
      <4>1. <<e1, e2>> \in Seq(Escritos)
        BY <1>5, <1>7
      <4>2. QED
        BY <4>1
    <3>4. Va(d0, E \o F, Discos, d2)
      BY <2>2, <2>10, <3>2, <3>3, VaJunto
    <3>5. QED
      BY <1>8, <1>12, <3>2, <3>3, <3>4
  <2>12. Compactado(d2, d0, p, n)
    BY <1>4, <2>2, <2>6, <2>8, <2>9 DEF Compactado
  <2>13. QED
    BY <2>8, <2>11, <2>12
<1>13. ~fin.ok => c.escrituras = <<>>
  BY <1>8, <1>10, <1>11
<1>14. ASSUME fin.ok, ~Mueve(n, c)
       PROVE  c.escrituras = <<Pisar(c.pegar), Metadata(n, c.pegar, metadata[n].tam)>>
  <2>1. <<>> \o <<e1, e2>> = <<e1, e2>>
    OBVIOUS
  <2>2. c.escrituras = <<e1, e2>>
    BY <1>8, <1>9, <1>10, <1>14, <2>1
  <2>3. QED
    BY <1>4, <1>5, <1>7, <1>8, <2>2, Zenon
<1>15. QED
  BY <1>2, <1>8, <1>12, <1>13, <1>14

-----------------------------------------------------------------------------
(***************************************************************************)
(* Lists of bits to clear and to set.                                      *)
(***************************************************************************)
Buenos == {d \in Discos : Bueno(d)}

(* A disk that differs from d in bits only.                                 *)
SoloBits(x, d, n, a, b) ==
    /\ x.md = d.md /\ x.es = d.es /\ x.bl = d.bl /\ Hueco(x, n, a, b)

(* Lists that clear bits of the gap from corte on, and that set bits from   *)
(* base on, and the disks that such lists lead to.                          *)
Liberan(E, corte, b) ==
    \A k \in 1..Len(E) : E[k].tipo = "liberar" /\ corte <= E[k].bloque /\ E[k].bloque < b

Usan(E, base) == \A k \in 1..Len(E) : E[k] = Usar(base + k - 1) /\ base + k - 1 \in Bloques

Limpios(d, n, a, b, corte) ==
    {x \in Discos : SoloBits(x, d, n, a, b) /\ \A c \in Nat : c < corte /\ c \in d.bm => c \in x.bm}

Usados(d, n, a, b, base, k) ==
    {x \in Discos : /\ SoloBits(x, d, n, a, b)
                    /\ \A c \in Nat : c \in d.bm \/ (base <= c /\ c < base + k) => c \in x.bm}

LEMMA LiberarUno ==
  ASSUME NEW n \in Nombres, NEW a \in Nat, NEW b \in Nat, NEW d,
         NEW x \in Discos, SoloBits(x, d, n, a, b), NEW e \in Escritos, e.tipo = "liberar",
         a <= e.bloque, e.bloque < b, NEW y, y = Tras(x, e)
  PROVE  y \in Discos /\ SoloBits(y, d, n, a, b) /\ y.bm = x.bm \ {e.bloque}
<1>1. Hueco(x, n, a, b) /\ e.tipo # "pisar" /\ e.tipo \in {"liberar", "pisar"}
  BY DEF SoloBits
<1>2. /\ y \in Discos /\ Hueco(y, n, a, b) /\ y.md = x.md /\ y.es = x.es
      /\ y.bm = BmTras(x.bm, e) /\ y.bl = x.bl
  BY <1>1, Tocar
<1>3. QED
  BY <1>2 DEF BmTras, SoloBits

LEMMA Liberando ==
  ASSUME NEW n \in Nombres, NEW a \in Nat, NEW b \in Nat, NEW corte \in Nat, a <= corte,
         NEW d \in Discos, Hueco(d, n, a, b), NEW E \in Seq(Escritos), Liberan(E, corte, b),
         NEW S, Limpios(d, n, a, b, corte) \subseteq S
  PROVE  \E fin \in Limpios(d, n, a, b, corte) : Va(d, E, S, fin)
<1> DEFINE Q == {x \in Discos : /\ SoloBits(x, d, n, a, b)
                                /\ \A c \in Nat : c < corte /\ c \in d.bm => c \in x.bm}
           T == [k \in 0..Len(E) |-> Q]
<1>0. /\ Limpios(d, n, a, b, corte) = Q
      /\ \A k \in 1..Len(E) : E[k].tipo = "liberar" /\ corte <= E[k].bloque /\ E[k].bloque < b
  BY DEF Limpios, Liberan
<1>1. Len(E) \in Nat
  BY LenProperties
<1>2. Q \subseteq S /\ d \in Q
  BY <1>0 DEF SoloBits
<1>3. ASSUME NEW k \in 1..Len(E), NEW x \in Q PROVE Tras(x, E[k]) \in Q
  <2>1. PICK e : e = E[k]
    OBVIOUS
  <2>2. e \in Escritos /\ e.tipo = "liberar" /\ corte <= e.bloque /\ e.bloque < b /\ e.bloque \in Nat
    BY <1>0, <1>1, <2>1, ElementOfSeq, EscritosCampos
  <2>3. PICK y : y = Tras(x, e)
    OBVIOUS
  <2>4. x \in Discos /\ SoloBits(x, d, n, a, b) /\ \A c \in Nat : c < corte /\ c \in d.bm => c \in x.bm
    OBVIOUS
  <2>5. a <= e.bloque
    BY <2>2
  <2> HIDE DEF Q, T
  <2>6. /\ y \in Discos /\ SoloBits(y, d, n, a, b) /\ y.bm = x.bm \ {e.bloque}
    BY <2>2, <2>3, <2>4, <2>5, LiberarUno
  <2>7. \A c \in Nat : c < corte /\ c \in d.bm => c \in y.bm
    BY <2>2, <2>4, <2>6
  <2>8. QED
    BY <2>1, <2>3, <2>6, <2>7 DEF Q
<1> HIDE DEF Q
<1>4. \A k \in 0..Len(E) : T[k] = Q
  OBVIOUS
<1>5. \A k \in 1..Len(E) : k \in 0..Len(E) /\ k - 1 \in 0..Len(E)
  BY <1>1
<1>6. 0 \in 0..Len(E) /\ Len(E) \in 0..Len(E)
  BY <1>1
<1> HIDE DEF T
<1>7. \E fin \in T[Len(E)] : Va(d, E, S, fin)
  <2>1. \A k \in 0..Len(E) : T[k] \subseteq S
    BY <1>2, <1>4
  <2>2. d \in T[0]
    BY <1>2, <1>4, <1>6
  <2>3. \A k \in 1..Len(E) : \A x \in T[k - 1] : Tras(x, E[k]) \in T[k]
    BY <1>3, <1>4, <1>5
  <2>4. QED
    BY <2>1, <2>2, <2>3, VaPasos
<1>8. PICK fin \in Q : Va(d, E, S, fin)
  BY <1>4, <1>6, <1>7
<1>9. QED
  BY <1>0, <1>8

LEMMA UsarUno ==
  ASSUME NEW n \in Nombres, NEW a \in Nat, NEW b \in Nat, NEW d,
         NEW x \in Discos, SoloBits(x, d, n, a, b), NEW g \in Bloques,
         NEW y, y = Tras(x, Usar(g))
  PROVE  y \in Discos /\ SoloBits(y, d, n, a, b) /\ y.bm = x.bm \cup {g}
<1>1. PICK e : e = Usar(g)
  OBVIOUS
<1>2. e \in Escritos
  BY <1>1, EscritosTipo DEF Bloques
<1>3. e.tipo = "usar" /\ e.bloque = g
  BY <1>1 DEF Usar
<1>4. Hueco(x, n, a, b) /\ y = Tras(x, e) /\ e.tipo # "pisar"
  BY <1>1, <1>3 DEF SoloBits
<1>5. /\ y \in Discos /\ Hueco(y, n, a, b) /\ y.md = x.md /\ y.es = x.es
      /\ y.bm = BmTras(x.bm, e) /\ y.bl = x.bl
  BY <1>2, <1>3, <1>4, Tocar
<1>6. QED
  BY <1>3, <1>5 DEF BmTras, SoloBits

LEMMA Usando ==
  ASSUME NEW n \in Nombres, NEW a \in Nat, NEW b \in Nat, NEW base \in Nat,
         NEW d \in Discos, Hueco(d, n, a, b), NEW E \in Seq(Escritos), Usan(E, base),
         NEW S, Usados(d, n, a, b, base, 0) \subseteq S
  PROVE  \E fin \in Usados(d, n, a, b, base, Len(E)) : Va(d, E, S, fin)
<1> DEFINE Q(k) == {x \in Discos : /\ SoloBits(x, d, n, a, b)
                                   /\ \A c \in Nat : c \in d.bm \/ (base <= c /\ c < base + k) => c \in x.bm}
           T == [k \in 0..Len(E) |-> Q(k)]
<1>0. /\ \A k : Usados(d, n, a, b, base, k) = Q(k)
      /\ \A k \in 1..Len(E) : E[k] = Usar(base + k - 1) /\ base + k - 1 \in Bloques
  BY DEF Usados, Usan
<1>1. Len(E) \in Nat
  BY LenProperties
<1>2. (\A k \in Nat : Q(k) \subseteq S) /\ d \in Q(0)
  <2>1. \A c \in Nat : ~(base <= c /\ c < base + 0)
    OBVIOUS
  <2>2. Q(0) \subseteq S
    BY <1>0
  <2>3. QED
    BY <2>1, <2>2 DEF SoloBits
<1>3. ASSUME NEW k \in 1..Len(E), NEW x \in Q(k - 1) PROVE Tras(x, E[k]) \in Q(k)
  <2>1. PICK e : e = E[k]
    OBVIOUS
  <2>2. PICK g \in Nat : g = base + k - 1
    BY <1>1
  <2>3. e = Usar(g) /\ g \in Bloques
    BY <1>0, <2>1, <2>2
  <2>4. PICK y : y = Tras(x, e)
    OBVIOUS
  <2>5. /\ x \in Discos /\ SoloBits(x, d, n, a, b)
        /\ \A c \in Nat : c \in d.bm \/ (base <= c /\ c < base + (k - 1)) => c \in x.bm
    OBVIOUS
  <2>6. y = Tras(x, Usar(g))
    BY <2>3, <2>4
  <2> HIDE DEF Q, T
  <2>7. /\ y \in Discos /\ SoloBits(y, d, n, a, b) /\ y.bm = x.bm \cup {g}
    BY <2>3, <2>5, <2>6, UsarUno
  <2>8. \A c \in Nat : c \in d.bm \/ (base <= c /\ c < base + k) => c \in y.bm
    <3>1. \A c \in Nat : base <= c /\ c < base + k => c = g \/ c < base + (k - 1)
      BY <1>1, <2>2
    <3>2. QED
      BY <2>5, <2>7, <3>1
  <2>9. QED
    BY <2>1, <2>4, <2>7, <2>8 DEF Q
<1> HIDE DEF Q
<1>4. \A k \in 0..Len(E) : T[k] = Q(k)
  OBVIOUS
<1>5. \A k \in 1..Len(E) : k \in 0..Len(E) /\ k - 1 \in 0..Len(E)
  BY <1>1
<1>6. 0 \in 0..Len(E) /\ Len(E) \in 0..Len(E)
  BY <1>1
<1> HIDE DEF T
<1>7. \E fin \in T[Len(E)] : Va(d, E, S, fin)
  <2>1. \A k \in 0..Len(E) : T[k] \subseteq S
    BY <1>1, <1>2, <1>4
  <2>2. d \in T[0]
    BY <1>2, <1>4, <1>6
  <2>3. \A k \in 1..Len(E) : \A x \in T[k - 1] : Tras(x, E[k]) \in T[k]
    BY <1>3, <1>4, <1>5
  <2>4. QED
    BY <2>1, <2>2, <2>3, VaPasos
<1>8. PICK fin \in Q(Len(E)) : Va(d, E, S, fin)
  BY <1>4, <1>6, <1>7
<1>9. QED
  BY <1>0, <1>8

(* A disk of which less is known to have been written is still in order.    *)
LEMMA EsMenos ==
  ASSUME NEW d \in Discos, NEW d2 \in Discos, d2.md = d.md, d2.bm = d.bm, d2.bl = d.bl,
         \A x \in Nombres : d2.es[x] \subseteq d.es[x], Bueno(d)
  PROVE  Bueno(d2)
<1>1. Estan(d2, Nombres) = Estan(d, Nombres)
  BY DEF Estan
<1>2. \A x : Desde(d2, x) = Desde(d, x) /\ Hasta(d2, x) = Hasta(d, x)
  BY DEF Desde, Hasta
<1>3. QED
  BY <1>1, <1>2 DEF Bueno, Ordenado, Marcado, Guarda, Aparte, Estan

-----------------------------------------------------------------------------
(***************************************************************************)
(* What the writes of each request do to a disk in order.                  *)
(***************************************************************************)
LEMMA PlanCrear ==
  ASSUME NEW d \in Buenos, NEW n \in Nombres, d.md[n] = Nada, d.es[n] = {},
         NEW g \in Bloques, g \notin d.bm
  PROVE  \E fin \in Buenos : Va(d, <<Usar(g), Metadata(n, g, 0)>>, Buenos, fin)
<1>1. d \in Discos /\ Bueno(d) /\ g \in Nat
  BY DEF Buenos, Bloques
<1>2. PICK b \in Nat : b = g + 1
  BY <1>1
<1>3. Hueco(d, n, g, b)
  BY <1>1, <1>2, HuecoVacio
<1>4. PICK e1 : e1 = Usar(g)
  OBVIOUS
<1>5. PICK e2 : e2 = Metadata(n, g, 0)
  OBVIOUS
<1>6. PICK d1 : d1 = Tras(d, e1)
  OBVIOUS
<1>7. SoloBits(d, d, n, g, b)
  BY <1>3 DEF SoloBits
<1>8. d1 \in Discos /\ SoloBits(d1, d, n, g, b) /\ d1.bm = d.bm \cup {g}
  BY <1>1, <1>4, <1>6, <1>7, UsarUno
<1>9. Hueco(d1, n, g, b) /\ d1.md[n] = Nada /\ d1.es[n] = {}
  BY <1>8 DEF SoloBits
<1>10. d1 \in Buenos
  BY <1>1, <1>8, <1>9, Cierre DEF Buenos
<1>11. PICK d2 : d2 = Tras(d1, e2)
  OBVIOUS
<1>12. /\ d2 \in Discos /\ Hueco(d2, n, g, b) /\ EstaEn(d2, n, g, 0)
       /\ d2.bm = d1.bm /\ d2.es = d1.es
  BY <1>1, <1>5, <1>8, <1>9, <1>11, Poner
<1>13. d2 \in Buenos
  <2>1. Marcados(d2, g, g + Ocupa(0)) /\ g + Ocupa(0) <= b
    BY <1>1, <1>2, <1>8, <1>12, EnBloquesDe DEF Marcados
  <2>2. d2.es[n] = {}
    BY <1>9, <1>12
  <2>3. QED
    BY <1>1, <1>2, <1>12, <2>1, <2>2, EnBloquesDe, EnSuSitio DEF Buenos
<1>14. QED
  <2>1. <<e1>> \in Seq({e1, e2}) /\ <<e2>> \in Seq({e1, e2}) /\ <<e1, e2>> = <<e1>> \o <<e2>>
    OBVIOUS
  <2>2. Va(d, <<e1>>, Buenos, d1) /\ Va(d1, <<e2>>, Buenos, d2)
    BY <1>6, <1>10, <1>11, <1>13, VaUno
  <2>3. Va(d, <<e1>> \o <<e2>>, Buenos, d2)
    BY <2>1, <2>2, VaJunto
  <2>4. QED
    BY <1>4, <1>5, <1>13, <2>1, <2>3

LEMMA PlanBorrar ==
  ASSUME NEW d \in Discos, NEW n \in Nombres, NEW a \in Nat, NEW b \in Nat, Hueco(d, n, a, b)
  PROVE  Tras(d, Borrar(n)) \in Buenos
<1>1. PICK e \in Escritos : e = Borrar(n)
  BY EscritosTipo
<1>2. e.tipo = "borrar" /\ e.nombre = n
  BY <1>1 DEF Borrar
<1>3. PICK d2 : d2 = Tras(d, e)
  OBVIOUS
<1>4. d2 \in Discos /\ d2.md = MdTras(d.md, e)
  BY <1>3, TrasBien
<1>5. Hueco(d2, n, a, b)
  BY <1>2, <1>3, HuecoQueda DEF DeSuHueco
<1>6. d2.md[n] = Nada
  BY <1>2, <1>4 DEF MdTras, Discos, Directorios
<1>7. QED
  BY <1>1, <1>3, <1>4, <1>5, <1>6, Cierre DEF Buenos

LEMMA PlanIgual ==
  ASSUME NEW d \in Buenos, NEW n \in Nombres, NEW i \in Nat, EstaEn(d, n, i, 0),
         NEW t \in Nat, Justo(t), 0 < t, t < BlockSize
  PROVE  Tras(d, Metadata(n, i, t)) \in Buenos
<1>1. d \in Discos /\ Bueno(d) /\ d.md[n] # Nada
  BY DEF Buenos, EstaEn
<1>2. Desde(d, n) = i /\ Hasta(d, n) = i + 1
  BY EnBloquesDe DEF EstaEn, Desde, Hasta
<1>3. PICK b \in Nat : b = i + 1
  OBVIOUS
<1>4. Hueco(d, n, i, b) /\ Marcado(d, n) /\ Guarda(d, n)
  BY <1>1, <1>2, <1>3, Apertura
<1>5. PICK d2 : d2 = Tras(d, Metadata(n, i, t))
  OBVIOUS
<1>6. /\ d2 \in Discos /\ Hueco(d2, n, i, b) /\ EstaEn(d2, n, i, t)
      /\ d2.bm = d.bm /\ d2.es = d.es
  BY <1>1, <1>4, <1>5, Poner
<1>7. Ocupa(t) = 1 /\ EnBloques(0) = 0
  BY EnBloquesDe
<1>8. Marcados(d2, i, i + Ocupa(t))
  BY <1>2, <1>4, <1>6, <1>7 DEF Marcado, Marcados
<1>9. ASSUME Cabe PROVE d2.es[n] = {}
  <2>1. \A k \in d.es[n] : k < 0 /\ k \in Nat
    BY <1>1, <1>4, <1>7, <1>9 DEF Guarda, EstaEn, Discos
  <2>2. QED
    BY <1>6, <2>1
<1>10. i + Ocupa(t) <= b
  BY <1>3, <1>7
<1>11. QED
  BY <1>5, <1>6, <1>8, <1>9, <1>10, EnSuSitio DEF Buenos

LEMMA PlanEscribir ==
  ASSUME NEW d \in Buenos, NEW n \in Nombres, NEW i \in Nat, NEW u \in Nat, EstaEn(d, n, i, u),
         NEW B \in SUBSET Nat, Cabe => \A c \in B : i <= c /\ c < i + EnBloques(u)
  PROVE  Tras(d, Escribir(n, i, B)) \in Buenos
<1>1. d \in Discos /\ Bueno(d) /\ d.md[n] # Nada
  BY DEF Buenos, EstaEn
<1>2. PICK v \in Nat, q \in Nat : v = Ocupa(u) /\ q = EnBloques(u) /\ q <= v
  <2>1. u = d.md[n].tam
    BY DEF EstaEn
  <2>2. Ocupa(u) \in Nat /\ EnBloques(u) \in Nat /\ EnBloques(u) <= Ocupa(u)
    BY <1>1, <2>1, Medidas, OcupaTipo
  <2>3. QED
    BY <2>2
<1>3. PICK b \in Nat : b = i + v
  OBVIOUS
<1>4. Desde(d, n) = i /\ Hasta(d, n) = b
  BY <1>2, <1>3 DEF EstaEn, Desde, Hasta
<1>5. Hueco(d, n, i, b) /\ Marcado(d, n) /\ Guarda(d, n)
  BY <1>1, <1>4, Apertura
<1>6. PICK e \in Escritos : e = Escribir(n, i, B)
  BY EscritosTipo
<1>7. e.tipo = "escribir" /\ e.nombre = n /\ e.bloque = i /\ e.bloques = B
  BY <1>6 DEF Escribir
<1>8. PICK d2 : d2 = Tras(d, e)
  OBVIOUS
<1>9. /\ d2 \in Discos /\ d2.md = MdTras(d.md, e) /\ d2.bm = BmTras(d.bm, e)
      /\ d2.bl = BlTras(d.bl, e) /\ d2.es = EsTras(d.es, e)
  BY <1>1, <1>8, TrasBien
<1>10. Cabe => \A c \in B : i <= c /\ c < b
  BY <1>2, <1>3
<1>11. Hueco(d2, n, i, b)
  BY <1>1, <1>5, <1>7, <1>8, <1>10, HuecoQueda DEF DeSuHueco
<1>12. d2.md = d.md /\ d2.bm = d.bm
  BY <1>7, <1>9 DEF MdTras, BmTras
<1>13. EstaEn(d2, n, i, u) /\ Marcados(d2, i, i + Ocupa(u)) /\ i + Ocupa(u) <= b
  BY <1>2, <1>3, <1>4, <1>5, <1>12 DEF EstaEn, Marcado, Marcados
<1>14. ASSUME Cabe, NEW k \in d2.es[n] PROVE k < EnBloques(u) /\ d2.bl[i + k] = <<n, k>>
  <2>1. d2.es[n] = d.es[n] \cup {c - i : c \in {x \in B : x >= i}}
    <3>1. PICK W : W = {c - i : c \in {x \in B : x >= i}}
      OBVIOUS
    <3>2. d2.es = [d.es EXCEPT ![n] = @ \cup {c - i : c \in {x \in B : x >= i}}]
      BY <1>7, <1>9 DEF EsTras
    <3>3. d2.es = [d.es EXCEPT ![n] = @ \cup W]
      BY <3>1, <3>2
    <3>4. d2.es[n] = d.es[n] \cup W
      BY <1>1, <3>3 DEF Discos
    <3>5. QED
      BY <3>1, <3>4
  <2>2. k \in Nat
    BY <1>9, <1>14 DEF Discos
  <2>3. PICK c \in Nat : c = i + k
    BY <2>2
  <2>4. k \in d.es[n] => k < q /\ d.bl[c] = <<n, k>>
    BY <1>2, <1>4, <1>5, <1>14, <2>3 DEF Guarda, EstaEn
  <2>5. c \notin B => k \in d.es[n]
    <3>1. ASSUME NEW x \in B, x >= i, k = x - i PROVE x = c
      BY <2>2, <2>3, <3>1
    <3>2. QED
      BY <1>14, <2>1, <3>1
  <2>6. c \in B => k < q
    BY <1>2, <1>14, <2>2, <2>3
  <2>7. k < q
    BY <2>4, <2>5, <2>6
  <2>8. c \in Bloques
    <3>1. i <= c /\ c < b
      BY <1>2, <1>3, <2>2, <2>3, <2>7
    <3>2. c \in d.bm
      BY <1>4, <1>5, <3>1 DEF Marcado
    <3>3. QED
      BY <1>1, <3>2 DEF Discos
  <2>9. d2.bl[c] = IF c \in B THEN (IF c >= i THEN <<n, c - i>> ELSE Basura) ELSE d.bl[c]
    BY <1>7, <1>9, <2>8 DEF BlTras
  <2>10. c >= i /\ c - i = k
    BY <2>2, <2>3
  <2>11. d2.bl[c] = <<n, k>>
    BY <2>4, <2>5, <2>9, <2>10
  <2>12. QED
    BY <1>2, <2>3, <2>7, <2>11
<1>15. Justo(u)
  BY <1>5 DEF Guarda, EstaEn
<1>16. QED
  BY <1>6, <1>8, <1>9, <1>11, <1>13, <1>14, <1>15, EnSuSitio DEF Buenos

LEMMA SeqDeUno == ASSUME NEW S, NEW x \in S PROVE <<x>> \in Seq(S)
  OBVIOUS

EsNuevos(E, i, v, q) == Len(E) = q - v /\ \A k \in 1..(q - v) : E[k] = Usar(i + v + k - 1)

EsLiberados(E, p, v, q) == Len(E) = v - q /\ \A k \in 1..(v - q) : E[k] = Liberar(p + (v - k))

Libres(d, a, b) == \A c \in Nat : a <= c /\ c < b => c \in Bloques /\ c \notin d.bm

LEMMA EnMedio ==
  ASSUME NEW i \in Nat, NEW v \in Nat, NEW q \in Nat, NEW m \in Nat, m = i + v,
         NEW k \in 1..(q - v), NEW c \in Nat, c = m + k - 1
  PROVE  i + v <= c /\ c < i + q
  OBVIOUS

LEMMA Siguiente ==
  ASSUME NEW m \in Nat, NEW N, NEW k \in 1..N
  PROVE  m + k - 1 \in Nat
  OBVIOUS

LEMMA DesdeElFin ==
  ASSUME NEW p \in Nat, NEW v \in Nat, NEW q \in Nat, NEW corte \in Nat, corte = p + q,
         NEW b \in Nat, b = p + v, NEW k \in 1..(v - q), NEW c \in Nat, c = p + (v - k)
  PROVE  corte <= c /\ c < b
  OBVIOUS

LEMMA Largo ==
  ASSUME NEW i \in Nat, NEW v \in Nat, NEW q \in Nat, NEW m \in Nat, m = i + v, NEW l, l = q - v,
         NEW c \in Nat, ~(c < m), c < i + q
  PROVE  m <= c /\ c < m + l
  OBVIOUS

LEMMA PlanAlLado ==
  ASSUME NEW d \in Buenos, NEW n \in Nombres, NEW i \in Nat, NEW u \in Nat, EstaEn(d, n, i, u),
         NEW t \in Nat, t < Ancho, NEW v \in Nat, v = Ocupa(u),
         NEW q \in Nat, q = EnBloques(t), q > v,
         Libres(d, i + v, i + q), NEW E \in Seq(Escritos), EsNuevos(E, i, v, q)
  PROVE  \E fin \in Buenos : Va(d, E \o <<Metadata(n, i, t)>>, Buenos, fin)
<1>1. /\ Len(E) = q - v /\ \A k \in 1..(q - v) : E[k] = Usar(i + v + k - 1)
      /\ \A c \in Nat : i + v <= c /\ c < i + q => c \in Bloques /\ c \notin d.bm
  BY DEF EsNuevos, Libres
<1>2. d \in Discos /\ Bueno(d) /\ d.md[n] # Nada /\ d.md[n].tam = u
  BY DEF Buenos, EstaEn
<1>3. EnBloques(u) \in Nat /\ EnBloques(u) <= v
  BY <1>2, Medidas
<1>4. PICK m \in Nat, b \in Nat : m = i + v /\ b = i + q
  OBVIOUS
<1>5. Desde(d, n) = i /\ Hasta(d, n) = m
  BY <1>4 DEF EstaEn, Desde, Hasta
<1>6. Hueco(d, n, i, m) /\ Marcado(d, n) /\ Guarda(d, n)
  BY <1>2, <1>5, Apertura
<1>7. Hueco(d, n, i, b)
  <2>1. \A c \in Nat : m <= c /\ c < b => c \notin d.bm
    BY <1>1, <1>4
  <2>2. QED
    BY <1>2, <1>6, <2>1, Ensanchar
<1>8. Usan(E, m)
  <2>1. ASSUME NEW k \in 1..Len(E) PROVE E[k] = Usar(m + k - 1) /\ m + k - 1 \in Bloques
    <3>1. k \in 1..(q - v)
      BY <1>1
    <3>2. E[k] = Usar(m + k - 1)
      BY <1>1, <1>4, <3>1
    <3>3. PICK c \in Nat : c = m + k - 1
      BY <1>4, <3>1, SMTT(30)
    <3>4. i + v <= c /\ c < i + q
      BY <1>4, <3>1, <3>3, EnMedio
    <3>5. QED
      BY <1>1, <3>2, <3>3, <3>4
  <2>2. QED
    BY <2>1 DEF Usan
<1>9. ASSUME NEW x \in Discos, SoloBits(x, d, n, i, b), \A c \in Nat : c \in d.bm => c \in x.bm
      PROVE  x \in Buenos
  <2>1. x.md = d.md /\ x.es = d.es /\ x.bl = d.bl /\ Hueco(x, n, i, b)
    BY <1>9 DEF SoloBits
  <2>2. Desde(x, n) = i /\ Hasta(x, n) = m /\ i <= i /\ m <= b
    BY <1>4, <1>5, <2>1 DEF Desde, Hasta
  <2>3. Marcado(x, n)
    BY <1>5, <1>6, <1>9, <2>2 DEF Marcado
  <2>4. Guarda(x, n)
    BY <1>5, <1>6, <2>1, <2>2 DEF Guarda
  <2>5. Bueno(x)
    BY <1>9, <2>1, <2>2, <2>3, <2>4, Cierre
  <2>6. QED
    BY <2>5 DEF Buenos
<1>10. \E d1 \in Usados(d, n, i, b, m, Len(E)) : Va(d, E, Buenos, d1)
  <2>1. Usados(d, n, i, b, m, 0) \subseteq Buenos
    BY <1>9 DEF Usados
  <2>2. QED
    BY <1>2, <1>7, <1>8, <2>1, Usando
<1>11. PICK d1 \in Buenos :
         /\ Va(d, E, Buenos, d1) /\ d1 \in Discos /\ SoloBits(d1, d, n, i, b)
         /\ \A c \in Nat : c \in d.bm \/ (m <= c /\ c < m + Len(E)) => c \in d1.bm
  BY <1>9, <1>10 DEF Usados
<1>12. d1.md = d.md /\ d1.es = d.es /\ d1.bl = d.bl /\ Hueco(d1, n, i, b)
  BY <1>11 DEF SoloBits
<1>13. PICK d2 : d2 = Tras(d1, Metadata(n, i, t))
  OBVIOUS
<1>14. /\ d2 \in Discos /\ Hueco(d2, n, i, b) /\ EstaEn(d2, n, i, t)
       /\ d2.bm = d1.bm /\ d2.bl = d1.bl /\ d2.es = d1.es
  BY <1>11, <1>12, <1>13, Poner
<1>15. Ocupa(t) = q /\ Justo(t)
  <2>1. t > 0 /\ q >= 1
    BY EnBloquesDe
  <2>2. QED
    BY <2>1, EnBloquesDe, JustoPorBloques
<1>16. Marcados(d2, i, i + Ocupa(t)) /\ i + Ocupa(t) <= b
  <2>1. ASSUME NEW c \in Nat, i <= c, c < i + q PROVE c \in d2.bm
    <3>1. CASE c < m
      BY <1>5, <1>6, <1>11, <1>14, <2>1, <3>1 DEF Marcado
    <3>2. CASE ~(c < m)
      <4>1. m <= c /\ c < m + Len(E)
        BY <1>1, <1>4, <2>1, <3>2, Largo
      <4>2. QED
        BY <1>14, <1>11, <4>1
    <3>3. QED
      BY <3>1, <3>2
  <2>2. QED
    BY <1>4, <1>15, <2>1 DEF Marcados
<1>17. ASSUME Cabe, NEW k \in d2.es[n] PROVE k < EnBloques(t) /\ d2.bl[i + k] = <<n, k>>
  <2>1. k \in d.es[n] /\ k \in Nat /\ d2.bl = d.bl
    BY <1>2, <1>12, <1>14, <1>17 DEF Discos
  <2>2. k < EnBloques(u) /\ d.bl[i + k] = <<n, k>>
    BY <1>2, <1>5, <1>6, <1>17, <2>1 DEF Guarda
  <2>3. QED
    BY <1>3, <2>1, <2>2
<1>18. d2 \in Buenos
  BY <1>14, <1>15, <1>16, <1>17, EnSuSitio DEF Buenos
<1>19. PICK e \in Escritos : e = Metadata(n, i, t)
  BY EscritosTipo
<1>20. Va(d1, <<e>>, Buenos, d2)
  BY <1>11, <1>13, <1>18, <1>19, VaUno
<1>21. <<e>> \in Seq(Escritos)
  BY SeqDeUno
<1>22. Va(d, E \o <<e>>, Buenos, d2)
  BY <1>11, <1>20, <1>21, VaJunto
<1>23. QED
  BY <1>18, <1>19, <1>22

(* Fewer blocks: the metadata first, then the bits from the last one down.  *)
LEMMA PlanAchicar ==
  ASSUME NEW d \in Discos, Bueno(d), NEW n \in Nombres, NEW p \in Nat, NEW u \in Nat,
         EstaEn(d, n, p, u), d.es[n] = {},
         NEW t \in Nat, t < Ancho, NEW v \in Nat, v = Ocupa(u),
         NEW q \in Nat, q = EnBloques(t), q < v,
         NEW E \in Seq(Escritos), EsLiberados(E, p, v, q), NEW e, e = Metadata(n, p, t)
  PROVE  /\ q > 0 => \E fin \in Buenos : Va(d, <<e>> \o E, Buenos, fin)
         /\ \E fin \in Discos : Va(d, <<e>> \o E, Discos, fin) /\ Hueco(fin, n, p, p + v)
<1>1. Len(E) = v - q /\ \A k \in 1..(v - q) : E[k] = Liberar(p + (v - k))
  BY DEF EsLiberados
<1>2. d.md[n] # Nada /\ d.md[n].tam = u
  BY DEF EstaEn
<1>3. PICK b \in Nat, corte \in Nat : b = p + v /\ corte = p + q
  OBVIOUS
<1>4. Desde(d, n) = p /\ Hasta(d, n) = b
  BY <1>3 DEF EstaEn, Desde, Hasta
<1>5. Hueco(d, n, p, b) /\ Marcado(d, n)
  BY <1>2, <1>4, Apertura
<1>6. PICK d1 : d1 = Tras(d, e)
  OBVIOUS
<1>7. /\ d1 \in Discos /\ Hueco(d1, n, p, b) /\ EstaEn(d1, n, p, t)
      /\ d1.bm = d.bm /\ d1.es = d.es
  BY <1>5, <1>6, Poner
<1>8. Liberan(E, corte, b)
  <2>1. ASSUME NEW k \in 1..Len(E)
        PROVE  E[k].tipo = "liberar" /\ corte <= E[k].bloque /\ E[k].bloque < b
    <3>1. k \in 1..(v - q)
      BY <1>1
    <3>2. PICK c \in Nat : c = p + (v - k)
      BY <3>1
    <3>3. corte <= c /\ c < b
      BY <1>3, <3>1, <3>2, DesdeElFin
    <3>4. E[k] = Liberar(c)
      BY <1>1, <3>1, <3>2
    <3>5. QED
      BY <3>3, <3>4 DEF Liberar
  <2>2. QED
    BY <2>1 DEF Liberan
<1>9. p <= corte
  BY <1>3
<1>10. e \in Escritos
  BY EscritosTipo
<1>11. <<e>> \in Seq(Escritos)
  BY <1>10, SeqDeUno
<1>12. ASSUME q > 0 PROVE \E fin \in Buenos : Va(d, <<e>> \o E, Buenos, fin)
  <2>1. Ocupa(t) = q /\ p + Ocupa(t) = corte /\ corte <= b /\ Justo(t)
    <3>1. t > 0 /\ q >= 1
      BY <1>12, EnBloquesDe
    <3>2. QED
      BY <1>3, <3>1, EnBloquesDe, JustoPorBloques
  <2>2. ASSUME NEW x \in Discos, SoloBits(x, d1, n, p, b),
               \A c \in Nat : c < corte /\ c \in d1.bm => c \in x.bm
        PROVE  x \in Buenos
    <3>1. x.md = d1.md /\ x.es = d1.es /\ Hueco(x, n, p, b)
      BY <2>2 DEF SoloBits
    <3>2. EstaEn(x, n, p, t) /\ x.es[n] = {}
      BY <1>7, <3>1 DEF EstaEn
    <3>3. Marcados(x, p, corte)
      <4>1. ASSUME NEW c \in Nat, p <= c, c < corte PROVE c \in x.bm
        BY <1>3, <1>4, <1>5, <1>7, <2>1, <2>2, <4>1 DEF Marcado
      <4>2. QED
        BY <4>1 DEF Marcados
    <3>4. QED
      BY <2>1, <2>2, <3>1, <3>2, <3>3, EnSuSitio DEF Buenos
  <2>3. d1 \in Buenos
    <3>1. SoloBits(d1, d1, n, p, b)
      BY <1>7 DEF SoloBits
    <3>2. QED
      BY <1>7, <2>2, <3>1
  <2>4. \E fin \in Limpios(d1, n, p, b, corte) : Va(d1, E, Buenos, fin)
    <3>1. Limpios(d1, n, p, b, corte) \subseteq Buenos
      BY <2>2 DEF Limpios
    <3>2. QED
      BY <1>7, <1>8, <1>9, <3>1, Liberando
  <2>5. PICK fin \in Buenos : Va(d1, E, Buenos, fin)
    BY <2>2, <2>4 DEF Limpios
  <2>6. Va(d, <<e>>, Buenos, d1)
    <3>1. d \in Buenos
      BY DEF Buenos
    <3>2. QED
      BY <1>6, <2>3, <3>1, VaUno
  <2>7. QED
    BY <1>11, <2>5, <2>6, VaJunto
<1>13. \E fin \in Discos : Va(d, <<e>> \o E, Discos, fin) /\ Hueco(fin, n, p, b)
  <2>1. \E fin \in Limpios(d1, n, p, b, corte) : Va(d1, E, Discos, fin)
    <3>1. Limpios(d1, n, p, b, corte) \subseteq Discos
      BY DEF Limpios
    <3>2. QED
      BY <1>7, <1>8, <1>9, <3>1, Liberando
  <2>2. PICK fin \in Discos : Va(d1, E, Discos, fin) /\ Hueco(fin, n, p, b)
    BY <2>1 DEF Limpios, SoloBits
  <2>3. Va(d, <<e>>, Discos, d1)
    BY <1>6, <1>7, VaUno
  <2>4. QED
    BY <1>11, <2>2, <2>3, VaJunto
<1>14. QED
  BY <1>3, <1>12, <1>13

(* More blocks after a compaction: the metadata before the bits.            *)
LEMMA PlanCompactando ==
  ASSUME NEW d \in Discos, Bueno(d), NEW n \in Nombres, NEW p \in Nat, NEW u \in Nat,
         EstaEn(d, n, p, u), d.es[n] = {},
         NEW t \in Nat, t < Ancho, NEW v \in Nat, v = Ocupa(u),
         NEW q \in Nat, q = EnBloques(t), q > v,
         Libres(d, p + v, p + q), NEW E \in Seq(Escritos), EsNuevos(E, p, v, q), NEW e, e = Metadata(n, p, t)
  PROVE  \E fin \in Buenos : Va(d, <<e>> \o E, Discos, fin)
<1>1. /\ Len(E) = q - v /\ \A k \in 1..(q - v) : E[k] = Usar(p + v + k - 1)
      /\ \A c \in Nat : p + v <= c /\ c < p + q => c \in Bloques /\ c \notin d.bm
  BY DEF EsNuevos, Libres
<1>2. d.md[n] # Nada /\ d.md[n].tam = u
  BY DEF EstaEn
<1>3. PICK m \in Nat, b \in Nat : m = p + v /\ b = p + q
  <2>1. p + v \in Nat /\ p + q \in Nat
    OBVIOUS
  <2>2. QED
    BY <2>1
<1>4. Desde(d, n) = p /\ Hasta(d, n) = m
  BY <1>3 DEF EstaEn, Desde, Hasta
<1>5. Hueco(d, n, p, m) /\ Marcado(d, n)
  BY <1>2, <1>4, Apertura
<1>6. Hueco(d, n, p, b)
  <2>1. \A c \in Nat : m <= c /\ c < b => c \notin d.bm
    BY <1>1, <1>3
  <2>2. QED
    BY <1>5, <2>1, Ensanchar
<1>7. PICK d1 : d1 = Tras(d, e)
  OBVIOUS
<1>8. /\ d1 \in Discos /\ Hueco(d1, n, p, b) /\ EstaEn(d1, n, p, t)
      /\ d1.bm = d.bm /\ d1.es = d.es
  BY <1>6, <1>7, Poner
<1>9. Usan(E, m)
  <2>1. ASSUME NEW k \in 1..Len(E) PROVE E[k] = Usar(m + k - 1) /\ m + k - 1 \in Bloques
    <3>1. k \in 1..(q - v)
      BY <1>1
    <3>2. E[k] = Usar(m + k - 1)
      BY <1>1, <1>3, <3>1
    <3>3. PICK c \in Nat : c = m + k - 1
      BY <3>1, Siguiente
    <3>4. p + v <= c /\ c < p + q
      BY <1>3, <3>1, <3>3, EnMedio
    <3>5. QED
      BY <1>1, <3>2, <3>3, <3>4
  <2>2. QED
    BY <2>1 DEF Usan
<1>10. \E fin \in Usados(d1, n, p, b, m, Len(E)) : Va(d1, E, Discos, fin)
  <2>1. Usados(d1, n, p, b, m, 0) \subseteq Discos
    BY DEF Usados
  <2>2. QED
    BY <1>8, <1>9, <2>1, Usando
<1>11. PICK fin \in Discos :
         /\ Va(d1, E, Discos, fin) /\ SoloBits(fin, d1, n, p, b)
         /\ \A c \in Nat : c \in d1.bm \/ (m <= c /\ c < m + Len(E)) => c \in fin.bm
  BY <1>10 DEF Usados
<1>12. fin.md = d1.md /\ fin.es = d1.es /\ Hueco(fin, n, p, b)
  BY <1>11 DEF SoloBits
<1>13. EstaEn(fin, n, p, t) /\ fin.es[n] = {}
  BY <1>8, <1>12 DEF EstaEn
<1>14. Ocupa(t) = q /\ Justo(t)
  <2>1. t > 0 /\ q >= 1
    BY EnBloquesDe
  <2>2. QED
    BY <2>1, EnBloquesDe, JustoPorBloques
<1>15. Marcados(fin, p, p + Ocupa(t)) /\ p + Ocupa(t) <= b
  <2>1. ASSUME NEW c \in Nat, p <= c, c < p + q PROVE c \in fin.bm
    <3>1. CASE c < m
      BY <1>4, <1>5, <1>8, <1>11, <2>1, <3>1 DEF Marcado
    <3>2. CASE ~(c < m)
      <4>1. PICK l : l = Len(E) /\ l = q - v
        BY <1>1
      <4>2. m <= c /\ c < m + l
        BY <1>3, <2>1, <3>2, <4>1, Largo, SMTT(30)
      <4>3. QED
        BY <1>11, <4>1, <4>2
    <3>3. QED
      BY <3>1, <3>2
  <2>2. QED
    BY <1>3, <1>14, <2>1 DEF Marcados
<1>16. fin \in Buenos
  BY <1>12, <1>13, <1>14, <1>15, EnSuSitio DEF Buenos
<1>17. Va(d, <<e>>, Discos, d1)
  BY <1>7, <1>8, VaUno
<1>18. e \in Escritos
  BY EscritosTipo
<1>19. <<e>> \in Seq(Escritos)
  BY <1>18, SeqDeUno
<1>20. QED
  BY <1>11, <1>16, <1>17, <1>19, VaJunto

-----------------------------------------------------------------------------
(***************************************************************************)
(* The invariant: until something happens that the code does not survive,  *)
(* the writes that are left lead the disk to one in order, and through     *)
(* disks in order only if a crash between them is survived.                *)
(***************************************************************************)
Lleva(d, E, i) == \E fin \in Buenos : Va(d, E, IF i THEN Buenos ELSE Discos, fin)

Salud == sano => Lleva(Disco, plan.escrituras, plan.inocuo)

LEMMA BuenosEs == Buenos \subseteq Discos /\ \A d \in Discos : Bueno(d) => d \in Buenos
  BY DEF Buenos

LEMMA LlevaNada ==
  ASSUME NEW d \in Buenos, NEW i
  PROVE  Lleva(d, <<>>, i)
<1>1. Va(d, <<>>, Buenos, d)
  BY VaNada
<1>2. Va(d, <<>>, Discos, d)
  <2>1. d \in Discos
    BY BuenosEs
  <2>2. QED
    BY <2>1, VaNada
<1>3. QED
  BY <1>1, <1>2 DEF Lleva

LEMMA LlevaPorBuenos ==
  ASSUME NEW d, NEW E, NEW i, NEW fin \in Buenos, Va(d, E, Buenos, fin)
  PROVE  Lleva(d, E, i)
<1>1. Va(d, E, Discos, fin)
  BY BuenosEs, VaMas
<1>2. QED
  BY <1>1 DEF Lleva

LEMMA LlevaPorDiscos ==
  ASSUME NEW d, NEW E, NEW fin \in Buenos, Va(d, E, Discos, fin)
  PROVE  Lleva(d, E, FALSE)
  BY DEF Lleva

LEMMA LlevaYa ==
  ASSUME NEW d, NEW i, Lleva(d, <<>>, i)
  PROVE  d \in Buenos
<1>1. PICK S : S = IF i THEN Buenos ELSE Discos
  OBVIOUS
<1>2. PICK fin \in Buenos : Va(d, <<>>, S, fin)
  BY <1>1 DEF Lleva
<1>3. <<>> \in Seq({})
  OBVIOUS
<1>4. fin = d
  BY <1>2, <1>3, VaSale
<1>5. QED
  BY <1>4

LEMMA HacerSalud ==
  ASSUME NEW n, NEW E, NEW i, NEW b, Hacer(n, E, i, b), sano' => Lleva(Disco', E, i)
  PROVE  Salud'
<1>1. CASE E = <<>>
  <2>1. plan'.escrituras = <<>> /\ plan'.inocuo = TRUE
    BY <1>1 DEF Hacer, SinPlan
  <2>2. sano' => Disco' \in Buenos
    BY <1>1, LlevaYa
  <2>3. sano' => Lleva(Disco', <<>>, TRUE)
    BY <2>2, LlevaNada
  <2>4. QED
    BY <2>1, <2>3 DEF Salud
<1>2. CASE E # <<>>
  <2>1. plan'.escrituras = E /\ plan'.inocuo = i
    BY <1>2 DEF Hacer
  <2>2. QED
    BY <2>1 DEF Salud
<1>3. QED
  BY <1>1, <1>2

LEMMA IgualSalud ==
  ASSUME Salud, UNCHANGED <<disco, escrito, plan, sano>>
  PROVE  Salud'
<1>1. Disco' = Disco
  BY DEF Disco, disco
<1>2. QED
  BY <1>1 DEF Salud

(* The disk a request finds.                                                *)
LEMMA DiscoDelPedido ==
  ASSUME Tipos, Salud, sano, plan = SinPlan, UNCHANGED disco, NEW n \in Nombres,
         escrito' = escrito \/ escrito' = [escrito EXCEPT ![n] = {}]
  PROVE  /\ Disco' \in Buenos /\ Disco' \in Discos /\ Bueno(Disco')
         /\ Disco'.md = metadata /\ Disco'.bm = bitmap /\ Disco'.es = escrito'
         /\ escrito' = [escrito EXCEPT ![n] = {}] => Disco'.es[n] = {}
<1>1. Lleva(Disco, <<>>, TRUE)
  BY DEF Salud, SinPlan
<1>2. Disco \in Buenos
  BY <1>1, LlevaYa
<1>3. /\ Disco \in Discos /\ Bueno(Disco)
      /\ Disco.md = metadata /\ Disco.bm = bitmap /\ Disco.bl = bloques /\ Disco.es = escrito
  BY <1>2, DiscoBien DEF Buenos
<1>4. escrito \in [Nombres -> SUBSET Nat]
  BY DEF Tipos, TypeDialFS
<1>5. PICK E \in [Nombres -> SUBSET Nat] : E = escrito'
  BY <1>4
<1>6. \A x \in Nombres : E[x] \subseteq escrito[x]
  BY <1>4, <1>5
<1>7. escrito' = [escrito EXCEPT ![n] = {}] => E[n] = {}
  BY <1>4, <1>5
<1>8. PICK d2 : d2 = [md |-> metadata, bm |-> bitmap, bl |-> bloques, es |-> E]
  OBVIOUS
<1>9. Disco' = d2
  BY <1>5, <1>8 DEF Disco, disco
<1>10. d2.md = metadata /\ d2.bm = bitmap /\ d2.bl = bloques /\ d2.es = E
  BY <1>8
<1>11. d2 \in Discos
  BY <1>3, <1>8 DEF Discos
<1>12. Bueno(d2)
  BY <1>3, <1>6, <1>10, <1>11, EsMenos
<1>13. QED
  BY <1>5, <1>7, <1>9, <1>10, <1>11, <1>12, BuenosEs

-----------------------------------------------------------------------------
(* The compaction of a request, and the two plans that begin with it.       *)
LEMMA CompactarSinMover ==
  ASSUME NEW d \in Discos, Bueno(d), NEW n \in Nombres, NEW p \in Nat, NEW t \in Nat,
         EstaEn(d, n, p, t), d.es[n] = {}
  PROVE  \E d2 \in Buenos : /\ Va(d, <<Pisar(p), Metadata(n, p, t)>>, Buenos, d2)
                            /\ EstaEn(d2, n, p, t) /\ d2.es = d.es /\ d2.bm = d.bm
<1>1. d.md[n] # Nada
  BY DEF EstaEn
<1>2. PICK v \in Nat, b \in Nat : v = Ocupa(t) /\ v >= 1 /\ b = p + v /\ Justo(t)
  <2>1. d.md[n].tam = t
    BY DEF EstaEn
  <2>2. Ocupa(t) \in Nat /\ Ocupa(t) >= 1 /\ Justo(t)
    BY <1>1, <2>1, DeBueno, Largas
  <2>3. p + Ocupa(t) \in Nat
    BY <2>2
  <2>4. QED
    BY <2>2, <2>3
<1>3. Desde(d, n) = p /\ Hasta(d, n) = b
  BY <1>2 DEF EstaEn, Desde, Hasta
<1>4. Hueco(d, n, p, b) /\ Marcado(d, n)
  BY <1>1, <1>3, Apertura
<1>5. PICK e1 \in Escritos : e1 = Pisar(p)
  BY EscritosTipo
<1>6. PICK e2 \in Escritos : e2 = Metadata(n, p, t)
  BY EscritosTipo
<1>7. e1.tipo = "pisar" /\ e1.bloque = p /\ p <= e1.bloque /\ e1.bloque < b
  BY <1>2, <1>5 DEF Pisar
<1>8. PICK d1 : d1 = Tras(d, e1)
  OBVIOUS
<1>9. /\ d1 \in Discos /\ Hueco(d1, n, p, b) /\ d1.md = d.md /\ d1.es = d.es
      /\ d1.bm = d.bm
  <2>1. e1.tipo \in {"liberar", "pisar"}
    BY <1>7
  <2>2. /\ d1 \in Discos /\ Hueco(d1, n, p, b) /\ d1.md = d.md /\ d1.es = d.es
        /\ d1.bm = BmTras(d.bm, e1)
    BY <1>4, <1>7, <1>8, <2>1, Tocar
  <2>3. QED
    BY <1>7, <2>2 DEF BmTras
<1>10. ASSUME NEW x \in Discos, Hueco(x, n, p, b), x.es = d.es, x.bm = d.bm, EstaEn(x, n, p, t)
       PROVE  x \in Buenos
  <2>1. Marcados(x, p, p + Ocupa(t)) /\ p + Ocupa(t) <= b
    BY <1>2, <1>3, <1>4, <1>10 DEF Marcado, Marcados
  <2>2. x.es[n] = {}
    BY <1>10
  <2>3. QED
    BY <1>2, <1>10, <2>1, <2>2, EnSuSitio DEF Buenos
<1>11. d1 \in Buenos
  <2>1. EstaEn(d1, n, p, t)
    BY <1>9 DEF EstaEn
  <2>2. QED
    BY <1>9, <1>10, <2>1
<1>12. PICK d2 : d2 = Tras(d1, e2)
  OBVIOUS
<1>13. /\ d2 \in Discos /\ Hueco(d2, n, p, b) /\ EstaEn(d2, n, p, t)
       /\ d2.bm = d1.bm /\ d2.es = d1.es
  BY <1>6, <1>9, <1>12, Poner
<1>14. d2 \in Buenos
  BY <1>9, <1>10, <1>13
<1>15. Va(d, <<e1>>, Buenos, d1) /\ Va(d1, <<e2>>, Buenos, d2)
  <2>1. d \in Buenos
    BY BuenosEs
  <2>2. QED
    BY <1>8, <1>11, <1>12, <1>14, <2>1, VaUno
<1>16. <<e1>> \in Seq(Escritos) /\ <<e2>> \in Seq(Escritos) /\ <<e1, e2>> = <<e1>> \o <<e2>>
  OBVIOUS
<1>17. Va(d, <<e1>> \o <<e2>>, Buenos, d2)
  BY <1>15, <1>16, VaJunto
<1>18. QED
  BY <1>5, <1>6, <1>9, <1>13, <1>14, <1>16, <1>17

(* The disk after a compaction.                                             *)
LEMMA TrasCompactar ==
  ASSUME archivos \in Seq(Nombres), metadata \in Directorios, NEW n \in Existentes,
         NEW d0 \in Discos, d0.md = metadata, d0.bm = bitmap, Bueno(d0), d0.es[n] = {},
         NEW c, c = Compactar(n), Compacta(n, c)
  PROVE  /\ c.pegar \in Nat /\ c.ok \in BOOLEAN /\ c.escrituras \in Seq(Escritos)
         /\ ~c.ok => c.escrituras = <<>>
         /\ c.ok => \E d \in Discos :
                      /\ Va(d0, c.escrituras, IF Mueve(n, c) THEN Discos ELSE Buenos, d)
                      /\ Bueno(d) /\ d.bm = bitmap /\ d.es[n] = {}
                      /\ EstaEn(d, n, c.pegar, metadata[n].tam)
<1>1. /\ c.pegar \in Nat /\ c.ok \in BOOLEAN
      /\ c.ok => \E d \in Discos : Va(d0, c.escrituras, Discos, d) /\ Compactado(d, d0, c.pegar, n)
      /\ ~c.ok => c.escrituras = <<>>
      /\ c.ok /\ ~Mueve(n, c) =>
           c.escrituras = <<Pisar(c.pegar), Metadata(n, c.pegar, metadata[n].tam)>>
  BY CompactarQueda
<1>2. c.escrituras \in Seq(Escritos)
  <2>1. c \in Mudas(SobreLosQueHay(n))
    BY CompactarBien
  <2>2. c.escrituras \in Seq(SobreLosQueHay(n))
    BY <2>1 DEF Mudas
  <2>3. QED
    BY <2>2, SobreLosQueHayBien
<1>3. CASE Mueve(n, c)
  BY <1>1, <1>2, <1>3 DEF Compactado
<1>4. ASSUME ~Mueve(n, c), c.ok
      PROVE  \E d \in Discos : /\ Va(d0, c.escrituras, Buenos, d)
                               /\ Bueno(d) /\ d.bm = bitmap /\ d.es[n] = {}
                               /\ EstaEn(d, n, c.pegar, metadata[n].tam)
  <2>1. PICK p \in Nat, t \in Nat : p = c.pegar /\ t = metadata[n].tam
    <3>1. metadata[n].tam \in Nat
      BY DEF Existentes, Directorios, Fichas
    <3>2. QED
      BY <1>1, <3>1
  <2>2. n \in Nombres /\ metadata[n] # Nada
    BY DEF Existentes
  <2>3. EstaEn(d0, n, p, t)
    BY <1>4, <2>1, <2>2 DEF EstaEn, Mueve
  <2>4. PICK E : E = <<Pisar(p), Metadata(n, p, t)>>
    OBVIOUS
  <2>5. \E d2 \in Buenos : Va(d0, E, Buenos, d2) /\ EstaEn(d2, n, p, t)
                           /\ d2.es = d0.es /\ d2.bm = d0.bm
    BY <2>2, <2>3, <2>4, CompactarSinMover
  <2>6. c.escrituras = E
    BY <1>1, <1>4, <2>1, <2>4
  <2>7. QED
    BY <2>1, <2>5, <2>6 DEF Buenos
<1>5. QED
  BY <1>1, <1>2, <1>3, <1>4

(* What follows a compaction, after what the compaction wrote.              *)
LEMMA Seguir ==
  ASSUME NEW S, NEW d0, NEW C \in Seq(Escritos), NEW d, Va(d0, C, S, d),
         NEW e \in Escritos, NEW E \in Seq(Escritos), NEW fin, Va(d, <<e>> \o E, S, fin)
  PROVE  Va(d0, (C \o <<e>>) \o E, S, fin)
<1>1. PICK F \in Seq(Escritos) : F = <<e>>
  BY SeqDeUno
<1>2. PICK G \in Seq(Escritos) : G = F \o E
  BY <1>1, ConcatProperties
<1>3. Va(d0, C \o G, S, fin)
  BY <1>1, <1>2, VaJunto
<1>4. (C \o F) \o E = C \o (F \o E)
  BY <1>1, ConcatAssociative
<1>5. QED
  BY <1>1, <1>2, <1>3, <1>4

LEMMA AchicarLleva ==
  ASSUME archivos \in Seq(Nombres), metadata \in Directorios, NEW n \in Existentes,
         NEW d0 \in Discos, d0.md = metadata, d0.bm = bitmap, Bueno(d0), d0.es[n] = {},
         NEW c, c = Compactar(n), Compacta(n, c),
         NEW t \in Nat, t < Ancho, EnBloques(t) < Ocupa(metadata[n].tam)
  PROVE  /\ EnBloques(t) > 0 => Lleva(d0, Achicar(n, t), ~Mueve(n, c))
         /\ Achicar(n, t) \in Seq(Escritos)
         /\ c.ok => \E fin \in Discos, a, b \in Nat : Va(d0, Achicar(n, t), Discos, fin) /\ Hueco(fin, n, a, b)
         /\ ~c.ok => Achicar(n, t) = <<>>
<1>1. /\ c.pegar \in Nat /\ c.ok \in BOOLEAN /\ c.escrituras \in Seq(Escritos)
      /\ ~c.ok => c.escrituras = <<>>
      /\ c.ok => \E d \in Discos :
                   /\ Va(d0, c.escrituras, IF Mueve(n, c) THEN Discos ELSE Buenos, d)
                   /\ Bueno(d) /\ d.bm = bitmap /\ d.es[n] = {}
                   /\ EstaEn(d, n, c.pegar, metadata[n].tam)
  BY TrasCompactar
<1>2. PICK p \in Nat, C \in Seq(Escritos) : p = c.pegar /\ C = c.escrituras
  BY <1>1
<1>3. n \in Nombres /\ metadata[n] # Nada /\ metadata[n].tam \in Nat
  BY DEF Existentes, Directorios, Fichas
<1>4. PICK u \in Nat, v \in Nat, q \in Nat : u = metadata[n].tam /\ v = Ocupa(u) /\ q = EnBloques(t)
  BY <1>3, OcupaTipo
<1>5. q < v
  BY <1>4
<1>6. PICK e \in Escritos : e = Metadata(n, p, t)
  BY <1>3, EscritosTipo
<1>7. PICK E \in Seq(Escritos) :
        E = Liberados(p, v, t) /\ EsLiberados(E, p, v, q)
  <2>1. /\ Liberados(p, v, t) \in Seq(SobreLosQueHay(n))
        /\ Len(Liberados(p, v, t)) = IF v >= EnBloques(t) THEN v - EnBloques(t) ELSE 0
        /\ \A k \in 1..(v - EnBloques(t)) : Liberados(p, v, t)[k] = Liberar(p + (v - k))
    BY LiberadosBien
  <2>2. Liberados(p, v, t) \in Seq(Escritos)
    BY <2>1, SobreLosQueHayBien
  <2>3. Len(Liberados(p, v, t)) = v - q
    BY <1>4, <1>5, <2>1
  <2>4. QED
    BY <1>4, <2>1, <2>2, <2>3 DEF EsLiberados
<1>8. Achicar(n, t) = IF c.ok THEN (C \o <<e>>) \o E ELSE C
  BY <1>2, <1>4, <1>6, <1>7, AchicarEs
<1>9. CASE ~c.ok
  <2>1. Achicar(n, t) = <<>>
    BY <1>1, <1>2, <1>8, <1>9
  <2>2. d0 \in Buenos
    BY BuenosEs
  <2>3. Lleva(d0, <<>>, ~Mueve(n, c)) /\ <<>> \in Seq(Escritos)
    BY <2>2, LlevaNada
  <2>4. QED
    BY <1>9, <2>1, <2>3
<1>10. CASE c.ok
  <2>1. PICK S : S = IF Mueve(n, c) THEN Discos ELSE Buenos
    OBVIOUS
  <2>2. PICK d \in Discos : /\ Va(d0, C, S, d) /\ Bueno(d) /\ d.es[n] = {} /\ EstaEn(d, n, p, u)
    BY <1>1, <1>2, <1>4, <1>10, <2>1
  <2>3. PICK A : A = Achicar(n, t)
    OBVIOUS
  <2>4. A = (C \o <<e>>) \o E
    BY <1>8, <1>10, <2>3
  <2>5. A \in Seq(Escritos)
    <3>1. <<e>> \in Seq(Escritos)
      BY SeqDeUno
    <3>2. C \o <<e>> \in Seq(Escritos)
      BY <3>1, ConcatProperties
    <3>3. QED
      BY <2>4, <3>2, ConcatProperties
  <2>6. /\ q > 0 => \E fin \in Buenos : Va(d, <<e>> \o E, Buenos, fin)
        /\ \E fin \in Discos : Va(d, <<e>> \o E, Discos, fin) /\ Hueco(fin, n, p, p + v)
    BY <1>3, <1>4, <1>5, <1>6, <1>7, <2>2, PlanAchicar
  <2>7. ASSUME q > 0 PROVE Lleva(d0, A, ~Mueve(n, c))
    <3>1. PICK fin \in Buenos : Va(d, <<e>> \o E, Buenos, fin)
      BY <2>6, <2>7
    <3>2. Buenos \subseteq S
      BY <2>1, BuenosEs
    <3>3. Va(d, <<e>> \o E, S, fin)
      BY <3>1, <3>2, VaMas
    <3>4. Va(d0, A, S, fin)
      BY <2>2, <2>4, <3>3, Seguir
    <3>5. QED
      BY <2>1, <3>1, <3>4 DEF Lleva
  <2>8. \E fin \in Discos, a, b \in Nat : Va(d0, A, Discos, fin) /\ Hueco(fin, n, a, b)
    <3>1. PICK fin \in Discos : Va(d, <<e>> \o E, Discos, fin) /\ Hueco(fin, n, p, p + v)
      BY <2>6
    <3>2. S \subseteq Discos
      BY <2>1, BuenosEs
    <3>3. Va(d0, C, Discos, d)
      BY <2>2, <3>2, VaMas
    <3>4. Va(d0, A, Discos, fin)
      BY <2>4, <3>1, <3>3, Seguir
    <3>5. p + v \in Nat
      OBVIOUS
    <3>6. QED
      BY <3>1, <3>4, <3>5
  <2>9. QED
    BY <1>4, <1>10, <2>3, <2>5, <2>7, <2>8
<1>11. QED
  BY <1>1, <1>9, <1>10

LEMMA CompactandoLleva ==
  ASSUME archivos \in Seq(Nombres), metadata \in Directorios, NEW n \in Existentes,
         NEW d0 \in Discos, d0.md = metadata, d0.bm = bitmap, Bueno(d0), d0.es[n] = {},
         NEW c, c = Compactar(n), Compacta(n, c),
         NEW t \in Nat, t < Ancho, EnBloques(t) > Ocupa(metadata[n].tam),
         c.ok => (c.pegar + Ocupa(metadata[n].tam)) .. (c.pegar + EnBloques(t) - 1) \subseteq Bloques \ bitmap
  PROVE  Lleva(d0, AgrandarCompactando(n, t), FALSE)
<1>1. /\ c.pegar \in Nat /\ c.ok \in BOOLEAN /\ c.escrituras \in Seq(Escritos)
      /\ ~c.ok => c.escrituras = <<>>
      /\ c.ok => \E d \in Discos :
                   /\ Va(d0, c.escrituras, IF Mueve(n, c) THEN Discos ELSE Buenos, d)
                   /\ Bueno(d) /\ d.bm = bitmap /\ d.es[n] = {}
                   /\ EstaEn(d, n, c.pegar, metadata[n].tam)
  BY TrasCompactar
<1>2. PICK p \in Nat, C \in Seq(Escritos) : p = c.pegar /\ C = c.escrituras
  BY <1>1
<1>3. n \in Nombres /\ metadata[n] # Nada /\ metadata[n].tam \in Nat
  BY DEF Existentes, Directorios, Fichas
<1>4. PICK u \in Nat, v \in Nat, q \in Nat : u = metadata[n].tam /\ v = Ocupa(u) /\ q = EnBloques(t)
  BY <1>3, OcupaTipo
<1>5. q > v
  BY <1>4
<1>6. PICK e \in Escritos : e = Metadata(n, p, t)
  BY <1>3, EscritosTipo
<1>7. PICK E \in Seq(Escritos) :
        E = Nuevos(p, v, t) /\ EsNuevos(E, p, v, q)
  <2>1. /\ Nuevos(p, v, t) \in Seq(SobreLosQueHay(n))
        /\ Len(Nuevos(p, v, t)) = IF EnBloques(t) >= v THEN EnBloques(t) - v ELSE 0
        /\ \A k \in 1..(EnBloques(t) - v) : Nuevos(p, v, t)[k] = Usar(p + v + k - 1)
    BY NuevosBien, ZenonT(40)
  <2>2. Nuevos(p, v, t) \in Seq(Escritos)
    BY <2>1, SobreLosQueHayBien
  <2>3. Len(Nuevos(p, v, t)) = q - v
    BY <1>4, <1>5, <2>1
  <2>4. QED
    BY <1>4, <2>1, <2>2, <2>3 DEF EsNuevos
<1>8. AgrandarCompactando(n, t) = IF c.ok THEN (C \o <<e>>) \o E ELSE C
  BY <1>2, <1>4, <1>6, <1>7, Zenon DEF AgrandarCompactando
<1>9. CASE ~c.ok
  <2>1. AgrandarCompactando(n, t) = <<>>
    BY <1>1, <1>2, <1>8, <1>9
  <2>2. d0 \in Buenos
    BY BuenosEs
  <2>3. QED
    BY <2>1, <2>2, LlevaNada
<1>10. CASE c.ok
  <2>1. PICK d \in Discos : /\ Va(d0, C, IF Mueve(n, c) THEN Discos ELSE Buenos, d)
                            /\ Bueno(d) /\ d.bm = bitmap /\ d.es[n] = {} /\ EstaEn(d, n, p, u)
    BY <1>1, <1>2, <1>4, <1>10
  <2>2. Va(d0, C, Discos, d)
    <3>1. PICK S : S = IF Mueve(n, c) THEN Discos ELSE Buenos
      OBVIOUS
    <3>2. S \subseteq Discos
      BY <3>1, BuenosEs
    <3>3. QED
      BY <2>1, <3>1, <3>2, VaMas
  <2>3. Libres(d, p + v, p + q)
    <3>1. ASSUME NEW g \in Nat, p + v <= g, g < p + q PROVE g \in Bloques \ bitmap
      <4>1. g \in (p + v) .. (p + q - 1)
        BY <3>1
      <4>2. QED
        BY <1>2, <1>4, <1>10, <4>1
    <3>2. QED
      BY <2>1, <3>1 DEF Libres
  <2>4. PICK fin \in Buenos : Va(d, <<e>> \o E, Discos, fin)
    BY <1>3, <1>4, <1>5, <1>6, <1>7, <2>1, <2>3, PlanCompactando
  <2>5. Va(d0, (C \o <<e>>) \o E, Discos, fin)
    BY <2>2, <2>4, Seguir
  <2>6. QED
    BY <1>8, <1>10, <2>5, LlevaPorDiscos
<1>11. QED
  BY <1>1, <1>9, <1>10

LEMMA AlLadoLleva ==
  ASSUME metadata \in Directorios, NEW n \in Existentes,
         NEW d \in Buenos, d.md = metadata, d.bm = bitmap,
         NEW t \in Nat, t < Ancho, EnBloques(t) > Ocupa(metadata[n].tam),
         Siguientes(n, t) \cap bitmap = {}, Siguientes(n, t) \subseteq Bloques
  PROVE  Lleva(d, AgrandarAlLado(n, t), TRUE)
<1>1. n \in Nombres /\ metadata[n] # Nada /\ metadata[n].tam \in Nat /\ metadata[n].bloque \in Nat
  BY DEF Existentes, Directorios, Fichas
<1>2. PICK i \in Nat, u \in Nat, v \in Nat, q \in Nat :
        i = metadata[n].bloque /\ u = metadata[n].tam /\ v = Ocupa(u) /\ q = EnBloques(t)
  BY <1>1, OcupaTipo
<1>3. q > v
  BY <1>2
<1>4. PICK E \in Seq(Escritos) :
        E = Nuevos(i, v, t) /\ EsNuevos(E, i, v, q)
  <2>1. /\ Nuevos(i, v, t) \in Seq(SobreLosQueHay(n))
        /\ Len(Nuevos(i, v, t)) = IF EnBloques(t) >= v THEN EnBloques(t) - v ELSE 0
        /\ \A k \in 1..(EnBloques(t) - v) : Nuevos(i, v, t)[k] = Usar(i + v + k - 1)
    BY NuevosBien, ZenonT(40)
  <2>2. Nuevos(i, v, t) \in Seq(Escritos)
    BY <2>1, SobreLosQueHayBien
  <2>3. Len(Nuevos(i, v, t)) = q - v
    BY <1>2, <1>3, <2>1
  <2>4. QED
    BY <1>2, <2>1, <2>2, <2>3 DEF EsNuevos
<1>5. Libres(d, i + v, i + q)
  <2>1. Siguientes(n, t) = (i + v) .. (i + q - 1)
    BY <1>2 DEF Siguientes
  <2>2. ASSUME NEW g \in Nat, i + v <= g, g < i + q PROVE g \in Siguientes(n, t)
    BY <2>1, <2>2
  <2>3. QED
    BY <2>2 DEF Libres
<1>6. EstaEn(d, n, i, u)
  BY <1>1, <1>2 DEF EstaEn
<1>7. PICK fin \in Buenos : Va(d, E \o <<Metadata(n, i, t)>>, Buenos, fin)
  BY <1>1, <1>2, <1>3, <1>4, <1>5, <1>6, PlanAlLado
<1>8. AgrandarAlLado(n, t) = E \o <<Metadata(n, i, t)>>
  BY <1>2, <1>4 DEF AgrandarAlLado
<1>9. QED
  BY <1>7, <1>8, LlevaPorBuenos

(* Where a WRITE of a file of u bytes touches, when the numbers of the      *)
(* bytes of the disk fit.                                                   *)
LEMMA CocienteCota ==
  ASSUME NEW m \in Nat \ {0}, NEW a \in Nat, NEW k \in Nat
  PROVE  /\ a >= k * m => a \div m >= k
         /\ a < k * m => a \div m < k
<1>1. PICK q \in Nat, r \in Nat : q = a \div m /\ r = a % m
  <2>1. a \div m \in Nat /\ a % m \in Nat
    BY Cociente
  <2>2. QED
    BY <2>1
<1>2. a = m * q + r /\ r < m
  BY <1>1, Cociente
<1>3. ASSUME a >= k * m, q < k PROVE FALSE
  <2>1. PICK j \in Nat : k = q + 1 + j
    <3>1. k - q - 1 \in Nat /\ k = q + 1 + (k - q - 1)
      BY <1>3
    <3>2. QED
      BY <3>1
  <2>2. k * m = m * q + m + j * m
    BY <2>1
  <2>3. j * m \in Nat
    OBVIOUS
  <2>4. QED
    BY <1>2, <1>3, <2>2, <2>3
<1>4. ASSUME a < k * m, q >= k PROVE FALSE
  <2>1. PICK j \in Nat : q = k + j
    <3>1. q - k \in Nat /\ q = k + (q - k)
      BY <1>4
    <3>2. QED
      BY <3>1
  <2>2. m * q = k * m + m * j
    BY <2>1
  <2>3. m * j \in Nat
    OBVIOUS
  <2>4. QED
    BY <1>2, <1>4, <2>2, <2>3
<1>5. QED
  BY <1>1, <1>3, <1>4

LEMMA Tocados ==
  ASSUME Cabe, NEW i \in Nat, NEW u \in Nat, Justo(u),
         NEW q \in Nat, q = EnBloques(u), i + q <= Bits,
         NEW p \in Nat, NEW l \in Nat \ {0}, p + l < Ancho, (p + l) % Ancho <= u,
         NEW primero, primero = (i * BlockSize + p) % Ancho,
         NEW c \in (primero \div BlockSize) .. ((primero + l - 1) \div BlockSize)
  PROVE  i <= c /\ c < i + q
<1>1. BlockSize \in Nat \ {0} /\ Bits \in Nat /\ Ancho \in Nat \ {0} /\ Bits * BlockSize <= Ancho
  BY DialFSAssumption DEF Cabe
<1>2. PICK m \in Nat \ {0} : m = BlockSize
  BY <1>1
<1>3. u <= q * m
  <2>1. PICK a \in Nat : a = u + m - 1
    OBVIOUS
  <2>2. q = a \div m
    BY <1>2, <2>1, JustoEs DEF Abarca
  <2>3. a = m * q + (a % m) /\ a % m \in 0..(m - 1)
    BY <2>2, Cociente
  <2>4. PICK r \in Nat : r = a % m /\ r <= m - 1
    BY <2>3
  <2>5. PICK z \in Nat : z = m * q
    OBVIOUS
  <2>6. u <= z
    BY <2>1, <2>3, <2>4, <2>5
  <2>7. z = q * m
    BY <2>5
  <2>8. QED
    BY <2>6, <2>7
<1>4. p + l <= u
  <2>1. PICK s \in Nat : s = p + l
    OBVIOUS
  <2>2. s % Ancho = s
    BY <1>1, <2>1, RestoDeMenor
  <2>3. QED
    BY <2>1, <2>2
<1>5. PICK w \in Nat : w = i * m
  OBVIOUS
<1>6. (i + q) * m = w + q * m
  BY <1>5
<1>7. (i + q) * m <= Ancho
  <2>1. PICK j \in Nat : Bits = (i + q) + j
    <3>1. Bits - (i + q) \in Nat /\ Bits = (i + q) + (Bits - (i + q))
      BY <1>1
    <3>2. QED
      BY <3>1
  <2>2. Bits * m = (i + q) * m + j * m
    BY <2>1
  <2>3. j * m \in Nat /\ (i + q) * m \in Nat
    OBVIOUS
  <2>4. QED
    BY <1>1, <1>2, <2>2, <2>3
<1>8. PICK a \in Nat : a = w + p
  OBVIOUS
<1>9. PICK z \in Nat : z = q * m
  OBVIOUS
<1>10. a + l <= w + z /\ w + z <= Ancho /\ a < Ancho
  BY <1>1, <1>3, <1>4, <1>6, <1>7, <1>8, <1>9
<1>11. primero = a
  <2>1. a % Ancho = a
    BY <1>1, <1>10, RestoDeMenor
  <2>2. QED
    BY <1>2, <1>5, <1>8, <2>1
<1>12. PICK y \in Nat : y = a + l - 1
  OBVIOUS
<1>13. c \in (a \div m) .. (y \div m)
  BY <1>2, <1>11, <1>12
<1>14. a \div m >= i
  <2>1. a >= i * m
    <3>1. a >= w
      BY <1>8
    <3>2. QED
      BY <1>5, <3>1
  <2>2. QED
    BY <2>1, CocienteCota
<1>15. y \div m < i + q
  <2>1. y < (i + q) * m
    BY <1>6, <1>9, <1>10, <1>12
  <2>2. i + q \in Nat
    OBVIOUS
  <2>3. QED
    BY <2>1, <2>2, CocienteCota
<1>16. a \div m \in Nat /\ y \div m \in Nat
  BY Cociente
<1>17. QED
  BY <1>13, <1>14, <1>15, <1>16

-----------------------------------------------------------------------------
(***************************************************************************)
(* The invariant holds after each request, each write and each start.      *)
(***************************************************************************)
LEMMA TamanoEs ==
  ASSUME NEW t \in Tamanos
  PROVE  t \in Nat /\ t < Ancho
  BY DialFSAssumption

LEMMA PedidoEs ==
  ASSUME Tipos, NEW n \in Nombres, Hay(n)
  PROVE  /\ archivos \in Seq(Nombres) /\ metadata \in Directorios /\ n \in Existentes
         /\ metadata[n] # Nada /\ metadata[n].tam \in Nat /\ metadata[n].bloque \in Nat
         /\ Escrituras \subseteq Nat \X (Nat \ {0})
<1>1. archivos \in Seq(Nombres) /\ metadata \in Directorios
  BY DEF Tipos, TypeDialFS, Directorios, Fichas
<1>2. QED
  BY <1>1, HayEs, DialFSAssumption DEF Existentes

LEMMA CrearSalud ==
  ASSUME Tipos, Salud, NEW n \in Nombres, CrearArchivo(n)
  PROVE  Salud'
<1>1. plan = SinPlan /\ UNCHANGED disco
  BY DEF CrearArchivo, Pedido
<1>2. CASE PrimerBloqueLibre = Nada
  BY <1>1, <1>2, IgualSalud DEF CrearArchivo, NoHacer
<1>3. CASE PrimerBloqueLibre # Nada
  <2>1. PICK g : g = PrimerBloqueLibre
    OBVIOUS
  <2>2. g \in Bloques /\ g \notin bitmap
    BY <1>3, <2>1, PrimerLibreTipo
  <2>3. /\ Hacer(n, <<Usar(g), Metadata(n, g, 0)>>, TRUE, metadata[n] = Nada)
        /\ escrito' = [escrito EXCEPT ![n] = {}]
    BY <1>3, <2>1, Zenon DEF CrearArchivo
  <2>4. PICK E : E = <<Usar(g), Metadata(n, g, 0)>>
    OBVIOUS
  <2>5. ASSUME sano' PROVE Lleva(Disco', E, TRUE)
    <3>1. sano /\ metadata[n] = Nada
      BY <2>3, <2>5 DEF Hacer
    <3>2. PICK d : d = Disco'
      OBVIOUS
    <3>3. d \in Buenos /\ d.md = metadata /\ d.bm = bitmap /\ d.es[n] = {}
      BY <1>1, <2>3, <3>1, <3>2, DiscoDelPedido
    <3>4. PICK fin \in Buenos : Va(d, E, Buenos, fin)
      BY <2>2, <2>4, <3>1, <3>3, PlanCrear
    <3>5. QED
      BY <3>2, <3>4, LlevaPorBuenos
  <2>6. Hacer(n, E, TRUE, metadata[n] = Nada)
    BY <2>3, <2>4
  <2>7. QED
    BY <2>5, <2>6, HacerSalud
<1>4. QED
  BY <1>2, <1>3

LEMMA EliminarSalud ==
  ASSUME Tipos, Salud, NEW n \in Nombres, EliminarArchivo(n)
  PROVE  Salud'
<1>1. /\ plan = SinPlan /\ UNCHANGED disco /\ Hay(n)
      /\ escrito' = [escrito EXCEPT ![n] = {}]
  BY DEF EliminarArchivo, Pedido
<1>2. /\ archivos \in Seq(Nombres) /\ metadata \in Directorios /\ n \in Existentes
      /\ metadata[n] # Nada /\ metadata[n].tam \in Nat
  BY <1>1, PedidoEs
<1>3. PICK d : d = Disco'
  OBVIOUS
<1>4. sano => /\ d \in Buenos /\ d \in Discos /\ Bueno(d)
              /\ d.md = metadata /\ d.bm = bitmap /\ d.es[n] = {}
  BY <1>1, <1>3, DiscoDelPedido
<1>5. PICK B \in Escritos : B = Borrar(n)
  BY EscritosTipo
<1>6. CASE metadata[n].tam = 0 \/ Ocupa(metadata[n].tam) = 0
  <2>1. Hacer(n, <<B>>, TRUE, TRUE)
    BY <1>5, <1>6, Zenon DEF EliminarArchivo
  <2>2. ASSUME sano' PROVE Lleva(Disco', <<B>>, TRUE)
    <3>1. sano
      BY <2>1, <2>2 DEF Hacer
    <3>2. d.md[n] # Nada
      BY <1>2, <1>4, <3>1
    <3>3. Hueco(d, n, Desde(d, n), Hasta(d, n)) /\ Desde(d, n) \in Nat /\ Hasta(d, n) \in Nat
      BY <1>4, <3>1, <3>2, Apertura, Medidas
    <3>4. Tras(d, B) \in Buenos
      BY <1>4, <1>5, <3>1, <3>3, PlanBorrar
    <3>5. Va(d, <<B>>, Buenos, Tras(d, B))
      BY <1>4, <3>1, <3>4, VaUno
    <3>6. QED
      BY <1>3, <3>4, <3>5, LlevaPorBuenos
  <2>3. QED
    BY <2>1, <2>2, HacerSalud
<1>7. CASE ~(metadata[n].tam = 0 \/ Ocupa(metadata[n].tam) = 0)
  <2>1. PICK c : c = Compactar(n)
    OBVIOUS
  <2>2. PICK A : A = Achicar(n, 0)
    OBVIOUS
  <2>3. PICK E : E = A \o (IF c.ok THEN <<B>> ELSE <<>>)
    OBVIOUS
  <2>4. Hacer(n, E, FALSE, Compacta(n, c))
    BY <1>5, <1>7, <2>1, <2>2, <2>3, Zenon DEF EliminarArchivo
  <2>5. ASSUME sano' PROVE Lleva(Disco', E, FALSE)
    <3>1. sano /\ Compacta(n, c)
      BY <2>4, <2>5 DEF Hacer
    <3>2. PICK o \in Nat : o = 0 /\ o < Ancho
      BY Medida
    <3>3. EnBloques(o) < Ocupa(metadata[n].tam)
      <4>1. EnBloques(o) = 0
        BY <3>2, EnBloquesDe
      <4>2. Ocupa(metadata[n].tam) \in Nat /\ Ocupa(metadata[n].tam) # 0
        BY <1>2, <1>7, OcupaTipo
      <4>3. QED
        BY <4>1, <4>2
    <3>4. /\ A \in Seq(Escritos)
          /\ c.ok => \E fin \in Discos, a, b \in Nat : Va(d, A, Discos, fin) /\ Hueco(fin, n, a, b)
          /\ ~c.ok => A = <<>>
      <4>1. A = Achicar(n, o)
        BY <2>2, <3>2
      <4>2. d \in Discos /\ Bueno(d) /\ d.md = metadata /\ d.bm = bitmap /\ d.es[n] = {}
        BY <1>4, <3>1
      <4>3. QED
        BY <1>2, <2>1, <3>1, <3>2, <3>3, <4>1, <4>2, AchicarLleva
    <3>5. CASE ~c.ok
      <4>1. E = <<>>
        BY <2>3, <3>4, <3>5
      <4>2. QED
        BY <1>3, <1>4, <3>1, <4>1, LlevaNada
    <3>6. CASE c.ok
      <4>1. PICK m \in Discos, a \in Nat, b \in Nat : Va(d, A, Discos, m) /\ Hueco(m, n, a, b)
        BY <3>4, <3>6
      <4>2. PICK fin \in Buenos : fin = Tras(m, B)
        BY <1>5, <4>1, PlanBorrar
      <4>3. fin \in Discos
        BY BuenosEs
      <4>4. Va(m, <<B>>, Discos, fin)
        BY <4>2, <4>3, VaUno
      <4>5. <<B>> \in Seq(Escritos)
        BY SeqDeUno
      <4>6. Va(d, A \o <<B>>, Discos, fin)
        BY <3>4, <4>1, <4>4, <4>5, VaJunto
      <4>7. E = A \o <<B>>
        BY <2>3, <3>6
      <4>8. QED
        BY <1>3, <4>6, <4>7, LlevaPorDiscos
    <3>7. QED
      BY <3>5, <3>6
  <2>6. QED
    BY <2>4, <2>5, HacerSalud
<1>8. QED
  BY <1>6, <1>7

LEMMA MenosSalud ==
  ASSUME Tipos, Salud, NEW n \in Nombres, NEW t \in Tamanos, TruncarMenos(n, t)
  PROVE  Salud'
<1>1. /\ plan = SinPlan /\ UNCHANGED disco /\ Hay(n)
      /\ escrito' = [escrito EXCEPT ![n] = {}]
      /\ EnBloques(t) < Ocupa(metadata[n].tam)
  BY DEF TruncarMenos, Pedido
<1>2. /\ archivos \in Seq(Nombres) /\ metadata \in Directorios /\ n \in Existentes
      /\ t \in Nat /\ t < Ancho
  BY <1>1, PedidoEs, TamanoEs
<1>3. PICK d : d = Disco'
  OBVIOUS
<1>4. PICK c : c = Compactar(n)
  OBVIOUS
<1>5. PICK A : A = Achicar(n, t)
  OBVIOUS
<1>6. Hacer(n, A, ~Mueve(n, c) /\ EnBloques(t) > 0, Compacta(n, c) /\ EnBloques(t) > 0)
  BY <1>4, <1>5, Zenon DEF TruncarMenos
<1>7. ASSUME sano' PROVE Lleva(Disco', A, ~Mueve(n, c) /\ EnBloques(t) > 0)
  <2>1. sano /\ Compacta(n, c) /\ EnBloques(t) > 0
    BY <1>6, <1>7 DEF Hacer
  <2>2. d \in Discos /\ Bueno(d) /\ d.md = metadata /\ d.bm = bitmap /\ d.es[n] = {}
    BY <1>1, <1>3, <2>1, DiscoDelPedido
  <2>3. Lleva(d, A, ~Mueve(n, c))
    BY <1>1, <1>2, <1>4, <1>5, <2>1, <2>2, AchicarLleva
  <2>4. (~Mueve(n, c) /\ EnBloques(t) > 0) <=> ~Mueve(n, c)
    BY <2>1
  <2>5. QED
    BY <1>3, <2>3, <2>4 DEF Lleva
<1>8. QED
  BY <1>6, <1>7, HacerSalud

LEMMA MasSalud ==
  ASSUME Tipos, Salud, NEW n \in Nombres, NEW t \in Tamanos, TruncarMas(n, t)
  PROVE  Salud'
<1>1. /\ plan = SinPlan /\ UNCHANGED disco /\ Hay(n) /\ escrito' = escrito
      /\ EnBloques(t) > Ocupa(metadata[n].tam) /\ Siguientes(n, t) \cap bitmap = {}
      /\ Hacer(n, AgrandarAlLado(n, t), TRUE, Siguientes(n, t) \subseteq Bloques)
  BY DEF TruncarMas, Pedido
<1>2. /\ metadata \in Directorios /\ n \in Existentes /\ t \in Nat
      /\ t < Ancho
  BY <1>1, PedidoEs, TamanoEs
<1>3. PICK A : A = AgrandarAlLado(n, t)
  OBVIOUS
<1>4. ASSUME sano' PROVE Lleva(Disco', A, TRUE)
  <2>1. sano /\ Siguientes(n, t) \subseteq Bloques
    BY <1>1, <1>4 DEF Hacer
  <2>2. PICK d : d = Disco'
    OBVIOUS
  <2>3. d \in Buenos /\ d.md = metadata /\ d.bm = bitmap
    BY <1>1, <2>1, <2>2, DiscoDelPedido
  <2>4. Lleva(d, A, TRUE)
    BY <1>1, <1>2, <1>3, <2>1, <2>3, AlLadoLleva
  <2>5. QED
    BY <2>2, <2>4
<1>5. QED
  BY <1>1, <1>3, <1>4, HacerSalud

LEMMA CompactandoSalud ==
  ASSUME Tipos, Salud, NEW n \in Nombres, NEW t \in Tamanos, TruncarMasCompactando(n, t)
  PROVE  Salud'
<1>1. /\ plan = SinPlan /\ UNCHANGED disco /\ Hay(n)
      /\ escrito' = [escrito EXCEPT ![n] = {}]
      /\ EnBloques(t) > Ocupa(metadata[n].tam)
  BY Zenon DEF TruncarMasCompactando, Pedido
<1>2. /\ archivos \in Seq(Nombres) /\ metadata \in Directorios /\ n \in Existentes /\ t \in Nat
      /\ t < Ancho
  BY <1>1, PedidoEs, TamanoEs
<1>3. PICK c : c = Compactar(n)
  OBVIOUS
<1>4. PICK A : A = AgrandarCompactando(n, t)
  OBVIOUS
<1>5. PICK toma : toma = (c.pegar + Ocupa(metadata[n].tam)) .. (c.pegar + EnBloques(t) - 1)
  OBVIOUS
<1>6. Hacer(n, A, FALSE, Compacta(n, c) /\ (c.ok => toma \subseteq Bloques \ bitmap))
  BY <1>3, <1>4, <1>5, Zenon DEF TruncarMasCompactando
<1>7. ASSUME sano' PROVE Lleva(Disco', A, FALSE)
  <2>1. sano /\ Compacta(n, c) /\ (c.ok => toma \subseteq Bloques \ bitmap)
    BY <1>6, <1>7 DEF Hacer
  <2>2. PICK d : d = Disco'
    OBVIOUS
  <2>3. d \in Discos /\ Bueno(d) /\ d.md = metadata /\ d.bm = bitmap /\ d.es[n] = {}
    BY <1>1, <2>1, <2>2, DiscoDelPedido
  <2>4. Lleva(d, A, FALSE)
    BY <1>1, <1>2, <1>3, <1>4, <1>5, <2>1, <2>3, CompactandoLleva
  <2>5. QED
    BY <2>2, <2>4
<1>8. QED
  BY <1>6, <1>7, HacerSalud

LEMMA MismoTamanoSalud ==
  ASSUME Tipos, Salud, NEW n \in Nombres, NEW t \in Tamanos, TruncarIgual(n, t)
  PROVE  Salud'
<1>1. plan = SinPlan /\ UNCHANGED disco /\ Hay(n) /\ escrito' = escrito
  BY DEF TruncarIgual, Pedido
<1>2. /\ metadata \in Directorios /\ t \in Nat /\ t < Ancho /\ metadata[n] # Nada
      /\ metadata[n].tam \in Nat /\ metadata[n].bloque \in Nat
  BY <1>1, PedidoEs, TamanoEs
<1>3. CASE t # metadata[n].tam /\ t < BlockSize /\ metadata[n].tam = 0
  <2>1. PICK i \in Nat : i = metadata[n].bloque
    BY <1>2
  <2>2. PICK e : e = Metadata(n, i, t)
    OBVIOUS
  <2>3. Hacer(n, <<e>>, TRUE, TRUE)
    BY <1>3, <2>1, <2>2, Zenon DEF TruncarIgual
  <2>4. ASSUME sano' PROVE Lleva(Disco', <<e>>, TRUE)
    <3>1. sano
      BY <2>3, <2>4 DEF Hacer
    <3>2. PICK d : d = Disco'
      OBVIOUS
    <3>3. d \in Buenos /\ d.md = metadata
      BY <1>1, <3>1, <3>2, DiscoDelPedido
    <3>4. EstaEn(d, n, i, 0) /\ 0 < t
      BY <1>2, <1>3, <2>1, <3>3 DEF EstaEn
    <3>5. Tras(d, e) \in Buenos
      <4>1. EnBloques(t) = Ocupa(0)
        BY <1>3 DEF TruncarIgual
      <4>2. EnBloques(t) >= 1
        BY <4>1, EnBloquesDe
      <4>3. Justo(t)
        BY <1>2, <4>2, JustoPorBloques
      <4>4. QED
        BY <1>2, <1>3, <2>2, <3>3, <3>4, <4>3, PlanIgual
    <3>6. Va(d, <<e>>, Buenos, Tras(d, e))
      BY <3>3, <3>5, VaUno
    <3>7. QED
      BY <3>2, <3>5, <3>6, LlevaPorBuenos
  <2>5. QED
    BY <2>3, <2>4, HacerSalud
<1>4. CASE ~(t # metadata[n].tam /\ t < BlockSize /\ metadata[n].tam = 0)
  <2>1. NoHacer
    BY <1>4, Zenon DEF TruncarIgual
  <2>2. QED
    BY <1>1, <2>1, IgualSalud DEF NoHacer
<1>5. QED
  BY <1>3, <1>4

LEMMA EscrituraSalud ==
  ASSUME Tipos, Salud, NEW n \in Nombres, NEW p \in Nat, NEW l \in Nat \ {0},
         EscribirArchivo(n, p, l)
  PROVE  Salud'
<1>1. plan = SinPlan /\ UNCHANGED disco /\ Hay(n) /\ escrito' = escrito
  BY Zenon DEF EscribirArchivo, Pedido
<1>2. /\ metadata \in Directorios /\ metadata[n] # Nada
      /\ metadata[n].tam \in Nat /\ metadata[n].bloque \in Nat
  BY <1>1, PedidoEs
<1>3. PICK i \in Nat, u \in Nat : i = metadata[n].bloque /\ u = metadata[n].tam
  BY <1>2
<1>4. PICK primero : primero = (i * BlockSize + p) % Ancho
  OBVIOUS
<1>5. PICK B : B = (primero \div BlockSize) .. ((primero + l - 1) \div BlockSize)
  OBVIOUS
<1>6. PICK e : e = Escribir(n, i, B)
  OBVIOUS
<1>7. CASE EntraEnArchivo(n, p, l)
  <2>1. Hacer(n, <<e>>, TRUE, p + l < Ancho)
    BY <1>3, <1>4, <1>5, <1>6, <1>7, Zenon DEF EscribirArchivo
  <2>2. (p + l) % Ancho <= u
    BY <1>3, <1>7 DEF EntraEnArchivo
  <2>3. B \in SUBSET Nat
    <3>1. BlockSize \in Nat \ {0} /\ Ancho \in Nat \ {0}
      BY DialFSAssumption
    <3>2. PICK a \in Nat : a = i * BlockSize + p
      BY <3>1
    <3>3. primero \in Nat
      BY <1>4, <3>1, <3>2, Cociente
    <3>4. primero \div BlockSize \in Nat
      BY <3>1, <3>3, Cociente
    <3>5. QED
      BY <1>5, <3>4
  <2>4. ASSUME sano' PROVE Lleva(Disco', <<e>>, TRUE)
    <3>1. sano /\ p + l < Ancho
      BY <2>1, <2>4 DEF Hacer
    <3>2. PICK d : d = Disco'
      OBVIOUS
    <3>3. d \in Buenos /\ d \in Discos /\ Bueno(d) /\ d.md = metadata
      BY <1>1, <3>1, <3>2, DiscoDelPedido
    <3>4. EstaEn(d, n, i, u) /\ d.md[n] # Nada
      BY <1>2, <1>3, <3>3 DEF EstaEn
    <3>5. PICK q \in Nat : q = EnBloques(u) /\ Justo(u)
      <4>1. d.md[n].tam = u
        BY <3>4 DEF EstaEn
      <4>2. Justo(u)
        BY <3>3, <3>4, <4>1, DeBueno, Largas
      <4>3. QED
        BY <4>2, OcupaTipo
    <3>6. i + q <= Bits
      <4>1. q <= Hasta(d, n) - i /\ Hasta(d, n) \in Nat /\ Desde(d, n) = i /\ i < Hasta(d, n)
        <5>1. d.md[n].tam = u /\ Desde(d, n) = i
          BY <3>4 DEF EstaEn, Desde
        <5>2. /\ EnBloques(u) <= Ocupa(u) /\ Hasta(d, n) = i + Ocupa(u) /\ Ocupa(u) \in Nat
              /\ Hasta(d, n) \in Nat /\ i < Hasta(d, n)
          BY <3>3, <3>4, <5>1, Medidas, DeBueno, Largas
        <5>3. QED
          BY <3>5, <5>1, <5>2
      <4>2. Marcado(d, n)
        BY <3>3, <3>4, Apertura
      <4>3. PICK f \in Nat : f = Hasta(d, n) - 1
        BY <4>1
      <4>4. f \in d.bm
        BY <4>1, <4>2, <4>3 DEF Marcado
      <4>5. f \in Bloques
        BY <3>3, <4>4 DEF Discos
      <4>6. f <= Bits - 1 /\ Bits \in Nat
        BY <4>5, DialFSAssumption DEF Bloques
      <4>7. QED
        BY <4>1, <4>3, <4>6
    <3>7. Cabe => \A c \in B : i <= c /\ c < i + EnBloques(u)
      <4>1. ASSUME Cabe, NEW c \in B PROVE i <= c /\ c < i + q
        BY <1>4, <1>5, <2>2, <3>1, <3>5, <3>6, <4>1, Tocados
      <4>2. QED
        BY <3>5, <4>1
    <3>8. Tras(d, e) \in Buenos
      BY <1>6, <2>3, <3>3, <3>4, <3>7, PlanEscribir
    <3>9. Va(d, <<e>>, Buenos, Tras(d, e))
      BY <3>3, <3>8, VaUno
    <3>10. QED
      BY <3>2, <3>8, <3>9, LlevaPorBuenos
  <2>5. QED
    BY <2>1, <2>4, HacerSalud
<1>8. CASE ~EntraEnArchivo(n, p, l)
  <2>1. NoHacer
    BY <1>8, Zenon DEF EscribirArchivo
  <2>2. QED
    BY <1>1, <2>1, IgualSalud DEF NoHacer
<1>9. QED
  BY <1>7, <1>8

LEMMA PedirSalud ==
  ASSUME Tipos, Salud, Pedir
  PROVE  Salud'
<1>1. PICK n \in Nombres :
        \/ LeerMetadataNula(n) \/ Fallar(n)
        \/ CrearArchivo(n) \/ EliminarArchivo(n)
        \/ \E t \in Tamanos :
             \/ TruncarMenos(n, t) \/ TruncarMas(n, t)
             \/ TruncarMasCompactando(n, t) \/ TruncarIgual(n, t)
        \/ \E e \in Escrituras : EscribirArchivo(n, e[1], e[2])
  BY DEF Pedir
<1>2. CASE LeerMetadataNula(n)
  <2>1. UNCHANGED <<disco, escrito, plan, sano>>
    BY <1>2 DEF LeerMetadataNula
  <2>2. QED
    BY <2>1, IgualSalud
<1>3. CASE Fallar(n)
  <2>1. UNCHANGED <<disco, escrito, plan, sano>>
    BY <1>3 DEF Fallar
  <2>2. QED
    BY <2>1, IgualSalud
<1>4. ASSUME NEW e \in Escrituras, EscribirArchivo(n, e[1], e[2]) PROVE Salud'
  <2>1. Escrituras \subseteq Nat \X (Nat \ {0})
    BY DialFSAssumption
  <2>2. PICK p \in Nat, l \in Nat \ {0} : p = e[1] /\ l = e[2]
    BY <2>1
  <2>3. EscribirArchivo(n, p, l)
    BY <1>4, <2>2
  <2>4. QED
    BY <2>3, EscrituraSalud
<1>5. QED
  BY <1>1, <1>2, <1>3, <1>4, CrearSalud, EliminarSalud, MenosSalud, MasSalud, CompactandoSalud,
     MismoTamanoSalud

LEMMA EscribirSalud ==
  ASSUME Tipos, Salud, EscribirDisco
  PROVE  Salud'
<1>1. SUFFICES ASSUME sano' PROVE Lleva(Disco', plan'.escrituras, plan'.inocuo)
  BY DEF Salud
<1>2. PICK e : e = Head(plan.escrituras)
  OBVIOUS
<1>3. /\ plan.escrituras # <<>> /\ sano
      /\ Len(plan.escrituras) = 1 => plan' = SinPlan
      /\ Len(plan.escrituras) # 1 =>
           plan' = [nombre |-> plan.nombre, escrituras |-> Tail(plan.escrituras),
                    inocuo |-> plan.inocuo]
  BY <1>1, <1>2, TrasUnaEscritura
<1>4. Disco' = Tras(Disco, e)
  BY <1>2, EscribirEsTras
<1>5. PICK E \in Seq(Escritos) : E = plan.escrituras
  BY DEF Tipos, PlanBien, Planes
<1>6. PICK i : i = plan.inocuo
  OBVIOUS
<1>7. PICK S : S = IF i THEN Buenos ELSE Discos
  OBVIOUS
<1>8. PICK fin \in Buenos : Va(Disco, E, S, fin)
  BY <1>3, <1>5, <1>6, <1>7 DEF Salud, Lleva
<1>9. PICK R : R = Tail(E)
  OBVIOUS
<1>10. Va(Disco', R, S, fin)
  <2>1. PICK d : d = Disco
    OBVIOUS
  <2>2. Va(Tras(d, Head(E)), Tail(E), S, fin)
    BY <1>3, <1>5, <1>8, <2>1, VaSale
  <2>3. QED
    BY <1>2, <1>4, <1>5, <1>9, <2>1, <2>2
<1>11. Lleva(Disco', R, i)
  BY <1>7, <1>10 DEF Lleva
<1>12. CASE Len(plan.escrituras) = 1
  <2>1. R = <<>>
    BY <1>3, <1>5, <1>9, <1>12, Cabeza
  <2>2. Disco' \in Buenos
    BY <1>11, <2>1, LlevaYa
  <2>3. plan'.escrituras = <<>> /\ plan'.inocuo = TRUE
    BY <1>3, <1>12 DEF SinPlan
  <2>4. QED
    BY <2>2, <2>3, LlevaNada
<1>13. CASE Len(plan.escrituras) # 1
  <2>1. plan'.escrituras = R /\ plan'.inocuo = i
    <3>1. PICK n : n = plan.nombre
      OBVIOUS
    <3>2. plan' = [nombre |-> n, escrituras |-> R, inocuo |-> i]
      BY <1>3, <1>5, <1>6, <1>9, <1>13, <3>1
    <3>3. QED
      BY <3>2
  <2>2. QED
    BY <1>11, <2>1
<1>14. QED
  BY <1>12, <1>13

LEMMA ReiniciarSalud ==
  ASSUME Tipos, Salud, Reiniciar
  PROVE  Salud'
<1>1. /\ plan' = SinPlan /\ sano' = (sano /\ plan.inocuo)
      /\ UNCHANGED <<metadata, bitmap, bloques, escrito>>
  BY DEF Reiniciar, disco
<1>2. Disco' = Disco
  BY <1>1 DEF Disco
<1>3. ASSUME sano' PROVE Disco \in Buenos
  <2>1. sano /\ plan.inocuo
    BY <1>1, <1>3
  <2>2. PICK E \in Seq(Escritos) : E = plan.escrituras
    BY DEF Tipos, PlanBien, Planes
  <2>3. PICK fin \in Buenos : Va(Disco, E, Buenos, fin)
    BY <2>1, <2>2 DEF Salud, Lleva
  <2>4. PICK d, S : d = Disco /\ S = Buenos
    OBVIOUS
  <2>5. d \in S
    BY <2>3, <2>4, VaSale
  <2>6. QED
    BY <2>4, <2>5
<1>4. plan'.escrituras = <<>> /\ plan'.inocuo = TRUE
  BY <1>1 DEF SinPlan
<1>5. sano' => Lleva(Disco', plan'.escrituras, plan'.inocuo)
  BY <1>2, <1>3, <1>4, LlevaNada
<1>6. QED
  BY <1>5 DEF Salud

LEMMA SaludInvariante == Spec => []Salud
<1>1. Init /\ Tipos => Salud
  <2>1. SUFFICES ASSUME Init, Tipos PROVE Salud
    OBVIOUS
  <2>2. Disco \in Discos /\ Disco.md = metadata
    BY <2>1, DiscoBien
  <2>3. Estan(Disco, Nombres) = {}
    BY <2>1, <2>2 DEF Init, Estan
  <2>4. Disco \in Buenos
    BY <2>2, <2>3 DEF Buenos, Bueno, Ordenado
  <2>5. plan.escrituras = <<>> /\ plan.inocuo = TRUE
    BY <2>1 DEF Init, SinPlan
  <2>6. QED
    BY <2>4, <2>5, LlevaNada DEF Salud
<1>2. ASSUME Tipos, Salud, [Next]_vars PROVE Salud'
  <2>1. CASE Next
    BY <1>2, <2>1, PedirSalud, EscribirSalud, ReiniciarSalud DEF Next
  <2>2. CASE UNCHANGED vars
    <3>1. UNCHANGED <<disco, escrito, plan, sano>>
      BY <2>2 DEF vars
    <3>2. QED
      BY <1>2, <3>1, IgualSalud
  <2>3. QED
    BY <1>2, <2>1, <2>2
<1>3. QED
  BY <1>1, <1>2, TiposInvariante, PTL DEF Spec

-----------------------------------------------------------------------------
LEMMA EntrePedidos ==
  ASSUME Tipos, Salud, sano, plan = SinPlan
  PROVE  /\ Disco \in Discos /\ Bueno(Disco) /\ Disco.md = metadata /\ Disco.bm = bitmap
         /\ Disco.bl = bloques /\ Disco.es = escrito
         /\ \A x \in Existentes : x \in Nombres /\ x \in Estan(Disco, Nombres)
<1>1. Lleva(Disco, <<>>, TRUE)
  BY DEF Salud, SinPlan
<1>2. Disco \in Buenos
  BY <1>1, LlevaYa
<1>3. QED
  BY <1>2, DiscoBien DEF Buenos, Existentes, Estan

(* Between requests no two files share a block and the blocks of every file *)
(* are marked, for any number of files and blocks and any mix of requests,  *)
(* compactions, stops and crashes, until something happens that the code    *)
(* does not survive.                                                        *)
THEOREM LosArchivosNoSePisan == Spec => []BloquesDisjuntos
<1>1. ASSUME Tipos, Salud PROVE BloquesDisjuntos
  <2>1. SUFFICES ASSUME sano, plan = SinPlan, NEW n \in Existentes
                 PROVE  /\ BloquesDe(n) \subseteq bitmap
                        /\ \A m \in Existentes \ {n} : BloquesDe(n) \cap BloquesDe(m) = {}
    BY DEF BloquesDisjuntos
  <2>2. /\ Disco \in Discos /\ Bueno(Disco) /\ Disco.md = metadata /\ Disco.bm = bitmap
        /\ \A x \in Existentes : x \in Nombres /\ x \in Estan(Disco, Nombres)
    BY <1>1, <2>1, EntrePedidos
  <2>3. PICK d \in Discos : d = Disco
    BY <2>2
  <2>4. ASSUME NEW x \in Existentes, NEW c \in BloquesDe(x)
        PROVE  /\ c \in Nat /\ Desde(d, x) <= c /\ c < Hasta(d, x)
               /\ Desde(d, x) \in Nat /\ Hasta(d, x) \in Nat
    <3>1. x \in Nombres /\ d.md[x] # Nada
      BY <2>2, <2>3 DEF Existentes
    <3>2. Desde(d, x) \in Nat /\ Hasta(d, x) \in Nat
      BY <3>1, Medidas
    <3>3. BloquesDe(x) = Desde(d, x) .. (Hasta(d, x) - 1)
      <4>1. PICK i \in Nat, v \in Nat : i = metadata[x].bloque /\ v = Ocupa(metadata[x].tam)
        <5>1. metadata[x].bloque \in Nat /\ metadata[x].tam \in Nat
          BY <2>2, <2>3, <3>1, Medidas DEF Desde
        <5>2. QED
          BY <5>1, OcupaTipo
      <4>2. BloquesDe(x) = i .. (i + (v - 1))
        BY <4>1 DEF BloquesDe
      <4>3. Desde(d, x) = i /\ Hasta(d, x) = i + v
        BY <2>2, <2>3, <4>1 DEF Desde, Hasta
      <4>4. i + (v - 1) = (i + v) - 1
        OBVIOUS
      <4>5. QED
        BY <4>2, <4>3, <4>4
    <3>4. QED
      BY <3>2, <3>3
  <2>5. BloquesDe(n) \subseteq bitmap
    <3>1. Marcado(d, n)
      BY <2>1, <2>2, <2>3 DEF Bueno, Ordenado
    <3>2. QED
      BY <2>2, <2>3, <2>4, <3>1 DEF Marcado
  <2>6. ASSUME NEW m \in Existentes \ {n}, NEW c \in BloquesDe(n), c \in BloquesDe(m) PROVE FALSE
    <3>1. m \in Existentes /\ m # n
      OBVIOUS
    <3>2. Aparte(d, m, Desde(d, n), Hasta(d, n))
      BY <2>1, <2>2, <2>3, <3>1 DEF Bueno, Ordenado
    <3>3. /\ c \in Nat /\ Desde(d, n) <= c /\ c < Hasta(d, n)
          /\ Desde(d, n) \in Nat /\ Hasta(d, n) \in Nat
      BY <2>1, <2>4, <2>6
    <3>4. /\ Desde(d, m) <= c /\ c < Hasta(d, m)
          /\ Desde(d, m) \in Nat /\ Hasta(d, m) \in Nat
      BY <2>4, <2>6, <3>1
    <3>5. QED
      BY <3>2, <3>3, <3>4 DEF Aparte
  <2>7. QED
    BY <2>5, <2>6
<1>2. QED
  BY <1>1, TiposInvariante, SaludInvariante, PTL

(* What was written to a block of a file is there, wherever compactions     *)
(* moved it, if every byte of the disk has a number of its own in 32 bits:  *)
(* on a greater disk the place of a WRITE wraps to the blocks of others.    *)
THEOREM LoEscritoQueda ==
  ASSUME Bits * BlockSize <= Ancho
  PROVE  Spec => []ContenidoPropio
<1>1. ASSUME Tipos, Salud PROVE ContenidoPropio
  <2>1. SUFFICES ASSUME sano, plan = SinPlan, NEW n \in Existentes, NEW k \in escrito[n]
                 PROVE  bloques[metadata[n].bloque + k] = <<n, k>>
    BY DEF ContenidoPropio
  <2>2. /\ Bueno(Disco) /\ Disco.md = metadata /\ Disco.bl = bloques /\ Disco.es = escrito
        /\ n \in Estan(Disco, Nombres)
    BY <1>1, <2>1, EntrePedidos
  <2>3. Guarda(Disco, n)
    BY <2>2 DEF Bueno, Ordenado
  <2>4. QED
    BY <2>1, <2>2, <2>3 DEF Guarda, Cabe, Desde
<1>2. QED
  BY <1>1, TiposInvariante, SaludInvariante, PTL
=============================================================================
