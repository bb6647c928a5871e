--------------------------- MODULE PruebasProtocolo ---------------------------
(***************************************************************************)
(* The messages of Protocolo, for strings and lists of any length and any  *)
(* number of messages in flight.                                           *)
(*                                                                         *)
(* What a handler still has to read and what is left of the buffer match   *)
(* (Encajan) when the first step is for the first part and, once that is   *)
(* read, the rest matches again.  Whatever is matched and of the announced *)
(* size (Bien) can be put together one after the other, as the functions   *)
(* of the code do.                                                         *)
(***************************************************************************)
EXTENDS Protocolo, PruebasListas

Positivos == Nat \ {0}

\* The names of the fields, and those of the two numbers before a buffer.
Nombres ==
  {"pc", "ax", "bx", "cx", "dx", "eax", "ebx", "ecx", "edx", "si", "di",
   "pid", "quantum", "program_counter", "tamano_registros", "path", "name",
   "num_params", "param", "nombre_recurso", "nombre_interfaz", "tipo",
   "process", "tiempo_sleep", "tamano_total", "size_list", "frame", "tamano",
   "desplazamiento", "nombre_archivo", "tamanio", "puntero_archivo",
   "operacion", "offset", "dato", "size_value", "handshake", "page_size",
   "page", "new_size", "resize_response", "largo", "size"}
Headers == UNION {DOMAIN Atiende[c] : c \in Conexiones}
Campos  == Nombres \cup Headers

Partes == [campo : Campos, ancho : Positivos, valor : Nat]

\* The steps: those of a list are plain, those of a case may hold a list.
PasosFijos   == [lee : {"fijo"}, campo : Campos, ancho : Positivos,
                 cuerpo : {<<>>}]
PasosCadena  == [lee : {"cadena"}, campo : Campos, ancho : Positivos,
                 cuerpo : Campos]
PasosSimples == PasosFijos \cup PasosCadena
PasosLista   == [lee : {"lista"}, campo : Campos, ancho : Positivos,
                 cuerpo : Seq(PasosSimples)]
PasosDeCaso  == PasosSimples \cup PasosLista
PasosSegun   == [lee : {"segun"}, campo : Campos, ancho : Positivos,
                 cuerpo : Seq(Seq(PasosDeCaso))]
Pasos        == PasosDeCaso \cup PasosSegun

-----------------------------------------------------------------------------
(***************************************************************************)
(* Bytes, one part after the other.                                        *)
(***************************************************************************)
Suma(q, f, n) ==
  f = [k \in 0 .. n |-> IF k = 0 THEN 0 ELSE f[k - 1] + q[k].ancho]

LEMMA SumaUno ==
  ASSUME NEW q, NEW f, NEW n \in Nat, Suma(q, f, n), NEW k \in 0 .. n
  PROVE  f[k] = IF k = 0 THEN 0 ELSE f[k - 1] + q[k].ancho
<1>1. f = [j \in 0 .. n |-> IF j = 0 THEN 0 ELSE f[j - 1] + q[j].ancho]
  BY DEF Suma
<1>2. [j \in 0 .. n |-> IF j = 0 THEN 0 ELSE f[j - 1] + q[j].ancho][k]
        = IF k = 0 THEN 0 ELSE f[k - 1] + q[k].ancho
  OBVIOUS
<1>3. QED
  BY <1>1, <1>2

LEMMA SumaDefine ==
  ASSUME NEW q, NEW n \in Nat, NEW g, g = [k \in 0 .. n |-> g[k]],
         \A k \in 0 .. n : g[k] = IF k = 0 THEN 0 ELSE g[k - 1] + q[k].ancho
  PROVE  Suma(q, g, n)
  BY DEF Suma

LEMMA SumaSola ==
  ASSUME NEW q, NEW f, NEW g, NEW n \in Nat, Suma(q, f, n), Suma(q, g, n)
  PROVE  f[n] = g[n]
<1> DEFINE M == {m \in 0 .. n : f[m] # g[m]}
<1>1. SUFFICES ASSUME M # {} PROVE FALSE
  OBVIOUS
<1>2. PICK m \in M : \A k \in M : m <= k
  <2>1. M \subseteq Nat
    OBVIOUS
  <2>2. QED
    BY <1>1, <2>1, MenorNatural
<1>3. m \in 0 .. n /\ f[m] # g[m]
  OBVIOUS
<1>4. /\ f[m] = IF m = 0 THEN 0 ELSE f[m - 1] + q[m].ancho
      /\ g[m] = IF m = 0 THEN 0 ELSE g[m - 1] + q[m].ancho
  BY <1>3, SumaUno
<1>5. m # 0
  BY <1>3, <1>4
<1>6. m - 1 \in 0 .. n /\ ~(m <= m - 1)
  BY <1>3, <1>5
<1>7. f[m - 1] = g[m - 1]
  BY <1>2, <1>6
<1>8. QED
  BY <1>3, <1>4, <1>7

\* Bytes is what any function that adds up the parts gives at the end.
LEMMA BytesEs ==
  ASSUME NEW q, NEW n \in Nat, Len(q) = n, NEW f, Suma(q, f, n)
  PROVE  Bytes(q) = f[n]
<1>1. PICK g : g = (CHOOSE h : Suma(q, h, n))
  OBVIOUS
<1>2. Suma(q, g, n)
  BY <1>1
<1>3. Bytes(q) = (CHOOSE h : h = [k \in 0 .. Len(q) |-> IF k = 0 THEN 0 ELSE h[k - 1] + q[k].ancho])[Len(q)]
  BY Zenon DEF Bytes
<1>4. Bytes(q) = g[n]
  BY <1>1, <1>3 DEF Suma
<1>5. QED
  BY <1>2, <1>4, SumaSola

LEMMA BytesDeVacia == Bytes(<<>>) = 0
<1>1. PICK f : f = [k \in 0 .. 0 |-> 0]
  OBVIOUS
<1>2. Suma(<<>>, f, 0) /\ f[0] = 0
  BY <1>1 DEF Suma
<1>3. Len(<<>>) = 0
  OBVIOUS
<1>4. QED
  BY <1>2, <1>3, BytesEs

LEMMA ParteAncho ==
  ASSUME NEW q \in Seq(Partes), NEW k \in 1 .. Len(q)
  PROVE  q[k] \in Partes /\ q[k].ancho \in Nat /\ q[k].ancho > 0
<1>1. q[k] \in Partes
  BY ElementOfSeq
<1>2. QED
  BY <1>1 DEF Partes, Positivos

\* There is one, and it gives numbers.
LEMMA HaySuma ==
  ASSUME NEW q \in Seq(Partes), NEW n \in Nat, n <= Len(q)
  PROVE  \E f : Suma(q, f, n) /\ f[n] \in Nat
<1> DEFINE Hay(m) == \E f : Suma(q, f, m) /\ f[m] \in Nat
           M == {m \in 0 .. Len(q) : ~ Hay(m)}
<1>0. PICK l \in Nat : l = Len(q)
  BY LenProperties
<1>1. SUFFICES ASSUME M # {} PROVE FALSE
  BY <1>0
<1>2. PICK m \in M : \A k \in M : m <= k
  <2>1. M \subseteq Nat
    BY <1>0
  <2>2. QED
    BY <1>1, <2>1, MenorNatural
<1>3. m \in Nat /\ m <= l /\ ~ Hay(m)
  BY <1>0, <1>2
<1>4. m # 0
  <2>1. PICK f : f = [k \in 0 .. 0 |-> 0]
    OBVIOUS
  <2>2. Suma(q, f, 0) /\ f[0] \in Nat
    BY <2>1 DEF Suma
  <2>3. QED
    BY <1>3, <2>2
<1>5. PICK p \in Nat : p = m - 1 /\ m = p + 1 /\ p <= l /\ ~ (m <= p) /\ m \in 1 .. l
  BY <1>0, <1>3, <1>4
<1>6. Hay(p)
  BY <1>0, <1>2, <1>5
<1>7. PICK f : Suma(q, f, p) /\ f[p] \in Nat
  BY <1>6
<1>8. PICK a \in Nat : a = q[m].ancho
  BY <1>0, <1>5, ParteAncho
<1>9. PICK g : g = [k \in 0 .. m |-> IF k = m THEN f[p] + a ELSE f[k]]
  OBVIOUS
<1>10. g = [k \in 0 .. m |-> g[k]]
  BY <1>9
<1>11. ASSUME NEW k \in 0 .. m
       PROVE  g[k] = IF k = 0 THEN 0 ELSE g[k - 1] + q[k].ancho
  <2>1. CASE k = m
    BY <1>4, <1>5, <1>8, <1>9, <2>1
  <2>2. CASE k # m
    <3>1. k \in 0 .. p /\ (k # 0 => k - 1 \in 0 .. m /\ k - 1 # m)
      BY <1>5, <2>2
    <3>2. f[k] = IF k = 0 THEN 0 ELSE f[k - 1] + q[k].ancho
      BY <1>7, <3>1, SumaUno
    <3>3. g[k] = f[k] /\ (k # 0 => g[k - 1] = f[k - 1])
      BY <1>9, <2>2, <3>1
    <3>4. QED
      BY <3>2, <3>3
  <2>3. QED
    BY <2>1, <2>2
<1>12. Suma(q, g, m)
  BY <1>3, <1>10, <1>11, SumaDefine
<1>13. g[m] \in Nat
  BY <1>3, <1>7, <1>8, <1>9
<1>14. QED
  BY <1>3, <1>12, <1>13

LEMMA BytesDeAppend ==
  ASSUME NEW q \in Seq(Partes), NEW p \in Partes
  PROVE  Bytes(q) \in Nat /\ Bytes(Append(q, p)) = Bytes(q) + p.ancho
<1>1. PICK n \in Nat : n = Len(q)
  BY LenProperties
<1>2. PICK r \in Seq(Partes) : r = Append(q, p)
  BY AppendProperties
<1>3. PICK m \in Nat : m = n + 1 /\ m # 0 /\ m - 1 = n /\ n <= m /\ m \in 0 .. m /\ n \in 0 .. n
  OBVIOUS
<1>4. Len(r) = m /\ r[m] = p /\ \A i \in 1 .. n : r[i] = q[i]
  BY <1>1, <1>2, <1>3, AppendProperties
<1>5. PICK f : Suma(r, f, m)
  BY <1>3, <1>4, HaySuma
<1>6. PICK g : Suma(q, g, n) /\ g[n] \in Nat
  BY <1>1, HaySuma
<1>7. PICK h : h = [k \in 0 .. n |-> f[k]]
  OBVIOUS
<1>8. Suma(q, h, n)
  <2>1. h = [k \in 0 .. n |-> h[k]]
    BY <1>7
  <2>2. ASSUME NEW k \in 0 .. n
        PROVE  h[k] = IF k = 0 THEN 0 ELSE h[k - 1] + q[k].ancho
    <3>1. k \in 0 .. m /\ (k # 0 => k - 1 \in 0 .. n /\ k \in 1 .. n)
      BY <1>3
    <3>2. f[k] = IF k = 0 THEN 0 ELSE f[k - 1] + r[k].ancho
      BY <1>3, <1>5, <3>1, SumaUno
    <3>3. QED
      BY <1>4, <1>7, <3>1, <3>2
  <2>3. QED
    BY <2>1, <2>2, SumaDefine
<1>9. f[m] = f[n] + p.ancho
  BY <1>3, <1>4, <1>5, SumaUno, SMTT(30)
<1>10. h[n] = f[n]
  BY <1>3, <1>7
<1>11. Bytes(r) = f[m] /\ Bytes(q) = h[n] /\ Bytes(q) = g[n]
  BY <1>1, <1>3, <1>4, <1>5, <1>6, <1>8, BytesEs
<1>12. QED
  BY <1>2, <1>6, <1>9, <1>10, <1>11

LEMMA BytesNat ==
  ASSUME NEW q \in Seq(Partes)
  PROVE  Bytes(q) \in Nat
<1>1. CASE q = <<>>
  BY <1>1, BytesDeVacia
<1>2. CASE q # <<>>
  <2>1. PICK s \in Seq(Partes), p \in Partes : q = Append(s, p)
    BY <1>2, SequenceEmptyOrAppend
  <2>2. Bytes(s) \in Nat /\ Bytes(q) = Bytes(s) + p.ancho /\ p.ancho \in Nat
    BY <2>1, BytesDeAppend DEF Partes, Positivos
  <2>3. QED
    BY <2>2
<1>3. QED
  BY <1>1, <1>2

LEMMA JuntarYAgregar ==
  ASSUME NEW S, NEW q \in Seq(S), NEW r \in Seq(S), NEW e \in S
  PROVE  q \o Append(r, e) = Append(q \o r, e)
<1>1. <<e>> \in Seq(S) /\ q \o r \in Seq(S)
  BY ConcatProperties
<1>2. Append(r, e) = r \o <<e>> /\ Append(q \o r, e) = (q \o r) \o <<e>>
  BY <1>1, AppendIsConcat
<1>3. (q \o r) \o <<e>> = q \o (r \o <<e>>)
  BY <1>1, ConcatAssociative
<1>4. QED
  BY <1>2, <1>3

LEMMA BytesDeJuntas ==
  ASSUME NEW q \in Seq(Partes), NEW r \in Seq(Partes)
  PROVE  Bytes(q \o r) = Bytes(q) + Bytes(r)
<1> DEFINE Mal(n) == \E s \in Seq(Partes) : Len(s) = n /\ Bytes(q \o s) # Bytes(q) + Bytes(s)
           M == {n \in Nat : Mal(n)}
<1>1. SUFFICES M = {}
  <2>1. Len(r) \in Nat
    BY LenProperties
  <2>2. QED
    BY <2>1
<1>2. SUFFICES ASSUME M # {} PROVE FALSE
  OBVIOUS
<1>3. PICK n \in M : \A k \in M : n <= k
  <2>1. M \subseteq Nat
    OBVIOUS
  <2>2. QED
    BY <1>2, <2>1, MenorNatural
<1>4. n \in Nat /\ Mal(n)
  OBVIOUS
<1>5. PICK s \in Seq(Partes) : Len(s) = n /\ Bytes(q \o s) # Bytes(q) + Bytes(s)
  BY <1>4
<1>6. s # <<>>
  <2>1. q \o <<>> = q /\ Bytes(q) \in Nat /\ Bytes(<<>>) = 0
    BY ConcatEmptySeq, BytesNat, BytesDeVacia
  <2>2. PICK b \in Nat : b = Bytes(q) /\ b + 0 = b
    BY <2>1
  <2>3. SUFFICES ASSUME s = <<>> PROVE FALSE
    OBVIOUS
  <2>4. Bytes(q \o s) = b /\ Bytes(s) = 0
    BY <2>1, <2>2, <2>3
  <2>5. QED
    BY <1>5, <2>2, <2>4
<1>7. PICK t \in Seq(Partes), e \in Partes : s = Append(t, e)
  BY <1>6, SequenceEmptyOrAppend
<1>8. PICK k \in Nat : k = Len(t) /\ n = k + 1 /\ ~ (n <= k)
  BY <1>4, <1>5, <1>7, AppendProperties, LenProperties
<1>9. Bytes(q \o t) = Bytes(q) + Bytes(t)
  BY <1>3, <1>8
<1>10. Bytes(s) = Bytes(t) + e.ancho /\ Bytes(t) \in Nat
  BY <1>7, BytesDeAppend
<1>11. q \o t \in Seq(Partes)
  BY ConcatProperties
<1>12. Bytes(q \o s) = Bytes(q \o t) + e.ancho
  <2>1. q \o s = Append(q \o t, e)
    BY <1>7, JuntarYAgregar
  <2>2. QED
    BY <1>11, <2>1, BytesDeAppend
<1>13. e.ancho \in Nat /\ Bytes(q) \in Nat
  BY BytesNat DEF Partes, Positivos
<1>14. QED
  BY <1>5, <1>9, <1>10, <1>12, <1>13

LEMMA BytesDeUna ==
  ASSUME NEW p \in Partes
  PROVE  <<p>> \in Seq(Partes) /\ Bytes(<<p>>) = p.ancho
<1>1. <<>> \in Seq(Partes) /\ Append(<<>>, p) = <<p>> /\ <<p>> \in Seq(Partes)
  OBVIOUS
<1>2. Bytes(<<p>>) = Bytes(<<>>) + p.ancho
  BY <1>1, BytesDeAppend
<1>3. p.ancho \in Nat
  BY DEF Partes, Positivos
<1>4. QED
  BY <1>1, <1>2, <1>3, BytesDeVacia

\* Some parts have fewer bytes than all of them.
LEMMA BytesDelPrincipio ==
  ASSUME NEW q \in Seq(Partes), NEW k \in Nat, k < Len(q)
  PROVE  /\ SubSeq(q, 1, k) \in Seq(Partes)
         /\ Bytes(SubSeq(q, 1, k + 1)) = Bytes(SubSeq(q, 1, k)) + q[k + 1].ancho
         /\ Bytes(SubSeq(q, 1, k + 1)) <= Bytes(q)
         /\ Bytes(SubSeq(q, 1, k)) < Bytes(q)
         /\ Bytes(SubSeq(q, 1, k)) \in Nat
<1>0. PICK n \in Nat : n = Len(q)
  BY LenProperties
<1>1. PICK m \in Nat : m = k + 1 /\ m \in 1 .. n /\ m - 1 = k /\ 1 \in 1 .. n /\ m \in 1 .. m
  BY <1>0
<1>2. \A i \in 1 .. n : q[i] \in Partes
  BY <1>0, ElementOfSeq
<1>3. SubSeq(q, 1, k) \in Seq(Partes) /\ SubSeq(q, 1, m) \in Seq(Partes) /\ SubSeq(q, m + 1, n) \in Seq(Partes)
  BY <1>0, <1>1, <1>2, SubSeqProperties
<1>4. q[m] \in Partes /\ q[m].ancho \in Nat /\ q[m].ancho > 0
  BY <1>0, <1>1, ParteAncho
<1>5. SubSeq(q, 1, m) = SubSeq(q, 1, k) \o <<q[m]>>
  BY <1>0, <1>1, SubSeqRecursiveSecond
<1>6. Bytes(SubSeq(q, 1, m)) = Bytes(SubSeq(q, 1, k)) + q[m].ancho
  BY <1>3, <1>4, <1>5, BytesDeUna, BytesDeJuntas
<1>7. SubSeq(q, 1, m) \o SubSeq(q, m + 1, n) = q
  <2>1. 1 \in 1 .. Len(q) + 1 /\ m \in 1 - 1 .. Len(q) /\ n \in m .. Len(q)
    BY <1>0, <1>1
  <2>2. SubSeq(q, 1, m) \o SubSeq(q, m + 1, n) = SubSeq(q, 1, n)
    BY <2>1, ConcatAdjacentSubSeq
  <2>3. QED
    BY <1>0, <2>2, SubSeqFull
<1>8. Bytes(q) = Bytes(SubSeq(q, 1, m)) + Bytes(SubSeq(q, m + 1, n))
  BY <1>3, <1>7, BytesDeJuntas
<1>9. Bytes(SubSeq(q, 1, m)) \in Nat /\ Bytes(SubSeq(q, m + 1, n)) \in Nat /\ Bytes(SubSeq(q, 1, k)) \in Nat
  BY <1>3, BytesNat
<1>10. QED
  BY <1>1, <1>3, <1>4, <1>6, <1>8, <1>9

-----------------------------------------------------------------------------
(***************************************************************************)
(* Copies of a list of parts, or of steps.                                 *)
(***************************************************************************)
Copias(q, n) == FlattenSeq([i \in 1 .. n |-> q])

LEMMA CopiasCero == \A q : Copias(q, 0) = <<>>
<1>1. TAKE q
<1>2. [i \in 1 .. 0 |-> q] = <<>>
  OBVIOUS
<1>3. QED
  BY <1>2, AplanarVacia DEF Copias

LEMMA CopiasMas ==
  ASSUME NEW S, NEW q \in Seq(S), NEW n \in Nat, Copias(q, n) \in Seq(S)
  PROVE  /\ Copias(q, n + 1) = Copias(q, n) \o q
         /\ Copias(q, n + 1) \in Seq(S)
<1>1. PICK c : c = [i \in 1 .. n |-> q]
  OBVIOUS
<1>2. c \in Seq(Seq(S))
  BY <1>1
<1>3. Append(c, q) = [i \in 1 .. (n + 1) |-> q]
  BY <1>1
<1>4. FlattenSeq(c) \in Seq(S)
  BY <1>1 DEF Copias
<1>5. FlattenSeq(Append(c, q)) = FlattenSeq(c) \o q
  BY <1>2, <1>4, AplanarMas
<1>6. Copias(q, n + 1) = Copias(q, n) \o q
  BY <1>1, <1>3, <1>5 DEF Copias
<1>7. QED
  BY <1>6, ConcatProperties

LEMMA BytesDeCopias ==
  ASSUME NEW q \in Seq(Partes), NEW n \in Nat
  PROVE  Copias(q, n) \in Seq(Partes) /\ Bytes(Copias(q, n)) = n * Bytes(q)
<1> DEFINE Bueno(k) == Copias(q, k) \in Seq(Partes) /\ Bytes(Copias(q, k)) = k * Bytes(q)
           M == {k \in Nat : ~ Bueno(k)}
<1>1. SUFFICES ASSUME M # {} PROVE FALSE
  OBVIOUS
<1>2. PICK m \in M : \A k \in M : m <= k
  <2>1. M \subseteq Nat
    OBVIOUS
  <2>2. QED
    BY <1>1, <2>1, MenorNatural
<1>3. m \in Nat /\ ~ Bueno(m)
  OBVIOUS
<1>4. PICK b \in Nat : b = Bytes(q)
  BY BytesNat
<1>5. m # 0
  <2>1. Copias(q, 0) = <<>> /\ <<>> \in Seq(Partes) /\ Bytes(<<>>) = 0
    BY CopiasCero, BytesDeVacia
  <2>2. 0 * b = 0
    BY <1>4
  <2>3. Bueno(0)
    BY <1>4, <2>1, <2>2
  <2>4. QED
    BY <1>3, <2>3
<1>6. PICK p \in Nat : m = p + 1 /\ ~ (m <= p)
  BY <1>3, <1>5
<1>7. Bueno(p)
  BY <1>2, <1>6
<1>8. Copias(q, m) = Copias(q, p) \o q /\ Copias(q, m) \in Seq(Partes)
  BY <1>6, <1>7, CopiasMas
<1>9. Bytes(Copias(q, m)) = p * b + b
  BY <1>4, <1>7, <1>8, BytesDeJuntas
<1>10. p * b + b = (p + 1) * b
  BY <1>4, <1>6
<1>11. QED
  BY <1>3, <1>4, <1>6, <1>8, <1>9, <1>10

-----------------------------------------------------------------------------
(***************************************************************************)
(* Steps and parts that match.                                             *)
(***************************************************************************)
Casa(pila, datos) ==
  /\ pila = <<>> => datos = <<>>
  /\ pila # <<>> =>
       /\ datos # <<>>
       /\ Head(pila).campo = Head(datos).campo
       /\ Head(pila).ancho = Head(datos).ancho
       /\ Siguientes(Head(pila), Head(datos).valor) \in Seq(Pasos)

Resto(pila, datos) == Siguientes(Head(pila), Head(datos).valor) \o Tail(pila)

Acuerdo(R) ==
  /\ R \subseteq Seq(Pasos) \X Seq(Partes)
  /\ \A pila, datos : <<pila, datos>> \in R =>
       /\ Casa(pila, datos)
       /\ pila # <<>> => <<Resto(pila, datos), Tail(datos)>> \in R

Encajan(pila, datos) == \E R : Acuerdo(R) /\ <<pila, datos>> \in R

LEMMA ListaDeUno ==
  ASSUME NEW S, NEW x \in S
  PROVE  <<x>> \in Seq(S) /\ <<x>> # <<>> /\ Head(<<x>>) = x /\ Tail(<<x>>) = <<>> /\ Len(<<x>>) = 1
  OBVIOUS

LEMMA EncajanTipo ==
  ASSUME NEW pila, NEW datos, Encajan(pila, datos)
  PROVE  pila \in Seq(Pasos) /\ datos \in Seq(Partes)
  BY DEF Encajan, Acuerdo

LEMMA EncajanSigue ==
  ASSUME NEW pila, NEW datos, Encajan(pila, datos)
  PROVE  /\ Casa(pila, datos)
         /\ pila # <<>> => Encajan(Resto(pila, datos), Tail(datos))
<1>1. PICK R : Acuerdo(R) /\ <<pila, datos>> \in R
  BY DEF Encajan
<1>2. Casa(pila, datos) /\ (pila # <<>> => <<Resto(pila, datos), Tail(datos)>> \in R)
  BY <1>1 DEF Acuerdo
<1>3. QED
  BY <1>1, <1>2 DEF Encajan

LEMMA EncajanVacias == Encajan(<<>>, <<>>)
<1>1. PICK R : R = {<< <<>>, <<>> >>}
  OBVIOUS
<1>2. <<>> \in Seq(Pasos) /\ <<>> \in Seq(Partes)
  OBVIOUS
<1>3. \A x, y : <<x, y>> \in R <=> x = <<>> /\ y = <<>>
  BY <1>1
<1>4. R \subseteq Seq(Pasos) \X Seq(Partes)
  <2>1. << <<>>, <<>> >> \in Seq(Pasos) \X Seq(Partes)
    BY <1>2
  <2>2. QED
    BY <1>1, <2>1
<1>5. Acuerdo(R)
  BY <1>3, <1>4 DEF Acuerdo, Casa
<1>6. QED
  BY <1>3, <1>5 DEF Encajan

LEMMA TrasElPrimero ==
  ASSUME NEW S, NEW x \in Seq(S), NEW y \in Seq(S), x # <<>>
  PROVE  /\ x \o y # <<>>
         /\ Head(x \o y) = Head(x)
         /\ Tail(x \o y) = Tail(x) \o y
<1>1. PICK n \in Nat : n = Len(x) /\ n > 0
  BY EmptySeq
<1>2. PICK k \in Nat : k = Len(y)
  BY LenProperties
<1>3. /\ x \o y \in Seq(S) /\ Len(x \o y) = n + k
      /\ \A i \in 1 .. n + k : (x \o y)[i] = IF i <= n THEN x[i] ELSE y[i - n]
  BY <1>1, <1>2, ConcatProperties
<1>4. x \o y # <<>>
  BY <1>1, <1>2, <1>3, EmptySeq
<1>5. Tail(x) \in Seq(S) /\ Len(Tail(x)) = n - 1 /\ \A i \in 1 .. n - 1 : Tail(x)[i] = x[i + 1]
  BY <1>1, HeadTailProperties
<1>6. /\ Tail(x \o y) \in Seq(S) /\ Len(Tail(x \o y)) = n + k - 1
      /\ \A i \in 1 .. n + k - 1 : Tail(x \o y)[i] = (x \o y)[i + 1]
  BY <1>3, <1>4, HeadTailProperties
<1>7. PICK m \in Nat : m = n - 1 /\ n = m + 1 /\ n + k - 1 = m + k
  BY <1>1, <1>2, SMTT(30)
<1>8. /\ Tail(x) \o y \in Seq(S) /\ Len(Tail(x) \o y) = m + k
      /\ \A i \in 1 .. m + k : (Tail(x) \o y)[i] = IF i <= m THEN Tail(x)[i] ELSE y[i - m]
  <2>1. PICK t \in Seq(S) : t = Tail(x) /\ Len(t) = m
    BY <1>5, <1>7
  <2>2. PICK z : z = t \o y
    OBVIOUS
  <2>3. /\ z \in Seq(S) /\ Len(z) = Len(t) + Len(y)
        /\ \A i \in 1 .. Len(t) + Len(y) : z[i] = IF i <= Len(t) THEN t[i] ELSE y[i - Len(t)]
    BY <2>2, ConcatProperties
  <2>4. z \in Seq(S) /\ Len(z) = m + k /\ \A i \in 1 .. m + k : z[i] = IF i <= m THEN t[i] ELSE y[i - m]
    BY <1>2, <2>1, <2>3
  <2>5. QED
    BY <2>1, <2>2, <2>4
<1>9. ASSUME NEW i \in 1 .. m + k
      PROVE  Tail(x \o y)[i] = (Tail(x) \o y)[i]
  <2>1. i + 1 \in 1 .. n + k /\ (i <= m <=> i + 1 <= n) /\ i + 1 - n = i - m /\ (i <= m => i \in 1 .. n - 1)
    BY <1>2, <1>7
  <2>2. Tail(x \o y)[i] = (x \o y)[i + 1]
    BY <1>6, <1>7
  <2>3. (x \o y)[i + 1] = IF i <= m THEN x[i + 1] ELSE y[i - m]
    <3>1. PICK j \in 1 .. n + k : j = i + 1 /\ (i <= m <=> j <= n) /\ j - n = i - m
      BY <2>1
    <3>2. (x \o y)[j] = IF j <= n THEN x[j] ELSE y[j - n]
      BY <1>3
    <3>3. QED
      BY <3>1, <3>2
  <2>4. (Tail(x) \o y)[i] = IF i <= m THEN x[i + 1] ELSE y[i - m]
    BY <1>5, <1>8, <2>1
  <2>5. QED
    BY <2>2, <2>3, <2>4
<1>10. Tail(x \o y) = Tail(x) \o y
  BY <1>6, <1>7, <1>8, <1>9, SeqEqual
<1>11. Head(x \o y) = Head(x)
  <2>1. 1 \in 1 .. n + k /\ 1 <= n
    BY <1>1, <1>2
  <2>2. (x \o y)[1] = x[1]
    BY <1>3, <2>1
  <2>3. QED
    BY <2>2 DEF Head
<1>12. QED
  BY <1>4, <1>10, <1>11

\* Par makes a pair of R known piece by piece.
Par(R, a, b) == <<a, b>> \in R

LEMMA DelAcuerdo ==
  ASSUME NEW R, Acuerdo(R), NEW a, NEW b, Par(R, a, b)
  PROVE  /\ a \in Seq(Pasos) /\ b \in Seq(Partes)
         /\ a = <<>> => b = <<>>
         /\ a # <<>> => /\ b # <<>>
                        /\ Head(a).campo = Head(b).campo
                        /\ Head(a).ancho = Head(b).ancho
                        /\ Siguientes(Head(a), Head(b).valor) \in Seq(Pasos)
                        /\ Par(R, Resto(a, b), Tail(b))
<1>1. <<a, b>> \in Seq(Pasos) \X Seq(Partes)
  BY DEF Acuerdo, Par
<1>2. Casa(a, b) /\ (a # <<>> => <<Resto(a, b), Tail(b)>> \in R)
  BY DEF Acuerdo, Par
<1>3. QED
  BY <1>1, <1>2 DEF Casa, Par

LEMMA DelAcuerdoFin ==
  ASSUME NEW R, Acuerdo(R), NEW b, Par(R, <<>>, b)
  PROVE  b = <<>>
<1>1. <<<<>>, b>> \in R
  BY DEF Par
<1>2. Casa(<<>>, b)
  BY <1>1 DEF Acuerdo
<1>3. QED
  BY <1>2 DEF Casa

LEMMA HaceAcuerdo ==
  ASSUME NEW R, \A z \in R : \E a \in Seq(Pasos), b \in Seq(Partes) : z = <<a, b>>,
         \A a, b : Par(R, a, b) =>
           /\ a = <<>> => b = <<>>
           /\ a # <<>> => /\ b # <<>>
                          /\ Head(a).campo = Head(b).campo
                          /\ Head(a).ancho = Head(b).ancho
                          /\ Siguientes(Head(a), Head(b).valor) \in Seq(Pasos)
                          /\ Par(R, Resto(a, b), Tail(b))
  PROVE  Acuerdo(R)
<1>1. R \subseteq Seq(Pasos) \X Seq(Partes)
  OBVIOUS
<1>2. ASSUME NEW a, NEW b, <<a, b>> \in R
      PROVE  Casa(a, b) /\ (a # <<>> => <<Resto(a, b), Tail(b)>> \in R)
  <2>1. Par(R, a, b)
    BY <1>2 DEF Par
  <2>2. /\ a = <<>> => b = <<>>
        /\ a # <<>> => /\ b # <<>>
                       /\ Head(a).campo = Head(b).campo
                       /\ Head(a).ancho = Head(b).ancho
                       /\ Siguientes(Head(a), Head(b).valor) \in Seq(Pasos)
                       /\ Par(R, Resto(a, b), Tail(b))
    BY <2>1
  <2>3. QED
    BY <2>2 DEF Casa, Par
<1>3. QED
  BY <1>1, <1>2 DEF Acuerdo

Seguido(R, p, d) == {<<z[1] \o p, z[2] \o d>> : z \in R}

\* What matches can be read one after the other.
LEMMA EncajanJuntas ==
  ASSUME NEW p1, NEW d1, NEW p2, NEW d2, Encajan(p1, d1), Encajan(p2, d2)
  PROVE  Encajan(p1 \o p2, d1 \o d2)
<1>1. PICK R1 : Acuerdo(R1) /\ Par(R1, p1, d1)
  BY DEF Encajan, Par
<1>2. PICK R2 : Acuerdo(R2) /\ Par(R2, p2, d2)
  BY DEF Encajan, Par
<1>3. p2 \in Seq(Pasos) /\ d2 \in Seq(Partes)
  BY <1>2, DelAcuerdo
<1>4. PICK R : R = Seguido(R1, p2, d2) \cup R2
  OBVIOUS
<1>5. ASSUME NEW a, NEW b, Par(R1, a, b) PROVE Par(R, a \o p2, b \o d2)
  <2>1. PICK z \in R1 : z = <<a, b>> /\ z[1] = a /\ z[2] = b
    BY <1>5 DEF Par
  <2>2. <<a \o p2, b \o d2>> \in Seguido(R1, p2, d2)
    BY <2>1 DEF Seguido
  <2>3. QED
    BY <1>4, <2>2 DEF Par
<1>6. ASSUME NEW a, NEW b, Par(R2, a, b) PROVE Par(R, a, b)
  BY <1>4, <1>6 DEF Par
<1>7. ASSUME NEW z \in R1 PROVE \E a \in Seq(Pasos), b \in Seq(Partes) : z = <<a, b>>
  <2>1. z \in Seq(Pasos) \X Seq(Partes)
    BY <1>1 DEF Acuerdo
  <2>2. QED
    BY <2>1
<1>8. ASSUME NEW z \in R2 PROVE \E a \in Seq(Pasos), b \in Seq(Partes) : z = <<a, b>>
  <2>1. z \in Seq(Pasos) \X Seq(Partes)
    BY <1>2 DEF Acuerdo
  <2>2. QED
    BY <2>1
<1>9. ASSUME NEW z \in Seguido(R1, p2, d2)
      PROVE  \E a \in Seq(Pasos), b \in Seq(Partes) : Par(R1, a, b) /\ z = <<a \o p2, b \o d2>>
  <2>1. PICK y \in R1 : z = <<y[1] \o p2, y[2] \o d2>>
    BY DEF Seguido
  <2>2. PICK a \in Seq(Pasos), b \in Seq(Partes) : y = <<a, b>>
    BY <1>7
  <2>3. QED
    BY <2>1, <2>2 DEF Par
<1>10. ASSUME NEW z \in R PROVE \E a \in Seq(Pasos), b \in Seq(Partes) : z = <<a, b>>
  <2>1. CASE z \in R2
    BY <1>8, <2>1
  <2>2. CASE z \in Seguido(R1, p2, d2)
    <3>1. PICK a \in Seq(Pasos), b \in Seq(Partes) : z = <<a \o p2, b \o d2>>
      BY <1>9, <2>2
    <3>2. a \o p2 \in Seq(Pasos) /\ b \o d2 \in Seq(Partes)
      BY <1>3, ConcatProperties
    <3>3. QED
      BY <3>1, <3>2
  <2>3. QED
    BY <1>4, <2>1, <2>2
<1>11. ASSUME NEW a, NEW b, Par(R2, a, b)
       PROVE  /\ a = <<>> => b = <<>>
              /\ a # <<>> => /\ b # <<>>
                             /\ Head(a).campo = Head(b).campo
                             /\ Head(a).ancho = Head(b).ancho
                             /\ Siguientes(Head(a), Head(b).valor) \in Seq(Pasos)
                             /\ Par(R, Resto(a, b), Tail(b))
  BY <1>2, <1>6, <1>11, DelAcuerdo, SMTT(30)
<1>12. ASSUME NEW a, NEW b, Par(R, a, b)
       PROVE  /\ a = <<>> => b = <<>>
              /\ a # <<>> => /\ b # <<>>
                             /\ Head(a).campo = Head(b).campo
                             /\ Head(a).ancho = Head(b).ancho
                             /\ Siguientes(Head(a), Head(b).valor) \in Seq(Pasos)
                             /\ Par(R, Resto(a, b), Tail(b))
  <2>1. CASE Par(R2, a, b)
    BY <1>11, <2>1
  <2>2. CASE <<a, b>> \in Seguido(R1, p2, d2)
    <3>1. PICK x \in Seq(Pasos), y \in Seq(Partes) : Par(R1, x, y) /\ <<a, b>> = <<x \o p2, y \o d2>>
      BY <1>9, <2>2
    <3>2. a = x \o p2 /\ b = y \o d2
      BY <3>1
    <3>3. CASE x = <<>>
      <4>1. Par(R1, <<>>, y)
        BY <3>1, <3>3
      <4>2. y = <<>>
        BY <1>1, <4>1, DelAcuerdoFin
      <4>3. a = p2 /\ b = d2
        BY <1>3, <3>2, <3>3, <4>2, ConcatEmptySeq
      <4>4. QED
        BY <1>2, <1>11, <4>3
    <3>4. CASE x # <<>>
      <4>1. /\ y # <<>>
            /\ Head(x).campo = Head(y).campo
            /\ Head(x).ancho = Head(y).ancho
            /\ Siguientes(Head(x), Head(y).valor) \in Seq(Pasos)
            /\ Par(R1, Resto(x, y), Tail(y))
        BY <1>1, <3>1, <3>4, DelAcuerdo
      <4>2. a # <<>> /\ Head(a) = Head(x) /\ Tail(a) = Tail(x) \o p2
        BY <1>3, <3>1, <3>2, <3>4, TrasElPrimero
      <4>3. b # <<>> /\ Head(b) = Head(y) /\ Tail(b) = Tail(y) \o d2
        BY <1>3, <3>1, <3>2, <4>1, TrasElPrimero
      <4>4. Resto(a, b) = Resto(x, y) \o p2
        <5>1. PICK s \in Seq(Pasos) : s = Siguientes(Head(x), Head(y).valor)
          BY <4>1
        <5>2. PICK t \in Seq(Pasos) : t = Tail(x)
          BY <3>1, <3>4, HeadTailProperties
        <5>3. (s \o t) \o p2 = s \o (t \o p2)
          BY <1>3, ConcatAssociative, SMTT(30)
        <5>4. Resto(a, b) = s \o (t \o p2) /\ Resto(x, y) = s \o t
          BY <4>2, <4>3, <5>1, <5>2 DEF Resto
        <5>5. QED
          BY <5>3, <5>4
      <4>5. Par(R, Resto(a, b), Tail(b))
        BY <1>5, <4>1, <4>3, <4>4
      <4>6. QED
        BY <4>1, <4>2, <4>3, <4>5
    <3>5. QED
      BY <3>3, <3>4
  <2>3. Par(R2, a, b) \/ <<a, b>> \in Seguido(R1, p2, d2)
    BY <1>4, <1>12 DEF Par
  <2>4. QED
    BY <2>1, <2>2, <2>3
<1>13. Acuerdo(R)
  BY <1>10, <1>12, HaceAcuerdo
<1>14. Par(R, p1 \o p2, d1 \o d2)
  BY <1>1, <1>5
<1>15. QED
  BY <1>13, <1>14 DEF Encajan, Par

\* A first step and what it leaves to read.
LEMMA EncajanDesde ==
  ASSUME NEW s \in Pasos, NEW p \in Partes, NEW d,
         s.campo = p.campo, s.ancho = p.ancho, Encajan(Siguientes(s, p.valor), d)
  PROVE  Encajan(<<s>>, <<p>> \o d)
<1>1. PICK R1 : Acuerdo(R1) /\ Par(R1, Siguientes(s, p.valor), d)
  BY DEF Encajan, Par
<1>2. Siguientes(s, p.valor) \in Seq(Pasos) /\ d \in Seq(Partes)
  BY <1>1, DelAcuerdo
<1>3. PICK x \in Seq(Pasos) : x = <<s>> /\ x # <<>> /\ Head(x) = s /\ Tail(x) = <<>>
  BY ListaDeUno
<1>4. PICK u \in Seq(Partes) : u = <<p>> /\ u # <<>> /\ Head(u) = p /\ Tail(u) = <<>>
  BY ListaDeUno
<1>5. PICK y \in Seq(Partes) : y = u \o d /\ y # <<>> /\ Head(y) = p /\ Tail(y) = d
  <2>1. u \o d \in Seq(Partes)
    BY <1>2, ConcatProperties
  <2>2. u \o d # <<>> /\ Head(u \o d) = p /\ Tail(u \o d) = <<>> \o d
    BY <1>2, <1>4, TrasElPrimero
  <2>3. <<>> \o d = d
    BY <1>2, ConcatEmptySeq
  <2>4. QED
    BY <2>1, <2>2, <2>3
<1>6. Resto(x, y) = Siguientes(s, p.valor)
  <2>1. Siguientes(s, p.valor) \o <<>> = Siguientes(s, p.valor)
    BY <1>2, ConcatEmptySeq
  <2>2. QED
    BY <1>3, <1>5, <2>1 DEF Resto
<1>7. PICK R : R = {<<x, y>>} \cup R1
  OBVIOUS
<1>8. ASSUME NEW a, NEW b, Par(R1, a, b) PROVE Par(R, a, b)
  BY <1>7, <1>8 DEF Par
<1>9. ASSUME NEW z \in R PROVE \E a \in Seq(Pasos), b \in Seq(Partes) : z = <<a, b>>
  <2>1. CASE z = <<x, y>>
    BY <2>1
  <2>2. CASE z \in R1
    <3>1. z \in Seq(Pasos) \X Seq(Partes)
      BY <1>1, <2>2 DEF Acuerdo
    <3>2. QED
      BY <3>1
  <2>3. QED
    BY <1>7, <2>1, <2>2
<1>10. ASSUME NEW a, NEW b, Par(R, a, b)
       PROVE  /\ a = <<>> => b = <<>>
              /\ a # <<>> => /\ b # <<>>
                             /\ Head(a).campo = Head(b).campo
                             /\ Head(a).ancho = Head(b).ancho
                             /\ Siguientes(Head(a), Head(b).valor) \in Seq(Pasos)
                             /\ Par(R, Resto(a, b), Tail(b))
  <2>1. CASE Par(R1, a, b)
    BY <1>1, <1>8, <2>1, DelAcuerdo
  <2>2. CASE a = x /\ b = y
    <3>1. Par(R, Resto(a, b), Tail(b))
      BY <1>1, <1>5, <1>6, <1>8, <2>2
    <3>2. QED
      BY <1>2, <1>3, <1>5, <2>2, <3>1
  <2>3. Par(R1, a, b) \/ (a = x /\ b = y)
    BY <1>7, <1>10 DEF Par
  <2>4. QED
    BY <2>1, <2>2, <2>3
<1>11. Acuerdo(R)
  BY <1>9, <1>10, HaceAcuerdo
<1>12. <<x, y>> \in R
  BY <1>7
<1>13. QED
  BY <1>3, <1>4, <1>5, <1>11, <1>12 DEF Encajan

-----------------------------------------------------------------------------
(***************************************************************************)
(* Match and size, for the pieces the messages are made of.                *)
(***************************************************************************)
Bien(pila, datos, n) == n \in Nat /\ Encajan(pila, datos) /\ Bytes(datos) = n

LEMMA BienTipo ==
  ASSUME NEW p, NEW d, NEW n, Bien(p, d, n)
  PROVE  p \in Seq(Pasos) /\ d \in Seq(Partes) /\ n \in Nat /\ Bytes(d) = n
  BY EncajanTipo DEF Bien

LEMMA BienJunto ==
  ASSUME NEW p, NEW d, NEW n, Bien(p, d, n), NEW q, NEW e, NEW m, Bien(q, e, m)
  PROVE  Bien(p \o q, d \o e, n + m)
<1>1. Encajan(p \o q, d \o e)
  BY EncajanJuntas DEF Bien
<1>2. d \in Seq(Partes) /\ e \in Seq(Partes) /\ n \in Nat /\ m \in Nat /\ Bytes(d) = n /\ Bytes(e) = m
  BY BienTipo
<1>3. QED
  BY <1>1, <1>2, BytesDeJuntas DEF Bien

LEMMA UnFijo ==
  ASSUME NEW c \in Campos, NEW w \in Positivos, NEW v \in Nat
  PROVE  /\ Paso("fijo", c, w, <<>>) \in PasosFijos
         /\ Parte(c, w, v) \in Partes
         /\ Parte(c, w, v).campo = c /\ Parte(c, w, v).ancho = w /\ Parte(c, w, v).valor = v
         /\ Paso("fijo", c, w, <<>>).campo = c /\ Paso("fijo", c, w, <<>>).ancho = w
         /\ Siguientes(Paso("fijo", c, w, <<>>), v) = <<>>
<1>1. PICK s : s = Paso("fijo", c, w, <<>>)
  OBVIOUS
<1>2. s.lee = "fijo" /\ s.campo = c /\ s.ancho = w /\ s \in PasosFijos
  BY <1>1 DEF Paso, PasosFijos
<1>3. Siguientes(s, v) = <<>>
  BY <1>2 DEF Siguientes
<1>4. Parte(c, w, v) \in Partes /\ Parte(c, w, v).campo = c /\ Parte(c, w, v).ancho = w /\ Parte(c, w, v).valor = v
  BY DEF Parte, Partes
<1>5. QED
  BY <1>1, <1>2, <1>3, <1>4

LEMMA PasosSon == PasosFijos \subseteq PasosSimples /\ PasosSimples \subseteq PasosDeCaso /\ PasosDeCaso \subseteq Pasos
  BY DEF PasosSimples, PasosDeCaso, Pasos

LEMMA BienFijo ==
  ASSUME NEW c \in Campos, NEW w \in Positivos, NEW v \in Nat
  PROVE  Bien(<<Paso("fijo", c, w, <<>>)>>, <<Parte(c, w, v)>>, w)
<1>1. PICK s \in Pasos : s = Paso("fijo", c, w, <<>>) /\ s.campo = c /\ s.ancho = w /\ Siguientes(s, v) = <<>>
  BY UnFijo, PasosSon
<1>2. PICK p \in Partes : p = Parte(c, w, v) /\ p.campo = c /\ p.ancho = w /\ p.valor = v
  BY UnFijo
<1>3. Encajan(<<s>>, <<p>> \o <<>>)
  BY <1>1, <1>2, EncajanVacias, EncajanDesde
<1>4. <<p>> \in Seq(Partes) /\ Bytes(<<p>>) = w
  BY <1>2, BytesDeUna
<1>5. <<p>> \o <<>> = <<p>>
  BY <1>4, ConcatEmptySeq
<1>6. QED
  BY <1>1, <1>2, <1>3, <1>4, <1>5 DEF Bien, Positivos

LEMMA LargoCampo == "largo" \in Campos
  BY DEF Campos, Nombres

LEMMA BienCadena ==
  ASSUME NEW c \in Campos, NEW l \in Positivos
  PROVE  Bien(LeeCadena(c), Cadena(c, l), 4 + l)
<1>1. PICK s \in Pasos : s = Paso("cadena", "largo", 4, c) /\ s.campo = "largo" /\ s.ancho = 4 /\ Siguientes(s, l) = LeeBytes(c, l)
  <2>1. PICK s : s = Paso("cadena", "largo", 4, c)
    OBVIOUS
  <2>2. s.lee = "cadena" /\ s.campo = "largo" /\ s.ancho = 4 /\ s.cuerpo = c /\ s \in PasosCadena
    BY <2>1, LargoCampo DEF Paso, PasosCadena, Positivos
  <2>3. s \in Pasos
    BY <2>2 DEF PasosSimples, PasosDeCaso, Pasos
  <2>4. Siguientes(s, l) = LeeBytes(c, l)
    BY <2>2 DEF Siguientes
  <2>5. QED
    BY <2>1, <2>2, <2>3, <2>4
<1>2. PICK p \in Partes : p = Parte("largo", 4, l) /\ p.campo = "largo" /\ p.ancho = 4 /\ p.valor = l
  <2>1. l \in Nat /\ 4 \in Positivos /\ "largo" \in Campos
    BY LargoCampo DEF Positivos
  <2>2. QED
    BY <2>1, UnFijo
<1>3. PICK d : d = <<Parte(c, l, 0)>>
  OBVIOUS
<1>4. Bien(LeeBytes(c, l), d, l)
  BY <1>3, BienFijo DEF LeeBytes
<1>5. Encajan(<<s>>, <<p>> \o d)
  BY <1>1, <1>2, <1>4, EncajanDesde DEF Bien
<1>6. LeeCadena(c) = <<s>> /\ Cadena(c, l) = <<p>> \o d
  BY <1>1, <1>2, <1>3 DEF LeeCadena, Cadena, Numero
<1>7. Bytes(<<p>> \o d) = 4 + l
  <2>1. d \in Seq(Partes) /\ Bytes(d) = l
    BY <1>4, BienTipo
  <2>2. <<p>> \in Seq(Partes) /\ Bytes(<<p>>) = 4
    BY <1>2, BytesDeUna
  <2>3. QED
    BY <2>1, <2>2, BytesDeJuntas
<1>8. 4 + l \in Nat
  BY DEF Positivos
<1>9. QED
  BY <1>5, <1>6, <1>7, <1>8 DEF Bien

LEMMA Bien32 ==
  ASSUME NEW c \in Campos
  PROVE  Bien(Lee32(c), U32(c), 4)
<1>1. 4 \in Positivos /\ 0 \in Nat
  BY DEF Positivos
<1>2. QED
  BY <1>1, BienFijo DEF Lee32, U32

LEMMA Bien32Numero ==
  ASSUME NEW c \in Campos, NEW v \in Nat
  PROVE  Bien(Lee32(c), Numero(c, v), 4)
<1>1. 4 \in Positivos
  BY DEF Positivos
<1>2. QED
  BY <1>1, BienFijo DEF Lee32, Numero

LEMMA Bien8 ==
  ASSUME NEW c \in Campos
  PROVE  Bien(Lee8(c), U8(c), 1)
<1>1. 1 \in Positivos /\ 0 \in Nat
  BY DEF Positivos
<1>2. QED
  BY <1>1, BienFijo DEF Lee8, U8

LEMMA BienCopias ==
  ASSUME NEW p, NEW d, NEW w, Bien(p, d, w), NEW n \in Nat
  PROVE  Bien(Copias(p, n), Copias(d, n), n * w)
<1> DEFINE Bueno(k) == Bien(Copias(p, k), Copias(d, k), k * w)
           M == {k \in Nat : ~ Bueno(k)}
<1>1. SUFFICES ASSUME M # {} PROVE FALSE
  OBVIOUS
<1>2. PICK m \in M : \A k \in M : m <= k
  <2>1. M \subseteq Nat
    OBVIOUS
  <2>2. QED
    BY <1>1, <2>1, MenorNatural
<1>3. m \in Nat /\ ~ Bueno(m)
  OBVIOUS
<1>4. p \in Seq(Pasos) /\ d \in Seq(Partes) /\ w \in Nat
  BY BienTipo
<1>5. m # 0
  <2>1. Copias(p, 0) = <<>> /\ Copias(d, 0) = <<>> /\ Bytes(<<>>) = 0
    BY CopiasCero, BytesDeVacia
  <2>2. 0 * w = 0
    BY <1>4
  <2>3. Bueno(0)
    BY <2>1, <2>2, EncajanVacias DEF Bien
  <2>4. QED
    BY <1>3, <2>3
<1>6. PICK k \in Nat : m = k + 1 /\ ~ (m <= k)
  BY <1>3, <1>5
<1>7. Bueno(k)
  BY <1>2, <1>6
<1>8. Copias(p, k) \in Seq(Pasos) /\ Copias(d, k) \in Seq(Partes)
  BY <1>7, BienTipo
<1>9. Copias(p, m) = Copias(p, k) \o p /\ Copias(d, m) = Copias(d, k) \o d
  BY <1>4, <1>6, <1>8, CopiasMas
<1>10. Bien(Copias(p, m), Copias(d, m), k * w + w)
  BY <1>7, <1>9, BienJunto
<1>11. k * w + w = (k + 1) * w
  BY <1>4, <1>6
<1>12. QED
  BY <1>3, <1>6, <1>10, <1>11

LEMMA BienLista ==
  ASSUME NEW c \in Campos, NEW p \in Seq(PasosSimples), NEW d, NEW w, Bien(p, d, w), NEW n \in Nat
  PROVE  /\ LeeLista(c, p) \in Seq(PasosDeCaso)
         /\ Bien(LeeLista(c, p), Numero(c, n) \o FlattenSeq([i \in 1 .. n |-> d]), 4 + n * w)
<1>1. PICK s : s = Paso("lista", c, 4, p)
  OBVIOUS
<1>2. s.lee = "lista" /\ s.campo = c /\ s.ancho = 4 /\ s.cuerpo = p /\ s \in PasosLista
  BY <1>1 DEF Paso, PasosLista, Positivos
<1>3. s \in PasosDeCaso /\ s \in Pasos
  BY <1>2 DEF PasosDeCaso, Pasos
<1>4. Siguientes(s, n) = Copias(p, n)
  BY <1>2 DEF Siguientes, Copias
<1>5. PICK q \in Partes : q = Parte(c, 4, n) /\ q.campo = c /\ q.ancho = 4 /\ q.valor = n
  <2>1. 4 \in Positivos
    BY DEF Positivos
  <2>2. QED
    BY <2>1, UnFijo
<1>6. PICK e : e = Copias(d, n)
  OBVIOUS
<1>7. Bien(Copias(p, n), e, n * w)
  BY <1>6, BienCopias
<1>8. Encajan(<<s>>, <<q>> \o e)
  BY <1>2, <1>3, <1>4, <1>5, <1>7, EncajanDesde DEF Bien
<1>9. Bytes(<<q>> \o e) = 4 + n * w /\ n * w \in Nat
  <2>1. e \in Seq(Partes) /\ n * w \in Nat /\ Bytes(e) = n * w
    BY <1>7, BienTipo
  <2>2. <<q>> \in Seq(Partes) /\ Bytes(<<q>>) = 4
    BY <1>5, BytesDeUna
  <2>3. Bytes(<<q>> \o e) = Bytes(<<q>>) + Bytes(e)
    BY <2>1, <2>2, BytesDeJuntas
  <2>4. QED
    BY <2>1, <2>2, <2>3
<1>10. LeeLista(c, p) = <<s>> /\ Numero(c, n) \o FlattenSeq([i \in 1 .. n |-> d]) = <<q>> \o e
  BY <1>1, <1>5, <1>6 DEF LeeLista, Numero, Copias
<1>11. 4 + n * w \in Nat
  BY <1>9
<1>12. <<s>> \in Seq(PasosDeCaso)
  BY <1>3, ListaDeUno
<1>13. QED
  BY <1>8, <1>9, <1>10, <1>11, <1>12 DEF Bien

LEMMA BienSegun ==
  ASSUME NEW c \in Campos, NEW casos \in Seq(Seq(PasosDeCaso)), NEW v \in DOMAIN casos, v \in Nat,
         NEW d, NEW n, Bien(casos[v], d, n)
  PROVE  Bien(LeeSegun(c, casos), Numero(c, v) \o d, 4 + n)
<1>1. PICK s : s = Paso("segun", c, 4, casos)
  OBVIOUS
<1>2. s.lee = "segun" /\ s.campo = c /\ s.ancho = 4 /\ s.cuerpo = casos /\ s \in PasosSegun
  BY <1>1 DEF Paso, PasosSegun, Positivos
<1>3. s \in Pasos
  BY <1>2 DEF Pasos
<1>4. Siguientes(s, v) = casos[v]
  BY <1>2 DEF Siguientes
<1>5. PICK q \in Partes : q = Parte(c, 4, v) /\ q.campo = c /\ q.ancho = 4 /\ q.valor = v
  <2>1. 4 \in Positivos
    BY DEF Positivos
  <2>2. QED
    BY <2>1, UnFijo
<1>6. Encajan(<<s>>, <<q>> \o d)
  BY <1>2, <1>3, <1>4, <1>5, EncajanDesde DEF Bien
<1>7. Bytes(<<q>> \o d) = 4 + n /\ n \in Nat
  <2>1. d \in Seq(Partes) /\ Bytes(d) = n /\ n \in Nat
    BY BienTipo
  <2>2. <<q>> \in Seq(Partes) /\ Bytes(<<q>>) = 4
    BY <1>5, BytesDeUna
  <2>3. QED
    BY <2>1, <2>2, BytesDeJuntas
<1>8. LeeSegun(c, casos) = <<s>> /\ Numero(c, v) \o d = <<q>> \o d
  BY <1>1, <1>5 DEF LeeSegun, Numero
<1>9. QED
  BY <1>6, <1>7, <1>8 DEF Bien

\* Fields of four bytes, one after the other.
LEMMA FijosTipo ==
  ASSUME NEW cs \in Seq(Campos)
  PROVE  /\ Lee32s(cs) \in Seq(PasosFijos) /\ Len(Lee32s(cs)) = Len(cs)
         /\ U32s(cs) \in Seq(Partes) /\ Len(U32s(cs)) = Len(cs)
         /\ \A i \in 1 .. Len(cs) : Lee32s(cs)[i] = Paso("fijo", cs[i], 4, <<>>) /\ U32s(cs)[i] = Parte(cs[i], 4, 0)
<1>1. PICK n \in Nat : n = Len(cs) /\ DOMAIN cs = 1 .. n
  BY LenProperties
<1>2. ASSUME NEW i \in 1 .. n
      PROVE  Paso("fijo", cs[i], 4, <<>>) \in PasosFijos /\ Parte(cs[i], 4, 0) \in Partes
  <2>1. cs[i] \in Campos /\ 4 \in Positivos /\ 0 \in Nat
    BY <1>1, ElementOfSeq DEF Positivos
  <2>2. QED
    BY <2>1, UnFijo
<1>3. PICK a : a = [i \in 1 .. n |-> Paso("fijo", cs[i], 4, <<>>)]
  OBVIOUS
<1>4. a \in Seq(PasosFijos) /\ Len(a) = n
  <2>1. a \in [1 .. n -> PasosFijos]
    BY <1>2, <1>3
  <2>2. QED
    BY <2>1
<1>5. PICK b : b = [i \in 1 .. n |-> Parte(cs[i], 4, 0)]
  OBVIOUS
<1>6. b \in Seq(Partes) /\ Len(b) = n
  <2>1. b \in [1 .. n -> Partes]
    BY <1>2, <1>5
  <2>2. QED
    BY <2>1
<1>7. Lee32s(cs) = a /\ U32s(cs) = b
  BY <1>1, <1>3, <1>5 DEF Lee32s, U32s
<1>8. \A i \in 1 .. n : a[i] = Paso("fijo", cs[i], 4, <<>>) /\ b[i] = Parte(cs[i], 4, 0)
  BY <1>3, <1>5
<1>9. QED
  BY <1>1, <1>4, <1>6, <1>7, <1>8

LEMMA FijosMas ==
  ASSUME NEW cs \in Seq(Campos), NEW c \in Campos
  PROVE  /\ Lee32s(Append(cs, c)) = Append(Lee32s(cs), Paso("fijo", c, 4, <<>>))
         /\ U32s(Append(cs, c)) = Append(U32s(cs), Parte(c, 4, 0))
<1>1. PICK n \in Nat : n = Len(cs)
  BY LenProperties
<1>2. PICK ds \in Seq(Campos) : ds = Append(cs, c)
  BY AppendProperties
<1>3. PICK m \in Nat : m = n + 1
  OBVIOUS
<1>4. Len(ds) = m /\ ds[m] = c /\ (\A i \in 1 .. n : ds[i] = cs[i])
  BY <1>1, <1>2, <1>3, AppendProperties
<1>5. PICK s \in PasosFijos, t \in Partes : s = Paso("fijo", c, 4, <<>>) /\ t = Parte(c, 4, 0)
  <2>1. 4 \in Positivos /\ 0 \in Nat
    BY DEF Positivos
  <2>2. QED
    BY <2>1, UnFijo
<1>6. PICK a \in Seq(PasosFijos), b \in Seq(Partes) :
        /\ a = Lee32s(cs) /\ b = U32s(cs) /\ Len(a) = n /\ Len(b) = n
        /\ \A i \in 1 .. n : a[i] = Paso("fijo", cs[i], 4, <<>>) /\ b[i] = Parte(cs[i], 4, 0)
  BY <1>1, FijosTipo
<1>7. PICK x \in Seq(PasosFijos), y \in Seq(Partes) :
        /\ x = Lee32s(ds) /\ y = U32s(ds) /\ Len(x) = m /\ Len(y) = m
        /\ \A i \in 1 .. m : x[i] = Paso("fijo", ds[i], 4, <<>>) /\ y[i] = Parte(ds[i], 4, 0)
  BY <1>4, FijosTipo
<1>8. PICK u \in Seq(PasosFijos), v \in Seq(Partes) :
        /\ u = Append(a, s) /\ v = Append(b, t) /\ Len(u) = m /\ Len(v) = m
        /\ u[m] = s /\ v[m] = t
        /\ \A i \in 1 .. n : u[i] = a[i] /\ v[i] = b[i]
  <2>1. PICK u \in Seq(PasosFijos) : u = Append(a, s) /\ Len(u) = m /\ u[m] = s /\ \A i \in 1 .. n : u[i] = a[i]
    <3>1. PICK u \in Seq(PasosFijos) : u = Append(a, s)
      BY AppendProperties
    <3>2. /\ Len(u) = Len(a) + 1 /\ u[Len(a) + 1] = s
          /\ \A i \in 1 .. Len(a) : u[i] = a[i]
      BY <3>1, AppendProperties
    <3>3. Len(a) = n
      BY <1>6
    <3>4. QED
      BY <1>3, <3>1, <3>2, <3>3
  <2>2. PICK v \in Seq(Partes) : v = Append(b, t) /\ Len(v) = m /\ v[m] = t /\ \A i \in 1 .. n : v[i] = b[i]
    <3>1. PICK v \in Seq(Partes) : v = Append(b, t)
      BY AppendProperties
    <3>2. /\ Len(v) = Len(b) + 1 /\ v[Len(b) + 1] = t
          /\ \A i \in 1 .. Len(b) : v[i] = b[i]
      BY <3>1, AppendProperties
    <3>3. Len(b) = n
      BY <1>6
    <3>4. QED
      BY <1>3, <3>1, <3>2, <3>3
  <2>3. QED
    BY <2>1, <2>2
<1>9. ASSUME NEW i \in 1 .. m PROVE x[i] = u[i] /\ y[i] = v[i]
  <2>1. CASE i = m
    BY <1>4, <1>5, <1>7, <1>8, <2>1
  <2>2. CASE i # m
    <3>1. i \in 1 .. n
      BY <1>3, <2>2
    <3>2. QED
      BY <1>4, <1>6, <1>7, <1>8, <3>1
  <2>3. QED
    BY <2>1, <2>2
<1>10. x = u /\ y = v
  BY <1>7, <1>8, <1>9, SeqEqual
<1>11. QED
  BY <1>2, <1>5, <1>6, <1>7, <1>8, <1>10

LEMMA TuplaDeDos ==
  ASSUME NEW S, NEW a \in S, NEW b \in S
  PROVE  <<a, b>> \in Seq(S) /\ Append(<<a>>, b) = <<a, b>>
<1>1. <<a, b>> \in Seq(S) /\ <<a>> \in Seq(S)
  OBVIOUS
<1>2. Len(<<a>>) = 1 /\ <<a>>[1] = a /\ Len(<<a, b>>) = 2 /\ <<a, b>>[1] = a /\ <<a, b>>[2] = b
  OBVIOUS
<1>3. PICK x \in Seq(S) : x = <<a>>
  BY <1>1
<1>4. PICK y \in Seq(S) : y = <<a, b>>
  BY <1>1
<1>5. PICK r \in Seq(S) : r = Append(x, b)
  BY AppendProperties
<1>6. Len(x) = 1 /\ x[1] = a /\ Len(y) = 2 /\ y[1] = a /\ y[2] = b
  BY <1>2, <1>3, <1>4
<1>7. Len(r) = 2 /\ r[1] = a /\ r[2] = b
  <2>1. Len(r) = Len(x) + 1 /\ (\A k \in 1 .. Len(x) : r[k] = x[k]) /\ r[Len(x) + 1] = b
    BY <1>5, AppendProperties
  <2>2. Len(r) = 2 /\ (\A k \in 1 .. 1 : r[k] = x[k]) /\ r[2] = b
    BY <1>6, <2>1
  <2>3. QED
    BY <1>6, <2>2
<1>8. ASSUME NEW k \in 1 .. Len(r) PROVE r[k] = y[k]
  <2>1. k = 1 \/ k = 2
    BY <1>7
  <2>2. QED
    BY <1>6, <1>7, <2>1
<1>9. r = y
  BY <1>6, <1>7, <1>8, SeqEqual
<1>10. QED
  BY <1>1, <1>3, <1>4, <1>5, <1>9

LEMMA TuplaDeCuatro ==
  ASSUME NEW S, NEW a \in S, NEW b \in S, NEW c \in S, NEW d \in S
  PROVE  <<a, b, c>> \in Seq(S) /\ <<a, b, c, d>> \in Seq(S) /\ Append(<<a, b, c>>, d) = <<a, b, c, d>>
<1>1. <<a, b, c>> \in Seq(S) /\ <<a, b, c, d>> \in Seq(S)
  OBVIOUS
<1>2. /\ Len(<<a, b, c>>) = 3 /\ <<a, b, c>>[1] = a /\ <<a, b, c>>[2] = b /\ <<a, b, c>>[3] = c
      /\ Len(<<a, b, c, d>>) = 4 /\ <<a, b, c, d>>[1] = a /\ <<a, b, c, d>>[2] = b
      /\ <<a, b, c, d>>[3] = c /\ <<a, b, c, d>>[4] = d
  OBVIOUS
<1>3. PICK x \in Seq(S) : x = <<a, b, c>>
  BY <1>1
<1>4. PICK y \in Seq(S) : y = <<a, b, c, d>>
  BY <1>1
<1>5. PICK r \in Seq(S) : r = Append(x, d)
  BY AppendProperties
<1>6. /\ Len(x) = 3 /\ x[1] = a /\ x[2] = b /\ x[3] = c
      /\ Len(y) = 4 /\ y[1] = a /\ y[2] = b /\ y[3] = c /\ y[4] = d
  BY <1>2, <1>3, <1>4
<1>7. Len(r) = 4 /\ r[1] = a /\ r[2] = b /\ r[3] = c /\ r[4] = d
  <2>1. Len(r) = Len(x) + 1 /\ (\A k \in 1 .. Len(x) : r[k] = x[k]) /\ r[Len(x) + 1] = d
    BY <1>5, AppendProperties
  <2>2. Len(r) = 4 /\ (\A k \in 1 .. 3 : r[k] = x[k]) /\ r[4] = d
    BY <1>6, <2>1
  <2>3. QED
    BY <1>6, <2>2
<1>8. ASSUME NEW k \in 1 .. Len(r) PROVE r[k] = y[k]
  <2>1. k = 1 \/ k = 2 \/ k = 3 \/ k = 4
    BY <1>7
  <2>2. QED
    BY <1>6, <1>7, <2>1
<1>9. r = y
  BY <1>6, <1>7, <1>8, SeqEqual
<1>10. QED
  BY <1>1, <1>3, <1>4, <1>5, <1>9

LEMMA Sin32s == Lee32s(<<>>) = <<>> /\ U32s(<<>>) = <<>>
  BY DEF Lee32s, U32s

LEMMA Bien32s ==
  ASSUME NEW cs \in Seq(Campos)
  PROVE  Lee32s(cs) \in Seq(PasosFijos) /\ Bien(Lee32s(cs), U32s(cs), 4 * Len(cs))
<1> DEFINE Bueno(s) == Lee32s(s) \in Seq(PasosFijos) /\ Bien(Lee32s(s), U32s(s), 4 * Len(s))
           Mal(n) == \E s \in Seq(Campos) : Len(s) = n /\ ~ Bueno(s)
           M == {n \in Nat : Mal(n)}
<1>1. SUFFICES M = {}
  <2>1. Len(cs) \in Nat
    BY LenProperties
  <2>2. QED
    BY <2>1
<1>2. SUFFICES ASSUME M # {} PROVE FALSE
  OBVIOUS
<1>3. PICK n \in M : \A k \in M : n <= k
  <2>1. M \subseteq Nat
    OBVIOUS
  <2>2. QED
    BY <1>2, <2>1, MenorNatural
<1>4. n \in Nat /\ Mal(n)
  OBVIOUS
<1>5. PICK s \in Seq(Campos) : Len(s) = n /\ ~ Bueno(s)
  BY <1>4
<1>6. s # <<>>
  <2>1. <<>> \in Seq(PasosFijos) /\ Len(<<>>) = 0 /\ 4 * 0 = 0
    OBVIOUS
  <2>2. Bien(<<>>, <<>>, 0)
    BY EncajanVacias, BytesDeVacia DEF Bien
  <2>3. Bueno(<<>>)
    BY <2>1, <2>2, Sin32s
  <2>4. QED
    BY <1>5, <2>3
<1>7. PICK t \in Seq(Campos), c \in Campos : s = Append(t, c)
  BY <1>6, SequenceEmptyOrAppend
<1>8. PICK k \in Nat : k = Len(t) /\ n = k + 1 /\ ~ (n <= k)
  BY <1>4, <1>5, <1>7, AppendProperties, LenProperties
<1>9. Bueno(t)
  BY <1>3, <1>8
<1>10. PICK e \in PasosFijos, q \in Partes : e = Paso("fijo", c, 4, <<>>) /\ q = Parte(c, 4, 0)
  <2>1. 4 \in Positivos /\ 0 \in Nat
    BY DEF Positivos
  <2>2. QED
    BY <2>1, UnFijo
<1>11. Lee32s(s) = Append(Lee32s(t), e) /\ U32s(s) = Append(U32s(t), q)
  BY <1>7, <1>10, FijosMas
<1>12. Lee32s(t) \in Seq(PasosFijos) /\ Bien(Lee32s(t), U32s(t), 4 * k) /\ U32s(t) \in Seq(Partes)
  BY <1>8, <1>9, BienTipo
<1>13. Lee32s(s) = Lee32s(t) \o <<e>> /\ U32s(s) = U32s(t) \o <<q>> /\ Lee32s(s) \in Seq(PasosFijos)
  <2>1. PICK x \in Seq(PasosFijos) : x = Lee32s(t)
    BY <1>12
  <2>2. PICK y \in Seq(Partes) : y = U32s(t)
    BY <1>12
  <2>3. Append(x, e) = x \o <<e>> /\ Append(y, q) = y \o <<q>> /\ Append(x, e) \in Seq(PasosFijos)
    BY AppendIsConcat, AppendProperties
  <2>4. QED
    BY <1>11, <2>1, <2>2, <2>3
<1>14. Bien(<<e>>, <<q>>, 4)
  BY <1>10, Bien32 DEF Lee32, U32
<1>15. Bien(Lee32s(s), U32s(s), 4 * k + 4)
  BY <1>12, <1>13, <1>14, BienJunto
<1>16. 4 * k + 4 = 4 * n
  BY <1>8
<1>17. QED
  BY <1>5, <1>13, <1>15, <1>16

LEMMA BienDos ==
  ASSUME NEW a \in Campos, NEW b \in Campos
  PROVE  /\ Bien(Lee32s(<<a, b>>), U32s(<<a, b>>), 8)
         /\ Bien(Lee32s(<<a, b>>), U32(a) \o U32(b), 8)
         /\ Lee32s(<<a, b>>) \in Seq(PasosFijos)
<1>1. <<a>> \in Seq(Campos) /\ <<a, b>> \in Seq(Campos) /\ Len(<<a, b>>) = 2 /\ Append(<<a>>, b) = <<a, b>> /\ 4 * 2 = 8
  BY TuplaDeDos
<1>2. Bien(Lee32s(<<a, b>>), U32s(<<a, b>>), 8) /\ Lee32s(<<a, b>>) \in Seq(PasosFijos)
  BY <1>1, Bien32s
<1>3. U32s(<<a, b>>) = U32(a) \o U32(b)
  <2>1. PICK q \in Partes : q = Parte(b, 4, 0)
    <3>1. 4 \in Positivos /\ 0 \in Nat
      BY DEF Positivos
    <3>2. QED
      BY <3>1, UnFijo
  <2>2. U32s(<<a, b>>) = Append(U32s(<<a>>), q)
    BY <1>1, <2>1, FijosMas
  <2>3. U32s(<<a>>) \in Seq(Partes)
    BY <1>1, Bien32s, BienTipo
  <2>4. U32s(<<a>>) = U32(a)
    BY DEF U32s, U32
  <2>5. QED
    BY <2>1, <2>2, <2>3, <2>4, AppendIsConcat DEF U32
<1>4. QED
  BY <1>2, <1>3

LEMMA BienTres ==
  ASSUME NEW a \in Campos, NEW b \in Campos, NEW c \in Campos
  PROVE  Lee32s(<<a, b, c>>) \in Seq(PasosFijos) /\ Bien(Lee32s(<<a, b, c>>), U32s(<<a, b, c>>), 12)
<1>1. <<a, b, c>> \in Seq(Campos) /\ Len(<<a, b, c>>) = 3 /\ 4 * 3 = 12
  OBVIOUS
<1>2. QED
  BY <1>1, Bien32s

LEMMA BienCuatro ==
  ASSUME NEW a \in Campos, NEW b \in Campos, NEW c \in Campos, NEW d \in Campos, NEW v \in Nat
  PROVE  /\ Bien(Lee32s(<<a, b, c, d>>), U32s(<<a, b, c, d>>), 16)
         /\ Bien(Lee32s(<<a, b, c, d>>), U32s(<<a, b, c>>) \o Numero(d, v), 16)
<1>1. <<a, b, c, d>> \in Seq(Campos) /\ Len(<<a, b, c, d>>) = 4 /\ 4 * 4 = 16
  OBVIOUS
<1>2. Bien(Lee32s(<<a, b, c, d>>), U32s(<<a, b, c, d>>), 16)
  BY <1>1, Bien32s
<1>3. Lee32s(<<a, b, c, d>>) = Lee32s(<<a, b, c>>) \o Lee32(d)
  <2>1. <<a, b, c>> \in Seq(Campos) /\ Append(<<a, b, c>>, d) = <<a, b, c, d>>
    BY TuplaDeCuatro
  <2>2. PICK e \in PasosFijos : e = Paso("fijo", d, 4, <<>>)
    <3>1. 4 \in Positivos
      BY DEF Positivos
    <3>2. QED
      BY <3>1, UnFijo
  <2>3. Lee32s(<<a, b, c, d>>) = Append(Lee32s(<<a, b, c>>), e)
    BY <2>1, <2>2, FijosMas
  <2>4. Lee32s(<<a, b, c>>) \in Seq(PasosFijos)
    BY BienTres
  <2>5. QED
    BY <2>2, <2>3, <2>4, AppendIsConcat DEF Lee32
<1>4. Bien(Lee32s(<<a, b, c>>) \o Lee32(d), U32s(<<a, b, c>>) \o Numero(d, v), 12 + 4)
  BY BienTres, Bien32Numero, BienJunto
<1>5. 12 + 4 = 16
  OBVIOUS
<1>6. QED
  BY <1>2, <1>3, <1>4, <1>5

LEMMA BienSeis ==
  ASSUME NEW a \in Campos, NEW b \in Campos, NEW c \in Campos, NEW d \in Campos, NEW e \in Campos, NEW f \in Campos
  PROVE  Bien(Lee32s(<<a, b, c, d, e, f>>), U32s(<<a, b, c, d, e, f>>), 24)
<1>1. <<a, b, c, d, e, f>> \in Seq(Campos) /\ Len(<<a, b, c, d, e, f>>) = 6 /\ 4 * 6 = 24
  OBVIOUS
<1>2. QED
  BY <1>1, Bien32s

LEMMA BienAsocia ==
  ASSUME NEW p, NEW n, NEW d \in Seq(Partes), NEW e \in Seq(Partes), NEW g \in Seq(Partes), Bien(p, d \o (e \o g), n)
  PROVE  Bien(p, d \o e \o g, n)
<1>1. (d \o e) \o g = d \o (e \o g)
  BY ConcatAssociative
<1>2. QED
  BY <1>1

-----------------------------------------------------------------------------
(***************************************************************************)
(* The messages: what each serialize_* writes is of the size computed for  *)
(* it and is what its deserialize_* reads.                                 *)
(***************************************************************************)
LEMMA FormaTipo ==
  ASSUME NEW f \in Formas
  PROVE  f.l1 \in Positivos /\ f.l2 \in Positivos /\ f.n \in Nat /\ f.op \in 1 .. 5
  BY FormasAssumption DEF Formas, Operaciones, Positivos

LEMMA BienRegistros == Bien(LeerRegistros, EscribirRegistros, 32)
<1>1. /\ "pc" \in Campos /\ "ax" \in Campos /\ "bx" \in Campos /\ "cx" \in Campos /\ "dx" \in Campos
      /\ "eax" \in Campos /\ "ebx" \in Campos /\ "ecx" \in Campos /\ "edx" \in Campos
      /\ "si" \in Campos /\ "di" \in Campos
  BY DEF Campos, Nombres
<1>2. Bien(Lee32("pc"), U32("pc"), 4)
  BY <1>1, Bien32
<1>3. Bien(Lee32("pc") \o Lee8("ax"), U32("pc") \o U8("ax"), 4 + 1)
  BY <1>1, <1>2, Bien8, BienJunto
<1>4. Bien(Lee32("pc") \o Lee8("ax") \o Lee8("bx"), U32("pc") \o U8("ax") \o U8("bx"), 4 + 1 + 1)
  BY <1>1, <1>3, Bien8, BienJunto
<1>5. Bien(Lee32("pc") \o Lee8("ax") \o Lee8("bx") \o Lee8("cx"),
           U32("pc") \o U8("ax") \o U8("bx") \o U8("cx"), 4 + 1 + 1 + 1)
  BY <1>1, <1>4, Bien8, BienJunto
<1>6. Bien(Lee32("pc") \o Lee8("ax") \o Lee8("bx") \o Lee8("cx") \o Lee8("dx"),
           U32("pc") \o U8("ax") \o U8("bx") \o U8("cx") \o U8("dx"), 4 + 1 + 1 + 1 + 1)
  BY <1>1, <1>5, Bien8, BienJunto
<1>7. Bien(Lee32s(<<"eax", "ebx", "ecx", "edx", "si", "di">>), U32s(<<"eax", "ebx", "ecx", "edx", "si", "di">>), 24)
  BY <1>1, BienSeis
<1>8. Bien(LeerRegistros, EscribirRegistros, 4 + 1 + 1 + 1 + 1 + 24)
  BY <1>6, <1>7, BienJunto DEF LeerRegistros, EscribirRegistros
<1>9. 4 + 1 + 1 + 1 + 1 + 24 = 32
  OBVIOUS
<1>10. QED
  BY <1>8, <1>9

LEMMA BienPcb == TamanoPcb = 48 /\ Bien(LeerPcb, EscribirPcb, TamanoPcb)
<1>1. "pid" \in Campos /\ "quantum" \in Campos /\ "program_counter" \in Campos /\ "tamano_registros" \in Campos
  BY DEF Campos, Nombres
<1>2. TamanoRegistros \in Nat
  BY DEF TamanoRegistros
<1>3. Bien(Lee32s(<<"pid", "quantum", "program_counter", "tamano_registros">>),
           U32s(<<"pid", "quantum", "program_counter">>) \o Numero("tamano_registros", TamanoRegistros), 16)
  BY <1>1, <1>2, BienCuatro
<1>4. Bien(LeerPcb, EscribirPcb, 16 + 32)
  BY <1>3, BienRegistros, BienJunto DEF LeerPcb, EscribirPcb
<1>5. 16 + 32 = 48 /\ TamanoPcb = 48
  BY DEF TamanoPcb, TamanoRegistros
<1>6. QED
  BY <1>4, <1>5

LEMMA BienProceso ==
  ASSUME NEW f \in Formas
  PROVE  Bien(LeerProceso, EscribirProceso(f), TamanoProceso(f)) /\ TamanoProceso(f) > 0
<1>1. "pid" \in Campos /\ "path" \in Campos
  BY DEF Campos, Nombres
<1>2. PICK l \in Positivos : l = f.l1
  BY FormaTipo
<1>3. Bien(LeerProceso, EscribirProceso(f), 4 + (4 + l))
  BY <1>1, <1>2, Bien32, BienCadena, BienJunto DEF LeerProceso, EscribirProceso
<1>4. TamanoProceso(f) = 4 + (4 + l) /\ TamanoProceso(f) > 0
  BY <1>2 DEF TamanoProceso, Positivos
<1>5. QED
  BY <1>3, <1>4

LEMMA CadenaSimple ==
  ASSUME NEW c \in Campos
  PROVE  /\ LeeCadena(c) \in Seq(PasosSimples) /\ LeeCadena(c) \in Seq(PasosDeCaso)
         /\ Lee32(c) \in Seq(PasosDeCaso)
<1>1. PICK s : s = Paso("cadena", "largo", 4, c)
  OBVIOUS
<1>2. s \in PasosCadena
  BY <1>1, LargoCampo DEF Paso, PasosCadena, Positivos
<1>3. s \in PasosSimples /\ s \in PasosDeCaso
  BY <1>2 DEF PasosSimples, PasosDeCaso
<1>4. LeeCadena(c) = <<s>>
  BY <1>1 DEF LeeCadena
<1>5. PICK t \in PasosDeCaso : t = Paso("fijo", c, 4, <<>>)
  <2>1. 4 \in Positivos
    BY DEF Positivos
  <2>2. QED
    BY <2>1, UnFijo, PasosSon
<1>6. Lee32(c) = <<t>>
  BY <1>5 DEF Lee32
<1>7. QED
  BY <1>3, <1>4, <1>5, <1>6, ListaDeUno

LEMMA BienInstruccion ==
  ASSUME NEW f \in Formas
  PROVE  Bien(LeerInstruccion, EscribirInstruccion(f), TamanoInstruccion(f)) /\ TamanoInstruccion(f) > 0
<1>1. "name" \in Campos /\ "num_params" \in Campos /\ "param" \in Campos
  BY DEF Campos, Nombres
<1>2. PICK l \in Positivos, n \in Nat : l = f.l1 /\ n = f.n
  BY FormaTipo
<1>3. PICK w \in Nat : w = 4 + l
  BY DEF Positivos
<1>4. PICK c : c = Cadena("param", l)
  OBVIOUS
<1>5. Bien(LeeCadena("param"), c, w)
  BY <1>1, <1>3, <1>4, BienCadena
<1>6. PICK g : g = FlattenSeq([i \in 1 .. n |-> c])
  OBVIOUS
<1>7. Bien(LeeLista("num_params", LeeCadena("param")), Numero("num_params", n) \o g, 4 + n * w)
  BY <1>1, <1>5, <1>6, CadenaSimple, BienLista
<1>8. Bien(LeerInstruccion, U32("name") \o (Numero("num_params", n) \o g), 4 + (4 + n * w))
  BY <1>1, <1>7, Bien32, BienJunto DEF LeerInstruccion
<1>9. U32("name") \in Seq(Partes) /\ Numero("num_params", n) \in Seq(Partes) /\ g \in Seq(Partes)
  <2>1. U32("name") \in Seq(Partes) /\ Numero("num_params", n) \in Seq(Partes)
    BY <1>1, Bien32, Bien32Numero, BienTipo
  <2>2. g = Copias(c, n) /\ c \in Seq(Partes)
    BY <1>5, <1>6, BienTipo DEF Copias
  <2>3. QED
    BY <2>1, <2>2, BytesDeCopias
<1>10. Bien(LeerInstruccion, U32("name") \o Numero("num_params", n) \o g, 4 + (4 + n * w))
  BY <1>8, <1>9, BienAsocia
<1>11. EscribirInstruccion(f) = U32("name") \o Numero("num_params", n) \o g
  BY <1>2, <1>4, <1>6 DEF EscribirInstruccion
<1>12. TamanoInstruccion(f) = 4 + (4 + n * w) /\ 4 + (4 + n * w) > 0
  <2>1. PICK p \in Nat : p = n * w
    OBVIOUS
  <2>2. TamanoInstruccion(f) = 4 + 4 + p
    BY <1>2, <1>3, <2>1 DEF TamanoInstruccion
  <2>3. QED
    BY <2>1, <2>2
<1>13. QED
  BY <1>10, <1>11, <1>12

LEMMA BienSiguiente == Bien(LeerSiguiente, EscribirSiguiente, TamanoSiguiente) /\ TamanoSiguiente > 0
<1>1. "pid" \in Campos /\ "program_counter" \in Campos
  BY DEF Campos, Nombres
<1>2. TamanoSiguiente = 8
  BY DEF TamanoSiguiente
<1>3. QED
  BY <1>1, <1>2, BienDos DEF LeerSiguiente, EscribirSiguiente

LEMMA BienInterrupcion ==
  Bien(LeerInterrupcion, EscribirInterrupcion, TamanoInterrupcion) /\ TamanoInterrupcion > 0
<1>1. "pid" \in Campos /\ "name" \in Campos
  BY DEF Campos, Nombres
<1>2. TamanoInterrupcion = 8
  BY DEF TamanoInterrupcion
<1>3. QED
  BY <1>1, <1>2, BienDos DEF LeerInterrupcion, EscribirInterrupcion

LEMMA BienRecurso ==
  ASSUME NEW f \in Formas
  PROVE  Bien(LeerRecurso, EscribirRecurso(f), TamanoRecurso(f)) /\ TamanoRecurso(f) > 0
<1>1. "nombre_recurso" \in Campos
  BY DEF Campos, Nombres
<1>2. PICK l \in Positivos : l = f.l1
  BY FormaTipo
<1>3. Bien(LeerRecurso, EscribirRecurso(f), TamanoPcb + (4 + l))
  BY <1>1, <1>2, BienPcb, BienCadena, BienJunto DEF LeerRecurso, EscribirRecurso
<1>4. TamanoRecurso(f) = TamanoPcb + (4 + l) /\ TamanoRecurso(f) > 0
  BY <1>2, BienPcb DEF TamanoRecurso, Positivos
<1>5. QED
  BY <1>3, <1>4

LEMMA BienInterfaz ==
  ASSUME NEW f \in Formas
  PROVE  Bien(LeerInterfaz, EscribirInterfaz(f), TamanoInterfaz(f)) /\ TamanoInterfaz(f) > 0
<1>1. "nombre_interfaz" \in Campos /\ "tipo" \in Campos
  BY DEF Campos, Nombres
<1>2. PICK l \in Positivos : l = f.l1
  BY FormaTipo
<1>3. Bien(LeerInterfaz, EscribirInterfaz(f), (4 + l) + 4)
  BY <1>1, <1>2, Bien32, BienCadena, BienJunto DEF LeerInterfaz, EscribirInterfaz
<1>4. TamanoInterfaz(f) = (4 + l) + 4 /\ TamanoInterfaz(f) > 0
  BY <1>2 DEF TamanoInterfaz, Positivos
<1>5. QED
  BY <1>3, <1>4

LEMMA BienRespuesta == Bien(LeerRespuesta, EscribirRespuesta, TamanoRespuesta) /\ TamanoRespuesta > 0
<1>1. "pid" \in Campos /\ "process" \in Campos
  BY DEF Campos, Nombres
<1>2. Bien(LeerRespuesta, EscribirRespuesta, 4 + 1)
  BY <1>1, Bien32, Bien8, BienJunto DEF LeerRespuesta, EscribirRespuesta
<1>3. TamanoRespuesta = 4 + 1 /\ TamanoRespuesta > 0
  BY DEF TamanoRespuesta
<1>4. QED
  BY <1>2, <1>3

LEMMA BienGenerica ==
  ASSUME NEW f \in Formas
  PROVE  Bien(LeerGenerica, EscribirGenerica(f), TamanoGenerica(f)) /\ TamanoGenerica(f) > 0
<1>1. "nombre_interfaz" \in Campos /\ "tiempo_sleep" \in Campos /\ "pid" \in Campos
  BY DEF Campos, Nombres
<1>2. PICK l \in Positivos : l = f.l2
  BY FormaTipo
<1>3. Bien(LeeCadena("nombre_interfaz"), Cadena("nombre_interfaz", l), 4 + l)
  BY <1>1, BienCadena
<1>4. Bien(Lee32s(<<"tiempo_sleep", "pid">>), U32("tiempo_sleep") \o U32("pid"), 8)
  BY <1>1, BienDos
<1>5. Bien(LeerGenerica, Cadena("nombre_interfaz", l) \o (U32("tiempo_sleep") \o U32("pid")), (4 + l) + 8)
  BY <1>3, <1>4, BienJunto DEF LeerGenerica
<1>6. /\ Cadena("nombre_interfaz", l) \in Seq(Partes)
      /\ U32("tiempo_sleep") \in Seq(Partes) /\ U32("pid") \in Seq(Partes)
  BY <1>1, <1>3, Bien32, BienTipo
<1>7. Bien(LeerGenerica, EscribirGenerica(f), (4 + l) + 8)
  BY <1>2, <1>5, <1>6, BienAsocia DEF EscribirGenerica
<1>8. TamanoGenerica(f) = (4 + l) + 8 /\ TamanoGenerica(f) > 0
  BY <1>2 DEF TamanoGenerica, Positivos
<1>9. QED
  BY <1>7, <1>8

LEMMA BienFrames ==
  ASSUME NEW f \in Formas
  PROVE  /\ Bien(LeerFrames, EscribirFrames(f), TamanoFrames(f)) /\ TamanoFrames(f) > 0
         /\ LeerFrames \in Seq(PasosDeCaso)
<1>1. /\ "pid" \in Campos /\ "tamano_total" \in Campos /\ "size_list" \in Campos
      /\ "frame" \in Campos /\ "tamano" \in Campos /\ "desplazamiento" \in Campos
  BY DEF Campos, Nombres
<1>2. PICK n \in Nat : n = f.n
  BY FormaTipo
<1>3. PICK c : c = U32s(<<"frame", "tamano", "desplazamiento">>)
  OBVIOUS
<1>4. PICK p : p = Lee32s(<<"frame", "tamano", "desplazamiento">>)
  OBVIOUS
<1>5. Bien(p, c, 12) /\ p \in Seq(PasosSimples)
  <2>1. Bien(p, c, 12) /\ p \in Seq(PasosFijos)
    BY <1>1, <1>3, <1>4, BienTres
  <2>2. QED
    BY <2>1, PasosSon, SeqMonotonic
<1>6. PICK g : g = FlattenSeq([i \in 1 .. n |-> c])
  OBVIOUS
<1>7. Bien(LeeLista("size_list", p), Numero("size_list", n) \o g, 4 + n * 12) /\ LeeLista("size_list", p) \in Seq(PasosDeCaso)
  BY <1>1, <1>5, <1>6, BienLista
<1>8. PICK q : q = Lee32s(<<"pid", "tamano_total">>)
  OBVIOUS
<1>9. Bien(q, U32("pid") \o U32("tamano_total"), 8) /\ q \in Seq(PasosDeCaso)
  <2>1. Bien(q, U32("pid") \o U32("tamano_total"), 8) /\ q \in Seq(PasosFijos)
    BY <1>1, <1>8, BienDos
  <2>2. PasosFijos \subseteq PasosDeCaso
    BY PasosSon
  <2>3. QED
    BY <2>1, <2>2, SeqMonotonic
<1>10. LeerFrames = q \o LeeLista("size_list", p)
  BY <1>4, <1>8 DEF LeerFrames
<1>11. Bien(LeerFrames, (U32("pid") \o U32("tamano_total")) \o (Numero("size_list", n) \o g), 8 + (4 + n * 12))
  BY <1>7, <1>9, <1>10, BienJunto
<1>12. U32("pid") \o U32("tamano_total") \in Seq(Partes) /\ Numero("size_list", n) \in Seq(Partes) /\ g \in Seq(Partes)
  <2>1. U32("pid") \o U32("tamano_total") \in Seq(Partes) /\ Numero("size_list", n) \in Seq(Partes)
    BY <1>1, <1>9, Bien32Numero, BienTipo
  <2>2. g = Copias(c, n) /\ c \in Seq(Partes)
    BY <1>5, <1>6, BienTipo DEF Copias
  <2>3. QED
    BY <2>1, <2>2, BytesDeCopias
<1>13. Bien(LeerFrames, (U32("pid") \o U32("tamano_total")) \o Numero("size_list", n) \o g, 8 + (4 + n * 12))
  BY <1>11, <1>12, BienAsocia
<1>14. EscribirFrames(f) = (U32("pid") \o U32("tamano_total")) \o Numero("size_list", n) \o g
  BY <1>2, <1>3, <1>6 DEF EscribirFrames
<1>15. TamanoFrames(f) = 8 + (4 + n * 12) /\ 8 + (4 + n * 12) > 0
  BY <1>2 DEF TamanoFrames
<1>16. LeerFrames \in Seq(PasosDeCaso)
  BY <1>7, <1>9, <1>10, ConcatProperties
<1>17. QED
  BY <1>13, <1>14, <1>15, <1>16

LEMMA BienDialfsCd ==
  ASSUME NEW f \in Formas
  PROVE  /\ Bien(LeerDialfsCd, EscribirDialfsCd(f), (4 + f.l1) + (4 + f.l2))
         /\ LeerDialfsCd \in Seq(PasosDeCaso)
<1>1. "nombre_interfaz" \in Campos /\ "nombre_archivo" \in Campos
  BY DEF Campos, Nombres
<1>2. f.l1 \in Positivos /\ f.l2 \in Positivos
  BY FormaTipo
<1>3. /\ Bien(LeeCadena("nombre_interfaz"), Cadena("nombre_interfaz", f.l1), 4 + f.l1)
      /\ Bien(LeeCadena("nombre_archivo"), Cadena("nombre_archivo", f.l2), 4 + f.l2)
  BY <1>1, <1>2, BienCadena
<1>4. Bien(LeerDialfsCd, EscribirDialfsCd(f), (4 + f.l1) + (4 + f.l2))
  BY <1>3, BienJunto DEF LeerDialfsCd, EscribirDialfsCd
<1>5. LeerDialfsCd \in Seq(PasosDeCaso)
  BY <1>1, CadenaSimple, ConcatProperties DEF LeerDialfsCd
<1>6. QED
  BY <1>4, <1>5

LEMMA BienDialfsTruncate ==
  ASSUME NEW f \in Formas
  PROVE  /\ Bien(LeerDialfsTruncate, EscribirDialfsTruncate(f), ((4 + f.l1) + (4 + f.l2)) + 4)
         /\ LeerDialfsTruncate \in Seq(PasosDeCaso)
<1>1. "tamanio" \in Campos
  BY DEF Campos, Nombres
<1>2. LeerDialfsTruncate = LeerDialfsCd \o Lee32("tamanio")
  BY DEF LeerDialfsTruncate, LeerDialfsCd
<1>3. EscribirDialfsTruncate(f) = EscribirDialfsCd(f) \o U32("tamanio")
  BY DEF EscribirDialfsTruncate, EscribirDialfsCd
<1>4. Bien(LeerDialfsTruncate, EscribirDialfsTruncate(f), ((4 + f.l1) + (4 + f.l2)) + 4)
  BY <1>1, <1>2, <1>3, BienDialfsCd, Bien32, BienJunto
<1>5. LeerDialfsTruncate \in Seq(PasosDeCaso)
  BY <1>1, <1>2, BienDialfsCd, CadenaSimple, ConcatProperties
<1>6. QED
  BY <1>4, <1>5

LEMMA BienDialfsRw ==
  ASSUME NEW f \in Formas
  PROVE  /\ Bien(LeerDialfsRw, EscribirDialfsRw(f), ((4 + f.l1) + (4 + f.l2)) + 4 + TamanoFrames(f) + 4)
         /\ LeerDialfsRw \in Seq(PasosDeCaso)
<1>1. "puntero_archivo" \in Campos
  BY DEF Campos, Nombres
<1>2. LeerDialfsRw = LeerDialfsTruncate \o LeerFrames \o Lee32("puntero_archivo")
  BY DEF LeerDialfsRw, LeerDialfsTruncate
<1>3. EscribirDialfsRw(f) = EscribirDialfsTruncate(f) \o EscribirFrames(f) \o U32("puntero_archivo")
  BY DEF EscribirDialfsRw, EscribirDialfsTruncate
<1>4. Bien(LeerDialfsTruncate \o LeerFrames, EscribirDialfsTruncate(f) \o EscribirFrames(f),
           ((4 + f.l1) + (4 + f.l2)) + 4 + TamanoFrames(f))
  BY BienDialfsTruncate, BienFrames, BienJunto
<1>5. Bien(LeerDialfsRw, EscribirDialfsRw(f), ((4 + f.l1) + (4 + f.l2)) + 4 + TamanoFrames(f) + 4)
  BY <1>1, <1>2, <1>3, <1>4, Bien32, BienJunto
<1>6. LeerDialfsTruncate \o LeerFrames \in Seq(PasosDeCaso)
  BY BienDialfsTruncate, BienFrames, ConcatProperties
<1>7. LeerDialfsRw \in Seq(PasosDeCaso)
  BY <1>1, <1>2, <1>6, CadenaSimple, ConcatProperties
<1>8. QED
  BY <1>5, <1>7

\* What follows the number of the operation.
DatosDialfs(f) == CASE f.op \in {1, 2} -> EscribirDialfsCd(f)
                    [] f.op = 3        -> EscribirDialfsTruncate(f)
                    [] f.op \in {4, 5} -> EscribirDialfsRw(f)

LargoDialfs(f) == CASE f.op \in {1, 2} -> (4 + f.l1) + (4 + f.l2)
                    [] f.op = 3        -> ((4 + f.l1) + (4 + f.l2)) + 4
                    [] f.op \in {4, 5} -> ((4 + f.l1) + (4 + f.l2)) + 4 + TamanoFrames(f) + 4

LEMMA CasosDialfsTipo ==
  ASSUME NEW f \in Formas
  PROVE  /\ CasosDialfs \in Seq(Seq(PasosDeCaso)) /\ DOMAIN CasosDialfs = 1 .. 5
         /\ CasosDialfs[1] = LeerDialfsCd /\ CasosDialfs[2] = LeerDialfsCd
         /\ CasosDialfs[3] = LeerDialfsTruncate
         /\ CasosDialfs[4] = LeerDialfsRw /\ CasosDialfs[5] = LeerDialfsRw
<1>1. PICK a \in Seq(PasosDeCaso) : a = LeerDialfsCd
  BY BienDialfsCd
<1>2. PICK b \in Seq(PasosDeCaso) : b = LeerDialfsTruncate
  BY BienDialfsTruncate
<1>3. PICK c \in Seq(PasosDeCaso) : c = LeerDialfsRw
  BY BienDialfsRw
<1>4. PICK S : S = Seq(PasosDeCaso)
  OBVIOUS
<1>5. a \in S /\ b \in S /\ c \in S
  BY <1>4
<1>6. CasosDialfs = <<a, a, b, c, c>>
  BY <1>1, <1>2, <1>3 DEF CasosDialfs
<1>7. <<a, a, b, c, c>> \in Seq(S)
  BY <1>5
<1>8. /\ DOMAIN <<a, a, b, c, c>> = 1 .. 5
      /\ <<a, a, b, c, c>>[1] = a /\ <<a, a, b, c, c>>[2] = a /\ <<a, a, b, c, c>>[3] = b
      /\ <<a, a, b, c, c>>[4] = c /\ <<a, a, b, c, c>>[5] = c
  OBVIOUS
<1>9. QED
  BY <1>1, <1>2, <1>3, <1>4, <1>6, <1>7, <1>8

LEMMA BienCasoDialfs ==
  ASSUME NEW f \in Formas
  PROVE  Bien(CasosDialfs[f.op], DatosDialfs(f), LargoDialfs(f))
<1>1. f.op = 1 \/ f.op = 2 \/ f.op = 3 \/ f.op = 4 \/ f.op = 5
  BY FormaTipo
<1>2. CASE f.op = 1 \/ f.op = 2
  <2>1. DatosDialfs(f) = EscribirDialfsCd(f) /\ LargoDialfs(f) = (4 + f.l1) + (4 + f.l2)
    BY <1>2 DEF DatosDialfs, LargoDialfs
  <2>2. CasosDialfs[f.op] = LeerDialfsCd
    BY <1>2, CasosDialfsTipo
  <2>3. QED
    BY <2>1, <2>2, BienDialfsCd
<1>3. CASE f.op = 3
  <2>1. DatosDialfs(f) = EscribirDialfsTruncate(f) /\ LargoDialfs(f) = ((4 + f.l1) + (4 + f.l2)) + 4
    BY <1>3 DEF DatosDialfs, LargoDialfs
  <2>2. CasosDialfs[f.op] = LeerDialfsTruncate
    BY <1>3, CasosDialfsTipo
  <2>3. QED
    BY <2>1, <2>2, BienDialfsTruncate
<1>4. CASE f.op = 4 \/ f.op = 5
  <2>1. DatosDialfs(f) = EscribirDialfsRw(f) /\ LargoDialfs(f) = ((4 + f.l1) + (4 + f.l2)) + 4 + TamanoFrames(f) + 4
    BY <1>4 DEF DatosDialfs, LargoDialfs
  <2>2. CasosDialfs[f.op] = LeerDialfsRw
    BY <1>4, CasosDialfsTipo
  <2>3. QED
    BY <2>1, <2>2, BienDialfsRw
<1>5. QED
  BY <1>1, <1>2, <1>3, <1>4

LEMMA TamanoDialfsEs ==
  ASSUME NEW f \in Formas
  PROVE  TamanoDialfs(f) = 4 + (4 + LargoDialfs(f))
<1>1. PICK l \in Nat : l = f.l1
  BY FormaTipo DEF Positivos
<1>2. PICK m \in Nat : m = f.l2
  BY FormaTipo DEF Positivos
<1>3. PICK t \in Nat : t = TamanoFrames(f)
  BY BienFrames, BienTipo
<1>4. f.op = 1 \/ f.op = 2 \/ f.op = 3 \/ f.op = 4 \/ f.op = 5
  BY FormaTipo
<1>5. CASE f.op = 1 \/ f.op = 2
  <2>1. TamanoDialfs(f) = 4 + 4 + (4 + l) + (4 + m) + 0
    BY <1>1, <1>2, <1>5 DEF TamanoDialfs
  <2>2. LargoDialfs(f) = (4 + l) + (4 + m)
    BY <1>1, <1>2, <1>5 DEF LargoDialfs
  <2>3. QED
    BY <2>1, <2>2
<1>6. CASE f.op = 3
  <2>1. TamanoDialfs(f) = 4 + 4 + (4 + l) + (4 + m) + 4
    BY <1>1, <1>2, <1>6 DEF TamanoDialfs
  <2>2. LargoDialfs(f) = ((4 + l) + (4 + m)) + 4
    BY <1>1, <1>2, <1>6 DEF LargoDialfs
  <2>3. QED
    BY <2>1, <2>2
<1>7. CASE f.op = 4 \/ f.op = 5
  <2>1. TamanoDialfs(f) = 4 + 4 + (4 + l) + (4 + m) + (4 + t + 4)
    BY <1>1, <1>2, <1>3, <1>7 DEF TamanoDialfs
  <2>2. LargoDialfs(f) = ((4 + l) + (4 + m)) + 4 + t + 4
    BY <1>1, <1>2, <1>3, <1>7 DEF LargoDialfs
  <2>3. QED
    BY <2>1, <2>2
<1>8. QED
  BY <1>4, <1>5, <1>6, <1>7

LEMMA BienDialfs ==
  ASSUME NEW f \in Formas
  PROVE  /\ Bien(LeerDialfs, EscribirDialfs(f), TamanoDialfs(f)) /\ TamanoDialfs(f) > 0
         /\ LeerDialfsDeSolicitud = LeerDialfs
<1>1. "pid" \in Campos /\ "operacion" \in Campos
  BY DEF Campos, Nombres
<1>2. PICK v \in 1 .. 5 : v = f.op
  BY FormaTipo
<1>3. PICK d : d = DatosDialfs(f)
  OBVIOUS
<1>4. PICK n : n = LargoDialfs(f)
  OBVIOUS
<1>5. Bien(CasosDialfs[v], d, n)
  BY <1>2, <1>3, <1>4, BienCasoDialfs
<1>6. v \in DOMAIN CasosDialfs /\ v \in Nat /\ CasosDialfs \in Seq(Seq(PasosDeCaso))
  BY CasosDialfsTipo
<1>7. Bien(LeeSegun("operacion", CasosDialfs), Numero("operacion", v) \o d, 4 + n)
  BY <1>1, <1>5, <1>6, BienSegun
<1>8. Bien(LeerDialfs, U32("pid") \o (Numero("operacion", v) \o d), 4 + (4 + n))
  BY <1>1, <1>7, Bien32, BienJunto DEF LeerDialfs
<1>9. U32("pid") \in Seq(Partes) /\ Numero("operacion", v) \in Seq(Partes) /\ d \in Seq(Partes) /\ n \in Nat
  BY <1>1, <1>5, <1>6, Bien32, Bien32Numero, BienTipo
<1>10. Bien(LeerDialfs, U32("pid") \o Numero("operacion", v) \o d, 4 + (4 + n))
  BY <1>8, <1>9, BienAsocia
<1>11. EscribirDialfs(f) = U32("pid") \o Numero("operacion", v) \o d
  BY <1>2, <1>3 DEF EscribirDialfs, DatosDialfs
<1>12. TamanoDialfs(f) = 4 + (4 + n) /\ 4 + (4 + n) > 0
  BY <1>4, <1>9, TamanoDialfsEs
<1>13. LeerDialfsDeSolicitud = LeerDialfs
  BY DEF LeerDialfsDeSolicitud, LeerDialfs
<1>14. QED
  BY <1>10, <1>11, <1>12, <1>13

LEMMA BienSolicitud ==
  ASSUME NEW f \in Formas, NEW p, NEW d, NEW n, Bien(p, d, n)
  PROVE  /\ Bien(LeerPcb \o LeeCadena("nombre_interfaz") \o p, Solicitud(f, d), TamanoPcb + (4 + f.l1) + n)
         /\ TamanoPcb + (4 + f.l1) + n > 0
<1>1. "nombre_interfaz" \in Campos
  BY DEF Campos, Nombres
<1>2. f.l1 \in Positivos
  BY FormaTipo
<1>3. Bien(LeeCadena("nombre_interfaz"), Cadena("nombre_interfaz", f.l1), 4 + f.l1)
  BY <1>1, <1>2, BienCadena
<1>4. Bien(LeerPcb \o LeeCadena("nombre_interfaz"), EscribirPcb \o Cadena("nombre_interfaz", f.l1), TamanoPcb + (4 + f.l1))
  BY <1>3, BienPcb, BienJunto
<1>5. Bien(LeerPcb \o LeeCadena("nombre_interfaz") \o p, Solicitud(f, d), TamanoPcb + (4 + f.l1) + n)
  BY <1>4, BienJunto DEF Solicitud
<1>6. n \in Nat
  BY BienTipo
<1>7. TamanoPcb + (4 + f.l1) + n > 0
  BY <1>2, <1>6, BienPcb DEF Positivos
<1>8. QED
  BY <1>5, <1>7

LEMMA BienSolicitudes ==
  ASSUME NEW f \in Formas
  PROVE  /\ Bien(LeerSolicitudGenerica, EscribirSolicitudGenerica(f), TamanoSolicitudGenerica(f)) /\ TamanoSolicitudGenerica(f) > 0
         /\ Bien(LeerSolicitudStdin, EscribirSolicitudStdin(f), TamanoSolicitudStdin(f)) /\ TamanoSolicitudStdin(f) > 0
         /\ Bien(LeerSolicitudStdout, EscribirSolicitudStdout(f), TamanoSolicitudStdout(f)) /\ TamanoSolicitudStdout(f) > 0
         /\ Bien(LeerSolicitudDialfs, EscribirSolicitudDialfs(f), TamanoSolicitudDialfs(f)) /\ TamanoSolicitudDialfs(f) > 0
<1>1. Bien(LeerSolicitudGenerica, EscribirSolicitudGenerica(f), TamanoSolicitudGenerica(f)) /\ TamanoSolicitudGenerica(f) > 0
  BY BienGenerica, BienSolicitud DEF LeerSolicitudGenerica, EscribirSolicitudGenerica, TamanoSolicitudGenerica
<1>2. Bien(LeerSolicitudStdin, EscribirSolicitudStdin(f), TamanoSolicitudStdin(f)) /\ TamanoSolicitudStdin(f) > 0
  BY BienFrames, BienSolicitud DEF LeerSolicitudStdin, EscribirSolicitudStdin, TamanoSolicitudStdin
<1>3. Bien(LeerSolicitudStdout, EscribirSolicitudStdout(f), TamanoSolicitudStdout(f)) /\ TamanoSolicitudStdout(f) > 0
  BY BienFrames, BienSolicitud DEF LeerSolicitudStdout, EscribirSolicitudStdout, TamanoSolicitudStdout
<1>4. Bien(LeerSolicitudDialfs, EscribirSolicitudDialfs(f), TamanoSolicitudDialfs(f)) /\ TamanoSolicitudDialfs(f) > 0
  BY BienDialfs, BienSolicitud DEF LeerSolicitudDialfs, EscribirSolicitudDialfs, TamanoSolicitudDialfs
<1>5. QED
  BY <1>1, <1>2, <1>3, <1>4

-----------------------------------------------------------------------------
(***************************************************************************)
(* Every message has a case in the thread that receives it, its size is    *)
(* that of its parts and the handler of its header reads these.            *)
(***************************************************************************)

\* Who asked for data reads it whole, and does not ask its size.
Pedido(pila, datos) ==
  /\ pila = LeerDato
  /\ datos \in Seq(Partes) /\ Len(datos) = 1 /\ datos[1].campo = "dato"

Lee(pila, datos) == Encajan(pila, datos) \/ Pedido(pila, datos)

Sano(c, m) ==
  /\ m.header \in DOMAIN Atiende[c]
  /\ m.tamano \in Nat /\ m.tamano > 0
  /\ m.partes \in Seq(Partes) /\ Bytes(m.partes) = m.tamano
  /\ Lee(Atiende[c][m.header], m.partes)

LEMMA MensajeEs ==
  ASSUME NEW h, NEW n, NEW d
  PROVE  Mensaje(h, n, d).header = h /\ Mensaje(h, n, d).tamano = n /\ Mensaje(h, n, d).partes = d
  BY DEF Mensaje

LEMMA SanoSi ==
  ASSUME NEW c, NEW h, NEW p, NEW d, NEW n, Bien(p, d, n), n > 0, h \in DOMAIN Atiende[c], Atiende[c][h] = p
  PROVE  Sano(c, Mensaje(h, n, d))
<1>1. d \in Seq(Partes) /\ n \in Nat /\ Bytes(d) = n /\ Encajan(p, d)
  BY BienTipo DEF Bien
<1>2. PICK m : m = Mensaje(h, n, d) /\ m.header = h /\ m.tamano = n /\ m.partes = d
  BY MensajeEs
<1>3. Sano(c, m)
  BY <1>1, <1>2 DEF Sano, Lee
<1>4. QED
  BY <1>2, <1>3

LEMMA AtiendeEs ==
  /\ Atiende["cpu_kernel"] = AtiendeKernelDispatch
  /\ Atiende["kernel_cpu"] = AtiendeCpuDispatch
  /\ Atiende["kernel_interrupt"] = AtiendeCpuInterrupt
  /\ Atiende["kernel_memoria"] = AtiendeMemoriaKernel
  /\ Atiende["cpu_memoria"] = AtiendeMemoriaCpu
  /\ Atiende["memoria_cpu"] = AtiendeCpuMemoria
  /\ Atiende["io_kernel"] = AtiendeKernelIo
  /\ Atiende["kernel_io"] = AtiendeIo
  /\ Atiende["io_memoria"] = AtiendeMemoriaIo
  /\ Atiende["memoria_io"] = AtiendeIoMemoria
  BY DEF Atiende

LEMMA EnviosSon ==
  /\ Envios["cpu_kernel"] = EnviosCpuKernel
  /\ Envios["kernel_cpu"] = {SendPcb("MSG_PCB_CPU")}
  /\ Envios["kernel_interrupt"] = {SendInterruption(h) : h \in {"MSG_QUANTUM", "MSG_KERNEL_CPU_EXIT"}}
  /\ Envios["kernel_memoria"] = {SendNewProcess(f) : f \in Formas} \cup {SendEndProcess}
  /\ Envios["cpu_memoria"] = {SendInit, SendNextInstruction, SendPage, SendResize, SendDataRead}
                               \cup {SendDataWrite(f) : f \in Formas}
  /\ Envios["memoria_cpu"] = {SendPageSize, SendFrame, SendResizeResponse}
                               \cup {SendInstruction(f) : f \in Formas} \cup {SendDato(f) : f \in Formas}
  /\ Envios["io_kernel"] = {SendInterfaz("MSG_IO_KERNEL", f) : f \in Formas}
                             \cup {SendResponse(h) : h \in {"MSG_IO_KERNEL_GENERICA", "MSG_IO_KERNEL_STDIN",
                                                            "MSG_IO_KERNEL_STDOUT", "MSG_IO_KERNEL_DIALFS"}}
  /\ Envios["kernel_io"] = EnviosKernelIo
  /\ Envios["io_memoria"] = {SendInterfaz("MSG_IO_MEMORIA", f) : f \in Formas}
                              \cup {SendDataRead} \cup {SendDataWrite(f) : f \in Formas}
  /\ Envios["memoria_io"] = {SendDato(f) : f \in Formas}
  BY DEF Envios

LEMMA ConexionesSon ==
  ASSUME NEW c \in Conexiones
  PROVE  \/ c = "cpu_kernel" \/ c = "kernel_cpu" \/ c = "kernel_interrupt" \/ c = "kernel_memoria"
         \/ c = "cpu_memoria" \/ c = "memoria_cpu" \/ c = "io_kernel" \/ c = "kernel_io"
         \/ c = "io_memoria" \/ c = "memoria_io"
  BY DEF Conexiones, Envios

LEMMA SanoCpuKernel == \A m \in EnviosCpuKernel : Sano("cpu_kernel", m)
<1>1. PICK A : A = Atiende["cpu_kernel"]
  OBVIOUS
<1>2. A = AtiendeKernelDispatch
  BY <1>1, AtiendeEs
<1>3. /\ \A h \in {"MSG_PCB_KERNEL_EXIT", "MSG_CPU_OUT_OF_MEMORY", "MSG_PCB_KERNEL_INTERRUPTION_QUANTUM",
                   "MSG_PCB_KERNEL_INTERRUPTION_FINISH_PROCESS"} : h \in DOMAIN A /\ A[h] = LeerPcb
      /\ \A h \in {"MSG_CPU_KERNEL_WAIT", "MSG_CPU_KERNEL_SIGNAL"} : h \in DOMAIN A /\ A[h] = LeerRecurso
      /\ "MSG_CPU_IO_GEN_SLEEP" \in DOMAIN A /\ A["MSG_CPU_IO_GEN_SLEEP"] = LeerSolicitudGenerica
      /\ "MSG_CPU_IO_STDIN_READ" \in DOMAIN A /\ A["MSG_CPU_IO_STDIN_READ"] = LeerSolicitudStdin
      /\ "MSG_CPU_IO_STDOUT_WRITE" \in DOMAIN A /\ A["MSG_CPU_IO_STDOUT_WRITE"] = LeerSolicitudStdout
      /\ "MSG_CPU_IO_DIALFS" \in DOMAIN A /\ A["MSG_CPU_IO_DIALFS"] = LeerSolicitudDialfs
  BY <1>2 DEF AtiendeKernelDispatch
<1>4. ASSUME NEW h \in {"MSG_PCB_KERNEL_EXIT", "MSG_CPU_OUT_OF_MEMORY", "MSG_PCB_KERNEL_INTERRUPTION_QUANTUM",
                        "MSG_PCB_KERNEL_INTERRUPTION_FINISH_PROCESS"}
      PROVE  Sano("cpu_kernel", SendPcb(h))
  <2>1. TamanoPcb > 0
    BY BienPcb
  <2>2. QED
    BY <1>1, <1>3, <2>1, BienPcb, SanoSi DEF SendPcb
<1>5. ASSUME NEW f \in Formas, NEW h \in {"MSG_CPU_KERNEL_WAIT", "MSG_CPU_KERNEL_SIGNAL"}
      PROVE  Sano("cpu_kernel", SendRecurso(h, f))
  BY <1>1, <1>3, BienRecurso, SanoSi DEF SendRecurso
<1>6. ASSUME NEW f \in Formas PROVE Sano("cpu_kernel", SendSolicitudGenerica(f))
  BY <1>1, <1>3, BienSolicitudes, SanoSi DEF SendSolicitudGenerica
<1>7. ASSUME NEW f \in Formas PROVE Sano("cpu_kernel", SendSolicitudStdin(f))
  BY <1>1, <1>3, BienSolicitudes, SanoSi DEF SendSolicitudStdin
<1>8. ASSUME NEW f \in Formas PROVE Sano("cpu_kernel", SendSolicitudStdout(f))
  BY <1>1, <1>3, BienSolicitudes, SanoSi DEF SendSolicitudStdout
<1>9. ASSUME NEW f \in Formas PROVE Sano("cpu_kernel", SendSolicitudDialfs(f))
  BY <1>1, <1>3, BienSolicitudes, SanoSi DEF SendSolicitudDialfs
<1>10. QED
  BY <1>4, <1>5, <1>6, <1>7, <1>8, <1>9 DEF EnviosCpuKernel

LEMMA SanoKernelCpu == Sano("kernel_cpu", SendPcb("MSG_PCB_CPU"))
<1>1. PICK A : A = Atiende["kernel_cpu"]
  OBVIOUS
<1>2. "MSG_PCB_CPU" \in DOMAIN A /\ A["MSG_PCB_CPU"] = LeerPcb
  BY <1>1, AtiendeEs DEF AtiendeCpuDispatch
<1>3. TamanoPcb > 0
  BY BienPcb
<1>4. QED
  BY <1>1, <1>2, <1>3, BienPcb, SanoSi DEF SendPcb

LEMMA SanoKernelInterrupt ==
  \A h \in {"MSG_QUANTUM", "MSG_KERNEL_CPU_EXIT"} : Sano("kernel_interrupt", SendInterruption(h))
<1>1. PICK A : A = Atiende["kernel_interrupt"]
  OBVIOUS
<1>2. \A h \in {"MSG_QUANTUM", "MSG_KERNEL_CPU_EXIT"} : h \in DOMAIN A /\ A[h] = LeerInterrupcion
  BY <1>1, AtiendeEs DEF AtiendeCpuInterrupt
<1>3. QED
  BY <1>1, <1>2, BienInterrupcion, SanoSi DEF SendInterruption

\* A number alone, of four bytes.
LEMMA SanoUno ==
  ASSUME NEW c, NEW h, NEW k \in Campos, h \in DOMAIN Atiende[c], Atiende[c][h] = Lee32(k)
  PROVE  Sano(c, Mensaje(h, 4, U32(k)))
<1>1. 4 > 0
  OBVIOUS
<1>2. QED
  BY <1>1, Bien32, SanoSi

LEMMA SanoKernelMemoria ==
  /\ \A f \in Formas : Sano("kernel_memoria", SendNewProcess(f))
  /\ Sano("kernel_memoria", SendEndProcess)
<1>1. PICK A : A = Atiende["kernel_memoria"]
  OBVIOUS
<1>2. /\ "MSG_KERNEL_CREATE_PROCESS" \in DOMAIN A /\ A["MSG_KERNEL_CREATE_PROCESS"] = LeerProceso
      /\ "MSG_KERNEL_END_PROCESS" \in DOMAIN A /\ A["MSG_KERNEL_END_PROCESS"] = Lee32("pid")
  BY <1>1, AtiendeEs DEF AtiendeMemoriaKernel
<1>3. "pid" \in Campos
  BY DEF Campos, Nombres
<1>4. ASSUME NEW f \in Formas PROVE Sano("kernel_memoria", SendNewProcess(f))
  BY <1>1, <1>2, BienProceso, SanoSi DEF SendNewProcess
<1>5. Sano("kernel_memoria", SendEndProcess)
  BY <1>1, <1>2, <1>3, SanoUno DEF SendEndProcess
<1>6. QED
  BY <1>4, <1>5

LEMMA BienDataRead ==
  Bien(LeerDataRead, U32s(<<"pid", "frame", "offset", "size_value">>), 4 * 4)
<1>1. "pid" \in Campos /\ "frame" \in Campos /\ "offset" \in Campos /\ "size_value" \in Campos
  BY DEF Campos, Nombres
<1>2. 4 * 4 = 16 /\ 0 \in Nat
  OBVIOUS
<1>3. QED
  BY <1>1, <1>2, BienCuatro DEF LeerDataRead

LEMMA BienDataWrite ==
  ASSUME NEW f \in Formas
  PROVE  /\ Bien(LeerDataWrite, U32s(<<"pid", "frame", "offset">>) \o Cadena("dato", f.l1), 4 * 4 + f.l1)
         /\ 4 * 4 + f.l1 > 0
<1>1. "pid" \in Campos /\ "frame" \in Campos /\ "offset" \in Campos /\ "dato" \in Campos
  BY DEF Campos, Nombres
<1>2. f.l1 \in Positivos
  BY FormaTipo
<1>3. Bien(LeerDataWrite, U32s(<<"pid", "frame", "offset">>) \o Cadena("dato", f.l1), 12 + (4 + f.l1))
  BY <1>1, <1>2, BienTres, BienCadena, BienJunto DEF LeerDataWrite
<1>4. 12 + (4 + f.l1) = 4 * 4 + f.l1 /\ 4 * 4 + f.l1 > 0
  BY <1>2 DEF Positivos
<1>5. QED
  BY <1>3, <1>4

LEMMA SanoDatos ==
  ASSUME NEW c, NEW A, A = Atiende[c],
         "MSG_GENERIC_MEMORIA_DATA_READ" \in DOMAIN A, A["MSG_GENERIC_MEMORIA_DATA_READ"] = LeerDataRead,
         "MSG_GENERIC_MEMORIA_DATA_WRITE" \in DOMAIN A, A["MSG_GENERIC_MEMORIA_DATA_WRITE"] = LeerDataWrite
  PROVE  Sano(c, SendDataRead) /\ \A f \in Formas : Sano(c, SendDataWrite(f))
<1>1. 4 * 4 > 0
  OBVIOUS
<1>2. Sano(c, SendDataRead)
  BY <1>1, BienDataRead, SanoSi DEF SendDataRead
<1>3. ASSUME NEW f \in Formas PROVE Sano(c, SendDataWrite(f))
  BY BienDataWrite, SanoSi DEF SendDataWrite
<1>4. QED
  BY <1>2, <1>3

\* Two numbers of four bytes.
LEMMA SanoDos ==
  ASSUME NEW c, NEW h, NEW a \in Campos, NEW b \in Campos, h \in DOMAIN Atiende[c], Atiende[c][h] = Lee32s(<<a, b>>)
  PROVE  Sano(c, Mensaje(h, 4 * 2, U32s(<<a, b>>)))
<1>1. 4 * 2 = 8 /\ 4 * 2 > 0
  OBVIOUS
<1>2. Bien(Lee32s(<<a, b>>), U32s(<<a, b>>), 4 * 2)
  BY <1>1, BienDos
<1>3. QED
  BY <1>1, <1>2, SanoSi

LEMMA SanoCpuMemoria ==
  \A m \in Envios["cpu_memoria"] : Sano("cpu_memoria", m)
<1>1. PICK A : A = Atiende["cpu_memoria"]
  OBVIOUS
<1>2. /\ "MSG_NEXT_INSTRUCTION_CPU" \in DOMAIN A /\ A["MSG_NEXT_INSTRUCTION_CPU"] = LeerSiguiente
      /\ "MSG_CPU_MEMORIA_INIT" \in DOMAIN A /\ A["MSG_CPU_MEMORIA_INIT"] = Lee32("handshake")
      /\ "MSG_CPU_MEMORIA_PAGE" \in DOMAIN A /\ A["MSG_CPU_MEMORIA_PAGE"] = Lee32s(<<"pid", "page">>)
      /\ "MSG_CPU_MEMORIA_RESIZE" \in DOMAIN A /\ A["MSG_CPU_MEMORIA_RESIZE"] = Lee32s(<<"pid", "new_size">>)
      /\ "MSG_GENERIC_MEMORIA_DATA_READ" \in DOMAIN A /\ A["MSG_GENERIC_MEMORIA_DATA_READ"] = LeerDataRead
      /\ "MSG_GENERIC_MEMORIA_DATA_WRITE" \in DOMAIN A /\ A["MSG_GENERIC_MEMORIA_DATA_WRITE"] = LeerDataWrite
  BY <1>1, AtiendeEs DEF AtiendeMemoriaCpu
<1>3. "handshake" \in Campos /\ "pid" \in Campos /\ "page" \in Campos /\ "new_size" \in Campos
  BY DEF Campos, Nombres
<1>4. Sano("cpu_memoria", SendInit)
  BY <1>1, <1>2, <1>3, SanoUno DEF SendInit
<1>5. Sano("cpu_memoria", SendNextInstruction)
  BY <1>1, <1>2, BienSiguiente, SanoSi DEF SendNextInstruction
<1>6. Sano("cpu_memoria", SendPage)
  BY <1>1, <1>2, <1>3, SanoDos DEF SendPage
<1>7. Sano("cpu_memoria", SendResize)
  BY <1>1, <1>2, <1>3, SanoDos DEF SendResize
<1>8. Sano("cpu_memoria", SendDataRead) /\ \A f \in Formas : Sano("cpu_memoria", SendDataWrite(f))
  BY <1>1, <1>2, SanoDatos
<1>9. QED
  BY <1>4, <1>5, <1>6, <1>7, <1>8, EnviosSon

\* The data somebody asked for.
LEMMA SanoDato ==
  ASSUME NEW c, NEW A, A = Atiende[c], "MSG_MEMORIA_GENERIC_DATA_READ" \in DOMAIN A,
         A["MSG_MEMORIA_GENERIC_DATA_READ"] = LeerDato, NEW f \in Formas
  PROVE  Sano(c, SendDato(f))
<1>1. PICK l \in Nat : l = f.l1 /\ l > 0 /\ l \in Positivos
  BY FormaTipo DEF Positivos
<1>2. "dato" \in Campos
  BY DEF Campos, Nombres
<1>3. PICK p \in Partes : p = Parte("dato", l, 0) /\ p.campo = "dato" /\ p.ancho = l
  BY <1>1, <1>2, UnFijo
<1>4. PICK d : d = <<p>>
  OBVIOUS
<1>5. d \in Seq(Partes) /\ Bytes(d) = l
  BY <1>3, <1>4, BytesDeUna
<1>6. Len(d) = 1 /\ d[1] = p
  BY <1>4
<1>7. Pedido(LeerDato, d)
  BY <1>3, <1>5, <1>6 DEF Pedido
<1>8. PICK m : m = SendDato(f)
  OBVIOUS
<1>9. m.header = "MSG_MEMORIA_GENERIC_DATA_READ" /\ m.tamano = l /\ m.partes = d
  BY <1>1, <1>3, <1>4, <1>8 DEF SendDato, Mensaje
<1>10. Sano(c, m)
  BY <1>1, <1>5, <1>7, <1>9 DEF Sano, Lee
<1>11. QED
  BY <1>8, <1>10

LEMMA SanoMemoriaCpu ==
  \A m \in Envios["memoria_cpu"] : Sano("memoria_cpu", m)
<1>1. PICK A : A = Atiende["memoria_cpu"]
  OBVIOUS
<1>2. /\ "MSG_INSTRUCTION_MEMORIA" \in DOMAIN A /\ A["MSG_INSTRUCTION_MEMORIA"] = LeerInstruccion
      /\ "MSG_MEMORIA_CPU_INIT" \in DOMAIN A /\ A["MSG_MEMORIA_CPU_INIT"] = Lee32("page_size")
      /\ "MSG_MEMORIA_CPU_FRAME" \in DOMAIN A /\ A["MSG_MEMORIA_CPU_FRAME"] = Lee32("frame")
      /\ "MSG_MEMORIA_CPU_RESIZE" \in DOMAIN A /\ A["MSG_MEMORIA_CPU_RESIZE"] = Lee8("resize_response")
      /\ "MSG_MEMORIA_GENERIC_DATA_READ" \in DOMAIN A /\ A["MSG_MEMORIA_GENERIC_DATA_READ"] = LeerDato
  BY <1>1, AtiendeEs DEF AtiendeCpuMemoria
<1>3. "page_size" \in Campos /\ "frame" \in Campos /\ "resize_response" \in Campos
  BY DEF Campos, Nombres
<1>4. Sano("memoria_cpu", SendPageSize)
  BY <1>1, <1>2, <1>3, SanoUno DEF SendPageSize
<1>5. Sano("memoria_cpu", SendFrame)
  BY <1>1, <1>2, <1>3, SanoUno DEF SendFrame
<1>6. Sano("memoria_cpu", SendResizeResponse)
  <2>1. 1 > 0
    OBVIOUS
  <2>2. QED
    BY <1>1, <1>2, <1>3, <2>1, Bien8, SanoSi DEF SendResizeResponse
<1>7. ASSUME NEW f \in Formas PROVE Sano("memoria_cpu", SendInstruction(f))
  BY <1>1, <1>2, BienInstruccion, SanoSi DEF SendInstruction
<1>8. ASSUME NEW f \in Formas PROVE Sano("memoria_cpu", SendDato(f))
  BY <1>1, <1>2, SanoDato
<1>9. QED
  BY <1>4, <1>5, <1>6, <1>7, <1>8, EnviosSon

LEMMA SanoIoKernel ==
  \A m \in Envios["io_kernel"] : Sano("io_kernel", m)
<1>1. PICK A : A = Atiende["io_kernel"]
  OBVIOUS
<1>2. /\ "MSG_IO_KERNEL" \in DOMAIN A /\ A["MSG_IO_KERNEL"] = LeerInterfaz
      /\ \A h \in {"MSG_IO_KERNEL_GENERICA", "MSG_IO_KERNEL_STDIN", "MSG_IO_KERNEL_STDOUT", "MSG_IO_KERNEL_DIALFS"} :
           h \in DOMAIN A /\ A[h] = LeerRespuesta
  BY <1>1, AtiendeEs DEF AtiendeKernelIo
<1>3. ASSUME NEW f \in Formas PROVE Sano("io_kernel", SendInterfaz("MSG_IO_KERNEL", f))
  BY <1>1, <1>2, BienInterfaz, SanoSi DEF SendInterfaz
<1>4. ASSUME NEW h \in {"MSG_IO_KERNEL_GENERICA", "MSG_IO_KERNEL_STDIN", "MSG_IO_KERNEL_STDOUT", "MSG_IO_KERNEL_DIALFS"}
      PROVE  Sano("io_kernel", SendResponse(h))
  BY <1>1, <1>2, BienRespuesta, SanoSi DEF SendResponse
<1>5. QED
  BY <1>3, <1>4, EnviosSon

LEMMA SanoKernelIo == \A m \in EnviosKernelIo : Sano("kernel_io", m)
<1>1. PICK A : A = Atiende["kernel_io"]
  OBVIOUS
<1>2. /\ "MSG_KERNEL_IO_GENERICA" \in DOMAIN A /\ A["MSG_KERNEL_IO_GENERICA"] = LeerGenerica
      /\ "MSG_KERNEL_IO_STDIN" \in DOMAIN A /\ A["MSG_KERNEL_IO_STDIN"] = LeerFrames
      /\ "MSG_KERNEL_IO_STDOUT" \in DOMAIN A /\ A["MSG_KERNEL_IO_STDOUT"] = LeerFrames
      /\ "MSG_KERNEL_IO_DIALFS" \in DOMAIN A /\ A["MSG_KERNEL_IO_DIALFS"] = LeerDialfs
  BY <1>1, AtiendeEs DEF AtiendeIo
<1>3. ASSUME NEW f \in Formas
      PROVE  Sano("kernel_io", SendIoGenerica(f)) /\ Sano("kernel_io", SendIoStdin(f))
  BY <1>1, <1>2, BienGenerica, BienFrames, SanoSi DEF SendIoGenerica, SendIoStdin
<1>4. ASSUME NEW f \in Formas
      PROVE  Sano("kernel_io", SendIoStdout(f)) /\ Sano("kernel_io", SendIoDialfs(f))
  BY <1>1, <1>2, BienFrames, BienDialfs, SanoSi DEF SendIoStdout, SendIoDialfs
<1>5. QED
  BY <1>3, <1>4 DEF EnviosKernelIo

LEMMA SanoIoMemoria ==
  \A m \in Envios["io_memoria"] : Sano("io_memoria", m)
<1>1. PICK A : A = Atiende["io_memoria"]
  OBVIOUS
<1>2. /\ "MSG_IO_MEMORIA" \in DOMAIN A /\ A["MSG_IO_MEMORIA"] = LeerInterfaz
      /\ "MSG_GENERIC_MEMORIA_DATA_READ" \in DOMAIN A /\ A["MSG_GENERIC_MEMORIA_DATA_READ"] = LeerDataRead
      /\ "MSG_GENERIC_MEMORIA_DATA_WRITE" \in DOMAIN A /\ A["MSG_GENERIC_MEMORIA_DATA_WRITE"] = LeerDataWrite
  BY <1>1, AtiendeEs DEF AtiendeMemoriaIo
<1>3. ASSUME NEW f \in Formas PROVE Sano("io_memoria", SendInterfaz("MSG_IO_MEMORIA", f))
  BY <1>1, <1>2, BienInterfaz, SanoSi DEF SendInterfaz
<1>4. Sano("io_memoria", SendDataRead) /\ \A f \in Formas : Sano("io_memoria", SendDataWrite(f))
  BY <1>1, <1>2, SanoDatos
<1>5. QED
  BY <1>3, <1>4, EnviosSon

LEMMA SanoMemoriaIo == \A m \in Envios["memoria_io"] : Sano("memoria_io", m)
<1>1. PICK A : A = Atiende["memoria_io"]
  OBVIOUS
<1>2. "MSG_MEMORIA_GENERIC_DATA_READ" \in DOMAIN A /\ A["MSG_MEMORIA_GENERIC_DATA_READ"] = LeerDato
  BY <1>1, AtiendeEs DEF AtiendeIoMemoria
<1>3. ASSUME NEW f \in Formas PROVE Sano("memoria_io", SendDato(f))
  BY <1>1, <1>2, SanoDato
<1>4. QED
  BY <1>3, EnviosSon

\* Every message of every connection is in order.
LEMMA TodosSanos ==
  ASSUME NEW c \in Conexiones, NEW m \in Envios[c]
  PROVE  Sano(c, m)
<1>1. CASE c = "cpu_kernel"
  BY <1>1, EnviosSon, SanoCpuKernel
<1>2. CASE c = "kernel_cpu"
  BY <1>2, EnviosSon, SanoKernelCpu
<1>3. CASE c = "kernel_interrupt"
  BY <1>3, EnviosSon, SanoKernelInterrupt
<1>4. CASE c = "kernel_memoria"
  BY <1>4, EnviosSon, SanoKernelMemoria
<1>5. CASE c = "cpu_memoria"
  BY <1>5, SanoCpuMemoria
<1>6. CASE c = "memoria_cpu"
  BY <1>6, SanoMemoriaCpu
<1>7. CASE c = "io_kernel"
  BY <1>7, SanoIoKernel
<1>8. CASE c = "kernel_io"
  BY <1>8, EnviosSon, SanoKernelIo
<1>9. CASE c = "io_memoria"
  BY <1>9, SanoIoMemoria
<1>10. CASE c = "memoria_io"
  BY <1>10, SanoMemoriaIo
<1>11. QED
  BY <1>1, <1>2, <1>3, <1>4, <1>5, <1>6, <1>7, <1>8, <1>9, <1>10, ConexionesSon

-----------------------------------------------------------------------------
(***************************************************************************)
(* The buffer: when the announced size is that of the parts, every add     *)
(* fits and nothing is left over.                                          *)
(***************************************************************************)
Llena(m, f, n) ==
  f = [k \in 0 .. n |->
         IF k = 0 THEN [size |-> m.tamano, partes |-> <<>>] ELSE BufferAdd(f[k - 1], m.partes[k])]

LEMMA LlenaUna ==
  ASSUME NEW m, NEW f, NEW n \in Nat, Llena(m, f, n), NEW k \in 0 .. n
  PROVE  f[k] = IF k = 0 THEN [size |-> m.tamano, partes |-> <<>>] ELSE BufferAdd(f[k - 1], m.partes[k])
<1>1. f = [j \in 0 .. n |->
             IF j = 0 THEN [size |-> m.tamano, partes |-> <<>>] ELSE BufferAdd(f[j - 1], m.partes[j])]
  BY DEF Llena
<1>2. [j \in 0 .. n |->
         IF j = 0 THEN [size |-> m.tamano, partes |-> <<>>] ELSE BufferAdd(f[j - 1], m.partes[j])][k]
        = IF k = 0 THEN [size |-> m.tamano, partes |-> <<>>] ELSE BufferAdd(f[k - 1], m.partes[k])
  OBVIOUS
<1>3. QED
  BY <1>1, <1>2

LEMMA LlenaDefine ==
  ASSUME NEW m, NEW n \in Nat, NEW g, g = [k \in 0 .. n |-> g[k]],
         \A k \in 0 .. n : g[k] = IF k = 0 THEN [size |-> m.tamano, partes |-> <<>>]
                                  ELSE BufferAdd(g[k - 1], m.partes[k])
  PROVE  Llena(m, g, n)
  BY DEF Llena

Lleno(m, k) == [size |-> m.tamano, partes |-> SubSeq(m.partes, 1, k)]

LEMMA CabeUno ==
  ASSUME NEW m, m.partes \in Seq(Partes), Bytes(m.partes) = m.tamano, NEW k \in Nat, k < Len(m.partes)
  PROVE  BufferAdd(Lleno(m, k), m.partes[k + 1]) = Lleno(m, k + 1)
<1>1. PICK q \in Seq(Partes) : q = m.partes
  OBVIOUS
<1>2. PICK p \in Partes : p = q[k + 1]
  <2>1. k + 1 \in 1 .. Len(q)
    BY <1>1, LenProperties
  <2>2. QED
    BY <2>1, ElementOfSeq
<1>3. PICK s \in Seq(Partes) : s = SubSeq(q, 1, k)
  BY <1>1, BytesDelPrincipio
<1>4. PICK b : b = Lleno(m, k)
  OBVIOUS
<1>5. b.size = m.tamano /\ b.partes = s /\ b = [size |-> m.tamano, partes |-> s]
  BY <1>1, <1>3, <1>4 DEF Lleno
<1>6. Bytes(s) + p.ancho <= m.tamano
  <2>1. Bytes(SubSeq(q, 1, k + 1)) = Bytes(s) + p.ancho /\ Bytes(SubSeq(q, 1, k + 1)) <= Bytes(q)
    BY <1>1, <1>2, <1>3, BytesDelPrincipio
  <2>2. QED
    BY <1>1, <2>1
<1>7. BufferAdd(b, p) = [b EXCEPT !.partes = Append(@, p)]
  BY <1>5, <1>6 DEF BufferAdd
<1>8. [b EXCEPT !.partes = Append(@, p)] = [size |-> m.tamano, partes |-> Append(s, p)]
  <2>1. PICK t : t = m.tamano
    OBVIOUS
  <2>2. PICK a : a = Append(s, p)
    OBVIOUS
  <2>3. b = [size |-> t, partes |-> s]
    BY <1>5, <2>1
  <2>4. [b EXCEPT !.partes = a] = [size |-> t, partes |-> a]
    BY <2>3
  <2>5. [b EXCEPT !.partes = Append(@, p)] = [b EXCEPT !.partes = Append(b.partes, p)]
    OBVIOUS
  <2>6. QED
    BY <1>5, <2>1, <2>2, <2>4, <2>5
<1>9. Append(s, p) = SubSeq(q, 1, k + 1)
  <2>1. PICK n \in Nat : n = Len(q)
    BY LenProperties
  <2>2. 1 \in 1 .. Len(q) /\ k + 1 \in 1 .. Len(q) /\ (k + 1) - 1 = k
    BY <1>1, <2>1
  <2>3. SubSeq(q, 1, k + 1) = SubSeq(q, 1, k) \o <<q[k + 1]>>
    BY <2>2, SubSeqRecursiveSecond
  <2>4. Append(s, p) = s \o <<p>>
    BY AppendIsConcat
  <2>5. QED
    BY <1>2, <1>3, <2>3, <2>4
<1>10. Lleno(m, k + 1) = [size |-> m.tamano, partes |-> SubSeq(q, 1, k + 1)]
  BY <1>1 DEF Lleno
<1>11. QED
  BY <1>1, <1>2, <1>4, <1>7, <1>8, <1>9, <1>10

LEMMA LlenaEs ==
  ASSUME NEW m, m.partes \in Seq(Partes), Bytes(m.partes) = m.tamano, NEW n \in Nat, n = Len(m.partes),
         NEW f, Llena(m, f, n)
  PROVE  \A k \in 0 .. n : f[k] = Lleno(m, k)
<1> DEFINE M == {k \in 0 .. n : f[k] # Lleno(m, k)}
<1>1. SUFFICES ASSUME M # {} PROVE FALSE
  OBVIOUS
<1>2. PICK k \in M : \A j \in M : k <= j
  <2>1. M \subseteq Nat
    OBVIOUS
  <2>2. QED
    BY <1>1, <2>1, MenorNatural
<1>3. k \in 0 .. n /\ f[k] # Lleno(m, k)
  OBVIOUS
<1>4. f[k] = IF k = 0 THEN [size |-> m.tamano, partes |-> <<>>] ELSE BufferAdd(f[k - 1], m.partes[k])
  BY <1>3, LlenaUna
<1>5. k # 0
  <2>1. SubSeq(m.partes, 1, 0) = <<>>
    BY SubSeqEmpty
  <2>2. Lleno(m, 0) = [size |-> m.tamano, partes |-> <<>>]
    BY <2>1 DEF Lleno
  <2>3. QED
    BY <1>3, <1>4, <2>2
<1>6. PICK j \in Nat : k = j + 1 /\ k - 1 = j /\ j \in 0 .. n /\ ~ (k <= j) /\ j < n
  BY <1>3, <1>5
<1>7. f[j] = Lleno(m, j)
  BY <1>2, <1>6
<1>8. BufferAdd(Lleno(m, j), m.partes[j + 1]) = Lleno(m, j + 1)
  BY <1>6, CabeUno
<1>9. QED
  BY <1>3, <1>4, <1>5, <1>6, <1>7, <1>8

LoAgregado(m, tras) ==
  tras[Len(m.partes)].partes \o
    IF m.tamano - Bytes(tras[Len(m.partes)].partes) > 0
    THEN <<Parte("sin_inicializar", m.tamano - Bytes(tras[Len(m.partes)].partes), 0)>> ELSE <<>>

LEMMA SerializadoEs ==
  ASSUME NEW m, m.partes \in Seq(Partes), Bytes(m.partes) = m.tamano
  PROVE  Serializado(m) = m.partes
<1>1. PICK n \in Nat : n = Len(m.partes)
  BY LenProperties
<1>2. PICK f : f = (CHOOSE h : Llena(m, h, n))
  OBVIOUS
<1>3. Llena(m, f, n)
  <2>1. PICK g : g = [k \in 0 .. n |-> Lleno(m, k)]
    OBVIOUS
  <2>2. g = [k \in 0 .. n |-> g[k]]
    BY <2>1
  <2>3. ASSUME NEW k \in 0 .. n
        PROVE  g[k] = IF k = 0 THEN [size |-> m.tamano, partes |-> <<>>] ELSE BufferAdd(g[k - 1], m.partes[k])
    <3>1. CASE k = 0
      <4>1. SubSeq(m.partes, 1, 0) = <<>>
        BY SubSeqEmpty
      <4>2. g[k] = Lleno(m, 0)
        BY <2>1, <3>1
      <4>3. QED
        BY <3>1, <4>1, <4>2 DEF Lleno
    <3>2. CASE k # 0
      <4>1. PICK j \in Nat : k = j + 1 /\ k - 1 = j /\ j \in 0 .. n /\ j < n
        BY <3>2
      <4>2. g[j] = Lleno(m, j) /\ g[k] = Lleno(m, k)
        BY <2>1, <4>1
      <4>3. BufferAdd(Lleno(m, j), m.partes[j + 1]) = Lleno(m, j + 1)
        BY <1>1, <4>1, CabeUno
      <4>4. QED
        BY <3>2, <4>1, <4>2, <4>3
    <3>3. QED
      BY <3>1, <3>2
  <2>4. Llena(m, g, n)
    BY <2>2, <2>3, LlenaDefine
  <2>5. QED
    BY <1>2, <2>4
<1>4. f[n] = Lleno(m, n)
  BY <1>1, <1>3, LlenaEs
<1>5. Lleno(m, n).partes = m.partes
  BY <1>1, SubSeqFull DEF Lleno
<1>6. PICK b : b = f[n]
  OBVIOUS
<1>7. b.partes = m.partes
  BY <1>4, <1>5, <1>6
<1>8. f = (CHOOSE h : h = [k \in 0 .. Len(m.partes) |->
               IF k = 0 THEN [size |-> m.tamano, partes |-> <<>>] ELSE BufferAdd(h[k - 1], m.partes[k])])
  BY <1>1, <1>2 DEF Llena
<1>9. Serializado(m) = LoAgregado(m, f)
  <2>1. Serializado(m) = LoAgregado(m, CHOOSE h : h = [k \in 0 .. Len(m.partes) |->
               IF k = 0 THEN [size |-> m.tamano, partes |-> <<>>] ELSE BufferAdd(h[k - 1], m.partes[k])])
    BY Zenon DEF Serializado, LoAgregado
  <2>2. QED
    BY <1>8, <2>1
<1>10. Serializado(m) = b.partes \o
        IF m.tamano - Bytes(b.partes) > 0
        THEN <<Parte("sin_inicializar", m.tamano - Bytes(b.partes), 0)>> ELSE <<>>
  BY <1>1, <1>6, <1>9 DEF LoAgregado
<1>11. PICK t \in Nat : t = m.tamano /\ ~ (t - t > 0)
  BY BytesNat
<1>12. Serializado(m) = m.partes \o <<>>
  BY <1>7, <1>10, <1>11
<1>13. QED
  BY <1>12, ConcatEmptySeq

-----------------------------------------------------------------------------
(***************************************************************************)
(* The socket: reading as many bytes as some parts have takes just these.  *)
(***************************************************************************)
LEMMA PrimerasEs ==
  ASSUME NEW q \in Seq(Partes), NEW r \in Seq(Partes), NEW n \in Nat, n = Bytes(q)
  PROVE  Primeras(q \o r, n) = Len(q)
<1>1. PICK s \in Seq(Partes) : s = q \o r
  BY ConcatProperties
<1>2. PICK l \in Nat : l = Len(q)
  BY LenProperties
<1>3. PICK t \in Nat : t = Len(s) /\ l <= t
  <2>1. Len(s) = Len(q) + Len(r) /\ Len(r) \in Nat
    BY <1>1, ConcatProperties, LenProperties
  <2>2. QED
    BY <1>2, <2>1
<1>4. ASSUME NEW k \in Nat, k <= l PROVE SubSeq(s, 1, k) = SubSeq(q, 1, k)
  <2>1. CASE k = 0
    BY <2>1, SubSeqEmpty
  <2>2. CASE k # 0
    <3>1. 1 \in 1 .. Len(q) /\ k \in 1 .. Len(q)
      BY <1>2, <1>4, <2>2
    <3>2. QED
      BY <1>1, <3>1, SubSeqOfConcat1
  <2>3. QED
    BY <2>1, <2>2
<1>5. Bytes(SubSeq(s, 1, l)) = n
  <2>1. l <= l
    OBVIOUS
  <2>2. SubSeq(s, 1, l) = SubSeq(q, 1, l)
    BY <1>4, <2>1
  <2>3. QED
    BY <1>2, <2>2, SubSeqFull
<1>6. ASSUME NEW j \in Nat, j < l PROVE Bytes(SubSeq(s, 1, j)) < n /\ Bytes(SubSeq(s, 1, j)) \in Nat
  <2>1. SubSeq(s, 1, j) = SubSeq(q, 1, j)
    BY <1>2, <1>4, <1>6
  <2>2. Bytes(SubSeq(q, 1, j)) < Bytes(q) /\ Bytes(SubSeq(q, 1, j)) \in Nat
    BY <1>2, <1>6, BytesDelPrincipio
  <2>3. QED
    BY <2>1, <2>2
<1> DEFINE Es(k) == Bytes(SubSeq(s, 1, k)) >= n /\ \A j \in 0 .. (k - 1) : Bytes(SubSeq(s, 1, j)) < n
<1>7. Es(l) /\ l \in 0 .. t
  BY <1>2, <1>3, <1>5, <1>6
<1>8. ASSUME NEW k \in 0 .. t, Es(k) PROVE k = l
  <2>1. CASE k < l
    <3>1. Bytes(SubSeq(s, 1, k)) < n /\ Bytes(SubSeq(s, 1, k)) \in Nat
      BY <1>6, <2>1
    <3>2. Bytes(SubSeq(s, 1, k)) >= n
      BY <1>8
    <3>3. QED
      BY <3>1, <3>2
  <2>2. CASE l < k
    <3>1. l \in 0 .. (k - 1)
      BY <2>2
    <3>2. Bytes(SubSeq(s, 1, l)) < n
      BY <1>8, <3>1
    <3>3. QED
      BY <1>5, <3>2
  <2>3. QED
    BY <1>2, <1>3, <2>1, <2>2
<1>9. Primeras(s, n) = CHOOSE k \in 0 .. t : Es(k)
  BY <1>3 DEF Primeras
<1> HIDE DEF Es
<1>10. (CHOOSE k \in 0 .. t : Es(k)) = l
  BY <1>7, <1>8
<1>11. QED
  BY <1>1, <1>2, <1>9, <1>10

LEMMA PartirJunta ==
  ASSUME NEW S, NEW q \in Seq(S), NEW r \in Seq(S)
  PROVE  SubSeq(q \o r, 1, Len(q)) = q /\ SubSeq(q \o r, Len(q) + 1, Len(q \o r)) = r
<1>1. PICK a \in Nat, b \in Nat : a = Len(q) /\ b = Len(r)
  BY LenProperties
<1>2. PICK s \in Seq(S) : s = q \o r
  BY ConcatProperties
<1>3. PICK t \in Nat : t = Len(s) /\ t = a + b
  BY <1>1, <1>2, ConcatProperties
<1>4. \A i \in 1 .. t : s[i] = IF i <= a THEN q[i] ELSE r[i - a]
  BY <1>1, <1>2, <1>3, ConcatProperties
<1>5. \A i \in 1 .. t : s[i] \in S
  BY <1>3, ElementOfSeq
<1>6. SubSeq(s, 1, a) = q
  <2>1. PICK x : x = SubSeq(s, 1, a)
    OBVIOUS
  <2>2. x \in Seq(S) /\ Len(x) = a /\ \A i \in 1 .. a : x[i] = s[i]
    <3>1. \A i \in 1 .. a : s[i] \in S
      BY <1>3, <1>5
    <3>2. 1 \in Int /\ a \in Int /\ (IF 1 <= a THEN a - 1 + 1 ELSE 0) = a /\ a - 1 + 1 = a
      OBVIOUS
    <3>3. /\ x \in Seq(S) /\ Len(x) = IF 1 <= a THEN a - 1 + 1 ELSE 0
          /\ \A i \in 1 .. a - 1 + 1 : x[i] = s[1 + i - 1]
      BY <2>1, <3>1, <3>2, SubSeqProperties
    <3>4. \A i \in 1 .. a : 1 + i - 1 = i
      OBVIOUS
    <3>5. QED
      BY <3>2, <3>3, <3>4
  <2>3. \A i \in 1 .. a : x[i] = q[i]
    BY <1>3, <1>4, <2>2
  <2>4. x = q
    BY <1>1, <2>2, <2>3, SeqEqual
  <2>5. QED
    BY <2>1, <2>4
<1>7. SubSeq(s, a + 1, t) = r
  <2>1. PICK x : x = SubSeq(s, a + 1, t)
    OBVIOUS
  <2>2. x \in Seq(S) /\ Len(x) = b /\ \A i \in 1 .. b : x[i] = s[a + i]
    <3>1. \A i \in (a + 1) .. t : s[i] \in S
      BY <1>3, <1>5
    <3>2. a + 1 \in Int /\ t \in Int /\ (IF a + 1 <= t THEN t - (a + 1) + 1 ELSE 0) = b /\ t - (a + 1) + 1 = b
      BY <1>3
    <3>3. /\ x \in Seq(S) /\ Len(x) = IF a + 1 <= t THEN t - (a + 1) + 1 ELSE 0
          /\ \A i \in 1 .. t - (a + 1) + 1 : x[i] = s[(a + 1) + i - 1]
      BY <2>1, <3>1, <3>2, SubSeqProperties
    <3>4. \A i \in 1 .. b : (a + 1) + i - 1 = a + i
      OBVIOUS
    <3>5. QED
      BY <3>2, <3>3, <3>4
  <2>3. ASSUME NEW i \in 1 .. b PROVE x[i] = r[i]
    <3>1. PICK j \in 1 .. t : j = a + i /\ ~ (j <= a) /\ j - a = i
      BY <1>3
    <3>2. s[j] = r[i]
      BY <1>4, <3>1
    <3>3. QED
      BY <2>2, <3>1, <3>2
  <2>4. x = r
    BY <1>1, <2>2, <2>3, SeqEqual
  <2>5. QED
    BY <2>1, <2>4
<1>8. QED
  BY <1>1, <1>2, <1>3, <1>6, <1>7

LEMMA RecibeElBuffer ==
  ASSUME NEW q \in Seq(Partes), NEW r \in Seq(Partes)
  PROVE  RecvBuffer(q \o r, Bytes(q)).datos = q /\ RecvBuffer(q \o r, Bytes(q)).canal = r
<1>1. Primeras(q \o r, Bytes(q)) = Len(q)
  BY BytesNat, PrimerasEs
<1>2. RecvBuffer(q \o r, Bytes(q)) =
        [datos |-> SubSeq(q \o r, 1, Len(q)), canal |-> SubSeq(q \o r, Len(q) + 1, Len(q \o r))]
  BY <1>1, Zenon DEF RecvBuffer
<1>3. QED
  BY <1>2, PartirJunta

\* Reading the whole first part leaves the others.
LEMMA DespuesDeUna ==
  ASSUME NEW d \in Seq(Partes), d # <<>>
  PROVE  Despues(d, Head(d).ancho) = Tail(d) /\ Head(d).ancho <= Bytes(d)
<1>1. PICK p \in Partes, r \in Seq(Partes) : p = Head(d) /\ r = Tail(d)
  BY HeadTailProperties
<1>2. PICK q \in Seq(Partes) : q = <<p>> /\ Len(q) = 1 /\ Bytes(q) = p.ancho
  BY BytesDeUna, ListaDeUno
<1>3. q \o r = d
  <2>1. PICK n \in Nat : n = Len(d) /\ n > 0
    BY EmptySeq
  <2>2. 1 \in 1 .. Len(d) /\ n \in 1 .. Len(d)
    BY <2>1
  <2>3. SubSeq(d, 1, n) = <<d[1]>> \o SubSeq(d, 1 + 1, n)
    BY <2>2, SubSeqRecursiveFirst
  <2>4. SubSeq(d, 1, n) = d /\ r = SubSeq(d, 2, n) /\ d[1] = p
    BY <1>1, <2>1, SubSeqFull, TailIsSubSeq
  <2>5. QED
    BY <1>2, <2>3, <2>4
<1>4. PICK w \in Nat : w = p.ancho
  BY DEF Partes, Positivos
<1>5. Primeras(d, w) = 1
  BY <1>2, <1>3, <1>4, PrimerasEs
<1>6. SubSeq(d, 1, 1) = q /\ SubSeq(d, 1 + 1, Len(d)) = r
  BY <1>2, <1>3, PartirJunta
<1>7. ~ (Bytes(SubSeq(d, 1, 1)) - w > 0)
  <2>1. Bytes(SubSeq(d, 1, 1)) = w
    BY <1>2, <1>4, <1>6
  <2>2. ~ (w - w > 0)
    OBVIOUS
  <2>3. QED
    BY <2>1, <2>2
<1>8. Despues(d, w) = <<>> \o r
  <2>1. Despues(d, w) = (IF Bytes(SubSeq(d, 1, 1)) - w > 0
                         THEN <<Parte("cortado", Bytes(SubSeq(d, 1, 1)) - w, 0)>> ELSE <<>>)
                          \o SubSeq(d, 1 + 1, Len(d))
    BY <1>5, Zenon DEF Despues
  <2>2. QED
    BY <1>6, <1>7, <2>1
<1>9. <<>> \o r = r
  BY ConcatEmptySeq
<1>10. Bytes(d) = w + Bytes(r) /\ Bytes(r) \in Nat
  BY <1>2, <1>3, <1>4, BytesDeJuntas, BytesNat
<1>11. QED
  BY <1>1, <1>4, <1>8, <1>9, <1>10

-----------------------------------------------------------------------------
(***************************************************************************)
(* The packages of the messages in flight.                                 *)
(***************************************************************************)
Envia(q) == [i \in DOMAIN q |-> PackageSend(q[i])]
Cola(q)  == FlattenSeq(Envia(q))

SeEnvian(M) == \A m \in M : PackageSend(m) \in Seq(Partes)

LEMMA EnviaTipo ==
  ASSUME NEW M, SeEnvian(M), NEW q \in Seq(M)
  PROVE  /\ Envia(q) \in Seq(Seq(Partes)) /\ Len(Envia(q)) = Len(q)
         /\ \A i \in 1 .. Len(q) : Envia(q)[i] = PackageSend(q[i])
<1>1. PICK n \in Nat : n = Len(q) /\ DOMAIN q = 1 .. n
  BY LenProperties
<1>2. PICK S : S = Seq(Partes)
  OBVIOUS
<1>3. ASSUME NEW i \in 1 .. n PROVE PackageSend(q[i]) \in S
  <2>1. q[i] \in M
    BY <1>1, ElementOfSeq
  <2>2. QED
    BY <1>2, <2>1 DEF SeEnvian
<1>4. PICK a : a = [i \in 1 .. n |-> PackageSend(q[i])]
  OBVIOUS
<1>5. a \in [1 .. n -> S]
  BY <1>3, <1>4
<1>6. a \in Seq(S) /\ Len(a) = n
  BY <1>5
<1>7. \A i \in 1 .. n : a[i] = PackageSend(q[i])
  BY <1>4
<1>8. Envia(q) = a
  BY <1>1, <1>4 DEF Envia
<1>9. QED
  BY <1>1, <1>2, <1>6, <1>7, <1>8

LEMMA EnviaMas ==
  ASSUME NEW M, SeEnvian(M), NEW q \in Seq(M), NEW m \in M
  PROVE  Envia(Append(q, m)) = Append(Envia(q), PackageSend(m))
<1>1. PICK n \in Nat : n = Len(q)
  BY LenProperties
<1>2. PICK k \in Nat : k = n + 1
  OBVIOUS
<1>3. PICK r \in Seq(M) : r = Append(q, m)
  BY AppendProperties
<1>4. Len(r) = k /\ r[k] = m /\ \A i \in 1 .. n : r[i] = q[i]
  BY <1>1, <1>2, <1>3, AppendProperties
<1>5. PICK S : S = Seq(Partes)
  OBVIOUS
<1>6. PICK p \in S : p = PackageSend(m)
  BY <1>5 DEF SeEnvian
<1>7. PICK a \in Seq(S) : a = Envia(q) /\ Len(a) = n /\ \A i \in 1 .. n : a[i] = PackageSend(q[i])
  BY <1>1, <1>5, EnviaTipo
<1>8. PICK b \in Seq(S) : b = Envia(r) /\ Len(b) = k /\ \A i \in 1 .. k : b[i] = PackageSend(r[i])
  BY <1>4, <1>5, EnviaTipo
<1>9. PICK c \in Seq(S) : c = Append(a, p)
  BY AppendProperties
<1>10. Len(c) = k /\ c[k] = p /\ \A i \in 1 .. n : c[i] = a[i]
  BY <1>2, <1>7, <1>9, AppendProperties
<1>11. ASSUME NEW i \in 1 .. k PROVE b[i] = c[i]
  <2>1. CASE i = k
    BY <1>4, <1>6, <1>8, <1>10, <2>1
  <2>2. CASE i # k
    <3>1. i \in 1 .. n
      BY <1>2, <2>2
    <3>2. QED
      BY <1>4, <1>7, <1>8, <1>10, <3>1
  <2>3. QED
    BY <2>1, <2>2
<1>12. b = c
  BY <1>8, <1>10, <1>11, SeqEqual
<1>13. QED
  BY <1>3, <1>6, <1>7, <1>8, <1>9, <1>12

LEMMA ColaVacia == Cola(<<>>) = <<>>
<1>1. Envia(<<>>) = <<>>
  BY DEF Envia
<1>2. QED
  BY <1>1, AplanarVacia DEF Cola

LEMMA ColaMasSi ==
  ASSUME NEW M, SeEnvian(M), NEW q \in Seq(M), NEW m \in M, Cola(q) \in Seq(Partes)
  PROVE  Cola(Append(q, m)) = Cola(q) \o PackageSend(m) /\ Cola(Append(q, m)) \in Seq(Partes)
<1>1. PICK a \in Seq(Seq(Partes)) : a = Envia(q)
  BY EnviaTipo
<1>2. PICK p \in Seq(Partes) : p = PackageSend(m)
  BY DEF SeEnvian
<1>3. Cola(q) = FlattenSeq(a) /\ Cola(Append(q, m)) = FlattenSeq(Append(a, p))
  BY <1>1, <1>2, EnviaMas DEF Cola
<1>4. FlattenSeq(Append(a, p)) = FlattenSeq(a) \o p
  BY <1>3, AplanarMas
<1>5. FlattenSeq(a) \o p \in Seq(Partes)
  BY <1>3, ConcatProperties
<1>6. QED
  BY <1>2, <1>3, <1>4, <1>5

LEMMA ColaTipo ==
  ASSUME NEW M, SeEnvian(M), NEW q \in Seq(M)
  PROVE  Cola(q) \in Seq(Partes)
<1> DEFINE Mal(n) == \E s \in Seq(M) : Len(s) = n /\ Cola(s) \notin Seq(Partes)
           N == {n \in Nat : Mal(n)}
<1>1. SUFFICES N = {}
  <2>1. Len(q) \in Nat
    BY LenProperties
  <2>2. QED
    BY <2>1
<1>2. SUFFICES ASSUME N # {} PROVE FALSE
  OBVIOUS
<1>3. PICK n \in N : \A k \in N : n <= k
  <2>1. N \subseteq Nat
    OBVIOUS
  <2>2. QED
    BY <1>2, <2>1, MenorNatural
<1>4. n \in Nat /\ Mal(n)
  OBVIOUS
<1>5. PICK s \in Seq(M) : Len(s) = n /\ Cola(s) \notin Seq(Partes)
  BY <1>4
<1>6. s # <<>>
  <2>1. Cola(<<>>) \in Seq(Partes)
    BY ColaVacia, EmptySeq
  <2>2. QED
    BY <1>5, <2>1
<1>7. PICK t \in Seq(M), e \in M : s = Append(t, e)
  BY <1>6, SequenceEmptyOrAppend
<1>8. PICK k \in Nat : k = Len(t) /\ n = k + 1 /\ ~ (n <= k)
  BY <1>4, <1>5, <1>7, AppendProperties, LenProperties
<1>9. Cola(t) \in Seq(Partes)
  BY <1>3, <1>8
<1>10. QED
  BY <1>5, <1>7, <1>9, ColaMasSi

LEMMA ColaMas ==
  ASSUME NEW M, SeEnvian(M), NEW q \in Seq(M), NEW m \in M
  PROVE  Cola(Append(q, m)) = Cola(q) \o PackageSend(m)
  BY ColaTipo, ColaMasSi

LEMMA ColaPrimero ==
  ASSUME NEW M, SeEnvian(M), NEW q \in Seq(M), q # <<>>
  PROVE  Cola(q) = PackageSend(Head(q)) \o Cola(Tail(q))
<1> DEFINE Bueno(s) == Cola(s) = PackageSend(Head(s)) \o Cola(Tail(s))
           Mal(n) == \E s \in Seq(M) : s # <<>> /\ Len(s) = n /\ ~ Bueno(s)
           N == {n \in Nat : Mal(n)}
<1>1. SUFFICES N = {}
  <2>1. Len(q) \in Nat
    BY LenProperties
  <2>2. QED
    BY <2>1
<1>2. SUFFICES ASSUME N # {} PROVE FALSE
  OBVIOUS
<1>3. PICK n \in N : \A k \in N : n <= k
  <2>1. N \subseteq Nat
    OBVIOUS
  <2>2. QED
    BY <1>2, <2>1, MenorNatural
<1>4. n \in Nat /\ Mal(n)
  OBVIOUS
<1>5. PICK s \in Seq(M) : s # <<>> /\ Len(s) = n /\ ~ Bueno(s)
  BY <1>4
<1>6. PICK t \in Seq(M), e \in M : s = Append(t, e)
  BY <1>5, SequenceEmptyOrAppend
<1>7. PICK k \in Nat : k = Len(t) /\ n = k + 1 /\ ~ (n <= k)
  BY <1>4, <1>5, <1>6, AppendProperties, LenProperties
<1>8. PICK p \in Seq(Partes) : p = PackageSend(e)
  BY DEF SeEnvian
<1>9. Cola(s) = Cola(t) \o p
  BY <1>6, <1>8, ColaMas
<1>10. CASE t = <<>>
  <2>1. Head(s) = e /\ Tail(s) = <<>>
    BY <1>6, <1>10, HeadTailAppend
  <2>2. Cola(t) = <<>> /\ Cola(Tail(s)) = <<>>
    BY <1>10, <2>1, ColaVacia
  <2>3. <<>> \o p = p /\ p \o <<>> = p
    BY ConcatEmptySeq
  <2>4. QED
    BY <1>5, <1>8, <1>9, <2>1, <2>2, <2>3
<1>11. CASE t # <<>>
  <2>1. Head(s) = Head(t) /\ Tail(s) = Append(Tail(t), e) /\ Head(t) \in M /\ Tail(t) \in Seq(M)
    BY <1>6, <1>11, HeadTailAppend, HeadTailProperties
  <2>2. Bueno(t)
    BY <1>3, <1>7, <1>11
  <2>3. PICK h \in Seq(Partes) : h = PackageSend(Head(t))
    BY <2>1 DEF SeEnvian
  <2>4. PICK c \in Seq(Partes) : c = Cola(Tail(t))
    BY <2>1, ColaTipo
  <2>5. (h \o c) \o p = h \o (c \o p)
    <3>1. h \in Seq(Partes) /\ c \in Seq(Partes) /\ p \in Seq(Partes)
      BY <1>8, <2>3, <2>4
    <3> HIDE DEF Bueno, Mal, N
    <3>2. QED
      BY <3>1, ConcatAssociative, SMTT(30)
  <2>6. Cola(Tail(s)) = c \o p
    BY <1>8, <2>1, <2>4, ColaMas
  <2>7. QED
    BY <1>5, <1>9, <2>1, <2>2, <2>3, <2>4, <2>5, <2>6
<1>12. QED
  BY <1>10, <1>11

\* What a message looks like in the socket.
LEMMA PaqueteEs ==
  ASSUME NEW c \in Conexiones, NEW m, Sano(c, m)
  PROVE  /\ PackageSend(m) \in Seq(Partes)
         /\ \E a \in Partes, b \in Partes :
              /\ PackageSend(m) = <<a, b>> \o m.partes
              /\ a.campo = m.header /\ b.valor = m.tamano
<1>1. m.header \in Campos /\ "size" \in Campos
  <2>1. m.header \in Headers
    BY DEF Sano, Headers
  <2>2. QED
    BY <2>1 DEF Campos, Nombres
<1>2. m.tamano \in Nat /\ m.partes \in Seq(Partes) /\ Bytes(m.partes) = m.tamano
  BY DEF Sano
<1>3. 4 \in Positivos /\ 0 \in Nat
  BY DEF Positivos
<1>4. PICK a \in Partes : a = Parte(m.header, 4, 0) /\ a.campo = m.header
  BY <1>1, <1>3, UnFijo
<1>5. PICK b \in Partes : b = Parte("size", 4, m.tamano) /\ b.valor = m.tamano
  BY <1>1, <1>2, <1>3, UnFijo
<1>6. PackageSend(m) = <<a, b>> \o m.partes
  BY <1>2, <1>4, <1>5, SerializadoEs DEF PackageSend
<1>7. <<a, b>> \in Seq(Partes)
  BY TuplaDeDos
<1>8. <<a, b>> \o m.partes \in Seq(Partes)
  BY <1>2, <1>7, ConcatProperties
<1>9. QED
  BY <1>4, <1>5, <1>6, <1>8

LEMMA SeEnvianTodos == \A c \in Conexiones : SeEnvian(Envios[c])
  BY TodosSanos, PaqueteEs DEF SeEnvian

\* Its header, its size and the rest, seen from the reading end.
LEMMA LlegaElPaquete ==
  ASSUME NEW c \in Conexiones, NEW m, Sano(c, m), NEW r \in Seq(Partes), NEW s, s = PackageSend(m) \o r
  PROVE  /\ s \in Seq(Partes) /\ s # <<>>
         /\ Head(s).campo = m.header /\ s[2].valor = m.tamano
         /\ SubSeq(s, 3, Len(s)) = m.partes \o r
<1>1. PICK a \in Partes, b \in Partes :
        PackageSend(m) = <<a, b>> \o m.partes /\ a.campo = m.header /\ b.valor = m.tamano
  BY PaqueteEs
<1>2. PICK d \in Seq(Partes) : d = m.partes
  BY DEF Sano
<1>3. PICK h \in Seq(Partes) : h = <<a, b>>
  BY TuplaDeDos
<1>4. Len(h) = 2 /\ h[1] = a /\ h[2] = b
  BY <1>3
<1>5. PICK e \in Seq(Partes) : e = d \o r
  BY ConcatProperties
<1>6. s = h \o e
  <2>1. (h \o d) \o r = h \o (d \o r)
    BY ConcatAssociative, SMTT(30)
  <2>2. s = (h \o d) \o r
    BY <1>1, <1>2, <1>3
  <2>3. QED
    BY <1>5, <2>1, <2>2
<1>7. PICK n \in Nat : n = Len(e)
  BY LenProperties
<1>8. PICK x \in Seq(Partes) : x = h \o e
  BY ConcatProperties
<1>9. /\ Len(x) = Len(h) + Len(e)
       /\ \A i \in 1 .. Len(h) + Len(e) : x[i] = IF i <= Len(h) THEN h[i] ELSE e[i - Len(h)]
  BY <1>8, ConcatProperties
<1>10. s \in Seq(Partes) /\ Len(s) = 2 + n
  BY <1>4, <1>6, <1>7, <1>8, <1>9
<1>11. s[1] = a /\ s[2] = b
  <2>1. \A i \in 1 .. 2 + n : s[i] = IF i <= 2 THEN h[i] ELSE e[i - 2]
    BY <1>4, <1>6, <1>7, <1>8, <1>9
  <2>2. 1 \in 1 .. 2 + n /\ 2 \in 1 .. 2 + n /\ 1 <= 2 /\ 2 <= 2
    OBVIOUS
  <2>3. s[1] = h[1] /\ s[2] = h[2]
    BY <2>1, <2>2
  <2>4. QED
    BY <1>4, <2>3
<1>12. s # <<>>
  <2>1. Len(s) # 0
    BY <1>10
  <2>2. Len(<<>>) = 0
    OBVIOUS
  <2>3. QED
    BY <2>1, <2>2
<1>13. SubSeq(s, 3, Len(s)) = e
  <2>1. SubSeq(s, Len(h) + 1, Len(s)) = e
    BY <1>6, PartirJunta
  <2>2. Len(h) + 1 = 3
    BY <1>4
  <2>3. QED
    BY <2>1, <2>2
<1>14. Head(s) = a
  BY <1>10, <1>11, <1>12 DEF Head
<1>15. QED
  BY <1>1, <1>2, <1>5, <1>10, <1>11, <1>12, <1>13, <1>14

-----------------------------------------------------------------------------
(***************************************************************************)
(* The inductive invariant: the socket holds the packages of the messages  *)
(* in flight, all of them while the thread waits and all but the first     *)
(* while it reads that one; what was read and what is left of the buffer   *)
(* are the first message, and what is left is what the handler expects.    *)
(***************************************************************************)
Leidos == [destino : Campos, campo : Campos]

Avance(d, p, l, q) ==
  /\ Lee(p, d)
  /\ d \in Seq(Partes) /\ l \in Seq(Leidos) /\ q \in Seq(Partes)
  /\ Len(l) + Len(d) = Len(q)
  /\ \A i \in 1 .. Len(d) : d[i] = q[Len(l) + i]
  /\ \A i \in 1 .. Len(l) : l[i].campo = l[i].destino /\ l[i].campo = q[i].campo

Leyendo(d, p, l) == [fase |-> "campos", datos |-> d, pila |-> p, leidos |-> l]

Esperando == lector = EnEspera /\ canal = Cola(enVuelo)

Atendiendo ==
  \E d, p, l :
    /\ lector = Leyendo(d, p, l)
    /\ enVuelo # <<>>
    /\ canal = Cola(Tail(enVuelo))
    /\ Avance(d, p, l, Head(enVuelo).partes)

EnOrden ==
  /\ conexion \in Conexiones
  /\ enVuelo \in Seq(Envios[conexion]) /\ Len(enVuelo) <= MaxEnVuelo
  /\ Esperando \/ Atendiendo

LEMMA LeyendoEs ==
  ASSUME NEW d, NEW p, NEW l
  PROVE  /\ Leyendo(d, p, l).fase = "campos" /\ Leyendo(d, p, l).datos = d
         /\ Leyendo(d, p, l).pila = p /\ Leyendo(d, p, l).leidos = l
  BY DEF Leyendo

LEMMA EnEsperaEs == EnEspera.fase = "operacion"
  BY DEF EnEspera

LEMMA AvancePartes ==
  ASSUME NEW d, NEW p, NEW l, NEW q, Avance(d, p, l, q)
  PROVE  /\ Lee(p, d)
         /\ d \in Seq(Partes) /\ l \in Seq(Leidos) /\ q \in Seq(Partes)
         /\ Len(l) + Len(d) = Len(q)
         /\ \A i \in 1 .. Len(d) : d[i] = q[Len(l) + i]
         /\ \A i \in 1 .. Len(l) : l[i].campo = l[i].destino /\ l[i].campo = q[i].campo
  BY DEF Avance

LEMMA AvanceEmpieza ==
  ASSUME NEW p, NEW q \in Seq(Partes), Lee(p, q)
  PROVE  Avance(q, p, <<>>, q)
<1>1. PICK n \in Nat : n = Len(q)
  BY LenProperties
<1>2. <<>> \in Seq(Leidos) /\ Len(<<>>) = 0
  BY EmptySeq
<1>3. 0 + n = n /\ \A i \in 1 .. n : 0 + i = i
  OBVIOUS
<1>4. QED
  BY <1>1, <1>2, <1>3 DEF Avance

\* One field read, the one the handler wanted.
LEMMA AvanceSigue ==
  ASSUME NEW d, NEW p, NEW l, NEW q, Avance(d, p, l, q), d # <<>>, NEW r, Lee(r, Tail(d))
  PROVE  Avance(Tail(d), r, Append(l, [destino |-> Head(d).campo, campo |-> Head(d).campo]), q)
<1>1. PICK k \in Nat, n \in Nat, t \in Nat : k = Len(l) /\ n = Len(d) /\ t = Len(q) /\ k + n = t /\ n > 0
  BY AvancePartes, LenProperties, EmptySeq
<1>2. /\ \A i \in 1 .. n : d[i] = q[k + i]
      /\ \A i \in 1 .. k : l[i].campo = l[i].destino /\ l[i].campo = q[i].campo
      /\ d \in Seq(Partes) /\ l \in Seq(Leidos) /\ q \in Seq(Partes)
  BY <1>1, AvancePartes
<1>3. PICK x \in Partes : x = Head(d) /\ x = d[1]
  <2>1. Head(d) \in Partes
    BY <1>2, HeadTailProperties
  <2>2. Head(d) = d[1]
    BY <1>1, <1>2 DEF Head
  <2>3. QED
    BY <2>1, <2>2
<1>4. PICK e \in Leidos : e = [destino |-> x.campo, campo |-> x.campo] /\ e.campo = x.campo /\ e.destino = x.campo
  <2>1. PICK c \in Campos : c = x.campo
    BY DEF Partes
  <2>2. PICK e : e = [destino |-> c, campo |-> c]
    OBVIOUS
  <2>3. e \in Leidos /\ e.campo = c /\ e.destino = c
    BY <2>2 DEF Leidos
  <2>4. QED
    BY <2>1, <2>2, <2>3
<1>5. PICK u \in Seq(Partes) : u = Tail(d)
  BY <1>2, HeadTailProperties
<1>6. PICK m \in Nat : m = n - 1 /\ n = m + 1
  BY <1>1
<1>7. Len(u) = m /\ \A i \in 1 .. m : u[i] = d[i + 1]
  <2>1. Len(u) = Len(d) - 1 /\ \A i \in 1 .. Len(u) : u[i] = d[i + 1]
    BY <1>2, <1>5, HeadTailProperties
  <2>2. QED
    BY <1>1, <1>6, <2>1
<1>8. PICK v \in Seq(Leidos) : v = Append(l, e)
  BY <1>2, AppendProperties
<1>9. PICK j \in Nat : j = k + 1
  OBVIOUS
<1>10. Len(v) = j /\ v[j] = e /\ \A i \in 1 .. k : v[i] = l[i]
  <2>1. Len(v) = Len(l) + 1 /\ v[Len(l) + 1] = e /\ \A i \in 1 .. Len(l) : v[i] = l[i]
    BY <1>2, <1>8, AppendProperties
  <2>2. QED
    BY <1>1, <1>9, <2>1
<1>11. j + m = t
  BY <1>1, <1>6, <1>9
<1>12. ASSUME NEW i \in 1 .. m PROVE u[i] = q[j + i]
  <2>1. PICK h \in 1 .. n : h = i + 1 /\ k + h = j + i
    BY <1>6, <1>9
  <2>2. u[i] = d[h] /\ d[h] = q[k + h]
    BY <1>2, <1>7, <2>1
  <2>3. QED
    BY <2>1, <2>2
<1>13. ASSUME NEW i \in 1 .. j PROVE v[i].campo = v[i].destino /\ v[i].campo = q[i].campo
  <2>1. CASE i = j
    <3>1. 1 \in 1 .. n /\ k + 1 = j
      BY <1>1, <1>9
    <3>2. d[1] = q[k + 1]
      BY <1>2, <3>1
    <3>3. QED
      BY <1>3, <1>4, <1>10, <2>1, <3>1, <3>2
  <2>2. CASE i # j
    <3>1. i \in 1 .. k
      BY <1>9, <2>2
    <3>2. QED
      BY <1>2, <1>10, <3>1
  <2>3. QED
    BY <2>1, <2>2
<1>14. Avance(u, r, v, q)
  BY <1>1, <1>2, <1>5, <1>7, <1>10, <1>11, <1>12, <1>13 DEF Avance
<1>15. QED
  BY <1>3, <1>4, <1>5, <1>8, <1>14

LEMMA OrdenInicial == Init => EnOrden
<1>1. SUFFICES ASSUME Init PROVE EnOrden
  OBVIOUS
<1>2. conexion \in Conexiones /\ canal = <<>> /\ lector = EnEspera /\ enVuelo = <<>>
  BY <1>1 DEF Init
<1>3. enVuelo \in Seq(Envios[conexion]) /\ Len(enVuelo) = 0
  BY <1>2, EmptySeq
<1>4. Esperando
  BY <1>2, ColaVacia DEF Esperando
<1>5. QED
  BY <1>2, <1>3, <1>4, FormasAssumption DEF EnOrden

LEMMA OrdenEnviar == EnOrden /\ Enviar => EnOrden'
<1>1. SUFFICES ASSUME EnOrden, Enviar PROVE EnOrden'
  OBVIOUS
<1>2. PICK c \in Conexiones : c = conexion
  BY <1>1 DEF EnOrden
<1>3. PICK M : M = Envios[c]
  OBVIOUS
<1>4. PICK q \in Seq(M) : q = enVuelo
  BY <1>1, <1>2, <1>3 DEF EnOrden
<1>5. PICK m \in M : canal' = canal \o Paquetes[m] /\ enVuelo' = Append(enVuelo, m)
  BY <1>1, <1>2, <1>3 DEF Enviar
<1>6. conexion' = conexion /\ lector' = lector /\ Len(enVuelo) < MaxEnVuelo
  BY <1>1 DEF Enviar
<1>7. SeEnvian(M)
  BY <1>3, SeEnvianTodos
<1>8. Paquetes[m] = PackageSend(m)
  <2>1. m \in UNION {Envios[k] : k \in Conexiones}
    BY <1>3
  <2>2. QED
    BY <2>1 DEF Paquetes
<1>9. PICK r \in Seq(M) : r = Append(q, m) /\ Len(r) = Len(q) + 1
  BY AppendProperties
<1>10. enVuelo' = r /\ Len(r) <= MaxEnVuelo
  <2>1. Len(q) \in Nat /\ MaxEnVuelo \in Nat
    BY FormasAssumption, LenProperties
  <2>2. QED
    BY <1>4, <1>5, <1>6, <1>9, <2>1
<1>11. CASE Esperando
  <2>1. lector = EnEspera /\ canal = Cola(q)
    BY <1>4, <1>11 DEF Esperando
  <2>2. canal' = Cola(r)
    BY <1>5, <1>7, <1>8, <1>9, <2>1, ColaMas
  <2>3. Esperando'
    BY <1>6, <1>10, <2>1, <2>2 DEF Esperando
  <2>4. QED
    BY <1>2, <1>3, <1>6, <1>10, <2>3 DEF EnOrden
<1>12. CASE Atendiendo
  <2>1. PICK d, p, l : /\ lector = Leyendo(d, p, l)
                       /\ q # <<>>
                       /\ canal = Cola(Tail(q))
                       /\ Avance(d, p, l, Head(q).partes)
    BY <1>4, <1>12 DEF Atendiendo
  <2>2. PICK t \in Seq(M) : t = Tail(q)
    BY <2>1, HeadTailProperties
  <2>3. Head(r) = Head(q) /\ Tail(r) = Append(t, m) /\ r # <<>>
    BY <1>9, <2>1, <2>2, HeadTailAppend, AppendProperties
  <2>4. canal' = Cola(Tail(r))
    BY <1>5, <1>7, <1>8, <2>1, <2>2, <2>3, ColaMas
  <2>5. Atendiendo'
    BY <1>6, <1>10, <2>1, <2>3, <2>4 DEF Atendiendo
  <2>6. QED
    BY <1>2, <1>3, <1>6, <1>10, <2>5 DEF EnOrden
<1>13. QED
  BY <1>1, <1>11, <1>12 DEF EnOrden

LEMMA OrdenRecibir == EnOrden /\ Recibir => EnOrden'
<1>1. SUFFICES ASSUME EnOrden, Recibir PROVE EnOrden'
  OBVIOUS
<1>2. PICK c \in Conexiones : c = conexion
  BY <1>1 DEF EnOrden
<1>3. PICK M : M = Envios[c]
  OBVIOUS
<1>4. PICK q \in Seq(M) : q = enVuelo
  BY <1>1, <1>2, <1>3 DEF EnOrden
<1>5. lector.fase = "operacion" /\ canal # <<>> /\ conexion' = conexion /\ enVuelo' = enVuelo
  BY <1>1 DEF Recibir
<1>6. canal = Cola(q)
  <2>1. ~ Atendiendo
    BY <1>5, LeyendoEs DEF Atendiendo
  <2>2. QED
    BY <1>1, <1>4, <2>1 DEF EnOrden, Esperando
<1>7. q # <<>>
  BY <1>5, <1>6, ColaVacia
<1>8. PICK m \in M : m = Head(q)
  BY <1>7, HeadTailProperties
<1>9. SeEnvian(M) /\ Sano(c, m)
  BY <1>3, SeEnvianTodos, TodosSanos
<1>10. PICK r \in Seq(Partes) : r = Cola(Tail(q))
  BY <1>7, <1>9, ColaTipo, HeadTailProperties
<1>11. PICK s : s = canal
  OBVIOUS
<1>12. s = PackageSend(m) \o r
  BY <1>6, <1>7, <1>8, <1>9, <1>10, <1>11, ColaPrimero
<1>13. Head(s).campo = m.header /\ s[2].valor = m.tamano /\ SubSeq(s, 3, Len(s)) = m.partes \o r
  BY <1>9, <1>12, LlegaElPaquete
<1>14. PICK d \in Seq(Partes), n \in Nat : d = m.partes /\ n = m.tamano /\ n > 0 /\ Bytes(d) = n
  BY <1>9 DEF Sano
<1>15. PICK h : h = m.header /\ h \in DOMAIN Atiende[c] /\ Lee(Atiende[c][h], d)
  BY <1>9, <1>14 DEF Sano
<1>16. RecvBuffer(d \o r, n).datos = d /\ RecvBuffer(d \o r, n).canal = r
  BY <1>14, RecibeElBuffer
<1>17. /\ canal' = r
       /\ lector' = [fase |-> IF n = 0 THEN "abortado" ELSE "campos", datos |-> d,
                     pila |-> Atiende[c][h], leidos |-> <<>>]
  <2>1. PICK v : v = RecvBuffer(d \o r, n)
    OBVIOUS
  <2>2. /\ canal' = v.canal
        /\ lector' = [fase |-> IF n = 0 THEN "abortado" ELSE "campos", datos |-> v.datos,
                      pila |-> Atiende[c][h], leidos |-> <<>>]
    BY <1>1, <1>2, <1>11, <1>13, <1>14, <1>15, <2>1 DEF Recibir
  <2>3. QED
    BY <1>16, <2>1, <2>2
<1>18. lector' = Leyendo(d, Atiende[c][h], <<>>)
  BY <1>14, <1>17 DEF Leyendo
<1>19. Avance(d, Atiende[c][h], <<>>, Head(q).partes)
  BY <1>8, <1>14, <1>15, AvanceEmpieza
<1>20. Atendiendo'
  BY <1>4, <1>5, <1>7, <1>10, <1>17, <1>18, <1>19 DEF Atendiendo
<1>21. QED
  BY <1>1, <1>2, <1>4, <1>5, <1>20 DEF EnOrden

\* No step of those put together asks for what was requested.
LEMMA PasoNoPide ==
  ASSUME NEW s \in Pasos
  PROVE  s.lee # "pedido"
  BY DEF Pasos, PasosDeCaso, PasosSimples, PasosFijos, PasosCadena, PasosLista, PasosSegun

LEMMA PedidoEs ==
  ASSUME NEW p, NEW d, Pedido(p, d)
  PROVE  /\ p # <<>> /\ Tail(p) = <<>> /\ Head(p).lee = "pedido" /\ Head(p).campo = "dato"
         /\ \A v : Siguientes(Head(p), v) = <<>>
         /\ d \in Seq(Partes) /\ d # <<>> /\ Tail(d) = <<>> /\ Head(d).campo = "dato"
         /\ Head(d).ancho = Bytes(d)
<1>1. p = LeerDato /\ d \in Seq(Partes) /\ Len(d) = 1 /\ d[1].campo = "dato"
  BY DEF Pedido
<1>2. PICK s : s = Paso("pedido", "dato", 0, <<>>)
  OBVIOUS
<1>3. s.lee = "pedido" /\ s.campo = "dato"
  BY <1>2 DEF Paso
<1>4. p = <<s>>
  BY <1>1, <1>2 DEF LeerDato
<1>5. p # <<>> /\ Tail(p) = <<>> /\ Head(p) = s
  BY <1>4
<1>6. ASSUME NEW v PROVE Siguientes(s, v) = <<>>
  BY <1>3 DEF Siguientes
<1>7. d # <<>>
  BY <1>1
<1>8. Tail(d) \in Seq(Partes) /\ Len(Tail(d)) = 0 /\ Head(d) \in Partes
  BY <1>1, <1>7, HeadTailProperties
<1>9. Tail(d) = <<>>
  BY <1>8, EmptySeq
<1>10. Head(d) = d[1]
  BY <1>1, <1>7 DEF Head
<1>11. d = <<Head(d)>>
  <2>1. PICK x \in Partes : x = Head(d)
    BY <1>8
  <2>2. <<x>> \in Seq(Partes) /\ Len(<<x>>) = 1 /\ <<x>>[1] = x
    BY ListaDeUno
  <2>3. \A i \in 1 .. 1 : d[i] = <<x>>[i]
    BY <1>10, <2>1, <2>2
  <2>4. d = <<x>>
    BY <1>1, <2>2, <2>3, SeqEqual
  <2>5. QED
    BY <2>1, <2>4
<1>12. Head(d).ancho = Bytes(d)
  BY <1>8, <1>11, BytesDeUna
<1>13. QED
  BY <1>1, <1>3, <1>5, <1>6, <1>7, <1>9, <1>10, <1>12

\* A thread with something to read finds the whole field in its buffer.
LEMMA HayQueLeer ==
  ASSUME NEW p, NEW d, Lee(p, d), d \in Seq(Partes), p # <<>>
  PROVE  /\ d # <<>>
         /\ Head(p).campo = Head(d).campo
         /\ (IF Head(p).lee = "pedido" THEN Bytes(d) ELSE Head(p).ancho) = Head(d).ancho
         /\ Lee(Siguientes(Head(p), Head(d).valor) \o Tail(p), Tail(d))
<1>1. CASE Encajan(p, d)
  <2>1. Casa(p, d) /\ Encajan(Resto(p, d), Tail(d)) /\ p \in Seq(Pasos)
    BY <1>1, EncajanSigue, EncajanTipo
  <2>2. Head(p) \in Pasos
    BY <2>1, HeadTailProperties
  <2>3. Head(p).lee # "pedido"
    BY <2>2, PasoNoPide
  <2>4. QED
    BY <2>1, <2>3 DEF Casa, Lee, Resto
<1>2. CASE Pedido(p, d)
  <2>1. <<>> \o <<>> = <<>>
    OBVIOUS
  <2>2. Siguientes(Head(p), Head(d).valor) \o Tail(p) = <<>> /\ Tail(d) = <<>>
    BY <1>2, <2>1, PedidoEs
  <2>3. Lee(Siguientes(Head(p), Head(d).valor) \o Tail(p), Tail(d))
    BY <2>2, EncajanVacias DEF Lee
  <2>4. QED
    BY <1>2, <2>3, PedidoEs
<1>3. QED
  BY <1>1, <1>2 DEF Lee

LEMMA NadaQueLeer ==
  ASSUME NEW p, NEW d, Lee(p, d), p = <<>>
  PROVE  d = <<>>
<1>1. ~ Pedido(p, d)
  BY PedidoEs
<1>2. QED
  BY <1>1, EncajanSigue DEF Lee, Casa

\* What reading one value changes of the thread.
Cambiado(x, e, r, m) == [x EXCEPT !.datos = e, !.pila = r, !.leidos = m]

LEMMA TresCambios ==
  ASSUME NEW x, NEW d, NEW p, NEW l, x = Leyendo(d, p, l), NEW e, NEW r, NEW m
  PROVE  Cambiado(x, e, r, m) = Leyendo(e, r, m)
<1>1. x = [fase |-> "campos", datos |-> d, pila |-> p, leidos |-> l]
  BY DEF Leyendo
<1>2. PICK y : y = [x EXCEPT !.datos = e]
  OBVIOUS
<1>3. y = [fase |-> "campos", datos |-> e, pila |-> p, leidos |-> l]
  BY <1>1, <1>2
<1>4. PICK z : z = [y EXCEPT !.pila = r]
  OBVIOUS
<1>5. z = [fase |-> "campos", datos |-> e, pila |-> r, leidos |-> l]
  BY <1>3, <1>4
<1>6. [z EXCEPT !.leidos = m] = [fase |-> "campos", datos |-> e, pila |-> r, leidos |-> m]
  BY <1>5
<1>7. [x EXCEPT !.datos = e, !.pila = r, !.leidos = m] = [[[x EXCEPT !.datos = e] EXCEPT !.pila = r] EXCEPT !.leidos = m]
  OBVIOUS
<1>8. [x EXCEPT !.datos = e, !.pila = r, !.leidos = m] = [z EXCEPT !.leidos = m]
  BY <1>2, <1>4, <1>7, Zenon
<1>9. Leyendo(e, r, m) = [fase |-> "campos", datos |-> e, pila |-> r, leidos |-> m]
  BY Zenon DEF Leyendo
<1>10. QED
  BY <1>6, <1>8, <1>9, Zenon DEF Cambiado

LEMMA OrdenLeer == EnOrden /\ Leer => EnOrden'
<1>1. SUFFICES ASSUME EnOrden, Leer PROVE EnOrden'
  OBVIOUS
<1>2. lector.fase = "campos" /\ lector.pila # <<>> /\ UNCHANGED <<conexion, canal, enVuelo>>
  BY <1>1 DEF Leer
<1>3. Atendiendo
  <2>1. ~ Esperando
    BY <1>2, EnEsperaEs DEF Esperando
  <2>2. QED
    BY <1>1, <2>1 DEF EnOrden
<1>4. PICK d, p, l : /\ lector = Leyendo(d, p, l)
                     /\ enVuelo # <<>>
                     /\ canal = Cola(Tail(enVuelo))
                     /\ Avance(d, p, l, Head(enVuelo).partes)
  BY <1>3 DEF Atendiendo
<1>5. lector.datos = d /\ lector.pila = p /\ lector.leidos = l /\ p # <<>>
  BY <1>2, <1>4, LeyendoEs
<1>6. Lee(p, d) /\ d \in Seq(Partes)
  BY <1>4, AvancePartes
<1>7. PICK x : x = Head(d)
  OBVIOUS
<1>8. PICK s : s = Head(p)
  OBVIOUS
<1>9. PICK n : n = IF s.lee = "pedido" THEN Bytes(d) ELSE s.ancho
  OBVIOUS
<1>10. d # <<>> /\ s.campo = x.campo /\ n = x.ancho /\ Lee(Siguientes(s, x.valor) \o Tail(p), Tail(d))
  BY <1>5, <1>6, <1>7, <1>8, <1>9, HayQueLeer
<1>11. n <= Bytes(d) /\ Despues(d, n) = Tail(d)
  BY <1>6, <1>7, <1>10, DespuesDeUna
<1>12. lector' = [lector EXCEPT !.datos  = Tail(d),
                                !.pila   = Siguientes(s, x.valor) \o Tail(p),
                                !.leidos = Append(l, [destino |-> x.campo, campo |-> x.campo])]
  <2>1. \E v \in {x.valor} :
          lector' = [lector EXCEPT !.datos  = Despues(lector.datos, n),
                                   !.pila   = Siguientes(s, v) \o Tail(lector.pila),
                                   !.leidos = Append(lector.leidos, [destino |-> s.campo, campo |-> x.campo])]
    BY <1>1, <1>5, <1>7, <1>8, <1>9, <1>10, <1>11 DEF Leer
  <2>2. QED
    BY <1>5, <1>10, <1>11, <2>1
<1>13. PICK e, r, m : /\ e = Tail(d) /\ r = Siguientes(s, x.valor) \o Tail(p)
                      /\ m = Append(l, [destino |-> x.campo, campo |-> x.campo])
  OBVIOUS
<1>14. lector' = Leyendo(e, r, m)
  <2>1. PICK y : y = lector
    OBVIOUS
  <2>2. Cambiado(y, e, r, m) = Leyendo(e, r, m)
    BY <1>4, <2>1, TresCambios
  <2>3. lector' = Cambiado(y, e, r, m)
    BY <1>12, <1>13, <2>1, Zenon DEF Cambiado
  <2>4. QED
    BY <2>2, <2>3
<1>15. Avance(e, r, m, Head(enVuelo).partes)
  BY <1>4, <1>7, <1>10, <1>13, AvanceSigue
<1>16. Atendiendo'
  BY <1>2, <1>4, <1>14, <1>15 DEF Atendiendo
<1>17. QED
  BY <1>1, <1>2, <1>16 DEF EnOrden

LEMMA OrdenTerminar == EnOrden /\ Terminar => EnOrden'
<1>1. SUFFICES ASSUME EnOrden, Terminar PROVE EnOrden'
  OBVIOUS
<1>2. PICK c \in Conexiones : c = conexion
  BY <1>1 DEF EnOrden
<1>3. PICK M : M = Envios[c]
  OBVIOUS
<1>4. PICK q \in Seq(M) : q = enVuelo
  BY <1>1, <1>2, <1>3 DEF EnOrden
<1>5. /\ lector.fase = "campos" /\ lector' = EnEspera
      /\ enVuelo' = Tail(enVuelo) /\ conexion' = conexion /\ canal' = canal
  BY <1>1 DEF Terminar
<1>6. Atendiendo
  <2>1. ~ Esperando
    BY <1>5, EnEsperaEs DEF Esperando
  <2>2. QED
    BY <1>1, <2>1 DEF EnOrden
<1>7. q # <<>> /\ canal = Cola(Tail(q))
  BY <1>4, <1>6 DEF Atendiendo
<1>8. PICK t \in Seq(M) : t = Tail(q) /\ Len(t) = Len(q) - 1
  BY <1>7, HeadTailProperties
<1>9. enVuelo' = t /\ Len(t) <= MaxEnVuelo
  <2>1. Len(q) \in Nat /\ MaxEnVuelo \in Nat /\ Len(q) <= MaxEnVuelo
    BY <1>1, <1>4, FormasAssumption, LenProperties DEF EnOrden
  <2>2. QED
    BY <1>4, <1>5, <1>8, <2>1
<1>10. Esperando'
  BY <1>5, <1>7, <1>8, <1>9 DEF Esperando
<1>11. QED
  BY <1>2, <1>3, <1>5, <1>9, <1>10 DEF EnOrden

LEMMA OrdenQuieto == EnOrden /\ UNCHANGED vars => EnOrden'
  BY DEF EnOrden, Esperando, Atendiendo, vars

\* The socket is in order in every state.
LEMMA EnOrdenSiempre == Spec => []EnOrden
<1>1. Init => EnOrden
  BY OrdenInicial
<1>2. EnOrden /\ [Next]_vars => EnOrden'
  BY OrdenEnviar, OrdenRecibir, OrdenLeer, OrdenTerminar, OrdenQuieto DEF Next
<1>3. QED
  BY <1>1, <1>2, PTL DEF Spec

-----------------------------------------------------------------------------
(***************************************************************************)
(* What the runs check on short strings and lists, for any of them.        *)
(***************************************************************************)

\* Reading: the first message, what of it was read and what is left.
LEMMA OrdenLeyendo ==
  ASSUME EnOrden, lector.fase = "campos"
  PROVE  /\ enVuelo # <<>>
         /\ Avance(lector.datos, lector.pila, lector.leidos, Head(enVuelo).partes)
<1>1. Atendiendo
  <2>1. ~ Esperando
    BY EnEsperaEs DEF Esperando
  <2>2. QED
    BY <2>1 DEF EnOrden
<1>2. QED
  BY <1>1, LeyendoEs DEF Atendiendo

(***************************************************************************)
(* The receiving thread is in one of its phases, nothing is in the socket  *)
(* but messages sent and not read, and every part of them has bytes        *)
(* (package_send, recive_full_buffer).                                     *)
(***************************************************************************)
THEOREM MensajesBienFormados == Spec => []TipoCorrecto
<1>1. EnOrden => TipoCorrecto
  <2>1. SUFFICES ASSUME EnOrden PROVE TipoCorrecto
    OBVIOUS
  <2>2. PICK c \in Conexiones : c = conexion
    BY <2>1 DEF EnOrden
  <2>3. PICK M : M = Envios[c]
    OBVIOUS
  <2>4. PICK q \in Seq(M) : q = enVuelo
    BY <2>1, <2>2, <2>3 DEF EnOrden
  <2>5. SeEnvian(M)
    BY <2>3, SeEnvianTodos
  <2>6. Len(enVuelo) \in 0 .. MaxEnVuelo
    <3>1. Len(q) \in Nat /\ MaxEnVuelo \in Nat /\ Len(q) <= MaxEnVuelo
      BY <2>1, <2>4, FormasAssumption, LenProperties DEF EnOrden
    <3>2. QED
      BY <2>4, <3>1
  <2>7. lector.fase \in {"operacion", "campos", "abortado"}
    BY <2>1, EnEsperaEs, LeyendoEs DEF EnOrden, Esperando, Atendiendo
  <2>8. PICK t \in Seq(M) : canal = Cola(t) /\ (q = <<>> => t = <<>>)
    <3>1. CASE Esperando
      BY <2>4, <3>1 DEF Esperando
    <3>2. CASE Atendiendo
      <4>1. q # <<>> /\ canal = Cola(Tail(q))
        BY <2>4, <3>2 DEF Atendiendo
      <4>2. Tail(q) \in Seq(M)
        BY <4>1, HeadTailProperties
      <4>3. QED
        BY <4>1, <4>2
    <3>3. QED
      BY <2>1, <3>1, <3>2 DEF EnOrden
  <2>9. canal # <<>> => enVuelo # <<>>
    BY <2>4, <2>8, ColaVacia
  <2>10. canal \in Seq(Partes)
    BY <2>5, <2>8, ColaTipo
  <2>11. \A i \in DOMAIN canal : canal[i].ancho > 0
    <3>1. DOMAIN canal = 1 .. Len(canal)
      BY <2>10, LenProperties
    <3>2. QED
      BY <2>10, <3>1, ParteAncho
  <2>12. QED
    BY <2>2, <2>6, <2>7, <2>9, <2>11 DEF TipoCorrecto
<1>2. QED
  BY <1>1, EnOrdenSiempre, PTL

(***************************************************************************)
(* Every field a deserialize_* stores is the one its serialize_* wrote at  *)
(* that place, for every message of every connection, strings and lists of *)
(* any length and any operation of DialFS.                                 *)
(***************************************************************************)
THEOREM CadaCampoEnSuLugar == Spec => []LecturaFiel
<1>1. EnOrden => LecturaFiel
  <2>1. SUFFICES ASSUME EnOrden, lector.fase = "campos"
                 PROVE  /\ Len(lector.leidos) <= Len(Head(enVuelo).partes)
                        /\ \A i \in DOMAIN lector.leidos :
                             /\ lector.leidos[i].campo = lector.leidos[i].destino
                             /\ lector.leidos[i].campo = Head(enVuelo).partes[i].campo
    BY DEF LecturaFiel
  <2>2. PICK d, p, l, q : /\ d = lector.datos /\ p = lector.pila /\ l = lector.leidos
                          /\ q = Head(enVuelo).partes
    OBVIOUS
  <2>3. Avance(d, p, l, q)
    BY <2>1, <2>2, OrdenLeyendo
  <2>4. /\ d \in Seq(Partes) /\ l \in Seq(Leidos) /\ q \in Seq(Partes) /\ Len(l) + Len(d) = Len(q)
        /\ \A i \in 1 .. Len(l) : l[i].campo = l[i].destino /\ l[i].campo = q[i].campo
    BY <2>3, AvancePartes
  <2>5. DOMAIN l = 1 .. Len(l) /\ Len(l) \in Nat /\ Len(d) \in Nat /\ Len(q) \in Nat
    BY <2>4, LenProperties
  <2>6. Len(l) <= Len(q)
    BY <2>4, <2>5
  <2>7. QED
    BY <2>2, <2>4, <2>5, <2>6
<1>2. QED
  BY <1>1, EnOrdenSiempre, PTL

(***************************************************************************)
(* A handler that is done has read all the fields and the whole buffer: no *)
(* get_*_size or obtener_tamanio_* announces more than is written and      *)
(* nothing is written that is not read.                                    *)
(***************************************************************************)
THEOREM NadaSobraEnElBuffer == Spec => []PaqueteExacto
<1>1. EnOrden => PaqueteExacto
  <2>1. SUFFICES ASSUME EnOrden, lector.fase = "campos", lector.pila = <<>>
                 PROVE  lector.datos = <<>> /\ Len(lector.leidos) = Len(Head(enVuelo).partes)
    BY DEF PaqueteExacto
  <2>2. PICK d, p, l, q : /\ d = lector.datos /\ p = lector.pila /\ l = lector.leidos
                          /\ q = Head(enVuelo).partes
    OBVIOUS
  <2>3. Avance(d, p, l, q)
    BY <2>1, <2>2, OrdenLeyendo
  <2>4. Lee(p, d) /\ l \in Seq(Leidos) /\ q \in Seq(Partes) /\ Len(l) + Len(d) = Len(q)
    BY <2>3, AvancePartes
  <2>5. d = <<>>
    BY <2>1, <2>2, <2>4, NadaQueLeer
  <2>6. Len(d) = 0 /\ Len(l) \in Nat
    BY <2>4, <2>5, LenProperties
  <2>7. Len(l) = Len(q)
    BY <2>4, <2>6
  <2>8. QED
    BY <2>2, <2>5, <2>7
<1>2. QED
  BY <1>1, EnOrdenSiempre, PTL

(***************************************************************************)
(* A thread that waits finds a header it has a case for, never the middle  *)
(* of a buffer, and none ends the process over an empty one                *)
(* (recibir_operacion and the switch of each receiving thread).            *)
(***************************************************************************)
THEOREM SiempreUnaOperacion == Spec => []CanalAlineado
<1>1. EnOrden => CanalAlineado
  <2>1. SUFFICES ASSUME EnOrden PROVE CanalAlineado
    OBVIOUS
  <2>2. lector.fase # "abortado"
    BY <2>1, EnEsperaEs, LeyendoEs DEF EnOrden, Esperando, Atendiendo
  <2>3. ASSUME lector.fase = "operacion", canal # <<>>
        PROVE  Head(canal).campo \in DOMAIN Atiende[conexion]
    <3>1. PICK c \in Conexiones : c = conexion
      BY <2>1 DEF EnOrden
    <3>2. PICK M : M = Envios[c]
      OBVIOUS
    <3>3. PICK q \in Seq(M) : q = enVuelo
      BY <2>1, <3>1, <3>2 DEF EnOrden
    <3>4. canal = Cola(q)
      BY <2>1, <2>3, <3>3, LeyendoEs DEF EnOrden, Esperando, Atendiendo
    <3>5. q # <<>>
      BY <2>3, <3>4, ColaVacia
    <3>6. PICK m \in M : m = Head(q)
      BY <3>5, HeadTailProperties
    <3>7. SeEnvian(M) /\ Sano(c, m)
      BY <3>2, SeEnvianTodos, TodosSanos
    <3>8. PICK r \in Seq(Partes) : r = Cola(Tail(q))
      BY <3>5, <3>7, ColaTipo, HeadTailProperties
    <3>9. canal = PackageSend(m) \o r
      BY <3>4, <3>5, <3>6, <3>7, <3>8, ColaPrimero
    <3>10. Head(canal).campo = m.header
      BY <3>7, <3>9, LlegaElPaquete
    <3>11. QED
      BY <3>1, <3>7, <3>10 DEF Sano
  <2>4. QED
    BY <2>2, <2>3 DEF CanalAlineado
<1>2. QED
  BY <1>1, EnOrdenSiempre, PTL
=============================================================================
