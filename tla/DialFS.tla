-------------------------------- MODULE DialFS --------------------------------
(***************************************************************************)
(* The file system of a DialFS interface (comportamientos_dialfs.c): files *)
(* of contiguous blocks, one metadata file each, a bitmap and bloques.dat. *)
(*                                                                         *)
(* One thread serves one request at a time, so what a request writes to    *)
(* the disk depends only on the disk it finds: a request is a plan, and    *)
(* its writes are applied one by one. The interface may stop or crash      *)
(* between two of them; when it starts again it keeps the three files and  *)
(* reads its list of files from the directory. One write of a metadata     *)
(* file or of the bitmap is atomic here, although the code truncates and   *)
(* rewrites it.                                                            *)
(*                                                                         *)
(* The content of a block is a tag: which block of which file was last     *)
(* written there.                                                          *)
(***************************************************************************)
EXTENDS Naturals, Sequences, FiniteSets, SequencesExt, FiniteSetsExt, Listas

CONSTANTS Nombres,
          BlockSize,
          Bits,         \* bits of the bitmap: block_count rounded up to bytes
          Tamanos,      \* sizes of TRUNCATE
          Escrituras,   \* <<puntero, tamanio>> of WRITE and READ
          Ancho,        \* 2^32, where uint32_t wraps
          MaxPedidos,   \* bound: requests
          Nada          \* no metadata, no block, no file

\* Blocks of at least two bytes, and fewer blocks than uint32_t counts, so that
\* only the sizes wrap and not the numbers of the blocks.
ASSUME DialFSAssumption ==
    /\ Bits \in Nat \ {0} /\ Ancho \in Nat /\ 2 * Bits <= Ancho
    /\ BlockSize \in 2 .. Ancho
    /\ Tamanos \subseteq 0 .. Ancho - 1
    /\ Escrituras \subseteq Nat \X (Nat \ {0})
    /\ MaxPedidos \in Nat
    /\ Nada \notin Nombres \cup Nat \cup [bloque : Nat, tam : Nat]

Bloques == 0 .. Bits - 1

VARIABLES
    archivos,   \* fs->archivos
    metadata,   \* the metadata files of the directory
    bitmap,     \* the bits that are set
    bloques,    \* the tag of each block
    plan,       \* the request in progress and the writes it has left
    caido,      \* a metadata file that does not exist was read
    pedidos,    \* bound
    escrito,    \* history: blocks of a file its processes wrote
    duplicado,  \* history: a CREATE of a name of the list since the start
    sano        \* history: nothing happened that the code does not survive

disco == <<metadata, bitmap, bloques>>
vars  == <<archivos, disco, plan, caido, pedidos, escrito, duplicado, sano>>

Basura  == <<Nada, 0>>
SinPlan == [nombre |-> Nada, escrituras |-> <<>>, inocuo |-> TRUE]

Init ==
    /\ archivos = <<>>
    /\ metadata = [n \in Nombres |-> Nada]
    /\ bitmap = {}
    /\ bloques = [b \in Bloques |-> Basura]
    /\ plan = SinPlan
    /\ caido = FALSE
    /\ pedidos = 0
    /\ escrito = [n \in Nombres |-> {}]
    /\ duplicado = FALSE
    /\ sano = TRUE

-----------------------------------------------------------------------------
(***************************************************************************)
(* One write to the disk.                                                  *)
(***************************************************************************)
Usar(b)    == [tipo |-> "usar", bloque |-> b]
Liberar(b) == [tipo |-> "liberar", bloque |-> b]
Borrar(n)  == [tipo |-> "borrar", nombre |-> n]
Pisar(b)   == [tipo |-> "pisar", bloque |-> b]
Metadata(n, b, t) == [tipo |-> "metadata", nombre |-> n, bloque |-> b, tam |-> t]
Copiar(desde, hasta, cant) ==
    [tipo |-> "copiar", desde |-> desde, hasta |-> hasta, cant |-> cant]
Escribir(n, inicial, bs) ==
    [tipo |-> "escribir", nombre |-> n, bloque |-> inicial, bloques |-> bs]

\* copiar_bloques, copiar_bloque_desde_buffer and the fwrite of a WRITE.
BloquesTras(e) ==
    [b \in Bloques |->
       IF e.tipo = "copiar" /\ e.hasta <= b /\ b < e.hasta + e.cant
       THEN LET origen == e.desde + (b - e.hasta)
            IN  IF origen \in Bloques THEN bloques[origen] ELSE Basura
       ELSE IF e.tipo = "pisar" /\ b = e.bloque THEN Basura
       ELSE IF e.tipo = "escribir" /\ b \in e.bloques
       THEN IF b >= e.bloque THEN <<e.nombre, b - e.bloque>> ELSE Basura
       ELSE bloques[b]]

BitmapSinLimite(e) ==
    IF e.tipo = "usar" THEN bitmap \cup {e.bloque}
    ELSE IF e.tipo = "liberar" THEN bitmap \ {e.bloque}
    ELSE bitmap

\* set_block_as_used and set_block_as_free write inside of the bitmap only.
BitmapTras(e) ==
    IF e.tipo = "usar" THEN bitmap \cup ({e.bloque} \cap Bloques)
    ELSE IF e.tipo = "liberar" THEN bitmap \ {e.bloque}
    ELSE bitmap

\* create_metadata, write_metadata and remove.
MetadataTras(e) ==
    IF e.tipo = "metadata"
    THEN [metadata EXCEPT ![e.nombre] = [bloque |-> e.bloque, tam |-> e.tam]]
    ELSE IF e.tipo = "borrar" THEN [metadata EXCEPT ![e.nombre] = Nada]
    ELSE metadata

DejarEnLaLista(n) == archivos

\* The end of eliminar_archivo.
SacarDeLaLista(n) == ListRemoveElement(archivos, n)

EscribirDisco ==
    /\ plan.escrituras # <<>>
    /\ LET e == Head(plan.escrituras)
       IN  /\ bloques' = BloquesTras(e)
           /\ bitmap' = BitmapTras(e)
           /\ metadata' = MetadataTras(e)
           /\ archivos' = IF e.tipo = "borrar" THEN SacarDeLaLista(e.nombre)
                                               ELSE archivos
    /\ plan' = IF Len(plan.escrituras) = 1 THEN SinPlan
               ELSE [plan EXCEPT !.escrituras = Tail(@)]
    /\ LET e == Head(plan.escrituras)
       IN  escrito' = IF e.tipo = "escribir"
                      THEN [escrito EXCEPT ![e.nombre] =
                              @ \cup {b - e.bloque :
                                        b \in {x \in e.bloques : x >= e.bloque}}]
                      ELSE escrito
    /\ UNCHANGED <<caido, pedidos, duplicado, sano>>

\* crear_dialfs of the next start; readdir gives the names in any order.
Reiniciar ==
    /\ archivos' \in SetToSeqs({n \in Nombres : metadata[n] # Nada})
    /\ plan' = SinPlan
    /\ caido' = FALSE
    /\ duplicado' = FALSE
    /\ sano' = (sano /\ plan.inocuo)
    /\ UNCHANGED <<disco, pedidos, escrito>>

-----------------------------------------------------------------------------
(***************************************************************************)
(* Compaction.                                                             *)
(***************************************************************************)
\* (tam + block_size - 1) / block_size, in 32 bits: 0 for 0 and for the
\* largest sizes.
EnBloques(tam) == ((tam + BlockSize - 1) % Ancho) \div BlockSize

\* A file of size 0 has one block; one of the largest sizes, none.
Ocupa(tam) == IF tam > 0 THEN EnBloques(tam) ELSE 1

PrimerBloqueLibre ==
    LET libres == Bloques \ bitmap
    IN  IF libres = {} THEN Nada ELSE Min(libres)

\* obtener_archivo_por_bloque_inicial: the first of the list.
PorBloqueInicial(md, b) ==
    LET son == {k \in DOMAIN archivos : /\ md[archivos[k]] # Nada
                                        /\ md[archivos[k]].bloque = b}
    IN  IF son = {} THEN Nada ELSE archivos[Min(son)]

\* The blocks that the bytes of a file reach, without the sum of EnBloques.
Abarca(tam) == (tam + BlockSize - 1) \div BlockSize

\* mover_bloques_archivo moves the file that starts at m.sig to m.pegar, and
\* answers the number of its blocks: 0 is taken for an error.
TamanioDelTruncado(m, n, truncado) == m.md[truncado].tam

TamanioDelMovido(m, n, truncado) == m.md[n].tam

MoverBloquesArchivo(m, truncado) ==
    LET n == PorBloqueInicial(m.md, m.sig)
    IN  IF n = Nada THEN [m EXCEPT !.ok = FALSE]
        ELSE LET tam == TamanioDelMovido(m, n, truncado)
             IN  [ok |-> Ocupa(tam) > 0,
                  md |-> [m.md EXCEPT ![n] = [bloque |-> m.pegar, tam |-> tam]],
                  escrituras |-> m.escrituras
                                   \o <<Copiar(m.sig, m.pegar, Abarca(tam)),
                                        Metadata(n, m.pegar, tam)>>,
                  sig |-> m.sig + Ocupa(tam),
                  pegar |-> m.pegar + Ocupa(tam)]

\* The first block looked for after the file is one too far when its size is
\* a positive multiple of the block size.
PrimerBloqueSiguiente(inicial, tam) == inicial + tam \div BlockSize + 1

\* The loop of compactar: every file up to the first free block.  It has
\* ended when it has moved as many files as there are blocks.
Mudar(m, libre, n) ==
    IF m.ok /\ m.sig < libre THEN MoverBloquesArchivo(m, n) ELSE m

Mudanza(inicio, libre, n) ==
    LET pasos[k \in 0 .. Bits] ==
          IF k = 0 THEN inicio ELSE Mudar(pasos[k - 1], libre, n)
    IN  pasos[Bits]

\* compactar moves the files and then writes one block from past the end of
\* the buffer at the place it leaves for the file.
Compactar(n) ==
    LET inicial == metadata[n].bloque
        tam     == metadata[n].tam
        libre   == PrimerBloqueLibre
        inicio  == [ok |-> libre # Nada, md |-> metadata, escrituras |-> <<>>,
                    sig |-> PrimerBloqueSiguiente(inicial, tam),
                    pegar |-> inicial]
        fin     == Mudanza(inicio, libre, n)
    IN  IF fin.ok
        THEN [fin EXCEPT !.escrituras =
                @ \o <<Pisar(fin.pegar), Metadata(n, fin.pegar, tam)>>]
        ELSE fin

Mueve(n, c)  == c.pegar # metadata[n].bloque
Multiplo(n)  == metadata[n].tam > 0 /\ metadata[n].tam % BlockSize = 0

\* A compaction that leaves the other files whole.
Compacta(n, c) == Mueve(n, c) => c.ok /\ ~Multiplo(n)

-----------------------------------------------------------------------------
(***************************************************************************)
(* truncar_archivo: the writes it makes and whether it succeeds.           *)
(***************************************************************************)
Bajando(desde, hasta) ==
    [k \in 1 .. (desde + 1) - hasta |-> desde + 1 - k]

Achicar(n, nuevo) ==
    LET c      == Compactar(n)
        viejos == Ocupa(metadata[n].tam)
        libera == Bajando(viejos - 1, EnBloques(nuevo))
    IN  IF c.ok
        THEN c.escrituras \o <<Metadata(n, c.pegar, nuevo)>>
               \o [k \in DOMAIN libera |-> Liberar(c.pegar + libera[k])]
        ELSE c.escrituras

Nuevos(inicial, viejos, nuevo) ==
    [k \in 1 .. EnBloques(nuevo) - viejos |-> Usar(inicial + viejos + k - 1)]

MetadataAntesQueBits(n, nuevo) ==
    LET inicial == metadata[n].bloque
    IN  <<Metadata(n, inicial, nuevo)>>
          \o Nuevos(inicial, Ocupa(metadata[n].tam), nuevo)

AgrandarAlLado(n, nuevo) ==
    LET inicial == metadata[n].bloque
    IN  Nuevos(inicial, Ocupa(metadata[n].tam), nuevo)
          \o <<Metadata(n, inicial, nuevo)>>

AgrandarCompactando(n, nuevo) ==
    LET c == Compactar(n)
    IN  IF c.ok
        THEN c.escrituras \o <<Metadata(n, c.pegar, nuevo)>>
               \o Nuevos(c.pegar, Ocupa(metadata[n].tam), nuevo)
        ELSE c.escrituras

Siguientes(n, nuevo) ==
    LET fin == metadata[n].bloque + Ocupa(metadata[n].tam)
    IN  fin .. metadata[n].bloque + EnBloques(nuevo) - 1

-----------------------------------------------------------------------------
(***************************************************************************)
(* The requests (atender_solicitud_dialfs). The first argument of Hacer is *)
(* the plan; then whether the disk survives a crash in the middle, and     *)
(* whether it survives the request.                                        *)
(***************************************************************************)
Pedido == /\ plan = SinPlan /\ ~caido
          /\ pedidos < MaxPedidos
          /\ pedidos' = pedidos + 1

Hacer(n, escrituras, inocuo, bien) ==
    /\ plan' = IF escrituras = <<>> THEN SinPlan
               ELSE [nombre |-> n, escrituras |-> escrituras,
                     inocuo |-> inocuo]
    /\ sano' = (sano /\ bien)

NoHacer == UNCHANGED <<plan, sano>>

\* buscar_archivo, and the file has its metadata.
Hay(n) == n \in ToSet(archivos) /\ metadata[n] # Nada

\* The size of a file of the list without metadata is read: config_create
\* gives NULL.
LeerMetadataNula(n) ==
    /\ Pedido
    /\ n \in ToSet(archivos) /\ metadata[n] = Nada
    /\ caido' = TRUE
    /\ UNCHANGED <<archivos, disco, plan, escrito, duplicado, sano>>

\* tamano_archivo gives 2^32 - 1 when it fails, and that size reads the same.
ErrorAlLeer(n) == metadata[n].tam = Ancho - 1

\* A request for a file that is not in the list fails, and so do a TRUNCATE and
\* a DELETE of one whose size reads as an error.
Fallar(n) ==
    /\ Pedido
    /\ n \notin ToSet(archivos) \/ (Hay(n) /\ ErrorAlLeer(n))
    /\ UNCHANGED <<archivos, disco, plan, caido, escrito, duplicado, sano>>

\* The code does not look for the name first.
CrearArchivo(n) ==
    /\ Pedido
    /\ LET libre == PrimerBloqueLibre
       IN  IF libre = Nada
           THEN NoHacer /\ UNCHANGED <<archivos, escrito, duplicado>>
           ELSE /\ archivos' = Append(archivos, n)
                /\ Hacer(n, <<Usar(libre), Metadata(n, libre, 0)>>, TRUE,
                         metadata[n] = Nada)
                /\ escrito' = [escrito EXCEPT ![n] = {}]
                /\ duplicado' = (duplicado \/ n \in ToSet(archivos))
    /\ UNCHANGED <<disco, caido>>

\* A file of size 0 keeps its block marked, and so does one with no blocks.
EliminarArchivo(n) ==
    /\ Pedido
    /\ Hay(n) /\ ~ErrorAlLeer(n)
    /\ LET c == Compactar(n)
       IN  IF metadata[n].tam = 0 \/ Ocupa(metadata[n].tam) = 0
           THEN Hacer(n, <<Borrar(n)>>, TRUE, TRUE)
           ELSE Hacer(n, Achicar(n, 0) \o (IF c.ok THEN <<Borrar(n)>> ELSE <<>>),
                      FALSE, Compacta(n, c))
    /\ escrito' = [escrito EXCEPT ![n] = {}]
    /\ UNCHANGED <<archivos, disco, caido, duplicado>>

\* TRUNCATE to fewer blocks compacts first.
TruncarMenos(n, nuevo) ==
    /\ Pedido
    /\ Hay(n) /\ ~ErrorAlLeer(n) /\ nuevo # metadata[n].tam
    /\ EnBloques(nuevo) < Ocupa(metadata[n].tam)
    /\ LET c == Compactar(n)
       IN  Hacer(n, Achicar(n, nuevo), ~Mueve(n, c) /\ EnBloques(nuevo) > 0,
                 Compacta(n, c) /\ EnBloques(nuevo) > 0)
    /\ escrito' = [escrito EXCEPT ![n] = {}]
    /\ UNCHANGED <<archivos, disco, caido, duplicado>>

\* TRUNCATE to more blocks takes the next ones if they are free; a bit past
\* the end of the bitmap reads as anything.
TruncarMas(n, nuevo) ==
    /\ Pedido
    /\ Hay(n) /\ ~ErrorAlLeer(n)
    /\ EnBloques(nuevo) > Ocupa(metadata[n].tam)
    /\ Siguientes(n, nuevo) \cap bitmap = {}
    /\ Hacer(n, AgrandarAlLado(n, nuevo), TRUE,
             Siguientes(n, nuevo) \subseteq Bloques)
    /\ UNCHANGED <<archivos, disco, caido, escrito, duplicado>>

TruncarMasCompactando(n, nuevo) ==
    /\ Pedido
    /\ Hay(n) /\ ~ErrorAlLeer(n)
    /\ EnBloques(nuevo) > Ocupa(metadata[n].tam)
    /\ \/ Siguientes(n, nuevo) \cap bitmap # {}
       \/ ~(Siguientes(n, nuevo) \subseteq Bloques)
    /\ LET c == Compactar(n)
           toma == (c.pegar + Ocupa(metadata[n].tam)) ..
                     (c.pegar + EnBloques(nuevo) - 1)
       IN  Hacer(n, AgrandarCompactando(n, nuevo), FALSE,
                 Compacta(n, c) /\ (c.ok => toma \subseteq Bloques \ bitmap))
    /\ escrito' = [escrito EXCEPT ![n] = {}]
    /\ UNCHANGED <<archivos, disco, caido, duplicado>>

\* The same number of blocks: the size is written only from 0 to less than
\* one block.
TruncarIgual(n, nuevo) ==
    /\ Pedido
    /\ Hay(n) /\ ~ErrorAlLeer(n)
    /\ \/ nuevo = metadata[n].tam
       \/ EnBloques(nuevo) = Ocupa(metadata[n].tam)
    /\ IF nuevo # metadata[n].tam /\ nuevo < BlockSize /\ metadata[n].tam = 0
       THEN Hacer(n, <<Metadata(n, metadata[n].bloque, nuevo)>>, TRUE, TRUE)
       ELSE NoHacer
    /\ UNCHANGED <<archivos, disco, caido, escrito, duplicado>>

EntraSinMirar(n, puntero, tam) == TRUE

\* puntero_archivo + tamanio > tamanio_archivo, in 32 bits.
EntraEnArchivo(n, puntero, tam) == (puntero + tam) % Ancho <= metadata[n].tam

EscribirArchivo(n, puntero, tam) ==
    /\ Pedido
    /\ Hay(n)
    /\ LET inicial == metadata[n].bloque
           primero == (inicial * BlockSize + puntero) % Ancho
           tocados == (primero \div BlockSize) ..
                        ((primero + tam - 1) \div BlockSize)
       IN  IF EntraEnArchivo(n, puntero, tam)
           THEN Hacer(n, <<Escribir(n, inicial, tocados)>>, TRUE,
                      puntero + tam < Ancho)
           ELSE NoHacer
    /\ UNCHANGED <<archivos, disco, caido, escrito, duplicado>>

Pedir ==
    \E n \in Nombres :
      \/ LeerMetadataNula(n) \/ Fallar(n)
      \/ CrearArchivo(n) \/ EliminarArchivo(n)
      \/ \E t \in Tamanos :
           \/ TruncarMenos(n, t) \/ TruncarMas(n, t)
           \/ TruncarMasCompactando(n, t) \/ TruncarIgual(n, t)
      \/ \E e \in Escrituras : EscribirArchivo(n, e[1], e[2])

Next == Pedir \/ EscribirDisco \/ Reiniciar

Spec == Init /\ [][Next]_vars

-----------------------------------------------------------------------------
(***************************************************************************)
(* TYPE.                                                                   *)
(***************************************************************************)
TypeDialFS ==
    /\ archivos \in Seq(Nombres)
    /\ metadata \in [Nombres -> [bloque : Nat, tam : Nat] \cup {Nada}]
    /\ bitmap \subseteq Bloques
    /\ bloques \in [Bloques -> (Nombres \X Nat) \cup {Basura}]
    /\ plan.nombre \in Nombres \cup {Nada}
    /\ plan.inocuo \in BOOLEAN
    /\ \A k \in DOMAIN plan.escrituras :
         plan.escrituras[k].tipo \in
           {"usar", "liberar", "borrar", "pisar", "metadata", "copiar",
            "escribir"}
    /\ pedidos \in 0 .. MaxPedidos
    /\ escrito \in [Nombres -> SUBSET Nat]
    /\ {caido, duplicado, sano} \subseteq BOOLEAN

(***************************************************************************)
(* SAFETY.  Between requests no two files share a block and the blocks of  *)
(* every file are marked, through any mix of requests, compactions, stops  *)
(* and crashes, until one of the things the code does not survive happens: *)
(* a CREATE of a file that exists, a TRUNCATE to no blocks (to 0, or to a   *)
(* size whose count of blocks wraps to 0), a compaction for a file whose   *)
(* size is a multiple of the block size or that meets a block no file      *)
(* starts at, growing over blocks that are not free, a WRITE whose end     *)
(* wraps, or a crash in the middle of a compaction or of a DELETE.         *)
(***************************************************************************)
BloquesDe(n) ==
    metadata[n].bloque .. metadata[n].bloque + Ocupa(metadata[n].tam) - 1

Existentes == {n \in Nombres : metadata[n] # Nada}

BloquesDisjuntos ==
    sano /\ plan = SinPlan =>
      \A n \in Existentes :
        /\ BloquesDe(n) \subseteq bitmap
        /\ \A m \in Existentes \ {n} : BloquesDe(n) \cap BloquesDe(m) = {}

(***************************************************************************)
(* SAFETY.  Under the same conditions, what was written to a block of a    *)
(* file is there, wherever compactions moved it, unless the file itself    *)
(* was truncated with a compaction, which loses its content.               *)
(***************************************************************************)
ContenidoPropio ==
    sano /\ plan = SinPlan =>
      \A n \in Existentes : \A k \in escrito[n] :
        bloques[metadata[n].bloque + k] = <<n, k>>

(***************************************************************************)
(* ACTION.  A step changes the size of a file, or takes its metadata away, *)
(* only for the request of that file: compacting rewrites the metadata of  *)
(* others, before and after a crash and on a broken disk, with the size    *)
(* they have.                                                              *)
(***************************************************************************)
TamanosAjenos ==
    [][\A n \in Existentes :
         \/ n = plan.nombre
         \/ metadata'[n] # Nada /\ metadata'[n].tam = metadata[n].tam]_vars

(***************************************************************************)
(* SAFETY.  Between requests the list names the files of the directory,    *)
(* and the metadata of a file that has none is never read, unless a name   *)
(* was created twice since the interface started.                          *)
(***************************************************************************)
ListaFiel ==
    /\ caido => duplicado
    /\ ~duplicado /\ plan = SinPlan =>
         /\ ToSet(archivos) = Existentes
         /\ Len(archivos) = Cardinality(Existentes)
=============================================================================
