SPECIFICATION Spec
CONSTANTS
    f1 = f1
    f2 = f2
    f3 = f3
    Nombres <- NombresMC
    BlockSize = 3
    Bits = 8
    Tamanos <- TamanosMC
    Escrituras <- EscriturasMC
    Ancho = 32
    MaxPedidos = 6
    Nada = nada
CHECK_DEADLOCK FALSE
SYMMETRY Simetria
INVARIANTS TypeDialFS BloquesDisjuntos ContenidoPropio ListaFiel
PROPERTIES TamanosAjenos
