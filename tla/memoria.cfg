SPECIFICATION Spec
CONSTANTS
    Pids <- PidsMC
    NumFrames = 3
    PageSize = 2
    Claves = 2
    SinMarco = 9
    CantidadEntradasTlb = 2
    AlgoritmoTlb = "LRU"
    Direcciones <- DireccionesMC
    Destinos <- DestinosMC
    Tamanos <- TamanosMC
    TamanosResize <- TamanosResizeMC
    MaxInstrucciones = 3
CHECK_DEADLOCK FALSE
INVARIANTS TypeMemoria MarcosCuadran PaginasPresentes CadaByteEnSuLugar EnVueloPropio RespuestaPropia
