SPECIFICATION BloqueosSpec
CONSTANTS
    p1 = p1
    p2 = p2
    p3 = p3
    r1 = r1
    io1 = io1
    Pids <- PidsMC
    Nombres <- NombresMC
    Instancias <- InstanciasMC
    Ios <- IosMC
    Desconocido = desconocido
    Nadie = nadie
    SinLista = sinLista
    MaxRegalos = 1
CHECK_DEADLOCK FALSE
SYMMETRY Simetria
INVARIANTS TypeBloqueos UnSoloPuesto Conservacion UnTurno SinEsperaInutil CaeSoloPorCarrera DuenoDelMutex
