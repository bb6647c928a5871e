SPECIFICATION Spec
CONSTANTS
  io1 = io1
  io2 = io2
  MaxPid = 2
  NombresIO = {io1}
  Interfaces = {io1}
  Instrucciones = {"EXIT", "IO", "RESIZE"}
  MaxCanal = 2
  Algoritmo = "RR"
  GradoInicial = 1
  Grados = {1}
  MaxCambios = 0
  MaxFinalizar = 1
  MaxDetener = 0
INVARIANTS TokenCpu ExecuteCoherente UnidadesAlcanzan SobrantesAcotados
CHECK_DEADLOCK FALSE
