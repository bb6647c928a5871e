SPECIFICATION SpecJusta
CONSTANTS
  io1 = io1
  io2 = io2
  MaxPid = 2
  NombresIO = {io1, io2}
  Interfaces = {io1}
  Instrucciones = {"EXIT", "IO"}
  MaxCanal = 1
  Algoritmo = "RR"
  GradoInicial = 2
  Grados = {2}
  MaxCambios = 0
  MaxFinalizar = 0
  MaxDetener = 0
INVARIANTS TokenCpu
PROPERTIES CicloRespetado TodosTerminanSinCaidas
CHECK_DEADLOCK FALSE
