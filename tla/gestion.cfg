SPECIFICATION Spec
CONSTANTS
  io1 = io1
  io2 = io2
  MaxPid = 2
  NombresIO = {io1}
  Interfaces = {io1}
  Instrucciones = {"EXIT", "IO"}
  MaxCanal = 2
  Algoritmo = "FIFO"
  GradoInicial = 1
  Grados = {1, 2}
  MaxCambios = 2
  MaxFinalizar = 0
  MaxDetener = 1
INVARIANTS TypeOK CuentaPlanes ConteoMultiprogramacion
PROPERTIES CaeSoloListando DetenidaNoAvanza
CHECK_DEADLOCK FALSE
