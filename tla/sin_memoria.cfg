SPECIFICATION SpecJusta
CONSTANTS
  io1 = io1
  io2 = io2
  MaxPid = 2
  NombresIO = {io1}
  Interfaces = {io1}
  Instrucciones = {"EXIT", "RESIZE"}
  MaxCanal = 2
  Algoritmo = "FIFO"
  GradoInicial = 2
  Grados = {2}
  MaxCambios = 0
  MaxFinalizar = 0
  MaxDetener = 0
PROPERTIES PcbRecibido
CHECK_DEADLOCK FALSE
