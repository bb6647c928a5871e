SPECIFICATION Spec
CONSTANTS
  PIDS = {1, 2}
  Angostos <- MCAngostos
  Anchos <- MCAnchos
  UINT8 = 4
  UINT32 = 16
  Programas <- MCProgramas
  ValoresMemoria = {0, 9}
INVARIANTS TypeContexto ContadorUnico
PROPERTIES CadaUnoLoSuyo
CHECK_DEADLOCK FALSE
