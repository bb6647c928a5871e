SPECIFICATION Spec
CONSTANTS
    Largos <- LargosMC
    Cuentas <- CuentasMC
    MaxEnVuelo = 2
INVARIANTS TipoCorrecto LecturaFiel PaqueteExacto CanalAlineado
