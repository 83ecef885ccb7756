SPECIFICATION Spec
CONSTANTS
  Pedidos = {p1}
  Txs = {t1, t2}
  LimiteInicial = 1
  Limites = {}
  Ninguno = ninguno
PROPERTIES
  SoloTransicionesPermitidas
\* Every order ends delivered and the limit set, and nothing is left to do.
CHECK_DEADLOCK FALSE
