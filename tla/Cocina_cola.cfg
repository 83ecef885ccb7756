SPECIFICATION MC_Spec
CONSTANTS
  Pedidos = {p1, p2, p3}
  Txs = {t1, t2}
  LimiteInicial = 1
  Limites = {2}
  Ninguno = ninguno
  Datos <- MC_Datos
  TenantIds = {z1, z2, z3}
  Altas = {x1, x2}
  Bajas = {e1}
  MaxFallasAlta = 1
  MaxPedidas = 2
  MaxBajas = 1
  Ningun = Ningun
INVARIANTS
  CocinaBajoLimite
  ElegidosEnEspera
  KitCompleto
  BajaSinHuerfanas
PROPERTIES
  ColaJusta
  TxTermina
  AltaTermina
\* Every order ends delivered and the limit set, or every restaurant is set up,
\* and nothing is left to do.
CHECK_DEADLOCK FALSE
