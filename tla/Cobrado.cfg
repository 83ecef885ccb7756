SPECIFICATION MC_Spec
CONSTANTS
  NPagosCfe = 1
  Replicas = {r1, r2}
  ReintentosFondo = 1
  MaxIntentosCfe = 2
  Lote = 1
  MaxPercances = 2
  Cfes = {c1, c2}
  ReplicasDgi = {d1, d2}
  MaxCorridas = 3
  Nulo = Nulo
  NItems = 2
  PedidosStock = {v1, v2}
  v1 = v1
  v2 = v2
  CantidadPedida <- MC_CantidadPedida
  Ajustes = {a1}
  Cargas = {0, 3}
  StockInicial <- MC_StockInicial
  MaxManos = 1
  Nadie = Nadie
  MesasSala = {m1}
  m1 = m1
  PedidosEfectivo = {y1}
  MesaDe <- MC_MesaDe
  Pantallas = {w1, w2}
  Respuestas = {h1}
  Llamado = Llamado
  Nada = Nada
  MaxAlertas = 2
  MaxCortes = 2
INVARIANT DosDocumentosSoloSi
INVARIANT ComprobanteFiel
INVARIANT CadaEstadoSeCuentaUnaVez
INVARIANT StockCuadra
INVARIANT AlertaVisible
INVARIANT AceptadoNoVuelve
PROPERTY TodoPagoSeResuelve
CHECK_DEADLOCK FALSE
