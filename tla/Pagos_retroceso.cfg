SPECIFICATION Spec
CONSTANTS
  m1 = m1
  p1 = p1
  p2 = p2
  k1 = k1
  k2 = k2
  e1 = e1
  Mesas = {m1}
  Virtuales = {m1}
  Pedidos = {p1}
  Claves = {k1}
  MesaDe <- EnUnaMesa
  PedidoDe <- PorUnPedido
  Medio <- MedioDeCadaUno
  Avisos = {aviso1}
  Conciliacion = conciliacion
  MaxSesiones = 0
  OrdenTrasError = {"NO_EXISTE"}
  Ninguna = ninguna
PROPERTIES
  EstadoNoRetrocede
\* Every order ends resolved, or the sessions run out, and nothing is left to do.
CHECK_DEADLOCK FALSE
