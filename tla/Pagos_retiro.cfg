SPECIFICATION MC_Spec
CONSTANTS
  m1 = m1
  p1 = p1
  p2 = p2
  k1 = k1
  k2 = k2
  e1 = e1
  Mesas = {m1}
  Virtuales = {m1}
  Pedidos = {p1}
  Claves = {k1, k2}
  MesaDe <- EnUnaMesa
  PedidoDe <- PorUnPedido
  Medio <- MedioDeCadaUno
  Avisos = {aviso1}
  Conciliacion = conciliacion
  MaxSesiones = 0
  OrdenTrasError = {"NO_EXISTE", "ACREDITADA"}
  Ninguna = ninguna
  Articulos = {a1, a2}
  Unidades = {0, 1, 2}
  Ilegible = Ilegible
  Nada = Nada
  Pantalla = Pantalla
  Campana = Campana
  MaxVentas = 2
  MaxAjustesOtros = 1
  MaxTecleos = 2
  MaxGuardados = 1
  MaxFallos = 1
  MC_Quieto = a2
  Ordenes = {q1, q2}
  q1 = q1
  Pases = {u1, u2}
  u1 = u1
  Tableros = {b1}
  Seguidores = {g1}
  Sigue <- MC_Sigue
  SinCola = SinCola
  LimitesCola = {1, SinCola}
  MaxCambiosOrden = 3
  MaxVistas = 1
SYMMETRY Tarjetas
INVARIANT ReembolsoJusto
INVARIANT VistaAlDia
INVARIANT TableroAlDia
INVARIANT SeguimientoAlDia
INVARIANT ColaAlDia
PROPERTY SoloLoTecleado
\* Every order ends resolved, or the sessions run out, and nothing is left to do.
CHECK_DEADLOCK FALSE
