SPECIFICATION MC_Spec
CONSTANTS
  Personas = {p1, p2}
  Cocinas = {k1}
  Solicitudes = {s1, s2}
  MaxPedidos = 2
  MaxFallas = 1
  Ninguna = Ninguna
  Instancias = {i1, i2}
  Consultas = {q1, q2}
  Plazo = 2
  MaxReloj = 3
  MaxCambios = 1
  Ninguno = Ninguno
  Platos = {b1}
  PorCrear = {b1}
  Secciones = {f1, f2}
  Primera = f1
  Paginas = {g1, g2}
  Escrituras = {w1}
  NoHay = NoHay
  MaxEscritos = 3
  MaxBajasSeccion = 1
  MaxCargasPagina = 2
  Carritos = {c1, c2}
  Vacio = Vacio
  MaxComandas = 2
  MaxIntentos = 1
  MaxAvisosMozo = 1
  MaxRecargas = 1
  Comprados = {o1}
  o1 = o1
  Ventas = {n1, n2}
  CompradoDe <- MC_CompradoDe
  Jobs = {j1, j2}
  j1 = j1
  VentanaHoras = 3
  MaxHora = 2
  MaxCalculos = 1
  SinCandado = SinCandado
  Filas = {t1, t2, t3}
  t1 = t1
  DeAntes <- MC_DeAntes
  Nuevas = {n1}
  Numeros = {1, 2}
  Editores = {e1, e2}
  e1 = e1
  SinId = SinId
  MaxEdiciones = 3
  MaxPercancesMapa = 1
  MaxAperturas = 2
  NTransacciones = 3
  NComandas = 2
  NPlatos = 2
  PlatosDe <- MC_PlatosDe
SYMMETRY MC_Simetria
INVARIANT NuncaSinAdmin
INVARIANT CuentaAcorde
INVARIANT BajaCierraSesiones
INVARIANT RecuerdoReciente
INVARIANT RecuerdoFiel
INVARIANT EdicionSinPisar
INVARIANT ArchivadaSinActivos
INVARIANT PagaLoQueVe
INVARIANT OfertaSegura
INVARIANT CobradoSeVe
INVARIANT MesaEnUsoNoSeBorra
INVARIANT MapaAcorde
INVARIANT CobrosNoSeTraban
CHECK_DEADLOCK FALSE
