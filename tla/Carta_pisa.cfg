SPECIFICATION CartaSpec
CONSTANTS
  Platos = {i1}
  PorCrear = {}
  Secciones = {s1}
  Primera = s1
  Paginas = {g1, g2}
  Escrituras = {w1}
  NoHay = NoHay
  MaxEscritos = 3
  MaxBajasSeccion = 0
  MaxCargasPagina = 2
INVARIANT EdicionNuncaPisa
CHECK_DEADLOCK FALSE
