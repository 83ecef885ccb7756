--------------------------- MODULE Jornada_proofs ---------------------------
(***************************************************************************)
(* What is proved of the page of the day: what a save sends was typed.     *)
(*                                                                         *)
(* The page is empty until its first load arrives.  From then on every     *)
(* field of its form is what the page has of the server, or the last text  *)
(* that was typed in it: that is the invariant, and it is what the merge   *)
(* with a load (fusionarConServidor) has to keep.                          *)
(*                                                                         *)
(* Then of what the page and the bell show: what a reader does not have of *)
(* the last change is in an event or in a load that is on its way to it.   *)
(***************************************************************************)
EXTENDS Jornada, TLAPS

\* A form has all the fields of all the items.
EsFormulario(f) == f = [a \in Articulos |-> [c \in Campos |-> f[a][c]]]

PaginaVacia ==
  /\ formulario = Nada /\ vista[Pantalla] = Nada
  /\ dibujado.formulario = Nada /\ guardado[Pantalla].fase = "nada"

\* Each field is what the page loaded, or what was typed.
PaginaFiel ==
  /\ EsFormulario(formulario) /\ EsFormulario(tecleado)
  /\ \A a \in Articulos, c \in Campos :
       formulario[a][c] = vista[Pantalla][a][c] \/ formulario[a][c] = tecleado[a][c]

PaginaInv ==
  /\ DOMAIN vista = LectoresStock /\ DOMAIN guardado = LectoresStock
  /\ PaginaVacia \/ PaginaFiel

LEMMA PaginaInicio == JornadaInit => PaginaInv
BY DEF JornadaInit, PaginaInv, PaginaVacia, SinDibujar, SinGuardar, LectoresStock

\* A step that changes neither what the page has nor what is typed in it.
LEMMA PaginaQuieta ==
  ASSUME PaginaInv, UNCHANGED <<vista, formulario, tecleado>>,
         DOMAIN guardado' = LectoresStock,
         PaginaVacia => dibujado'.formulario = Nada /\ guardado'[Pantalla].fase = "nada"
  PROVE  PaginaInv'
BY DEF PaginaInv, PaginaVacia, PaginaFiel, EsFormulario

LEMMA DosLectores == Pantalla \in LectoresStock /\ Campana \in LectoresStock /\ Pantalla # Campana
BY JornadaAssumption DEF LectoresStock

\* What a reader of the stock does on its own.
LEMMA LectorPagina ==
  ASSUME PaginaInv, NEW l \in LectoresStock, LectorNext(l)
  PROVE  PaginaInv'
<1>1. UNCHANGED paginaVars
  BY DEF LectorNext, Conectar, EntrarALaSala, Cortar, LlegaAviso, VenceEspera,
         RenovarToken, AplicarGuardado, FallarGuardado, LeerCarga, FallarCarga
<1>2. CASE UNCHANGED guardado
  BY <1>1, <1>2, PaginaQuieta DEF paginaVars, PaginaVacia, PaginaInv
<1>3. CASE FallarGuardado(l)
  BY <1>1, <1>3, PaginaQuieta, DosLectores
     DEF paginaVars, PaginaVacia, PaginaInv, FallarGuardado, SinGuardar
<1>4. CASE AplicarGuardado(l)
  <2>1. /\ guardado[l].fase = "enviado" /\ DOMAIN guardado' = LectoresStock
        /\ l # Pantalla => guardado'[Pantalla] = guardado[Pantalla]
    BY <1>4, DosLectores DEF AplicarGuardado, PaginaInv
  <2> QED BY <1>1, <2>1, PaginaQuieta DEF paginaVars, PaginaVacia
<1> QED
  BY <1>2, <1>3, <1>4 DEF LectorNext, Conectar, EntrarALaSala, Cortar, LlegaAviso,
     VenceEspera, RenovarToken, LeerCarga, FallarCarga

\* A load arrives: what was not typed takes its value, what was keeps it.
LEMMA CargaPagina ==
  ASSUME PaginaInv, NEW c, LlegaCargaPantalla(c)
  PROVE  PaginaInv'
<1>1. /\ DOMAIN vista' = LectoresStock /\ vista'[Pantalla] = c.leido
      /\ UNCHANGED <<guardado, dibujado>>
  BY DosLectores DEF LlegaCargaPantalla, PaginaInv
<1>2. /\ tecleado' = [a \in Articulos |-> [k \in Campos |-> tecleado'[a][k]]]
      /\ \A a \in Articulos, k \in Campos :
           vista[Pantalla] # Nada /\ ~Intacto(a, k) => tecleado'[a][k] = tecleado[a][k]
  BY DEF LlegaCargaPantalla
<1>3. /\ formulario' = [a \in Articulos |-> [k \in Campos |-> formulario'[a][k]]]
      /\ \A a \in Articulos, k \in Campos :
           \/ formulario'[a][k] = c.leido[a][k]
           \/ /\ vista[Pantalla] # Nada /\ ~Intacto(a, k)
              /\ formulario'[a][k] = formulario[a][k]
  <2>1. CASE vista[Pantalla] = Nada
    BY <2>1 DEF LlegaCargaPantalla, FormularioDesde, DeFila
  <2>2. CASE vista[Pantalla] # Nada
    BY <2>2 DEF LlegaCargaPantalla, Fusionar
  <2> QED BY <2>1, <2>2
<1>4. \A a \in Articulos, k \in Campos :
        vista[Pantalla] # Nada /\ ~Intacto(a, k) => formulario[a][k] = tecleado[a][k]
  BY DEF PaginaInv, PaginaVacia, PaginaFiel, Intacto
<1>5. PaginaFiel'
  BY <1>1, <1>2, <1>3, <1>4 DEF PaginaFiel, EsFormulario
<1> QED BY <1>1, <1>5 DEF PaginaInv

LEMMA TecleoPagina ==
  ASSUME PaginaInv, NEW a \in Articulos, NEW c \in Campos, NEW v, Teclear(a, c, v)
  PROVE  PaginaInv'
<1>1. PaginaFiel /\ UNCHANGED <<vista, guardado>>
  BY DEF Teclear, PaginaAbierta, PaginaInv, PaginaVacia
<1>2. /\ formulario' = [formulario EXCEPT ![a][c] = v]
      /\ tecleado' = [tecleado EXCEPT ![a][c] = v]
  BY DEF Teclear
<1>3. EsFormulario(formulario) /\ EsFormulario(tecleado)
  BY <1>1 DEF PaginaFiel
<1>4. /\ EsFormulario(formulario)'
      /\ \A b \in Articulos, k \in Campos :
           formulario'[b][k] = IF b = a /\ k = c THEN v ELSE formulario[b][k]
  BY <1>2, <1>3 DEF EsFormulario
<1>5. /\ EsFormulario(tecleado)'
      /\ \A b \in Articulos, k \in Campos :
           tecleado'[b][k] = IF b = a /\ k = c THEN v ELSE tecleado[b][k]
  BY <1>2, <1>3 DEF EsFormulario
<1>6. PaginaFiel'
  BY <1>1, <1>4, <1>5 DEF PaginaFiel
<1> QED BY <1>1, <1>6 DEF PaginaInv

LEMMA DescartePagina ==
  ASSUME PaginaInv, Descartar
  PROVE  PaginaInv'
<1>1. UNCHANGED <<vista, guardado>>
  BY DEF Descartar
<1>2. formulario' = [a \in Articulos |-> [k \in Campos |-> vista[Pantalla][a][k]]]
  BY DEF Descartar, FormularioDesde, DeFila
<1>3. tecleado' = [a \in Articulos |-> [k \in Campos |-> Nada]]
  BY DEF Descartar, SinTeclear
<1>4. PaginaFiel'
  BY <1>1, <1>2, <1>3 DEF PaginaFiel, EsFormulario
<1> QED BY <1>1, <1>4 DEF PaginaInv

\* The rows of the answer are in the form as they are in the page.
LEMMA RespuestaPagina ==
  ASSUME PaginaInv, LlegaGuardado
  PROVE  PaginaInv'
<1>1. PaginaFiel
  BY DEF PaginaInv, PaginaVacia, LlegaGuardado
<1> DEFINE nuevas == guardado[Pantalla].respuesta
           suyos == Ajustados(guardado[Pantalla].pide)
<1>2. /\ DOMAIN vista' = LectoresStock /\ DOMAIN guardado' = LectoresStock
      /\ \A a \in Articulos :
           vista'[Pantalla][a] = IF a \in suyos THEN nuevas[a] ELSE vista[Pantalla][a]
  BY DosLectores DEF LlegaGuardado, PaginaInv
<1>3. /\ formulario' = [a \in Articulos |->
           IF a \in suyos THEN [k \in Campos |-> nuevas[a][k]] ELSE formulario[a]]
      /\ tecleado' = [a \in Articulos |->
           IF a \in suyos THEN [k \in Campos |-> Nada] ELSE tecleado[a]]
  BY DEF LlegaGuardado, DeFila, SinTeclear
<1> HIDE DEF nuevas, suyos
<1>4. EsFormulario(formulario)' /\ EsFormulario(tecleado)'
  BY <1>1, <1>3 DEF PaginaFiel, EsFormulario
<1>5. \A a \in Articulos, k \in Campos :
        formulario'[a][k] = vista'[Pantalla][a][k] \/ formulario'[a][k] = tecleado'[a][k]
  BY <1>1, <1>2, <1>3 DEF PaginaFiel
<1> QED BY <1>2, <1>4, <1>5 DEF PaginaInv, PaginaFiel

\* Every step keeps the invariant.
LEMMA PaginaPaso == PaginaInv /\ [JornadaNext]_jornadaVars => PaginaInv'
<1> SUFFICES ASSUME PaginaInv, [JornadaNext]_jornadaVars PROVE PaginaInv'
  OBVIOUS
<1>1. CASE ServidorNext
  BY <1>1, PaginaQuieta
     DEF ServidorNext, Vender, AjustarOtro, paginaVars, PaginaVacia, PaginaInv
<1>2. ASSUME NEW l \in LectoresStock, LectorNext(l) PROVE PaginaInv'
  BY <1>2, LectorPagina
<1>3. CASE Dibujar
  BY <1>3, PaginaQuieta DEF Dibujar, PorDibujar, PaginaVacia, PaginaInv
<1>4. CASE Guardar
  <2>1. ~PaginaVacia
    BY <1>4 DEF Guardar, SePuede, PaginaAbierta, PaginaVacia
  <2>2. /\ UNCHANGED <<vista, formulario, tecleado>>
        /\ DOMAIN guardado' = LectoresStock
    BY <1>4 DEF Guardar, PaginaInv
  <2> QED BY <2>1, <2>2, PaginaQuieta
<1>5. CASE Descartar
  BY <1>5, DescartePagina
<1>6. CASE LlegaGuardado
  BY <1>6, RespuestaPagina
<1>7. ASSUME NEW c \in cargas[Pantalla], LlegaCargaPantalla(c) PROVE PaginaInv'
  BY <1>7, CargaPagina
<1>8. ASSUME NEW a \in Articulos, NEW c \in Campos, NEW v, Teclear(a, c, v)
      PROVE  PaginaInv'
  BY <1>8, TecleoPagina
<1>9. CASE LlegaReposicion
  BY <1>9, PaginaQuieta, DosLectores
     DEF LlegaReposicion, paginaVars, PaginaVacia, PaginaInv
<1>10. ASSUME NEW c \in cargas[Campana], LlegaCargaCampana(c) PROVE PaginaInv'
  <2>1. /\ UNCHANGED <<formulario, tecleado, guardado, dibujado>>
        /\ DOMAIN vista' = LectoresStock /\ vista'[Pantalla] = vista[Pantalla]
    BY <1>10, DosLectores DEF LlegaCargaCampana, PaginaInv
  <2> QED BY <2>1 DEF PaginaInv, PaginaVacia, PaginaFiel, EsFormulario
<1>11. ASSUME NEW a \in Articulos, NEW n \in Unidades, Reponer(a, n) PROVE PaginaInv'
  BY <1>11, PaginaQuieta, DosLectores DEF Reponer, paginaVars, PaginaVacia, PaginaInv
<1>12. CASE UNCHANGED jornadaVars
  BY <1>12, PaginaQuieta DEF jornadaVars, paginaVars, PaginaVacia, PaginaInv
<1>13. "controla" \in Campos /\ Numericos \subseteq Campos
  BY DEF Campos
<1> QED
  BY <1>1, <1>2, <1>3, <1>4, <1>5, <1>6, <1>7, <1>8, <1>9, <1>10, <1>11, <1>12, <1>13,
     DosLectores DEF JornadaNext, PantallaNext, CampanaNext

\* The only step that begins to save is the one of the button.
LEMMA SoloGuardar ==
  ASSUME PaginaInv, [JornadaNext]_jornadaVars, EmpiezaAGuardar
  PROVE  Guardar
<1>1. \/ UNCHANGED guardado
      \/ \E l \in LectoresStock : AplicarGuardado(l) \/ FallarGuardado(l)
      \/ Guardar \/ LlegaGuardado \/ LlegaReposicion
      \/ \E a \in Articulos, n \in Unidades : Reponer(a, n)
  <2>1. ASSUME NEW l \in LectoresStock, LectorNext(l)
        PROVE  UNCHANGED guardado \/ AplicarGuardado(l) \/ FallarGuardado(l)
    BY <2>1 DEF LectorNext, Conectar, EntrarALaSala, Cortar, LlegaAviso, VenceEspera,
                RenovarToken, LeerCarga, FallarCarga
  <2>2. CASE ServidorNext
    BY <2>2 DEF ServidorNext, Vender, AjustarOtro
  <2>3. ASSUME PantallaNext, ~LectorNext(Pantalla)
        PROVE  UNCHANGED guardado \/ Guardar \/ LlegaGuardado
    BY <2>3 DEF PantallaNext, Dibujar, Descartar, LlegaCargaPantalla, Teclear
  <2>4. ASSUME CampanaNext, ~LectorNext(Campana)
        PROVE  \/ UNCHANGED guardado \/ LlegaReposicion
               \/ \E a \in Articulos, n \in Unidades : Reponer(a, n)
    BY <2>4 DEF CampanaNext, LlegaCargaCampana
  <2> QED BY <2>1, <2>2, <2>3, <2>4, DosLectores
          DEF JornadaNext, jornadaVars
<1>2. ASSUME NEW l \in LectoresStock, AplicarGuardado(l) \/ FallarGuardado(l) PROVE FALSE
  BY <1>2, DosLectores
     DEF AplicarGuardado, FallarGuardado, SinGuardar, EmpiezaAGuardar, PaginaInv
<1>3. ASSUME LlegaGuardado PROVE FALSE
  BY <1>3, DosLectores DEF LlegaGuardado, SinGuardar, EmpiezaAGuardar, PaginaInv
<1>4. ASSUME LlegaReposicion PROVE FALSE
  BY <1>4, DosLectores DEF LlegaReposicion, EmpiezaAGuardar, PaginaInv
<1>5. ASSUME NEW a \in Articulos, NEW n \in Unidades, Reponer(a, n) PROVE FALSE
  BY <1>5, DosLectores DEF Reponer, EmpiezaAGuardar, PaginaInv
<1> QED BY <1>1, <1>2, <1>3, <1>4, <1>5 DEF EmpiezaAGuardar

\* What a save sends differs from what the page has, so it was typed.
LEMMA GuardaLoTecleado ==
  ASSUME PaginaInv, Guardar, dibujado = PorDibujar
  PROVE  LoTecleado
<1>1. PaginaFiel /\ dibujado.formulario = formulario
  BY DEF Guardar, SePuede, PaginaAbierta, PaginaInv, PaginaVacia, PorDibujar
<1>2. guardado'[Pantalla].pide = Diferencias(vista[Pantalla], formulario)
  BY <1>1, DosLectores DEF Guardar, Ajustes, PaginaInv
<1>3. ASSUME NEW t \in Diferencias(vista[Pantalla], formulario)
      PROVE  t[3] = tecleado[t[1]][t[2]]
  <2>1. PICK a \in Articulos, c \in Campos :
          t = <<a, c, formulario[a][c]>> /\ formulario[a][c] # vista[Pantalla][a][c]
    BY <1>3 DEF Diferencias
  <2> QED BY <1>1, <2>1 DEF PaginaFiel
<1> QED BY <1>2, <1>3 DEF LoTecleado

\* The invariant holds in every behaviour, whatever the items, the quantities,
\* the loads in progress and the order of the answers.
THEOREM PaginaSiempreFiel == JornadaSpec => []PaginaInv
<1> QED BY PaginaInicio, PaginaPaso, PTL DEF JornadaSpec

\* What a save of the page of the day sends was typed by the administrator,
\* and never a quantity that the page loaded, whatever loads and answers arrive
\* while the form is edited.
THEOREM SeGuardaLoTecleado == JornadaSpec => SoloLoTecleado
<1>1. PaginaInv /\ [JornadaNext]_jornadaVars
        => [EmpiezaAGuardar => LoTecleado \/ dibujado # PorDibujar]_jornadaVars
  BY SoloGuardar, GuardaLoTecleado
<1> QED BY <1>1, PaginaSiempreFiel, PTL DEF JornadaSpec, SoloLoTecleado

-----------------------------------------------------------------------------
(* What the page and the bell show: the invariants *)

Filas == [Articulos -> [controla : BOOLEAN, stock : Nat, umbral : Nat, version : Nat]]

Sucesos == {StockActualizado} \cup [de : Articulos, demas : Nat]

\* What is typed of a field.
TextosBien(f) ==
  \A a \in Articulos :
    f[a]["controla"] \in BOOLEAN /\ \A c \in Numericos : f[a][c] \in Nat \cup {Ilegible}

\* What is sent is legible.
PideBien(pide) ==
  \A t \in pide :
    /\ t[2] = "controla" => t[3] \in BOOLEAN
    /\ t[2] \in Numericos => t[3] \in Nat

TextosPagina ==
  /\ EsFormulario(formulario) /\ TextosBien(formulario) /\ vista[Pantalla] \in Filas
  /\ dibujado.formulario = Nada \/ TextosBien(dibujado.formulario)

GuardadoBien(l) ==
  /\ guardado[l].orden \in Nat /\ PideBien(guardado[l].pide)
  /\ guardado[l].fase = "hecho" => guardado[l].respuesta \in Filas

JornadaTipos ==
  /\ articulo \in Filas
  /\ red \in [LectoresStock -> [sala : {"fuera", "entrando", "dentro"}, hubo : BOOLEAN]]
  /\ eventos \in [LectoresStock -> Seq(Sucesos)]
  /\ espera \in [LectoresStock -> BOOLEAN]
  /\ cargas \in [LectoresStock -> SUBSET [orden : Nat, leido : Filas \cup {Nada}]]
  /\ pedidas \in [LectoresStock -> Nat]
  /\ mostrada \in [LectoresStock -> Nat]
  /\ avisada \in [LectoresStock -> [Articulos -> Nat]]
  /\ sinStock \in [Articulos -> Nat]
  /\ \A l \in LectoresStock : GuardadoBien(l)
  /\ PaginaVacia \/ TextosPagina

\* The requests are numbered in the order in which they are made.
EnOrden(l) ==
  /\ mostrada[l] <= pedidas[l] /\ guardado[l].orden <= pedidas[l] /\ pedidas[l] > 0
  /\ \A c \in cargas[l] : c.orden <= pedidas[l]

\* The rows have all that was announced to l.
AlDia(l, filas) == \A a \in Articulos : filas[a].version >= avisada[l][a]

\* If the answers come in order, the last one has all that was announced.  It
\* may be the one of a save, which brings some rows: then the one of before too.
UltimaAlDia(l) ==
  /\ \A c \in cargas[l] :
       c.leido # Nada /\ c.orden = pedidas[l] => AlDia(l, c.leido)
  /\ mostrada[l] = pedidas[l] => AlDia(l, vista[l])
  /\ l = Pantalla /\ guardado[l].fase # "nada" /\ guardado[l].orden = pedidas[l] =>
       /\ guardado[l].fase = "hecho" => AlDia(l, guardado[l].respuesta)
       /\ mostrada[l] = pedidas[l] - 1 => AlDia(l, vista[l])
       /\ \A c \in cargas[l] :
            c.leido # Nada /\ c.orden = pedidas[l] - 1 => AlDia(l, c.leido)

\* Or there will be a load yet: an event, the timer, or the socket will ask for it.
HabraCarga(l) ==
  eventos[l] # <<>> \/ espera[l] \/ (red[l].sala = "fuera" /\ red[l].hubo)

\* What is told of a sale without stock is not forgotten by any load on its way.
SeRecuerda(a) ==
  /\ a \in Articulos /\ sinStock[a] > 0 /\ EnAlerta(articulo[a])
  /\ \A c \in cargas[Campana] : c.leido # Nada => EnAlerta(c.leido[a])

LectorBien(l) ==
  /\ red[l].sala # "fuera" => red[l].hubo
  /\ EnOrden(l)
  /\ AlDia(l, articulo)
  /\ HabraCarga(l) \/ UltimaAlDia(l)

JornadaInv ==
  /\ \A l \in LectoresStock : LectorBien(l)
  /\ \A a \in sobreventa : SeRecuerda(a)

-----------------------------------------------------------------------------
(* What the page and the bell show: a step that does not touch them *)

LEMMA SinNada == 0 \in Nat /\ SinGuardar.fase = "nada" /\ SinGuardar.orden = 0
                 /\ SinGuardar.pide = {} /\ PideBien({})
BY DEF SinGuardar, PideBien

LEMMA PaginaCompleta ==
  ASSUME PaginaInv
  PROVE  DOMAIN vista = LectoresStock /\ DOMAIN guardado = LectoresStock
BY DEF PaginaInv

\* Nothing of a reader changes, and the rows of the server are not older.
LEMMA LectorQuieto ==
  ASSUME NEW l \in LectoresStock, LectorBien(l), AlDia(l, articulo)',
         red'[l] = red[l], eventos'[l] = eventos[l], espera'[l] = espera[l],
         cargas'[l] = cargas[l], pedidas'[l] = pedidas[l], mostrada'[l] = mostrada[l],
         vista'[l] = vista[l], avisada'[l] = avisada[l], guardado'[l] = guardado[l]
  PROVE  LectorBien(l)'
BY DEF LectorBien, EnOrden, HabraCarga, UltimaAlDia, AlDia

LEMMA LectoresQuietos ==
  ASSUME JornadaInv, UNCHANGED <<serverVars, cargaVars, guardado, vista>>
  PROVE  \A l \in LectoresStock : LectorBien(l)'
BY DEF JornadaInv, LectorBien, EnOrden, HabraCarga, UltimaAlDia, AlDia, serverVars, cargaVars

\* The rows of the server, and what the bell was told.
LEMMA RecuerdaQuieto ==
  ASSUME JornadaInv, UNCHANGED <<articulo, sinStock, sobreventa>>,
         \A c \in cargas'[Campana] :
           c \in cargas[Campana] \/ c.leido = Nada \/ c.leido = articulo
  PROVE  \A a \in sobreventa' : SeRecuerda(a)'
BY DEF JornadaInv, SeRecuerda

\* The page has the same, and shows the same or what it has now.
LEMMA TextosQuietos ==
  ASSUME PaginaVacia \/ TextosPagina, UNCHANGED <<formulario, vista>>,
         guardado'[Pantalla].fase = "nada" \/ ~PaginaVacia,
         dibujado'.formulario \in {dibujado.formulario, formulario}
  PROVE  (PaginaVacia \/ TextosPagina)'
BY DEF PaginaVacia, TextosPagina, EsFormulario, TextosBien

-----------------------------------------------------------------------------
(* What the page and the bell show: the server *)

\* What an adjustment leaves of a row.
LEMMA AjustadoBien ==
  ASSUME articulo \in Filas, NEW a \in Articulos, NEW pide, PideBien(pide)
  PROVE  /\ Ajustado(a, pide) \in
              [controla : BOOLEAN, stock : Nat, umbral : Nat, version : Nat]
         /\ Ajustado(a, pide).version >= articulo[a].version
<1> DEFINE nuevo == [c \in Campos |->
                       IF \E t \in pide : t[1] = a /\ t[2] = c
                         THEN (CHOOSE t \in pide : t[1] = a /\ t[2] = c)[3]
                         ELSE articulo[a][c]]
<1>1. /\ articulo[a].controla \in BOOLEAN /\ articulo[a].stock \in Nat
      /\ articulo[a].umbral \in Nat /\ articulo[a].version \in Nat
  BY DEF Filas
<1>2. ASSUME NEW c \in Campos, \E t \in pide : t[1] = a /\ t[2] = c
      PROVE  \E t \in pide : t[2] = c /\ nuevo[c] = t[3]
  <2> DEFINE u == CHOOSE t \in pide : t[1] = a /\ t[2] = c
  <2>1. u \in pide /\ u[1] = a /\ u[2] = c
    BY <1>2
  <2>2. nuevo[c] = u[3]
    BY <1>2
  <2> HIDE DEF u, nuevo
  <2> QED BY <2>1, <2>2
<1>3. ASSUME NEW c \in Campos, ~\E t \in pide : t[1] = a /\ t[2] = c
      PROVE  nuevo[c] = articulo[a][c]
  BY <1>3
<1> HIDE DEF nuevo
<1>4. "controla" \in Campos /\ "stock" \in Campos /\ "umbral" \in Campos
      /\ "stock" \in Numericos /\ "umbral" \in Numericos
  BY DEF Campos, Numericos
<1>5. nuevo["controla"] \in BOOLEAN
  BY <1>1, <1>2, <1>3, <1>4 DEF PideBien
<1>6. nuevo["stock"] \in Nat
  BY <1>1, <1>2, <1>3, <1>4 DEF PideBien
<1>7. nuevo["umbral"] \in Nat
  BY <1>1, <1>2, <1>3, <1>4 DEF PideBien
<1>8. Ajustado(a, pide) =
        [controla |-> nuevo["controla"], stock |-> nuevo["stock"], umbral |-> nuevo["umbral"],
         version |-> IF nuevo = DeFila(articulo[a]) THEN articulo[a].version
                     ELSE articulo[a].version + 1]
  BY DEF Ajustado, nuevo
<1> QED BY <1>1, <1>5, <1>6, <1>7, <1>8

\* Rows change, to newer versions, and it is told or it is not.
LEMMA ServidorBien ==
  ASSUME PaginaInv, PaginaInv', JornadaTipos, JornadaInv, articulo' \in Filas,
         \A a \in Articulos : articulo'[a].version >= articulo[a].version,
         (\E e \in Sucesos : Emitir(e)) \/ UNCHANGED <<eventos, avisada>>,
         SiguenEnAlerta, UNCHANGED <<red, cargaVars, paginaVars, sinStock>>,
         \A k \in LectoresStock :
           \/ guardado'[k] = guardado[k]
           \/ /\ guardado[k].fase = "enviado" /\ guardado'[k].fase = "hecho"
              /\ guardado'[k].orden = guardado[k].orden
              /\ guardado'[k].pide = guardado[k].pide
              /\ guardado'[k].respuesta = articulo'
  PROVE  JornadaTipos' /\ JornadaInv'
<1>1. /\ eventos' \in [LectoresStock -> Seq(Sucesos)]
      /\ avisada' \in [LectoresStock -> [Articulos -> Nat]]
      /\ \A l \in LectoresStock :
           \/ eventos'[l] # <<>> /\ avisada'[l] = Versiones(articulo')
           \/ eventos'[l] = eventos[l] /\ avisada'[l] = avisada[l]
  <2>1. CASE UNCHANGED <<eventos, avisada>>
    BY <2>1 DEF JornadaTipos
  <2>2. ASSUME NEW e \in Sucesos, Emitir(e)
        PROVE  /\ eventos' \in [LectoresStock -> Seq(Sucesos)]
               /\ avisada' \in [LectoresStock -> [Articulos -> Nat]]
               /\ \A l \in LectoresStock :
                    \/ eventos'[l] # <<>> /\ avisada'[l] = Versiones(articulo')
                    \/ eventos'[l] = eventos[l] /\ avisada'[l] = avisada[l]
    <3>1. Versiones(articulo') \in [Articulos -> Nat]
      BY DEF Versiones, Filas
    <3>2. \A l \in LectoresStock :
            eventos[l] \in Seq(Sucesos) /\ avisada[l] \in [Articulos -> Nat]
      BY DEF JornadaTipos
    <3>3. \A l \in LectoresStock :
            Append(eventos[l], e) \in Seq(Sucesos) /\ Append(eventos[l], e) # <<>>
      BY <3>2
    <3>4. \A l \in LectoresStock :
            \/ eventos'[l] = Append(eventos[l], e) /\ avisada'[l] = Versiones(articulo')
            \/ eventos'[l] = eventos[l] /\ avisada'[l] = avisada[l]
      BY <2>2 DEF Emitir
    <3>5. /\ DOMAIN eventos' = LectoresStock /\ DOMAIN avisada' = LectoresStock
          /\ eventos' = [l \in LectoresStock |-> eventos'[l]]
          /\ avisada' = [l \in LectoresStock |-> avisada'[l]]
      BY <2>2 DEF Emitir
    <3>6. \A l \in LectoresStock :
            eventos'[l] \in Seq(Sucesos) /\ avisada'[l] \in [Articulos -> Nat]
      BY <3>1, <3>2, <3>3, <3>4
    <3> HIDE DEF Versiones
    <3> QED BY <3>3, <3>4, <3>5, <3>6
  <2> QED BY <2>1, <2>2
<1>2. \A l \in LectoresStock : GuardadoBien(l)'
  BY DEF JornadaTipos, GuardadoBien
<1>3. (PaginaVacia \/ TextosPagina)'
  <2>1. guardado'[Pantalla].fase = "nada" \/ ~PaginaVacia
    BY DosLectores DEF PaginaVacia
  <2> QED BY <2>1, TextosQuietos DEF JornadaTipos, paginaVars
<1>4. JornadaTipos'
  BY <1>1, <1>2, <1>3 DEF JornadaTipos, cargaVars
<1>5. ASSUME NEW l \in LectoresStock PROVE LectorBien(l)'
  <2>1. LectorBien(l)
    BY DEF JornadaInv
  <2>2. \A a \in Articulos : /\ avisada[l][a] \in Nat /\ articulo[a].version \in Nat
                             /\ articulo'[a].version \in Nat
    BY DEF JornadaTipos, Filas
  <2>3. AlDia(l, articulo)'
    <3>1. CASE avisada'[l] = Versiones(articulo')
      <4>1. \A a \in Articulos : avisada'[l][a] = articulo'[a].version
        BY <3>1 DEF Versiones
      <4> QED BY <2>2, <4>1 DEF AlDia
    <3>2. CASE avisada'[l] = avisada[l]
      <4>1. \A a \in Articulos : articulo[a].version >= avisada[l][a]
        BY <2>1 DEF LectorBien, AlDia
      <4> QED BY <2>2, <3>2, <4>1 DEF AlDia
    <3> QED BY <1>1, <3>1, <3>2
  <2>4. EnOrden(l)'
    BY <2>1 DEF LectorBien, EnOrden, cargaVars
  <2>5. CASE eventos'[l] # <<>>
    BY <2>1, <2>3, <2>4, <2>5 DEF LectorBien, HabraCarga
  <2>6. CASE eventos'[l] = eventos[l] /\ avisada'[l] = avisada[l] /\ HabraCarga(l)
    BY <2>1, <2>3, <2>4, <2>6 DEF LectorBien, HabraCarga, cargaVars
  <2>7. CASE eventos'[l] = eventos[l] /\ avisada'[l] = avisada[l] /\ UltimaAlDia(l)
    <3>1. UltimaAlDia(l)'
      BY <2>3, <2>7 DEF UltimaAlDia, AlDia, cargaVars, paginaVars
    <3> QED BY <2>1, <2>3, <2>4, <3>1 DEF LectorBien
  <2> QED BY <1>1, <2>1, <2>5, <2>6, <2>7 DEF LectorBien
<1>6. \A a \in sobreventa' : SeRecuerda(a)'
  BY DEF SiguenEnAlerta, SeRecuerda, JornadaInv, cargaVars
<1> QED BY <1>4, <1>5, <1>6 DEF JornadaInv

\* A row with another quantity, or another switch.
LEMMA EscribirBien ==
  ASSUME articulo \in Filas, NEW a \in Articulos,
         NEW f \in [controla : BOOLEAN, stock : Nat, umbral : Nat, version : Nat],
         f.version = articulo[a].version, EscribirArticulo(a, f)
  PROVE  /\ articulo' \in Filas
         /\ \A b \in Articulos : articulo'[b].version >= articulo[b].version
<1> DEFINE g == [f EXCEPT !.version = f.version + 1]
<1>1. /\ g \in [controla : BOOLEAN, stock : Nat, umbral : Nat, version : Nat]
      /\ g.version = articulo[a].version + 1
  OBVIOUS
<1>2. articulo' = [articulo EXCEPT ![a] = g]
  BY DEF EscribirArticulo
<1> HIDE DEF g
<1>3. \A b \in Articulos : articulo[b].version \in Nat
  BY DEF Filas
<1> QED BY <1>1, <1>2, <1>3 DEF Filas

LEMMA FaltanNat ==
  ASSUME NEW m \in Nat, NEW n \in Nat
  PROVE  Faltan(m, n) \in Nat
BY DEF Faltan

LEMMA FilaBien ==
  ASSUME articulo \in Filas, NEW a \in Articulos
  PROVE  /\ articulo[a] \in [controla : BOOLEAN, stock : Nat, umbral : Nat, version : Nat]
         /\ articulo[a].stock \in Nat
BY DEF Filas

LEMMA VenderBien ==
  ASSUME PaginaInv, PaginaInv', JornadaTipos, JornadaInv, NEW a \in Articulos,
         NEW n \in Unidades, Vender(a, n)
  PROVE  JornadaTipos' /\ JornadaInv'
<1>1. n \in Nat /\ articulo \in Filas
  BY JornadaAssumption DEF JornadaTipos
<1>2. PICK q \in Nat : q = Faltan(articulo[a].stock, n)
  BY <1>1, FilaBien, FaltanNat
<1>3. Faltan(n, articulo[a].stock) \in Nat
  BY <1>1, FilaBien, FaltanNat
<1> DEFINE queda == [articulo[a] EXCEPT !.stock = q]
<1>4. /\ queda \in [controla : BOOLEAN, stock : Nat, umbral : Nat, version : Nat]
      /\ queda.version = articulo[a].version
  BY <1>1, FilaBien
<1>5. /\ EscribirArticulo(a, queda)
      /\ \/ Emitir([de |-> a, demas |-> Faltan(n, articulo[a].stock)])
         \/ UNCHANGED <<eventos, avisada>>
      /\ SiguenEnAlerta
      /\ UNCHANGED <<red, cargaVars, paginaVars, guardado, sinStock>>
  BY <1>2 DEF Vender
<1> HIDE DEF queda
<1>6. [de |-> a, demas |-> Faltan(n, articulo[a].stock)] \in Sucesos
  BY <1>3 DEF Sucesos
<1>7. /\ articulo' \in Filas
      /\ \A b \in Articulos : articulo'[b].version >= articulo[b].version
  BY <1>1, <1>4, <1>5, EscribirBien
<1> QED BY <1>5, <1>6, <1>7, ServidorBien

LEMMA AjustarOtroBien ==
  ASSUME PaginaInv, PaginaInv', JornadaTipos, JornadaInv, NEW a \in Articulos, AjustarOtro(a)
  PROVE  JornadaTipos' /\ JornadaInv'
<1>1. articulo \in Filas
  BY DEF JornadaTipos
<1>2. PICK f \in [controla : BOOLEAN, stock : Nat, umbral : Nat, version : Nat] :
        f.version = articulo[a].version /\ EscribirArticulo(a, f)
  <2>1. ASSUME NEW c \in Numericos, NEW n \in Unidades
        PROVE  /\ [articulo[a] EXCEPT ![c] = n] \in
                    [controla : BOOLEAN, stock : Nat, umbral : Nat, version : Nat]
               /\ [articulo[a] EXCEPT ![c] = n].version = articulo[a].version
    <3>1. n \in Nat
      BY JornadaAssumption
    <3>2. CASE c = "stock"
      BY <1>1, <3>1, <3>2, FilaBien
    <3>3. CASE c = "umbral"
      BY <1>1, <3>1, <3>3, FilaBien
    <3> QED BY <3>2, <3>3 DEF Numericos
  <2>2. /\ [articulo[a] EXCEPT !.controla = ~@] \in
             [controla : BOOLEAN, stock : Nat, umbral : Nat, version : Nat]
        /\ [articulo[a] EXCEPT !.controla = ~@].version = articulo[a].version
    BY <1>1, FilaBien
  <2>3. \/ \E c \in Numericos, n \in Unidades : EscribirArticulo(a, [articulo[a] EXCEPT ![c] = n])
        \/ EscribirArticulo(a, [articulo[a] EXCEPT !.controla = ~@])
    BY DEF AjustarOtro
  <2> QED BY <2>1, <2>2, <2>3
<1>3. /\ articulo' \in Filas
      /\ \A b \in Articulos : articulo'[b].version >= articulo[b].version
  BY <1>1, <1>2, EscribirBien
<1>4. StockActualizado \in Sucesos
  BY DEF Sucesos
<1> QED BY <1>3, <1>4, ServidorBien DEF AjustarOtro

LEMMA AplicarGuardadoBien ==
  ASSUME PaginaInv, PaginaInv', JornadaTipos, JornadaInv, NEW l \in LectoresStock,
         AplicarGuardado(l)
  PROVE  JornadaTipos' /\ JornadaInv'
<1>1. articulo \in Filas /\ PideBien(guardado[l].pide)
  BY DEF JornadaTipos, GuardadoBien
<1>2. articulo' = [a \in Articulos |-> Ajustado(a, guardado[l].pide)]
  BY DEF AplicarGuardado
<1>3. /\ articulo' \in Filas
      /\ \A b \in Articulos : articulo'[b].version >= articulo[b].version
  BY <1>1, <1>2, AjustadoBien DEF Filas
<1>4. StockActualizado \in Sucesos
  BY DEF Sucesos
<1>5. \A k \in LectoresStock :
        \/ guardado'[k] = guardado[k]
        \/ /\ guardado[k].fase = "enviado" /\ guardado'[k].fase = "hecho"
           /\ guardado'[k].orden = guardado[k].orden
           /\ guardado'[k].pide = guardado[k].pide
           /\ guardado'[k].respuesta = articulo'
  BY PaginaCompleta DEF AplicarGuardado
<1> QED BY <1>3, <1>4, <1>5, ServidorBien DEF AplicarGuardado

-----------------------------------------------------------------------------
(* What the page and the bell show: the sockets and the loads *)

\* A step that the forms and the saves have no part in.
LEMMA TextosIguales ==
  ASSUME JornadaTipos, UNCHANGED <<paginaVars, guardado>>
  PROVE  (PaginaVacia \/ TextosPagina)' /\ \A l \in LectoresStock : GuardadoBien(l)'
<1>1. (PaginaVacia \/ TextosPagina)'
  BY DEF JornadaTipos, paginaVars, PaginaVacia, TextosPagina, EsFormulario, TextosBien
<1>2. \A l \in LectoresStock : GuardadoBien(l)'
  BY DEF JornadaTipos, GuardadoBien
<1> QED BY <1>1, <1>2

\* One reader moves, and the server does not.
LEMMA UnoMueve ==
  ASSUME JornadaInv, NEW l \in LectoresStock, UNCHANGED articulo, LectorBien(l)',
         \A k \in LectoresStock \ {l} :
           /\ red'[k] = red[k] /\ eventos'[k] = eventos[k] /\ espera'[k] = espera[k]
           /\ cargas'[k] = cargas[k] /\ pedidas'[k] = pedidas[k]
           /\ mostrada'[k] = mostrada[k] /\ vista'[k] = vista[k]
           /\ avisada'[k] = avisada[k] /\ guardado'[k] = guardado[k],
         \A a \in sobreventa' : SeRecuerda(a)'
  PROVE  JornadaInv'
<1>1. ASSUME NEW k \in LectoresStock \ {l} PROVE LectorBien(k)'
  <2>1. LectorBien(k)
    BY DEF JornadaInv
  <2>2. AlDia(k, articulo)'
    BY <2>1 DEF LectorBien, AlDia
  <2> QED BY <2>1, <2>2, LectorQuieto
<1> QED BY <1>1 DEF JornadaInv

LEMMA VersionesBien ==
  ASSUME articulo \in Filas
  PROVE  /\ Versiones(articulo) \in [Articulos -> Nat]
         /\ \A a \in Articulos : articulo[a].version >= Versiones(articulo)[a]
<1>1. \A a \in Articulos : articulo[a].version \in Nat
  BY DEF Filas
<1> QED BY <1>1 DEF Versiones

LEMMA ConectarBien ==
  ASSUME PaginaInv, JornadaTipos, JornadaInv, NEW l \in LectoresStock, Conectar(l)
  PROVE  JornadaTipos' /\ JornadaInv'
<1>1. UNCHANGED <<articulo, eventos, cargas, pedidas, mostrada, paginaVars, guardado,
                  sinStock, sobreventa>>
  BY DEF Conectar
<1>2. articulo \in Filas /\ red[l].hubo \in BOOLEAN /\ espera[l] \in BOOLEAN
  BY DEF JornadaTipos
<1>3. /\ red' \in [LectoresStock -> [sala : {"fuera", "entrando", "dentro"}, hubo : BOOLEAN]]
      /\ red'[l].sala = "entrando" /\ red'[l].hubo
      /\ \A k \in LectoresStock \ {l} : red'[k] = red[k]
  BY DEF Conectar, JornadaTipos
<1>4. /\ espera' \in [LectoresStock -> BOOLEAN] /\ espera'[l] = (espera[l] \/ red[l].hubo)
      /\ \A k \in LectoresStock \ {l} : espera'[k] = espera[k]
  BY <1>2 DEF Conectar, ProgramarAlConectar, JornadaTipos
<1>5. /\ avisada' \in [LectoresStock -> [Articulos -> Nat]]
      /\ avisada'[l] = IF red[l].hubo THEN Versiones(articulo) ELSE avisada[l]
      /\ \A k \in LectoresStock \ {l} : avisada'[k] = avisada[k]
  BY <1>2, VersionesBien DEF Conectar, JornadaTipos
<1>6. JornadaTipos'
  BY <1>1, <1>3, <1>4, <1>5, TextosIguales DEF JornadaTipos
<1>7. LectorBien(l)'
  <2>1. LectorBien(l)
    BY DEF JornadaInv
  <2>2. EnOrden(l)'
    BY <1>1, <2>1 DEF LectorBien, EnOrden
  <2>3. AlDia(l, articulo)'
    BY <1>1, <1>2, <1>5, <2>1, VersionesBien DEF LectorBien, AlDia
  <2>4. CASE red[l].hubo
    BY <1>3, <1>4, <2>2, <2>3, <2>4 DEF LectorBien, HabraCarga
  <2>5. CASE ~red[l].hubo
    <3>1. (eventos[l] # <<>> \/ espera[l]) \/ UltimaAlDia(l)
      BY <2>1, <2>5 DEF LectorBien, HabraCarga
    <3>2. UltimaAlDia(l) => UltimaAlDia(l)'
      BY <1>1, <1>5, <2>5 DEF UltimaAlDia, AlDia, paginaVars
    <3> QED BY <1>1, <1>3, <1>4, <2>2, <2>3, <3>1, <3>2 DEF LectorBien, HabraCarga
  <2> QED BY <2>4, <2>5
<1> QED BY <1>1, <1>3, <1>4, <1>5, <1>6, <1>7, UnoMueve, RecuerdaQuieto DEF paginaVars

LEMMA EntrarBien ==
  ASSUME PaginaInv, JornadaTipos, JornadaInv, NEW l \in LectoresStock, EntrarALaSala(l)
  PROVE  JornadaTipos' /\ JornadaInv'
<1>1. UNCHANGED <<articulo, eventos, avisada, cargaVars, paginaVars, guardado, sinStock,
                  sobreventa>>
  BY DEF EntrarALaSala
<1>2. /\ red' \in [LectoresStock -> [sala : {"fuera", "entrando", "dentro"}, hubo : BOOLEAN]]
      /\ red[l].sala = "entrando" /\ red'[l].sala = "dentro" /\ red'[l].hubo = red[l].hubo
      /\ \A k \in LectoresStock \ {l} : red'[k] = red[k]
  BY DEF EntrarALaSala, JornadaTipos
<1>3. JornadaTipos'
  BY <1>1, <1>2, TextosIguales DEF JornadaTipos, cargaVars
<1>4. LectorBien(l)'
  BY <1>1, <1>2 DEF JornadaInv, LectorBien, EnOrden, AlDia, HabraCarga, UltimaAlDia,
                    cargaVars, paginaVars
<1> QED BY <1>1, <1>2, <1>3, <1>4, UnoMueve, RecuerdaQuieto DEF paginaVars, cargaVars

\* It will load when it comes back.
LEMMA CortarBien ==
  ASSUME PaginaInv, JornadaTipos, JornadaInv, NEW l \in LectoresStock, Cortar(l)
  PROVE  JornadaTipos' /\ JornadaInv'
<1>1. UNCHANGED <<articulo, avisada, cargaVars, paginaVars, guardado, sinStock, sobreventa>>
  BY DEF Cortar
<1>2. /\ red' \in [LectoresStock -> [sala : {"fuera", "entrando", "dentro"}, hubo : BOOLEAN]]
      /\ red[l].sala # "fuera" /\ red'[l].sala = "fuera" /\ red'[l].hubo = red[l].hubo
      /\ \A k \in LectoresStock \ {l} : red'[k] = red[k]
  BY DEF Cortar, JornadaTipos
<1>3. /\ eventos' \in [LectoresStock -> Seq(Sucesos)]
      /\ \A k \in LectoresStock \ {l} : eventos'[k] = eventos[k]
  BY DEF Cortar, JornadaTipos
<1>4. JornadaTipos'
  BY <1>1, <1>2, <1>3, TextosIguales DEF JornadaTipos, cargaVars
<1>5. LectorBien(l)'
  BY <1>1, <1>2 DEF JornadaInv, LectorBien, EnOrden, AlDia, HabraCarga, cargaVars
<1> QED BY <1>1, <1>2, <1>3, <1>4, <1>5, UnoMueve, RecuerdaQuieto DEF paginaVars, cargaVars

\* An event: the timer runs, and the bell counts what was sold without stock.
LEMMA LlegaAvisoBien ==
  ASSUME PaginaInv, JornadaTipos, JornadaInv, NEW l \in LectoresStock, LlegaAviso(l)
  PROVE  JornadaTipos' /\ JornadaInv'
<1>1. UNCHANGED <<articulo, red, avisada, cargas, pedidas, mostrada, paginaVars, guardado>>
  BY DEF LlegaAviso
<1>2. PICK e \in Sucesos : e = Head(eventos[l])
  <2>1. eventos[l] \in Seq(Sucesos) /\ eventos[l] # <<>>
    BY DEF LlegaAviso, JornadaTipos
  <2> QED BY <2>1
<1>3. /\ eventos' \in [LectoresStock -> Seq(Sucesos)]
      /\ \A k \in LectoresStock \ {l} : eventos'[k] = eventos[k]
  <2>1. eventos[l] \in Seq(Sucesos) /\ eventos[l] # <<>>
    BY DEF LlegaAviso, JornadaTipos
  <2>2. Tail(eventos[l]) \in Seq(Sucesos)
    BY <2>1
  <2> QED BY <2>2 DEF LlegaAviso, JornadaTipos
<1>4. /\ espera' \in [LectoresStock -> BOOLEAN] /\ espera'[l]
      /\ \A k \in LectoresStock \ {l} : espera'[k] = espera[k]
  BY DEF LlegaAviso, JornadaTipos
<1>5. e.demas > 0 => e.de \in Articulos /\ e.demas \in Nat
  BY DEF Sucesos, StockActualizado
<1>6. /\ sinStock' = IF l = Campana /\ e.demas > 0
                       THEN [sinStock EXCEPT ![e.de] = @ + e.demas] ELSE sinStock
      /\ sobreventa' = IF (l = Campana /\ e.demas > 0) /\ EnAlerta(articulo[e.de]) /\ ~Cruza(e.de)
                         THEN sobreventa \cup {e.de} ELSE sobreventa
  BY <1>2 DEF LlegaAviso
<1>7. /\ sinStock' \in [Articulos -> Nat]
      /\ \A a \in Articulos : sinStock[a] > 0 => sinStock'[a] > 0
      /\ l = Campana /\ e.demas > 0 => sinStock'[e.de] > 0
  <2>1. sinStock \in [Articulos -> Nat]
    BY DEF JornadaTipos
  <2>2. CASE l = Campana /\ e.demas > 0
    <3>1. PICK d \in Articulos, n \in Nat : e.de = d /\ e.demas = n /\ n > 0
      BY <1>5, <2>2
    <3>2. sinStock' = [sinStock EXCEPT ![d] = sinStock[d] + n] /\ sinStock[d] \in Nat
      BY <1>6, <2>1, <2>2, <3>1
    <3>3. sinStock'[d] = sinStock[d] + n /\ \A a \in Articulos \ {d} : sinStock'[a] = sinStock[a]
      BY <2>1, <3>2
    <3> QED BY <2>1, <3>1, <3>2, <3>3
  <2>3. CASE ~(l = Campana /\ e.demas > 0)
    BY <1>6, <2>1, <2>3
  <2> QED BY <2>2, <2>3
<1>8. JornadaTipos'
  BY <1>1, <1>3, <1>4, <1>7, TextosIguales DEF JornadaTipos
<1>9. LectorBien(l)'
  BY <1>1, <1>4 DEF JornadaInv, LectorBien, EnOrden, AlDia, HabraCarga
<1>10. ASSUME NEW a \in sobreventa' PROVE SeRecuerda(a)'
  <2>1. CASE a \in sobreventa
    <3>1. SeRecuerda(a)
      BY <2>1 DEF JornadaInv
    <3> QED BY <1>1, <1>7, <3>1 DEF SeRecuerda
  <2>2. CASE a \notin sobreventa
    <3>1. /\ l = Campana /\ e.demas > 0 /\ a = e.de
          /\ EnAlerta(articulo[a]) /\ ~Cruza(a)
      BY <1>6, <1>10, <2>2
    <3>2. a \in Articulos /\ sinStock'[a] > 0
      BY <1>5, <1>7, <3>1
    <3> QED BY <1>1, <3>1, <3>2 DEF SeRecuerda, Cruza
  <2> QED BY <2>1, <2>2
<1> QED BY <1>1, <1>3, <1>4, <1>8, <1>9, <1>10, UnoMueve DEF paginaVars

\* A new load is the last request, and has read nothing yet.
LEMMA CargarHace ==
  ASSUME JornadaTipos, NEW l \in LectoresStock, EnOrden(l), Cargar(l)
  PROVE  /\ pedidas' \in [LectoresStock -> Nat] /\ pedidas'[l] = pedidas[l] + 1
         /\ cargas' \in [LectoresStock -> SUBSET [orden : Nat, leido : Filas \cup {Nada}]]
         /\ \A c \in cargas'[l] : c.orden <= pedidas'[l]
         /\ \A c \in cargas'[l] : c \in cargas[l] \/ c.leido = Nada
         /\ \A c \in cargas[l] : c.orden # pedidas'[l]
         /\ \A k \in LectoresStock \ {l} : pedidas'[k] = pedidas[k] /\ cargas'[k] = cargas[k]
<1>1. pedidas[l] \in Nat /\ cargas[l] \in SUBSET [orden : Nat, leido : Filas \cup {Nada}]
  BY DEF JornadaTipos
<1> DEFINE c1 == [orden |-> pedidas[l] + 1, leido |-> Nada]
<1>2. c1 \in [orden : Nat, leido : Filas \cup {Nada}] /\ c1.orden = pedidas[l] + 1
      /\ c1.leido = Nada
  BY <1>1
<1>3. /\ pedidas' = [pedidas EXCEPT ![l] = pedidas[l] + 1]
      /\ cargas' = [cargas EXCEPT ![l] = cargas[l] \cup {c1}]
  BY DEF Cargar
<1> HIDE DEF c1
<1>4. /\ pedidas' \in [LectoresStock -> Nat] /\ pedidas'[l] = pedidas[l] + 1
      /\ cargas' \in [LectoresStock -> SUBSET [orden : Nat, leido : Filas \cup {Nada}]]
      /\ cargas'[l] = cargas[l] \cup {c1}
      /\ \A k \in LectoresStock \ {l} : pedidas'[k] = pedidas[k] /\ cargas'[k] = cargas[k]
  BY <1>1, <1>2, <1>3 DEF JornadaTipos
<1>5. \A c \in cargas[l] : c.orden \in Nat /\ c.orden <= pedidas[l]
  BY <1>1 DEF EnOrden
<1> QED BY <1>1, <1>2, <1>4, <1>5

LEMMA CargarFresca ==
  ASSUME JornadaTipos, NEW l \in LectoresStock, EnOrden(l), Cargar(l), UNCHANGED mostrada,
         guardado'[l] = guardado[l] \/ (guardado'[l].fase = "nada" /\ guardado'[l].orden = 0)
  PROVE  EnOrden(l)' /\ UltimaAlDia(l)'
<1>1. pedidas[l] \in Nat /\ mostrada[l] \in Nat /\ guardado[l].orden \in Nat
  BY DEF JornadaTipos, GuardadoBien
<1>2. /\ mostrada[l] <= pedidas[l] /\ guardado'[l].orden <= pedidas[l]
      /\ guardado'[l].orden \in Nat
  BY <1>1 DEF EnOrden
<1>3. /\ pedidas'[l] = pedidas[l] + 1
      /\ \A c \in cargas'[l] : c.orden <= pedidas'[l]
      /\ \A c \in cargas'[l] : c \in cargas[l] \/ c.leido = Nada
      /\ \A c \in cargas[l] : c.orden # pedidas'[l]
  BY CargarHace
<1>4. EnOrden(l)'
  BY <1>1, <1>2, <1>3 DEF EnOrden
<1>5. mostrada'[l] # pedidas'[l] /\ guardado'[l].orden # pedidas'[l]
  BY <1>1, <1>2, <1>3
<1> QED BY <1>3, <1>4, <1>5 DEF UltimaAlDia

LEMMA VenceEsperaBien ==
  ASSUME PaginaInv, JornadaTipos, JornadaInv, NEW l \in LectoresStock, VenceEspera(l)
  PROVE  JornadaTipos' /\ JornadaInv'
<1>1. UNCHANGED <<serverVars, mostrada, paginaVars, guardado, sinStock, sobreventa>>
      /\ Cargar(l)
  BY DEF VenceEspera
<1>2. /\ espera' \in [LectoresStock -> BOOLEAN]
      /\ \A k \in LectoresStock \ {l} : espera'[k] = espera[k]
  BY DEF VenceEspera, JornadaTipos
<1>3. LectorBien(l)
  BY DEF JornadaInv
<1>4. EnOrden(l)' /\ UltimaAlDia(l)'
  BY <1>1, <1>3, CargarFresca DEF LectorBien
<1>5. LectorBien(l)'
  BY <1>1, <1>3, <1>4 DEF LectorBien, AlDia, serverVars
<1>6. /\ pedidas' \in [LectoresStock -> Nat]
      /\ cargas' \in [LectoresStock -> SUBSET [orden : Nat, leido : Filas \cup {Nada}]]
      /\ \A c \in cargas'[l] : c \in cargas[l] \/ c.leido = Nada
      /\ \A k \in LectoresStock \ {l} : pedidas'[k] = pedidas[k] /\ cargas'[k] = cargas[k]
  BY <1>1, <1>3, CargarHace DEF LectorBien
<1>7. JornadaTipos'
  BY <1>1, <1>2, <1>6, TextosIguales DEF JornadaTipos, serverVars
<1>8. \A a \in sobreventa' : SeRecuerda(a)'
  BY <1>1, <1>6, DosLectores, RecuerdaQuieto DEF serverVars
<1> QED BY <1>1, <1>2, <1>5, <1>6, <1>7, <1>8, UnoMueve DEF serverVars, paginaVars

LEMMA RenovarTokenBien ==
  ASSUME PaginaInv, JornadaTipos, JornadaInv, NEW l \in LectoresStock, RenovarToken(l)
  PROVE  JornadaTipos' /\ JornadaInv'
<1>1. UNCHANGED <<articulo, mostrada, paginaVars, guardado, sinStock, sobreventa>>
      /\ Cargar(l)
  BY DEF RenovarToken
<1>2. /\ espera' \in [LectoresStock -> BOOLEAN]
      /\ \A k \in LectoresStock \ {l} : espera'[k] = espera[k]
      /\ eventos' \in [LectoresStock -> Seq(Sucesos)]
      /\ \A k \in LectoresStock \ {l} : eventos'[k] = eventos[k]
  BY DEF RenovarToken, JornadaTipos
<1>3. /\ red' \in [LectoresStock -> [sala : {"fuera", "entrando", "dentro"}, hubo : BOOLEAN]]
      /\ red'[l].sala = "fuera"
      /\ \A k \in LectoresStock \ {l} : red'[k] = red[k]
  BY DEF RenovarToken, JornadaTipos
<1>4. articulo \in Filas
  BY DEF JornadaTipos
<1>5. /\ avisada' \in [LectoresStock -> [Articulos -> Nat]]
      /\ avisada'[l] = Versiones(articulo)
      /\ \A k \in LectoresStock \ {l} : avisada'[k] = avisada[k]
  BY <1>4, VersionesBien DEF RenovarToken, JornadaTipos
<1>6. LectorBien(l)
  BY DEF JornadaInv
<1>7. EnOrden(l)' /\ UltimaAlDia(l)'
  BY <1>1, <1>6, CargarFresca DEF LectorBien
<1>8. LectorBien(l)'
  BY <1>1, <1>3, <1>4, <1>5, <1>7, VersionesBien DEF LectorBien, AlDia
<1>9. /\ pedidas' \in [LectoresStock -> Nat]
      /\ cargas' \in [LectoresStock -> SUBSET [orden : Nat, leido : Filas \cup {Nada}]]
      /\ \A c \in cargas'[l] : c \in cargas[l] \/ c.leido = Nada
      /\ \A k \in LectoresStock \ {l} : pedidas'[k] = pedidas[k] /\ cargas'[k] = cargas[k]
  BY <1>1, <1>6, CargarHace DEF LectorBien
<1>10. JornadaTipos'
  BY <1>1, <1>2, <1>3, <1>5, <1>9, TextosIguales DEF JornadaTipos
<1>11. \A a \in sobreventa' : SeRecuerda(a)'
  BY <1>1, <1>9, DosLectores, RecuerdaQuieto
<1> QED BY <1>1, <1>2, <1>3, <1>5, <1>8, <1>9, <1>10, <1>11, UnoMueve DEF paginaVars

\* The load c of l is replaced by those of d.
LEMMA CargasCambian ==
  ASSUME JornadaTipos, NEW l \in LectoresStock, NEW c,
         NEW d \in SUBSET [orden : Nat, leido : Filas \cup {Nada}], cargas' = Con(l, c, d)
  PROVE  /\ cargas' \in [LectoresStock -> SUBSET [orden : Nat, leido : Filas \cup {Nada}]]
         /\ \A b \in cargas'[l] : b \in cargas[l] \/ b \in d
         /\ \A k \in LectoresStock \ {l} : cargas'[k] = cargas[k]
<1>1. cargas' = [cargas EXCEPT ![l] = (cargas[l] \ {c}) \cup d]
  BY DEF Con
<1>2. (cargas[l] \ {c}) \cup d \in SUBSET [orden : Nat, leido : Filas \cup {Nada}]
  BY DEF JornadaTipos
<1> QED BY <1>1, <1>2 DEF JornadaTipos

\* The server is read: nothing that was announced is missing.
LEMMA LeerCargaBien ==
  ASSUME PaginaInv, JornadaTipos, JornadaInv, NEW l \in LectoresStock,
         NEW c \in cargas[l], LeerCarga(l, c)
  PROVE  JornadaTipos' /\ JornadaInv'
<1>1. UNCHANGED <<serverVars, espera, pedidas, mostrada, paginaVars, guardado, sinStock,
                  sobreventa>>
  BY DEF LeerCarga
<1>2. PICK b \in [orden : Nat, leido : Filas \cup {Nada}] :
        b.orden = c.orden /\ b.leido = articulo /\ cargas' = Con(l, c, {b})
  <2> DEFINE b == [c EXCEPT !.leido = articulo]
  <2>1. c \in [orden : Nat, leido : Filas \cup {Nada}] /\ articulo \in Filas
    BY DEF JornadaTipos
  <2>2. b \in [orden : Nat, leido : Filas \cup {Nada}] /\ b.orden = c.orden /\ b.leido = articulo
    BY <2>1
  <2>3. cargas' = Con(l, c, {b})
    BY DEF LeerCarga
  <2> HIDE DEF b
  <2> QED BY <2>2, <2>3
<1>3. /\ cargas' \in [LectoresStock -> SUBSET [orden : Nat, leido : Filas \cup {Nada}]]
      /\ \A a \in cargas'[l] : a \in cargas[l] \/ a = b
      /\ \A k \in LectoresStock \ {l} : cargas'[k] = cargas[k]
  BY <1>2, CargasCambian
<1>4. JornadaTipos'
  BY <1>1, <1>3, TextosIguales DEF JornadaTipos, serverVars
<1>5. LectorBien(l) /\ c.orden <= pedidas[l] /\ AlDia(l, articulo)
  BY DEF JornadaInv, LectorBien, EnOrden
<1>6. EnOrden(l)' /\ AlDia(l, articulo)'
  BY <1>1, <1>2, <1>3, <1>5 DEF LectorBien, EnOrden, AlDia, serverVars
<1>7. HabraCarga(l) => HabraCarga(l)'
  BY <1>1 DEF HabraCarga, serverVars
<1>8. UltimaAlDia(l) => UltimaAlDia(l)'
  BY <1>1, <1>2, <1>3, <1>5 DEF UltimaAlDia, AlDia, serverVars, paginaVars
<1>9. LectorBien(l)'
  BY <1>1, <1>5, <1>6, <1>7, <1>8 DEF LectorBien, serverVars
<1>10. \A a \in sobreventa' : SeRecuerda(a)'
  BY <1>1, <1>2, <1>3, DosLectores, RecuerdaQuieto DEF serverVars
<1> QED BY <1>1, <1>3, <1>4, <1>9, <1>10, UnoMueve DEF serverVars, paginaVars

LEMMA FallarCargaBien ==
  ASSUME PaginaInv, JornadaTipos, JornadaInv, NEW l \in LectoresStock,
         NEW c \in cargas[l], FallarCarga(l, c)
  PROVE  JornadaTipos' /\ JornadaInv'
<1>1. UNCHANGED <<serverVars, espera, pedidas, mostrada, paginaVars, guardado, sinStock,
                  sobreventa>>
  BY DEF FallarCarga
<1>2. /\ cargas' \in [LectoresStock -> SUBSET [orden : Nat, leido : Filas \cup {Nada}]]
      /\ \A a \in cargas'[l] : a \in cargas[l]
      /\ \A k \in LectoresStock \ {l} : cargas'[k] = cargas[k]
  BY CargasCambian DEF FallarCarga
<1>3. JornadaTipos'
  BY <1>1, <1>2, TextosIguales DEF JornadaTipos, serverVars
<1>4. LectorBien(l)
  BY DEF JornadaInv
<1>5. EnOrden(l)' /\ AlDia(l, articulo)'
  BY <1>1, <1>2, <1>4 DEF LectorBien, EnOrden, AlDia, serverVars
<1>6. HabraCarga(l) => HabraCarga(l)'
  BY <1>1 DEF HabraCarga, serverVars
<1>7. UltimaAlDia(l) => UltimaAlDia(l)'
  BY <1>1, <1>2 DEF UltimaAlDia, AlDia, serverVars, paginaVars
<1>8. LectorBien(l)'
  BY <1>1, <1>4, <1>5, <1>6, <1>7 DEF LectorBien, serverVars
<1>9. \A a \in sobreventa' : SeRecuerda(a)'
  BY <1>1, <1>2, DosLectores, RecuerdaQuieto DEF serverVars
<1> QED BY <1>1, <1>2, <1>3, <1>8, <1>9, UnoMueve DEF serverVars, paginaVars

\* What an answer does to its reader.
LEMMA LlegaHace ==
  ASSUME JornadaTipos, NEW l \in LectoresStock, LectorBien(l), NEW c \in cargas[l],
         c.leido # Nada, cargas' = Con(l, c, {}), vista'[l] = c.leido,
         mostrada' = [mostrada EXCEPT ![l] = c.orden],
         UNCHANGED <<serverVars, espera, pedidas, guardado>>
  PROVE  /\ LectorBien(l)'
         /\ cargas' \in [LectoresStock -> SUBSET [orden : Nat, leido : Filas \cup {Nada}]]
         /\ mostrada' \in [LectoresStock -> Nat] /\ c.leido \in Filas
         /\ \A a \in cargas'[l] : a \in cargas[l]
         /\ \A k \in LectoresStock \ {l} :
              cargas'[k] = cargas[k] /\ mostrada'[k] = mostrada[k]
<1>1. /\ cargas' \in [LectoresStock -> SUBSET [orden : Nat, leido : Filas \cup {Nada}]]
      /\ \A a \in cargas'[l] : a \in cargas[l]
      /\ \A k \in LectoresStock \ {l} : cargas'[k] = cargas[k]
  BY CargasCambian
<1>2. c.orden \in Nat /\ c.leido \in Filas /\ pedidas[l] \in Nat
  BY DEF JornadaTipos
<1>3. /\ mostrada' \in [LectoresStock -> Nat] /\ mostrada'[l] = c.orden
      /\ \A k \in LectoresStock \ {l} : mostrada'[k] = mostrada[k]
  BY <1>2 DEF JornadaTipos
<1>4. EnOrden(l)'
  BY <1>1, <1>3 DEF LectorBien, EnOrden
<1>5. UltimaAlDia(l) => UltimaAlDia(l)'
  BY <1>1, <1>3 DEF UltimaAlDia, AlDia, serverVars
<1>6. LectorBien(l)'
  BY <1>4, <1>5 DEF LectorBien, AlDia, HabraCarga, serverVars
<1> QED BY <1>1, <1>2, <1>3, <1>6

\* The page takes the rows, and the quantities that are not being typed.
LEMMA LlegaCargaPantallaBien ==
  ASSUME PaginaInv, PaginaInv', JornadaTipos, JornadaInv, NEW c \in cargas[Pantalla],
         LlegaCargaPantalla(c)
  PROVE  JornadaTipos' /\ JornadaInv'
<1>1. /\ UNCHANGED <<serverVars, espera, pedidas, dibujado, guardado, sinStock, sobreventa>>
      /\ vista' = [vista EXCEPT ![Pantalla] = c.leido]
      /\ mostrada' = [mostrada EXCEPT ![Pantalla] = c.orden]
      /\ cargas' = Con(Pantalla, c, {}) /\ c.leido # Nada
  BY DEF LlegaCargaPantalla
<1>2. /\ vista'[Pantalla] = c.leido
      /\ \A k \in LectoresStock \ {Pantalla} : vista'[k] = vista[k]
  BY <1>1, DosLectores, PaginaCompleta
<1>3. /\ LectorBien(Pantalla)'
      /\ cargas' \in [LectoresStock -> SUBSET [orden : Nat, leido : Filas \cup {Nada}]]
      /\ mostrada' \in [LectoresStock -> Nat] /\ c.leido \in Filas
      /\ \A k \in LectoresStock \ {Pantalla} :
           cargas'[k] = cargas[k] /\ mostrada'[k] = mostrada[k]
  BY <1>1, <1>2, DosLectores, LlegaHace DEF JornadaInv
<1>4. TextosBien(c.leido)
  BY <1>3 DEF TextosBien, Filas, Numericos
<1>5. TextosPagina'
  <2>1. EsFormulario(formulario)'
    BY DEF LlegaCargaPantalla, FormularioDesde, DeFila, Fusionar, EsFormulario
  <2>2. \A a \in Articulos, k \in Campos :
          \/ formulario'[a][k] = c.leido[a][k]
          \/ vista[Pantalla] # Nada /\ formulario'[a][k] = formulario[a][k]
    <3>1. CASE vista[Pantalla] = Nada
      BY <3>1 DEF LlegaCargaPantalla, FormularioDesde, DeFila
    <3>2. CASE vista[Pantalla] # Nada
      BY <3>2 DEF LlegaCargaPantalla, Fusionar
    <3> QED BY <3>1, <3>2
  <2>3. vista[Pantalla] # Nada => TextosBien(formulario)
    BY DEF JornadaTipos, PaginaVacia, TextosPagina
  <2>4. TextosBien(formulario)'
    BY <1>4, <2>2, <2>3 DEF TextosBien, Campos
  <2>5. dibujado.formulario = Nada \/ TextosBien(dibujado.formulario)
    BY DEF JornadaTipos, PaginaVacia, TextosPagina
  <2> QED BY <1>1, <1>2, <1>3, <2>1, <2>4, <2>5 DEF TextosPagina, TextosBien
<1>6. \A l \in LectoresStock : GuardadoBien(l)'
  BY <1>1 DEF JornadaTipos, GuardadoBien
<1>7. JornadaTipos'
  BY <1>1, <1>3, <1>5, <1>6 DEF JornadaTipos, serverVars
<1>8. \A a \in sobreventa' : SeRecuerda(a)'
  BY <1>1, <1>3, DosLectores, RecuerdaQuieto DEF serverVars
<1> QED BY <1>1, <1>2, <1>3, <1>7, <1>8, DosLectores, UnoMueve DEF serverVars

\* The bell forgets what is not in the list that comes.
LEMMA LlegaCargaCampanaBien ==
  ASSUME PaginaInv, PaginaInv', JornadaTipos, JornadaInv, NEW c \in cargas[Campana],
         LlegaCargaCampana(c)
  PROVE  JornadaTipos' /\ JornadaInv'
<1>1. /\ UNCHANGED <<serverVars, espera, pedidas, formulario, dibujado, guardado, sobreventa>>
      /\ vista' = [vista EXCEPT ![Campana] = c.leido]
      /\ mostrada' = [mostrada EXCEPT ![Campana] = c.orden]
      /\ cargas' = Con(Campana, c, {}) /\ c.leido # Nada
      /\ sinStock' = Vigentes(c.leido)
  BY DEF LlegaCargaCampana
<1>2. /\ vista'[Campana] = c.leido
      /\ \A k \in LectoresStock \ {Campana} : vista'[k] = vista[k]
  BY <1>1, DosLectores, PaginaCompleta
<1>3. /\ LectorBien(Campana)'
      /\ cargas' \in [LectoresStock -> SUBSET [orden : Nat, leido : Filas \cup {Nada}]]
      /\ mostrada' \in [LectoresStock -> Nat]
      /\ \A a \in cargas'[Campana] : a \in cargas[Campana]
      /\ \A k \in LectoresStock \ {Campana} :
           cargas'[k] = cargas[k] /\ mostrada'[k] = mostrada[k]
  BY <1>1, <1>2, DosLectores, LlegaHace DEF JornadaInv
<1>4. /\ sinStock' \in [Articulos -> Nat]
      /\ \A a \in Articulos : EnAlerta(c.leido[a]) => sinStock'[a] = sinStock[a]
  BY <1>1 DEF Vigentes, JornadaTipos
<1>5. (PaginaVacia \/ TextosPagina)' /\ \A l \in LectoresStock : GuardadoBien(l)'
  <2>1. vista'[Pantalla] = vista[Pantalla]
    BY <1>2, DosLectores
  <2> QED BY <1>1, <2>1 DEF JornadaTipos, GuardadoBien, PaginaVacia, TextosPagina,
             EsFormulario, TextosBien
<1>6. JornadaTipos'
  BY <1>1, <1>3, <1>4, <1>5 DEF JornadaTipos, serverVars
<1>7. \A a \in sobreventa' : SeRecuerda(a)'
  BY <1>1, <1>3, <1>4 DEF JornadaInv, SeRecuerda, serverVars
<1> QED BY <1>1, <1>2, <1>3, <1>6, <1>7, DosLectores, UnoMueve DEF serverVars

-----------------------------------------------------------------------------
(* What the page and the bell show: the page *)

\* A step of the form alone.
LEMMA FormularioMueve ==
  ASSUME JornadaTipos, JornadaInv, (PaginaVacia \/ TextosPagina)',
         UNCHANGED <<serverVars, cargaVars, vista, guardado, sinStock, sobreventa>>
  PROVE  JornadaTipos' /\ JornadaInv'
<1>1. \A l \in LectoresStock : GuardadoBien(l)'
  BY DEF JornadaTipos, GuardadoBien
<1>2. JornadaTipos'
  BY <1>1 DEF JornadaTipos, serverVars, cargaVars
<1>3. \A a \in sobreventa' : SeRecuerda(a)'
  BY RecuerdaQuieto DEF serverVars, cargaVars
<1> QED BY <1>2, <1>3, LectoresQuietos DEF JornadaInv

LEMMA DibujarBien ==
  ASSUME JornadaTipos, JornadaInv, Dibujar
  PROVE  JornadaTipos' /\ JornadaInv'
<1>1. dibujado'.formulario = formulario
  BY DEF Dibujar, PorDibujar
<1>2. guardado'[Pantalla].fase = "nada" \/ ~PaginaVacia
  BY DEF Dibujar, PaginaVacia
<1>3. (PaginaVacia \/ TextosPagina)'
  BY <1>1, <1>2, TextosQuietos DEF JornadaTipos, Dibujar
<1> QED BY <1>3, FormularioMueve DEF Dibujar

\* The page is open, so it has its form.
LEMMA AbiertaTextos ==
  ASSUME JornadaTipos, PaginaAbierta
  PROVE  TextosPagina /\ TextosBien(dibujado.formulario)
BY DEF JornadaTipos, PaginaAbierta, PaginaVacia, TextosPagina

LEMMA TeclearBien ==
  ASSUME JornadaTipos, JornadaInv, NEW a \in Articulos, NEW c \in Campos, NEW v,
         c = "controla" => v \in BOOLEAN, c \in Numericos => v \in Nat \cup {Ilegible},
         Teclear(a, c, v)
  PROVE  JornadaTipos' /\ JornadaInv'
<1>1. TextosPagina
  BY AbiertaTextos DEF Teclear
<1>2. /\ EsFormulario(formulario)'
      /\ \A b \in Articulos, k \in Campos :
           formulario'[b][k] = IF b = a /\ k = c THEN v ELSE formulario[b][k]
  BY <1>1 DEF Teclear, TextosPagina, EsFormulario
<1>3. TextosBien(formulario')
  BY <1>1, <1>2 DEF TextosPagina, TextosBien, Campos, Numericos
<1>4. dibujado'.formulario = formulario' /\ UNCHANGED vista
  BY DEF Teclear, PorDibujar
<1>5. TextosPagina'
  BY <1>1, <1>2, <1>3, <1>4 DEF TextosPagina, TextosBien
<1> QED BY <1>5, FormularioMueve DEF Teclear

LEMMA DescartarBien ==
  ASSUME JornadaTipos, JornadaInv, Descartar
  PROVE  JornadaTipos' /\ JornadaInv'
<1>1. TextosPagina
  BY AbiertaTextos DEF Descartar, SePuede
<1>2. formulario' = [a \in Articulos |-> [k \in Campos |-> vista[Pantalla][a][k]]]
  BY DEF Descartar, FormularioDesde, DeFila
<1>3. EsFormulario(formulario)'
  BY <1>2 DEF EsFormulario
<1>4. TextosBien(formulario')
  BY <1>1, <1>2 DEF TextosPagina, TextosBien, Campos, Numericos, Filas
<1>5. dibujado'.formulario = formulario' /\ UNCHANGED vista
  BY DEF Descartar, PorDibujar
<1>6. TextosPagina'
  BY <1>1, <1>3, <1>4, <1>5 DEF TextosPagina, TextosBien
<1> QED BY <1>6, FormularioMueve DEF Descartar

\* What is sent can be read: an illegible quantity is not sent.
LEMMA AjustesLegibles ==
  ASSUME NEW filas, NEW form, TextosBien(form), \A a \in Articulos : ~ConError(form[a])
  PROVE  PideBien(Diferencias(filas, form))
<1> SUFFICES ASSUME NEW t \in Diferencias(filas, form)
             PROVE  /\ t[2] = "controla" => t[3] \in BOOLEAN
                    /\ t[2] \in Numericos => t[3] \in Nat
  BY DEF PideBien
<1>1. PICK a \in Articulos, c \in Campos : t = <<a, c, form[a][c]>> /\ SeManda(form[a], c)
  BY DEF Diferencias
<1>2. c \in Numericos => form[a].controla /\ form[a][c] # Ilegible
  BY <1>1 DEF SeManda, ConError, Numericos
<1> QED BY <1>1, <1>2 DEF TextosBien

\* The save is the last request, and brings what it asks of the server.
LEMMA GuardarBien ==
  ASSUME PaginaInv, JornadaTipos, JornadaInv, Guardar
  PROVE  JornadaTipos' /\ JornadaInv'
<1>1. UNCHANGED <<serverVars, espera, cargas, mostrada, vista, formulario, tecleado,
                  sinStock, sobreventa>>
  BY DEF Guardar
<1>2. TextosPagina /\ TextosBien(dibujado.formulario)
  BY AbiertaTextos DEF Guardar, SePuede
<1>3. PideBien(Ajustes)
  BY <1>2, AjustesLegibles DEF Guardar, Ajustes
<1>4. pedidas \in [LectoresStock -> Nat] /\ pedidas[Pantalla] \in Nat
  BY DosLectores DEF JornadaTipos
<1>5. /\ pedidas' \in [LectoresStock -> Nat] /\ pedidas'[Pantalla] = pedidas[Pantalla] + 1
      /\ \A k \in LectoresStock \ {Pantalla} : pedidas'[k] = pedidas[k]
  BY <1>4, DosLectores DEF Guardar
<1>6. /\ guardado'[Pantalla].fase = "enviado" /\ guardado'[Pantalla].pide = Ajustes
      /\ guardado'[Pantalla].orden = pedidas[Pantalla] + 1
      /\ \A k \in LectoresStock \ {Pantalla} : guardado'[k] = guardado[k]
  BY DosLectores, PaginaCompleta DEF Guardar
<1>7. TextosPagina'
  <2>1. dibujado'.formulario = formulario' /\ UNCHANGED vista
    BY <1>1 DEF Guardar, PorDibujar
  <2>2. EsFormulario(formulario)'
    BY <1>1, <1>2 DEF TextosPagina, EsFormulario
  <2>3. TextosBien(formulario')
    BY <1>1, <1>2 DEF TextosPagina, TextosBien
  <2> QED BY <1>2, <2>1, <2>2, <2>3 DEF TextosPagina, TextosBien
<1>8. \A l \in LectoresStock : GuardadoBien(l)'
  <2>1. GuardadoBien(Pantalla)'
    BY <1>3, <1>4, <1>6 DEF GuardadoBien, PideBien
  <2>2. ASSUME NEW l \in LectoresStock \ {Pantalla} PROVE GuardadoBien(l)'
    <3>1. GuardadoBien(l) /\ guardado'[l] = guardado[l]
      BY <1>6 DEF JornadaTipos
    <3> QED BY <3>1 DEF GuardadoBien
  <2> QED BY <2>1, <2>2
<1>9. JornadaTipos'
  BY <1>1, <1>5, <1>7, <1>8 DEF JornadaTipos, serverVars
<1>10. LectorBien(Pantalla)'
  <2>1. LectorBien(Pantalla) /\ mostrada[Pantalla] \in Nat
    BY DosLectores DEF JornadaInv, JornadaTipos
  <2>2. \A c \in cargas[Pantalla] : c.orden \in Nat /\ c.orden <= pedidas[Pantalla]
    BY <2>1, DosLectores DEF LectorBien, EnOrden, JornadaTipos
  <2>3. EnOrden(Pantalla)'
    BY <1>1, <1>4, <1>5, <1>6, <2>1, <2>2 DEF LectorBien, EnOrden
  <2>4. HabraCarga(Pantalla) => HabraCarga(Pantalla)'
    BY <1>1 DEF HabraCarga, serverVars
  <2>5. ASSUME UltimaAlDia(Pantalla) PROVE UltimaAlDia(Pantalla)'
    <3>1. mostrada[Pantalla] <= pedidas[Pantalla]
      BY <2>1 DEF LectorBien, EnOrden
    <3>2. /\ pedidas'[Pantalla] - 1 = pedidas[Pantalla]
          /\ mostrada[Pantalla] # pedidas'[Pantalla]
          /\ \A c \in cargas[Pantalla] : c.orden # pedidas'[Pantalla]
      BY <1>4, <1>5, <2>1, <2>2, <3>1
    <3> QED BY <1>1, <1>6, <2>5, <3>2 DEF UltimaAlDia, AlDia, serverVars
  <2> QED BY <1>1, <2>1, <2>3, <2>4, <2>5 DEF LectorBien, AlDia, serverVars
<1>11. \A a \in sobreventa' : SeRecuerda(a)'
  BY <1>1, RecuerdaQuieto DEF serverVars
<1> QED BY <1>1, <1>5, <1>6, <1>9, <1>10, <1>11, DosLectores, UnoMueve DEF serverVars

\* What the answer of a save leaves in order: it is the last one shown if the
\* one of before was.
LEMMA RespuestaEnOrden ==
  ASSUME JornadaTipos, JornadaInv, NEW peor \in Nat, peor < pedidas[Pantalla] \/ peor = mostrada[Pantalla],
         peor # 0 => peor = mostrada[Pantalla],
         mostrada' = TrasResponder(peor), guardado'[Pantalla] = SinGuardar,
         guardado[Pantalla].fase # "nada",
         UNCHANGED <<serverVars, espera, cargas, pedidas>>,
         \/ vista'[Pantalla] = vista[Pantalla]
         \/ /\ guardado[Pantalla].fase = "hecho"
            /\ peor = 0
            /\ \A a \in Articulos : vista'[Pantalla][a] \in
                 {vista[Pantalla][a], guardado[Pantalla].respuesta[a]}
  PROVE  /\ mostrada' \in [LectoresStock -> Nat]
         /\ \A k \in LectoresStock \ {Pantalla} : mostrada'[k] = mostrada[k]
         /\ LectorBien(Pantalla)'
<1> DEFINE p == pedidas[Pantalla]
           m == mostrada[Pantalla]
           o == guardado[Pantalla].orden
<1>1. p \in Nat /\ m \in Nat /\ o \in Nat /\ m <= p /\ o <= p /\ p > 0
  BY DosLectores DEF JornadaTipos, GuardadoBien, JornadaInv, LectorBien, EnOrden
<1>2. /\ mostrada' \in [LectoresStock -> Nat]
      /\ \A k \in LectoresStock \ {Pantalla} : mostrada'[k] = mostrada[k]
      /\ mostrada'[Pantalla] = IF m = o - 1 THEN m + 1 ELSE peor
  BY <1>1, DosLectores DEF TrasResponder, JornadaTipos
<1>3. LectorBien(Pantalla) /\ SinGuardar.fase = "nada" /\ SinGuardar.orden = 0
  BY DosLectores, SinNada DEF JornadaInv
<1>4. EnOrden(Pantalla)'
  BY <1>1, <1>2, <1>3 DEF LectorBien, EnOrden
<1>5. HabraCarga(Pantalla) => HabraCarga(Pantalla)'
  BY DEF HabraCarga, serverVars
<1>6. ASSUME UltimaAlDia(Pantalla) PROVE UltimaAlDia(Pantalla)'
  <2>1. \A c \in cargas[Pantalla] :
          c.leido # Nada /\ c.orden = p => AlDia(Pantalla, c.leido)
    BY <1>6 DEF UltimaAlDia
  <2>2. ASSUME mostrada'[Pantalla] = p PROVE AlDia(Pantalla, vista'[Pantalla])
    <3>1. CASE m = o - 1
      <4>1. o = p /\ m = p - 1
        BY <1>1, <1>2, <2>2, <3>1
      <4>2. /\ AlDia(Pantalla, vista[Pantalla])
            /\ guardado[Pantalla].fase = "hecho" =>
                 AlDia(Pantalla, guardado[Pantalla].respuesta)
        BY <1>6, <4>1 DEF UltimaAlDia
      <4> QED BY <4>2 DEF AlDia
    <3>2. CASE m # o - 1
      <4>1. m = p /\ peor = m
        BY <1>1, <1>2, <2>2, <3>2
      <4>2. vista'[Pantalla] = vista[Pantalla]
        BY <1>1, <4>1
      <4> QED BY <1>6, <4>1, <4>2 DEF UltimaAlDia
    <3> QED BY <3>1, <3>2
  <2> QED BY <1>3, <2>1, <2>2 DEF UltimaAlDia, AlDia, serverVars
<1>7. LectorBien(Pantalla)'
  BY <1>3, <1>4, <1>5, <1>6 DEF LectorBien, AlDia, serverVars
<1> QED BY <1>2, <1>7

LEMMA LlegaGuardadoBien ==
  ASSUME PaginaInv, PaginaInv', JornadaTipos, JornadaInv, LlegaGuardado
  PROVE  JornadaTipos' /\ JornadaInv'
<1> DEFINE nuevas == guardado[Pantalla].respuesta
           suyos == Ajustados(guardado[Pantalla].pide)
<1>1. UNCHANGED <<serverVars, espera, cargas, pedidas, dibujado, sinStock, sobreventa>>
      /\ guardado[Pantalla].fase = "hecho" /\ mostrada' = TrasResponder(0)
  BY DEF LlegaGuardado
<1>2. nuevas \in Filas
  BY <1>1, DosLectores DEF JornadaTipos, GuardadoBien
<1>3. TextosPagina
  BY <1>1 DEF JornadaTipos, PaginaVacia
<1>4. /\ vista'[Pantalla] = [a \in Articulos |-> IF a \in suyos THEN nuevas[a] ELSE vista[Pantalla][a]]
      /\ \A k \in LectoresStock \ {Pantalla} : vista'[k] = vista[k]
      /\ guardado'[Pantalla] = SinGuardar
      /\ \A k \in LectoresStock \ {Pantalla} : guardado'[k] = guardado[k]
  BY DosLectores, PaginaCompleta DEF LlegaGuardado
<1>5. formulario' = [a \in Articulos |->
        IF a \in suyos THEN [k \in Campos |-> nuevas[a][k]] ELSE formulario[a]]
  BY DEF LlegaGuardado, DeFila
<1> HIDE DEF suyos
<1>6. /\ mostrada' \in [LectoresStock -> Nat]
      /\ \A k \in LectoresStock \ {Pantalla} : mostrada'[k] = mostrada[k]
      /\ LectorBien(Pantalla)'
  <2>1. pedidas[Pantalla] > 0
    BY DosLectores DEF JornadaInv, LectorBien, EnOrden
  <2>2. \A a \in Articulos : vista'[Pantalla][a] \in {vista[Pantalla][a], nuevas[a]}
    BY <1>4
  <2>3. 0 \in Nat
    OBVIOUS
  <2> QED BY <1>1, <1>4, <2>1, <2>2, <2>3, RespuestaEnOrden
<1> HIDE DEF nuevas
<1>7. vista'[Pantalla] \in Filas
  BY <1>2, <1>3, <1>4 DEF TextosPagina, Filas
<1>8. EsFormulario(formulario)' /\ TextosBien(formulario')
  <2>1. EsFormulario(formulario)'
    BY <1>3, <1>5 DEF TextosPagina, EsFormulario
  <2>2. \A a \in Articulos, k \in Campos : formulario'[a][k] \in {nuevas[a][k], formulario[a][k]}
    BY <1>5
  <2>3. TextosBien(nuevas) /\ TextosBien(formulario)
    BY <1>2, <1>3 DEF TextosBien, TextosPagina, Filas, Numericos
  <2> QED BY <2>1, <2>2, <2>3 DEF TextosBien, Campos
<1>9. TextosPagina'
  BY <1>1, <1>3, <1>7, <1>8 DEF TextosPagina, TextosBien
<1>10. \A l \in LectoresStock : GuardadoBien(l)'
  BY <1>4, SinNada DEF JornadaTipos, GuardadoBien
<1>11. JornadaTipos'
  BY <1>1, <1>6, <1>9, <1>10 DEF JornadaTipos, serverVars
<1>12. \A a \in sobreventa' : SeRecuerda(a)'
  BY <1>1, RecuerdaQuieto DEF serverVars
<1> QED BY <1>1, <1>4, <1>6, <1>11, <1>12, DosLectores, UnoMueve DEF serverVars

LEMMA FallarGuardadoBien ==
  ASSUME PaginaInv, PaginaInv', JornadaTipos, JornadaInv, NEW l \in LectoresStock,
         FallarGuardado(l)
  PROVE  JornadaTipos' /\ JornadaInv'
<1>1. UNCHANGED <<serverVars, espera, cargas, pedidas, paginaVars, sinStock, sobreventa>>
      /\ guardado[l].fase # "nada"
  BY DEF FallarGuardado
<1>2. /\ guardado'[l] = SinGuardar
      /\ \A k \in LectoresStock \ {l} : guardado'[k] = guardado[k]
  BY PaginaCompleta DEF FallarGuardado
<1>3. /\ mostrada' \in [LectoresStock -> Nat]
      /\ \A k \in LectoresStock \ {l} : mostrada'[k] = mostrada[k]
      /\ LectorBien(l)'
  <2>1. CASE l = Pantalla
    <3>1. mostrada' = TrasResponder(mostrada[Pantalla]) /\ mostrada[Pantalla] \in Nat
      BY <2>1, DosLectores DEF FallarGuardado, JornadaTipos
    <3>2. vista'[Pantalla] = vista[Pantalla]
      BY <1>1 DEF paginaVars
    <3> QED BY <1>1, <1>2, <2>1, <3>1, <3>2, RespuestaEnOrden
  <2>2. CASE l # Pantalla
    <3>1. UNCHANGED mostrada
      BY <2>2 DEF FallarGuardado
    <3>2. LectorBien(l) /\ SinGuardar.orden = 0 /\ pedidas[l] \in Nat
      BY SinNada DEF JornadaInv, JornadaTipos
    <3>3. EnOrden(l)'
      BY <1>1, <1>2, <3>1, <3>2 DEF LectorBien, EnOrden
    <3>4. UltimaAlDia(l) => UltimaAlDia(l)'
      BY <1>1, <2>2, <3>1 DEF UltimaAlDia, AlDia, serverVars, paginaVars
    <3>5. LectorBien(l)'
      BY <1>1, <3>2, <3>3, <3>4 DEF LectorBien, AlDia, HabraCarga, serverVars
    <3> QED BY <3>1, <3>5 DEF JornadaTipos
  <2> QED BY <2>1, <2>2
<1>4. \A k \in LectoresStock : GuardadoBien(k)'
  BY <1>2, SinNada DEF JornadaTipos, GuardadoBien
<1>5. (PaginaVacia \/ TextosPagina)'
  <2>1. guardado'[Pantalla].fase = "nada" \/ ~PaginaVacia
    BY <1>2, DosLectores, SinNada DEF PaginaVacia
  <2> QED BY <1>1, <2>1, TextosQuietos DEF JornadaTipos, paginaVars
<1>6. JornadaTipos'
  BY <1>1, <1>3, <1>4, <1>5 DEF JornadaTipos, serverVars
<1>7. \A a \in sobreventa' : SeRecuerda(a)'
  BY <1>1, RecuerdaQuieto DEF serverVars
<1> QED BY <1>1, <1>2, <1>3, <1>6, <1>7, UnoMueve DEF serverVars, paginaVars

-----------------------------------------------------------------------------
(* What the page and the bell show: the bell, and the theorem *)

\* Only the page numbers its save among its requests.
LEMMA ReponerBien ==
  ASSUME PaginaInv, JornadaTipos, JornadaInv, NEW a \in Articulos, NEW n \in Unidades,
         Reponer(a, n)
  PROVE  JornadaTipos' /\ JornadaInv'
<1>1. UNCHANGED <<serverVars, cargaVars, paginaVars, sinStock, sobreventa>>
  BY DEF Reponer
<1>2. /\ guardado'[Campana].fase = "enviado" /\ guardado'[Campana].orden = 0
      /\ guardado'[Campana].pide = {<<a, "stock", n>>}
      /\ \A k \in LectoresStock \ {Campana} : guardado'[k] = guardado[k]
  BY DosLectores, PaginaCompleta DEF Reponer, SinGuardar
<1>3. PideBien({<<a, "stock", n>>})
  <2>1. n \in Nat
    BY JornadaAssumption
  <2> SUFFICES ASSUME NEW t \in {<<a, "stock", n>>}
               PROVE  /\ t[2] = "controla" => t[3] \in BOOLEAN
                      /\ t[2] \in Numericos => t[3] \in Nat
    BY DEF PideBien
  <2>2. t = <<a, "stock", n>>
    OBVIOUS
  <2>3. t[2] = "stock" /\ t[3] = n
    BY <2>2
  <2> QED BY <2>1, <2>3
<1>4. \A l \in LectoresStock : GuardadoBien(l)'
  <2>1. GuardadoBien(Campana)'
    BY <1>2, <1>3 DEF GuardadoBien, PideBien
  <2>2. ASSUME NEW l \in LectoresStock \ {Campana} PROVE GuardadoBien(l)'
    <3>1. GuardadoBien(l) /\ guardado'[l] = guardado[l]
      BY <1>2 DEF JornadaTipos
    <3> QED BY <3>1 DEF GuardadoBien
  <2> QED BY <2>1, <2>2
<1>5. guardado'[Pantalla] = guardado[Pantalla]
  BY <1>2, DosLectores
<1>6. (PaginaVacia \/ TextosPagina)'
  BY <1>1, <1>5 DEF JornadaTipos, paginaVars, PaginaVacia, TextosPagina, EsFormulario, TextosBien
<1>7. JornadaTipos'
  BY <1>1, <1>4, <1>6 DEF JornadaTipos, serverVars, cargaVars
<1>8. LectorBien(Campana)'
  <2>1. LectorBien(Campana) /\ pedidas[Campana] \in Nat
    BY DosLectores DEF JornadaInv, JornadaTipos
  <2>2. EnOrden(Campana)'
    BY <1>1, <1>2, <2>1 DEF LectorBien, EnOrden, cargaVars
  <2>3. UltimaAlDia(Campana) => UltimaAlDia(Campana)'
    BY <1>1, DosLectores DEF UltimaAlDia, AlDia, serverVars, cargaVars, paginaVars
  <2> QED BY <1>1, <2>1, <2>2, <2>3 DEF LectorBien, AlDia, HabraCarga, serverVars, cargaVars
<1>9. \A b \in sobreventa' : SeRecuerda(b)'
  BY <1>1, RecuerdaQuieto DEF serverVars, cargaVars
<1> QED BY <1>1, <1>2, <1>7, <1>8, <1>9, DosLectores, UnoMueve
        DEF serverVars, cargaVars, paginaVars

LEMMA LlegaReposicionBien ==
  ASSUME PaginaInv, JornadaTipos, JornadaInv, LlegaReposicion
  PROVE  JornadaTipos' /\ JornadaInv'
<1>1. UNCHANGED <<serverVars, espera, mostrada, paginaVars, sinStock, sobreventa>>
      /\ Cargar(Campana)
  BY DEF LlegaReposicion
<1>2. /\ guardado'[Campana] = SinGuardar
      /\ \A k \in LectoresStock \ {Campana} : guardado'[k] = guardado[k]
  BY DosLectores, PaginaCompleta DEF LlegaReposicion
<1>3. LectorBien(Campana)
  BY DosLectores DEF JornadaInv
<1>4. EnOrden(Campana)' /\ UltimaAlDia(Campana)'
  BY <1>1, <1>2, <1>3, DosLectores, SinNada, CargarFresca DEF LectorBien
<1>5. LectorBien(Campana)'
  BY <1>1, <1>3, <1>4 DEF LectorBien, AlDia, serverVars
<1>6. /\ pedidas' \in [LectoresStock -> Nat]
      /\ cargas' \in [LectoresStock -> SUBSET [orden : Nat, leido : Filas \cup {Nada}]]
      /\ \A c \in cargas'[Campana] : c \in cargas[Campana] \/ c.leido = Nada
      /\ \A k \in LectoresStock \ {Campana} :
           pedidas'[k] = pedidas[k] /\ cargas'[k] = cargas[k]
  BY <1>1, <1>3, DosLectores, CargarHace DEF LectorBien
<1>7. \A l \in LectoresStock : GuardadoBien(l)'
  BY <1>2, SinNada DEF JornadaTipos, GuardadoBien
<1>8. guardado'[Pantalla] = guardado[Pantalla]
  BY <1>2, DosLectores
<1>9. (PaginaVacia \/ TextosPagina)'
  BY <1>1, <1>8 DEF JornadaTipos, paginaVars, PaginaVacia, TextosPagina, EsFormulario, TextosBien
<1>10. JornadaTipos'
  BY <1>1, <1>6, <1>7, <1>9 DEF JornadaTipos, serverVars
<1>11. \A a \in sobreventa' : SeRecuerda(a)'
  BY <1>1, <1>6, RecuerdaQuieto DEF serverVars
<1> QED BY <1>1, <1>2, <1>5, <1>6, <1>10, <1>11, DosLectores, UnoMueve
        DEF serverVars, paginaVars

LEMMA JornadaInicio == JornadaInit => JornadaTipos /\ JornadaInv
<1> SUFFICES ASSUME JornadaInit PROVE JornadaTipos /\ JornadaInv
  OBVIOUS
<1>1. articulo \in Filas /\ \A a \in Articulos : articulo[a].version = 0
  BY JornadaAssumption DEF JornadaInit, Filas
<1>2. PrimeraCarga \in [orden : Nat, leido : Filas \cup {Nada}]
      /\ PrimeraCarga.orden = 1 /\ PrimeraCarga.leido = Nada
  BY DEF PrimeraCarga
<1>3. \A l \in LectoresStock : GuardadoBien(l)
  BY SinNada DEF JornadaInit, GuardadoBien
<1>4. PaginaVacia
  BY DosLectores, SinNada DEF JornadaInit, PaginaVacia, SinDibujar
<1>5. \A l \in LectoresStock : eventos[l] = <<>> /\ <<>> \in Seq(Sucesos)
  BY DEF JornadaInit
<1>6. JornadaTipos
  BY <1>1, <1>2, <1>3, <1>4, <1>5 DEF JornadaInit, JornadaTipos
<1>7. ASSUME NEW l \in LectoresStock PROVE LectorBien(l)
  <2>1. red[l].sala = "fuera" /\ EnOrden(l) /\ AlDia(l, articulo)
    BY <1>1, <1>2, SinNada DEF JornadaInit, EnOrden, AlDia
  <2>2. UltimaAlDia(l)
    BY <1>2, SinNada DEF JornadaInit, UltimaAlDia
  <2> QED BY <2>1, <2>2 DEF LectorBien
<1>8. sobreventa = {}
  BY DEF JornadaInit
<1> QED BY <1>6, <1>7, <1>8 DEF JornadaInv

\* Every step keeps the invariant.
LEMMA JornadaPaso ==
  PaginaInv /\ PaginaInv' /\ JornadaTipos /\ JornadaInv /\ [JornadaNext]_jornadaVars
    => JornadaTipos' /\ JornadaInv'
<1> SUFFICES ASSUME PaginaInv, PaginaInv', JornadaTipos, JornadaInv,
                    [JornadaNext]_jornadaVars
             PROVE  JornadaTipos' /\ JornadaInv'
  OBVIOUS
<1>1. CASE ServidorNext
  BY <1>1, VenderBien, AjustarOtroBien DEF ServidorNext
<1>2. ASSUME NEW l \in LectoresStock, LectorNext(l) PROVE JornadaTipos' /\ JornadaInv'
  BY <1>2, ConectarBien, EntrarBien, CortarBien, LlegaAvisoBien, VenceEsperaBien,
     RenovarTokenBien, AplicarGuardadoBien, FallarGuardadoBien, LeerCargaBien,
     FallarCargaBien DEF LectorNext
<1>3. CASE Dibujar \/ Guardar \/ Descartar \/ LlegaGuardado
  BY <1>3, DibujarBien, GuardarBien, DescartarBien, LlegaGuardadoBien
<1>4. ASSUME NEW c \in cargas[Pantalla], LlegaCargaPantalla(c)
      PROVE  JornadaTipos' /\ JornadaInv'
  BY <1>4, LlegaCargaPantallaBien
<1>5. ASSUME NEW a \in Articulos, NEW b \in BOOLEAN, Teclear(a, "controla", b)
      PROVE  JornadaTipos' /\ JornadaInv'
  <2>1. "controla" \in Campos /\ "controla" \notin Numericos
    BY DEF Campos, Numericos
  <2> QED BY <1>5, <2>1, TeclearBien
<1>6. ASSUME NEW a \in Articulos, NEW c \in Numericos, NEW v \in Unidades \cup {Ilegible},
             Teclear(a, c, v)
      PROVE  JornadaTipos' /\ JornadaInv'
  <2>1. c \in Campos /\ c # "controla" /\ v \in Nat \cup {Ilegible}
    BY JornadaAssumption DEF Campos, Numericos
  <2> QED BY <1>6, <2>1, TeclearBien
<1>7. CASE LlegaReposicion
  BY <1>7, LlegaReposicionBien
<1>8. ASSUME NEW c \in cargas[Campana], LlegaCargaCampana(c)
      PROVE  JornadaTipos' /\ JornadaInv'
  BY <1>8, LlegaCargaCampanaBien
<1>9. ASSUME NEW a \in Articulos, NEW n \in Unidades, Reponer(a, n)
      PROVE  JornadaTipos' /\ JornadaInv'
  BY <1>9, ReponerBien
<1>10. CASE UNCHANGED jornadaVars
  <2>1. (PaginaVacia \/ TextosPagina)'
    BY <1>10, TextosIguales DEF jornadaVars
  <2> QED BY <1>10, <2>1, FormularioMueve DEF jornadaVars, paginaVars
<1> QED
  BY <1>1, <1>2, <1>3, <1>4, <1>5, <1>6, <1>7, <1>8, <1>9, <1>10, DosLectores
     DEF JornadaNext, PantallaNext, CampanaNext

\* The invariant holds in every behaviour, whatever the items, the loads in
\* progress and how many events are lost.
THEOREM JornadaSpecInv == JornadaSpec => [](JornadaTipos /\ JornadaInv)
<1> QED BY JornadaInicio, JornadaPaso, PaginaSiempreFiel, PTL DEF JornadaSpec

\* In calm, the page and the bell show what was announced to them, and the bell
\* tells of the units sold without stock.
THEOREM LaVistaEstaAlDia == JornadaSpec => []VistaAlDia
<1>1. JornadaTipos /\ JornadaInv => VistaAlDia
  <2> SUFFICES ASSUME JornadaTipos, JornadaInv PROVE VistaAlDia
    OBVIOUS
  <2>1. ASSUME NEW l \in LectoresStock, EnCalma(l) PROVE FilasAlDia(l)
    <3>1. ~HabraCarga(l) /\ LectorBien(l)
      BY <2>1 DEF EnCalma, HabraCarga, JornadaInv
    <3>2. AlDia(l, vista[l])
      BY <2>1, <3>1 DEF LectorBien, UltimaAlDia, EnCalma
    <3> QED BY <3>2 DEF AlDia, FilasAlDia
  <2>2. \A a \in sobreventa : sinStock[a] > 0
    BY DEF JornadaInv, SeRecuerda
  <2> QED BY <2>1, <2>2 DEF VistaAlDia
<1> QED BY <1>1, JornadaSpecInv, PTL

=============================================================================
