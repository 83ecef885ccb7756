------------------------------- MODULE Jornada -------------------------------
(***************************************************************************)
(* What an administrator sees of the stock: the page of the day, where the *)
(* units are typed and saved together, and the bell of the header, which   *)
(* lists the items that run out.  Each has a socket, loads everything when *)
(* it starts, and again some time after an event or a reconnection.  Loads *)
(* and saves are answered in any order.                                    *)
(*                                                                         *)
(* The page merges what it loads with what is being typed, and React draws *)
(* it later: the button that saves acts on the form that was drawn.        *)
(*                                                                         *)
(* The transaction of an adjustment is one action here; module Stock takes *)
(* it apart.  The items of the menu do not change.                         *)
(***************************************************************************)
EXTENDS Naturals, Sequences

CONSTANTS
  Articulos,       \* items of the menu
  Unidades,        \* quantities that are typed, sold or stored: 0 .. a maximum
  Ilegible,        \* a text that is not a quantity
  Nada,            \* not loaded, not read, not typed
  Pantalla,        \* the page of the day
  Campana,         \* the bell
  MaxVentas,       \* bound: sales
  MaxAjustesOtros, \* bound: adjustments of other administrators
  MaxTecleos,      \* bound: fields typed
  MaxGuardados,    \* bound: saves of this administrator
  MaxFallos        \* bound: disconnections, renewals, requests that fail

ASSUME JornadaAssumption ==
  /\ Unidades \subseteq Nat /\ 0 \in Unidades
  /\ \A n \in Unidades : n > 0 => n - 1 \in Unidades
  /\ Ilegible \notin Unidades /\ Nada \notin Unidades \cup {Ilegible}
  /\ Pantalla # Campana
  /\ Nada \notin Articulos
  /\ {MaxVentas, MaxAjustesOtros, MaxTecleos, MaxGuardados, MaxFallos} \subseteq Nat

LectoresStock == {Pantalla, Campana}

VARIABLES
  articulo,   \* [Articulos -> row of item_carta]
  red,        \* [LectoresStock -> [sala, hubo]], its socket
  eventos,     \* [LectoresStock -> events on their way to it]
  espera,     \* [LectoresStock -> BOOLEAN], the timer of its next load is running
  cargas,     \* [LectoresStock -> loads on their way]
  vista,      \* [LectoresStock -> rows that it has, or Nada]
  guardado,   \* [LectoresStock -> like SinGuardar: its PATCH]
  formulario, \* the form of the page, or Nada
  dibujado,   \* what the page shows
  sinStock,   \* [Articulos -> units sold without stock, at the bell]
  pedidas,    \* history: [LectoresStock -> requests that it made]
  mostrada,   \* history: [LectoresStock -> the last of them, if in order]
  avisada,    \* history: [LectoresStock -> versions that it must show]
  tecleado,   \* history: [Articulos -> [Campos -> last text typed, or Nada]]
  sobreventa, \* history: items sold without stock that the bell must tell of
  consumo     \* how much of each bound is used

serverVars == <<articulo, red, eventos, avisada>>
cargaVars == <<espera, cargas, pedidas, mostrada>>
paginaVars == <<vista, formulario, dibujado, tecleado>>
jornadaVars ==
  <<serverVars, cargaVars, paginaVars, guardado, sinStock, sobreventa, consumo>>

-----------------------------------------------------------------------------
(* State *)

Numericos == {"stock", "umbral"}
Campos == {"controla"} \cup Numericos

\* filaDesde: what is typed of an item
DeFila(f) == [c \in Campos |-> f[c]]

\* formularioDesde
FormularioDesde(filas) == [a \in Articulos |-> DeFila(filas[a])]

\* Only the page numbers its PATCH among its requests.
SinGuardar == [fase |-> "nada", pide |-> {}, orden |-> 0, respuesta |-> Nada]

SinDibujar == [formulario |-> Nada, vista |-> Nada, guardando |-> FALSE]

SinTeclear == [c \in Campos |-> Nada]

\* The first load begins when the page opens.
PrimeraCarga == [orden |-> 1, leido |-> Nada]

JornadaInit ==
  /\ \E n \in Unidades :
       articulo = [a \in Articulos |->
         [controla |-> TRUE, stock |-> n, umbral |-> 0, version |-> 0]]
  /\ red = [l \in LectoresStock |-> [sala |-> "fuera", hubo |-> FALSE]]
  /\ eventos = [l \in LectoresStock |-> <<>>]
  /\ espera = [l \in LectoresStock |-> FALSE]
  /\ cargas = [l \in LectoresStock |-> {PrimeraCarga}]
  /\ vista = [l \in LectoresStock |-> Nada]
  /\ guardado = [l \in LectoresStock |-> SinGuardar]
  /\ formulario = Nada
  /\ dibujado = SinDibujar
  /\ sinStock = [a \in Articulos |-> 0]
  /\ pedidas = [l \in LectoresStock |-> 1]
  /\ mostrada = [l \in LectoresStock |-> 0]
  /\ avisada = [l \in LectoresStock |-> [a \in Articulos |-> 0]]
  /\ tecleado = [a \in Articulos |-> SinTeclear]
  /\ sobreventa = {}
  /\ consumo = [ventas |-> 0, ajustes |-> 0, tecleos |-> 0, guardados |-> 0,
                fallos |-> 0]

Consumir(que, maximo) ==
  /\ consumo[que] < maximo
  /\ consumo' = [consumo EXCEPT ![que] = @ + 1]

UnFallo == Consumir("fallos", MaxFallos)

-----------------------------------------------------------------------------
(* The server *)

\* tipoAlerta: sold out, or at or below its threshold
EnAlerta(f) == f.controla /\ f.stock <= f.umbral

Versiones(filas) == [a \in Articulos |-> filas[a].version]

\* To the room of the administrators.
Emitir(evento) ==
  /\ eventos' = [l \in LectoresStock |->
       IF red[l].sala = "dentro" THEN Append(eventos[l], evento) ELSE eventos[l]]
  /\ avisada' = [l \in LectoresStock |->
       IF red[l].sala = "dentro" THEN Versiones(articulo') ELSE avisada[l]]

EscribirArticulo(a, f) ==
  articulo' = [articulo EXCEPT ![a] = [f EXCEPT !.version = @ + 1]]

\* What is sold without stock is not forgotten while the item is in alert.
SiguenEnAlerta == sobreventa' = {a \in sobreventa : EnAlerta(articulo'[a])}

StockActualizado == [de |-> Nada, demas |-> 0]

Faltan(m, n) == IF m > n THEN m - n ELSE 0

\* A payment is confirmed: descontarEnTx, and after its commit, avisar.
Vender(a, n) ==
  LET f == articulo[a]
      queda == [f EXCEPT !.stock = Faltan(@, n)]
  IN  /\ f.controla /\ n > 0
      /\ Consumir("ventas", MaxVentas)
      /\ EscribirArticulo(a, queda)
      /\ IF EnAlerta(queda)
           THEN Emitir([de |-> a, demas |-> Faltan(n, f.stock)])
           ELSE UNCHANGED <<eventos, avisada>>
      /\ SiguenEnAlerta
      /\ UNCHANGED <<red, cargaVars, paginaVars, guardado, sinStock>>

\* Another administrator saves one field.
AjustarOtro(a) ==
  /\ Consumir("ajustes", MaxAjustesOtros)
  /\ \/ \E c \in Numericos, n \in Unidades :
          n # articulo[a][c] /\ EscribirArticulo(a, [articulo[a] EXCEPT ![c] = n])
     \/ EscribirArticulo(a, [articulo[a] EXCEPT !.controla = ~@])
  /\ Emitir(StockActualizado)
  /\ SiguenEnAlerta
  /\ UNCHANGED <<red, cargaVars, paginaVars, guardado, sinStock>>

\* A field that does not come keeps what the row has.
Ajustado(a, pide) ==
  LET nuevo == [c \in Campos |->
                  IF \E t \in pide : t[1] = a /\ t[2] = c
                    THEN (CHOOSE t \in pide : t[1] = a /\ t[2] = c)[3]
                    ELSE articulo[a][c]]
      f == articulo[a]
  IN  [controla |-> nuevo.controla, stock |-> nuevo.stock, umbral |-> nuevo.umbral,
       version |-> IF nuevo = DeFila(f) THEN f.version ELSE f.version + 1]

\* PATCH /admin/stock: the event is emitted though nothing changed.
AplicarGuardado(l) ==
  /\ guardado[l].fase = "enviado"
  /\ articulo' = [a \in Articulos |-> Ajustado(a, guardado[l].pide)]
  /\ Emitir(StockActualizado)
  /\ SiguenEnAlerta
  /\ guardado' = [guardado EXCEPT ![l].fase = "hecho", ![l].respuesta = articulo']
  /\ UNCHANGED <<red, cargaVars, paginaVars, sinStock, consumo>>

-----------------------------------------------------------------------------
(* The sockets *)

\* Seeded defect: it trusts the events of after.
ProgramarAlConectarNunca(l) == espera[l]

\* The first connection is the one that comes with a load.
ProgramarAlConectar(l) == espera[l] \/ red[l].hubo

\* "connect" reaches the browser before the server lets it into the room.
Conectar(l) ==
  /\ red[l].sala = "fuera"
  /\ red' = [red EXCEPT ![l] = [sala |-> "entrando", hubo |-> TRUE]]
  /\ espera' = [espera EXCEPT ![l] = ProgramarAlConectar(l)]
  /\ avisada' = [avisada EXCEPT ![l] = IF red[l].hubo THEN Versiones(articulo) ELSE @]
  /\ UNCHANGED <<articulo, eventos, cargas, pedidas, mostrada, paginaVars, guardado,
                 sinStock, sobreventa, consumo>>

EntrarALaSala(l) ==
  /\ red[l].sala = "entrando"
  /\ red' = [red EXCEPT ![l].sala = "dentro"]
  /\ UNCHANGED <<articulo, eventos, avisada, cargaVars, paginaVars, guardado, sinStock,
                 sobreventa, consumo>>

\* What was on its way is lost.
Cortar(l) ==
  /\ red[l].sala # "fuera"
  /\ UnFallo
  /\ red' = [red EXCEPT ![l].sala = "fuera"]
  /\ eventos' = [eventos EXCEPT ![l] = <<>>]
  /\ UNCHANGED <<articulo, avisada, cargaVars, paginaVars, guardado, sinStock, sobreventa>>

\* A load on its way that read it out of alert.
Cruza(a) ==
  \E c \in cargas[Campana] : c.leido # Nada /\ ~EnAlerta(c.leido[a])

\* stock:alerta, stock:actualizado: the load waits for the last event.
LlegaAviso(l) ==
  LET e == Head(eventos[l])
      suma == l = Campana /\ e.demas > 0
  IN  /\ eventos[l] # <<>>
      /\ eventos' = [eventos EXCEPT ![l] = Tail(@)]
      /\ espera' = [espera EXCEPT ![l] = TRUE]
      /\ sinStock' = IF suma THEN [sinStock EXCEPT ![e.de] = @ + e.demas] ELSE sinStock
      /\ sobreventa' =
           IF suma /\ EnAlerta(articulo[e.de]) /\ ~Cruza(e.de)
             THEN sobreventa \cup {e.de} ELSE sobreventa
      /\ UNCHANGED <<articulo, red, avisada, cargas, pedidas, mostrada, paginaVars,
                     guardado, consumo>>

-----------------------------------------------------------------------------
(* Loads *)

\* cargar: GET /admin/stock or GET /admin/stock/alertas
Cargar(l) ==
  /\ pedidas' = [pedidas EXCEPT ![l] = @ + 1]
  /\ cargas' = [cargas EXCEPT ![l] = @ \cup {[orden |-> pedidas[l] + 1, leido |-> Nada]}]

VenceEspera(l) ==
  /\ espera[l]
  /\ espera' = [espera EXCEPT ![l] = FALSE]
  /\ Cargar(l)
  /\ UNCHANGED <<serverVars, mostrada, paginaVars, guardado, sinStock, sobreventa, consumo>>

\* A new token opens another socket, and loads.
RenovarToken(l) ==
  /\ UnFallo
  /\ red' = [red EXCEPT ![l] = [sala |-> "fuera", hubo |-> FALSE]]
  /\ eventos' = [eventos EXCEPT ![l] = <<>>]
  /\ avisada' = [avisada EXCEPT ![l] = Versiones(articulo)]
  /\ espera' = [espera EXCEPT ![l] = FALSE]
  /\ Cargar(l)
  /\ UNCHANGED <<articulo, mostrada, paginaVars, guardado, sinStock, sobreventa>>

Con(l, c, d) == [cargas EXCEPT ![l] = (@ \ {c}) \cup d]

LeerCarga(l, c) ==
  /\ c.leido = Nada
  /\ cargas' = Con(l, c, {[c EXCEPT !.leido = articulo]})
  /\ UNCHANGED <<serverVars, espera, pedidas, mostrada, paginaVars, guardado, sinStock,
                 sobreventa, consumo>>

FallarCarga(l, c) ==
  /\ UnFallo
  /\ cargas' = Con(l, c, {})
  /\ UNCHANGED <<serverVars, espera, pedidas, mostrada, paginaVars, guardado, sinStock,
                 sobreventa>>

\* Nobody typed in it, or what was typed is what it had.
Intacto(a, c) == formulario[a][c] = vista[Pantalla][a][c]

\* Seeded defect: the form that is being edited stays as it is.
FusionarSinMirar(nuevos) == formulario

\* fusionarConServidor
Fusionar(nuevos) ==
  [a \in Articulos |-> [c \in Campos |->
     IF Intacto(a, c) THEN nuevos[a][c] ELSE formulario[a][c]]]

LlegaCargaPantalla(c) ==
  /\ c.leido # Nada
  /\ formulario' = IF vista[Pantalla] = Nada THEN FormularioDesde(c.leido)
                                             ELSE Fusionar(c.leido)
  /\ tecleado' = [a \in Articulos |-> [k \in Campos |->
       IF vista[Pantalla] # Nada /\ ~Intacto(a, k) THEN tecleado[a][k] ELSE Nada]]
  /\ vista' = [vista EXCEPT ![Pantalla] = c.leido]
  /\ mostrada' = [mostrada EXCEPT ![Pantalla] = c.orden]
  /\ cargas' = Con(Pantalla, c, {})
  /\ UNCHANGED <<serverVars, espera, pedidas, dibujado, guardado, sinStock, sobreventa,
                 consumo>>

\* Seeded defect: they are of before, and the list is new.
VigentesNinguna(filas) == [a \in Articulos |-> 0]

\* sinStockVigentes: forgotten when the item is not in the list
Vigentes(filas) ==
  [a \in Articulos |-> IF EnAlerta(filas[a]) THEN sinStock[a] ELSE 0]

LlegaCargaCampana(c) ==
  /\ c.leido # Nada
  /\ vista' = [vista EXCEPT ![Campana] = c.leido]
  /\ sinStock' = Vigentes(c.leido)
  /\ mostrada' = [mostrada EXCEPT ![Campana] = c.orden]
  /\ cargas' = Con(Campana, c, {})
  /\ UNCHANGED <<serverVars, espera, pedidas, formulario, dibujado, tecleado, guardado,
                 sobreventa, consumo>>

-----------------------------------------------------------------------------
(* The page *)

\* What React draws next.
PorDibujar ==
  [formulario |-> formulario, vista |-> vista[Pantalla],
   guardando |-> guardado[Pantalla].fase # "nada"]

\* The state set by an answer is drawn in a task of its own.
Dibujar ==
  /\ dibujado # PorDibujar
  /\ dibujado' = PorDibujar
  /\ UNCHANGED <<serverVars, cargaVars, vista, formulario, tecleado, guardado, sinStock,
                 sobreventa, consumo>>

PaginaAbierta == dibujado.formulario # Nada

\* cambiarFila: without stock control, the quantities are disabled.
Teclear(a, c, v) ==
  /\ PaginaAbierta
  /\ c = "controla" \/ dibujado.formulario[a].controla
  /\ v # dibujado.formulario[a][c]
  /\ Consumir("tecleos", MaxTecleos)
  /\ formulario' = [formulario EXCEPT ![a][c] = v]
  /\ tecleado' = [tecleado EXCEPT ![a][c] = v]
  /\ UNCHANGED <<serverVars, cargaVars, vista, guardado, sinStock, sobreventa>>
  /\ dibujado' = PorDibujar'

\* Without stock control the quantities are not sent.
SeManda(f, c) == c = "controla" \/ f.controla

\* What differs between the rows and the form: <<item, field, value>>.
Diferencias(filas, form) ==
  {<<t[1], t[2], form[t[1]][t[2]]>> : t \in
     {t \in Articulos \X Campos :
        SeManda(form[t[1]], t[2]) /\ form[t[1]][t[2]] # filas[t[1]][t[2]]}}

\* filasConCambios, and the bar is not saving
SePuede ==
  /\ PaginaAbierta
  /\ ~dibujado.guardando
  /\ Diferencias(dibujado.vista, dibujado.formulario) # {}

\* erroresDeFila
ConError(f) == f.controla /\ \E c \in Numericos : f[c] = Ilegible

\* ajustesParaGuardar: the form that was drawn, and the rows that it has now.
Ajustes == Diferencias(vista[Pantalla], dibujado.formulario)

\* The rows that have differences, and so come in the answer.
Ajustados(pide) == {t[1] : t \in pide}

Guardar ==
  /\ SePuede
  /\ \A a \in Articulos : ~ConError(dibujado.formulario[a])
  /\ Ajustes # {}
  /\ Consumir("guardados", MaxGuardados)
  /\ pedidas' = [pedidas EXCEPT ![Pantalla] = @ + 1]
  /\ guardado' = [guardado EXCEPT ![Pantalla] =
       [fase |-> "enviado", pide |-> Ajustes, orden |-> pedidas[Pantalla] + 1,
        respuesta |-> Nada]]
  /\ UNCHANGED <<serverVars, espera, cargas, mostrada, vista, formulario, tecleado,
                 sinStock, sobreventa>>
  /\ dibujado' = PorDibujar'

\* «Descartar», or there was nothing to save after all.
Descartar ==
  /\ SePuede
  /\ formulario' = FormularioDesde(vista[Pantalla])
  /\ tecleado' = [a \in Articulos |-> SinTeclear]
  /\ UNCHANGED <<serverVars, cargaVars, vista, guardado, sinStock, sobreventa, consumo>>
  /\ dibujado' = PorDibujar'

\* Its rows are not the last ones if a load that began before is not answered,
\* or one that began after is.
TrasResponder(peor) ==
  [mostrada EXCEPT ![Pantalla] =
     IF @ = guardado[Pantalla].orden - 1 THEN @ + 1 ELSE peor]

\* reemplazarItems, and the fields of these rows, typed meanwhile or not.
LlegaGuardado ==
  LET nuevas == guardado[Pantalla].respuesta
      suyos == Ajustados(guardado[Pantalla].pide)
  IN  /\ guardado[Pantalla].fase = "hecho"
      /\ vista' = [vista EXCEPT ![Pantalla] = [a \in Articulos |->
           IF a \in suyos THEN nuevas[a] ELSE @[a]]]
      /\ formulario' = [a \in Articulos |->
           IF a \in suyos THEN DeFila(nuevas[a]) ELSE formulario[a]]
      /\ tecleado' = [a \in Articulos |-> IF a \in suyos THEN SinTeclear ELSE tecleado[a]]
      /\ guardado' = [guardado EXCEPT ![Pantalla] = SinGuardar]
      /\ mostrada' = TrasResponder(0)
      /\ UNCHANGED <<serverVars, espera, cargas, pedidas, dibujado, sinStock, sobreventa,
                     consumo>>

\* Refused, or its answer lost: an error, and the form stays.
FallarGuardado(l) ==
  /\ guardado[l].fase # "nada"
  /\ UnFallo
  /\ guardado' = [guardado EXCEPT ![l] = SinGuardar]
  /\ mostrada' = IF l = Pantalla THEN TrasResponder(mostrada[Pantalla]) ELSE mostrada
  /\ UNCHANGED <<serverVars, espera, cargas, pedidas, paginaVars, sinStock, sobreventa>>

-----------------------------------------------------------------------------
(* The bell *)

\* «Reponer stock»: the units that there are now.
Reponer(a, n) ==
  /\ vista[Campana] # Nada /\ EnAlerta(vista[Campana][a])
  /\ guardado[Campana].fase = "nada"
  /\ Consumir("guardados", MaxGuardados)
  /\ guardado' = [guardado EXCEPT ![Campana] =
       [SinGuardar EXCEPT !.fase = "enviado", !.pide = {<<a, "stock", n>>}]]
  /\ UNCHANGED <<serverVars, cargaVars, paginaVars, sinStock, sobreventa>>

\* After the answer, it loads.
LlegaReposicion ==
  /\ guardado[Campana].fase = "hecho"
  /\ guardado' = [guardado EXCEPT ![Campana] = SinGuardar]
  /\ Cargar(Campana)
  /\ UNCHANGED <<serverVars, espera, mostrada, paginaVars, sinStock, sobreventa, consumo>>

-----------------------------------------------------------------------------
(* Specification *)

ServidorNext ==
  \E a \in Articulos : AjustarOtro(a) \/ \E n \in Unidades : Vender(a, n)

LectorNext(l) ==
  \/ Conectar(l) \/ EntrarALaSala(l) \/ Cortar(l) \/ LlegaAviso(l)
  \/ VenceEspera(l) \/ RenovarToken(l)
  \/ AplicarGuardado(l) \/ FallarGuardado(l)
  \/ \E c \in cargas[l] : LeerCarga(l, c) \/ FallarCarga(l, c)

PantallaNext ==
  \/ LectorNext(Pantalla) \/ Dibujar \/ Guardar \/ Descartar \/ LlegaGuardado
  \/ \E c \in cargas[Pantalla] : LlegaCargaPantalla(c)
  \/ \E a \in Articulos :
       \/ \E b \in BOOLEAN : Teclear(a, "controla", b)
       \/ \E c \in Numericos, v \in Unidades \cup {Ilegible} : Teclear(a, c, v)

CampanaNext ==
  \/ LectorNext(Campana) \/ LlegaReposicion
  \/ \E c \in cargas[Campana] : LlegaCargaCampana(c)
  \/ \E a \in Articulos, n \in Unidades : Reponer(a, n)

JornadaNext == ServidorNext \/ PantallaNext \/ CampanaNext

JornadaSpec == JornadaInit /\ [][JornadaNext]_jornadaVars

-----------------------------------------------------------------------------
(* Properties *)

EmpiezaAGuardar == guardado[Pantalla].fase = "nada" /\ guardado'[Pantalla].fase = "enviado"

LoTecleado == \A t \in guardado'[Pantalla].pide : t[3] = tecleado[t[1]][t[2]]

\* What a save sends was typed by the administrator, and never a quantity that
\* the page loaded and a sale has changed since («solo los campos que
\* cambiaron», stock-jornada.utils.ts:103): loads that arrive while the form is
\* edited, in any order, and saves that fail must not turn the one into the
\* other (fusionarConServidor).  The exception is a save between the arrival of
\* a load and its drawing.
SoloLoTecleado ==
  [][EmpiezaAGuardar => LoTecleado \/ dibujado # PorDibujar]_jornadaVars

\* Nothing is on its way, and the last request was answered last, and not in error.
EnCalma(l) ==
  /\ red[l].sala = "dentro" /\ eventos[l] = <<>> /\ ~espera[l]
  /\ cargas[l] = {} /\ guardado[l].fase = "nada"
  /\ mostrada[l] = pedidas[l]

FilasAlDia(l) == \A a \in Articulos : vista[l][a].version >= avisada[l][a]

\* In calm, the page and the bell show every change that was announced to
\* them, and every change of before their socket came back, however many events
\* were lost (socket-stock.ts:43).  A sale above the threshold is not
\* announced, and neither is a change before the socket enters the room.  And
\* the bell tells of units sold without stock as long as the item stays in
\* alert, whatever it loads (stock.utils.ts:85), unless a load that read the item
\* out of alert was on its way when the sale was announced.
VistaAlDia ==
  /\ \A l \in LectoresStock : EnCalma(l) => FilasAlDia(l)
  /\ \A a \in sobreventa : sinStock[a] > 0

=============================================================================
