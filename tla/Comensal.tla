------------------------------ MODULE Comensal ------------------------------
(***************************************************************************)
(* The diner's page at a table, and what it asks of the backend: create an *)
(* order with the cart, open the payment screen, pay by card, tell the     *)
(* waiter that it is cash, poll, go back to the menu, reload and take up   *)
(* the order where it was.                                                 *)
(*                                                                         *)
(* A request is answered in a step and its answer applied in a later one,  *)
(* or lost; between them the page goes on.  What a callback captured when  *)
(* it was made goes with the request.  A screen that was closed ignores    *)
(* its answers, but not the parent's callback of an approved payment.      *)
(*                                                                         *)
(* The firma of a cart is the cart.  Order 0 is none.  Of the backend      *)
(* there is what an answer tells.                                          *)
(***************************************************************************)
EXTENDS Integers

CONSTANTS
  Carritos,      \* contents of a cart
  Vacio,         \* the empty one
  MaxComandas,   \* bound on orders
  MaxIntentos,   \* bound on card payments
  MaxAvisosMozo, \* bound on notices to the waiter
  MaxRecargas    \* bound on reloads

ASSUME ComensalAssumption ==
  /\ Vacio \notin Carritos
  /\ MaxComandas \in Nat /\ MaxIntentos \in Nat
  /\ MaxAvisosMozo \in Nat /\ MaxRecargas \in Nat

VARIABLES
  abierta,   \* the table has a session
  encargo,   \* [1 .. MaxComandas -> the order, as the backend has it]
  pagina,    \* the state of the page
  guardado,  \* sessionStorage
  intento,   \* [1 .. MaxIntentos -> a POST of a card payment]
  recargas,  \* how much of MaxRecargas is used
  avisos,    \* how much of MaxAvisosMozo is used
  movidos,   \* history: orders whose cart was not the one shown when they came
  cruzados   \* history: orders about which an answer was lost, or came late

comensalVars ==
  <<abierta, encargo, pagina, guardado, intento, recargas, avisos, movidos,
    cruzados>>

-----------------------------------------------------------------------------
(* Types *)

Encargos == 1 .. MaxComandas
Intentos == 1 .. MaxIntentos

Nuevo == [lineas |-> Vacio, estado |-> "no", pago |-> "no", avisado |-> FALSE]

SinIntento ==
  [paso |-> "no", pedido |-> 0, lineas |-> Vacio, respuesta |-> "no", atento |-> FALSE]
Terminado == [SinIntento EXCEPT !.paso = "terminado"]

NadaGuardado == [pedido |-> 0, lineas |-> Vacio, firma |-> Vacio, aprobado |-> FALSE]
SinPedido == [pedido |-> 0, firma |-> Vacio]
SinEnvio == [paso |-> "no", lineas |-> Vacio, pedido |-> 0]
SinRetoma == [paso |-> "no", de |-> NadaGuardado]
SinAviso == [paso |-> "no", pedido |-> 0]

\* The page as it loads.  A notice to the waiter may be on its way.
Cargada(retoma, aviso) ==
  [vista |-> "carta", carrito |-> Vacio, porPagar |-> SinPedido,
   aprobado |-> [pedido |-> 0, lineas |-> Vacio],
   pantalla |-> "formulario", medios |-> "no", apertura |-> "no",
   envio |-> SinEnvio, retoma |-> retoma, aviso |-> aviso]

ComensalInit ==
  /\ abierta = TRUE
  /\ encargo = [o \in Encargos |-> Nuevo]
  /\ pagina = Cargada(SinRetoma, SinAviso)
  /\ guardado = NadaGuardado
  /\ intento = [i \in Intentos |-> SinIntento]
  /\ recargas = 0
  /\ avisos = 0
  /\ movidos = {}
  /\ cruzados = {}

Actual == pagina.porPagar.pedido

EnPago == pagina.vista = "pago" /\ Actual # 0

\* The notice of a screen that is closed: it arrives, and nobody is told.
Abandonado ==
  IF pagina.aviso.paso = "pide" THEN [pagina.aviso EXCEPT !.paso = "perdido"]
  ELSE IF pagina.aviso.paso = "perdido" THEN pagina.aviso ELSE SinAviso

\* The screen «Pagar», when it is mounted.
Abre(p) == [p EXCEPT !.vista = "pago", !.pantalla = "formulario",
                     !.medios = "no", !.apertura = "pide"]

\* It keeps its state when the order it is about changes, and asks again.
Muestra(p, o, firma) ==
  LET q == [p EXCEPT !.porPagar = [pedido |-> o, firma |-> firma]]
  IN  IF p.vista = "pago" /\ p.porPagar.pedido # 0
        THEN [q EXCEPT !.apertura = IF p.porPagar.pedido = o THEN @ ELSE "pide"]
        ELSE Abre(q)

-----------------------------------------------------------------------------
(* The menu and the cart *)

\* «Agregar» and the notes; also while the order is being sent.
Agregar ==
  /\ pagina.vista = "carta"
  /\ \E c \in Carritos \ {pagina.carrito} : pagina' = [pagina EXCEPT !.carrito = c]
  /\ UNCHANGED <<abierta, encargo, guardado, intento, recargas, avisos, movidos, cruzados>>

Vaciar ==
  /\ pagina.vista = "carta"
  /\ pagina.carrito # Vacio
  /\ pagina.envio.paso = "no"
  /\ pagina' = [pagina EXCEPT !.carrito = Vacio]
  /\ UNCHANGED <<abierta, encargo, guardado, intento, recargas, avisos, movidos, cruzados>>

PuedeContinuar ==
  pagina.vista = "carta" /\ pagina.carrito # Vacio /\ pagina.envio.paso = "no"

\* Seeded defect: the order that waits is reused whatever the cart.
HayUnPedido == Actual # 0

\* The same order, if the cart did not change.
SeReusa == Actual # 0 /\ pagina.porPagar.firma = pagina.carrito

ContinuarConElMismo ==
  /\ PuedeContinuar
  /\ SeReusa
  /\ pagina' = Abre(pagina)
  /\ UNCHANGED <<abierta, encargo, guardado, intento, recargas, avisos, movidos, cruzados>>

ContinuarAlPago ==
  /\ PuedeContinuar
  /\ ~SeReusa
  /\ pagina' = [pagina EXCEPT !.envio =
       [paso |-> "pide", lineas |-> pagina.carrito, pedido |-> 0]]
  /\ UNCHANGED <<abierta, encargo, guardado, intento, recargas, avisos, movidos, cruzados>>

\* POST /pedidos; with the table closed there is no order.
CrearEncargo ==
  /\ pagina.envio.paso = "pide"
  /\ abierta
  /\ \E o \in Encargos :
       /\ encargo[o].estado = "no"
       /\ \A x \in Encargos : x < o => encargo[x].estado # "no"
       /\ encargo' = [encargo EXCEPT ![o] =
            [Nuevo EXCEPT !.lineas = pagina.envio.lineas, !.estado = "PENDIENTE_PAGO"]]
       /\ pagina' = [pagina EXCEPT !.envio.paso = "creado", !.envio.pedido = o]
  /\ UNCHANGED <<abierta, guardado, intento, recargas, avisos, movidos, cruzados>>

LlegaEncargo ==
  LET e == pagina.envio IN
  /\ e.paso = "creado"
  /\ pagina' = [Muestra(pagina, e.pedido, e.lineas) EXCEPT !.envio = SinEnvio]
  /\ guardado' = [pedido |-> e.pedido, lineas |-> e.lineas, firma |-> e.lineas,
                  aprobado |-> FALSE]
  /\ movidos' = IF pagina.carrito = e.lineas THEN movidos ELSE movidos \cup {e.pedido}
  /\ cruzados' = IF EnPago THEN cruzados \cup {Actual, e.pedido} ELSE cruzados
  /\ UNCHANGED <<abierta, encargo, intento, recargas, avisos>>

\* Refused, or no answer: the order may exist, and this page will not know.
FallaEncargo ==
  /\ pagina.envio.paso # "no"
  /\ pagina' = [pagina EXCEPT !.envio = SinEnvio]
  /\ UNCHANGED <<abierta, encargo, guardado, intento, recargas, avisos, movidos, cruzados>>

-----------------------------------------------------------------------------
(* Taking up the order after a reload *)

\* Nobody waits for the answer any more.
Desatendido(i) ==
  CASE intento[i].paso = "no"      -> intento[i]
    [] intento[i].paso = "enviado" -> [intento[i] EXCEPT !.atento = FALSE, !.lineas = Vacio]
    [] OTHER                       -> Terminado

\* The page loses everything but sessionStorage; its requests go on.
Recargar ==
  /\ recargas < MaxRecargas
  /\ recargas' = recargas + 1
  /\ pagina' = Cargada(IF guardado.pedido = 0 THEN SinRetoma
                       ELSE [paso |-> "pide", de |-> guardado], Abandonado)
  /\ intento' = [i \in Intentos |-> Desatendido(i)]
  /\ cruzados' = cruzados \cup
       {intento[i].pedido : i \in {k \in Intentos : intento[k].atento}}
  /\ UNCHANGED <<abierta, encargo, guardado, avisos, movidos>>

\* decidirRetoma and retomaDeError
Retoma(o) ==
  IF ~abierta \/ encargo[o].estado = "CANCELADO" THEN "descartar"
  ELSE IF encargo[o].estado = "PENDIENTE_PAGO" THEN "pago" ELSE "aprobado"

ConsultarGuardado ==
  /\ pagina.retoma.paso = "pide"
  /\ pagina' = [pagina EXCEPT !.retoma.paso = Retoma(pagina.retoma.de.pedido)]
  /\ UNCHANGED <<abierta, encargo, guardado, intento, recargas, avisos, movidos, cruzados>>

RetomarPago ==
  LET g == pagina.retoma.de
      p == [pagina EXCEPT !.retoma = SinRetoma, !.carrito = g.lineas]
  IN
  /\ pagina.retoma.paso = "pago"
  /\ pagina' = Muestra(p, g.pedido, g.firma)
  /\ cruzados' = IF EnPago THEN cruzados \cup {Actual, g.pedido} ELSE cruzados
  /\ UNCHANGED <<abierta, encargo, guardado, intento, recargas, avisos, movidos>>

\* What is saved again is what was read when the page loaded.
RetomarAprobado ==
  LET g == pagina.retoma.de IN
  /\ pagina.retoma.paso = "aprobado"
  /\ guardado' = [g EXCEPT !.aprobado = TRUE]
  /\ pagina' = [pagina EXCEPT !.retoma = SinRetoma, !.vista = "aprobado",
       !.aprobado = [pedido |-> g.pedido, lineas |-> g.lineas],
       !.apertura = "no", !.aviso = Abandonado]
  /\ cruzados' = IF EnPago THEN cruzados \cup {Actual} ELSE cruzados
  /\ UNCHANGED <<abierta, encargo, intento, recargas, avisos, movidos>>

Descartar ==
  /\ pagina.retoma.paso = "descartar"
  /\ guardado' = NadaGuardado
  /\ pagina' = [pagina EXCEPT !.retoma = SinRetoma]
  /\ UNCHANGED <<abierta, encargo, intento, recargas, avisos, movidos, cruzados>>

\* No answer proves nothing: the menu is shown, and what is saved stays.
ConservarGuardado ==
  /\ pagina.retoma.paso # "no"
  /\ pagina' = [pagina EXCEPT !.retoma = SinRetoma]
  /\ UNCHANGED <<abierta, encargo, guardado, intento, recargas, avisos, movidos, cruzados>>

-----------------------------------------------------------------------------
(* The payment screen *)

\* Seeded defect: what is in course is not looked at.
SinMirarElPago(o) == IF encargo[o].avisado THEN "efectivo" ELSE "formulario"

PantallaAlAbrir(o) ==
  IF encargo[o].estado # "PENDIENTE_PAGO" THEN "formulario"
  ELSE IF encargo[o].pago = "PENDIENTE" THEN "verificando"
  ELSE IF encargo[o].avisado THEN "efectivo" ELSE "formulario"

ConsultarAlAbrir ==
  /\ EnPago
  /\ pagina.apertura = "pide"
  /\ pagina' = [pagina EXCEPT !.apertura = PantallaAlAbrir(Actual)]
  /\ UNCHANGED <<abierta, encargo, guardado, intento, recargas, avisos, movidos, cruzados>>

AplicarApertura ==
  /\ EnPago
  /\ pagina.apertura \in {"formulario", "verificando", "efectivo"}
  /\ pagina' = [pagina EXCEPT !.apertura = "no", !.medios = "todos",
       !.pantalla = CASE pagina.apertura = "formulario"  -> @
                      [] pagina.apertura = "verificando" -> "verificando"
                      [] pagina.apertura = "efectivo"    -> "esperandoEfectivo"]
  /\ UNCHANGED <<abierta, encargo, guardado, intento, recargas, avisos, movidos, cruzados>>

\* MEDIOS_SIN_CONSULTA: only the card is offered.
FallaApertura ==
  /\ EnPago
  /\ pagina.apertura # "no"
  /\ pagina' = [pagina EXCEPT !.apertura = "no", !.medios = "tarjeta"]
  /\ cruzados' = cruzados \cup {Actual}
  /\ UNCHANGED <<abierta, encargo, guardado, intento, recargas, avisos, movidos>>

OfrecePagar ==
  /\ EnPago
  /\ pagina.medios # "no"
  /\ pagina.pantalla \in {"formulario", "rechazado", "error"}

Pagar ==
  /\ OfrecePagar
  /\ \E i \in Intentos :
       /\ intento[i].paso = "no"
       /\ \A k \in Intentos : k < i => intento[k].paso # "no"
       /\ intento' = [intento EXCEPT ![i] =
            [paso |-> "enviado", pedido |-> Actual, lineas |-> pagina.carrito,
             respuesta |-> "no", atento |-> TRUE]]
  /\ pagina' = [pagina EXCEPT !.pantalla = "procesando"]
  /\ UNCHANGED <<abierta, encargo, guardado, recargas, avisos, movidos, cruzados>>

Respondido(i, r) ==
  IF intento[i].atento
    THEN [intento EXCEPT ![i].paso = "respondido", ![i].respuesta = r]
    ELSE [intento EXCEPT ![i] = Terminado]

\* PagosService.reservar
ReservarIntento(i) ==
  /\ intento[i].paso = "enviado"
  /\ abierta
  /\ encargo[intento[i].pedido].pago \notin {"PENDIENTE", "APROBADO"}
  /\ encargo' = [encargo EXCEPT ![intento[i].pedido].pago = "PENDIENTE"]
  /\ intento' = [intento EXCEPT ![i] =
       IF @.atento THEN [@ EXCEPT !.paso = "cobrando"] ELSE Terminado]
  /\ UNCHANGED <<abierta, pagina, guardado, recargas, avisos, movidos, cruzados>>

\* 409: paid or in course; also without stock, or with the card turned off.
ConflictoDelIntento(i) ==
  /\ intento[i].paso = "enviado"
  /\ abierta
  /\ intento' = Respondido(i, "verificando")
  /\ UNCHANGED <<abierta, encargo, pagina, guardado, recargas, avisos, movidos, cruzados>>

\* 400, or 410 with the table closed.
RehusarIntento(i) ==
  /\ intento[i].paso = "enviado"
  /\ intento' = Respondido(i, "error")
  /\ UNCHANGED <<abierta, encargo, pagina, guardado, recargas, avisos, movidos, cruzados>>

\* The payment as resultadoDeEstado and resultadoDeError(402) read it.
ResultadoDe(o) ==
  CASE encargo[o].pago = "APROBADO"  -> "aprobado"
    [] encargo[o].pago = "RECHAZADO" -> "rechazado"
    [] OTHER                         -> "verificando"

Resuelto(o, pago) ==
  [encargo EXCEPT ![o].pago = pago,
                  ![o].estado = IF pago = "APROBADO" THEN "PAGADO" ELSE @]

\* The answer of the charge, or the notification, or the reconciliation job.
ResolverPago(o) ==
  /\ encargo[o].pago = "PENDIENTE"
  /\ \E pago \in {"APROBADO", "RECHAZADO"} : encargo' = Resuelto(o, pago)
  /\ UNCHANGED <<abierta, pagina, guardado, intento, recargas, avisos, movidos, cruzados>>

\* 201, 402, or 503 when the gateway did not answer.
ResponderIntento(i) ==
  /\ intento[i].paso = "cobrando"
  /\ intento' = Respondido(i, ResultadoDe(intento[i].pedido))
  /\ UNCHANGED <<abierta, encargo, pagina, guardado, recargas, avisos, movidos, cruzados>>

\* alAprobarPago, with the order and the cart that the callback captured.
Aprobada(p, o, lineas) ==
  [p EXCEPT !.aprobado = [pedido |-> o, lineas |-> lineas],
            !.porPagar = SinPedido, !.carrito = Vacio, !.vista = "aprobado",
            !.apertura = "no", !.aviso = Abandonado]

GuardaAprobado(o, lineas) ==
  guardado' = [pedido |-> o, lineas |-> lineas, firma |-> lineas, aprobado |-> TRUE]

\* The answer of a payment of another order also changes the screen.
LlegaRespuesta(i) ==
  LET r == intento[i].respuesta IN
  /\ intento[i].atento
  /\ intento[i].paso = "respondido"
  /\ intento' = [intento EXCEPT ![i] = Desatendido(i)]
  /\ IF r = "aprobado"
       THEN /\ pagina' = Aprobada(pagina, intento[i].pedido, intento[i].lineas)
            /\ GuardaAprobado(intento[i].pedido, intento[i].lineas)
       ELSE /\ pagina' = IF EnPago THEN [pagina EXCEPT !.pantalla = r] ELSE pagina
            /\ UNCHANGED guardado
  /\ cruzados' = IF EnPago /\ Actual # intento[i].pedido
                   THEN cruzados \cup {Actual} ELSE cruzados
  /\ UNCHANGED <<abierta, encargo, recargas, avisos, movidos>>

\* resultadoDeError(0): MENSAJE_ERROR_GENERICO, and the form again.
PierdeRespuesta(i) ==
  /\ intento[i].atento
  /\ intento' = [intento EXCEPT ![i] = Desatendido(i)]
  /\ pagina' = IF EnPago THEN [pagina EXCEPT !.pantalla = "error"] ELSE pagina
  /\ cruzados' = cruzados \cup {intento[i].pedido} \cup (IF EnPago THEN {Actual} ELSE {})
  /\ UNCHANGED <<abierta, encargo, guardado, recargas, avisos, movidos>>

\* Polling while it is verified, or while the waiter is expected.
ConsultarPago ==
  /\ EnPago
  /\ \/ pagina.pantalla = "verificando" /\ ResultadoDe(Actual) # "verificando"
     \/ pagina.pantalla = "esperandoEfectivo" /\ encargo[Actual].pago = "APROBADO"
  /\ IF ResultadoDe(Actual) = "aprobado"
       THEN /\ pagina' = Aprobada(pagina, Actual, pagina.carrito)
            /\ GuardaAprobado(Actual, pagina.carrito)
       ELSE /\ pagina' = [pagina EXCEPT !.pantalla = ResultadoDe(Actual)]
            /\ UNCHANGED guardado
  /\ UNCHANGED <<abierta, encargo, intento, recargas, avisos, movidos, cruzados>>

ConsultarCancelado ==
  /\ EnPago
  /\ pagina.pantalla = "esperandoEfectivo"
  /\ encargo[Actual].estado = "CANCELADO"
  /\ pagina' = [pagina EXCEPT !.pantalla = "error"]
  /\ UNCHANGED <<abierta, encargo, guardado, intento, recargas, avisos, movidos, cruzados>>

-----------------------------------------------------------------------------
(* Cash *)

\* From the form, or again while waiting.  The form of the card is still there.
AvisarAlMozo ==
  /\ avisos < MaxAvisosMozo
  /\ EnPago
  /\ pagina.medios = "todos"
  /\ pagina.pantalla \in {"formulario", "rechazado", "error", "esperandoEfectivo"}
  /\ pagina.aviso.paso = "no"
  /\ avisos' = avisos + 1
  /\ pagina' = [pagina EXCEPT !.aviso = [paso |-> "pide", pedido |-> Actual]]
  /\ UNCHANGED <<abierta, encargo, guardado, intento, recargas, movidos, cruzados>>

\* SolicitudEfectivoService.solicitar
SolicitarEfectivo ==
  LET o == pagina.aviso.pedido IN
  /\ pagina.aviso.paso \in {"pide", "perdido"}
  /\ abierta
  /\ encargo[o].estado = "PENDIENTE_PAGO"
  /\ encargo[o].pago # "PENDIENTE"
  /\ encargo' = [encargo EXCEPT ![o].avisado = TRUE]
  /\ pagina' = [pagina EXCEPT !.aviso =
       IF @.paso = "pide" THEN [@ EXCEPT !.paso = "avisado"] ELSE SinAviso]
  /\ UNCHANGED <<abierta, guardado, intento, recargas, avisos, movidos, cruzados>>

\* The answer takes the place of whatever the screen shows by then.
LlegaAviso ==
  /\ pagina.aviso.paso = "avisado"
  /\ pagina' = [pagina EXCEPT !.aviso = SinAviso, !.pantalla = "esperandoEfectivo"]
  /\ cruzados' = IF pagina.pantalla \in {"procesando", "verificando"}
                   THEN cruzados \cup {Actual} ELSE cruzados
  /\ UNCHANGED <<abierta, encargo, guardado, intento, recargas, avisos, movidos>>

FallaAviso ==
  /\ pagina.aviso.paso # "no"
  /\ pagina' = [pagina EXCEPT !.aviso = SinAviso]
  /\ UNCHANGED <<abierta, encargo, guardado, intento, recargas, avisos, movidos, cruzados>>

PagarConTarjeta ==
  /\ EnPago
  /\ pagina.pantalla = "esperandoEfectivo"
  /\ pagina' = [pagina EXCEPT !.pantalla = "formulario"]
  /\ UNCHANGED <<abierta, encargo, guardado, intento, recargas, avisos, movidos, cruzados>>

\* The waiter registers the cash, with no card payment in course.
CobrarEnMano(o) ==
  /\ encargo[o].estado = "PENDIENTE_PAGO"
  /\ encargo[o].pago # "PENDIENTE"
  /\ encargo' = Resuelto(o, "APROBADO")
  /\ UNCHANGED <<abierta, pagina, guardado, intento, recargas, avisos, movidos, cruzados>>

-----------------------------------------------------------------------------

\* The button is disabled while something is in course.
Volver ==
  /\ EnPago
  /\ pagina.pantalla \in {"formulario", "rechazado", "error"}
  /\ pagina' = [pagina EXCEPT !.vista = "carta", !.apertura = "no", !.aviso = Abandonado]
  /\ UNCHANGED <<abierta, encargo, guardado, intento, recargas, avisos, movidos, cruzados>>

HacerOtroPedido ==
  /\ pagina.vista = "aprobado"
  /\ guardado' = NadaGuardado
  /\ pagina' = [pagina EXCEPT !.vista = "carta", !.aprobado = [pedido |-> 0, lineas |-> Vacio]]
  /\ UNCHANGED <<abierta, encargo, intento, recargas, avisos, movidos, cruzados>>

\* The waiter closes the table, with no charge in course.
CerrarLaMesa ==
  /\ abierta
  /\ \A o \in Encargos : encargo[o].pago # "PENDIENTE"
  /\ abierta' = FALSE
  /\ encargo' = [o \in Encargos |->
       IF encargo[o].estado = "PENDIENTE_PAGO"
         THEN [encargo[o] EXCEPT !.estado = "CANCELADO"] ELSE encargo[o]]
  /\ UNCHANGED <<pagina, guardado, intento, recargas, avisos, movidos, cruzados>>

ComensalNext ==
  \/ Agregar \/ Vaciar \/ ContinuarConElMismo \/ ContinuarAlPago
  \/ CrearEncargo \/ LlegaEncargo \/ FallaEncargo
  \/ Recargar \/ ConsultarGuardado \/ RetomarPago \/ RetomarAprobado
  \/ Descartar \/ ConservarGuardado
  \/ ConsultarAlAbrir \/ AplicarApertura \/ FallaApertura \/ Pagar
  \/ \E i \in Intentos :
       \/ ReservarIntento(i) \/ ConflictoDelIntento(i) \/ RehusarIntento(i)
       \/ ResponderIntento(i) \/ LlegaRespuesta(i) \/ PierdeRespuesta(i)
  \/ \E o \in Encargos : ResolverPago(o) \/ CobrarEnMano(o)
  \/ ConsultarPago \/ ConsultarCancelado
  \/ AvisarAlMozo \/ SolicitarEfectivo \/ LlegaAviso \/ FallaAviso \/ PagarConTarjeta
  \/ Volver \/ HacerOtroPedido \/ CerrarLaMesa

ComensalSpec == ComensalInit /\ [][ComensalNext]_comensalVars

-----------------------------------------------------------------------------
(* Properties *)

\* What the diner sees on the payment screen, and then as paid, is the order
\* that is charged, however many times it goes back, changes the cart, reloads
\* and takes it up again.  The exception is an order whose cart was changed
\* while it was being sent: the button «Agregar» stays enabled, and the screen
\* shows the cart of now (MenuDigital.tsx:712).
PagaLoQueVe ==
  /\ EnPago => \/ Actual \in movidos
               \/ pagina.carrito = encargo[Actual].lineas
  /\ pagina.vista = "aprobado" =>
       \/ pagina.aprobado.pedido \in movidos
       \/ pagina.aprobado.lineas = encargo[pagina.aprobado.pedido].lineas

\* «Mientras tanto NO se ofrece pagar de nuevo» (PagoPedido.tsx:97-99): while
\* the card payment of an order is in course, the page does not offer to pay
\* it, unless an answer about the order was lost.
OfertaSegura ==
  OfrecePagar /\ encargo[Actual].pago = "PENDIENTE" => Actual \in cruzados

=============================================================================
