-------------------------------- MODULE Pagos --------------------------------
(***************************************************************************)
(* Prepaid orders of BistroLink: tables and their sessions, orders, card   *)
(* payments (reservation, charge, answer), the payment gateway, its        *)
(* notifications, the reconciliation job, and cash or POS payments         *)
(* registered by the staff.                                                *)
(*                                                                         *)
(* Transactions run at READ COMMITTED.  A transaction whose writes are all *)
(* conditional updates is one action.  One that writes from what it read   *)
(* (with findFirst, count, findUnique) is two actions, the reads and the   *)
(* commit, and what it read is kept in the record of its process.          *)
(***************************************************************************)
EXTENDS Naturals, FiniteSets

CONSTANTS
  Mesas,        \* tables
  Virtuales,    \* the tables of take-away orders: no session
  Pedidos,      \* orders
  Claves,       \* idempotency keys: one attempt to pay, hence one row of pago
  MesaDe,       \* [Pedidos -> Mesas]
  PedidoDe,     \* [Claves -> Pedidos]
  Medio,        \* [Claves -> Medios]
  Avisos,       \* notifications of the gateway that can be handled at once
  Conciliacion, \* the reconciliation job, one run at a time
  MaxSesiones,  \* bound: times each table is opened
  OrdenTrasError, \* states of an order whose request got an HTTP error
  Ninguna       \* null

Medios == {"MERCADOPAGO", "EFECTIVO"}

ASSUME ConstantesAssumption ==
  /\ Virtuales \subseteq Mesas
  /\ MesaDe \in [Pedidos -> Mesas]
  /\ PedidoDe \in [Claves -> Pedidos]
  /\ Medio \in [Claves -> Medios]
  /\ Conciliacion \notin Avisos
  /\ MaxSesiones \in Nat
  /\ OrdenTrasError \subseteq {"NO_EXISTE", "PROCESANDO", "ACREDITADA", "FALLIDA"}
  /\ Ninguna \notin Claves

Lectores == Avisos \cup {Conciliacion}

VARIABLES
  mesa,          \* [Mesas -> [estado, sesion]]; session 0 is null
  sesiones,      \* [Mesas -> Nat]: sessions opened so far, the last id given
  pedido,        \* [Pedidos -> PedidoEstado]
  pago,          \* [Claves -> row of pago]; estado "NADA": not inserted
  orden,         \* [Claves -> OrdenEstado]: the gateway's order of each key
  avisos,        \* keys whose order has a notification to deliver
  cobro,         \* [Claves -> CobroPaso]: the request that pays with the key
  lectura,       \* [Lectores -> what a handler of an order has read]
  cierre,        \* [Mesas -> what the request that closes it has read]
  confirmadoPor, \* [Pedidos -> key whose approval sent it to the kitchen]
  historialCancelado \* orders with a CANCELADO row in pedido_estado_historial

mesaVars   == <<mesa, sesiones, cierre>>
pedidoVars == <<pedido, confirmadoPor, historialCancelado>>
redVars    == <<orden, avisos>>
vars == <<mesaVars, pedidoVars, pago, redVars, cobro, lectura>>

-----------------------------------------------------------------------------
(* Types *)

MesaEstado == {"LIBRE", "OCUPADA", "EN_PROCESO_DE_PAGO", "REQUIERE_LIMPIEZA"}

\* "ADMITIDO": the request passed the guard of the table and has not created
\* the row.  "RECIBIDO" stands for every state the kitchen has not delivered
\* (ESTADOS_SIN_ENTREGAR).
PedidoEstado ==
  {"SIN_CREAR", "ADMITIDO", "PENDIENTE_PAGO", "RECIBIDO", "ENTREGADO", "CANCELADO"}

\* States in which the row exists.
Creado == PedidoEstado \ {"SIN_CREAR", "ADMITIDO"}

\* States from which an order never waits for its payment again.
Resuelto == {"RECIBIDO", "ENTREGADO", "CANCELADO"}

EnCocina == {"RECIBIDO", "ENTREGADO"}

PagoEstado == {"NADA", "PENDIENTE", "APROBADO", "RECHAZADO", "REEMBOLSADO"}

Motivos == {"NINGUNO", "VENCIDO", "ERROR_PASARELA", "PASARELA"}

FilaPago ==
  [estado : PagoEstado, ref : Claves \cup {Ninguna}, motivo : Motivos,
   marcado : BOOLEAN]

Fila(estado, ref, motivo, marcado) ==
  [estado |-> estado, ref |-> ref, motivo |-> motivo, marcado |-> marcado]

SinFila == Fila("NADA", Ninguna, "NINGUNO", FALSE)

OrdenEstado == {"NO_EXISTE", "PROCESANDO", "ACREDITADA", "FALLIDA", "REEMBOLSADA"}

Acreditadas == {"ACREDITADA", "REEMBOLSADA"}

Resueltas == {"ACREDITADA", "FALLIDA", "REEMBOLSADA"}

\* "aprobado", "pendiente", "rechazado" and "error": the gateway's answer is
\* in hand and not yet applied.
CobroPaso ==
  {"inicio", "leido", "reservado", "aprobado", "pendiente", "rechazado",
   "error", "fin"}

\* Seeded defect: status_detail is not looked at, so an order in process
\* passes for an accredited one.
EstadoSinDetalle(o) ==
  CASE o = "REEMBOLSADA" -> "REEMBOLSADO"
    [] o = "FALLIDA"     -> "RECHAZADO"
    [] OTHER             -> "APROBADO"

\* The payment state that corresponds to the state of the gateway's order.
EstadoPagoDesdeOrden(o) ==
  CASE o = "ACREDITADA"  -> "APROBADO"
    [] o = "REEMBOLSADA" -> "REEMBOLSADO"
    [] o = "FALLIDA"     -> "RECHAZADO"
    [] OTHER             -> "PENDIENTE"

EstadosAplicables == {"APROBADO", "RECHAZADO", "REEMBOLSADO"}

\* What a transaction decided from its reads and has not committed.
Acciones ==
  {"nada", "referencia", "aplicar", "reembolsar", "vencer", "vencer_sin_liberar"}

UnaLectura(paso, lista, ord, estado, fila, accion) ==
  [paso |-> paso, lista |-> lista, orden |-> ord, estado |-> estado,
   pago |-> fila, accion |-> accion]

SinLectura == UnaLectura("libre", Ninguna, Ninguna, "PENDIENTE", Ninguna, "nada")

\* lista: the payment the reconciliation job is at.  orden, estado: the order
\* consulted and what the gateway said of it.  pago, accion: what to write.
Lectura ==
  [paso : {"libre", "listada", "consultada", "leida", "por_vencer"},
   lista : Claves \cup {Ninguna}, orden : Claves \cup {Ninguna},
   estado : EstadosAplicables \cup {"PENDIENTE"},
   pago : Claves \cup {Ninguna}, accion : Acciones]

UnCierre(paso, sesion, pendientes) ==
  [paso |-> paso, sesion |-> sesion, pendientes |-> pendientes]

SinCierre == UnCierre("libre", 0, {})

Cierre ==
  [paso : {"libre", "leido", "bloqueado"}, sesion : Nat,
   pendientes : SUBSET Pedidos]

TypeOK ==
  /\ mesa \in [Mesas -> [estado : MesaEstado, sesion : Nat]]
  /\ sesiones \in [Mesas -> Nat]
  /\ pedido \in [Pedidos -> PedidoEstado]
  /\ pago \in [Claves -> FilaPago]
  /\ orden \in [Claves -> OrdenEstado]
  /\ avisos \subseteq Claves
  /\ cobro \in [Claves -> CobroPaso]
  /\ lectura \in [Lectores -> Lectura]
  /\ cierre \in [Mesas -> Cierre]
  /\ confirmadoPor \in [Pedidos -> Claves \cup {Ninguna}]
  /\ historialCancelado \subseteq Pedidos

Init ==
  /\ mesa = [m \in Mesas |-> [estado |-> "LIBRE", sesion |-> 0]]
  /\ sesiones = [m \in Mesas |-> 0]
  /\ pedido = [p \in Pedidos |-> "SIN_CREAR"]
  /\ pago = [k \in Claves |-> SinFila]
  /\ orden = [k \in Claves |-> "NO_EXISTE"]
  /\ avisos = {}
  /\ cobro = [k \in Claves |-> "inicio"]
  /\ lectura = [h \in Lectores |-> SinLectura]
  /\ cierre = [m \in Mesas |-> SinCierre]
  /\ confirmadoPor = [p \in Pedidos |-> Ninguna]
  /\ historialCancelado = {}

-----------------------------------------------------------------------------
(* Tables, orders and payments *)

Mesa(k) == MesaDe[PedidoDe[k]]

Abierta(m) == mesa[m].sesion # 0

\* The column constraint of the table, checked by every write of a row.
FilaCoherente(m, fila) ==
  m \in Virtuales
    \/ (fila.sesion # 0) = (fila.estado \in {"OCUPADA", "EN_PROCESO_DE_PAGO"})

\* A take-away order needs no session, an order of a table an open one.
PuedePedir(p) == MesaDe[p] \in Virtuales \/ Abierta(MesaDe[p])

PagosDe(p) == {k \in Claves : PedidoDe[k] = p /\ pago[k].estado # "NADA"}

Pendientes(p) == {k \in PagosDe(p) : pago[k].estado = "PENDIENTE"}

\* What reservar looks for: a payment approved or in progress.
Vivos(p) == {k \in PagosDe(p) : pago[k].estado \in {"APROBADO", "PENDIENTE"}}

CambiaMesa(m, estado, sesion) ==
  mesa' = [mesa EXCEPT ![m] = [estado |-> estado, sesion |-> sesion]]

\* Seeded defect: the update is not conditional.
LiberarSiempre(m) == CambiaMesa(m, "OCUPADA", mesa[m].sesion)

\* The conditional update that takes a table out of a charge.
Liberar(m) ==
  IF mesa[m].estado = "EN_PROCESO_DE_PAGO"
  THEN CambiaMesa(m, "OCUPADA", mesa[m].sesion)
  ELSE UNCHANGED mesa

\* Seeded defect: a late approval revives a cancelled order.
ConfirmableOCancelado(p) == pedido[p] \in {"PENDIENTE_PAGO", "CANCELADO"}

\* confirmarPagoEnTx: conditional, so it confirms once.
Confirmable(p) == pedido[p] = "PENDIENTE_PAGO"

\* Seeded defect: the order is confirmed only if the table was in a charge.
ConfirmarSiCobraba(p, k) ==
  IF Confirmable(p) /\ mesa[MesaDe[p]].estado = "EN_PROCESO_DE_PAGO"
  THEN /\ pedido' = [pedido EXCEPT ![p] = "RECIBIDO"]
       /\ confirmadoPor' = [confirmadoPor EXCEPT ![p] = k]
  ELSE UNCHANGED <<pedido, confirmadoPor>>

Confirmar(p, k) ==
  IF Confirmable(p)
  THEN /\ pedido' = [pedido EXCEPT ![p] = "RECIBIDO"]
       /\ confirmadoPor' = [confirmadoPor EXCEPT ![p] = k]
  ELSE UNCHANGED <<pedido, confirmadoPor>>

Paso(k, desde, hasta) ==
  /\ cobro[k] = desde
  /\ cobro' = [cobro EXCEPT ![k] = hasta]

-----------------------------------------------------------------------------
(* Orders: created behind the guard of the table, delivered by the staff *)

CrearAdmite(p) ==
  /\ pedido[p] = "SIN_CREAR"
  /\ PuedePedir(p)
  /\ pedido' = [pedido EXCEPT ![p] = "ADMITIDO"]
  /\ UNCHANGED <<mesaVars, confirmadoPor, historialCancelado, pago, redVars,
                 cobro, lectura>>

\* The transaction that inserts the row does not look at the session again.
CrearConfirma(p) ==
  /\ pedido[p] = "ADMITIDO"
  /\ pedido' = [pedido EXCEPT ![p] = "PENDIENTE_PAGO"]
  /\ UNCHANGED <<mesaVars, confirmadoPor, historialCancelado, pago, redVars,
                 cobro, lectura>>

Entregar(p) ==
  /\ pedido[p] = "RECIBIDO"
  /\ pedido' = [pedido EXCEPT ![p] = "ENTREGADO"]
  /\ UNCHANGED <<mesaVars, confirmadoPor, historialCancelado, pago, redVars,
                 cobro, lectura>>

\* transicionar writes by id what it decided on an earlier read, so a slow
\* transition puts back an order that was delivered meanwhile.
TransicionTardia(p) ==
  /\ pedido[p] = "ENTREGADO"
  /\ pedido' = [pedido EXCEPT ![p] = "RECIBIDO"]
  /\ UNCHANGED <<mesaVars, confirmadoPor, historialCancelado, pago, redVars,
                 cobro, lectura>>

-----------------------------------------------------------------------------
(* Card payment, phase 1: reservation.  A repeated request with a key that   *)
(* has a row returns that row and changes nothing.                           *)

\* The guards of the route and the reads of reservar.  They do not ask in
\* which session the order was made, nor in which state it is.
ReservarLee(k) ==
  /\ Medio[k] = "MERCADOPAGO"
  /\ pedido[PedidoDe[k]] \in Creado
  /\ PuedePedir(PedidoDe[k])
  /\ Vivos(PedidoDe[k]) = {}
  /\ Paso(k, "inicio", "leido")
  /\ UNCHANGED <<mesaVars, pedidoVars, pago, redVars, lectura>>

Reservada(m) == [estado |-> "EN_PROCESO_DE_PAGO", sesion |-> mesa[m].sesion]

\* The update of the table is by id: it waits for a close that has already
\* written the row, and fails on the constraint if the table is closed.
ReservarConfirma(k) ==
  LET m == Mesa(k) IN
  /\ cierre[m].paso # "bloqueado"
  /\ FilaCoherente(m, Reservada(m))
  /\ Medio[k] = "MERCADOPAGO"
  /\ Paso(k, "leido", "reservado")
  /\ mesa' = [mesa EXCEPT ![m] = Reservada(m)]
  /\ pago' = [pago EXCEPT ![k] = Fila("PENDIENTE", Ninguna, "NINGUNO", FALSE)]
  /\ UNCHANGED <<sesiones, cierre, pedidoVars, redVars, lectura>>

ReservarAborta(k) ==
  LET m == Mesa(k) IN
  /\ cierre[m].paso # "bloqueado"
  /\ ~FilaCoherente(m, Reservada(m))
  /\ Medio[k] = "MERCADOPAGO"
  /\ Paso(k, "leido", "inicio")
  /\ UNCHANGED <<mesaVars, pedidoVars, pago, redVars, lectura>>

-----------------------------------------------------------------------------
(* Phase 2: the gateway.  Every change of an order is notified. *)

Notificar(k) == avisos' = avisos \cup {k}

\* The request reaches the gateway, which creates the order in state o.
CrearOrden(k, o) ==
  /\ orden' = [orden EXCEPT ![k] = o]
  /\ IF o = "NO_EXISTE" THEN UNCHANGED avisos ELSE Notificar(k)

\* What an answer says of the order it was given for.
Respuesta(o) ==
  CASE o = "ACREDITADA" -> "aprobado"
    [] o = "FALLIDA"    -> "rechazado"
    [] OTHER            -> "pendiente"

PasarelaResponde(k) ==
  \E o \in {"PROCESANDO", "ACREDITADA", "FALLIDA"} :
    /\ CrearOrden(k, o)
    /\ Paso(k, "reservado", Respuesta(o))
    /\ UNCHANGED <<mesaVars, pedidoVars, pago, lectura>>

PasarelaError(k) ==
  \E o \in OrdenTrasError :
    /\ CrearOrden(k, o)
    /\ Paso(k, "reservado", "error")
    /\ UNCHANGED <<mesaVars, pedidoVars, pago, lectura>>

\* Timeout, open circuit, or the backend dies before it writes the answer: the
\* payment stays PENDIENTE whatever the gateway did.
PasarelaCalla(k) ==
  \E o \in {"NO_EXISTE", "PROCESANDO", "ACREDITADA", "FALLIDA"} :
    /\ CrearOrden(k, o)
    /\ Paso(k, "reservado", "fin")
    /\ UNCHANGED <<mesaVars, pedidoVars, pago, lectura>>

OrdenAvanza(k) ==
  /\ \/ /\ orden[k] = "PROCESANDO"
        /\ \E o \in {"ACREDITADA", "FALLIDA"} : orden' = [orden EXCEPT ![k] = o]
     \/ /\ orden[k] = "ACREDITADA"
        /\ orden' = [orden EXCEPT ![k] = "REEMBOLSADA"]
  /\ Notificar(k)
  /\ UNCHANGED <<mesaVars, pedidoVars, pago, cobro, lectura>>

-----------------------------------------------------------------------------
(* Phase 3: the answer, written only if the payment is still PENDIENTE *)

SiguePendiente(k) == pago[k].estado = "PENDIENTE"

\* The update writes every column but the mark, which is a row of the history.
Resuelve(k, estado, ref, motivo) ==
  pago' = [pago EXCEPT ![k] = Fila(estado, ref, motivo, pago[k].marcado)]

CobroAprobado(k) ==
  /\ SiguePendiente(k)
  /\ Paso(k, "aprobado", "fin")
  /\ Resuelve(k, "APROBADO", k, "NINGUNO")
  /\ Liberar(Mesa(k))
  /\ Confirmar(PedidoDe[k], k)
  /\ UNCHANGED <<sesiones, cierre, historialCancelado, redVars, lectura>>

\* A rejection may come without the id of its order.
CobroRechazado(k) ==
  /\ SiguePendiente(k)
  /\ Paso(k, "rechazado", "fin")
  /\ \E ref \in {k, Ninguna} : Resuelve(k, "RECHAZADO", ref, "PASARELA")
  /\ Liberar(Mesa(k))
  /\ UNCHANGED <<sesiones, cierre, pedidoVars, redVars, lectura>>

CobroPendiente(k) ==
  /\ SiguePendiente(k)
  /\ Paso(k, "pendiente", "fin")
  /\ Resuelve(k, "PENDIENTE", k, "NINGUNO")
  /\ UNCHANGED <<mesaVars, pedidoVars, redVars, lectura>>

\* cerrarRechazado: the gateway answered with an error.
CobroError(k) ==
  /\ SiguePendiente(k)
  /\ Paso(k, "error", "fin")
  /\ Resuelve(k, "RECHAZADO", pago[k].ref, "ERROR_PASARELA")
  /\ Liberar(Mesa(k))
  /\ UNCHANGED <<sesiones, cierre, pedidoVars, redVars, lectura>>

Respuestas == {"aprobado", "rechazado", "pendiente", "error"}

\* Somebody else resolved the payment meanwhile.
CobroTarde(k) ==
  /\ cobro[k] \in Respuestas
  /\ ~SiguePendiente(k)
  /\ cobro' = [cobro EXCEPT ![k] = "fin"]
  /\ UNCHANGED <<mesaVars, pedidoVars, pago, redVars, lectura>>

-----------------------------------------------------------------------------
(* Cash or POS, registered by the staff *)

EfectivoLee(k) ==
  /\ Medio[k] = "EFECTIVO"
  /\ Confirmable(PedidoDe[k])
  /\ Pendientes(PedidoDe[k]) = {}
  /\ Paso(k, "inicio", "leido")
  /\ UNCHANGED <<mesaVars, pedidoVars, pago, redVars, lectura>>

\* Seeded defect: the result of the conditional update is not looked at.
CobroSeSostieneSiempre(p) == pedido[p] \in Creado

\* The whole transaction is rolled back unless it confirms the order.
CobroSeSostiene(p) == Confirmable(p)

EfectivoConfirma(k) ==
  /\ Medio[k] = "EFECTIVO"
  /\ CobroSeSostiene(PedidoDe[k])
  /\ Paso(k, "leido", "fin")
  /\ pago' = [pago EXCEPT ![k] = Fila("APROBADO", Ninguna, "NINGUNO", FALSE)]
  /\ Confirmar(PedidoDe[k], k)
  /\ UNCHANGED <<mesaVars, historialCancelado, redVars, lectura>>

EfectivoAborta(k) ==
  /\ Medio[k] = "EFECTIVO"
  /\ ~CobroSeSostiene(PedidoDe[k])
  /\ Paso(k, "leido", "inicio")
  /\ UNCHANGED <<mesaVars, pedidoVars, pago, redVars, lectura>>

-----------------------------------------------------------------------------
(* procesarOrden: consult the order, choose the payment, write.  Called by a *)
(* notification (h in Avisos) and by the reconciliation job.                 *)

\* Seeded defect: a payment that expired without a reference is not looked for.
ElegiblesSinVencidos(k) ==
  LET deMP    == {j \in PagosDe(PedidoDe[k]) : Medio[j] = "MERCADOPAGO"}
      conRef  == {j \in deMP : pago[j].ref = k}
      enCurso == {j \in deMP : pago[j].ref = Ninguna /\ SiguePendiente(j)}
  IN  IF conRef # {} THEN conRef ELSE enCurso

\* elegirPago.  The rows come unordered, so any that matches may be found.
Elegibles(k) ==
  LET deMP        == {j \in PagosDe(PedidoDe[k]) : Medio[j] = "MERCADOPAGO"}
      conRef      == {j \in deMP : pago[j].ref = k}
      enCurso     == {j \in deMP : pago[j].ref = Ninguna /\ SiguePendiente(j)}
      vencidos    == {j \in deMP : /\ pago[j].ref = Ninguna
                                   /\ pago[j].estado = "RECHAZADO"
                                   /\ pago[j].motivo = "VENCIDO"}
  IN  CASE conRef # {}  -> conRef
        [] enCurso # {} -> enCurso
        [] OTHER        -> vencidos

\* Seeded defect: another payment in progress counts as an approved one.
YaNoUsaElPagoConPendientes(j) ==
  LET p == PedidoDe[j] IN
  \/ pedido[p] = "CANCELADO"
  \/ \E otro \in PagosDe(p) \ {j} : pago[otro].estado \in {"APROBADO", "PENDIENTE"}

\* pedidoYaNoUsaElPago
YaNoUsaElPago(j) ==
  LET p == PedidoDe[j] IN
  \/ pedido[p] = "CANCELADO"
  \/ \E otro \in PagosDe(p) \ {j} : pago[otro].estado = "APROBADO"

Decision(j, estado) ==
  CASE pago[j].estado = estado -> "referencia"
    [] pago[j].estado # estado /\ estado = "APROBADO" /\ YaNoUsaElPago(j)
                               -> "reembolsar"
    [] OTHER                   -> "aplicar"

\* The job goes on to expire the payment it is at unless it was resolved; a
\* notification is over.
Terminada(h, resuelto) ==
  IF h = Conciliacion /\ ~resuelto
  THEN UnaLectura("por_vencer", lectura[h].lista, Ninguna, "PENDIENTE", Ninguna,
                  "nada")
  ELSE SinLectura

Consultada(h, k) ==
  IF EstadoPagoDesdeOrden(orden[k]) = "PENDIENTE"
  THEN Terminada(h, FALSE)
  ELSE UnaLectura("consultada", lectura[h].lista, k,
                  EstadoPagoDesdeOrden(orden[k]), Ninguna, "nada")

\* A notification arrives; it may arrive again (in any order, any number of
\* times), and the order is consulted now.
Recibir(h, k) ==
  /\ k \in avisos
  /\ lectura[h].paso = "libre"
  /\ avisos' \in {avisos, avisos \ {k}}
  /\ lectura' = [lectura EXCEPT ![h] = Consultada(h, k)]
  /\ UNCHANGED <<mesaVars, pedidoVars, pago, orden, cobro>>

\* The reads of aplicar.
Leer(h) ==
  LET k == lectura[h].orden
      e == lectura[h].estado
  IN
  /\ lectura[h].paso = "consultada"
  /\ IF Elegibles(k) = {}
     THEN lectura' = [lectura EXCEPT ![h] = Terminada(h, FALSE)]
     ELSE \E j \in Elegibles(k) :
            lectura' = [lectura EXCEPT ![h] =
                          UnaLectura("leida", lectura[h].lista, k, e, j,
                                     Decision(j, e))]
  /\ UNCHANGED <<mesaVars, pedidoVars, pago, redVars, cobro>>

\* resolverMismoEstado: only the reference is completed.
CompletarReferencia(h) ==
  LET j == lectura[h].pago IN
  /\ lectura[h].paso = "leida"
  /\ lectura[h].accion = "referencia"
  /\ Resuelve(j, pago[j].estado, lectura[h].orden, pago[j].motivo)
  /\ lectura' = [lectura EXCEPT ![h] = Terminada(h, pago[j].marcado)]
  /\ UNCHANGED <<mesaVars, pedidoVars, redVars, cobro>>

MotivoDe(estado) == IF estado = "RECHAZADO" THEN "PASARELA" ELSE "NINGUNO"

\* The update is by id, whatever the row holds by then.
Reembolsar(h) ==
  LET l == lectura[h] IN
  /\ l.paso = "leida"
  /\ l.accion = "reembolsar"
  /\ pago' = [pago EXCEPT ![l.pago] = Fila(l.estado, l.orden, MotivoDe(l.estado), TRUE)]
  /\ lectura' = [lectura EXCEPT ![h] = Terminada(h, TRUE)]
  /\ UNCHANGED <<mesaVars, pedidoVars, redVars, cobro>>

Aplicar(h) ==
  LET j == lectura[h].pago
      e == lectura[h].estado
  IN
  /\ lectura[h].paso = "leida"
  /\ lectura[h].accion = "aplicar"
  /\ Resuelve(j, e, lectura[h].orden, MotivoDe(e))
  /\ IF e \in {"APROBADO", "RECHAZADO"} THEN Liberar(Mesa(j)) ELSE UNCHANGED mesa
  /\ IF e = "APROBADO" THEN Confirmar(PedidoDe[j], j)
                       ELSE UNCHANGED <<pedido, confirmadoPor>>
  /\ lectura' = [lectura EXCEPT ![h] = Terminada(h, TRUE)]
  /\ UNCHANGED <<sesiones, cierre, historialCancelado, redVars, cobro>>

\* The transaction fails or the backend dies, so the notification gets no 200
\* and is delivered again, and the job goes on.  (A failure before the reads
\* leaves the same state.)
Fallar(h) ==
  /\ lectura[h].paso = "leida"
  /\ lectura[h].accion \notin {"vencer", "vencer_sin_liberar"}
  /\ lectura' = [lectura EXCEPT ![h] = Terminada(h, FALSE)]
  /\ IF h \in Avisos THEN Notificar(lectura[h].orden) ELSE UNCHANGED avisos
  /\ UNCHANGED <<mesaVars, pedidoVars, pago, orden, cobro>>

-----------------------------------------------------------------------------
(* The reconciliation job *)

Job == lectura[Conciliacion]

\* Seeded defect: the job only looks at payments whose order is known.
ConOrden(k) == SiguePendiente(k) /\ pago[k].ref # Ninguna

\* What the run lists.
Listable(k) == SiguePendiente(k)

\* The run lists the payments that have been PENDIENTE for long enough, which
\* any of them may have been, and takes them one by one.  One without an order
\* cannot be consulted.
ConciliarLista(k) ==
  /\ Job.paso = "libre"
  /\ Listable(k)
  /\ lectura' = [lectura EXCEPT ![Conciliacion] =
       IF pago[k].ref = Ninguna
       THEN UnaLectura("por_vencer", k, Ninguna, "PENDIENTE", Ninguna, "nada")
       ELSE UnaLectura("listada", k, pago[k].ref, "PENDIENTE", Ninguna, "nada")]
  /\ UNCHANGED <<mesaVars, pedidoVars, pago, redVars, cobro>>

\* The gateway answers, or not.
ConciliarConsulta ==
  /\ Job.paso = "listada"
  /\ lectura' \in {[lectura EXCEPT ![Conciliacion] = l] :
                     l \in {Consultada(Conciliacion, Job.orden),
                            Terminada(Conciliacion, FALSE)}}
  /\ UNCHANGED <<mesaVars, pedidoVars, pago, redVars, cobro>>

OtrosEnCurso(k) ==
  {j \in Claves \ {k} : SiguePendiente(j) /\ Mesa(j) = Mesa(k)}

\* Too early to expire it.
TodaviaNo ==
  /\ Job.paso = "por_vencer"
  /\ lectura' = [lectura EXCEPT ![Conciliacion] = SinLectura]
  /\ UNCHANGED <<mesaVars, pedidoVars, pago, redVars, cobro>>

\* vencer, its reads: is there another charge in progress on the table?
VencerLee ==
  LET k == Job.lista IN
  /\ Job.paso = "por_vencer"
  /\ SiguePendiente(k)
  /\ lectura' = [lectura EXCEPT ![Conciliacion] =
       UnaLectura("leida", Ninguna, Ninguna, "PENDIENTE", k,
                  IF OtrosEnCurso(k) = {} THEN "vencer" ELSE "vencer_sin_liberar")]
  /\ UNCHANGED <<mesaVars, pedidoVars, pago, redVars, cobro>>

\* Its commit.  Nothing is written if the payment was resolved first.
Vencer ==
  LET k == Job.pago IN
  /\ Job.paso = "leida"
  /\ Job.accion \in {"vencer", "vencer_sin_liberar"}
  /\ IF SiguePendiente(k)
     THEN /\ Resuelve(k, "RECHAZADO", pago[k].ref, "VENCIDO")
          /\ IF Job.accion = "vencer" THEN Liberar(Mesa(k)) ELSE UNCHANGED mesa
     ELSE UNCHANGED <<pago, mesa>>
  /\ lectura' = [lectura EXCEPT ![Conciliacion] = SinLectura]
  /\ UNCHANGED <<sesiones, cierre, pedidoVars, redVars, cobro>>

-----------------------------------------------------------------------------
(* Table sessions *)

AbrirSesion(m) ==
  /\ m \notin Virtuales
  /\ mesa[m].estado = "LIBRE"
  /\ sesiones[m] < MaxSesiones
  /\ sesiones' = [sesiones EXCEPT ![m] = @ + 1]
  /\ CambiaMesa(m, "OCUPADA", sesiones[m] + 1)
  /\ UNCHANGED <<cierre, pedidoVars, pago, redVars, cobro, lectura>>

MarcarLimpia(m) ==
  /\ m \notin Virtuales
  /\ mesa[m].estado = "REQUIERE_LIMPIEZA"
  /\ CambiaMesa(m, "LIBRE", mesa[m].sesion)
  /\ UNCHANGED <<sesiones, cierre, pedidoVars, pago, redVars, cobro, lectura>>

PedidosDe(m) == {p \in Pedidos : MesaDe[p] = m}

\* cerrarSesion reads the table and its undelivered orders.
CierreLee(m) ==
  /\ m \notin Virtuales
  /\ cierre[m].paso = "libre"
  /\ Abierta(m)
  /\ mesa[m].estado # "EN_PROCESO_DE_PAGO"
  /\ \A p \in PedidosDe(m) : pedido[p] # "RECIBIDO"
  /\ cierre' = [cierre EXCEPT ![m] = UnCierre("leido", mesa[m].sesion, {})]
  /\ UNCHANGED <<mesa, sesiones, pedidoVars, pago, redVars, cobro, lectura>>

SigueIgual(m) == mesa[m].sesion = cierre[m].sesion /\ mesa[m].estado = "OCUPADA"

\* The conditional update holds the row from here on; cancelarSinPagar lists
\* the unpaid orders.
CierreBloquea(m) ==
  /\ cierre[m].paso = "leido"
  /\ SigueIgual(m)
  /\ cierre' = [cierre EXCEPT ![m] =
       UnCierre("bloqueado", cierre[m].sesion,
                {p \in PedidosDe(m) : Confirmable(p)})]
  /\ UNCHANGED <<mesa, sesiones, pedidoVars, pago, redVars, cobro, lectura>>

CierreAborta(m) ==
  /\ cierre[m].paso = "leido"
  /\ ~SigueIgual(m)
  /\ cierre' = [cierre EXCEPT ![m] = SinCierre]
  /\ UNCHANGED <<mesa, sesiones, pedidoVars, pago, redVars, cobro, lectura>>

\* The listed orders that still wait for their payment.
Cancelables(ps) == {p \in ps : Confirmable(p)}

\* Cancels them, and writes the history of all the listed ones.
CierreConfirma(m) ==
  /\ cierre[m].paso = "bloqueado"
  /\ CambiaMesa(m, "REQUIERE_LIMPIEZA", 0)
  /\ pedido' = [p \in Pedidos |->
                  IF p \in Cancelables(cierre[m].pendientes)
                  THEN "CANCELADO" ELSE pedido[p]]
  /\ historialCancelado' = historialCancelado \cup cierre[m].pendientes
  /\ cierre' = [cierre EXCEPT ![m] = SinCierre]
  /\ UNCHANGED <<sesiones, confirmadoPor, pago, redVars, cobro, lectura>>

-----------------------------------------------------------------------------

PasoPedido(p) ==
  CrearAdmite(p) \/ CrearConfirma(p) \/ Entregar(p) \/ TransicionTardia(p)

PasoReserva(k) ==
  ReservarLee(k) \/ ReservarConfirma(k) \/ ReservarAborta(k)

PasoPasarela(k) ==
  PasarelaResponde(k) \/ PasarelaError(k) \/ PasarelaCalla(k) \/ OrdenAvanza(k)

PasoRespuesta(k) ==
  \/ CobroAprobado(k) \/ CobroRechazado(k) \/ CobroPendiente(k) \/ CobroError(k)
  \/ CobroTarde(k)

PasoEfectivo(k) == EfectivoLee(k) \/ EfectivoConfirma(k) \/ EfectivoAborta(k)

PasoProcesarOrden(h) ==
  \/ \E k \in Claves : h \in Avisos /\ Recibir(h, k)
  \/ Leer(h) \/ CompletarReferencia(h) \/ Reembolsar(h) \/ Aplicar(h)
  \/ Fallar(h)

PasoConciliacion ==
  \/ \E k \in Claves : ConciliarLista(k)
  \/ ConciliarConsulta \/ TodaviaNo \/ VencerLee \/ Vencer

PasoMesa(m) ==
  \/ AbrirSesion(m) \/ MarcarLimpia(m)
  \/ CierreLee(m) \/ CierreBloquea(m) \/ CierreAborta(m) \/ CierreConfirma(m)

Next ==
  \/ \E p \in Pedidos : PasoPedido(p)
  \/ \E k \in Claves : \/ PasoReserva(k) \/ PasoPasarela(k) \/ PasoRespuesta(k)
                       \/ PasoEfectivo(k)
  \/ \E h \in Lectores : PasoProcesarOrden(h)
  \/ PasoConciliacion
  \/ \E m \in Mesas : PasoMesa(m)

Spec == Init /\ [][Next]_vars

-----------------------------------------------------------------------------
(* Fairness.  Every process that has started goes on: a request is answered  *)
(* or times out and its answer is written, a handler ends, the timer of the  *)
(* job fires.  A payment is old enough to expire some day (SF on VencerLee), *)
(* and a notification that gets no 200 is sent again, so that some attempt   *)
(* to write succeeds (SF on Escribir).                                       *)

Escribir(h) == CompletarReferencia(h) \/ Reembolsar(h) \/ Aplicar(h)

Fairness ==
  /\ \A k \in {j \in Claves : Medio[j] = "MERCADOPAGO"} :
       WF_vars(PasarelaResponde(k) \/ PasarelaError(k) \/ PasarelaCalla(k)
                 \/ PasoRespuesta(k))
  /\ WF_vars(PasoConciliacion)
  /\ SF_vars(VencerLee)
  /\ \A h \in Lectores : WF_vars(PasoProcesarOrden(h)) /\ SF_vars(Escribir(h))

FairSpec == Spec /\ Fairness

-----------------------------------------------------------------------------
(* Properties *)

\* Money was taken with key k: by the gateway, or in hand.
Cobrada(k) ==
  \/ orden[k] \in Acreditadas
  \/ Medio[k] = "EFECTIVO" /\ pago[k].estado = "APROBADO"

Cobrados == {p \in Pedidos : \E k \in Claves : PedidoDe[k] = p /\ Cobrada(k)}

\* The kitchen only receives orders for which money was taken, whatever
\* timeouts, late answers and repeated or mismatched notifications there were
\* (docs/adr/0006: "La cocina solo ve pedidos pagados").
PrepagoReal == \A p \in Pedidos : pedido[p] \in EnCocina => p \in Cobrados

\* A payment never stays APROBADO with its order still waiting to be paid:
\* every way of approving (the answer of the charge, a notification, the job,
\* cash) confirms the order, or leaves it because it was already resolved.
AprobadoLlega ==
  \A k \in Claves :
    pago[k].estado = "APROBADO" => pedido[PedidoDe[k]] \in Resuelto

\* A charge is marked for refund only if its order can no longer use it:
\* requiereReembolso, decided on earlier reads, is still right when written.
ReembolsoJusto ==
  \A k \in Claves : pago[k].marcado => pedido[PedidoDe[k]] \in Resuelto

\* Cash registered by the staff is never taken for an order that something
\* else sent to the kitchen: registrarEnTx rolls back unless it confirms.
EfectivoUnaVez ==
  \A k \in Claves :
    Medio[k] = "EFECTIVO" /\ pago[k].estado = "APROBADO"
      => confirmadoPor[PedidoDe[k]] = k

\* A table has a session exactly while it is OCUPADA or EN_PROCESO_DE_PAGO:
\* no conditional update of a late payment gives a closed table an open state
\* (mesa_sesion_coherente_check would abort the transaction, and with it the
\* record of the payment).
SesionCoherente == \A m \in Mesas : FilaCoherente(m, mesa[m])

\* What an approved payment of an order in progress promised: the refinement
\* of Prepago (orders enter the kitchen once, paid, and never after CANCELADO).
Fase(p) ==
  CASE pedido[p] = "RECIBIDO"  -> "en_cocina"
    [] pedido[p] = "ENTREGADO" -> "entregado"
    [] pedido[p] = "CANCELADO" -> "cancelado"
    [] OTHER                   -> "sin_pagar"

Promesa ==
  INSTANCE Prepago WITH fase <- [p \in Pedidos |-> Fase(p)], cobrado <- Cobrados

CumplePrepago == Promesa!Spec

\* A payment in progress does not stay so: the answer, a notification or the
\* reconciliation resolves it (a table is not left blocked by a lost answer).
PagoSeResuelve ==
  \A k \in Claves : SiguePendiente(k) ~> ~SiguePendiente(k)

\* What the gateway charged gets recorded as APROBADO or REEMBOLSADO, even if
\* the payment had expired when the notification came.
Registrada(k) ==
  \E j \in Claves : /\ pago[j].ref = k
                    /\ pago[j].estado \in {"APROBADO", "REEMBOLSADO"}

CobroSeRegistra ==
  \A k \in Claves :
    orden[k] = "ACREDITADA" ~> (Registrada(k) \/ orden[k] = "REEMBOLSADA")

-----------------------------------------------------------------------------
(* The inductive invariant of the proofs (Pagos_proofs).                     *)

\* Only card payments go through the gateway, and cash is written APROBADO.
MedioCoherente ==
  \A k \in Claves :
    Medio[k] = "EFECTIVO" =>
      /\ cobro[k] \in {"inicio", "leido", "fin"}
      /\ pago[k].estado \in {"NADA", "APROBADO"}

\* A payment, and a request past its reads, are of an order that exists.
PagoDePedido ==
  \A k \in Claves :
    pago[k].estado # "NADA" \/ cobro[k] # "inicio"
      => pedido[PedidoDe[k]] \in Creado

\* An approval in the hands of a request was given by the gateway.
RespuestaReal ==
  \A k \in Claves : cobro[k] = "aprobado" => orden[k] \in Acreditadas

\* A key that has not been sent to the gateway has no order there.
AntesDeCobrar == {"inicio", "leido", "reservado"}

SinOrdenAntes ==
  \A k \in Claves : cobro[k] \in AntesDeCobrar => orden[k] = "NO_EXISTE"

\* An approval in the hands of a handler was given too.  It writes a row of
\* the order's own pedido that exists, and marks it for refund only if the pedido
\* is resolved.
LecturaBuena(l) ==
  /\ l.paso \in {"libre", "listada", "por_vencer"} => l.estado = "PENDIENTE"
  /\ l.paso \in {"consultada", "leida"} /\ l.estado # "PENDIENTE"
       => l.orden \in Claves
  /\ l.estado \in {"APROBADO", "REEMBOLSADO"} => orden[l.orden] \in Acreditadas
  /\ l.paso = "listada" => l.orden \in Claves
  /\ l.paso = "consultada" => l.estado # "PENDIENTE"
  /\ (l.paso = "leida") = (l.accion # "nada")
  /\ l.paso = "leida" => l.pago \in Claves
  /\ l.accion \in {"referencia", "aplicar", "reembolsar"} =>
       /\ l.estado # "PENDIENTE"
       /\ PedidoDe[l.pago] = PedidoDe[l.orden]
       /\ Medio[l.pago] = "MERCADOPAGO"
       /\ pago[l.pago].estado # "NADA"
  /\ l.accion = "reembolsar" => pedido[PedidoDe[l.pago]] \in Resuelto

LecturaReal == \A h \in Lectores : LecturaBuena(lectura[h])

\* The job knows which payment it is at.
JobEnPago ==
  Job.paso # "libre" /\ Job.accion \notin {"vencer", "vencer_sin_liberar"}
    => Job.lista \in Claves

\* Only an order in the kitchen has been confirmed.
ConfirmadoEnCocina ==
  \A p \in Pedidos : confirmadoPor[p] # Ninguna => pedido[p] \in EnCocina

IInv ==
  /\ TypeOK
  /\ MedioCoherente
  /\ PagoDePedido
  /\ RespuestaReal
  /\ SinOrdenAntes
  /\ LecturaReal
  /\ JobEnPago
  /\ ConfirmadoEnCocina
  /\ PrepagoReal
  /\ AprobadoLlega
  /\ ReembolsoJusto
  /\ EfectivoUnaVez
  /\ SesionCoherente

-----------------------------------------------------------------------------
(* What the repository says and the code does not guarantee *)

\* An approved card payment confirmed its order or is marked for refund
\* (pagos-webhook.service.ts:321-328).
NingunCobroPerdido ==
  \A k \in Claves :
    Medio[k] = "MERCADOPAGO" /\ pago[k].estado = "APROBADO"
      => confirmadoPor[PedidoDe[k]] = k \/ pago[k].marcado

\* A table is closed only without a charge in progress (mesas.service.ts:444).
CierreSinCobroEnCurso ==
  [][\A m \in Mesas : Abierta(m) /\ ~Abierta(m)'
       => \A p \in PedidosDe(m) : Pendientes(p) = {}]_vars

\* A duplicated or unordered notification cannot leave an old state
\* (pagos-webhook.service.ts:114-116).
EstadoNoRetrocede ==
  [][\A k \in Claves :
       pago[k].estado = "REEMBOLSADO" => pago'[k].estado = "REEMBOLSADO"]_vars

\* A table does not stay in EN_PROCESO_DE_PAGO: approved or rejected, it goes
\* back to OCUPADA (pagos.service.ts:200).
MesaSaleDeCobro ==
  \A m \in Mesas :
    mesa[m].estado = "EN_PROCESO_DE_PAGO" ~> mesa[m].estado # "EN_PROCESO_DE_PAGO"

\* A notification resolves the payment its order belongs to
\* (pagos-webhook.service.ts:59).
RechazoPropio ==
  \A k \in Claves :
    pago[k].estado = "RECHAZADO" /\ pago[k].motivo = "PASARELA"
      => orden[k] = "FALLIDA"

=============================================================================
