# BistroLink in TLA+

BistroLink is a multi-tenant application for restaurants: diners scan the QR of
their table, order, and pay by card or in cash; the kitchen receives the orders
that were paid; the staff moves them on until they are delivered. This directory
holds TLA+ models of its backend (`src/apps/backend/src`) and of the screens that
keep state of their own, TLC configurations that check them on small instances,
and TLAPS proofs for every instance. Paths below are relative to
`src/apps/backend/src`; the names of screens are those of their components in
`src/apps/frontend/src`.

1. [How to run it](#1-how-to-run-it)
2. [Inventory](#2-inventory)
3. [Plan](#3-plan)
4. [Payments: `Pagos`, `Prepago`](#4-payments-pagos-prepago)
5. [Kitchen queue: `Cocina`](#5-kitchen-queue-cocina)
6. [Fiscal documents: `Cfe`, `EstadoDgi`](#6-fiscal-documents-cfe-estadodgi)
7. [Stock: `Stock`](#7-stock-stock)
8. [Alerts of the dining room: `Avisos`](#8-alerts-of-the-dining-room-avisos)
9. [Staff: `Personal`](#9-staff-personal)
10. [Setting up and deleting restaurants: `Altas`](#10-setting-up-and-deleting-restaurants-altas)
11. [Suspended restaurants: `EstadoTenant`](#11-suspended-restaurants-estadotenant)
12. [Menu: `Carta`](#12-menu-carta)
13. [The diner's page: `Comensal`](#13-the-diners-page-comensal)
14. [Reports: `Resumen`](#14-reports-resumen)
15. [Who waits for whom: `Trabas`](#15-who-waits-for-whom-trabas)
16. [The board and the page of an order: `Tablero`](#16-the-board-and-the-page-of-an-order-tablero)
17. [The map of the tables: `Mapa`](#17-the-map-of-the-tables-mapa)
18. [The stock on the screens: `Jornada`](#18-the-stock-on-the-screens-jornada)
19. [Runs](#19-runs)
20. [What is proved](#20-what-is-proved)
21. [Where the code and its documents disagree](#21-where-the-code-and-its-documents-disagree)
22. [Not modelled](#22-not-modelled)

## 1. How to run it

    tlc -workers 2 -config Pagos_cobro.cfg MC_Pagos     # one run (table in section 19)
    tlc -workers 2 -config Cocina_cola.cfg MC_Cocina
    tlc -workers 2 -config Pagos_retiro.cfg MC_Retiro
    tlc -workers 2 -config Cobrado.cfg MC_Cobrado
    tlc -workers 2 -config Gestion.cfg MC_Gestion
    tlapm Personal_proofs.tla                           # one module of proofs

`PROJECT.json` lists the components, the runs, the seeded defects that each
checked property catches, the lines of code each definition models, the hazards
and the theorems. Definitions marked *Seeded defect* in the modules are those
defects: no action uses them.

## 2. Inventory

The backend is a NestJS process, possibly several at once, over one PostgreSQL
database. Every request runs its statements in transactions
(`prisma/tenant-prisma.service.ts`) at READ COMMITTED, PostgreSQL's default:
what a transaction read may be changed by another one before it writes. There
are no in-memory queues; the state is in the database, at the payment gateway
(Mercado Pago), at the identity provider (Keycloak) and at the provider of
fiscal documents (Surtec). Components meet in three ways: they call each other
inside a transaction (an approved payment confirms its order, which discounts
the stock and fills the kitchen), they share rows (`mesa.estado` is written by
payments, notifications, the reconciliation and the staff), and they emit live
events after the commit.

| Component | State | Operations | What is hard | What makes it correct |
|---|---|---|---|---|
| Card payments (`pagos/pagos.service.ts`) | rows of `pago`, with their reference and history | `crear`: reserve, charge at the gateway, write the answer | three transactions with a network call between them; several attempts for an order; the process dies in between | an order reaches the kitchen once, and only paid; every charge is recorded or refunded |
| Gateway (`pagos/gateways`) | orders at Mercado Pago; a circuit breaker | create an order, consult it | time-outs, silence after charging, HTTP errors | an unknown outcome is PENDIENTE, never a rejection |
| Notifications (`pagos/webhooks`) | none of its own | `procesarOrden`: consult the order, match it to a payment, apply | repeated, late and unordered deliveries, handled at once; matching without a reference | idempotent, converges to the state of the order |
| Reconciliation (`pagos/conciliacion`) | none of its own | list PENDIENTE payments, consult them, expire the old ones | races with answers and notifications | no payment stays PENDIENTE, no table stays blocked |
| Cash (`pagos/efectivo`) | rows of `pago` in EFECTIVO; time of the request | register cash or POS, request to pay in cash | races with card reservations and other waiters | cash is only kept if it confirms the order |
| Tables (`mesas`) | `estado` and `sesionId` of a table | open, close (which cancels unpaid orders), clean | state shared with payments; a close against orders and charges in progress | a session exactly while open; nothing in progress is cut off |
| Orders (`pedidos/pedidos.service.ts`, `qr-mesa`) | `estado`, lines, total, history | create behind the table's guard, confirm | the guard reads before the transaction writes | see payments |
| Kitchen queue (`pedidos/cola-kds.ts`, `pedidos-transicion.service.ts`) | `estado` and `encoladoEn` of the orders, an advisory lock | promote, move by hand | limit under concurrent approvals; lock against row locks; dying with the lock | limit kept, first come first served, no blocking |
| Configuration (`configuracion`) | limit of the kitchen, reference times, means of payment | change, which fills the kitchen | races with whoever read the old value | a raised limit is used at once; a lowered one is respected |
| Live events (`pedidos/kds.gateway.ts`, `alertas-pendientes.ts`) | rooms of sockets, pending alerts (in memory) | follow an order, emit after a commit | reading before joining a room; events in another order than commits | a screen ends with the last state |
| Stock (`stock`) | quantity per item | verify, discount on confirmation, adjust | verify and discount apart; absolute writes | never negative, no discount lost |
| Fiscal documents (`cfe`) | `comprobante_fiscal`, its state at the tax office | emit with retries, reconcile, poll the state | the provider took a call that timed out; several triggers | one document per order, no order without one |
| Tenant state (`tenant-estado`) | cache in each process | read through, invalidate | filling races invalidating; several processes | a suspended restaurant is refused after its time to live at the latest |
| Users (`usuarios`, `keycloak-admin`) | rows of `usuario` and Keycloak's users | create, edit, deactivate | two stores; the last administrator | always an active administrator; the stores agree |
| Platform (`plataforma`) | `tenant`, its state, data at Keycloak | set up, suspend, delete | a saga of steps that fail and are retried | a retry completes what was begun, nothing is duplicated |
| QR and diners (`qr-mesa`, `auth-comensal`) | version of a table's QR | open with a token, regenerate | old tokens | an old QR or a closed session is refused |
| Menu (`menu`) and the page that edits it | items with a version, categories; the list of each page | create, move, edit, switch, archive | two pages; checks apart from their writes | no edit overwrites another; an archived category has no active item |
| Reports (`reportes`) | sales and dishes by hour | calculate the last hours after each payment; a job | calculations that overlap | a payment that was counted stays counted |
| Diner's page (`MenuDigital`, `PagoPedido`) | cart, order, saved order, payment in course | order, pay, tell the waiter, reload, take up | answers lost or late; what callbacks captured | it charges what it shows, and offers to pay only what nobody is charging |
| Board and page of an order (`KdsBoard`, `SeguimientoPedido`) | list of orders, queue, place | connect, show events | copies that cross events; cuts and restarts | told the last state of every order |
| Map of the tables (`MapaMesasEditor`, `mesas`) | tables on the page; what was removed | add, number, remove, undo, save | refused or lost saves; tables in use | the map and the tables agree; no table in use is deleted |
| Stock of the day and the bell (`useStockJornada`, `useAlertasStock`) | rows loaded, form, units sold without stock | load, type, save, restock, show events | merging loads with what is typed; loads and saves answered in any order; sockets cut | a save sends only what was typed; what was announced is shown |
| Audit log, receipts, authentication, test cleanup, other screens | | | one request at a time, or read only | |

Every hazard the survey found is in `PROJECT.json` with its line and the
properties that cover it, or why none does.

## 3. Plan

Order of work, the most important behaviour first. Steps 1 to 10 are on disk.

1. **Payments** (`Pagos`, abstract `Prepago`): requests, gateway, notifications,
   reconciliation, cash, table sessions; invariants and refinement proved.
2. **Kitchen queue** (`Cocina`): the statements of its transactions, the lock,
   deadlocks, crashes; limit, order of arrival and choice proved.
3. **Fiscal documents** (`Cfe`, `EstadoDgi`): triggers, retries, the job, replicas;
   one document per payment proved, its liveness checked.
4. **Stock** (`Stock`): verification, discount, adjustments; proved.
5. **Staff** (`Personal`) and **setting up** (`Altas`): two stores, the last
   administrator, a saga that is sent again. Both are proved; that the saga ends is
   checked.
6. **Suspension** (`EstadoTenant`, proved) and **alerts** (`Avisos`, proved): each a
   reader racing a writer.
7. **Menu** (`Carta`, proved): versions of an edit, categories against their items.
8. **Who waits for whom** (`Trabas`): the order in which the transactions about a
   table take their rows, in one model; proved.
9. **Screens**: the diner's page (`Comensal`), the board and the page of an order
   (`Tablero`), the map of the tables (`Mapa`), the stock of the day (`Jornada`);
   proved.
10. **Reports** (`Resumen`, proved): calculations that overlap.
11. Left: the composition of `Pagos` and `Cocina` by refinement, both implementing
    the life of an order (unpaid, in the kitchen, delivered, cancelled), of which
    each models one half in detail.

Bounds stay as small as they are below: two actors of each kind and one
resource they share, since every hazard listed needs two of them at most.

## 4. Payments: `Pagos`, `Prepago`

`Prepago` is the promise: the kitchen only receives an order once money for it
was taken; it receives it once; an order that was cancelled never gets there.
`Pagos` is the program; `CumplePrepago` is the refinement.

State: `mesa` (state and session), `pedido`, `confirmadoPor` (which payment
confirmed it), `pago` (a row per attempt: state, reference, reason of a
rejection, mark for refund), `orden` (what the gateway holds for each key),
`avisos` (orders whose change the gateway notifies, any number of times),
`cobro` (where each request of payment is), `lectura` (what each notification
handler and the reconciliation job read), `cierre` (what the close of each table
read), `historialCancelado`.

The transactions are split where the code awaits something that another one may
change, and the values it read are kept until it writes:

| Code | Actions |
|---|---|
| `PedidosService.crear` behind `MesaQrGuard` | `CrearAdmite`, `CrearConfirma` |
| `PagosService.crear` | `ReservarLee`, `ReservarConfirma` / `ReservarAborta`; `PasarelaResponde` / `PasarelaError` / `PasarelaCalla`; `CobroAprobado` / `CobroRechazado` / `CobroPendiente` / `CobroError` / `CobroTarde` |
| Mercado Pago | `OrdenAvanza` (external) |
| `procesarOrden`, `aplicar` | `Recibir`, `Leer`, then `CompletarReferencia`, `Reembolsar`, `Aplicar` or `Fallar` |
| `ConciliacionPagosService` | `ConciliarLista`, `ConciliarConsulta`, `TodaviaNo`, `VencerLee`, `Vencer`; its job calls `procesarOrden` like a notification |
| `CobroEfectivoService.registrarEnTx` | `EfectivoLee`, `EfectivoConfirma` / `EfectivoAborta` |
| `MesasService` | `AbrirSesion`, `CierreLee`, `CierreBloquea`, `CierreConfirma` / `CierreAborta`, `MarcarLimpia` |
| `PedidosTransicionService` (as seen by payments) | `Entregar`, `TransicionTardia` |

What is abstracted:

- Amounts, prices, taxes and receipt data: checks on them only refuse, and a
  refused request is one that does not start. The same for stock, and for the
  means of payment a restaurant has turned on.
- The guards of a request (`MesaQrGuard`, `PedidoAccesoGuard`) are merged with the
  first reads of its transaction.
- Time: any PENDIENTE payment may be old enough to expire or not yet
  (`VencerLee`, `TodaviaNo`).
- A crash of the backend after calling the gateway is the same as a silence
  (`PasarelaCalla`): the row stays PENDIENTE with or without an order behind it.
- A repeated idempotency key changes nothing and is left out.
- A notification carries no state: the order is consulted when it is handled, as
  in the code.
- RECIBIDO stands for every state of an order in the kitchen that is not
  delivered, since payments do not tell them apart. `TransicionTardia` is the late
  write of `transicionar`, which `Cocina` models exactly.
- `vencer` updates the payment, then counts the others in progress; as the row is
  locked from the update on, this is modelled as reads and one conditional
  commit. `CierreLee` merges the read of a table with the count of its orders,
  `CierreBloquea` the row lock with the listing. One close per table at a time.
- Database errors while writing are modelled for notifications (`Fallar`: the
  gateway delivers again), not for the reconciliation, whose next round starts
  over in any case.
- `OrdenTrasError` is what the gateway may hold after an HTTP error. The runs with
  liveness assume what `pagos.service.ts:153` says: nothing was charged. The run
  `retiro` and all the proofs allow a charge.

Fairness (`Fairness`): weak for the steps of a request once the gateway has
answered, for the reads of a handler and for the job, which is started with the
process and runs for ever (`conciliacion-pagos.job.ts:55-69`); strong for
`VencerLee`, since the job tries each round, and for the writes of a handler,
since the gateway delivers a notification until it gets a 200. There is no
fairness for people: diners, waiters, and the gateway's decision on an order that
`OrdenAvanza` leaves open may never come, and an expired payment is what
resolves those.

## 5. Kitchen queue: `Cocina`

State: `estado` of each order (committed), `antes` (which order has the earlier
`encoladoEn`, written by transactions not yet committed too), `limite`,
`candado` (holder of the advisory lock) and `tx` (what each transaction is at, what
it has read, and the row it has written).

| Code | Actions |
|---|---|
| `confirmarPagoEnTx` | `ConfirmarPago`, then `completarCapacidad` |
| `transicionar` | `TransicionarLee`; to preparation: `LeerLimite`, `BloquearCola`, `HayLugar` / `CocinaLlena`; `Escribir`; out of preparation: `completarCapacidad` |
| `ConfiguracionEstablecimientoService.actualizar` | `CambiarLimite`, then `completarCapacidad` |
| `completarCapacidad` | `LeerLimite`, `BloquearCola`, `Elegir` |
| commit and rollback | `ConfirmarTx`, `Caer` (the process, the connection or the transaction's time-out), `AbrazoMortal` (PostgreSQL aborts one of two that wait for each other) |

Visibility, row locks and deadlock detection are PostgreSQL's, modelled from its
documented behaviour at READ COMMITTED and marked external.

What is abstracted: an order's lines, history and events. Null, the queue being
off, is 0, which no limit is. The write of the limit is atomic with its read (it
is held until the commit). The second confirmation of an order, which writes
nothing, and the cancellation of unpaid orders by a close are left to `Pagos`.
The promotion's update is merged with the commit: nobody waits for those rows
holding something that the promoter needs. Row locks of the stock are left out.
So the only cycles of waiting have two transactions.

Fairness: strong for each transaction's own steps, because PostgreSQL grants a
lock to those who wait in order of arrival and looks for deadlocks. None for
those who start transactions, nor for crashes.

## 6. Fiscal documents: `Cfe`, `EstadoDgi`

An approved payment is invoiced in the background by Surtec: an e-Factura if the
diner gave a RUT, an e-Ticket otherwise. `Cfe` ends when the row is saved;
`EstadoDgi` goes on with the state of that row before the tax office.

State of `Cfe`: `pago` (approved, with a receptor, failed attempts), `comprobantes`
(rows), `documentos` (what Surtec issued), and in each replica `em` (the map
`enCurso`, with what each emission is at) and `corrida` (what the run of the job has
left). `manual` is an administrator's retry between its check and its call. `dijo`
is history: what Surtec answered to the e-Factura.

| Code | Actions |
|---|---|
| `emitirConReintentos`, from `pagos`, the notifications and cash | `AprobarPago`, `RepetirAviso` |
| `ComprobantesService.reintentar` | `VerificarManual`, `ReintentarManual` |
| `conciliacion-cfe` (job and service) | `CorrerJob`, `RetomarDelJob`, `PasaElTiempo`, `PasanLosDias` |
| `CfeService.emitir`, `emitirSegunReceptor`, `SurtecClient` | `LeerPago`, `EmitirEFactura`, `EmitirETicket`, `GuardarComprobante`, `RegistrarIntentoFallido` |
| anonymising a receptor | `AnonimizarReceptor` |
| a replica dies | `CaeReplica` |

Surtec is external: it issues one document per `id_externo`, and its answer may be
lost after that. A 4xx is `rechazo`, and nothing says that it cannot follow an
accepted request whose answer was lost: the token of the retry may have been
refused. Amounts, taxes and lines are left out, and so is the validity of a
receptor. The waits of a retry are abstracted to `reciente`.

Fairness (`CfeFairness`): every call of a running replica has a timeout, the timer of
the job fires, and time passes. Nobody has to approve, be notified or retry by
hand. With the bound on crashes this gives `TodoPagoSeResuelve`: each approved
payment gets its row or is left to the administrator's attention.

State of `EstadoDgi`: `estadoDgi` of each row; in each replica `leidos`, `cambios` and
`aplicados` (what its run read as pending, the final states that it was told, and the
rows that it changed and did not count yet). `contado` and `sinContar` are history: how
many runs counted each row, and the rows changed by a run that ended before that.
`SeGuarda`, `LeerPendientes`, `ConsultarEmitidos`, `AplicarCambios` (the commit),
`ContarCambios` (the count and the warning that follow it) and `AbandonarCorrida` are the
steps of `EstadoDgiService` between its awaits; a run may end anywhere, also between the
commit and the count, or with a commit whose answer is lost. Surtec may tell two runs
different things of a document. The update by row in one transaction is one
action, as its condition is looked at again in each row.

## 7. Stock: `Stock`

State: `item` (committed rows: quantity, control, threshold, availability), `fila`
(who has locked each row), `compra` (what each order is at), `ajuste` (what each
adjustment asked, read and did). `cuenta` is history: units loaded, sold, and sold
without stock.

| Code | Actions |
|---|---|
| `verificarPedidoEnTx`, before charging | `VerificarPedido` |
| `descontarEnTx`, in the confirming transaction | `EmpezarConfirmacion`, `TomarFila` (one lock at a time, by id), `Descontar`, `FallarConfirmacion` |
| `StockService.ajustar` | `LeerItems`, `EscribirItem` (one UPDATE at a time, in the order of the request), `ConfirmarAjuste`, `FallarAjuste` |
| `cambiarDisponibilidad` | `CambiarDisponibilidad` |

Visibility and locks are PostgreSQL's at READ COMMITTED. An item's threshold is
only "the other one"; a request changes one field of each item; an adjustment
names at most two items. Alerts and the log of what was sold without stock are
the unit counted in `demas`.

`StockCuadra` exempts items that an adjustment wrote from a stale read: it writes
the absolute quantity it computed from rows read without a lock
(`stock.service.ts:150-184`), so a sale in between is lost. That is the hazard, and
the exemption is exactly its extent. An adjustment locks in the order of the
request and may wait in a circle with a payment; two payments may not
(`PagosNoSeTraban`, which is proved and is no run's property, like
`AgotadoNoSePide` and `EntraUnaVez`).

## 8. Alerts of the dining room: `Avisos`

A table calls the waiter, or asks to pay in cash. Three copies must agree: the
database (`efectivo`), the memory of the server (`pendientes`, `atendidos`), and the
list of each screen (`lista`), which events change and a snapshot replaces.
`porAvisar` is what was committed and is still to be told; `respuesta` and `conexion`
are answers and snapshots between their awaits. `debe` and `aceptados` are the
ground truth of the properties: who waits, and who was attended.

| Code | Actions |
|---|---|
| `KdsGateway.emitirLlamado`, `AlertasPendientes.agregar` | `LlamarMozo`, `AvisarSolicitud` |
| `SolicitudEfectivoService.solicitar` | `SolicitarEfectivo`, then `AvisarSolicitud` or nothing (60 s) |
| charge, and `emitirNuevoPedido` | `Cobrar`, `AvisarCobro` |
| close of a table, and `emitirLlamadoResuelto` | `CerrarMesa`, `AvisarCierre` |
| `onResolverLlamado`, `marcarEfectivoAtendido` | `Responder`, `ResolverLlamado`, `LeerDeLaMesa`, `MarcarAtendido`, `FallarLectura` |
| `handleConnection`, `onSync` and `enviarSnapshot` | `Sincronizar`, `LeerSolicitudes`, `EmitirSnapshot`, `Cortar` |
| term of an alert, restart | `VencerAlertas`, `Reiniciar` |

Node has one thread: what lies between two awaits is one action, and events reach
connected screens in the order of their emission. The time of the first call,
which only orders the list, is left out. A screen that is not up to date may show
an older alert, and a waiter may answer it: `Responder` allows that.

The exemptions of the properties are named in `salvedad` and are races that were
found while modelling: section 21.

## 9. Staff: `Personal`

Each member has a row (`fila`: role, active) and an account in Keycloak (`cuenta`:
roles, enabled, open sessions). `sol` is what each request in progress does next;
`candado` the advisory lock of the tenant; `incierta` (history) the accounts at which
a call timed out, lost its answer, or died.

| Code | Actions |
|---|---|
| `UsuariosService.crear` | `PedirCrear`, `LlamarKeycloak`, `AsignarRol`, `InsertarFila`, `Deshacer` |
| `actualizar` (the role), `desactivar`, `reactivar`, `eliminar` | `PedirCambio`, `Entrar`, `LlamarKeycloak`, `Confirmar`, `CerrarSesiones` |
| `restablecerContrasena`, `cerrarSesiones`, and those of the kitchen | `PedirContrasena`, `PedirCerrar`, `PedirCocina`, `CerrarSesiones` |
| transaction's time-out (10 s), death of the process | `VenceTransaccion`, `CaeProceso` |
| logging in | `Ingresar` (external) |

A transaction that times out is rolled back and loses its lock *while its call to
Keycloak goes on*: the step that matters, and no test reaches it. The profile
(names, e-mail, password) and the audit log are left out. `TrasLlamada` adds the new
role and keeps the old one, as `assignRealmRole` does.

## 10. Setting up and deleting restaurants: `Altas`

Setting up is a saga with no transaction around it: the tenant and its data; three
accounts, each looked for, created, given its role, or undone; the administrator's
row and the mark `alta_completada_en`. When it fails, sending the same request
again takes up what is there. Deleting removes the data in a transaction, and then
each account of the tenant.

State: `tenant`, `identidad` (Keycloak; an account has an id, so that one deleted and
created again is another), `alta` and `baja` (what each request is at), `quiere` (who
will send it again). Actions: `Pedir`, `Reintentar`, `Buscar`, `AsegurarDatos`,
`BuscarUsuario`, `CrearUsuario`, `AsegurarRol`, `RevertirUsuario`, `EscribirFila`,
`FallarAlta` for `AprovisionamientoService`; `BorrarDatos`, `ListarCuentas`,
`BorrarCuenta`, `ResponderBaja`, `FallarBaja` for `EliminacionEstablecimientoService`;
`Vender` is the first order, after which a restaurant is not deleted.

What a request does is the same for each of the three accounts, and is modelled
once (`n`). `Datos` are two requests that name the same administrator, so that one
must be refused. `TenantIds` bounds the ids: a new one is one that nothing uses, and a
request that finds none waits. Fairness: a request that runs ends, and whoever asked sends it
again. That is an assumption on people, stated by the code's comment; it gives
`AltaTermina`.

## 11. Suspended restaurants: `EstadoTenant`

Each replica remembers for `Plazo` whether the tenant is suspended. A query
(`Empezar`, `Leer`, `Guardar`, `FallarConsulta`) reads the clock, reads the database and
stores; a change (`Cambiar`) commits, and then drops what its own replica remembers
(`Invalidar`). `PasaUnMomento` is the clock. `ultimaVez` is history: when it was last
so. `ajeno` marks the memories that may be wrong: those read before another
replica's change, or before a drop that came between their read and their store.

## 12. Menu: `Carta`

State: `plato` (state, category, content, version), `seccion`, what is between the
check and the write of each transaction (`escritura`, `archivando`, a form in phase
"leido"), and what each page shows (`lista`, and the loads and switches on their
way). `EmpezarEscritura`, `TerminarEscritura` and `AbortarEscritura` are creating,
restoring and moving an item; `ContarActivos`, `ArchivarSeccion`, `RestaurarSeccion`,
`EliminarSeccion` the categories; `AbrirFormulario`, `LeerPlato`, `GuardarPlato` the edit
with its version; `CambiarDisponibilidad`, `RecibirCambio` the switch and
`conVersionItem`; `PedirCarga`, `LeerCarga`, `RecibirCarga` the page's loads;
`ArchivarPlato`, `EliminarPlato` and their event `menu:item:retirado`.

The content of an item is the number of the edit that wrote it. The order of the
menu, photos, the edit of a category's name (which has a version in the same way)
and two writes in one millisecond are left out.

## 13. The diner's page: `Comensal`

What one page does with what it asks of the backend. State: `pagina` (the view, the
cart, the order to be paid and the cart that it was made from, the payment screen,
and each request on its way), `guardado` (`sessionStorage`), `encargo` (the orders as
the backend has them), `intento` (each card payment that was sent). An answer is
given in one step and applied in a later one, or lost, and the page goes on
between them; what a callback captured when it was made goes with the request.

| Code | Actions |
|---|---|
| `MenuDigital`: cart and `handleContinuarPago` | `Agregar`, `Vaciar`, `ContinuarConElMismo`, `ContinuarAlPago`, `CrearEncargo`, `LlegaEncargo`, `FallaEncargo` |
| taking up the saved order | `Recargar`, `ConsultarGuardado`, `RetomarPago`, `RetomarAprobado`, `Descartar`, `ConservarGuardado` |
| `PagoPedido`: opening, paying | `ConsultarAlAbrir`, `AplicarApertura`, `FallaApertura`, `Pagar`, `ReservarIntento`, `ConflictoDelIntento`, `RehusarIntento`, `ResponderIntento`, `LlegaRespuesta`, `PierdeRespuesta` |
| polling; what others do to the order | `ConsultarPago`, `ConsultarCancelado`; `ResolverPago`, `CobrarEnMano` |
| cash | `AvisarAlMozo`, `SolicitarEfectivo`, `LlegaAviso`, `FallaAviso`, `PagarConTarjeta` |
| leaving | `Volver`, `HacerOtroPedido`, `CerrarLaMesa` |

Prices, the data of the card and of the receipt, and the menu itself are left out;
the comparison of two carts (`firma`) is their equality.

## 14. Reports: `Resumen`

State: `venta` (each payment and the hour of its creation), `porHora` and `platos` (the
two tables of the summary), `turno` (the lock), `calculo` (what each calculation has
found), `cerrados` (orders paid or cancelled). A payment that sends its order to the kitchen asks for a calculation of
the last two hours, after its commit and without waiting for it
(`RecalcularRecientes`); each replica of the job asks for more hours (`CorrerResumen`).
`TomarCandado`, `CalcularVentas`, `CalcularPlatos`, `ConfirmarCalculo`, `FallarCalculo` are
its statements: each reads what is committed when it runs. An hour is the set of
what it counts: amounts and channels are left out. A refund may come to a payment in
any state (`Reembolsar`), and an answer read before it may approve the payment again
(`Aprobar`, the run `retroceso`), which asks for no calculation if the order was paid
already. `vista` and `retomadas` are history: the payments whose own calculation
committed in time, and those that were approved again like that.

## 15. Who waits for whom: `Trabas`

Every transaction about a table (order, reservation with and without a receptor,
answer, expiry, cash, close, manual move, configuration, adjustment of stock) is
the list of rows that it takes, in the order of its statements, each with its
lock: `EmpezarTx`, `Ejecutar`, `NoAplicar` (the UPDATE does not apply), `Listar` (rows
known when the statement runs), `Confirma`, `Aborta`. `Espera` is the relation of
waiting. `comanda` keeps the states of the orders, which decide who takes them;
whether a payment, a table or the limit is in the state that a statement asks for
is left open, so every list of rows that the code can take is there, and some more.

`CobrosNoSeTraban` says in which kinds of transaction (`SinOrden`) the fault lies of
every circle of waiting: without one of these there is none. This is the
composition, by their locks, of what `Pagos`, `Cocina` and `Stock` model apart. The
items of a confirmation are read `ORDER BY id`, and are a list in the order of a key,
like the tables that a page of the map loads: `EnOrden`, in a module of its own, `Orden`.

## 16. The board and the page of an order: `Tablero`

State: `etapa` (of each order) and its `version`, `llegada` (the place of each order among those that were
paid, or 0) and `tope` (the queue, as `Cocina` serves it), `pase` (each request that changes an order or the limit, and what it has still
to emit, and to which board it answers), `tablero` (each board: connected, mounted, its
list, its copy of the queue, whether an error message is in their place, and the two
snapshots that the server may be reading for it), `seguidor` (the page of an order). `v`
in what a screen shows, and `visto`, are history: how many changes there had been when
it was read. So are `perdido`, `colaPerdida` and `lugarPerdido`: the newest that a screen
was not told because something failed.

| Code | Actions |
|---|---|
| confirmation of an order, `onTransicion`, the change of the limit | `ConfirmarOrden`, `PedirTransicion`, `GuardarTransicion`, `CambiarTope`; refused: `RechazarAlLeer`, `RechazarTransicion` |
| events after the commit | `EmitirCambios`, `LeerColaDelPase`, `EmitirCola`; the answer of the commit is lost: `PerderRespuesta`; reading the queue fails: `FallarColaDelPase` |
| `handleConnection`, `onSync`, `KdsBoard` | `ConectarTablero`, `Montar`, `Desmontar`, `CortarTablero`, `LeerPedidos`, `EmitirPedidos`, `LeerColaDeLaFoto`, `EmitirColaDeLaFoto`; failures: `CerrarTablero`, `FallarCopia`, `FallarColaDeLaFoto` |
| `onSeguirPedido`, `SeguimientoPedido` | `PedirSeguimiento`, `LeerResumen`, `UnirSeguidor`, `LeerLugar`, `DarLugar`, `CortarSeguidor`; failures: `FallarResumen`, `FallarLugar` |
| restart | `ReiniciarServidor` |

What is abstracted: a change and the promotions that it causes commit together;
the queue is read in one step; the transport delivers in order or is cut. The three
properties say what a screen *was told* once everybody has finished, and what it shows
if nothing older came after that: a copy read before a change may be emitted after its
event, and then the older one stays until the next event. The other exceptions are
named in the state: the event that `pedido:seguir` misses between its read and its
join, and the one of a commit whose answer is lost (`perdido`); the queue that could
not be read (`colaPerdida`, `lugarPerdido`), as the comment of `avisarEstadoCola` says; a
copy that was asked for and could not be read (`sinCopia`); and a board that was told of
an error, a refused move for one, which shows the message in place of the orders
until it is opened again (`error`, `KdsBoard.alError`).

## 17. The map of the tables: `Mapa`

State: `filaMesa` (the rows of the tables), `plano` (which save holds the row of the
restaurant, that each save writes first), `editor` (each page: its tables, the ones
removed, what «Deshacer» would put back, the save on its way).

| Code | Actions |
|---|---|
| `cargarLayout`, its effect when the token is renewed, a reload of the page | `Cargar`, `RenovarToken`, `RecargarMapa` |
| `mesa:estado_actualizado`, `refrescarEstados` | `VerEstado` |
| `MapaMesasEditor`: edits | `AgregarMesa`, `Numerar`, `QuitarMesa`, `ReponerMesa`, `CerrarDeshacer` |
| `handleGuardar` and its answer | `GuardarMapa`; `LlegaGuardado`, `LlegaRechazo`, `PierdeGuardado` |
| `guardarLayout`, `eliminarMesas` | `RevisarGuardado`, `RechazarGuardado`, `ConfirmarGuardado`, `AbortarGuardado` |
| `abrirSesion`, `cerrarSesion`, `crear`, as the map sees them | `AbrirMesa`, `DejarMesa`, `PedirEnMesa` |

Positions, zones and fixed elements are written over as they come, and left out; so
are the top of 99 tables and a failed refresh. A load is one step. The exemptions
of the two properties are what section 21 tells of the map.

## 18. The stock on the screens: `Jornada`

The page of the stock of the day and the bell of the header. Each has a socket and
a `vista` (the rows that it has); the page has a `formulario` too, and the bell the
units sold without stock (`sinStock`), of which only events tell. `red`, `eventos`,
`espera` and `cargas` are the socket, the events on their way, the timer of one
second and the loads on their way. `avisada` is history: the versions of the rows at
the last event emitted to the socket, or when it came back.

| Code | Actions |
|---|---|
| `descontarEnTx` and `avisar`; `StockController.ajustar` | `Vender`; `AjustarOtro`, `AplicarGuardado` |
| `abrirSocketStock`, `handleConnection`, the renewal of the token | `Conectar`, `EntrarALaSala`, `Cortar`, `LlegaAviso`, `VenceEspera`, `RenovarToken` |
| `cargar` of each hook, `listar`, `alertas` | `LeerCarga`, `FallarCarga`, `LlegaCargaPantalla`, `LlegaCargaCampana` |
| `useStockJornada`, `StockPage` | `Teclear`, `Guardar`, `Descartar`, `LlegaGuardado`, `FallarGuardado`, `Dibujar` |
| `reponer`, `ReponerStockDialog` | `Reponer`, `LlegaReposicion` |

React is in the model by one thing: what an answer sets is drawn in a later task
(`Dibujar`), and an event of the user draws everything at once. The button that saves
reads the form of the last drawing, and the rows of a reference that an answer
changes at once: between the two, a quantity of before is sent (section 21).
Elsewhere `SoloLoTecleado` holds because a field differs from the rows only while it
has what was typed in it (`fusionarConServidor`). A transaction of an adjustment is
one step here; `Stock` takes it apart. The texts of one quantity («05») are one, and
the menu does not change. What is typed in a row while its save is on its way is
replaced by the answer: no comment promises the contrary.

## 19. Runs

All finish within four minutes. Symmetry is used in `retiro`, on two interchangeable
keys, and in `gestion`, which has no liveness, on two carts. Deadlock is not checked:
every order ends resolved, the bounded numbers of sessions, requests and failures
run out, and then nothing is left to do.

| Run | Instance | Distinct states | Shows |
|---|---|---|---|
| `cobro` | one table opened up to twice, one order, a card and a cash attempt, one notification handler and the job | 56,461 | the prepaid promise, cash and sessions; every payment gets resolved and every charge recorded |
| `retiro` | `MC_Retiro`: take-away, one order, two card attempts, HTTP errors that charged allowed; the page of the stock, or the bell, with two items, one of which changes (a sale, a save and two of: fields typed, failures), or both, in two steps (sales, an adjustment, a save) with one field typed and no failure; two orders, a board, a diner's page and two requests | 2,911,954 | refunds marked only for charges their order cannot use, with answers, silences and notifications of both attempts crossing and bound to each other's rows; saves that send what was typed; screens that show what they were told, and were told the last state of every order and of the queue |
| `cocina_cola` | `MC_Cocina`: three orders, two transactions, limit from 1 to 2; two set-ups and a deletion | 614,501 | the limit, the order of arrival, the choice under the lock; complete kits, no orphan accounts; every transaction and every set-up ends in spite of crashes and deadlocks |
| `cobrado` | `MC_Cobrado`: one payment and two replicas; two documents and two replicas; two items, two orders, an adjustment and the switch; a table, a cash request, two screens and an answer | 890,007 | one document per payment, and faithful rows; states counted at most once; units that add up; alerts that are seen and do not come back; every payment is resolved |
| `gestion` | `MC_Gestion`: two members and a kitchen, two requests; two replicas and two queries; an item, two categories, two pages; two orders and a card payment of a diner; two payments of an order and two replicas of the job; three tables and two pages of the map; three transactions over two orders (one of them unpaid at the beginning, at least) and two items | 3,033,485 | always an administrator; rows and accounts that agree; deactivation that ends sessions; recent and true memories; edits that do not overwrite; archived categories without active items; a page that charges what it shows; sales that stay counted; a map that agrees with its tables; charges that do not block each other |
| `doble`, `cierre`, `retroceso`, `trabada`, `ajeno`, `cocina_retroceso`, `carta_pisa` | the smallest instance of each | up to 39,516 | one violated property each: section 21 |

The parts of `retiro`, `cocina_cola`, `cobrado` and `gestion` share no state. A
behaviour is of one part, chosen at the beginning, while the others stay as they begin: the states of the
parts are added, and not multiplied, and each part has every behaviour that it
has alone, but for what the header of the MC module says of it.

Why the bounds are enough for what they are for:

- The hazards are races of two actors over a payment, an order, a table or the
  kitchen's last place. `cobro` has an answer, a handler, the job, a waiter and a
  close, all at once, over one order; two sessions let a resolution of the first
  one arrive in the second one. `retiro` has two attempts, the least for matching
  to go wrong. In `cocina_cola` three orders are one in preparation, one waiting and
  one that arrives, and two transactions are enough for every race of the lock and
  for a deadlock; the limit rises while they run. The two requests for restaurants
  differ in nothing, so the first one sent is always the same.
- `cobrado`: one payment emitted by two replicas, each with a retry, with two
  mishaps (a lost answer is not one of them: any number), reaches every
  disagreement between replicas. The batch of the job needs more payments than
  one, and is not exercised: the proofs, which allow any number, do not depend on
  it. Two orders take both items in common, and the stock runs out. Two screens
  and one answer are enough for a call that comes during an answer or a snapshot.
- `retiro`, the orders on the screens: three changes are two confirmations and the end of the
  first order, which promotes the second one with a limit of 1; one cut, restart or
  failure (they share `MaxVistas`) lets a snapshot cross them, or leaves something
  untold. The board is checked with one request after the other and failures, and with
  two requests at once and none; the diner's page apart. A board does not tell one order
  from the other, so the first one paid is always the same; once it shows an error it
  is followed only until it is opened again, since nothing else changes what it shows.
- `gestion`: two members, who may both be administrators, are the least for the
  last one to be at stake, and two requests with one failure the least for a lock
  lost during a call. Three tenant ids for two set-ups leave room for one that is
  deleted and set up again. A term of two ticks out of three has a query start, a
  change happen and the memory expire. Categories and pages are checked as two
  parts: a page's hazards are about items, which categories do not change. Two
  orders of a diner, one card payment, and a notice or a reload, are the least for
  an answer about the first one to reach the screen of the second one. Two payments
  of an order (the second after the first was rejected, or at once), two replicas
  and three hours are two calculations over a third one in every order; one of the
  payments is approved again after its refund, once. A diner's page that both notifies
  the waiter and is loaded again has one order. The map: one
  page, three edits, one mishap (a lost or failed save, a renewed token, a reload)
  and two uses of the room; then two pages with two edits and no mishap. The circles
  of two or three transactions over two orders and two items have every pair of kinds,
  and every three of them, except that a third one which changes no order and is of a
  kind that the property leaves out does not run with two more: its locks only make
  them wait.
- `retiro`, the stock: a sale crosses the load and the save of a form where another field, or
  the same one, was typed; one failure is a cut, a renewal, or a load or save that
  fails. Two changes, in one item or in two, are two loads answered in either order;
  nothing tells the items apart, so the first change is always to the same one.
- For the safety properties that section 20 lists the proofs remove the bounds.

What a run shows in plain words:

- `PrepagoReal`, `CumplePrepago`: whatever is lost, late, repeated or matched to
  the wrong row, the kitchen sees no unpaid order, and none twice.
- `AprobadoLlega`, `ReembolsoJusto`, `EfectivoUnaVez`: approvals reach their order;
  marks for refund and cash are right although decided on earlier reads.
- `SesionCoherente`: the database's CHECK on tables never fires in a late
  resolution, which would roll back the record of a payment.
- `PagoSeResuelve`, `CobroSeRegistra`, `TodoPagoSeResuelve`, `TxTermina`,
  `AltaTermina`: under the fairness of each section.
- `CocinaBajoLimite`, `ElegidosEnEspera`, `ColaJusta`: with the limit raised or
  left as it is. Lowering it breaks the first by design (no order leaves
  preparation), and turning the queue off lets manual moves past the lock.
- `TxTermina`: the lock and the rows are not always taken in the same order, and a
  deadlock is reachable; PostgreSQL's detector, not the code, resolves it.
- `DosDocumentosSoloSi`, `ComprobanteFiel`: retries from three places and two
  replicas do not invoice twice, and a row says what was issued, with the
  exceptions that section 21 explains.
- `NuncaSinAdmin`: also when the holder of the lock loses it half way.
- `PagaLoQueVe`, `OfertaSegura`: the payment screen shows the order that it charges,
  and is not offered while the order is being charged, with the exceptions of
  section 21.
- `CobradoSeVe`: an older calculation that waited for the lock does not take a
  payment out of the report.
- `CobrosNoSeTraban`: what charges, closes, cash and expiries take is taken in one
  order; every deadlock has a transaction of another, named, kind in it.
- `TableroAlDia`, `SeguimientoAlDia`, `ColaAlDia`: whatever crosses, whoever shows an
  order or the queue was told how it is in the end, with the failures that section 16
  names.
- `MesaEnUsoNoSeBorra`, `MapaAcorde`: the save of the map does not delete a table that
  was in use when it checked, and after a refused or lost save each table is once
  on the page.
- `SoloLoTecleado`, `VistaAlDia`: the save of the stock sends no quantity that a load
  brought, and the page and the bell show what they were told, with the exceptions of
  section 21.
- `CuentaAcorde`, `BajaCierraSesiones`, `KitCompleto`, `BajaSinHuerfanas`: two stores
  agree once nobody is at work, unless a failure was noted; the notes (`incierta`,
  `solapados`) are history, and are as narrow as the code allows.

## 20. What is proved

For every set of tables, orders, attempts, handlers and transactions, finite or
not (the orders of the kitchen and of the board are finite). The assumptions are the
named ones of the modules (`ConstantesAssumption`, `CocinaAssumption`, and so on, one
for each): the constants have their types, a null is not a value, and ids of
different things differ.

**Payments** (`Pagos_proofs`). `PrepagoReal` alone is not
inductive: an approval travels in a request or in a handler's hands before it is
written. `IInv` adds that it was real when taken and stays so: `RespuestaReal` and
`SinOrdenAntes` for requests, `LecturaReal` for handlers (what was read, consulted
and decided is about a row of the same order, and is still true because
accreditation, resolved orders and rows are never undone: `Avanza` in the
proofs), `JobEnPago` for the job, `PagoDePedido`, `MedioCoherente` and
`ConfirmadoEnCocina` for the rows. From it follow `TiposCorrectos`,
`CocinaSoloPagados`, `AprobadoNoEspera`, `ReembolsosJustos`, `EfectivoConfirmo` and
`MesasCoherentes`. `PagosCumplePrepago` is the refinement: each action maps to a
step of `Prepago` or to none. `OrdenTrasError` is arbitrary, so the proofs do not
assume that an HTTP error charged nothing.

**Kitchen queue** (`Cocina_proofs`). `SpecColaInv`, while the queue is on: who
moves it holds its lock (`ColaConCandado`), a row has one writer (`FilaDeUno`), and
no late write puts an order back in the queue (`Avanzados`); so what others commit
meanwhile takes nothing out of the queue and puts nothing in it (`ColaQuieta`),
and the chosen orders are still the first ones that wait. That gives
`ElegidosSiguenEnEspera` and `ColaPorOrdenDeLlegada`. `SpecIInv`, while besides
the limit is not lowered: whoever goes to add orders found room for them all, and
that room is still there (`LugarReservado`), hence `CocinaNoDesborda`. The two
hypotheses, `ColaActiva` and `LimiteSoloSube`, are on the administrator; without
them the statements are false, as section 19 says. What no change of the limit can
break is `EntraUnaVez` (`EntraAlaColaUnaVez`, of `Spec` alone): an order enters the
kitchen by the confirmation of its payment and is never put back in the queue,
although late moves take it back from other states (`cocina_retroceso`). It rests
on `PagadosInv`: rows with one writer, and a transaction in course is to write
RECIBIDO exactly if its order still waits to be paid.

**Fiscal documents** (`Cfe_proofs`; `CfeAssumption`,
`EstadoDgiAssumption`). That a payment has one document is not inductive: an
emission in progress may have read long ago what it is going to ask. `CfeInv` adds
that documents agree with what Surtec answered (`DocumentosBien`, `DijoBien`) and that
what each emission is about to ask or save agrees with both (`EmisionesBien`), in
every replica, whatever was lost: `UnSoloDocumento`, `FilasFieles`. Of the tax
office's state what is inductive is who is to count each row (`CuentaLlevada`): a final
state is counted, or one run has it in `aplicados`, or the run that had it ended. The
update looks at the row again, so no second run ever has it: `CadaEstadoUnaVez`,
`EstadoDefinitivoQueda`.

**Stock** (`Stock_proofs`; `StockAssumption`). A payment holds only rows before the
one it asks for (`TomaEnOrden`), hence `SinTrabaEntrePagos`; an adjustment holds only
rows of its request (`TomaLoPedido`), so what it commits is what it computed for
them, and the account of units changes with each row: `UnidadesCuadran`,
`AgotadoNoSeOfrece`.

**Staff** (`Personal_proofs`; `PersonalAssumption`). Only the holder of the lock writes
over an existing row. While it holds it, there is another active administrator
than the one it changes (`QuedaOtro`), and nobody can touch that one's row: who
creates writes rows of nobody else (`Nuevas`), and who lost the lock in a time-out
writes nothing. Hence `SiempreUnAdmin`, for any number of requests. A disabled
account with a session has a request that will close it, or is noted
(`SesionesPorCerrar`, `PerdidosInciertos`): `BajasSinSesion`. `CuentaAcorde` speaks of
who has no request; `AcordeInv` says for those who have one how far it got: who
creates a person is one (`UnCreador`), the row of whom the lock is held for is there
(`TieneFila`), and between the call to Keycloak and the row the account already is as
the row will be, or both as before (`AMediasBien`, `AcordeEn`). Hence `FilaYCuentaConcuerdan`.

**Suspended restaurants** (`EstadoTenant_proofs`; `EstadoTenantAssumption`). `Historia`
relates the clock and the history; `LeidoEntonces` says of memories, and of queries
that read and did not store, that it was so at the time from which their term
counts; `LeidoFiel` that what is not true any more is marked or is to be dropped.
`RecuerdoSiempreReciente` and `RecuerdoSiempreFiel` follow.

**Setting up and deleting** (`EstadoTenant_proofs`; `AltasAssumption`). A restaurant at
which two requests never were (`solapados`) has at most one at it (`Solos`), and a
step touches one restaurant. So `AltasInv` says, for that request, what is there of
the kit at each of its steps (`HechoHastaAqui`), that every account left is on the
list of the deletion until one of its calls fails (`BajaBien`), and for a restaurant
at rest what the two properties ask (`TenantBien`): `ElKitEstaCompleto`, `NadaQuedaDeLaBaja`.

**Alerts** (`Cocina_proofs`; `AvisosAssumption`). `AvisosInv`: alerts are of their tables
(`DeSusMesas`); a table that has somebody waiting is in the memory, and a screen that
is up to date shows it (`SeVeLoPendiente`); and a request that was attended, the only
one of its table, is in neither (`SoloUna`, `AceptadosBien`): `ElLlamadoSeVe`,
`LoAtendidoNoVuelve`.

**The board and the page of an order** (`Cocina_proofs`; `TableroAssumption`). What a
screen shows carries the version at which it was read. `TableroInv` says of every
copy, also of those that a request or a snapshot holds, that if it is of the last
version it is what the database has (`PasesFieles`, `TableroFiel`, `SeguidorFiel`), and
that what a screen was not told is still to be told, by a request that committed
or by a copy on its way, or is noted as something that failed to be told
(`TableroEnterado`, `SeguidorEnterado`). With nothing left to
tell these are `ElTableroEstaAlDia`, `ElSeguimientoEstaAlDia` and `LaColaEstaAlDia`. The
queue is kept as the place of each order, and not as a sequence.

**Menu** (`Gestion_proofs`; `CartaAssumption`). `TiposDeLaCarta`; then two invariants. For
`NoPisaLoAjeno`, whatever a page holds of an item, in its list, in an answer or under
its form, and that is not an exception, is not of a later version than the row, and
is the row when it is of the same one (`FichasFieles`). For `ArchivadaQuedaVacia`, no
write under way goes to a category that is archived or being counted, unless it is
in the history (`DestinosAbiertos`), the item of a restoration has not moved
(`SinMudanza`), and what was counted still holds (`CuentaVigente`). The proof found the
history of the model too narrow: of two writes about one item only the first was
noted, and with two writes and one item TLC shows that the second one may bring an
active item into an archived category. `EmpezarEscritura` now notes both (`DeAUno`).

**The diner's page** (`Gestion_proofs`; `ComensalAssumption`). `ComensalInv`: whatever names
an order, the page, an attempt in course or an answer, has the lines of that order
(`LineasPagina`, `LineasIntentos`), and an attempt in course has a screen that waits for
it, or an answer about it was lost (`EncargosBien`, `IntentosBien`, `PantallaBien`,
`AvisoBien`): `ElComensalPagaLoQueVe`, `LaOfertaEsSegura`.

**Reports** (`Gestion_proofs`; `ResumenAssumption`). `CobradoSeVe` is about what the report
shows, which an older calculation may write over. In `ResumenInv` the one that has the
lock is the one whose turn it is (`ElDelTurno`), its window reaches the payment that
asked for it (`VentanaAlcanza`), and what it has read contains every payment that
the report already shows and that was not taken back from a refund (`Firmes`,
`NoOlvida`). An approval never finds a calculation of its own payment, since one that
asked for it has its order paid (`PidioCobrada`): `LoCobradoQueda`.

**The map** (`Gestion_proofs`; `MapaAssumption`). A save that was checked has the row of
the restaurant, and what it is going to delete is there and free, or was opened
since (`RevisadoLibre`): `EnUsoNoSeBorra`. `MapaPleno` is about both sides of a save. On
the page, each table that it loaded is once on the map or among those to be deleted,
and the save that is on its way took the latter as they are (`Acorde`), so an answer
or an error leaves them once. A table that was added belongs to one page
(`CadaUnaLasSuyas`), is not twice in the same place (`Distintas`), and has one number on
the map, in what can be put back, in the save and in its row (`UnNumero`); if it has a
row, the answer that says so is on its way, or was lost (`Contadas`). Only after a
lost answer can it be created again, and then its number is taken, and the save
is refused: `ElMapaAcuerda`.

**Who waits for whom** (`Gestion_proofs`; `TrabasAssumption`). No row is held by two
transactions with locks that exclude each other (`Exclusivas`). Rows have a level
(`Nivel`): restaurant and payment, table, unpaid orders, items by their ids, queue,
promoted orders; but for the kinds in `SinOrden`, a transaction asks for them upwards
(`Sube`) and has only rows below what it will ask for (`DeAbajo`). Levels are not
enough in two places: orders are cancelled, or promoted, in any order, but
only by who has the table, or the queue (`Tras`); and an order that is going to be
promoted is not one that is being paid, because until it promotes a transaction has
only orders that wait for their payment (`Pendientes`). So whoever waits is below the
one it waits for, or at the same level, if the other is a close and it is not
(`EsperaSube`), and in a set that waits in a circle the highest one cannot be:
`CobrosSinTrabas`.

Both rest on `EnOrdenEs` and `EnLugaresEs`: a list in the order of a key has each
element of the set once, which needs that such a list exists (`Ordenable`). It is
proved without induction over an operator: among the subsets that cannot be listed
take one of the fewest elements (`Minimo`, from the library's well-founded
induction), take its greatest element away, list the rest and put it last.

**The stock on the screens** (`Jornada_proofs`; `JornadaAssumption`). `PaginaInv`: each
field of the form is what the page has of the server, or the last text that was
typed in it, whatever a load merges: `SeGuardaLoTecleado`, a property of steps. `JornadaInv`:
loads are numbered in the order in which they are asked for (`EnOrden`), and the last
one has all that its reader was announced (`UltimaAlDia`), or another one will be
asked for (`HabraCarga`); what is told of a sale without stock is in alert in the
database and in every load on its way (`SeRecuerda`): `LaVistaEstaAlDia`.

Type correctness (`TiposCorrectos`, `TiposDeLaCola`, `CfeTipos`, `PersonalTipos`), the
inductive invariants and what section 7 says are proved and are not properties of the runs, which are spent
on what is not proved or has a seeded defect to catch.

Only model-checked:

- liveness, which under fairness is beyond the prover: `PagoSeResuelve`,
  `CobroSeRegistra`, `TxTermina`, `TodoPagoSeResuelve`, `AltaTermina`;
- the violated properties.

What a recursive definition computes for every input would need induction over
data, which the provers cannot instantiate. No property of the project depends on
one: lists are described by what they contain, as above, and counters by what a
step adds to them.

## 21. Where the code and its documents disagree

Each of these is a run that fails; `PROJECT.json` quotes both sides.

- `doble`: a charge approved after its order was paid in cash is recorded as
  APROBADO and not marked for refund when the approval is the answer of the
  charge; only the notification's path marks it.
- `cierre`: the end of one diner's charge frees the table while another diner's is
  in progress, and the table can be closed over it.
- `retroceso`: two handlers of one payment may write in the other order than they
  consulted the gateway, and REEMBOLSADO goes back to APROBADO.
- `trabada`: a payment that goes from PENDIENTE straight to REEMBOLSADO leaves its
  table in EN_PROCESO_DE_PAGO for good.
- `ajeno`: the notification of an attempt that failed without a reference may be
  matched to the next attempt, and reject it.
- `cocina_retroceso`: `transicionar` checks the state it read and writes by id, so
  a second request may put a delivered order back to LISTO_PARA_ENTREGAR.
- `carta_pisa`: after the availability switch the page keeps the content it had with
  the version of the answer, and its form then writes over another one's edit.

These are exceptions that the properties had to state, each of them a narrower
truth than a comment of the code. They have no run of their own; dropping the
exception from the property shows the behaviour.

- *One document per payment.* «Reintentar no duplica: mismo id_externo»
  (`cfe/cfe.service.ts:19`, also `:117-118` and `conciliacion-cfe.service.ts:30-31`).
  The e-Ticket in place of an e-Factura has another id. If the e-Factura was issued
  and its answer lost, and the retry gets a 4xx, there are two; the same if the
  receptor is anonymised between two attempts (then with the same id, and the row
  says another type than the document).
- *The row and the account agree.* `usuarios.service.ts:652-654`, `:696` and `:840-843`
  say that a rollback keeps them so. It does when Keycloak fails; not when the
  transaction times out during the call, or its answer is lost, or the commit
  fails: then the account changed and the row did not (`incierta`).
- *«cambia el rol»* (`usuarios.service.ts:489`): the new role is added in Keycloak and
  the old one stays. `CuentaAcorde` asks that the account has the role of the row,
  and not that it has no other.
- *«mismo candado por tenant que UsuariosService, para no cruzarse con un alta de
  usuario»* (`plataforma/eliminacion-establecimiento.service.ts:64-65`): creating
  takes no lock.
- *«desde el próximo request […] 403»* (`suspension-establecimiento.service.ts:36-38`,
  `tenant-estado.service.ts:24-26`): a query that read before the change and stores
  after the drop answers for up to a term what was so before, with a single
  replica too.
- *«La recuperación es volver a correrlo»* (`aprovisionamiento.service.ts:91-92`): the kit is
  completed, but the password that the failed request generated was never shown.
  And two requests for a tenant at once, or a deletion meanwhile, may leave a kit
  marked as complete that is not (`solapados`).
- *Adjustments* write the quantity computed from a read without a lock: a sale in
  between is lost (`pisado`).
- *Alerts* (`alertas-pendientes.ts:9`, `:14-18`, `:62-64`): a call that comes while the
  previous one is being answered is removed by the end of that answer (`cruzada`); a
  snapshot shows the request of cash of a table in place of its later call, which
  nobody sees once the order is paid (`tapada`); with two requests of cash at one
  table one is marked as attended and the other comes back (`dudosa`); a snapshot
  that read before a charge shows the notice of an order that is paid.
- *Locks.* «en orden de id para no trabarse con otra transacción»
  (`stock/descuento-stock.service.ts`) holds between payments, and not with an order
  that is being made, whose lines share-lock the items in the order of the cart, nor
  with an adjustment. Two manual moves of one order, and a reservation with an
  e-Factura against a close, may also wait for each other (`SinOrden`). PostgreSQL
  aborts one of them.
- *Stock of the day.* A PATCH sends «por cada ítem, solo los campos que cambiaron»
  (`stock-jornada.utils.ts:103-104`). `guardar` compares the form of the last drawing
  (its closure, `useStockJornada.ts:103`) with the rows of a reference (`:101`), which
  the answer of a load changes at once (`:54-55`): if the save is pressed between that
  answer and its drawing, the quantity of before a sale is sent, and gives the unit
  back. The window is one task of the browser.
- *The bell.* The units sold without stock «se olvidan cuando el ítem sale de las
  alertas» (`stock.utils.ts:85-86`). An answer that read the item before the sale, and
  comes after the event, makes the bell forget them (`useAlertasStock.ts:48`) though
  the item is in alert since the sale; the server does not tell of them again.
- *Reports.* «El dashboard no depende del job para estar al día: cada pago aprobado
  recalcula su hora en el momento» (`configuracion-resumen-ventas.ts:13-14`): not when
  it is approved more than an hour after its creation, nor when a late approval
  confirms nothing, nor for a refund, nor when a late answer takes the refund back
  (`pagos-webhook.service.ts:234`; `retomadas`). The dishes of an order that was charged twice
  may be in neither of its hours until the job runs.
- *The diner's page.* A cart changed while its order is sent is shown, and then
  listed as paid, in place of the order (`MenuDigital.tsx:712`; `movidos`). A lost answer
  is told as «No se realizó ningún cargo: probá de nuevo» (`pago.utils.ts:230`) though a
  charge may be in course, against `PagoPedido.tsx:97-99` (`cruzados`). A 409 for stock or
  for a means of payment turned off leaves the page verifying with nothing to press.
  The retry with the same key that `pedidos.service.ts:126-128` describes is never
  sent. An order taken up late replaces a newer one, and a late answer of the notice
  of cash replaces the screen that is verifying a card payment.
- *The board.* «si falla, el KDS se corrige con el próximo cambio o al reconectar»
  (`pedidos/kds.gateway.ts:405-408`, about the queue): so it is, when the read fails
  (`FallarColaDelPase`); but a board that comes back when the queue was turned off
  meanwhile is told nothing, and keeps «En espera». A refused move replaces the board by
  its message until it is opened again, also after a copy arrives. When the answer of a
  commit is lost, a move that was done is told as an error to who asked for it, and to
  nobody else.
- *The tax office.* «dos corridas a la vez no lo cambian dos veces» (`estado-dgi.service.ts:47`)
  holds; but a run that ends between the commit and the count leaves a rejection that
  nobody announces (`sinContar`), and no later run looks at that row again.
- *The map.* «Carrera: entró un pedido entre el chequeo y el borrado»
  (`mesas/mesas.service.ts:351`) is caught by a foreign key; a table that was *opened*
  in between is not, and is deleted with its session (`entremedio`). «si falló, no se
  borró ninguna mesa» (`MapaMesasEditor.tsx:978-980`) is false when only the answer was
  lost, and a new table that is then numbered again is created twice (`dudosas`). The
  map stays editable during a save: a table removed then, when the save fails,
  disappears, and one put back is there twice (`toco`). The renewal of the token,
  every 15 minutes (`keycloak/realm-export.json:10`), loads the map again over edits
  that were not saved, which `MapaMesasEditor.tsx:313-314` avoids on a reconnection, and
  without forgetting the tables that were removed: they are on the map and to be
  deleted, the next save is refused (400), and then they are there twice. The number
  of a table that exists may be edited, and the save ignores it.

## 22. Not modelled

- Between the models: `Cocina` takes the confirmation of a payment as a
  transaction that may start at any time for an unpaid order; that it does so only
  when it is paid is `PrepagoReal`. `Pagos` takes the kitchen's states as one; that
  they only go forward is what `cocina_retroceso` refutes, and `Pagos` allows for
  it (`TransicionTardia`). `Stock` and `Cfe` take an approved payment in the same
  way, and `Avisos` a charge.
- The limit lowered, activated or turned off while transactions run: modelled in
  `Cocina` (any set of `Limites`), not in a run, since no safety property of the runs
  holds there: an order may be promoted with a limit read before the change.
  What does hold there, `EntraUnaVez`, is proved and is no run's property.
- The batch of the job of fiscal documents with several payments, and two requests
  of cash at one table, are written in the modules (`ARetomar`, `HayOtroPedido`) and
  not reached by the instances of the runs.
- The other screens (platform, staff, configuration, sign-in) ask, show and forget.
- Plexo, a second gateway, which is out of the product
  (`conciliacion-pagos.service.ts:56`); QR versions; the layout of one table alone and the states
  of a table set by hand; photos and order of the menu; the content of a receipt
  and its e-mail.
- Row-level security, signatures, tokens and roles: guards that refuse. The
  audit log, authentication, test cleanup and deployment: reading, formatting, or
  one insert in the transaction of what it records. They keep no state that two
  steps could disagree on.
- Most of the repository's lines are screens, styles of presentation, tests'
  tooling and DTOs, which have no state to model: the lines that the modules map
  are the services where state changes, and the parts of the screens that keep it.
