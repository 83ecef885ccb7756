------------------------------- MODULE Avisos -------------------------------
(***************************************************************************)
(* The alerts of the dining room: a table calls the waiter, or asks to pay *)
(* an order in cash.  The server keeps the alerts that nobody attended, in *)
(* memory, one per table; a request of cash is in the database too.  The   *)
(* screens of the staff keep a list of their own: events change it, and a  *)
(* snapshot replaces it.  A snapshot, and the answer of a waiter, read the *)
(* database and go on with what they read.                                 *)
(*                                                                         *)
(* The server is one process with one thread: what is between two awaits   *)
(* is one action.  The events reach a connected screen at once, in the     *)
(* order in which they were emitted.                                       *)
(***************************************************************************)
EXTENDS Naturals

CONSTANTS
  MesasSala,
  PedidosEfectivo, \* orders whose diners may ask to pay in cash
  MesaDe,          \* [PedidosEfectivo -> MesasSala]
  Pantallas,       \* sockets of waiters and administrators
  Respuestas,      \* answers to alerts that may be in progress at once
  Llamado,         \* the alert of a table that only calls
  Nada,            \* no alert
  MaxAlertas,      \* bound: alerts
  MaxCortes        \* bound: reconnections, restarts, expiries, failed reads

ASSUME AvisosAssumption ==
  /\ MesaDe \in [PedidosEfectivo -> MesasSala]
  /\ Llamado # Nada
  /\ PedidosEfectivo \cap {Llamado, Nada} = {}
  /\ MaxAlertas \in Nat /\ MaxCortes \in Nat

VARIABLES
  efectivo,   \* [PedidosEfectivo -> its state in the database]
  porAvisar,  \* what was committed and is still to be told
  pendientes, \* [MesasSala -> alert or Nada], in memory
  atendidos,  \* orders whose request was attended, in memory
  lista,      \* [Pantallas -> [MesasSala -> alert or Nada]]
  conexion,   \* [Pantallas -> [fase, leyo]]
  respuesta,  \* [Respuestas -> like SinRespuesta]
  debe,       \* history: tables that called, and that nobody attended
  aceptados,  \* history: orders whose request a waiter attended
  salvedad,   \* history: [kind -> tables that it happened to]
  usado       \* how much of each bound is used

avisosVars ==
  <<efectivo, porAvisar, pendientes, atendidos, lista, conexion, respuesta,
    debe, aceptados, salvedad, usado>>

-----------------------------------------------------------------------------
(* State *)

Avisos == {"solicitud", "cobro"} \X PedidosEfectivo \cup {"cierre"} \X MesasSala

\* leyo: the requests that the snapshot read.
SinConexion == [fase |-> "cortada", leyo |-> {}]

\* vio: what the waiter saw at the table.  pedido: what was read of it.
SinRespuesta == [fase |-> "libre", mesa |-> Nada, vio |-> Nada, pedido |-> Nada]

\* cruzada: an alert of the table came while another was being answered.
\* tapada: a snapshot showed a request of cash in place of its alert.
\* dudosa: two requests at once, or the read of an answer failed.
AvisosInit ==
  /\ efectivo = [p \in PedidosEfectivo |-> "impago"]
  /\ porAvisar = {}
  /\ pendientes = [m \in MesasSala |-> Nada]
  /\ atendidos = {}
  /\ lista = [s \in Pantallas |-> [m \in MesasSala |-> Nada]]
  /\ conexion = [s \in Pantallas |-> SinConexion]
  /\ respuesta = [r \in Respuestas |-> SinRespuesta]
  /\ debe = {}
  /\ aceptados = {}
  /\ salvedad = [cruzada |-> {}, tapada |-> {}, dudosa |-> {}]
  /\ usado = [alertas |-> 0, cortes |-> 0]

-----------------------------------------------------------------------------
(* Helpers *)

Solicitados(m) ==
  {p \in PedidosEfectivo : MesaDe[p] = m /\ efectivo[p] = "solicitado"}

\* Another order of the table is asked for, or is still on the way to, or in,
\* the memory of the server.
HayOtroPedido(p) ==
  \E o \in PedidosEfectivo \ {p} :
    /\ MesaDe[o] = MesaDe[p]
    /\ efectivo[o] = "solicitado" \/ pendientes[MesaDe[p]] = o
         \/ <<"solicitud", o>> \in porAvisar

EnSalon(s) == conexion[s].fase # "cortada"

\* Events to salon:<tenantId>.
MuestranTodas(m, a) ==
  lista' = [s \in Pantallas |->
    IF EnSalon(s) THEN [lista[s] EXCEPT ![m] = a] ELSE lista[s]]

\* llamado:resuelto
QuitanTodas(m) == MuestranTodas(m, Nada)

SinPedido(l, p) == [m \in MesasSala |-> IF l[m] = p THEN Nada ELSE l[m]]

\* pedido:nuevo
QuitanElPedido(p) ==
  lista' = [s \in Pantallas |-> IF EnSalon(s) THEN SinPedido(lista[s], p) ELSE lista[s]]

SeResponde(m) ==
  \/ \E r \in Respuestas : respuesta[r].mesa = m
  \/ <<"cierre", m>> \in porAvisar

Gastar(que, maximo) ==
  /\ usado[que] < maximo
  /\ usado' = [usado EXCEPT ![que] = @ + 1]

UnCorte == Gastar("cortes", MaxCortes)

Con(tipo, m) == [salvedad EXCEPT ![tipo] = @ \cup {m}]

-----------------------------------------------------------------------------
(* Alerts *)

\* emitirLlamado: it is kept, and then emitted.
EmitirLlamado(m, a) ==
  /\ pendientes' = [pendientes EXCEPT ![m] = a]
  /\ atendidos' = atendidos \ {a}
  /\ MuestranTodas(m, a)
  /\ debe' = debe \cup {m}
  /\ aceptados' = aceptados \ {a}
  /\ salvedad' = [salvedad EXCEPT
       !.cruzada = IF SeResponde(m) THEN @ \cup {m} ELSE @ \ {m},
       !.tapada = @ \ {m}]
  /\ UNCHANGED <<conexion, respuesta>>

LlamarMozo(m) ==
  /\ Gastar("alertas", MaxAlertas)
  /\ EmitirLlamado(m, Llamado)
  /\ UNCHANGED <<efectivo, porAvisar>>

\* solicitar: it is saved, and told if the last time is not too near.
SolicitarEfectivo(p) ==
  /\ efectivo[p] \in {"impago", "solicitado"}
  /\ Gastar("alertas", MaxAlertas)
  /\ efectivo' = [efectivo EXCEPT ![p] = "solicitado"]
  /\ porAvisar' = porAvisar \cup {<<"solicitud", p>>}
  /\ salvedad' = IF HayOtroPedido(p) THEN Con("dudosa", MesaDe[p]) ELSE salvedad
  /\ UNCHANGED <<pendientes, atendidos, lista, conexion, respuesta, debe, aceptados>>

AvisarSolicitud(p) ==
  /\ <<"solicitud", p>> \in porAvisar
  /\ porAvisar' = porAvisar \ {<<"solicitud", p>>}
  /\ EmitirLlamado(MesaDe[p], p)
  /\ UNCHANGED <<efectivo, usado>>

\* The order is paid, in cash or by card, and then goes to the kitchen.
Cobrar(p) ==
  /\ efectivo[p] = "solicitado"
  /\ efectivo' = [efectivo EXCEPT ![p] = "cobrado"]
  /\ porAvisar' = porAvisar \cup {<<"cobro", p>>}
  /\ UNCHANGED <<pendientes, atendidos, lista, conexion, respuesta, debe,
                 aceptados, salvedad, usado>>

\* emitirNuevoPedido
AvisarCobro(p) ==
  /\ <<"cobro", p>> \in porAvisar
  /\ porAvisar' = porAvisar \ {<<"cobro", p>>}
  /\ atendidos' = atendidos \ {p}
  /\ pendientes' = SinPedido(pendientes, p)
  /\ QuitanElPedido(p)
  /\ debe' = {m \in debe : pendientes[m] # p}
  /\ UNCHANGED <<efectivo, conexion, respuesta, aceptados, salvedad, usado>>

\* The table is closed: its unpaid orders are cancelled.
CerrarMesa(m) ==
  /\ Solicitados(m) # {} \/ pendientes[m] # Nada
  /\ efectivo' = [p \in PedidosEfectivo |->
       IF p \in Solicitados(m) THEN "cancelado" ELSE efectivo[p]]
  /\ porAvisar' = porAvisar \cup {<<"cierre", m>>}
  /\ UNCHANGED <<pendientes, atendidos, lista, conexion, respuesta, debe,
                 aceptados, salvedad, usado>>

\* emitirLlamadoResuelto
AvisarCierre(m) ==
  /\ <<"cierre", m>> \in porAvisar
  /\ porAvisar' = porAvisar \ {<<"cierre", m>>}
  /\ pendientes' = [pendientes EXCEPT ![m] = Nada]
  /\ atendidos' = {p \in atendidos : MesaDe[p] # m}
  /\ QuitanTodas(m)
  /\ debe' = debe \ {m}
  /\ aceptados' = {p \in aceptados : MesaDe[p] # m}
  /\ UNCHANGED <<efectivo, conexion, respuesta, salvedad, usado>>

-----------------------------------------------------------------------------
(* A waiter answers an alert *)

\* From a screen that shows it; the request takes its time.
Responder(r, s, m) ==
  /\ respuesta[r].fase = "libre"
  /\ EnSalon(s)
  /\ lista[s][m] # Nada
  /\ respuesta' = [respuesta EXCEPT ![r] =
       [SinRespuesta EXCEPT !.fase = "enviada", !.mesa = m, !.vio = lista[s][m]]]
  /\ UNCHANGED <<efectivo, porAvisar, pendientes, atendidos, lista, conexion,
                 debe, aceptados, salvedad, usado>>

\* resolver, of AlertasPendientes: the alert of the table goes, and its order
\* (or p) is noted as attended.
Quitar(m, p) ==
  LET pedido == IF pendientes[m] \in PedidosEfectivo THEN pendientes[m] ELSE p
  IN  /\ pendientes' = [pendientes EXCEPT ![m] = Nada]
      /\ atendidos' = atendidos \cup ({pedido} \cap PedidosEfectivo)

\* The screens are told, and the answer ends.  The history says that what the
\* waiter saw was attended.
Resuelto(r) ==
  LET m == respuesta[r].mesa
      cruzada == m \in salvedad.cruzada
  IN  /\ QuitanTodas(m)
      /\ respuesta' = [respuesta EXCEPT ![r] = SinRespuesta]
      /\ debe' = IF cruzada THEN debe ELSE debe \ {m}
      /\ aceptados' = IF cruzada \/ m \in salvedad.tapada THEN aceptados
                      ELSE aceptados \cup ({respuesta[r].vio} \cap PedidosEfectivo)

\* onResolverLlamado.  Without an order, the database is asked for one.
ResolverLlamado(r) ==
  LET m == respuesta[r].mesa
  IN  /\ respuesta[r].fase = "enviada"
      /\ Quitar(m, Nada)
      /\ IF pendientes[m] \in PedidosEfectivo
           THEN Resuelto(r)
           ELSE /\ respuesta' = [respuesta EXCEPT ![r].fase = "leer"]
                /\ debe' = IF m \in salvedad.cruzada THEN debe ELSE debe \ {m}
                /\ UNCHANGED <<lista, aceptados>>
      /\ UNCHANGED <<efectivo, porAvisar, conexion, salvedad, usado>>

\* One of the requests of the table, if there is any.
LeerDeLaMesa(r) ==
  /\ respuesta[r].fase = "leer"
  /\ \/ /\ \E p \in Solicitados(respuesta[r].mesa) :
             respuesta' = [respuesta EXCEPT ![r].fase = "marcar", ![r].pedido = p]
        /\ UNCHANGED <<lista, debe, aceptados>>
     \/ Solicitados(respuesta[r].mesa) = {} /\ Resuelto(r)
  /\ UNCHANGED <<efectivo, porAvisar, pendientes, atendidos, conexion, salvedad, usado>>

\* The failure is only logged.
FallarLectura(r) ==
  /\ respuesta[r].fase = "leer"
  /\ UnCorte
  /\ salvedad' = Con("dudosa", respuesta[r].mesa)
  /\ Resuelto(r)
  /\ UNCHANGED <<efectivo, porAvisar, pendientes, atendidos, conexion>>

\* Seeded defect: the order is not noted.
NoMarcar(r) ==
  /\ respuesta[r].fase = "marcar"
  /\ Resuelto(r)
  /\ UNCHANGED <<efectivo, porAvisar, pendientes, atendidos, conexion, salvedad, usado>>

\* marcarEfectivoAtendido, after the read.
MarcarAtendido(r) ==
  /\ respuesta[r].fase = "marcar"
  /\ Quitar(respuesta[r].mesa, respuesta[r].pedido)
  /\ Resuelto(r)
  /\ UNCHANGED <<efectivo, porAvisar, conexion, salvedad, usado>>

-----------------------------------------------------------------------------
(* Screens *)

\* A screen connects, or asks for the snapshot again.
Sincronizar(s) ==
  /\ conexion[s].fase \in {"cortada", "al_dia"}
  /\ UnCorte
  /\ conexion' = [conexion EXCEPT ![s].fase = "leyendo"]
  /\ UNCHANGED <<efectivo, porAvisar, pendientes, atendidos, lista, respuesta,
                 debe, aceptados, salvedad>>

Cortar(s) ==
  /\ EnSalon(s)
  /\ conexion' = [conexion EXCEPT ![s] = SinConexion]
  /\ UNCHANGED <<efectivo, porAvisar, pendientes, atendidos, lista, respuesta,
                 debe, aceptados, salvedad, usado>>

\* listarSolicitudesEfectivo
LeerSolicitudes(s) ==
  /\ conexion[s].fase = "leyendo"
  /\ conexion' = [conexion EXCEPT ![s] =
       [fase |-> "emitiendo", leyo |-> UNION {Solicitados(m) : m \in MesasSala}]]
  /\ UNCHANGED <<efectivo, porAvisar, pendientes, atendidos, lista, respuesta,
                 debe, aceptados, salvedad, usado>>

\* Seeded defect: what is in memory is left out of the snapshot.
SoloDeLaBase(s, m) == {p \in conexion[s].leyo \ atendidos : MesaDe[p] = m}

\* snapshot: the requests that were not attended, or else what is in memory.
\* Of several, one: which depends on their times, left out.
ParaLaMesa(s, m) ==
  LET suyos == {p \in conexion[s].leyo \ atendidos : MesaDe[p] = m}
  IN  IF suyos = {} THEN {pendientes[m]} ELSE suyos

EmitirSnapshot(s) ==
  /\ conexion[s].fase = "emitiendo"
  /\ \E l \in [MesasSala -> PedidosEfectivo \cup {Llamado, Nada}] :
       /\ \A m \in MesasSala :
            \/ l[m] \in ParaLaMesa(s, m)
            \/ ParaLaMesa(s, m) = {} /\ l[m] = Nada
       /\ lista' = [lista EXCEPT ![s] = l]
       /\ salvedad' = [salvedad EXCEPT !.tapada = @ \cup
            {m \in MesasSala : pendientes[m] \notin {Nada, l[m]} /\ l[m] # Nada}]
  /\ conexion' = [conexion EXCEPT ![s] = [fase |-> "al_dia", leyo |-> {}]]
  /\ UNCHANGED <<efectivo, porAvisar, pendientes, atendidos, respuesta, debe,
                 aceptados, usado>>

-----------------------------------------------------------------------------
(* The environment *)

Olvidado ==
  /\ pendientes' = [m \in MesasSala |-> Nada]
  /\ atendidos' = {}
  /\ debe' = {}
  /\ aceptados' = {}

\* VIGENCIA_ALERTA_MS: nobody waits any more.
VencerAlertas ==
  /\ UnCorte
  /\ Olvidado
  /\ UNCHANGED <<efectivo, porAvisar, lista, conexion, respuesta, salvedad>>

\* The process dies, and another one starts.
Reiniciar ==
  /\ UnCorte
  /\ Olvidado
  /\ porAvisar' = {}
  /\ conexion' = [s \in Pantallas |-> SinConexion]
  /\ respuesta' = [r \in Respuestas |-> SinRespuesta]
  /\ UNCHANGED <<efectivo, lista, salvedad>>

AvisosNext ==
  \/ \E m \in MesasSala : LlamarMozo(m) \/ CerrarMesa(m) \/ AvisarCierre(m)
  \/ \E p \in PedidosEfectivo :
       SolicitarEfectivo(p) \/ AvisarSolicitud(p) \/ Cobrar(p) \/ AvisarCobro(p)
  \/ \E r \in Respuestas :
       \/ \E s \in Pantallas, m \in MesasSala : Responder(r, s, m)
       \/ ResolverLlamado(r) \/ LeerDeLaMesa(r) \/ FallarLectura(r)
       \/ MarcarAtendido(r)
  \/ \E s \in Pantallas :
       Sincronizar(s) \/ Cortar(s) \/ LeerSolicitudes(s) \/ EmitirSnapshot(s)
  \/ VencerAlertas \/ Reiniciar

AvisosSpec == AvisosInit /\ [][AvisosNext]_avisosVars

-----------------------------------------------------------------------------
(* Properties *)

\* A table that called, and that no waiter has attended, is on the list of
\* every screen that is up to date («el snapshot que se manda al conectar
\* incluye todas las alertas pendientes», alertas-pendientes.ts:9), unless it
\* called again while it was being answered, or a snapshot covered its call.
AlertaVisible ==
  \A s \in Pantallas, m \in debe \ (salvedad.cruzada \cup salvedad.tapada) :
    conexion[s].fase = "al_dia" => lista[s][m] # Nada

\* A request of cash that a waiter attended does not come back to a screen
\* that is up to date while the order waits to be paid
\* (alertas-pendientes.ts:14-18), unless the table has two, or a read failed.
AceptadoNoVuelve ==
  \A s \in Pantallas, p \in aceptados :
    conexion[s].fase = "al_dia" /\ lista[s][MesaDe[p]] = p
      => efectivo[p] # "solicitado" \/ MesaDe[p] \in salvedad.dudosa

=============================================================================
