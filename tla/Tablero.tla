------------------------------ MODULE Tablero -------------------------------
(***************************************************************************)
(* What the kitchen's board and the page of a diner show of the orders.    *)
(* Each one begins with a copy that the server reads for it, and goes on   *)
(* with the events that follow each change: they are emitted after the     *)
(* commit, by whoever made the change, and the state of the queue is read  *)
(* again and emitted after that.  Reading takes time: others commit and    *)
(* emit between a read and the emission of what was read.  It may also     *)
(* fail, and then nothing is told; a change that is refused is told only   *)
(* to the board that asked for it, which then shows an error message in    *)
(* place of the orders until it is opened again.                           *)
(*                                                                         *)
(* The server is one process with one thread: what is between two awaits   *)
(* is one action.  A connection delivers in order or is cut, so an event   *)
(* reaches a connected screen when it is emitted.  How the queue is served *)
(* is Cocina: here a change and the promotions that it causes commit       *)
(* together, and the read of the queue is one step.                        *)
(*                                                                         *)
(* v is history: how many changes there had been of the order, or of any   *)
(* order and the limit, when what a screen shows was read.                 *)
(***************************************************************************)
EXTENDS Naturals, FiniteSets

CONSTANTS
  Ordenes,
  Pases,        \* requests that change an order, or the limit, at once
  Tableros,     \* sockets of the staff with a board
  Seguidores,   \* pages of diners
  Sigue,        \* [Seguidores -> the order that each one follows]
  LimitesCola,  \* limits that the administrator may set; SinCola turns it off
  SinCola,
  MaxCambiosOrden, \* bound: changes
  MaxVistas        \* bound: boards opened again, cuts, restarts, and failures

ASSUME TableroAssumption ==
  /\ IsFiniteSet(Ordenes)
  /\ Sigue \in [Seguidores -> Ordenes]
  /\ SinCola \notin Nat
  /\ LimitesCola \subseteq (Nat \ {0}) \cup {SinCola}
  /\ MaxCambiosOrden \in Nat /\ MaxVistas \in Nat

VARIABLES
  etapa,      \* [Ordenes -> state in the database]
  version,    \* history: [Ordenes -> changes of it]
  llegada,    \* encoladoEn: [Ordenes -> its place among the paid ones, or 0]
  tope,       \* limit of the kitchen, or SinCola
  hechos,     \* history: changes of any of these, and one: 0 is before any read
  pase,       \* [Pases -> like SinPase]
  tablero,    \* [Tableros -> like TableroNuevo]
  seguidor,   \* [Seguidores -> like SeguidorNuevo]
  vistas      \* how much of MaxVistas is used

salonVars == <<etapa, version, llegada, tope, hechos>>
tableroVars == <<salonVars, pase, tablero, seguidor, vistas>>

-----------------------------------------------------------------------------
(* State *)

\* TRANSICIONES_KDS
Transiciones(e) ==
  CASE e = "RECIBIDO" -> {"EN_PREPARACION"}
    [] e = "EN_PREPARACION" -> {"LISTO_PARA_ENTREGAR"}
    [] e = "LISTO_PARA_ENTREGAR" -> {"ENTREGADO"}
    [] OTHER -> {}

\* nuevo: the order that was just paid.  eventos: what is to be emitted.
\* forzar: the queue is told even if it is off.  cola: what was read of it.
\* de: the board that asked, while its connection is the one it asked over.
SinPase ==
  [fase |-> "libre", de |-> {}, orden |-> {}, a |-> "", eventos |-> {},
   forzar |-> FALSE, cola |-> {}]

\* A copy that the server reads for a screen, in two parts.
SinFoto == [fase |-> "nada", leido |-> {}]

FotoPedida == [fase |-> "pedida", leido |-> {}]

SinDato == [estado |-> "fuera", v |-> 0]

ColaApagada == [activa |-> FALSE, espera |-> <<>>, enPreparacion |-> 0]

SinCopiaDeCola == [cola |-> ColaApagada, v |-> 0]

\* alConectar, sync: the copies on their way to it.
\* error: loadError, a message is shown in place of the orders.
\* visto, colaVista: history, the newest that reached it.  perdido, colaPerdida:
\* history, the newest that the server failed to tell it.  sinCopia: history, the
\* copy that it asked for could not be read.
TableroNuevo(conectado) ==
  [conectado |-> conectado, montado |-> FALSE, cargando |-> TRUE, error |-> FALSE,
   alConectar |-> SinFoto, sync |-> SinFoto,
   lista |-> [o \in Ordenes |-> SinDato], cola |-> SinCopiaDeCola,
   visto |-> [o \in Ordenes |-> 0], colaVista |-> 0,
   perdido |-> [o \in Ordenes |-> 0], colaPerdida |-> 0, sinCopia |-> FALSE]

\* estado, lugar: what the page shows.  perdido, lugarPerdido: history, the
\* newest that was emitted while it was not yet in the room of its order, or
\* that the server failed to tell it.
SeguidorNuevo ==
  [fase |-> "fuera", leido |-> {}, estado |-> [estado |-> "RECIBIDO", v |-> 0],
   lugar |-> [puesto |-> 0, v |-> 0], visto |-> 0, perdido |-> 0, lugarVisto |-> 0,
   lugarPerdido |-> 0]

TableroInit ==
  /\ etapa = [o \in Ordenes |-> "PENDIENTE_PAGO"]
  /\ version = [o \in Ordenes |-> 0]
  /\ llegada = [o \in Ordenes |-> 0]
  /\ tope \in LimitesCola
  /\ hechos = 1
  /\ pase = [h \in Pases |-> SinPase]
  /\ tablero = [w \in Tableros |-> TableroNuevo(FALSE)]
  /\ seguidor = [d \in Seguidores |-> SeguidorNuevo]
  /\ vistas = 0

-----------------------------------------------------------------------------
(* Helpers *)

Maximo(m, n) == IF m > n THEN m ELSE n

\* The states with which listarPendientes shows an order.
EN_EL_TABLERO == {"RECIBIDO", "EN_PREPARACION", "LISTO_PARA_ENTREGAR"}

Cocinando(es) == {o \in Ordenes : es[o] = "EN_PREPARACION"}

\* The orders that wait, each with its place in the queue.
Esperando(es, ls) ==
  LET espera == {o \in Ordenes : es[o] = "RECIBIDO"}
  IN  [o \in espera |-> Cardinality({q \in espera : ls[q] <= ls[o]})]

\* completarCapacidad
Promovidas(es, ls, l) ==
  IF l = SinCola THEN {}
  ELSE LET espera == Esperando(es, ls)
       IN  {o \in DOMAIN espera : espera[o] + Cardinality(Cocinando(es)) <= l}

\* estadoDeLaCola
FotoDeLaCola ==
  IF tope = SinCola THEN ColaApagada
  ELSE [activa |-> TRUE, espera |-> Esperando(etapa, llegada),
        enPreparacion |-> Cardinality(Cocinando(etapa))]

Puesto(espera, o) == IF o \in DOMAIN espera THEN espera[o] ELSE 0

\* Seeded defect: the room is joined once the copy was sent.
EnLaSalaConFoto(w) ==
  tablero[w].conectado /\ tablero[w].alConectar.fase \notin {"pedida", "leida"}

\* The client has the rooms of the staff, or of the order it follows.
EnLaSala(w) == tablero[w].conectado

SigueA(d, o) == Sigue[d] = o /\ seguidor[d].fase \in {"sigue", "cola", "colaLeida"}

UnaVista == vistas < MaxVistas /\ vistas' = vistas + 1

-----------------------------------------------------------------------------
(* What a screen does with what it receives *)

\* alPedidoNuevo, alPedidoActualizado
Mostrada(ficha, e) ==
  CASE e.nuevo -> IF ficha.estado = "fuera" THEN [estado |-> e.estado, v |-> e.v] ELSE ficha
    [] ~e.nuevo /\ e.estado = "ENTREGADO" -> [estado |-> "fuera", v |-> e.v]
    [] OTHER -> IF ficha.estado = "fuera" THEN ficha ELSE [estado |-> e.estado, v |-> e.v]

De(eventos, o) == {e \in eventos : e.orden = o}

ConEventos(t, eventos) ==
  [t EXCEPT
    !.lista = [o \in Ordenes |->
      IF De(eventos, o) = {} THEN @[o]
      ELSE Mostrada(@[o], CHOOSE e \in De(eventos, o) : TRUE)],
    !.visto = [o \in Ordenes |->
      IF De(eventos, o) = {} THEN @[o]
      ELSE Maximo(@[o], (CHOOSE e \in De(eventos, o) : TRUE).v)]]

\* alColaActualizada
ConCola(t, copia) ==
  [t EXCEPT !.cola = copia, !.colaVista = Maximo(@, copia.v)]

\* alSnapshotPedidos
ConFoto(t, fichas) ==
  [t EXCEPT
    !.cargando = FALSE,
    !.lista = [o \in Ordenes |->
      IF fichas[o].estado \in EN_EL_TABLERO THEN fichas[o]
      ELSE [fichas[o] EXCEPT !.estado = "fuera"]],
    !.visto = [o \in Ordenes |-> Maximo(@[o], fichas[o].v)]]

\* alError
ConMensaje(t) == [t EXCEPT !.error = TRUE, !.cargando = FALSE]

\* Whoever is not mounted has no listeners.
SiMontado(t, con) == IF t.montado THEN con ELSE t

\* What a board is never told of: the events of a change, or the queue.
SinEventos(t, eventos) ==
  [t EXCEPT !.perdido = [o \in Ordenes |->
     IF De(eventos, o) = {} THEN @[o]
     ELSE Maximo(@[o], (CHOOSE e \in De(eventos, o) : TRUE).v)]]

SinLaCola(t) == [t EXCEPT !.colaPerdida = hechos]

ConEstado(s, ficha) ==
  [s EXCEPT !.estado = ficha, !.visto = Maximo(@, ficha.v)]

ConLugar(s, puesto, v) ==
  [s EXCEPT !.lugar = [puesto |-> puesto, v |-> v], !.lugarVisto = Maximo(@, v)]

-----------------------------------------------------------------------------
(* Changes, committed and then told *)

\* What a transaction that leaves es, ls and l commits: it also promotes, and
\* propias is what it changed itself.
Guarda(h, es, ls, l, propias, promueve, nueva, forzar) ==
  LET promovidas == IF promueve THEN Promovidas(es, ls, l) ELSE {}
      quedan == [o \in Ordenes |-> IF o \in promovidas THEN "EN_PREPARACION" ELSE es[o]]
      cambiadas == propias \cup promovidas
      versiones == [o \in Ordenes |-> IF o \in cambiadas THEN version[o] + 1 ELSE version[o]]
  IN  /\ hechos <= MaxCambiosOrden
      /\ hechos' = hechos + 1
      /\ etapa' = quedan
      /\ llegada' = ls
      /\ tope' = l
      /\ version' = versiones
      /\ pase' = [pase EXCEPT ![h] = [SinPase EXCEPT
           !.fase = "hecho", !.de = pase[h].de, !.forzar = forzar,
           !.eventos = {[orden |-> o, nuevo |-> o \in nueva, estado |-> quedan[o],
                         v |-> versiones[o]] : o \in cambiadas}]]
      /\ UNCHANGED <<tablero, seguidor, vistas>>

\* confirmarPagoEnTx, in the transaction of a payment.
ConfirmarOrden(h, o) ==
  /\ pase[h].fase = "libre"
  /\ etapa[o] = "PENDIENTE_PAGO"
  /\ LET ultima == Cardinality({q \in Ordenes : llegada[q] > 0}) + 1
     IN  Guarda(h, [etapa EXCEPT ![o] = "RECIBIDO"], [llegada EXCEPT ![o] = ultima], tope,
                {o}, TRUE, {o}, FALSE)

\* onTransicion: transicionar reads the order and checks the transition.  It is
\* asked by one of the boards, or by another one (de is empty).
PedirTransicion(h, de, o, a) ==
  /\ pase[h].fase = "libre"
  /\ \A w \in de : tablero[w].conectado
  /\ a \in Transiciones(etapa[o])
  /\ pase' = [pase EXCEPT
       ![h] = [SinPase EXCEPT !.fase = "leyo", !.de = de, !.orden = {o}, !.a = a]]
  /\ UNCHANGED <<salonVars, tablero, seguidor, vistas>>

\* It is refused as it is read: the order is in another state by now, the
\* account has no row, or the read failed.
RechazarAlLeer(w) ==
  /\ tablero[w].conectado
  /\ tablero[w].montado
  /\ UnaVista
  /\ tablero' = [tablero EXCEPT ![w] = ConMensaje(@)]
  /\ UNCHANGED <<salonVars, pase, seguidor>>

NoHayLugar(h) ==
  /\ pase[h].a = "EN_PREPARACION"
  /\ tope # SinCola
  /\ Cardinality(Cocinando(etapa)) >= tope

\* It writes by id, whatever the order is by now.
GuardarTransicion(h) ==
  /\ pase[h].fase = "leyo"
  /\ ~NoHayLugar(h)
  /\ Guarda(h, [o \in Ordenes |-> IF o \in pase[h].orden THEN pase[h].a ELSE etapa[o]],
            llegada, tope, pase[h].orden, pase[h].a = "LISTO_PARA_ENTREGAR", {}, FALSE)

\* What the boards are told of a request that failed.
TrasRechazo(h, t) ==
  [w \in Tableros |-> IF w \in pase[h].de THEN SiMontado(t[w], ConMensaje(t[w])) ELSE t[w]]

\* The kitchen is full, or the transaction failed.
RechazarTransicion(h) ==
  /\ pase[h].fase = "leyo"
  /\ tablero' = TrasRechazo(h, tablero)
  /\ pase' = [pase EXCEPT ![h] = SinPase]
  /\ UNCHANGED <<salonVars, seguidor, vistas>>

\* ConfiguracionEstablecimientoService.actualizar
CambiarTope(h, l) ==
  /\ pase[h].fase = "libre"
  /\ l \in LimitesCola \ {tope}
  /\ Guarda(h, etapa, llegada, l, {}, TRUE, {}, TRUE)

\* Seeded defect: the promoted orders are not told.
SoloLaPropia(h) ==
  {e \in pase[h].eventos : e.nuevo \/ Cardinality(pase[h].eventos) = 1}

AEmitir(h) == pase[h].eventos

\* emitirNuevoPedido, emitirActualizacionPedido, emitirPedidoActualizado: all
\* the events of a change, without an await.
EmitirCambios(h) ==
  /\ pase[h].fase = "hecho"
  /\ tablero' = [w \in Tableros |->
       IF EnLaSala(w) THEN SiMontado(tablero[w], ConEventos(tablero[w], AEmitir(h)))
       ELSE tablero[w]]
  /\ seguidor' = [d \in Seguidores |->
       LET suyos == De(AEmitir(h), Sigue[d])
           e == CHOOSE x \in suyos : TRUE
       IN  CASE suyos # {} /\ SigueA(d, Sigue[d]) ->
                  ConEstado(seguidor[d], [estado |-> e.estado, v |-> e.v])
             [] suyos # {} /\ seguidor[d].fase = "leido" ->
                  [seguidor[d] EXCEPT !.perdido = Maximo(@, e.v)]
             [] OTHER -> seguidor[d]]
  /\ pase' = [pase EXCEPT ![h].fase = "emitido", ![h].de = {}, ![h].eventos = {}]
  /\ UNCHANGED <<salonVars, vistas>>

\* The change commits and its answer is lost: for whoever made it, it failed.
\* Nobody is told of it, nor of the queue.
PerderRespuesta(h) ==
  /\ pase[h].fase = "hecho"
  /\ UnaVista
  /\ tablero' = TrasRechazo(h, [w \in Tableros |->
       IF EnLaSala(w)
         THEN SiMontado(tablero[w], SinLaCola(SinEventos(tablero[w], pase[h].eventos)))
         ELSE tablero[w]])
  /\ seguidor' = [d \in Seguidores |->
       LET suyos == De(pase[h].eventos, Sigue[d])
           e == CHOOSE x \in suyos : TRUE
       IN  IF seguidor[d].fase \in {"fuera", "pide"} THEN seguidor[d]
           ELSE [seguidor[d] EXCEPT
                  !.perdido = IF suyos = {} THEN @ ELSE Maximo(@, e.v),
                  !.lugarPerdido = hechos]]
  /\ pase' = [pase EXCEPT ![h] = SinPase]
  /\ UNCHANGED salonVars

\* Seeded defect: the queue is told only while somebody waits.
SoloSiCambiaLaEspera(h) ==
  /\ pase[h].fase = "emitido"
  /\ pase' = [pase EXCEPT
       ![h] = IF tope # SinCola /\ (pase[h].forzar \/ DOMAIN Esperando(etapa, llegada) # {})
                THEN [@ EXCEPT !.fase = "colaLeida", !.cola = [cola |-> FotoDeLaCola, v |-> hechos]]
                ELSE SinPase]
  /\ UNCHANGED <<salonVars, tablero, seguidor, vistas>>

\* avisarEstadoCola
LeerColaDelPase(h) ==
  /\ pase[h].fase = "emitido"
  /\ pase' = [pase EXCEPT
       ![h] = IF tope # SinCola \/ pase[h].forzar
                THEN [@ EXCEPT !.fase = "colaLeida", !.cola = [cola |-> FotoDeLaCola, v |-> hechos]]
                ELSE SinPase]
  /\ UNCHANGED <<salonVars, tablero, seguidor, vistas>>

\* Its catch: the boards stay as they were until the next change, or until they
\* connect again.
FallarColaDelPase(h) ==
  /\ pase[h].fase = "emitido"
  /\ UnaVista
  /\ tablero' = [w \in Tableros |->
       IF EnLaSala(w) THEN SiMontado(tablero[w], SinLaCola(tablero[w])) ELSE tablero[w]]
  /\ seguidor' = [d \in Seguidores |->
       IF SigueA(d, Sigue[d]) THEN [seguidor[d] EXCEPT !.lugarPerdido = hechos]
       ELSE seguidor[d]]
  /\ pase' = [pase EXCEPT ![h] = SinPase]
  /\ UNCHANGED salonVars

\* emitirEstadoCola
EmitirCola(h) ==
  LET copia == pase[h].cola IN
  /\ pase[h].fase = "colaLeida"
  /\ tablero' = [w \in Tableros |->
       IF EnLaSala(w) THEN SiMontado(tablero[w], ConCola(tablero[w], copia)) ELSE tablero[w]]
  /\ seguidor' = [d \in Seguidores |->
       IF SigueA(d, Sigue[d]) /\ Sigue[d] \in DOMAIN copia.cola.espera
         THEN ConLugar(seguidor[d], Puesto(copia.cola.espera, Sigue[d]), copia.v)
         ELSE seguidor[d]]
  /\ pase' = [pase EXCEPT ![h] = SinPase]
  /\ UNCHANGED <<salonVars, vistas>>

-----------------------------------------------------------------------------
(* A board *)

\* handleConnection: it joins the rooms, and enviarSnapshot begins.
ConectarTablero(w) ==
  /\ ~tablero[w].conectado
  /\ tablero' = [tablero EXCEPT
       ![w].conectado = TRUE, ![w].alConectar = FotoPedida, ![w].sinCopia = FALSE,
       ![w].perdido = [o \in Ordenes |-> 0], ![w].colaPerdida = 0]
  /\ UNCHANGED <<salonVars, pase, seguidor, vistas>>

\* The board is opened over the socket that the staff's pages share; if it is
\* connected already, it asks for a copy (pedidos:sync).  The copy that an
\* earlier board asked for is not on its way any more.
Montar(w) ==
  /\ ~tablero[w].montado
  /\ tablero[w].sync = SinFoto
  /\ tablero' = [tablero EXCEPT
       ![w].montado = TRUE, ![w].sync = IF tablero[w].conectado THEN FotoPedida ELSE SinFoto]
  /\ UNCHANGED <<salonVars, pase, seguidor, vistas>>

\* What it had is gone; the socket stays.
Desmontar(w) ==
  /\ tablero[w].montado
  /\ UnaVista
  /\ tablero' = [tablero EXCEPT
       ![w] = [TableroNuevo(@.conectado) EXCEPT !.alConectar = tablero[w].alConectar,
                                               !.sync = tablero[w].sync]]
  /\ UNCHANGED <<salonVars, pase, seguidor>>

\* What was on its way is lost, the answer to what it asked too; the board keeps
\* what it shows.
Cortado(t) == [t EXCEPT !.conectado = FALSE, !.alConectar = SinFoto, !.sync = SinFoto]

SinAquien(w) == [h \in Pases |-> [pase[h] EXCEPT !.de = @ \ {w}]]

\* A cut, or a token renewed.
CortarTablero(w) ==
  /\ tablero[w].conectado
  /\ UnaVista
  /\ tablero' = [tablero EXCEPT ![w] = Cortado(@)]
  /\ pase' = SinAquien(w)
  /\ UNCHANGED <<salonVars, seguidor>>

\* The server ends the connection, and says why: the session expired, or the
\* copy could not be read as it connected.
CerrarTablero(w) ==
  /\ tablero[w].conectado
  /\ UnaVista
  /\ tablero' = [tablero EXCEPT ![w] = Cortado(SiMontado(@, ConMensaje(@)))]
  /\ pase' = SinAquien(w)
  /\ UNCHANGED <<salonVars, seguidor>>

\* listarPendientes
LeerPedidos(w, c) ==
  /\ tablero[w][c].fase = "pedida"
  /\ tablero' = [tablero EXCEPT ![w][c] =
       [fase |-> "leida",
        leido |-> [o \in Ordenes |-> [estado |-> etapa[o], v |-> version[o]]]]]
  /\ UNCHANGED <<salonVars, pase, seguidor, vistas>>

\* pedidos:sync has no catch, and the board does not listen to the exception.
FallarCopia(w) ==
  /\ tablero[w].sync.fase = "pedida"
  /\ UnaVista
  /\ tablero' = [tablero EXCEPT ![w].sync = SinFoto, ![w].sinCopia = @ \/ tablero[w].montado]
  /\ UNCHANGED <<salonVars, pase, seguidor>>

EmitirPedidos(w, c) ==
  /\ tablero[w][c].fase = "leida"
  /\ tablero' = [tablero EXCEPT ![w] =
       [SiMontado(@, ConFoto(@, @[c].leido)) EXCEPT ![c] = [fase |-> "cola", leido |-> {}]]]
  /\ UNCHANGED <<salonVars, pase, seguidor, vistas>>

\* enviarEstadoCola: a queue that is off is not told.
LeerColaDeLaFoto(w, c) ==
  /\ tablero[w][c].fase = "cola"
  /\ tablero' = [tablero EXCEPT ![w][c] =
       IF tope = SinCola THEN SinFoto
       ELSE [fase |-> "colaLeida", leido |-> [cola |-> FotoDeLaCola, v |-> hechos]]]
  /\ UNCHANGED <<salonVars, pase, seguidor, vistas>>

\* Its catch: the orders were told already.
FallarColaDeLaFoto(w, c) ==
  /\ tablero[w][c].fase = "cola"
  /\ UnaVista
  /\ tablero' = [tablero EXCEPT ![w] = [SiMontado(@, SinLaCola(@)) EXCEPT ![c] = SinFoto]]
  /\ UNCHANGED <<salonVars, pase, seguidor>>

EmitirColaDeLaFoto(w, c) ==
  /\ tablero[w][c].fase = "colaLeida"
  /\ tablero' = [tablero EXCEPT ![w] =
       [SiMontado(@, ConCola(@, @[c].leido)) EXCEPT ![c] = SinFoto]]
  /\ UNCHANGED <<salonVars, pase, seguidor, vistas>>

-----------------------------------------------------------------------------
(* The page of a diner *)

\* SeguimientoPedido, on a page that shows that the order was paid: it connects
\* and asks to follow it (pedido:seguir).
PedirSeguimiento(d) ==
  /\ seguidor[d].fase = "fuera"
  /\ etapa[Sigue[d]] # "PENDIENTE_PAGO"
  /\ seguidor' = [seguidor EXCEPT ![d].fase = "pide"]
  /\ UNCHANGED <<salonVars, pase, tablero, vistas>>

CortarSeguidor(d) ==
  /\ seguidor[d].fase # "fuera"
  /\ UnaVista
  /\ seguidor' = [seguidor EXCEPT ![d].fase = "fuera", ![d].leido = {}]
  /\ UNCHANGED <<salonVars, pase, tablero>>

\* obtenerResumen
LeerResumen(d) ==
  /\ seguidor[d].fase = "pide"
  /\ seguidor' = [seguidor EXCEPT ![d].fase = "leido",
       ![d].leido = [estado |-> etapa[Sigue[d]], v |-> version[Sigue[d]]]]
  /\ UNCHANGED <<salonVars, pase, tablero, vistas>>

\* It is told that the order is not found, and does not listen to that: it stays
\* out until it asks again.
FallarResumen(d) ==
  /\ seguidor[d].fase = "pide"
  /\ UnaVista
  /\ seguidor' = [seguidor EXCEPT ![d].fase = "fuera"]
  /\ UNCHANGED <<salonVars, pase, tablero>>

\* It joins the room of the order and is told what was read.
UnirSeguidor(d) ==
  /\ seguidor[d].fase = "leido"
  /\ seguidor' = [seguidor EXCEPT ![d] =
       [ConEstado(@, @.leido) EXCEPT
          !.fase = IF seguidor[d].leido.estado = "RECIBIDO" THEN "cola" ELSE "sigue",
          !.leido = {}]]
  /\ UNCHANGED <<salonVars, pase, tablero, vistas>>

\* The place of its order in the queue.
LeerLugar(d) ==
  /\ seguidor[d].fase = "cola"
  /\ seguidor' = [seguidor EXCEPT
       ![d].fase = "colaLeida",
       ![d].leido = [puesto |-> Puesto(FotoDeLaCola.espera, Sigue[d]), v |-> hechos]]
  /\ UNCHANGED <<salonVars, pase, tablero, vistas>>

FallarLugar(d) ==
  /\ seguidor[d].fase = "cola"
  /\ UnaVista
  /\ seguidor' = [seguidor EXCEPT ![d].fase = "sigue", ![d].lugarPerdido = hechos]
  /\ UNCHANGED <<salonVars, pase, tablero>>

DarLugar(d) ==
  LET leido == seguidor[d].leido IN
  /\ seguidor[d].fase = "colaLeida"
  /\ seguidor' = [seguidor EXCEPT ![d] =
       [IF leido.puesto > 0 THEN ConLugar(@, leido.puesto, leido.v) ELSE @ EXCEPT
          !.fase = "sigue", !.leido = {}]]
  /\ UNCHANGED <<salonVars, pase, tablero, vistas>>

-----------------------------------------------------------------------------
\* The process restarts: connections are cut, and nobody tells what was
\* committed and not yet emitted.
ReiniciarServidor ==
  /\ UnaVista
  /\ pase' = [h \in Pases |-> SinPase]
  /\ tablero' = [w \in Tableros |-> Cortado(tablero[w])]
  /\ seguidor' = [d \in Seguidores |-> [seguidor[d] EXCEPT !.fase = "fuera", !.leido = {}]]
  /\ UNCHANGED salonVars

TableroNext ==
  \/ \E h \in Pases :
       \/ \E o \in Ordenes : ConfirmarOrden(h, o)
       \/ \E o \in Ordenes, de \in {{}} \cup {{w} : w \in Tableros} :
            \E a \in Transiciones(etapa[o]) : PedirTransicion(h, de, o, a)
       \/ GuardarTransicion(h) \/ RechazarTransicion(h)
       \/ \E l \in LimitesCola : CambiarTope(h, l)
       \/ EmitirCambios(h) \/ PerderRespuesta(h)
       \/ LeerColaDelPase(h) \/ FallarColaDelPase(h) \/ EmitirCola(h)
  \/ \E w \in Tableros :
       \/ ConectarTablero(w) \/ Montar(w) \/ Desmontar(w) \/ CortarTablero(w)
       \/ CerrarTablero(w) \/ RechazarAlLeer(w) \/ FallarCopia(w)
       \/ \E c \in {"alConectar", "sync"} :
            \/ LeerPedidos(w, c) \/ EmitirPedidos(w, c)
            \/ LeerColaDeLaFoto(w, c) \/ FallarColaDeLaFoto(w, c) \/ EmitirColaDeLaFoto(w, c)
  \/ \E d \in Seguidores :
       \/ PedirSeguimiento(d) \/ CortarSeguidor(d) \/ LeerResumen(d) \/ UnirSeguidor(d)
       \/ FallarResumen(d) \/ LeerLugar(d) \/ FallarLugar(d) \/ DarLugar(d)
  \/ ReiniciarServidor

TableroSpec == TableroInit /\ [][TableroNext]_tableroVars

-----------------------------------------------------------------------------
(* Properties *)

\* Nobody has anything left to tell.
NadieAvisa == \A h \in Pases : pase[h].fase \in {"libre", "leyo"}

\* Connected, with no copy on its way, and with the one it asked for.
TableroQuieto(w) ==
  /\ NadieAvisa
  /\ tablero[w].conectado /\ tablero[w].montado /\ ~tablero[w].sinCopia
  /\ tablero[w].alConectar = SinFoto /\ tablero[w].sync = SinFoto

\* Once everything was told, a board that is connected was told the last state
\* of every order, whatever the changes, cuts, restarts and copies that crossed,
\* unless the answer of the commit of that change was lost since it connected.
\* If nothing older came after it, that state is what it shows: the order is on
\* the board while the kitchen has it, and with its state (KdsBoard, BL-65);
\* except a board that was told of an error, which shows only that.
TableroAlDia ==
  \A w \in Tableros : TableroQuieto(w) =>
    /\ ~tablero[w].cargando
    /\ \A o \in Ordenes :
         LET ficha == tablero[w].lista[o] IN
         /\ version[o] \in {tablero[w].visto[o], tablero[w].perdido[o]}
         /\ ficha.v = version[o] /\ ~tablero[w].error =>
              ficha.estado = IF etapa[o] \in {"PENDIENTE_PAGO", "ENTREGADO"} THEN "fuera"
                             ELSE etapa[o]

SeguidorQuieto(d) == NadieAvisa /\ seguidor[d].fase = "sigue"

\* The same of the page of a diner: it was told the last state of its order,
\* unless that was emitted between the read of pedido:seguir and its join, or the
\* answer of its commit was lost; and shows it, unless something older came
\* after it.
SeguimientoAlDia ==
  \A d \in Seguidores : SeguidorQuieto(d) =>
    LET ultima == version[Sigue[d]] IN
    /\ ultima \in {seguidor[d].visto, seguidor[d].perdido}
    /\ seguidor[d].estado.v = ultima => seguidor[d].estado.estado = etapa[Sigue[d]]

\* While the queue is on, whoever shows it was told how it is, unless reading it
\* failed after the last change, or as it connected («el KDS se corrige con el
\* próximo cambio o al reconectar», kds.gateway.ts:406), or the answer of a
\* commit was lost: a board the orders that wait and how many are being prepared,
\* and the page of an order that waits its place.  What it was told and shows is
\* how the queue was at that change.  (Off, a board that comes back is told
\* nothing.)
ColaAlDia ==
  /\ \A w \in Tableros : TableroQuieto(w) /\ tope # SinCola =>
       /\ hechos \in {tablero[w].colaVista, tablero[w].colaPerdida}
       /\ tablero[w].cola.v = hechos => tablero[w].cola.cola = FotoDeLaCola
  /\ \A d \in Seguidores :
       SeguidorQuieto(d) /\ tope # SinCola /\ etapa[Sigue[d]] = "RECIBIDO" =>
         /\ hechos \in {seguidor[d].lugarVisto, seguidor[d].lugarPerdido}
         /\ seguidor[d].lugar.v = hechos =>
              seguidor[d].lugar.puesto = Puesto(FotoDeLaCola.espera, Sigue[d])

=============================================================================
