------------------------------- MODULE Cocina -------------------------------
(***************************************************************************)
(* The kitchen queue of one BistroLink restaurant.  An order goes from     *)
(* RECIBIDO, which is the queue, to EN_PREPARACION, of which there is a    *)
(* limit, to LISTO_PARA_ENTREGAR and ENTREGADO.  Three transactions move   *)
(* it: the one that confirms a payment, the one of a button of the staff's *)
(* screen, and the one that changes the limit.                             *)
(*                                                                         *)
(* They run at READ COMMITTED, so each of their statements that reads what *)
(* another one may have written is an action: a transaction sees what is   *)
(* committed and its own writes, it holds the rows it wrote until it ends, *)
(* and an advisory lock of the restaurant serializes some of the steps.    *)
(***************************************************************************)
EXTENDS Naturals, FiniteSets

CONSTANTS
  Pedidos,       \* orders
  Txs,           \* transactions that run at once
  LimiteInicial, \* limit of orders in preparation at the start
  Limites,       \* limits that the administrator may set
  Ninguno        \* null

\* Null in the database, whose least limit is 1: the queue is off.
SinLimite == 0

ASSUME CocinaAssumption ==
  /\ IsFiniteSet(Pedidos)
  /\ LimiteInicial \in Nat
  /\ Limites \subseteq Nat
  /\ Ninguno \notin Pedidos \cup Txs

VARIABLES
  estado,  \* [Pedidos -> Estado], committed
  antes,   \* <<p, q>>: p has an earlier encoladoEn than q, committed or not
  limite,  \* committed limit
  candado, \* the transaction that holds the advisory lock, or Ninguno
  tx       \* [Txs -> Tx]

vars == <<estado, antes, limite, candado, tx>>

-----------------------------------------------------------------------------
(* Types *)

Estado ==
  {"PENDIENTE_PAGO", "RECIBIDO", "EN_PREPARACION", "LISTO_PARA_ENTREGAR",
   "ENTREGADO"}

\* The transitions that the staff's screen may ask for.
Siguiente ==
  [RECIBIDO |-> "EN_PREPARACION", EN_PREPARACION |-> "LISTO_PARA_ENTREGAR",
   LISTO_PARA_ENTREGAR |-> "ENTREGADO"]

\* "capacidad": the limit is read next.  "espera": the lock is taken next.
\* "contar": the lock is held.  "promover": the orders of lista were chosen.
Pasos ==
  {"libre", "capacidad", "espera", "contar", "escribir", "promover", "confirmar"}

UnaTx(paso, pedido, nuevo, lim, escrito, lista) ==
  [paso |-> paso, pedido |-> pedido, nuevo |-> nuevo, limite |-> lim,
   escrito |-> escrito, lista |-> lista]

SinTx == UnaTx("libre", Ninguno, "RECIBIDO", SinLimite, FALSE, {})

\* pedido, nuevo: the row it writes and with which state; a change of the
\* limit writes no order.  limite: the limit it read, or the one it writes.
\* escrito: its write is done and not committed.
Tx ==
  [paso : Pasos, pedido : Pedidos \cup {Ninguno}, nuevo : Estado,
   limite : Nat, escrito : BOOLEAN, lista : SUBSET Pedidos]

TypeOK ==
  /\ estado \in [Pedidos -> Estado]
  /\ antes \subseteq Pedidos \X Pedidos
  /\ \A p, q \in Pedidos : <<p, q>> \in antes => <<q, p>> \notin antes
  /\ limite \in Nat
  /\ candado \in Txs \cup {Ninguno}
  /\ tx \in [Txs -> Tx]

Init ==
  /\ estado = [p \in Pedidos |-> "PENDIENTE_PAGO"]
  /\ antes = {}
  /\ limite = LimiteInicial
  /\ candado = Ninguno
  /\ tx = [t \in Txs |-> SinTx]

-----------------------------------------------------------------------------
(* What a transaction sees and holds *)

EsCambioDeLimite(t) == tx[t].paso # "libre" /\ tx[t].pedido = Ninguno

\* t has written the row of p and has not ended.
Escribio(t, p) == tx[t].escrito /\ tx[t].pedido = p

\* The orders as t sees them.
Vista(t) ==
  [p \in Pedidos |-> IF Escribio(t, p) THEN tx[t].nuevo ELSE estado[p]]

FilaLibre(t, p) == \A o \in Txs \ {t} : ~Escribio(o, p)

\* p has an encoladoEn, committed or not.
Llego(p) == estado[p] # "PENDIENTE_PAGO" \/ \E t \in Txs : Escribio(t, p)

EnPreparacion(v) == {p \in Pedidos : v[p] = "EN_PREPARACION"}

EnEspera(v) == {p \in Pedidos : v[p] = "RECIBIDO"}

Tomados(ps, n) ==
  {es \in SUBSET ps :
     Cardinality(es) = IF Cardinality(ps) < n THEN Cardinality(ps) ELSE n}

\* Seeded defect: the last one to arrive goes first.
LosUltimos(ps, n) ==
  {es \in Tomados(ps, n) : \A p \in es, q \in ps \ es : <<q, p>> \in antes}

\* The n orders of ps that arrived first, or all if they are fewer.
LosPrimeros(ps, n) ==
  {es \in Tomados(ps, n) : \A p \in es, q \in ps \ es : <<p, q>> \in antes}

\* Seeded defect: the lock is not waited for.
CandadoCompartido(t) == candado # t

CandadoLibre(t) == candado \notin Txs \ {t}

\* Seeded defect: a lock of the connection, which only a commit releases.
SoltarSiConfirma(t) ==
  candado' = IF candado = t /\ tx[t].paso \in {"confirmar", "promover"}
             THEN Ninguno ELSE candado

\* The lock ends with the transaction, however it ends.
Soltar(t) == candado' = IF candado = t THEN Ninguno ELSE candado

Pasa(t, paso) == tx' = [tx EXCEPT ![t].paso = paso]

Termina(t) ==
  /\ tx' = [tx EXCEPT ![t] = SinTx]
  /\ Soltar(t)

-----------------------------------------------------------------------------
(* How the transactions start *)

\* confirmarPagoEnTx: the conditional update of the order, with its time of
\* arrival.  A second confirmation of the order writes nothing.
ConfirmarPago(t, p) ==
  /\ tx[t].paso = "libre"
  /\ estado[p] = "PENDIENTE_PAGO"
  /\ FilaLibre(t, p)
  /\ tx' = [tx EXCEPT ![t] = UnaTx("capacidad", p, "RECIBIDO", SinLimite, TRUE, {})]
  /\ antes' = antes \cup {<<q, p>> : q \in {q \in Pedidos : Llego(q)}}
  /\ UNCHANGED <<estado, limite, candado>>

\* transicionar reads the order.  Only a move to preparation looks at the limit.
TransicionarLee(t, p) ==
  /\ tx[t].paso = "libre"
  /\ estado[p] \in DOMAIN Siguiente
  /\ LET nuevo == Siguiente[estado[p]]
         paso  == IF nuevo = "EN_PREPARACION" THEN "capacidad" ELSE "escribir"
     IN  tx' = [tx EXCEPT ![t] = UnaTx(paso, p, nuevo, SinLimite, FALSE, {})]
  /\ UNCHANGED <<estado, antes, limite, candado>>

\* The administrator changes the limit.  Its row is held until the commit.
CambiarLimite(t, l) ==
  /\ tx[t].paso = "libre"
  /\ l # limite
  /\ \A o \in Txs : ~EsCambioDeLimite(o)
  /\ tx' = [tx EXCEPT ![t] =
       UnaTx(IF l = SinLimite THEN "confirmar" ELSE "espera",
             Ninguno, "RECIBIDO", l, TRUE, {})]
  /\ UNCHANGED <<estado, antes, limite, candado>>

-----------------------------------------------------------------------------
(* How they go on *)

\* The limit is read before the lock is taken.
LeerLimite(t) ==
  /\ tx[t].paso = "capacidad"
  /\ LET sinCola == IF tx[t].escrito THEN "confirmar" ELSE "escribir"
     IN  tx' = [tx EXCEPT ![t].limite = limite,
                          ![t].paso = IF limite = SinLimite THEN sinCola
                                                            ELSE "espera"]
  /\ UNCHANGED <<estado, antes, limite, candado>>

BloquearCola(t) ==
  /\ tx[t].paso = "espera"
  /\ CandadoLibre(t)
  /\ candado' = t
  /\ Pasa(t, "contar")
  /\ UNCHANGED <<estado, antes, limite>>

\* transicionar to preparation: is there room?
HayLugar(t) ==
  /\ tx[t].paso = "contar"
  /\ ~tx[t].escrito
  /\ Cardinality(EnPreparacion(estado)) < tx[t].limite
  /\ Pasa(t, "escribir")
  /\ UNCHANGED <<estado, antes, limite, candado>>

CocinaLlena(t) ==
  /\ tx[t].paso = "contar"
  /\ ~tx[t].escrito
  /\ Cardinality(EnPreparacion(estado)) >= tx[t].limite
  /\ Termina(t)
  /\ UNCHANGED <<estado, antes, limite>>

\* Its update, by id, whatever the order is by then.  A move out of
\* preparation has freed a place.
Escribir(t) ==
  /\ tx[t].paso = "escribir"
  /\ FilaLibre(t, tx[t].pedido)
  /\ tx' = [tx EXCEPT ![t].escrito = TRUE,
                      ![t].paso = IF tx[t].nuevo = "LISTO_PARA_ENTREGAR"
                                  THEN "capacidad" ELSE "confirmar"]
  /\ UNCHANGED <<estado, antes, limite, candado>>

\* completarCapacidad: counts, and chooses the oldest of the queue for the
\* places left.
Elegir(t) ==
  LET ocupados == Cardinality(EnPreparacion(Vista(t)))
      libres   == IF ocupados < tx[t].limite THEN tx[t].limite - ocupados ELSE 0
  IN
  /\ tx[t].paso = "contar"
  /\ tx[t].escrito
  /\ \E elegidos \in LosPrimeros(EnEspera(Vista(t)), libres) :
       tx' = [tx EXCEPT ![t].lista = elegidos,
                        ![t].paso = IF elegidos = {} THEN "confirmar"
                                                     ELSE "promover"]
  /\ UNCHANGED <<estado, antes, limite, candado>>

\* The orders when t commits: its write, and the chosen ones that still wait.
Confirmado(t) ==
  [p \in Pedidos |-> IF p \in tx[t].lista /\ Vista(t)[p] = "RECIBIDO"
                     THEN "EN_PREPARACION" ELSE Vista(t)[p]]

\* The update of the chosen ones waits for whoever has written their rows.
ConfirmarTx(t) ==
  /\ tx[t].paso \in {"promover", "confirmar"}
  /\ \A p \in tx[t].lista : FilaLibre(t, p)
  /\ estado' = Confirmado(t)
  /\ limite' = IF EsCambioDeLimite(t) THEN tx[t].limite ELSE limite
  /\ Termina(t)
  /\ UNCHANGED antes

\* Without the arrival that t wrote, if it confirms a payment.
AntesSin(t) ==
  IF tx[t].escrito /\ tx[t].nuevo = "RECIBIDO"
  THEN {par \in antes : tx[t].pedido \notin {par[1], par[2]}}
  ELSE antes

\* Nothing of t is written.
Abortar(t) ==
  /\ Termina(t)
  /\ antes' = AntesSin(t)
  /\ UNCHANGED <<estado, limite>>

\* The backend or the connection dies.
Caer(t) ==
  /\ tx[t].paso # "libre"
  /\ Abortar(t)

\* t waits for o to end: for the lock, or for a row.
Espera(t, o) ==
  \/ tx[t].paso = "espera" /\ candado = o
  \/ tx[t].paso = "escribir" /\ Escribio(o, tx[t].pedido)

\* PostgreSQL finds two that wait for each other and aborts one: a move to
\* preparation that holds the lock and wants the row of an order that was
\* promoted meanwhile, and a move of that order out of preparation.
AbrazoMortal(t) ==
  /\ \E o \in Txs \ {t} : Espera(t, o) /\ Espera(o, t)
  /\ Abortar(t)

Empezar(t) ==
  \/ \E p \in Pedidos : ConfirmarPago(t, p) \/ TransicionarLee(t, p)
  \/ \E l \in Limites : CambiarLimite(t, l)

Seguir(t) ==
  \/ LeerLimite(t) \/ BloquearCola(t) \/ HayLugar(t) \/ CocinaLlena(t)
  \/ Escribir(t) \/ Elegir(t) \/ ConfirmarTx(t)

Next == \E t \in Txs : Empezar(t) \/ Seguir(t) \/ AbrazoMortal(t) \/ Caer(t)

Spec == Init /\ [][Next]_vars

\* PostgreSQL gives a lock to those who wait for it in the order they came, and
\* looks for deadlocks.
FairSpec == Spec /\ \A t \in Txs : SF_vars(Seguir(t) \/ AbrazoMortal(t))

-----------------------------------------------------------------------------
(* Properties *)

\* There are never more orders in preparation than the limit, however many
\* payments, buttons and raises of the limit run at once (where the limit is
\* only raised; lowering it takes no order out of preparation).
CocinaBajoLimite ==
  limite # SinLimite => Cardinality(EnPreparacion(estado)) <= limite

\* The transaction moves p to preparation because the staff asked for it.
AMano(t, p) == tx[t].pedido = p /\ tx[t].nuevo = "EN_PREPARACION"

\* The queue is first come, first served: no order leaves it by itself while
\* one that arrived before stays in it.
ColaJusta ==
  [][\A p, q \in Pedidos :
       /\ estado[p] = "RECIBIDO" /\ estado'[p] = "EN_PREPARACION"
       /\ \A t \in Txs : tx'[t] # tx[t] => ~AMano(t, p)
       /\ <<q, p>> \in antes /\ estado[q] = "RECIBIDO"
       => estado'[q] # "RECIBIDO"]_vars

\* The chosen orders are still in the queue when they are written, so the
\* history and the screens get no promotion that did not happen (where the
\* queue is never off: cola-kds.ts:137-139).
ElegidosEnEspera ==
  \A t \in Txs : \A p \in tx[t].lista : Vista(t)[p] = "RECIBIDO"

\* No transaction waits for ever: the lock and the rows are not always taken in
\* the same order, but there is always one that can go on or be aborted, and a
\* transaction that dies leaves nothing taken.
TxTermina == \A t \in Txs : tx[t].paso # "libre" ~> tx[t].paso = "libre"

\* Only the transitions of the screen and the confirmation of a payment
\* change an order (pedidos-transicion.service.ts:32-40).
SoloTransicionesPermitidas ==
  [][\A p \in Pedidos :
       estado'[p] # estado[p] =>
         \/ estado[p] = "PENDIENTE_PAGO"
         \/ estado[p] \in DOMAIN Siguiente /\ estado'[p] = Siguiente[estado[p]]]_vars

\* An order enters the kitchen by its confirmation, and the queue once: two
\* confirmations, and moves that were read before and written after others,
\* never put it back in the queue, nor among the unpaid ones.  With the queue
\* on or off.
EntraUnaVez ==
  [][\A p \in Pedidos :
       /\ estado[p] = "PENDIENTE_PAGO"
            => estado'[p] \in {"PENDIENTE_PAGO", "RECIBIDO", "EN_PREPARACION"}
       /\ estado'[p] = "PENDIENTE_PAGO" => estado[p] = "PENDIENTE_PAGO"
       /\ estado'[p] = "RECIBIDO" => estado[p] \in {"PENDIENTE_PAGO", "RECIBIDO"}]_vars

-----------------------------------------------------------------------------
(* What the properties rest on, while the queue is on *)

\* A transaction writes one order, or the limit, once.
TxEnForma(t) ==
  /\ tx[t].paso = "libre" => tx[t] = SinTx
  /\ tx[t].paso = "escribir" => ~tx[t].escrito
  /\ tx[t].paso \in {"promover", "confirmar"} => tx[t].escrito
  /\ tx[t].paso \in {"capacidad", "espera", "contar"}
       => (tx[t].escrito <=> tx[t].nuevo # "EN_PREPARACION")
  /\ EsCambioDeLimite(t) => tx[t].escrito /\ tx[t].nuevo = "RECIBIDO"
  /\ tx[t].paso # "libre" /\ tx[t].nuevo = "RECIBIDO" => tx[t].escrito
  /\ tx[t].nuevo # "PENDIENTE_PAGO"
  /\ tx[t].lista # {} => tx[t].paso = "promover"

TxsEnForma == \A t \in Txs : TxEnForma(t)

\* t puts an order in preparation or in the queue when it commits.
MueveLaCola(t) ==
  \/ tx[t].paso \in {"contar", "promover"}
  \/ /\ tx[t].paso \in {"escribir", "confirmar"}
     /\ tx[t].nuevo = "EN_PREPARACION"
  \/ /\ tx[t].paso = "confirmar"
     /\ tx[t].nuevo = "RECIBIDO"
     /\ tx[t].pedido \in Pedidos

\* Nobody does so without the lock.
ColaConCandado == \A t \in Txs : MueveLaCola(t) => candado = t

\* A row is written by one transaction at a time.
FilaDeUno ==
  \A t, o \in Txs, p \in Pedidos : Escribio(t, p) /\ Escribio(o, p) => t = o

\* Only a confirmation writes a row that waits to be paid, and no late update
\* finds its order back in the queue.
Avanzados ==
  \A t \in Txs : tx[t].pedido \in Pedidos =>
    LET e == estado[tx[t].pedido]
    IN  /\ tx[t].nuevo = "RECIBIDO" <=> e = "PENDIENTE_PAGO"
        /\ tx[t].nuevo \in {"LISTO_PARA_ENTREGAR", "ENTREGADO"} => e # "RECIBIDO"

\* What is in the order of arrival has arrived.
AntesLlegaron ==
  \A p, q \in Pedidos : <<p, q>> \in antes => Llego(p) /\ Llego(q)

\* No order that waits arrived before a chosen one and was not chosen.
ElegidosSonPrimeros ==
  \A t \in Txs : \A p \in tx[t].lista, q \in Pedidos :
    <<q, p>> \in antes /\ Vista(t)[q] = "RECIBIDO" => q \in tx[t].lista

ColaInv ==
  /\ TypeOK
  /\ TxsEnForma
  /\ ColaConCandado
  /\ FilaDeUno
  /\ Avanzados
  /\ AntesLlegaron
  /\ ElegidosEnEspera
  /\ ElegidosSonPrimeros

\* The orders that will be in preparation if t commits, at most.
Ocupara(t) ==
  EnPreparacion(Vista(t)) \cup tx[t].lista
    \cup {p \in Pedidos : p = tx[t].pedido /\ tx[t].nuevo = "EN_PREPARACION"}

Agrega(t) ==
  \/ tx[t].paso = "promover"
  \/ tx[t].paso \in {"escribir", "confirmar"} /\ tx[t].nuevo = "EN_PREPARACION"

\* Whoever goes to add orders found room for them all.
LugarReservado ==
  \A t \in Txs : Agrega(t) => Cardinality(Ocupara(t)) <= tx[t].limite

\* The limit that was read is not over the one in force.
LimiteLeido == \A t \in Txs : tx[t].pedido \in Pedidos => tx[t].limite <= limite

\* What is inductive while the limit is only raised: the places of the kitchen
\* are counted and taken under the lock, and nobody else moves the queue
\* meanwhile.
IInv ==
  /\ ColaInv
  /\ limite # SinLimite
  /\ CocinaBajoLimite
  /\ LugarReservado
  /\ LimiteLeido

-----------------------------------------------------------------------------
(* What EntraUnaVez rests on, with the queue on or off *)

\* A confirmation has written its order, which waits to be paid until it ends;
\* any other write is of an order that was paid.
EscriturasPagadas ==
  \A t \in Txs : tx[t].pedido \in Pedidos =>
    /\ tx[t].nuevo = "RECIBIDO" <=> estado[tx[t].pedido] = "PENDIENTE_PAGO"
    /\ tx[t].nuevo = "RECIBIDO" => tx[t].escrito
    /\ tx[t].nuevo # "PENDIENTE_PAGO"

PagadosInv ==
  /\ estado \in [Pedidos -> Estado]
  /\ limite \in Nat
  /\ tx \in [Txs -> Tx]
  /\ FilaDeUno
  /\ EscriturasPagadas

=============================================================================
