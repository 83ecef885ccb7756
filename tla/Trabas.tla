------------------------------- MODULE Trabas -------------------------------
(***************************************************************************)
(* What the transactions about one table wait for each other for.  A       *)
(* transaction is the list of rows that it takes, in the order of its      *)
(* statements, with the lock of each one; it keeps them until it ends      *)
(* (READ COMMITTED).  An UPDATE that only applies in some state looks at   *)
(* the row again once it has it.                                           *)
(*                                                                         *)
(* The states of the orders are kept, because they decide who may take     *)
(* them; whether a payment, the table or the limit of the queue is in the  *)
(* state that a statement asks for is left open, and so is how many orders *)
(* are promoted.  A transaction that takes a single row is never waited    *)
(* for while it waits, and is left out.  Inserts share the rows they refer *)
(* to with UPDATEs, so only the ones that refer to an item matter: the     *)
(* items are read FOR UPDATE.                                              *)
(***************************************************************************)
EXTENDS Orden

CONSTANTS
  NTransacciones, \* transactions that overlap
  NComandas,      \* orders of the table, each with one payment
  NPlatos,        \* items of the menu; their numbers give the order of ids
  PlatosDe        \* [Comandas -> the items of the order]

Transacciones == 1 .. NTransacciones
Comandas == 1 .. NComandas
PlatosCarta == 1 .. NPlatos

ASSUME TrabasAssumption ==
  /\ NTransacciones \in Nat /\ NComandas \in Nat /\ NPlatos \in Nat
  /\ PlatosDe \in [Comandas -> SUBSET PlatosCarta]

VARIABLES
  comanda, \* [Comandas -> Estados], as committed
  tr       \* [Transacciones -> its kind, what is left to do, what it has]

trabasVars == <<comanda, tr>>

-----------------------------------------------------------------------------
(* Statements *)

Estados ==
  {"PENDIENTE_PAGO", "RECIBIDO", "EN_PREPARACION", "LISTO_PARA_ENTREGAR",
   "ENTREGADO", "CANCELADO"}

Igual == "igual"

\* A row and how it is locked: by the insert of a row that refers to it, by an
\* UPDATE, or by SELECT ... FOR UPDATE.  si: the states of an order in which it
\* applies.  queda: what it sets.  sino: what the transaction does when it does
\* not apply; "nunca" is for those that always do.
Sentencia(fila, modo, si, queda, sino) ==
  [fila |-> fila, modo |-> modo, si |-> si, queda |-> queda, sino |-> sino]

LaFila(clase, n) == <<clase, n>>

Actualiza(clase, n, sino) ==
  Sentencia(LaFila(clase, n), "UPDATE", Estados, Igual, sino)

CambiaComanda(c, si, queda, sino) ==
  Sentencia(LaFila("pedido", c), "UPDATE", si, queda, sino)

DeCadaPlato(platos, modo) ==
  [i \in DOMAIN platos |->
     Sentencia(LaFila("item", platos[i]), modo, Estados, Igual, "nunca")]

\* Lists of rows that are only known when the statement runs.
Promover == <<Actualiza("promover", 0, "nunca")>>
Cancelar == <<Actualiza("cancelar", 0, "nunca")>>

\* completarCapacidad: without a limit there is nothing to do.
CompletarCapacidad == <<Actualiza("cola", 0, "termina")>> \o Promover

\* descontarEnTx: ORDER BY id FOR UPDATE.
Descontados(c) ==
  DeCadaPlato(EnOrden(PlatosDe[c], [p \in PlatosDe[c] |-> p]), "FOR UPDATE")

\* confirmarPagoEnTx
ConfirmarComanda(c, sino) ==
  <<CambiaComanda(c, {"PENDIENTE_PAGO"}, "RECIBIDO", sino)>>
    \o Descontados(c) \o CompletarCapacidad

-----------------------------------------------------------------------------
(* Transactions *)

\* PagosService.reservar with an e-Factura; without one it takes the table only.
ReservarConReceptor(c) ==
  <<CambiaComanda(c, Estados, Igual, "nunca"), Actualiza("mesa", 0, "nunca")>>

\* The answer of the charge and the notification: payment, table, order.
Resolver(c) ==
  <<Actualiza("pago", c, "termina"), Actualiza("mesa", 0, "sigue")>>
    \o ConfirmarComanda(c, "termina")

\* Seeded defect: the table is freed before the payment is written.
CaducarAlReves(c) ==
  <<Actualiza("mesa", 0, "sigue"), Actualiza("pago", c, "termina")>>

\* ConciliacionPagosService.vencer, PagosService.cerrarRechazado, and the
\* answers that are not an approval.
Caducar(c) ==
  <<Actualiza("pago", c, "termina"), Actualiza("mesa", 0, "sigue")>>

\* MesasService.cerrarSesion
Cerrar == <<Actualiza("mesa", 0, "termina")>> \o Cancelar

\* configurar: the row of the restaurant, and then the queue.
Configurar == <<Actualiza("restaurante", 0, "nunca")>> \o CompletarCapacidad

\* transicionar, from the state that it read.
Mover(c) ==
  CASE comanda[c] = "RECIBIDO" ->
         <<Actualiza("cola", 0, "sigue"),
           CambiaComanda(c, Estados, "EN_PREPARACION", "nunca")>>
    [] comanda[c] = "EN_PREPARACION" ->
         <<CambiaComanda(c, Estados, "LISTO_PARA_ENTREGAR", "nunca")>>
           \o CompletarCapacidad

\* The items of a request, in the order in which it names them.
EnElOrdenPedido(modo) ==
  {DeCadaPlato(s, modo) :
     s \in UNION {SetToSeqs(x) : x \in {y \in SUBSET PlatosCarta : Cardinality(y) > 1}}}

\* Kind and statements of a transaction that may begin now.
Programas ==
  (UNION {{<<"reservar con receptor", ReservarConReceptor(c)>>,
           <<"resolver", Resolver(c)>>,
           <<"vencer", Caducar(c)>>,
           <<"cobro en efectivo", ConfirmarComanda(c, "termina")>>} : c \in Comandas})
  \cup {<<"mover", Mover(c)>> :
          c \in {d \in Comandas : comanda[d] \in {"RECIBIDO", "EN_PREPARACION"}}}
  \cup {<<"cerrar", Cerrar>>, <<"configurar", Configurar>>}
  \cup {<<"crear", s>> : s \in EnElOrdenPedido("KEY SHARE")}
  \cup {<<"ajustar", s>> : s \in EnElOrdenPedido("UPDATE")}

-----------------------------------------------------------------------------

Una(que, resto) ==
  [que |-> que, resto |-> resto, tiene |-> {}, escrito |-> [c \in Comandas |-> Igual]]

TrabasInit ==
  /\ comanda \in [Comandas -> {"PENDIENTE_PAGO", "RECIBIDO", "EN_PREPARACION"}]
  /\ tr = [t \in Transacciones |-> Una("por empezar", <<>>)]

EnMarcha(t) == tr[t].que \notin {"por empezar", "terminada"}

\* The state of an order as t sees it.
Ve(t, c) == IF tr[t].escrito[c] = Igual THEN comanda[c] ELSE tr[t].escrito[c]

Chocan(m, n) ==
  \/ m = "FOR UPDATE" \/ n = "FOR UPDATE"
  \/ m = "UPDATE" /\ n = "UPDATE"

Ocupada(t, s, u) ==
  u # t /\ \E x \in tr[u].tiene : x[1] = s.fila /\ Chocan(x[2], s.modo)

EsUnaFila(s) == s.fila[1] \notin {"promover", "cancelar"}

\* It applies, or may apply.
Aplica(t, s) == s.fila[1] = "pedido" => Ve(t, s.fila[2]) \in s.si

PuedeNoAplicar(t, s) ==
  /\ s.sino # "nunca"
  /\ s.fila[1] = "pedido" => Ve(t, s.fila[2]) \notin s.si

\* Which one begins next does not matter.
EmpezarTx(t) ==
  /\ tr[t].que = "por empezar"
  /\ \A u \in Transacciones : u < t => tr[u].que # "por empezar"
  /\ \E p \in Programas : tr' = [tr EXCEPT ![t] = Una(p[1], p[2])]
  /\ UNCHANGED comanda

Ahora(t) == Head(tr[t].resto)

Anotado(t, s) ==
  IF s.queda = Igual THEN tr[t].escrito
  ELSE [tr[t].escrito EXCEPT ![s.fila[2]] = s.queda]

Ejecutar(t) ==
  /\ tr[t].resto # <<>>
  /\ EsUnaFila(Ahora(t))
  /\ Aplica(t, Ahora(t))
  /\ \A u \in Transacciones : ~Ocupada(t, Ahora(t), u)
  /\ tr' = [tr EXCEPT ![t].resto = Tail(@),
                      ![t].tiene = @ \cup {<<Ahora(t).fila, Ahora(t).modo>>},
                      ![t].escrito = Anotado(t, Ahora(t))]
  /\ UNCHANGED comanda

\* No row is in the state that the statement asks for.
NoAplicar(t) ==
  /\ tr[t].resto # <<>>
  /\ EsUnaFila(Ahora(t))
  /\ PuedeNoAplicar(t, Ahora(t))
  /\ tr' = [tr EXCEPT ![t].resto =
              IF Ahora(t).sino = "termina" THEN <<>> ELSE Tail(@)]
  /\ UNCHANGED comanda

\* The orders of a list, with the state that each one must still be in.
Lista(t, desde, hacia, todas) ==
  LET elegibles == {c \in Comandas : Ve(t, c) = desde}
  IN  {[i \in DOMAIN s |-> CambiaComanda(s[i], {desde}, hacia, "sigue")] :
         s \in UNION {SetToSeqs(x) :
                        x \in IF todas THEN {elegibles} ELSE SUBSET elegibles}}

\* Orders of the queue, as many as there is room for; or every order of the
\* table that nobody has paid.  One UPDATE takes them in any order.
Listar(t) ==
  /\ tr[t].resto # <<>>
  /\ ~EsUnaFila(Ahora(t))
  /\ \E l \in IF Ahora(t).fila[1] = "promover"
                THEN Lista(t, "RECIBIDO", "EN_PREPARACION", FALSE)
                ELSE Lista(t, "PENDIENTE_PAGO", "CANCELADO", TRUE) :
       tr' = [tr EXCEPT ![t].resto = l]
  /\ UNCHANGED comanda

Confirma(t) ==
  /\ EnMarcha(t)
  /\ tr[t].resto = <<>>
  /\ comanda' = [c \in Comandas |-> Ve(t, c)]
  /\ tr' = [tr EXCEPT ![t] = Una("terminada", <<>>)]

Espera(t, u) ==
  /\ tr[t].resto # <<>>
  /\ EsUnaFila(Ahora(t))
  /\ Aplica(t, Ahora(t))
  /\ Ocupada(t, Ahora(t), u)

\* PostgreSQL chooses one of those that wait for each other, and a transaction
\* that waits longer than Prisma allows is rolled back too.
Aborta(t) ==
  /\ \E u \in Transacciones : Espera(t, u)
  /\ tr' = [tr EXCEPT ![t] = Una("terminada", <<>>)]
  /\ UNCHANGED comanda

TrabasNext ==
  \E t \in Transacciones :
    \/ EmpezarTx(t) \/ Ejecutar(t) \/ NoAplicar(t) \/ Listar(t) \/ Confirma(t)
    \/ Aborta(t)

TrabasSpec == TrabasInit /\ [][TrabasNext]_trabasVars

-----------------------------------------------------------------------------
(* Properties *)

\* Kinds that take their rows in an order of their own: an e-Factura writes the
\* order before the table (pagos.service.ts:404), an order and an adjustment
\* name the items as the request does, and who moves an order by hand may have
\* read it in one state and lock it in the next one.
SinOrden == {"reservar con receptor", "crear", "ajustar", "mover"}

\* Transactions that wait for each other.
EnCirculo(ts) == \A t \in ts : \E u \in ts : Espera(t, u)

\* Charges, their answers, the ones that expire, cash, the close of the table
\* and the configuration never wait in a circle among themselves, whatever they
\* read: in every circle there is a transaction of another kind.
CobrosNoSeTraban ==
  \A ts \in SUBSET {t \in Transacciones : tr[t].que \notin SinOrden} :
    ts # {} => ~EnCirculo(ts)

=============================================================================
