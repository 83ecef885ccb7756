------------------------------- MODULE Stock -------------------------------
(***************************************************************************)
(* The stock of the items of the menu.  An order is verified before it is  *)
(* charged, and discounted when its payment is confirmed, in the           *)
(* transaction that confirms it: the rows are locked one by one, by id.    *)
(* The administrator's adjustment of several items reads them without      *)
(* locking, and then writes every field of each one, in the order of the   *)
(* request.  A switch makes an item available or not by hand.              *)
(*                                                                         *)
(* Transactions run at READ COMMITTED: an action is a statement that takes *)
(* a row, or the part of the transaction that nobody else can see.         *)
(***************************************************************************)
EXTENDS Integers, Sequences

CONSTANTS
  NItems,         \* number of items; their numbers give the order of ids
  PedidosStock,   \* orders
  CantidadPedida, \* [PedidosStock -> [Items -> units]]
  Ajustes,        \* adjustments
  Cargas,         \* quantities that an adjustment may set
  StockInicial,   \* [Items -> units]
  MaxManos,       \* bound on uses of the switch
  Nadie           \* no transaction

Items == 1 .. NItems

ASSUME StockAssumption ==
  /\ NItems \in Nat
  /\ CantidadPedida \in [PedidosStock -> [Items -> Nat]]
  /\ Cargas \subseteq Nat
  /\ StockInicial \in [Items -> Nat]
  /\ MaxManos \in Nat
  /\ PedidosStock \cap Ajustes = {}
  /\ Nadie \notin PedidosStock \cup Ajustes

VARIABLES
  item,     \* [Items -> Fila], committed rows of item_carta
  fila,     \* [Items -> the transaction that has locked the row, or Nadie]
  compra,   \* [PedidosStock -> Compra]
  ajuste,   \* [Ajustes -> Ajuste]
  cuenta,   \* history: [Items -> Cuenta]
  manos     \* how much of MaxManos is used

stockVars == <<item, fila, compra, ajuste, cuenta, manos>>

-----------------------------------------------------------------------------
(* Types *)

Fila == [controla : BOOLEAN, stock : Nat, umbral : BOOLEAN, disponible : BOOLEAN]

\* busca: the rows that its SELECT is after.  tomadas: how many of all it has
\* gone through.
Compra ==
  [paso : {"pedida", "reservada", "confirmando", "descontada"},
   busca : SUBSET Items, tomadas : 0 .. NItems]

UnaCompra(paso, busca, tomadas) ==
  [paso |-> paso, busca |-> busca, tomadas |-> tomadas]

\* One field of one item.  The threshold of the alert is only "the other one".
Cambio ==
  {<<"umbral">>} \cup {<<"stock", n>> : n \in Cargas}
    \cup {<<"controla", b>> : b \in BOOLEAN}

\* What is asked of an item.
Pedido == [item : Items, cambio : Cambio]

\* leido: the rows it read.  hechos: how many items of the request are done.
UnAjuste(paso, pide, leido, hechos) ==
  [paso |-> paso, pide |-> pide, leido |-> leido, hechos |-> hechos]

\* cargado: what adjustments loaded.  vendido, demas: units discounted, and
\* units sold without stock.  pisado: an adjustment wrote over another change.
\* aMano: the switch made it available without stock.
Cuenta ==
  [cargado : Int, vendido : Nat, demas : Nat, pisado : BOOLEAN, aMano : BOOLEAN]

StockTypeOK ==
  /\ item \in [Items -> Fila]
  /\ fila \in [Items -> PedidosStock \cup Ajustes \cup {Nadie}]
  /\ compra \in [PedidosStock -> Compra]
  /\ \A a \in Ajustes :
       /\ ajuste[a].paso \in {"nada", "leer", "escribir", "hecho"}
       /\ ajuste[a].pide \in Seq(Pedido)
       /\ ajuste[a].leido \in [Items -> Fila]
       /\ ajuste[a].hechos \in 0 .. Len(ajuste[a].pide)
  /\ cuenta \in [Items -> Cuenta]
  /\ manos \in 0 .. MaxManos

StockInit ==
  /\ item = [x \in Items |->
       [controla |-> TRUE, stock |-> StockInicial[x], umbral |-> FALSE,
        disponible |-> StockInicial[x] > 0]]
  /\ fila = [x \in Items |-> Nadie]
  /\ compra = [p \in PedidosStock |-> UnaCompra("pedida", {}, 0)]
  /\ ajuste = [a \in Ajustes |-> UnAjuste("nada", <<>>, item, 0)]
  /\ cuenta = [x \in Items |->
       [cargado |-> StockInicial[x], vendido |-> 0, demas |-> 0,
        pisado |-> FALSE, aMano |-> FALSE]]
  /\ manos = 0

-----------------------------------------------------------------------------
(* Locks *)

Libre(x, t) == fila[x] \in {Nadie, t}

\* The rows are free again when the transaction ends.
Sueltas(t) == [x \in Items |-> IF fila[x] = t THEN Nadie ELSE fila[x]]

-----------------------------------------------------------------------------
(* Selling *)

Mayor(m, n) == IF m > n THEN m ELSE n

\* faltaStock
Alcanza(x, n) == ~item[x].controla \/ item[x].stock >= n

\* Before charging: 409 if an item does not have enough.
VerificarPedido(p) ==
  /\ compra[p].paso = "pedida"
  /\ \A x \in Items : CantidadPedida[p][x] > 0 => Alcanza(x, CantidadPedida[p][x])
  /\ compra' = [compra EXCEPT ![p].paso = "reservada"]
  /\ UNCHANGED <<item, fila, ajuste, cuenta, manos>>

\* The payment is approved, and in the transaction that confirms it begins
\* SELECT ... WHERE id IN (the order's) AND controla_stock ORDER BY id FOR UPDATE.
EmpezarConfirmacion(p) ==
  /\ compra[p].paso = "reservada"
  /\ compra' = [compra EXCEPT ![p] = UnaCompra("confirmando",
       {x \in Items : CantidadPedida[p][x] > 0 /\ item[x].controla}, 0)]
  /\ UNCHANGED <<item, fila, ajuste, cuenta, manos>>

ProximaFila(p, x) == x = compra[p].tomadas + 1

\* The condition is looked at again in the row that was waited for.
LaQuiere(p, x) == x \in compra[p].busca /\ item[x].controla

TomarFila(p) ==
  /\ compra[p].paso = "confirmando"
  /\ \E x \in Items :
       /\ ProximaFila(p, x)
       /\ IF LaQuiere(p, x)
            THEN Libre(x, p) /\ fila' = [fila EXCEPT ![x] = p]
            ELSE UNCHANGED fila
       /\ compra' = [compra EXCEPT ![p].tomadas = @ + 1]
  /\ UNCHANGED <<item, ajuste, cuenta, manos>>

\* Seeded defect: what is not enough is not discounted.
DescontadaSiAlcanza(f, n) ==
  IF f.stock < n THEN f
  ELSE [f EXCEPT !.stock = @ - n, !.disponible = @ /\ f.stock > n]

\* A row after the discount of n units.
Descontada(f, n) ==
  LET queda == Mayor(f.stock - n, 0)
  IN  [f EXCEPT !.stock = queda, !.disponible = f.disponible /\ queda > 0]

\* The stock never goes below 0: what is missing is audited.
Vendida(c, f, n) ==
  [c EXCEPT !.vendido = @ + n, !.demas = @ + Mayor(n - f.stock, 0)]

\* The rows that it locked are discounted, and it commits.
Descontar(p) ==
  /\ compra[p].paso = "confirmando"
  /\ compra[p].tomadas = NItems
  /\ item' = [x \in Items |-> IF fila[x] = p
                THEN Descontada(item[x], CantidadPedida[p][x]) ELSE item[x]]
  /\ cuenta' = [x \in Items |-> IF fila[x] = p
                  THEN Vendida(cuenta[x], item[x], CantidadPedida[p][x])
                  ELSE cuenta[x]]
  /\ compra' = [compra EXCEPT ![p].paso = "descontada"]
  /\ fila' = Sueltas(p)
  /\ UNCHANGED <<ajuste, manos>>

\* The transaction fails; the payment is confirmed again by its notification.
FallarConfirmacion(p) ==
  /\ compra[p].paso = "confirmando"
  /\ compra[p].tomadas > 0
  /\ compra' = [compra EXCEPT ![p] = UnaCompra("reservada", {}, 0)]
  /\ fila' = Sueltas(p)
  /\ UNCHANGED <<item, ajuste, cuenta, manos>>

-----------------------------------------------------------------------------
(* Adjusting *)

\* The request names each item at most once.
Pedible(s) == \A i, j \in DOMAIN s : s[i].item = s[j].item => i = j

\* 1 or 2 items in any order.
Solicitudes == {s \in [1 .. 1 -> Pedido] \cup [1 .. 2 -> Pedido] : Pedible(s)}

\* The request arrives, and all of its rows are read at once.
LeerItems(a) ==
  /\ ajuste[a].paso = "nada"
  /\ \E s \in Solicitudes :
       ajuste' = [ajuste EXCEPT ![a] = UnAjuste("escribir", s, item, 0)]
  /\ UNCHANGED <<item, fila, compra, cuenta, manos>>

Cambiada(f, c) ==
  CASE c[1] = "umbral"   -> [f EXCEPT !.umbral = ~f.umbral]
    [] c[1] = "stock"    -> [f EXCEPT !.stock = c[2]]
    [] c[1] = "controla" -> [f EXCEPT !.controla = c[2]]

\* disponibleTrasAjuste: with stock control, the availability follows it.
DisponibleTras(f) == IF f.controla THEN f.stock > 0 ELSE f.disponible

Despues(f, c) ==
  LET g == Cambiada(f, c) IN [g EXCEPT !.disponible = DisponibleTras(g)]

\* What the adjustment writes: every field, from the row that it read.
Escrita(a, u) == Despues(ajuste[a].leido[u.item], u.cambio)

ElSiguiente(a) == ajuste[a].pide[ajuste[a].hechos + 1]

\* The UPDATE of the next item takes its row; what changes nothing is skipped.
EscribirItem(a) ==
  /\ ajuste[a].paso = "escribir"
  /\ ajuste[a].hechos < Len(ajuste[a].pide)
  /\ LET u == ElSiguiente(a)
     IN  IF Escrita(a, u) = ajuste[a].leido[u.item]
           THEN UNCHANGED fila
           ELSE Libre(u.item, a) /\ fila' = [fila EXCEPT ![u.item] = a]
  /\ ajuste' = [ajuste EXCEPT ![a].hechos = @ + 1]
  /\ UNCHANGED <<item, compra, cuenta, manos>>

LoPedido(a, x) ==
  CHOOSE u \in {ajuste[a].pide[i] : i \in DOMAIN ajuste[a].pide} : u.item = x

\* What the load means to the administrator, who saw the row that was read.
Ajustada(c, leida, actual, nueva) ==
  [c EXCEPT !.cargado = @ + nueva.stock - leida.stock,
            !.pisado = @ \/ actual.stock # leida.stock,
            !.aMano = @ /\ nueva.disponible /\ nueva.stock = 0]

\* It commits what it wrote.
ConfirmarAjuste(a) ==
  /\ ajuste[a].paso = "escribir"
  /\ ajuste[a].hechos = Len(ajuste[a].pide)
  /\ item' = [x \in Items |-> IF fila[x] = a
                THEN Escrita(a, LoPedido(a, x)) ELSE item[x]]
  /\ cuenta' = [x \in Items |-> IF fila[x] = a
                  THEN Ajustada(cuenta[x], ajuste[a].leido[x], item[x],
                                Escrita(a, LoPedido(a, x)))
                  ELSE cuenta[x]]
  /\ fila' = Sueltas(a)
  /\ ajuste' = [ajuste EXCEPT ![a].paso = "hecho"]
  /\ UNCHANGED <<compra, manos>>

\* The transaction fails, and the administrator may send it again.
FallarAjuste(a) ==
  /\ ajuste[a].paso = "escribir"
  /\ ajuste[a].hechos > 0
  /\ fila' = Sueltas(a)
  /\ ajuste' = [ajuste EXCEPT ![a].paso = "hecho"]
  /\ UNCHANGED <<item, compra, cuenta, manos>>

\* cambiarDisponibilidad: one UPDATE of one field.
CambiarDisponibilidad(x, b) ==
  /\ manos < MaxManos
  /\ manos' = manos + 1
  /\ fila[x] = Nadie
  /\ item' = [item EXCEPT ![x].disponible = b]
  /\ cuenta' = [cuenta EXCEPT ![x].aMano = b /\ item[x].stock = 0]
  /\ UNCHANGED <<fila, compra, ajuste>>

StockNext ==
  \/ \E p \in PedidosStock :
       \/ VerificarPedido(p) \/ EmpezarConfirmacion(p) \/ TomarFila(p)
       \/ Descontar(p) \/ FallarConfirmacion(p)
  \/ \E a \in Ajustes :
       \/ LeerItems(a) \/ EscribirItem(a) \/ ConfirmarAjuste(a) \/ FallarAjuste(a)
  \/ \E x \in Items, b \in BOOLEAN : CambiarDisponibilidad(x, b)

StockSpec == StockInit /\ [][StockNext]_stockVars

-----------------------------------------------------------------------------
(* Properties *)

\* Units are neither lost nor sold twice, however payments, adjustments and
\* failures interleave: what is left is what was loaded less what was sold,
\* and what was sold without stock is in the audit.  The exception is an item
\* whose row an adjustment wrote from a stale read.
StockCuadra ==
  \A x \in Items :
    cuenta[x].pisado
      \/ item[x].stock = cuenta[x].cargado - (cuenta[x].vendido - cuenta[x].demas)

\* With stock control, an item without stock cannot be ordered (D6,
\* stock.service.ts:78), unless somebody switched it on by hand.
AgotadoNoSePide ==
  \A x \in Items :
    item[x].controla /\ item[x].stock = 0 /\ item[x].disponible
      => cuenta[x].aMano

\* The payment p waits for a row that q has.
EsperaA(p, q) ==
  /\ compra[p].paso = "confirmando"
  /\ \E x \in Items : ProximaFila(p, x) /\ LaQuiere(p, x) /\ fila[x] = q

\* Two payments never wait for each other («en orden de id para no trabarse
\* con otra transacción», descuento-stock.service.ts:52).
PagosNoSeTraban ==
  \A p, q \in PedidosStock : ~(EsperaA(p, q) /\ EsperaA(q, p))

=============================================================================
