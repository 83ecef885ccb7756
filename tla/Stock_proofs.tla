---------------------------- MODULE Stock_proofs ----------------------------
(***************************************************************************)
(* Proofs about Stock, for any number of items, orders and adjustments.    *)
(* Units add up because a discount and an adjustment change the row and    *)
(* its account together.  Payments do not wait for each other because each *)
(* one holds only rows before the one that it asks for.                    *)
(***************************************************************************)
EXTENDS Stock, TLAPS

-----------------------------------------------------------------------------
(* The invariant *)

AjusteBien ==
  [paso : {"nada", "leer", "escribir", "hecho"}, pide : Seq(Pedido),
   leido : [Items -> Fila], hechos : Nat]

\* The types, in full.
TiposStock ==
  /\ StockTypeOK
  /\ ajuste \in [Ajustes -> AjusteBien]

\* A payment holds rows only while it is confirmed, of those it went through.
TomaEnOrden ==
  \A p \in PedidosStock, x \in Items :
    fila[x] = p => compra[p].paso = "confirmando" /\ x <= compra[p].tomadas

\* An adjustment holds only rows of items of its request.
TomaLoPedido ==
  \A a \in Ajustes, x \in Items :
    fila[x] = a =>
      /\ ajuste[a].paso = "escribir"
      /\ \E i \in DOMAIN ajuste[a].pide : ajuste[a].pide[i].item = x

StockInv ==
  TiposStock /\ TomaEnOrden /\ TomaLoPedido /\ StockCuadra /\ AgotadoNoSePide

-----------------------------------------------------------------------------
(* The rows *)

\* The larger of two numbers.
LEMMA MayorEs ==
  ASSUME NEW m \in Int, NEW n \in Int
  PROVE  Mayor(m, n) \in Int /\ Mayor(m, n) >= m /\ Mayor(m, n) >= n
         /\ (Mayor(m, n) = m \/ Mayor(m, n) = n)
BY DEF Mayor

\* A discounted row is of the type, and what is left is what there was less
\* what was asked, or nothing.
LEMMA DescontadaEs ==
  ASSUME NEW f \in Fila, NEW n \in Nat
  PROVE  /\ Descontada(f, n) \in Fila
         /\ Descontada(f, n).stock = Mayor(f.stock - n, 0)
         /\ Descontada(f, n).disponible => Descontada(f, n).stock > 0
<1> DEFINE queda == Mayor(f.stock - n, 0)
           g == [f EXCEPT !.stock = queda]
<1>1. f.stock \in Nat /\ f.disponible \in BOOLEAN
  BY DEF Fila
<1>2. queda \in Nat
  BY <1>1 DEF Mayor
<1>3. g \in Fila /\ g.stock = queda
  BY <1>2 DEF Fila
<1>4. (f.disponible /\ queda > 0) \in BOOLEAN
  OBVIOUS
<1>5. \A b \in BOOLEAN : /\ [g EXCEPT !.disponible = b] \in Fila
                         /\ [g EXCEPT !.disponible = b].stock = queda
                         /\ [g EXCEPT !.disponible = b].disponible = b
  BY <1>3 DEF Fila
<1> DEFINE h == [g EXCEPT !.disponible = (f.disponible /\ queda > 0)]
<1>6. h \in Fila /\ h.stock = queda /\ h.disponible = (f.disponible /\ queda > 0)
  BY <1>4, <1>5, Zenon
<1>7. Descontada(f, n) = h
  BY DEF Descontada
<1> QED BY <1>6, <1>7

\* One field of a row is changed.
LEMMA CambiadaEs ==
  ASSUME NEW f \in Fila, NEW c \in Cambio
  PROVE  Cambiada(f, c) \in Fila
<1>1. CASE c = <<"umbral">>
  <2>1. Cambiada(f, c) = [f EXCEPT !.umbral = ~f.umbral]
    BY <1>1 DEF Cambiada
  <2>2. \A b \in BOOLEAN : [f EXCEPT !.umbral = b] \in Fila
    BY DEF Fila
  <2>3. (~f.umbral) \in BOOLEAN
    OBVIOUS
  <2> QED BY <2>1, <2>2, <2>3, Zenon
<1>2. CASE \E n \in Cargas : c = <<"stock", n>>
  <2>1. PICK n \in Cargas : c = <<"stock", n>>
    BY <1>2
  <2>2. Cambiada(f, c) = [f EXCEPT !.stock = n]
    BY <2>1 DEF Cambiada
  <2> QED BY <2>2, StockAssumption DEF Fila
<1>3. CASE \E b \in BOOLEAN : c = <<"controla", b>>
  <2>1. PICK b \in BOOLEAN : c = <<"controla", b>>
    BY <1>3
  <2>2. Cambiada(f, c) = [f EXCEPT !.controla = b]
    BY <2>1 DEF Cambiada
  <2>3. [f EXCEPT !.controla = b] \in Fila
    BY DEF Fila
  <2> QED BY <2>2, <2>3, Zenon
<1> QED BY <1>1, <1>2, <1>3 DEF Cambio

\* With stock control, what is written is available only with stock.
LEMMA DespuesEs ==
  ASSUME NEW f \in Fila, NEW c \in Cambio
  PROVE  /\ Despues(f, c) \in Fila
         /\ Despues(f, c).controla /\ Despues(f, c).disponible =>
              Despues(f, c).stock > 0
<1> DEFINE g == Cambiada(f, c)
<1>1. g \in Fila
  BY CambiadaEs
<1>2. DisponibleTras(g) \in BOOLEAN
  <2>1. g.disponible \in BOOLEAN /\ (g.stock > 0) \in BOOLEAN
    BY <1>1 DEF Fila
  <2>2. CASE g.controla
    BY <2>1, <2>2, Zenon DEF DisponibleTras
  <2>3. CASE ~g.controla
    BY <2>1, <2>3, Zenon DEF DisponibleTras
  <2> QED BY <2>2, <2>3
<1>3. g.controla /\ DisponibleTras(g) => g.stock > 0
  BY DEF DisponibleTras
<1>4. \A b \in BOOLEAN : /\ [g EXCEPT !.disponible = b] \in Fila
                         /\ [g EXCEPT !.disponible = b].stock = g.stock
                         /\ [g EXCEPT !.disponible = b].controla = g.controla
                         /\ [g EXCEPT !.disponible = b].disponible = b
  BY <1>1 DEF Fila
<1> DEFINE h == [g EXCEPT !.disponible = DisponibleTras(g)]
<1>5. /\ h \in Fila /\ h.stock = g.stock /\ h.controla = g.controla
      /\ h.disponible = DisponibleTras(g)
  BY <1>2, <1>4, Zenon
<1>6. Despues(f, c) = h
  BY DEF Despues
<1> QED BY <1>3, <1>5, <1>6

\* What the history adds for a discount of n units keeps the account: what is
\* left is what was loaded less what was sold with stock.
LEMMA VendidaCuadra ==
  ASSUME NEW c \in Cuenta, NEW f \in Fila, NEW n \in Nat
  PROVE  /\ Vendida(c, f, n) \in Cuenta
         /\ Vendida(c, f, n).pisado = c.pisado
         /\ Vendida(c, f, n).aMano = c.aMano
         /\ f.stock = c.cargado - (c.vendido - c.demas) =>
              Descontada(f, n).stock =
                Vendida(c, f, n).cargado
                  - (Vendida(c, f, n).vendido - Vendida(c, f, n).demas)
<1> DEFINE m == Mayor(n - f.stock, 0)
           d == [c EXCEPT !.vendido = c.vendido + n, !.demas = c.demas + m]
<1>1. f.stock \in Nat /\ c.vendido \in Nat /\ c.demas \in Nat /\ c.cargado \in Int
  BY DEF Fila, Cuenta
<1>2. m \in Nat /\ Mayor(f.stock - n, 0) = f.stock - n + m
  BY <1>1 DEF Mayor
<1>3. /\ d \in Cuenta /\ d.pisado = c.pisado /\ d.aMano = c.aMano
      /\ d.cargado = c.cargado /\ d.vendido = c.vendido + n /\ d.demas = c.demas + m
  <2>1. c.vendido + n \in Nat /\ c.demas + m \in Nat
    BY <1>1, <1>2
  <2>2. \A v \in Nat, e \in Nat :
          LET k == [c EXCEPT !.vendido = v, !.demas = e]
          IN  /\ k \in Cuenta /\ k.pisado = c.pisado /\ k.aMano = c.aMano
              /\ k.cargado = c.cargado /\ k.vendido = v /\ k.demas = e
    BY DEF Cuenta
  <2> QED BY <2>1, <2>2, Zenon
<1>4. Vendida(c, f, n) = d
  BY DEF Vendida
<1>5. Descontada(f, n).stock = f.stock - n + m
  BY <1>2, DescontadaEs
<1>6. f.stock = c.cargado - (c.vendido - c.demas) =>
        f.stock - n + m = d.cargado - (d.vendido - d.demas)
  BY <1>1, <1>2, <1>3
<1> QED BY <1>3, <1>4, <1>5, <1>6

\* An adjustment adds to the loaded units what it changed of the row that was
\* read, and is noted if the row was another one.
LEMMA AjustadaCuadra ==
  ASSUME NEW c \in Cuenta, NEW leida \in Fila, NEW actual \in Fila, NEW nueva \in Fila
  PROVE  /\ Ajustada(c, leida, actual, nueva) \in Cuenta
         /\ \/ Ajustada(c, leida, actual, nueva).pisado
            \/ ~c.pisado /\ actual.stock = leida.stock
         /\ Ajustada(c, leida, actual, nueva).vendido = c.vendido
         /\ Ajustada(c, leida, actual, nueva).demas = c.demas
         /\ Ajustada(c, leida, actual, nueva).cargado =
              c.cargado + nueva.stock - leida.stock
<1> DEFINE n == c.cargado + nueva.stock - leida.stock
           pi == (c.pisado \/ actual.stock # leida.stock)
           am == (c.aMano /\ nueva.disponible /\ nueva.stock = 0)
           d == [c EXCEPT !.cargado = n, !.pisado = pi, !.aMano = am]
<1>1. n \in Int
  BY DEF Fila, Cuenta
<1>2. pi \in BOOLEAN /\ am \in BOOLEAN
  OBVIOUS
<1>3. \A x \in BOOLEAN, y \in BOOLEAN :
        /\ [c EXCEPT !.cargado = n, !.pisado = x, !.aMano = y] \in Cuenta
        /\ [c EXCEPT !.cargado = n, !.pisado = x, !.aMano = y].cargado = n
        /\ [c EXCEPT !.cargado = n, !.pisado = x, !.aMano = y].vendido = c.vendido
        /\ [c EXCEPT !.cargado = n, !.pisado = x, !.aMano = y].demas = c.demas
        /\ [c EXCEPT !.cargado = n, !.pisado = x, !.aMano = y].pisado = x
  BY <1>1 DEF Cuenta
<1>4. /\ d \in Cuenta /\ d.cargado = n /\ d.vendido = c.vendido
      /\ d.demas = c.demas /\ d.pisado = pi
  BY <1>2, <1>3, Zenon
<1>5. Ajustada(c, leida, actual, nueva) = d
  BY DEF Ajustada
<1> HIDE DEF d
<1> QED BY <1>4, <1>5

\* The rows of a transaction that ends are free.
LEMMA SueltasLibres ==
  ASSUME TiposStock, NEW t
  PROVE  /\ Sueltas(t) \in [Items -> PedidosStock \cup Ajustes \cup {Nadie}]
         /\ \A x \in Items : Sueltas(t)[x] = IF fila[x] = t THEN Nadie ELSE fila[x]
BY DEF TiposStock, StockTypeOK, Sueltas

\* A request that arrives is a sequence of changes of items.
LEMMA SolicitudesTipo == Solicitudes \subseteq Seq(Pedido)
<1>1. \A n \in Nat : [1 .. n -> Pedido] \subseteq Seq(Pedido)
  OBVIOUS
<1>2. [1 .. 1 -> Pedido] \subseteq Seq(Pedido) /\ [1 .. 2 -> Pedido] \subseteq Seq(Pedido)
  BY <1>1
<1> QED BY <1>2, Zenon DEF Solicitudes

\* What an adjustment writes over a row that it holds is of the type, and
\* available only with stock if the stock is controlled.
LEMMA EscritaEs ==
  ASSUME TiposStock, TomaLoPedido, NEW a \in Ajustes, NEW x \in Items, fila[x] = a
  PROVE  /\ Escrita(a, LoPedido(a, x)) \in Fila
         /\ ajuste[a].leido[x] \in Fila
         /\ Escrita(a, LoPedido(a, x)).controla
              /\ Escrita(a, LoPedido(a, x)).disponible =>
                Escrita(a, LoPedido(a, x)).stock > 0
<1> DEFINE us == {ajuste[a].pide[i] : i \in DOMAIN ajuste[a].pide}
           u == LoPedido(a, x)
<1>1. ajuste[a] \in AjusteBien
  BY DEF TiposStock
<1>2. \E v \in us : v.item = x
  BY DEF TomaLoPedido
<1>3. u \in us /\ u.item = x
  BY <1>2 DEF LoPedido
<1>4. u \in Pedido
  BY <1>1, <1>3 DEF AjusteBien
<1>5. ajuste[a].leido[x] \in Fila /\ u.cambio \in Cambio
  BY <1>1, <1>4 DEF AjusteBien, Pedido
<1>6. Escrita(a, u) = Despues(ajuste[a].leido[x], u.cambio)
  BY <1>3 DEF Escrita
<1> QED BY <1>5, <1>6, DespuesEs

-----------------------------------------------------------------------------
(* The beginning *)

\* Nobody holds a row, and what there is was loaded.
LEMMA StockInicio == StockInit => StockInv
<1> SUFFICES ASSUME StockInit PROVE StockInv
  OBVIOUS
<1> USE StockAssumption
<1>1. ASSUME NEW x \in Items
      PROVE  /\ item[x] \in Fila /\ item[x].stock = StockInicial[x]
             /\ item[x].disponible => item[x].stock > 0
  <2>1. StockInicial[x] \in Nat
    OBVIOUS
  <2>2. \A b \in BOOLEAN :
          LET f == [controla |-> TRUE, stock |-> StockInicial[x],
                    umbral |-> FALSE, disponible |-> b]
          IN  f \in Fila /\ f.stock = StockInicial[x] /\ f.disponible = b
    BY <2>1 DEF Fila
  <2>3. (StockInicial[x] > 0) \in BOOLEAN
    OBVIOUS
  <2>4. item[x] = [controla |-> TRUE, stock |-> StockInicial[x],
                   umbral |-> FALSE, disponible |-> (StockInicial[x] > 0)]
    BY DEF StockInit
  <2> QED BY <2>2, <2>3, <2>4, Zenon
<1>2. item \in [Items -> Fila]
  BY <1>1 DEF StockInit
<1>3. ASSUME NEW x \in Items
      PROVE  /\ cuenta[x] \in Cuenta /\ cuenta[x].cargado = StockInicial[x]
             /\ cuenta[x].vendido = 0 /\ cuenta[x].demas = 0
  BY DEF StockInit, Cuenta
<1>4. cuenta \in [Items -> Cuenta]
  BY <1>3 DEF StockInit
<1>5. UnaCompra("pedida", {}, 0) \in Compra
  BY DEF UnaCompra, Compra
<1>6. compra \in [PedidosStock -> Compra]
  BY <1>5 DEF StockInit
<1>7. UnAjuste("nada", <<>>, item, 0) \in AjusteBien
  BY <1>2 DEF UnAjuste, AjusteBien
<1>8. ajuste \in [Ajustes -> AjusteBien]
  BY <1>7 DEF StockInit
<1>9. \A a \in Ajustes : ajuste[a] = UnAjuste("nada", <<>>, item, 0)
  BY DEF StockInit
<1>10. \A a \in Ajustes :
         /\ ajuste[a].paso = "nada" /\ ajuste[a].pide = <<>>
         /\ ajuste[a].leido = item /\ ajuste[a].hechos = 0
  BY <1>9 DEF UnAjuste
<1>11. \A a \in Ajustes :
         /\ ajuste[a].paso \in {"nada", "leer", "escribir", "hecho"}
         /\ ajuste[a].pide \in Seq(Pedido)
         /\ ajuste[a].leido \in [Items -> Fila]
         /\ ajuste[a].hechos \in 0 .. Len(ajuste[a].pide)
  <2>1. <<>> \in Seq(Pedido) /\ 0 \in 0 .. Len(<<>>)
    OBVIOUS
  <2> QED BY <1>2, <1>10, <2>1
<1>12. fila \in [Items -> PedidosStock \cup Ajustes \cup {Nadie}] /\ manos \in 0 .. MaxManos
  BY DEF StockInit
<1>13. TiposStock
  BY <1>2, <1>4, <1>6, <1>8, <1>11, <1>12, Zenon DEF StockTypeOK, TiposStock
<1>14. TomaEnOrden /\ TomaLoPedido
  BY DEF StockInit, TomaEnOrden, TomaLoPedido
<1>15. StockCuadra
  BY <1>1, <1>3 DEF StockCuadra
<1>16. AgotadoNoSePide
  BY <1>1 DEF AgotadoNoSePide
<1> QED BY <1>13, <1>14, <1>15, <1>16 DEF StockInv

-----------------------------------------------------------------------------
(* The steps of a sale *)

\* A sale is verified, or begins to be confirmed.
LEMMA EmpezarConserva ==
  ASSUME StockInv, NEW p \in PedidosStock, VerificarPedido(p) \/ EmpezarConfirmacion(p)
  PROVE  StockInv'
<1> USE StockAssumption
<1>1. compra' \in [PedidosStock -> Compra]
  <2>1. compra \in [PedidosStock -> Compra]
    BY DEF StockInv, TiposStock, StockTypeOK
  <2>2. CASE VerificarPedido(p)
    BY <2>1, <2>2 DEF VerificarPedido, Compra
  <2>3. CASE EmpezarConfirmacion(p)
    <3>1. UnaCompra("confirmando",
            {x \in Items : CantidadPedida[p][x] > 0 /\ item[x].controla}, 0) \in Compra
      BY DEF UnaCompra, Compra
    <3> QED BY <2>1, <2>3, <3>1 DEF EmpezarConfirmacion
  <2> QED BY <2>2, <2>3
<1>2. /\ UNCHANGED <<item, fila, ajuste, cuenta, manos>>
      /\ compra[p].paso # "confirmando"
      /\ \A q \in PedidosStock \ {p} : compra'[q] = compra[q]
  BY DEF StockInv, TiposStock, StockTypeOK, VerificarPedido, EmpezarConfirmacion
<1>3. TiposStock'
  BY <1>1, <1>2 DEF StockInv, TiposStock, StockTypeOK
<1>4. TomaEnOrden'
  BY <1>2 DEF StockInv, TomaEnOrden
<1>5. TomaLoPedido'
  BY <1>2 DEF StockInv, TomaLoPedido
<1>6. StockCuadra' /\ AgotadoNoSePide'
  BY <1>2 DEF StockInv, StockCuadra, AgotadoNoSePide
<1> QED BY <1>3, <1>4, <1>5, <1>6 DEF StockInv

\* It takes the next row, or goes past it.
LEMMA TomarFilaConserva ==
  ASSUME StockInv, NEW p \in PedidosStock, TomarFila(p)
  PROVE  StockInv'
<1> USE StockAssumption
<1>0. TiposStock /\ StockTypeOK
  BY DEF StockInv, TiposStock
<1>1. PICK x \in Items :
        /\ ProximaFila(p, x)
        /\ IF LaQuiere(p, x)
             THEN Libre(x, p) /\ fila' = [fila EXCEPT ![x] = p]
             ELSE UNCHANGED fila
        /\ compra' = [compra EXCEPT ![p].tomadas = @ + 1]
  BY DEF TomarFila
<1>2. /\ compra[p].paso = "confirmando"
      /\ UNCHANGED <<item, ajuste, cuenta, manos>>
  BY DEF TomarFila
<1>3. compra[p] \in Compra /\ x = compra[p].tomadas + 1
  BY <1>0, <1>1 DEF StockTypeOK, ProximaFila
<1>4. x \in 0 .. NItems
  BY DEF Items
<1>5. [compra[p] EXCEPT !.tomadas = x] \in Compra
  BY <1>3, <1>4 DEF Compra
<1>6. compra' = [compra EXCEPT ![p] = [compra[p] EXCEPT !.tomadas = x]]
  BY <1>1, <1>3
<1>7. /\ compra' \in [PedidosStock -> Compra]
      /\ compra'[p].paso = "confirmando" /\ compra'[p].tomadas = x
      /\ \A q \in PedidosStock \ {p} : compra'[q] = compra[q]
  <2>1. [compra[p] EXCEPT !.tomadas = x].paso = "confirmando"
    BY <1>2, <1>3 DEF Compra
  <2>2. [compra[p] EXCEPT !.tomadas = x].tomadas = x
    BY <1>3 DEF Compra
  <2> QED BY <1>0, <1>5, <1>6, <2>1, <2>2 DEF StockTypeOK
<1>8. /\ fila' \in [Items -> PedidosStock \cup Ajustes \cup {Nadie}]
      /\ \A y \in Items : fila'[y] = fila[y] \/ (y = x /\ fila'[y] = p)
  BY <1>0, <1>1 DEF StockTypeOK
<1>9. TiposStock'
  BY <1>0, <1>2, <1>7, <1>8 DEF TiposStock, StockTypeOK
<1>10. TomaEnOrden'
  <2>1. SUFFICES ASSUME NEW q \in PedidosStock, NEW y \in Items, fila'[y] = q
                 PROVE  compra'[q].paso = "confirmando" /\ y <= compra'[q].tomadas
    BY DEF TomaEnOrden
  <2>2. CASE q = p
    <3>1. y = x \/ y <= compra[p].tomadas
      BY <1>8, <2>1, <2>2 DEF StockInv, TomaEnOrden
    <3> QED BY <1>3, <1>7, <2>2, <3>1 DEF Compra, Items
  <2>3. CASE q # p
    BY <1>7, <1>8, <2>1, <2>3 DEF StockInv, TomaEnOrden
  <2> QED BY <2>2, <2>3
<1>11. TomaLoPedido'
  BY <1>2, <1>8 DEF StockInv, TomaLoPedido
<1>12. StockCuadra' /\ AgotadoNoSePide'
  BY <1>2 DEF StockInv, StockCuadra, AgotadoNoSePide
<1> QED BY <1>9, <1>10, <1>11, <1>12 DEF StockInv

\* A payment that ends its transaction holds no row.
LEMMA CompraSuelta ==
  ASSUME StockInv, NEW p \in PedidosStock, fila' = Sueltas(p), UNCHANGED ajuste,
         \A q \in PedidosStock \ {p} : compra'[q] = compra[q]
  PROVE  /\ fila' \in [Items -> PedidosStock \cup Ajustes \cup {Nadie}]
         /\ TomaEnOrden' /\ TomaLoPedido'
<1> USE StockAssumption
<1>1. TiposStock
  BY DEF StockInv
<1>2. /\ fila' \in [Items -> PedidosStock \cup Ajustes \cup {Nadie}]
      /\ \A x \in Items : fila'[x] = IF fila[x] = p THEN Nadie ELSE fila[x]
  BY <1>1, SueltasLibres
<1>3. \A x \in Items, t \in PedidosStock \cup Ajustes :
        fila'[x] = t => t # p /\ fila[x] = t
  BY <1>2
<1>4. TomaEnOrden'
  BY <1>3 DEF StockInv, TomaEnOrden
<1>5. TomaLoPedido'
  BY <1>3 DEF StockInv, TomaLoPedido
<1> QED BY <1>2, <1>4, <1>5

\* The rows that it holds are discounted with their account.
LEMMA DescontarConserva ==
  ASSUME StockInv, NEW p \in PedidosStock, Descontar(p)
  PROVE  StockInv'
<1> USE StockAssumption
<1>0. TiposStock /\ StockTypeOK
  BY DEF StockInv, TiposStock
<1> DEFINE n(x) == CantidadPedida[p][x]
<1>1. UNCHANGED <<ajuste, manos>> /\ fila' = Sueltas(p)
  BY DEF Descontar
<1>2. /\ compra' \in [PedidosStock -> Compra]
      /\ \A q \in PedidosStock \ {p} : compra'[q] = compra[q]
  <2>1. compra' = [compra EXCEPT ![p].paso = "descontada"]
    BY DEF Descontar
  <2> QED BY ZenonT(60), <1>0, <2>1 DEF StockTypeOK, Compra
<1>3. /\ fila' \in [Items -> PedidosStock \cup Ajustes \cup {Nadie}]
      /\ TomaEnOrden' /\ TomaLoPedido'
  BY <1>1, <1>2, CompraSuelta
<1>4. ASSUME NEW x \in Items
      PROVE  /\ item'[x] = IF fila[x] = p THEN Descontada(item[x], n(x)) ELSE item[x]
             /\ cuenta'[x] = IF fila[x] = p THEN Vendida(cuenta[x], item[x], n(x))
                                            ELSE cuenta[x]
             /\ item[x] \in Fila /\ cuenta[x] \in Cuenta /\ n(x) \in Nat
  BY <1>0 DEF Descontar, StockTypeOK
<1>5. ASSUME NEW x \in Items
      PROVE  /\ item'[x] \in Fila /\ cuenta'[x] \in Cuenta
             /\ cuenta'[x].pisado
                  \/ item'[x].stock
                       = cuenta'[x].cargado - (cuenta'[x].vendido - cuenta'[x].demas)
             /\ item'[x].controla /\ item'[x].stock = 0 /\ item'[x].disponible =>
                  cuenta'[x].aMano
  <2> HIDE DEF n
  <2>1. CASE fila[x] = p
    <3>1. /\ item'[x] = Descontada(item[x], n(x))
          /\ cuenta'[x] = Vendida(cuenta[x], item[x], n(x))
      BY <1>4, <2>1
    <3>2. /\ item'[x] \in Fila
          /\ item'[x].disponible => item'[x].stock > 0
      BY SMTT(40), <1>4, <3>1, DescontadaEs
    <3>3. /\ cuenta'[x] \in Cuenta
          /\ cuenta'[x].pisado = cuenta[x].pisado
          /\ item[x].stock = cuenta[x].cargado - (cuenta[x].vendido - cuenta[x].demas)
               => item'[x].stock
                    = cuenta'[x].cargado - (cuenta'[x].vendido - cuenta'[x].demas)
      <4> DEFINE v == Vendida(cuenta[x], item[x], n(x))
                 d == Descontada(item[x], n(x))
      <4>1. /\ v \in Cuenta
            /\ v.pisado = cuenta[x].pisado
            /\ item[x].stock = cuenta[x].cargado - (cuenta[x].vendido - cuenta[x].demas)
                 => d.stock = v.cargado - (v.vendido - v.demas)
        <5>1. cuenta[x] \in Cuenta /\ item[x] \in Fila /\ n(x) \in Nat
          BY <1>4
        <5> QED BY <5>1, VendidaCuadra, Zenon
      <4> HIDE DEF v, d
      <4>2. item'[x] = d /\ cuenta'[x] = v
        BY <3>1 DEF v, d
      <4> QED BY <4>1, <4>2
    <3> QED BY <3>2, <3>3 DEF StockInv, StockCuadra
  <2>2. CASE fila[x] # p
    BY <1>4, <2>2 DEF StockInv, StockCuadra, AgotadoNoSePide
  <2> QED BY <2>1, <2>2
<1>6. item' \in [Items -> Fila] /\ cuenta' \in [Items -> Cuenta]
  BY <1>5 DEF Descontar
<1>7. TiposStock'
  BY <1>0, <1>1, <1>2, <1>3, <1>6 DEF TiposStock, StockTypeOK
<1>8. StockCuadra' /\ AgotadoNoSePide'
  BY <1>5 DEF StockCuadra, AgotadoNoSePide
<1> QED BY <1>3, <1>7, <1>8 DEF StockInv

\* A confirmation that fails leaves everything as it was.
LEMMA FallarConfirmacionConserva ==
  ASSUME StockInv, NEW p \in PedidosStock, FallarConfirmacion(p)
  PROVE  StockInv'
<1> USE StockAssumption
<1>0. TiposStock /\ StockTypeOK
  BY DEF StockInv, TiposStock
<1>1. UNCHANGED <<item, ajuste, cuenta, manos>> /\ fila' = Sueltas(p)
  BY DEF FallarConfirmacion
<1>2. /\ compra' \in [PedidosStock -> Compra]
      /\ \A q \in PedidosStock \ {p} : compra'[q] = compra[q]
  <2>1. UnaCompra("reservada", {}, 0) \in Compra
    BY DEF UnaCompra, Compra
  <2>2. compra' = [compra EXCEPT ![p] = UnaCompra("reservada", {}, 0)]
    BY DEF FallarConfirmacion
  <2> QED BY <1>0, <2>1, <2>2 DEF StockTypeOK
<1>3. /\ fila' \in [Items -> PedidosStock \cup Ajustes \cup {Nadie}]
      /\ TomaEnOrden' /\ TomaLoPedido'
  BY <1>1, <1>2, CompraSuelta
<1>4. TiposStock'
  BY <1>0, <1>1, <1>2, <1>3 DEF TiposStock, StockTypeOK
<1>5. StockCuadra' /\ AgotadoNoSePide'
  BY <1>1 DEF StockInv, StockCuadra, AgotadoNoSePide
<1> QED BY <1>3, <1>4, <1>5 DEF StockInv

-----------------------------------------------------------------------------
(* The steps of an adjustment, and the switch *)

\* What is particular to the adjustments in the types.
LEMMA AjusteTipo ==
  ASSUME TiposStock, NEW a \in Ajustes
  PROVE  /\ ajuste[a] \in AjusteBien
         /\ ajuste[a].hechos \in 0 .. Len(ajuste[a].pide)
BY DEF TiposStock, StockTypeOK

\* The types, when of the adjustments only a changed, to another of the type.
LEMMA AjusteQueda ==
  ASSUME TiposStock, NEW a \in Ajustes, NEW r \in AjusteBien,
         r.hechos \in 0 .. Len(r.pide), ajuste' = [ajuste EXCEPT ![a] = r],
         UNCHANGED <<compra, manos>>, item' \in [Items -> Fila],
         cuenta' \in [Items -> Cuenta],
         fila' \in [Items -> PedidosStock \cup Ajustes \cup {Nadie}]
  PROVE  /\ TiposStock'
         /\ ajuste'[a] = r
         /\ \A b \in Ajustes \ {a} : ajuste'[b] = ajuste[b]
<1>1. /\ ajuste' \in [Ajustes -> AjusteBien] /\ ajuste'[a] = r
      /\ \A b \in Ajustes \ {a} : ajuste'[b] = ajuste[b]
  BY DEF TiposStock
<1>2. \A b \in Ajustes :
        /\ ajuste'[b].paso \in {"nada", "leer", "escribir", "hecho"}
        /\ ajuste'[b].pide \in Seq(Pedido)
        /\ ajuste'[b].leido \in [Items -> Fila]
        /\ ajuste'[b].hechos \in 0 .. Len(ajuste'[b].pide)
  BY <1>1 DEF AjusteBien, TiposStock, StockTypeOK
<1>3. compra' \in [PedidosStock -> Compra] /\ manos' \in 0 .. MaxManos
  BY DEF TiposStock, StockTypeOK
<1>4. StockTypeOK'
  BY <1>2, <1>3, Zenon DEF StockTypeOK
<1> QED BY <1>1, <1>4 DEF TiposStock

\* The rows are read when nothing is held for the request.
LEMMA LeerItemsConserva ==
  ASSUME StockInv, NEW a \in Ajustes, LeerItems(a)
  PROVE  StockInv'
<1> USE StockAssumption
<1>0. TiposStock
  BY DEF StockInv
<1>1. PICK s \in Solicitudes :
        ajuste' = [ajuste EXCEPT ![a] = UnAjuste("escribir", s, item, 0)]
  BY DEF LeerItems
<1>2. /\ UNCHANGED <<item, fila, compra, cuenta, manos>>
      /\ ajuste[a].paso = "nada"
  BY DEF LeerItems
<1>3. s \in Seq(Pedido) /\ item \in [Items -> Fila]
  BY <1>0, SolicitudesTipo DEF TiposStock, StockTypeOK
<1>4. /\ UnAjuste("escribir", s, item, 0) \in AjusteBien
      /\ UnAjuste("escribir", s, item, 0).hechos \in
           0 .. Len(UnAjuste("escribir", s, item, 0).pide)
  BY <1>3 DEF UnAjuste, AjusteBien
<1>5. /\ item' \in [Items -> Fila] /\ cuenta' \in [Items -> Cuenta]
      /\ fila' \in [Items -> PedidosStock \cup Ajustes \cup {Nadie}]
  BY <1>0, <1>2 DEF TiposStock, StockTypeOK
<1>6. TiposStock' /\ \A b \in Ajustes \ {a} : ajuste'[b] = ajuste[b]
  BY <1>0, <1>1, <1>2, <1>4, <1>5, AjusteQueda
<1>7. TomaEnOrden'
  BY <1>2 DEF StockInv, TomaEnOrden
<1>8. TomaLoPedido'
  BY <1>2, <1>6 DEF StockInv, TomaLoPedido
<1>9. StockCuadra' /\ AgotadoNoSePide'
  BY <1>2 DEF StockInv, StockCuadra, AgotadoNoSePide
<1> QED BY <1>6, <1>7, <1>8, <1>9 DEF StockInv

\* The next item of the request is taken, or left.
LEMMA EscribirItemConserva ==
  ASSUME StockInv, NEW a \in Ajustes, EscribirItem(a)
  PROVE  StockInv'
<1> USE StockAssumption
<1>0. TiposStock
  BY DEF StockInv
<1> DEFINE i == ajuste[a].hechos + 1
           u == ElSiguiente(a)
           r == [ajuste[a] EXCEPT !.hechos = i]
<1>1. /\ ajuste[a].paso = "escribir"
      /\ ajuste[a].hechos < Len(ajuste[a].pide)
      /\ UNCHANGED <<item, compra, cuenta, manos>>
  BY DEF EscribirItem
<1>2. ajuste[a] \in AjusteBien /\ ajuste[a].hechos \in Nat
  BY <1>0, AjusteTipo DEF AjusteBien
<1>3. i \in DOMAIN ajuste[a].pide /\ u = ajuste[a].pide[i] /\ u \in Pedido
  <2>1. ajuste[a].pide \in Seq(Pedido)
    BY <1>2 DEF AjusteBien
  <2>2. i \in 1 .. Len(ajuste[a].pide)
    BY <1>1, <1>2, <2>1
  <2> QED BY <2>1, <2>2 DEF ElSiguiente
<1>4. r \in AjusteBien /\ r.paso = "escribir" /\ r.pide = ajuste[a].pide /\ r.hechos = i
  <2>1. i \in Nat
    BY <1>2
  <2>2. \A n \in Nat :
          LET k == [ajuste[a] EXCEPT !.hechos = n]
          IN  /\ k \in AjusteBien /\ k.paso = "escribir"
              /\ k.pide = ajuste[a].pide /\ k.hechos = n
    BY <1>1, <1>2 DEF AjusteBien
  <2> QED BY <2>1, <2>2, Zenon
<1>5. r.hechos \in 0 .. Len(r.pide)
  <2>1. ajuste[a].pide \in Seq(Pedido)
    BY <1>2 DEF AjusteBien
  <2> QED BY <1>1, <1>2, <1>4, <2>1
<1>6. ajuste' = [ajuste EXCEPT ![a] = r]
  BY DEF EscribirItem
<1>7. UNCHANGED fila \/ fila' = [fila EXCEPT ![u.item] = a]
  BY DEF EscribirItem
<1>8. u.item \in Items
  BY <1>3 DEF Pedido
<1>9. /\ item' \in [Items -> Fila] /\ cuenta' \in [Items -> Cuenta]
      /\ fila' \in [Items -> PedidosStock \cup Ajustes \cup {Nadie}]
      /\ \A x \in Items : fila'[x] = fila[x] \/ (x = u.item /\ fila'[x] = a)
  BY <1>0, <1>1, <1>7, <1>8 DEF TiposStock, StockTypeOK
<1> HIDE DEF r
<1>10. TiposStock' /\ ajuste'[a] = r /\ \A b \in Ajustes \ {a} : ajuste'[b] = ajuste[b]
  BY <1>0, <1>1, <1>4, <1>5, <1>6, <1>9, AjusteQueda
<1>11. TomaEnOrden'
  BY <1>1, <1>9 DEF StockInv, TomaEnOrden
<1>12. TomaLoPedido'
  <2>1. SUFFICES ASSUME NEW b \in Ajustes, NEW x \in Items, fila'[x] = b
                 PROVE  /\ ajuste'[b].paso = "escribir"
                        /\ \E j \in DOMAIN ajuste'[b].pide : ajuste'[b].pide[j].item = x
    BY DEF TomaLoPedido
  <2>2. CASE b = a /\ x = u.item
    BY <1>3, <1>4, <1>10, <2>2
  <2>3. CASE fila[x] = b
    <3>1. /\ ajuste[b].paso = "escribir"
          /\ \E j \in DOMAIN ajuste[b].pide : ajuste[b].pide[j].item = x
      BY <2>3 DEF StockInv, TomaLoPedido
    <3>2. ajuste'[b].pide = ajuste[b].pide /\ ajuste'[b].paso = "escribir"
      BY <3>1, <1>4, <1>10
    <3> QED BY <3>1, <3>2
  <2> QED BY <1>9, <2>1, <2>2, <2>3
<1>13. StockCuadra' /\ AgotadoNoSePide'
  BY <1>1 DEF StockInv, StockCuadra, AgotadoNoSePide
<1> QED BY <1>10, <1>11, <1>12, <1>13 DEF StockInv

\* An adjustment that ends its transaction holds no row.
LEMMA AjusteSuelta ==
  ASSUME StockInv, NEW a \in Ajustes, fila' = Sueltas(a), UNCHANGED compra,
         \A b \in Ajustes \ {a} : ajuste'[b] = ajuste[b]
  PROVE  TomaEnOrden' /\ TomaLoPedido'
<1> USE StockAssumption
<1>1. TiposStock
  BY DEF StockInv
<1>2. \A x \in Items : fila'[x] = IF fila[x] = a THEN Nadie ELSE fila[x]
  BY <1>1, SueltasLibres
<1>3. \A x \in Items, t \in PedidosStock \cup Ajustes :
        fila'[x] = t => t # a /\ fila[x] = t
  BY <1>2
<1>4. TomaEnOrden'
  BY <1>3 DEF StockInv, TomaEnOrden
<1>5. TomaLoPedido'
  BY <1>3 DEF StockInv, TomaLoPedido
<1> QED BY <1>4, <1>5

\* A request that is done is of the type.
LEMMA HechoEs ==
  ASSUME TiposStock, NEW a \in Ajustes
  PROVE  /\ [ajuste[a] EXCEPT !.paso = "hecho"] \in AjusteBien
         /\ [ajuste[a] EXCEPT !.paso = "hecho"].hechos \in
              0 .. Len([ajuste[a] EXCEPT !.paso = "hecho"].pide)
BY AjusteTipo DEF AjusteBien

\* What the adjustment writes changes the row and its account together.
LEMMA ConfirmarAjusteConserva ==
  ASSUME StockInv, NEW a \in Ajustes, ConfirmarAjuste(a)
  PROVE  StockInv'
<1> USE StockAssumption
<1>0. TiposStock /\ StockTypeOK /\ TomaLoPedido
  BY DEF StockInv, TiposStock
<1> DEFINE nueva(x) == Escrita(a, LoPedido(a, x))
           leida(x) == ajuste[a].leido[x]
           r == [ajuste[a] EXCEPT !.paso = "hecho"]
<1>1. UNCHANGED <<compra, manos>> /\ fila' = Sueltas(a)
  BY DEF ConfirmarAjuste
<1>2. ajuste' = [ajuste EXCEPT ![a] = r]
  BY DEF ConfirmarAjuste
<1>3. ASSUME NEW x \in Items
      PROVE  /\ item'[x] = IF fila[x] = a THEN nueva(x) ELSE item[x]
             /\ cuenta'[x] =
                  IF fila[x] = a
                    THEN Ajustada(cuenta[x], leida(x), item[x], nueva(x))
                    ELSE cuenta[x]
             /\ item[x] \in Fila /\ cuenta[x] \in Cuenta
  BY <1>0 DEF ConfirmarAjuste, StockTypeOK
<1>4. ASSUME NEW x \in Items
      PROVE  /\ item'[x] \in Fila /\ cuenta'[x] \in Cuenta
             /\ cuenta'[x].pisado
                  \/ item'[x].stock
                       = cuenta'[x].cargado - (cuenta'[x].vendido - cuenta'[x].demas)
             /\ item'[x].controla /\ item'[x].stock = 0 /\ item'[x].disponible =>
                  cuenta'[x].aMano
  <2>1. CASE fila[x] = a
    <3>1. /\ nueva(x) \in Fila /\ leida(x) \in Fila
          /\ nueva(x).controla /\ nueva(x).disponible => nueva(x).stock > 0
      BY <1>0, <2>1, EscritaEs
    <3>2. PICK n \in Fila :
            n = nueva(x) /\ (n.controla /\ n.disponible => n.stock > 0)
      BY <3>1
    <3>3. PICK l \in Fila : l = leida(x)
      BY <3>1
    <3>4. PICK f \in Fila : f = item[x]
      BY <1>3
    <3>5. PICK k \in Cuenta : k = cuenta[x]
      BY <1>3
    <3> DEFINE c == Ajustada(k, l, f, n)
    <3>6. item'[x] = n /\ cuenta'[x] = c
      BY <1>3, <2>1, <3>2, <3>3, <3>4, <3>5
    <3>7. /\ c \in Cuenta
          /\ c.pisado \/ (~k.pisado /\ f.stock = l.stock)
          /\ c.vendido = k.vendido
          /\ c.demas = k.demas
          /\ c.cargado = k.cargado + n.stock - l.stock
      BY AjustadaCuadra
    <3> HIDE DEF c
    <3>8. k.pisado \/ f.stock = k.cargado - (k.vendido - k.demas)
      BY <3>4, <3>5 DEF StockInv, StockCuadra
    <3>9. /\ n.stock \in Int /\ l.stock \in Int /\ f.stock \in Int
          /\ k.cargado \in Int /\ k.vendido \in Int /\ k.demas \in Int
      BY DEF Fila, Cuenta
    <3>10. c.pisado \/ n.stock = c.cargado - (c.vendido - c.demas)
      BY <3>7, <3>8, <3>9
    <3>11. n.controla /\ n.disponible => n.stock # 0
      BY <3>2, <3>9
    <3> QED BY <3>6, <3>7, <3>10, <3>11, Zenon
  <2>2. CASE fila[x] # a
    BY <1>3, <2>2 DEF StockInv, StockCuadra, AgotadoNoSePide
  <2> QED BY <2>1, <2>2
<1>5. item' \in [Items -> Fila] /\ cuenta' \in [Items -> Cuenta]
  BY <1>4 DEF ConfirmarAjuste
<1>6. fila' \in [Items -> PedidosStock \cup Ajustes \cup {Nadie}]
  BY <1>0, <1>1, SueltasLibres
<1>7. r \in AjusteBien /\ r.hechos \in 0 .. Len(r.pide)
  BY <1>0, HechoEs
<1> HIDE DEF r
<1>8. TiposStock' /\ \A b \in Ajustes \ {a} : ajuste'[b] = ajuste[b]
  BY <1>0, <1>1, <1>2, <1>5, <1>6, <1>7, AjusteQueda
<1>9. TomaEnOrden' /\ TomaLoPedido'
  BY <1>1, <1>8, AjusteSuelta
<1>10. StockCuadra' /\ AgotadoNoSePide'
  BY <1>4 DEF StockCuadra, AgotadoNoSePide
<1> QED BY <1>8, <1>9, <1>10 DEF StockInv

\* An adjustment that fails leaves everything as it was.
LEMMA FallarAjusteConserva ==
  ASSUME StockInv, NEW a \in Ajustes, FallarAjuste(a)
  PROVE  StockInv'
<1> DEFINE r == [ajuste[a] EXCEPT !.paso = "hecho"]
<1>0. TiposStock /\ StockTypeOK
  BY DEF StockInv, TiposStock
<1>1. /\ UNCHANGED <<item, compra, cuenta, manos>> /\ fila' = Sueltas(a)
      /\ ajuste' = [ajuste EXCEPT ![a] = r]
  BY DEF FallarAjuste
<1>2. r \in AjusteBien /\ r.hechos \in 0 .. Len(r.pide)
  BY <1>0, HechoEs
<1>3. /\ fila' \in [Items -> PedidosStock \cup Ajustes \cup {Nadie}]
      /\ item' \in [Items -> Fila] /\ cuenta' \in [Items -> Cuenta]
  BY <1>0, <1>1, SueltasLibres DEF StockTypeOK
<1> HIDE DEF r
<1>4. TiposStock' /\ \A b \in Ajustes \ {a} : ajuste'[b] = ajuste[b]
  BY <1>0, <1>1, <1>2, <1>3, AjusteQueda
<1>5. TomaEnOrden' /\ TomaLoPedido'
  BY <1>1, <1>4, AjusteSuelta
<1>6. StockCuadra' /\ AgotadoNoSePide'
  BY <1>1 DEF StockInv, StockCuadra, AgotadoNoSePide
<1> QED BY <1>4, <1>5, <1>6 DEF StockInv

\* The switch changes no stock, and is noted.
LEMMA CambiarDisponibilidadConserva ==
  ASSUME StockInv, NEW x \in Items, NEW b \in BOOLEAN, CambiarDisponibilidad(x, b)
  PROVE  StockInv'
<1> USE StockAssumption
<1> DEFINE f == [item[x] EXCEPT !.disponible = b]
           am == (b /\ item[x].stock = 0)
           c == [cuenta[x] EXCEPT !.aMano = am]
<1>0. TiposStock /\ StockTypeOK
  BY DEF StockInv, TiposStock
<1>1. /\ UNCHANGED <<fila, compra, ajuste>> /\ manos' = manos + 1 /\ manos < MaxManos
      /\ item' = [item EXCEPT ![x] = f] /\ cuenta' = [cuenta EXCEPT ![x] = c]
  BY DEF CambiarDisponibilidad
<1>2. item[x] \in Fila /\ cuenta[x] \in Cuenta
  BY <1>0 DEF StockTypeOK
<1>3. /\ f \in Fila /\ f.stock = item[x].stock /\ f.disponible = b
  BY <1>2 DEF Fila
<1>4. /\ c \in Cuenta /\ c.pisado = cuenta[x].pisado /\ c.cargado = cuenta[x].cargado
      /\ c.vendido = cuenta[x].vendido /\ c.demas = cuenta[x].demas /\ c.aMano = am
  <2>1. am \in BOOLEAN
    OBVIOUS
  <2>2. \A e \in BOOLEAN :
          LET k == [cuenta[x] EXCEPT !.aMano = e]
          IN  /\ k \in Cuenta /\ k.pisado = cuenta[x].pisado
              /\ k.cargado = cuenta[x].cargado /\ k.vendido = cuenta[x].vendido
              /\ k.demas = cuenta[x].demas /\ k.aMano = e
    BY <1>2 DEF Cuenta
  <2> QED BY <2>1, <2>2, Zenon
<1> HIDE DEF f, c
<1>5. /\ item' \in [Items -> Fila] /\ cuenta' \in [Items -> Cuenta]
      /\ item'[x] = f /\ cuenta'[x] = c
      /\ \A y \in Items \ {x} : item'[y] = item[y] /\ cuenta'[y] = cuenta[y]
  BY <1>0, <1>1, <1>3, <1>4 DEF StockTypeOK
<1>6. TiposStock'
  <2>1. manos' \in 0 .. MaxManos
    BY <1>0, <1>1 DEF StockTypeOK
  <2> QED BY <1>0, <1>1, <1>5, <2>1, Zenon DEF TiposStock, StockTypeOK
<1>7. TomaEnOrden' /\ TomaLoPedido'
  BY <1>1 DEF StockInv, TomaEnOrden, TomaLoPedido
<1>8. StockCuadra'
  <2>1. ASSUME NEW y \in Items
        PROVE  \/ cuenta'[y].pisado
               \/ item'[y].stock
                    = cuenta'[y].cargado - (cuenta'[y].vendido - cuenta'[y].demas)
    <3>1. \/ cuenta[y].pisado
          \/ item[y].stock = cuenta[y].cargado - (cuenta[y].vendido - cuenta[y].demas)
      BY DEF StockInv, StockCuadra
    <3>2. /\ item'[y].stock = item[y].stock
          /\ cuenta'[y].pisado = cuenta[y].pisado
          /\ cuenta'[y].cargado = cuenta[y].cargado
          /\ cuenta'[y].vendido = cuenta[y].vendido
          /\ cuenta'[y].demas = cuenta[y].demas
      BY <1>3, <1>4, <1>5, Zenon
    <3> QED BY <3>1, <3>2
  <2> QED BY <2>1 DEF StockCuadra
<1>9. AgotadoNoSePide'
  <2>1. ASSUME NEW y \in Items, item'[y].controla, item'[y].stock = 0,
               item'[y].disponible
        PROVE  cuenta'[y].aMano
    <3>1. CASE y = x
      BY <1>3, <1>4, <1>5, <2>1, <3>1, Zenon
    <3>2. CASE y # x
      BY <1>5, <2>1, <3>2 DEF StockInv, AgotadoNoSePide
    <3> QED BY <3>1, <3>2
  <2> QED BY <2>1 DEF AgotadoNoSePide
<1> QED BY <1>6, <1>7, <1>8, <1>9 DEF StockInv

-----------------------------------------------------------------------------
(* The theorems *)

\* Every step keeps the invariant.
LEMMA StockPaso == StockInv /\ [StockNext]_stockVars => StockInv'
<1> SUFFICES ASSUME StockInv, [StockNext]_stockVars PROVE StockInv'
  OBVIOUS
<1>1. CASE UNCHANGED stockVars
  <2>1. UNCHANGED <<item, fila, compra, ajuste, cuenta, manos>>
    BY <1>1 DEF stockVars
  <2>2. TiposStock'
    BY <2>1, Zenon DEF StockInv, TiposStock, StockTypeOK
  <2>3. TomaEnOrden' /\ TomaLoPedido'
    BY <2>1 DEF StockInv, TomaEnOrden, TomaLoPedido
  <2>4. StockCuadra' /\ AgotadoNoSePide'
    BY <2>1 DEF StockInv, StockCuadra, AgotadoNoSePide
  <2> QED BY <2>2, <2>3, <2>4 DEF StockInv
<1>2. ASSUME NEW p \in PedidosStock,
             \/ VerificarPedido(p) \/ EmpezarConfirmacion(p) \/ TomarFila(p)
             \/ Descontar(p) \/ FallarConfirmacion(p)
      PROVE  StockInv'
  BY <1>2, EmpezarConserva, TomarFilaConserva, DescontarConserva,
     FallarConfirmacionConserva
<1>3. ASSUME NEW a \in Ajustes,
             \/ LeerItems(a) \/ EscribirItem(a) \/ ConfirmarAjuste(a)
             \/ FallarAjuste(a)
      PROVE  StockInv'
  BY <1>3, LeerItemsConserva, EscribirItemConserva, ConfirmarAjusteConserva,
     FallarAjusteConserva
<1>4. ASSUME NEW x \in Items, NEW b \in BOOLEAN, CambiarDisponibilidad(x, b)
      PROVE  StockInv'
  BY <1>4, CambiarDisponibilidadConserva
<1> QED BY <1>1, <1>2, <1>3, <1>4, Zenon DEF StockNext

\* The invariant holds in every state.
THEOREM StockSpecInv == StockSpec => []StockInv
<1>1. StockInit => StockInv
  BY StockInicio
<1>2. StockInv /\ [StockNext]_stockVars => StockInv'
  BY StockPaso
<1> QED BY <1>1, <1>2, PTL DEF StockSpec

\* Units add up for any menu, orders and adjustments: no discount is lost and
\* none is done twice, except where an adjustment wrote from a stale read.
THEOREM UnidadesCuadran == StockSpec => []StockCuadra
<1>1. StockInv => StockCuadra
  BY DEF StockInv
<1> QED BY <1>1, StockSpecInv, PTL

\* An item that is out of stock is not offered, unless by hand.
THEOREM AgotadoNoSeOfrece == StockSpec => []AgotadoNoSePide
<1>1. StockInv => AgotadoNoSePide
  BY DEF StockInv
<1> QED BY <1>1, StockSpecInv, PTL

\* Two payments that lock their items by id never wait for each other: the row
\* that each one asks for is after all those that it holds.
THEOREM SinTrabaEntrePagos == StockSpec => []PagosNoSeTraban
<1>1. StockInv => PagosNoSeTraban
  <2> SUFFICES ASSUME StockInv, NEW p \in PedidosStock, NEW q \in PedidosStock,
                      EsperaA(p, q), EsperaA(q, p)
               PROVE  FALSE
    BY DEF PagosNoSeTraban
  <2>1. compra[p].tomadas \in Nat /\ compra[q].tomadas \in Nat
    BY StockAssumption DEF StockInv, TiposStock, StockTypeOK, Compra
  <2>2. compra[p].tomadas + 1 <= compra[q].tomadas
    BY DEF StockInv, TomaEnOrden, EsperaA, ProximaFila
  <2>3. compra[q].tomadas + 1 <= compra[p].tomadas
    BY DEF StockInv, TomaEnOrden, EsperaA, ProximaFila
  <2> QED BY <2>1, <2>2, <2>3
<1> QED BY <1>1, StockSpecInv, PTL

=============================================================================
