------------------------------ MODULE MC_Pagos ------------------------------
(***************************************************************************)
(* Small instances of Pagos for TLC: one or two orders, up to two attempts *)
(* by card (k1, k2) and one in cash (e1).                                  *)
(***************************************************************************)
EXTENDS Pagos, TLC

CONSTANTS m1, p1, p2, k1, k2, e1

\* Both orders, or the only one, of the same table.
EnUnaMesa == [p \in Pedidos |-> m1]

\* Every attempt pays the same order.
PorUnPedido == [k \in Claves |-> p1]

\* Two diners of the same table, each with an order.
CadaUnoElSuyo == k1 :> p1 @@ k2 :> p2

MedioDeCadaUno ==
  [k \in Claves |-> IF k = e1 THEN "EFECTIVO" ELSE "MERCADOPAGO"]

\* k1 and k2 are interchangeable when both pay the same order.
Tarjetas == Permutations({k1, k2})

=============================================================================
