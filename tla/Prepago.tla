------------------------------- MODULE Prepago -------------------------------
(***************************************************************************)
(* What the payment side of BistroLink promises about one order, whatever  *)
(* the tables, retries, notifications and races behind it: the kitchen     *)
(* only receives an order once money for it was taken, an order it has     *)
(* received is never cancelled, nor confirmed a second time, and an order  *)
(* that was cancelled never reaches it.  Pagos.tla implements this module. *)
(***************************************************************************)
CONSTANT Pedidos

VARIABLES
  fase,     \* [Pedidos -> Fases]
  cobrado   \* the orders for which money was taken at least once

vars == <<fase, cobrado>>

Fases == {"sin_pagar", "en_cocina", "entregado", "cancelado"}

TypeOK ==
  /\ fase \in [Pedidos -> Fases]
  /\ cobrado \subseteq Pedidos

Init ==
  /\ fase = [p \in Pedidos |-> "sin_pagar"]
  /\ cobrado = {}

Pasa(p, desde, hasta) ==
  /\ fase[p] = desde
  /\ fase' = [fase EXCEPT ![p] = hasta]

\* The gateway takes the money, with or without anybody knowing yet.
Cobrar(p) ==
  /\ cobrado' = cobrado \cup {p}
  /\ UNCHANGED fase

\* A card charge already made is recognised, or cash is handed over.
Confirmar(p) ==
  /\ Pasa(p, "sin_pagar", "en_cocina")
  /\ cobrado' \in {cobrado, cobrado \cup {p}}
  /\ p \in cobrado'

Entregar(p) ==
  /\ Pasa(p, "en_cocina", "entregado")
  /\ UNCHANGED cobrado

\* A transition decided before the delivery and written after it.
Volver(p) ==
  /\ Pasa(p, "entregado", "en_cocina")
  /\ UNCHANGED cobrado

\* Closing a table cancels all its unpaid orders at once.
Cancelar(ps) ==
  /\ \A p \in ps : fase[p] = "sin_pagar"
  /\ fase' = [p \in Pedidos |-> IF p \in ps THEN "cancelado" ELSE fase[p]]
  /\ UNCHANGED cobrado

Next ==
  \/ \E p \in Pedidos : Cobrar(p) \/ Confirmar(p) \/ Entregar(p) \/ Volver(p)
  \/ \E ps \in SUBSET Pedidos : Cancelar(ps)

Spec == Init /\ [][Next]_vars

=============================================================================
