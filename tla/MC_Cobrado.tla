----------------------------- MODULE MC_Cobrado -----------------------------
(***************************************************************************)
(* What goes with a payment, checked together: its fiscal document, the    *)
(* state of the document before the tax office, the stock, and the alerts  *)
(* of the dining room.  They share no state, so a behaviour is of one of   *)
(* them, chosen at the beginning, and the other ones stay as they begin:   *)
(* the states are added, and not multiplied.                               *)
(***************************************************************************)
EXTENDS Cfe, EstadoDgi, Stock, Avisos, TLC

CONSTANTS v1, v2, m1

\* Two orders that take the two items between them.
MC_CantidadPedida == v1 :> <<1, 1>> @@ v2 :> <<2, 1>>

MC_StockInicial == <<2, 1>>

MC_MesaDe == [p \in PedidosEfectivo |-> m1]

VARIABLE parte

MC_Init ==
  /\ parte \in {"cfe", "dgi", "stock", "avisos"}
  /\ CfeInit /\ DgiInit /\ StockInit /\ AvisosInit
  /\ parte # "cfe" => \A p \in Pagos : pago[p].receptor

MC_Next ==
  \/ /\ parte = "cfe" /\ CfeNext
     /\ UNCHANGED <<parte, dgiVars, stockVars, avisosVars>>
  \/ /\ parte = "dgi" /\ DgiNext
     /\ UNCHANGED <<parte, cfeVars, stockVars, avisosVars>>
  \/ /\ parte = "stock" /\ StockNext
     /\ UNCHANGED <<parte, cfeVars, dgiVars, avisosVars>>
  \/ /\ parte = "avisos" /\ AvisosNext
     /\ UNCHANGED <<parte, cfeVars, dgiVars, stockVars>>

\* The fairness of the fiscal documents asks nothing of the other parts: what
\* it is about begins with the approval of a payment.
MC_Spec ==
  /\ MC_Init
  /\ [][MC_Next]_<<parte, cfeVars, dgiVars, stockVars, avisosVars>>
  /\ CfeFairness

=============================================================================
