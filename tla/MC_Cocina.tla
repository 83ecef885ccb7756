----------------------------- MODULE MC_Cocina ------------------------------
(***************************************************************************)
(* The queue of the kitchen and the setting up of restaurants, checked     *)
(* together: both are sequences of steps that must reach their end.  They  *)
(* share no state, so a behaviour is of one of them, chosen at the         *)
(* beginning, and the other one stays as it begins: the states are added,  *)
(* and not multiplied.  The requests for restaurants differ in nothing:    *)
(* the first one that is sent is always the same.                          *)
(***************************************************************************)
EXTENDS Cocina, Altas

\* Two restaurants whose requests name the same administrator.
MC_Datos ==
  {[rut |-> "rut1", admin |-> "ana", cocina |-> "cocina1"],
   [rut |-> "rut2", admin |-> "ana", cocina |-> "cocina2"]}

VARIABLE parte

MC_Init == parte \in {"cola", "altas"} /\ Init /\ AltasInit

MC_Next ==
  \/ parte = "cola" /\ Next /\ UNCHANGED <<parte, altasVars>>
  \/ /\ parte = "altas" /\ AltasNext /\ UNCHANGED <<parte, vars>>
     /\ gastado.pedidas = 0 => \A d \in quiere' : d.rut = "rut1"

\* The fairness of each part asks nothing of the other one: no transaction has
\* begun, and nobody has asked for a restaurant.
MC_Spec ==
  /\ MC_Init
  /\ [][MC_Next]_<<parte, vars, altasVars>>
  /\ \A t \in Txs : SF_vars(Seguir(t) \/ AbrazoMortal(t))
  /\ AltasFairness

=============================================================================
