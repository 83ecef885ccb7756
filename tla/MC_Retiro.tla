----------------------------- MODULE MC_Retiro ------------------------------
(***************************************************************************)
(* Two attempts to pay an order; what an administrator sees of the stock;  *)
(* and what the kitchen and the diner see of the orders.                   *)
(* They share no state, so a behaviour is of one of them, chosen at the    *)
(* beginning, and the others stay as they begin: the states are added, and *)
(* not multiplied.                                                         *)
(*                                                                         *)
(* Of the stock, the page is alone or the bell is, which share only the    *)
(* server: with events on one item, or fewer and no failure on both, which *)
(* nothing tells apart at the beginning.                                   *)
(*                                                                         *)
(* Of the orders: a board that is opened, cut and restarted while one      *)
(* request of its own after the other changes them, and followed after an  *)
(* error only until it is opened again; one that is open before it         *)
(* connects, and two requests at once of another board; and the page of a  *)
(* diner.                                                                  *)
(***************************************************************************)
EXTENDS MC_Pagos, Jornada, Tablero

CONSTANTS MC_Quieto, q1, u1

MC_Sigue == [d \in Seguidores |-> q1]

\* The parts about the screens of the orders.
MC_Pantallas == {"tablero", "cruces", "seguimiento"}

VARIABLES parte, quien, cuantos

MC_Init ==
  /\ parte \in {"retiro", "jornada"} \cup MC_Pantallas
  /\ quien \in LectoresStock /\ cuantos \in {"uno", "todos"}
  /\ Init /\ JornadaInit /\ TableroInit
  /\ parte \notin MC_Pantallas => tope = SinCola
  /\ parte # "jornada" =>
       /\ quien = Pantalla /\ cuantos = "uno"
       /\ \A a \in Articulos : articulo[a].stock = 0

\* Whether the server may still change something: as below, but looked at first.
MC_QuedaAlgo ==
  IF cuantos = "uno" THEN consumo.ventas = 0
  ELSE consumo.ventas + consumo.ajustes + consumo.guardados < 2

MC_Quien ==
  \/ MC_QuedaAlgo /\ ServidorNext
  \/ quien = Pantalla /\ PantallaNext
  \/ quien = Campana /\ CampanaNext

\* The first item that something happens to is always the same.
MC_EmpiezaElOtro ==
  consumo.ventas + consumo.ajustes + consumo.tecleos = 0 =>
    articulo'[MC_Quieto] = articulo[MC_Quieto] /\ tecleado'[MC_Quieto] = tecleado[MC_Quieto]

MC_Jornada ==
  /\ MC_Quien
  /\ MC_EmpiezaElOtro
  /\ cuantos = "uno" =>
       /\ consumo'.ventas <= 1 /\ consumo'.ajustes = 0
       /\ consumo'.tecleos + consumo'.fallos <= 2
       /\ articulo'[MC_Quieto] = articulo[MC_Quieto]
       /\ tecleado'[MC_Quieto] = tecleado[MC_Quieto]
  /\ cuantos = "todos" =>
       /\ consumo'.ventas + consumo'.ajustes + consumo'.guardados <= 2
       /\ consumo'.tecleos <= 1 /\ consumo'.fallos = 0

\* A board does not tell one order from the other.
MC_PrimeroQ1 == llegada'[q1] > 0 \/ \A o \in Ordenes : llegada'[o] = 0

MC_Tablero ==
  \/ /\ parte = "tablero"
     /\ TableroNext
     /\ MC_PrimeroQ1
     /\ seguidor' = seguidor
     /\ \A h \in Pases \ {u1} : pase'[h] = pase[h]
     /\ \A w \in Tableros :
          /\ pase[u1].fase = "libre" /\ pase'[u1].fase = "leyo" =>
               pase'[u1].de = {w} \/ ~tablero[w].conectado
          /\ tablero[w].error => ~tablero'[w].montado
  \/ /\ parte = "cruces"
     /\ TableroNext
     /\ MC_PrimeroQ1
     /\ seguidor' = seguidor /\ vistas' = vistas
     /\ \A w \in Tableros : tablero'[w].conectado => tablero'[w].montado
     /\ \A h \in Pases : pase'[h].de = {}
  \/ /\ parte = "seguimiento"
     /\ TableroNext
     /\ tablero' = tablero

MC_Next ==
  /\ \/ parte = "retiro" /\ Next /\ UNCHANGED <<jornadaVars, tableroVars>>
     \/ parte = "jornada" /\ MC_Jornada /\ UNCHANGED <<vars, tableroVars>>
     \/ MC_Tablero /\ UNCHANGED <<vars, jornadaVars>>
  /\ UNCHANGED <<parte, quien, cuantos>>

MC_Spec ==
  /\ MC_Init
  /\ [][MC_Next]_<<parte, quien, cuantos, vars, jornadaVars, tableroVars>>

=============================================================================
