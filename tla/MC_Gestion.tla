----------------------------- MODULE MC_Gestion -----------------------------
(***************************************************************************)
(* The restaurant, day by day: its staff, the cache of its state, its      *)
(* menu, the page of its diners, its reports, the map of its tables, and   *)
(* who waits for whom among the transactions of payments and tables.       *)
(* They share no state, so a behaviour is of one of them, chosen at the    *)
(* beginning, and the other ones stay as they begin: the states are added, *)
(* and not multiplied.  The menu is of two: its categories with no page,   *)
(* and its pages with no change of a category.  So is the map: one page    *)
(* with failures, and two pages with none and one edition fewer.           *)
(* In the reports one payment is approved again after its refund, once;    *)
(* the replicas of the job differ in nothing, and the same one is first.   *)
(* The page of a diner that notifies the waiter and reloads has one order. *)
(* Of the transactions, some order is unpaid at the beginning, and three   *)
(* run at once only if none is of the kinds that CobrosNoSeTraban leaves   *)
(* out and that change no order: such a one only makes the others wait.    *)
(***************************************************************************)
EXTENDS Personal, EstadoTenant, Carta, Comensal, Resumen, Mapa, Trabas, TLC

CONSTANTS o1, j1, t1, e1

\* Two payments of an order: the second one after the first was rejected.
MC_CompradoDe == [v \in Ventas |-> o1]

MC_DeAntes == <<t1>>

\* An order of two items and one that shares one of them.
MC_PlatosDe == <<{1, 2}, {2}>>

\* Carts differ in nothing.
MC_Simetria == Permutations(Carritos)

VARIABLE parte

MC_Init ==
  /\ parte \in {"personal", "tenant", "secciones", "paginas", "comensal", "resumen", "mapa",
               "mapas", "trabas"}
  /\ PersonalInit /\ TenantInit /\ CartaInit /\ ComensalInit /\ ResumenInit /\ MapaInit
  /\ TrabasInit
  /\ parte # "personal" => \A p \in Personas : EsAdminActivo(p)
  /\ parte # "trabas" => \A c \in Comandas : comanda[c] = "PENDIENTE_PAGO"
  /\ \E c \in Comandas : comanda[c] = "PENDIENTE_PAGO"

MC_Next ==
  \/ /\ parte = "personal" /\ PersonalNext
     /\ UNCHANGED <<parte, tenantVars, cartaVars, comensalVars, resumenVars, mapaVars, trabasVars>>
  \/ /\ parte = "tenant" /\ TenantNext
     /\ UNCHANGED <<parte, personalVars, cartaVars, comensalVars, resumenVars, mapaVars, trabasVars>>
  \/ /\ parte = "secciones" /\ CartaNext /\ UNCHANGED paginaVars
     /\ UNCHANGED <<parte, personalVars, tenantVars, comensalVars, resumenVars, mapaVars, trabasVars>>
  \/ /\ parte = "paginas" /\ CartaNext /\ UNCHANGED <<seccion, archivando>>
     /\ UNCHANGED <<parte, personalVars, tenantVars, comensalVars, resumenVars, mapaVars, trabasVars>>
  \/ /\ parte = "comensal" /\ ComensalNext
     /\ UNCHANGED <<parte, personalVars, tenantVars, cartaVars, resumenVars, mapaVars, trabasVars>>
     /\ recargas' = 0 \/ avisos' = 0 \/ encargo'[MaxComandas].estado = "no"
  \/ /\ parte = "resumen" /\ ResumenNext
     /\ UNCHANGED <<parte, personalVars, tenantVars, cartaVars, comensalVars, mapaVars, trabasVars>>
     /\ \A v \in retomadas : retomadas' = {v} /\ venta'[v].estado # "REEMBOLSADO"
     /\ \A j \in Jobs : vueltas'[j] <= vueltas'[j1]
  \/ /\ parte = "mapa" /\ MapaNext
     /\ UNCHANGED <<parte, personalVars, tenantVars, cartaVars, comensalVars, resumenVars, trabasVars>>
     /\ \A a \in Editores \ {e1} : UNCHANGED editor[a]
  \/ /\ parte = "mapas" /\ MapaNext
     /\ UNCHANGED <<parte, personalVars, tenantVars, cartaVars, comensalVars, resumenVars, trabasVars>>
     /\ gastado'.ediciones < MaxEdiciones /\ gastado'.percances = 0
  \/ /\ parte = "trabas" /\ TrabasNext
     /\ UNCHANGED <<parte, personalVars, tenantVars, cartaVars, comensalVars, resumenVars, mapaVars>>
     /\ (\A t \in Transacciones : EnMarcha(t))' =>
          \A t \in Transacciones : tr'[t].que \notin SinOrden \ {"mover"}

MC_Spec ==
  /\ MC_Init
  /\ [][MC_Next]_<<parte, personalVars, tenantVars, cartaVars, comensalVars, resumenVars, mapaVars,
         trabasVars>>

=============================================================================
