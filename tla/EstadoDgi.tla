----------------------------- MODULE EstadoDgi -----------------------------
(***************************************************************************)
(* The state before the tax office (DGI) of the fiscal documents that were *)
(* saved.  Every replica runs a job that reads the ones still PENDIENTE,   *)
(* asks Surtec about all of them in one call, and then, in another         *)
(* transaction, writes the states that are final.  Once that commits it    *)
(* counts the rows that changed, and warns about the rejected ones.  What  *)
(* Surtec says of a document may change from one call to the next: DGI     *)
(* receives them in batches, and answers when it wants.                    *)
(***************************************************************************)
EXTENDS Naturals

CONSTANTS
  Cfes,        \* rows of comprobante_fiscal
  ReplicasDgi, \* processes that run the job
  MaxCorridas, \* bound: runs of the job that find something to ask
  Nulo         \* no state

\* DGI's codes AE, BE and CE; any other one means no answer yet.
Definitivos == {"ACEPTADO", "RECHAZADO", "OBSERVADO"}

ASSUME EstadoDgiAssumption ==
  /\ Nulo \notin Definitivos \cup {"PENDIENTE"}
  /\ MaxCorridas \in Nat

VARIABLES
  estadoDgi,   \* [Cfes -> Nulo, before it is saved, or its state]
  leidos,      \* [ReplicasDgi -> what the run read as PENDIENTE]
  cambios,     \* [ReplicasDgi -> final states that the run was told]
  aplicados,   \* [ReplicasDgi -> rows that it changed, still to be counted]
  contado,     \* history: [Cfes -> runs that counted it as actualizado]
  sinContar,   \* history: rows changed by a run that ended before counting them
  corridas     \* how much of MaxCorridas is used

dgiVars == <<estadoDgi, leidos, cambios, aplicados, contado, sinContar, corridas>>

\* The states that a run was told: a function of some of what it read.
CambiosDe(cs) == UNION {[ds -> Definitivos] : ds \in SUBSET cs}

SinCambios == [c \in {} |-> "ACEPTADO"]

DgiTypeOK ==
  /\ estadoDgi \in [Cfes -> Definitivos \cup {"PENDIENTE", Nulo}]
  /\ leidos \in [ReplicasDgi -> SUBSET Cfes]
  /\ cambios \in [ReplicasDgi -> CambiosDe(Cfes)]
  /\ \A i \in ReplicasDgi : DOMAIN cambios[i] \subseteq leidos[i]
  /\ aplicados \in [ReplicasDgi -> SUBSET Cfes]
  /\ contado \in [Cfes -> Nat]
  /\ sinContar \subseteq Cfes
  /\ corridas \in 0 .. MaxCorridas

DgiInit ==
  /\ estadoDgi = [c \in Cfes |-> Nulo]
  /\ leidos = [i \in ReplicasDgi |-> {}]
  /\ cambios = [i \in ReplicasDgi |-> SinCambios]
  /\ aplicados = [i \in ReplicasDgi |-> {}]
  /\ contado = [c \in Cfes |-> 0]
  /\ sinContar = {}
  /\ corridas = 0

\* CfeService saves a document.
SeGuarda(c) ==
  /\ estadoDgi[c] = Nulo
  /\ estadoDgi' = [estadoDgi EXCEPT ![c] = "PENDIENTE"]
  /\ UNCHANGED <<leidos, cambios, aplicados, contado, sinContar, corridas>>

Pendientes == {c \in Cfes : estadoDgi[c] = "PENDIENTE"}

\* The run of a replica reads what is pending; with nothing, it ends.  One that
\* is too old is not read: it is as good as one that Surtec does not find.
LeerPendientes(i) ==
  /\ leidos[i] = {} /\ aplicados[i] = {}
  /\ Pendientes # {}
  /\ corridas < MaxCorridas
  /\ corridas' = corridas + 1
  /\ leidos' = [leidos EXCEPT ![i] = Pendientes]
  /\ UNCHANGED <<estadoDgi, cambios, aplicados, contado, sinContar>>

Acabar(i) ==
  /\ leidos' = [leidos EXCEPT ![i] = {}]
  /\ cambios' = [cambios EXCEPT ![i] = SinCambios]

\* Surtec answers: some of the documents have a final state, the others are
\* not found or have no answer.  An error, or nothing final, ends the run.
ConsultarEmitidos(i) ==
  /\ leidos[i] # {}
  /\ cambios[i] = SinCambios
  /\ \/ \E r \in CambiosDe(leidos[i]) \ {SinCambios} :
          /\ cambios' = [cambios EXCEPT ![i] = r]
          /\ UNCHANGED leidos
     \/ Acabar(i)
  /\ UNCHANGED <<estadoDgi, aplicados, contado, sinContar, corridas>>

\* Seeded defect: the state is written whatever it was.
TodosLosCambios(i) == DOMAIN cambios[i]

\* UPDATE ... WHERE estado_dgi = 'PENDIENTE', row by row in a transaction.
Actualizables(i) == {c \in DOMAIN cambios[i] : estadoDgi[c] = "PENDIENTE"}

\* The transaction commits.  If nothing changed there is nothing to count.
AplicarCambios(i) ==
  /\ cambios[i] # SinCambios
  /\ estadoDgi' = [c \in Cfes |-> IF c \in Actualizables(i)
                                    THEN cambios[i][c] ELSE estadoDgi[c]]
  /\ aplicados' = [aplicados EXCEPT ![i] = Actualizables(i)]
  /\ Acabar(i)
  /\ UNCHANGED <<contado, sinContar, corridas>>

\* The rows that changed are counted, and the rejected ones warned about.
ContarCambios(i) ==
  /\ aplicados[i] # {}
  /\ contado' = [c \in Cfes |-> IF c \in aplicados[i] THEN contado[c] + 1 ELSE contado[c]]
  /\ aplicados' = [aplicados EXCEPT ![i] = {}]
  /\ UNCHANGED <<estadoDgi, leidos, cambios, sinContar, corridas>>

\* The replica dies, or the transaction fails, or it commits and its answer is
\* lost: what it wrote stays, and nobody counts it.
AbandonarCorrida(i) ==
  /\ leidos[i] # {} \/ aplicados[i] # {}
  /\ Acabar(i)
  /\ sinContar' = sinContar \cup aplicados[i]
  /\ aplicados' = [aplicados EXCEPT ![i] = {}]
  /\ UNCHANGED <<estadoDgi, contado, corridas>>

DgiNext ==
  \/ \E c \in Cfes : SeGuarda(c)
  \/ \E i \in ReplicasDgi :
       \/ LeerPendientes(i) \/ ConsultarEmitidos(i)
       \/ AplicarCambios(i) \/ ContarCambios(i) \/ AbandonarCorrida(i)

DgiSpec == DgiInit /\ [][DgiNext]_dgiVars

-----------------------------------------------------------------------------
(* Properties *)

\* However the runs of the replicas overlap, a document is counted (and its
\* rejection announced) at most once, and only with its final state («dos
\* corridas a la vez no lo cambian dos veces», estado-dgi.service.ts:47); and it
\* is counted, unless the run that wrote its state is still to do it, or ended
\* between the commit and the count.
CadaEstadoSeCuentaUnaVez ==
  \A c \in Cfes :
    /\ contado[c] <= IF estadoDgi[c] \in Definitivos THEN 1 ELSE 0
    /\ \/ contado[c] = 1
       \/ estadoDgi[c] \notin Definitivos
       \/ c \in sinContar \cup UNION {aplicados[i] : i \in ReplicasDgi}

\* A final state stays: a run that asked before, and was told something else,
\* does not write over it.
EstadoDefinitivoNoCambia ==
  [][\A c \in Cfes : estadoDgi[c] \in Definitivos
       => estadoDgi'[c] = estadoDgi[c]]_dgiVars

=============================================================================
