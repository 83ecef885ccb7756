-------------------------------- MODULE Cfe --------------------------------
(***************************************************************************)
(* The fiscal document (CFE) of an approved payment.  Whoever approves the *)
(* payment starts its emission in the background: an e-Factura if the      *)
(* diner gave a RUT, or else an e-Ticket, asked to Surtec over HTTP and    *)
(* then saved.  A 4xx answer to the e-Factura turns it into an e-Ticket    *)
(* with a key of its own.  What fails is retried: twice by the emission    *)
(* itself, later by a periodic job, and by hand by the administrator.      *)
(*                                                                         *)
(* Several replicas of the backend run; each keeps in memory which         *)
(* payments it is emitting, and forgets them when it dies.  An answer of   *)
(* Surtec may be lost after the document was issued.  Payments are         *)
(* numbered in the order of their creation.                                *)
(***************************************************************************)
EXTENDS Integers, FiniteSets

CONSTANTS
  NPagosCfe,      \* number of payments
  Replicas,       \* processes of the backend
  ReintentosFondo,\* retries of an emission in the background
  MaxIntentosCfe, \* failures after which the job leaves a payment alone
  Lote,           \* payments that a run of the job retries
  MaxPercances    \* bound on repeated notifications, retries by hand,
                  \* crashes and failed writes of an attempt, in all

ASSUME CfeAssumption ==
  /\ NPagosCfe \in Nat
  /\ ReintentosFondo \in Nat
  /\ MaxIntentosCfe \in Nat
  /\ Lote \in Nat \ {0}
  /\ MaxPercances \in Nat

Pagos == 1 .. NPagosCfe

VARIABLES
  pago,         \* [Pagos -> Pago], with the receptor of its order
  comprobantes, \* rows of comprobante_fiscal
  documentos,   \* what Surtec has issued
  em,           \* enCurso: [Replicas -> [Pagos -> Emision]]
  corrida,      \* [Replicas -> payments left to the run of the job]
  manual,       \* <<i, p>>: the administrator's retry passed its checks
  dijo,         \* history: what Surtec has answered to the e-Factura
  percances     \* how much of MaxPercances is used

cfeVars ==
  <<pago, comprobantes, documentos, em, corrida, manual, dijo, percances>>

-----------------------------------------------------------------------------
(* Types *)

\* "bl": the key bl-<id>.  "bl-et": the e-Ticket in place of an e-Factura.
Sufijos == {"bl", "bl-et"}
Tipos == {"101", "111"}

\* reciente: its last attempt, or its creation, is too near for the next one.
\* vencido: it was approved too many days ago.
Pago ==
  [estado : {"PENDIENTE", "APROBADO"}, receptor : BOOLEAN,
   anonimizado : BOOLEAN, intentos : Nat, reciente : BOOLEAN,
   vencido : BOOLEAN]

Documento == [pago : Pagos, sufijo : Sufijos, tipo : Tipos]

Fases == {"nada", "leer", "efactura", "eticket", "guardar", "registrar"}

\* quedan: the retries that the emission has left.
Emision ==
  [fase : Fases, quedan : 0 .. ReintentosFondo, sufijo : Sufijos, tipo : Tipos]

UnaEmision(fase, quedan, sufijo, tipo) ==
  [fase |-> fase, quedan |-> quedan, sufijo |-> sufijo, tipo |-> tipo]

SinEmision == UnaEmision("nada", 0, "bl", "101")

CfeTypeOK ==
  /\ pago \in [Pagos -> Pago]
  /\ comprobantes \subseteq Documento
  /\ documentos \subseteq Documento
  /\ em \in [Replicas -> [Pagos -> Emision]]
  /\ corrida \in [Replicas -> SUBSET Pagos]
  /\ manual \subseteq Replicas \X Pagos
  /\ dijo \in [Pagos -> SUBSET {"acepto", "rechazo"}]
  /\ percances \in 0 .. MaxPercances

PagoNuevo(conReceptor) ==
  [estado |-> "PENDIENTE", receptor |-> conReceptor, anonimizado |-> FALSE,
   intentos |-> 0, reciente |-> FALSE, vencido |-> FALSE]

CfeInit ==
  /\ \E conReceptor \in [Pagos -> BOOLEAN] :
       pago = [p \in Pagos |-> PagoNuevo(conReceptor[p])]
  /\ comprobantes = {}
  /\ documentos = {}
  /\ em = [i \in Replicas |-> [p \in Pagos |-> SinEmision]]
  /\ corrida = [i \in Replicas |-> {}]
  /\ manual = {}
  /\ dijo = [p \in Pagos |-> {}]
  /\ percances = 0

-----------------------------------------------------------------------------
(* Helpers *)

TieneComprobante(p) == \E c \in comprobantes : c.pago = p

RequiereAtencion(p) == pago[p].intentos >= MaxIntentosCfe \/ pago[p].vencido

EnCurso(i, p) == em[i][p].fase # "nada"

EnFase(i, p, fase) == em[i][p].fase = fase

Pasa(i, p, e) == em' = [em EXCEPT ![i][p] = e]

\* The payment that the run of the job is waiting for.
EsElPrimero(i, p) == p \in corrida[i] /\ \A q \in corrida[i] : p <= q

\* The promise of the emission settles: it leaves the map, and the run that
\* waits for it goes on with its next payment.
Termina(i, p) ==
  /\ Pasa(i, p, SinEmision)
  /\ corrida' = IF EsElPrimero(i, p)
                  THEN [corrida EXCEPT ![i] = @ \ {p}] ELSE corrida

\* intentarDesde: a transient error is retried while there are waits left.
Falla(i, p, transitorio) ==
  /\ IF transitorio /\ em[i][p].quedan > 0
       THEN Pasa(i, p, UnaEmision("leer", em[i][p].quedan - 1, "bl", "101"))
       ELSE Pasa(i, p, UnaEmision("registrar", 0, "bl", "101"))
  /\ UNCHANGED corrida

ConClave(ds, p, s) == {d \in ds : d.pago = p /\ d.sufijo = s}

\* Surtec: one document per id_externo, whatever is asked again with it.
SurtecEmite(p, s, t) ==
  documentos' = IF ConClave(documentos, p, s) = {}
                  THEN documentos \cup {[pago |-> p, sufijo |-> s, tipo |-> t]}
                  ELSE documentos

\* Surtec issues it, and the answer arrives, is lost, or cannot be read.
Emitido(i, p, s, t) ==
  /\ SurtecEmite(p, s, t)
  /\ \/ /\ Pasa(i, p, UnaEmision("guardar", em[i][p].quedan, s, t))
        /\ UNCHANGED corrida
     \/ \E transitorio \in BOOLEAN : Falla(i, p, transitorio)

\* Nothing was issued: no answer, a 5xx, or the credentials were refused.
NoEmitido(i, p) ==
  /\ UNCHANGED documentos
  /\ \E transitorio \in BOOLEAN : Falla(i, p, transitorio)

UnPercance == percances < MaxPercances /\ percances' = percances + 1

-----------------------------------------------------------------------------
(* Triggers *)

\* emitirConReintentos: an emission in progress in this replica is joined.
EmpiezaEnFondo(i, p) ==
  em' = IF EnCurso(i, p) THEN em
        ELSE [em EXCEPT ![i][p] = UnaEmision("leer", ReintentosFondo, "bl", "101")]

\* reintentar: a single attempt.
EmpiezaUnIntento(i, p) ==
  em' = IF EnCurso(i, p) THEN em
        ELSE [em EXCEPT ![i][p] = UnaEmision("leer", 0, "bl", "101")]

\* The payment is approved, by card or in cash, and its emission starts.
AprobarPago(i, p) ==
  /\ pago[p].estado = "PENDIENTE"
  /\ pago' = [pago EXCEPT ![p].estado = "APROBADO", ![p].reciente = TRUE]
  /\ EmpiezaEnFondo(i, p)
  /\ UNCHANGED <<comprobantes, documentos, corrida, manual, dijo, percances>>

\* A repeated notification of the approval starts it too.
RepetirAviso(i, p) ==
  /\ pago[p].estado = "APROBADO"
  /\ ~EnCurso(i, p)
  /\ UnPercance
  /\ EmpiezaEnFondo(i, p)
  /\ UNCHANGED <<pago, comprobantes, documentos, corrida, manual, dijo>>

\* ComprobantesService.reintentar checks, and then calls the emission.
VerificarManual(i, p) ==
  /\ pago[p].estado = "APROBADO"
  /\ ~TieneComprobante(p)
  /\ <<i, p>> \notin manual
  /\ UnPercance
  /\ manual' = manual \cup {<<i, p>>}
  /\ UNCHANGED <<pago, comprobantes, documentos, em, corrida, dijo>>

ReintentarManual(i, p) ==
  /\ <<i, p>> \in manual
  /\ manual' = manual \ {<<i, p>>}
  /\ EmpiezaUnIntento(i, p)
  /\ UNCHANGED <<pago, comprobantes, documentos, corrida, dijo, percances>>

\* What the job reads: approved, not just now, without a document, and with
\* attempts left.
Candidatos ==
  {p \in Pagos : /\ pago[p].estado = "APROBADO"
                 /\ ~TieneComprobante(p)
                 /\ ~RequiereAtencion(p)
                 /\ pago[p].reciente => pago[p].intentos > 0}

MasViejos(ps, n) == {p \in ps : Cardinality({q \in ps : q < p}) < n}

\* It takes five batches, drops the ones whose last attempt is too near, and
\* keeps a batch.
ARetomar ==
  MasViejos({p \in MasViejos(Candidatos, 5 * Lote) : ~pago[p].reciente}, Lote)

CorrerJob(i) ==
  /\ corrida[i] = {}
  /\ ARetomar # {}
  /\ corrida' = [corrida EXCEPT ![i] = ARetomar]
  /\ UNCHANGED <<pago, comprobantes, documentos, em, manual, dijo, percances>>

\* One at a time; one in progress is waited for.
RetomarDelJob(i, p) ==
  /\ EsElPrimero(i, p)
  /\ ~EnCurso(i, p)
  /\ EmpiezaUnIntento(i, p)
  /\ UNCHANGED <<pago, comprobantes, documentos, corrida, manual, dijo, percances>>

-----------------------------------------------------------------------------
(* One emission *)

\* Reads the payment, its documents and its receptor.  The read may fail.
LeerPago(i, p) ==
  /\ EnFase(i, p, "leer")
  /\ \/ Falla(i, p, TRUE)
     \/ /\ TieneComprobante(p) \/ pago[p].estado # "APROBADO"
        /\ Termina(i, p)
     \/ /\ ~TieneComprobante(p)
        /\ pago[p].estado = "APROBADO"
        /\ Pasa(i, p, IF pago[p].receptor
                        THEN UnaEmision("efactura", em[i][p].quedan, "bl", "111")
                        ELSE UnaEmision("eticket", em[i][p].quedan, "bl", "101"))
        /\ UNCHANGED corrida
  /\ UNCHANGED <<pago, comprobantes, documentos, manual, dijo, percances>>

\* Seeded defect: an answer that is lost is taken as a rejection.
EmitirEFacturaORechazo(i, p) ==
  /\ EnFase(i, p, "efactura")
  /\ SurtecEmite(p, "bl", "111")
  /\ dijo' = [dijo EXCEPT ![p] = @ \cup {"acepto"}]
  /\ \/ Pasa(i, p, UnaEmision("guardar", em[i][p].quedan, "bl", "111"))
     \/ Pasa(i, p, UnaEmision("eticket", em[i][p].quedan, "bl-et", "101"))
  /\ UNCHANGED <<pago, comprobantes, corrida, manual, percances>>

EmitirEFactura(i, p) ==
  /\ EnFase(i, p, "efactura")
  /\ \/ /\ Emitido(i, p, "bl", "111")
        /\ dijo' = [dijo EXCEPT ![p] = @ \cup {"acepto"}]
     \/ /\ NoEmitido(i, p)
        /\ UNCHANGED dijo
     \/ \* 4xx, also the 401 of a token that was just renewed
        /\ dijo' = [dijo EXCEPT ![p] = @ \cup {"rechazo"}]
        /\ Pasa(i, p, UnaEmision("eticket", em[i][p].quedan, "bl-et", "101"))
        /\ UNCHANGED <<documentos, corrida>>
  /\ UNCHANGED <<pago, comprobantes, manual, percances>>

EmitirETicket(i, p) ==
  /\ EnFase(i, p, "eticket")
  /\ Emitido(i, p, em[i][p].sufijo, "101") \/ NoEmitido(i, p)
  /\ UNCHANGED <<pago, comprobantes, manual, dijo, percances>>

\* Seeded defect: the row is saved with the key bl-<id>, whatever was issued.
FilaConLaClaveDelPago(i, p) ==
  {[pago |-> p, sufijo |-> "bl", tipo |-> em[i][p].tipo]}

\* upsert by id_externo: a row that is there stays as it is.
FilaDelUpsert(i, p) ==
  IF ConClave(comprobantes, p, em[i][p].sufijo) = {}
    THEN {[pago |-> p, sufijo |-> em[i][p].sufijo, tipo |-> em[i][p].tipo]}
    ELSE {}

\* The write may fail, or be done and its answer lost.
GuardarComprobante(i, p) ==
  /\ EnFase(i, p, "guardar")
  /\ \/ /\ comprobantes' = comprobantes \cup FilaDelUpsert(i, p)
        /\ Termina(i, p) \/ Falla(i, p, TRUE)
     \/ /\ UNCHANGED comprobantes
        /\ Falla(i, p, TRUE)
  /\ UNCHANGED <<pago, documentos, manual, dijo, percances>>

\* Seeded defect: the failure is not counted.
FallarSinContar(i, p) ==
  /\ EnFase(i, p, "registrar")
  /\ pago' = [pago EXCEPT ![p].reciente = TRUE]
  /\ Termina(i, p)
  /\ UNCHANGED <<comprobantes, documentos, manual, dijo, percances>>

\* A write that fails is only logged.
RegistrarIntentoFallido(i, p) ==
  /\ EnFase(i, p, "registrar")
  /\ \/ /\ pago' = [pago EXCEPT ![p].intentos = @ + 1, ![p].reciente = TRUE]
        /\ UNCHANGED percances
     \/ /\ UnPercance
        /\ UNCHANGED pago
  /\ Termina(i, p)
  /\ UNCHANGED <<comprobantes, documentos, manual, dijo>>

-----------------------------------------------------------------------------
(* The environment *)

PasaElTiempo(p) ==
  /\ pago[p].reciente
  /\ pago' = [pago EXCEPT ![p].reciente = FALSE]
  /\ UNCHANGED <<comprobantes, documentos, em, corrida, manual, dijo, percances>>

PasanLosDias(p) ==
  /\ pago[p].estado = "APROBADO"
  /\ ~pago[p].vencido
  /\ pago' = [pago EXCEPT ![p].vencido = TRUE]
  /\ UNCHANGED <<comprobantes, documentos, em, corrida, manual, dijo, percances>>

\* The diner asks to be forgotten: the RUT leaves the order.
AnonimizarReceptor(p) ==
  /\ pago[p].receptor
  /\ pago' = [pago EXCEPT ![p].receptor = FALSE, ![p].anonimizado = TRUE]
  /\ UNCHANGED <<comprobantes, documentos, em, corrida, manual, dijo, percances>>

\* A replica dies and starts again: what it was doing is forgotten.
CaeReplica(i) ==
  /\ \/ \E p \in Pagos : EnCurso(i, p) \/ <<i, p>> \in manual
     \/ corrida[i] # {}
  /\ UnPercance
  /\ em' = [em EXCEPT ![i] = [p \in Pagos |-> SinEmision]]
  /\ corrida' = [corrida EXCEPT ![i] = {}]
  /\ manual' = {m \in manual : m[1] # i}
  /\ UNCHANGED <<pago, comprobantes, documentos, dijo>>

PasoDeEmision(i, p) ==
  \/ LeerPago(i, p) \/ EmitirEFactura(i, p) \/ EmitirETicket(i, p)
  \/ GuardarComprobante(i, p) \/ RegistrarIntentoFallido(i, p)

CfeNext ==
  \/ \E i \in Replicas, p \in Pagos :
       \/ AprobarPago(i, p) \/ RepetirAviso(i, p)
       \/ VerificarManual(i, p) \/ ReintentarManual(i, p)
       \/ RetomarDelJob(i, p) \/ PasoDeEmision(i, p)
  \/ \E i \in Replicas : CorrerJob(i) \/ CaeReplica(i)
  \/ \E p \in Pagos : PasaElTiempo(p) \/ PasanLosDias(p) \/ AnonimizarReceptor(p)

\* Every wait of a running replica ends (the calls have timeouts), the timer
\* of the job fires, and time passes.  Nobody has to approve, notify, retry by
\* hand or be forgotten, and no replica has to die.
CfeFairness ==
  /\ \A i \in Replicas, p \in Pagos :
       WF_cfeVars(PasoDeEmision(i, p)) /\ WF_cfeVars(RetomarDelJob(i, p))
  /\ \A i \in Replicas : WF_cfeVars(CorrerJob(i))
  /\ \A p \in Pagos : WF_cfeVars(PasaElTiempo(p))

CfeSpec == CfeInit /\ [][CfeNext]_cfeVars /\ CfeFairness

-----------------------------------------------------------------------------
(* Properties *)

DocumentosDe(p) == {d \in documentos : d.pago = p}

\* A payment has one fiscal document, however many replicas emit it and
\* whatever is lost, unless its receptor was forgotten half way or Surtec
\* took back what it said of the e-Factura.
DosDocumentosSoloSi ==
  \A p \in Pagos :
    \/ \A d, e \in DocumentosDe(p) : d = e
    \/ pago[p].anonimizado
    \/ dijo[p] = {"acepto", "rechazo"}

\* A saved row is of a document that Surtec issued with that key, and says of
\* it the type that it has, unless the receptor was forgotten half way.
ComprobanteFiel ==
  \A c \in comprobantes :
    \E d \in documentos :
      /\ <<d.pago, d.sufijo>> = <<c.pago, c.sufijo>>
      /\ d.tipo = c.tipo \/ pago[c.pago].anonimizado

\* Every approved payment gets its row, or is left to the administrator.
TodoPagoSeResuelve ==
  \A p \in Pagos :
    (pago[p].estado = "APROBADO") ~> (TieneComprobante(p) \/ RequiereAtencion(p))

=============================================================================
