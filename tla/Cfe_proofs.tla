----------------------------- MODULE Cfe_proofs -----------------------------
(***************************************************************************)
(* Proofs about Cfe, for any number of payments, replicas and retries.     *)
(* That a payment has one fiscal document is not inductive: what each      *)
(* emission in progress is going to ask has to agree with what was asked   *)
(* for its payment before, by any replica, answered or lost.               *)
(*                                                                         *)
(* At the end, about EstadoDgi, for every set of documents and of          *)
(* replicas: the invariant is the types and the count itself.  What a run  *)
(* was told is written only where the row is still PENDIENTE, so nothing   *)
(* has to be known of the other runs.                                      *)
(***************************************************************************)
EXTENDS Cfe, EstadoDgi, TLAPS

-----------------------------------------------------------------------------
(* The invariant *)

\* One document per key.  An e-Factura was accepted; an e-Ticket in place of
\* one comes after a rejection, and any other of an order without receptor.
DocumentosBien ==
  /\ \A d, e \in documentos : d.pago = e.pago /\ d.sufijo = e.sufijo => d = e
  /\ \A d \in documentos :
       /\ d.sufijo = "bl-et" => d.tipo = "101" /\ "rechazo" \in dijo[d.pago]
       /\ d.tipo = "111" => "acepto" \in dijo[d.pago]
       /\ d.sufijo = "bl" /\ d.tipo = "101" => ~pago[d.pago].receptor

\* Surtec has been asked for an e-Factura only of an order with a receptor.
DijoBien ==
  \A p \in Pagos : dijo[p] # {} => pago[p].receptor \/ pago[p].anonimizado

\* What an emission is going to ask, or to save.
EmisionBien(i, p) ==
  LET e == em[i][p]
  IN  /\ e.fase = "efactura" => pago[p].receptor \/ pago[p].anonimizado
      /\ e.fase = "eticket" /\ e.sufijo = "bl" => ~pago[p].receptor
      /\ e.fase = "eticket" /\ e.sufijo = "bl-et" => "rechazo" \in dijo[p]
      /\ e.fase = "guardar" =>
           \E d \in documentos :
             /\ d.pago = p /\ d.sufijo = e.sufijo
             /\ d.tipo = e.tipo \/ pago[p].anonimizado

EmisionesBien == \A i \in Replicas, p \in Pagos : EmisionBien(i, p)

CfeInv ==
  CfeTypeOK /\ DocumentosBien /\ DijoBien /\ EmisionesBien /\ ComprobanteFiel

-----------------------------------------------------------------------------
(* The beginning *)

\* Nothing was asked for any payment.
LEMMA CfeInicio == CfeInit => CfeInv
<1> SUFFICES ASSUME CfeInit PROVE CfeInv
  OBVIOUS
<1> USE CfeAssumption
<1>1. SinEmision \in Emision /\ SinEmision.fase = "nada"
  BY DEF SinEmision, UnaEmision, Emision, Fases, Sufijos, Tipos
<1>2. \A b \in BOOLEAN : PagoNuevo(b) \in Pago
  BY DEF PagoNuevo, Pago
<1>3. PICK r \in [Pagos -> BOOLEAN] : pago = [p \in Pagos |-> PagoNuevo(r[p])]
  BY DEF CfeInit
<1>4. pago \in [Pagos -> Pago]
  <2>1. \A p \in Pagos : PagoNuevo(r[p]) \in Pago
    BY <1>2, <1>3, Zenon
  <2> QED BY <1>3, <2>1
<1>5. em \in [Replicas -> [Pagos -> Emision]]
  BY <1>1 DEF CfeInit
<1>6. /\ comprobantes = {} /\ documentos = {} /\ manual = {} /\ percances = 0
      /\ dijo = [p \in Pagos |-> {}] /\ corrida = [i \in Replicas |-> {}]
  BY DEF CfeInit
<1>7. CfeTypeOK
  <2>1. /\ comprobantes \subseteq Documento /\ documentos \subseteq Documento
        /\ manual \subseteq Replicas \X Pagos
    BY <1>6
  <2>2. dijo \in [Pagos -> SUBSET {"acepto", "rechazo"}]
    BY <1>6
  <2>3. corrida \in [Replicas -> SUBSET Pagos] /\ percances \in 0 .. MaxPercances
    BY <1>6
  <2> QED BY <1>4, <1>5, <2>1, <2>2, <2>3, Zenon DEF CfeTypeOK
<1>8. \A i \in Replicas, p \in Pagos : em[i][p].fase = "nada"
  BY <1>1 DEF CfeInit
<1>9. EmisionesBien
  BY <1>8 DEF EmisionesBien, EmisionBien
<1>10. DocumentosBien /\ DijoBien /\ ComprobanteFiel
  BY <1>6 DEF DocumentosBien, DijoBien, ComprobanteFiel
<1> QED BY <1>7, <1>9, <1>10 DEF CfeInv

-----------------------------------------------------------------------------
(* What a step does to the emissions *)

\* It asks nothing, and saves nothing, from where it is.
Tranquila(e) == e.fase \in {"nada", "leer", "registrar"}

\* Of the emissions only one changes.
Cambia(i, p, e) ==
  /\ em' \in [Replicas -> [Pagos -> Emision]]
  /\ em'[i][p] = e
  /\ \A j \in Replicas, q \in Pagos : <<j, q>> # <<i, p>> => em'[j][q] = em[j][q]

\* The other emissions stay when one goes on.
LEMMA PasaEfecto ==
  ASSUME CfeTypeOK, NEW i \in Replicas, NEW p \in Pagos, NEW e \in Emision,
         Pasa(i, p, e)
  PROVE  Cambia(i, p, e)
<1>1. em \in [Replicas -> [Pagos -> Emision]] /\ em' = [em EXCEPT ![i][p] = e]
  BY DEF CfeTypeOK, Pasa
<1> QED BY <1>1 DEF Cambia

\* Emissions of every kind are of the type.
LEMMA UnaEmisionTipo ==
  ASSUME NEW fase \in Fases, NEW quedan \in 0 .. ReintentosFondo,
         NEW s \in Sufijos, NEW t \in Tipos
  PROVE  /\ UnaEmision(fase, quedan, s, t) \in Emision
         /\ UnaEmision(fase, quedan, s, t).fase = fase
         /\ UnaEmision(fase, quedan, s, t).sufijo = s
         /\ UnaEmision(fase, quedan, s, t).tipo = t
BY DEF UnaEmision, Emision

\* An emission that ends asks nothing.
LEMMA TerminaEfecto ==
  ASSUME CfeTypeOK, NEW i \in Replicas, NEW p \in Pagos, Termina(i, p)
  PROVE  /\ Cambia(i, p, SinEmision) /\ Tranquila(SinEmision)
         /\ corrida' \in [Replicas -> SUBSET Pagos]
<1>1. SinEmision \in Emision /\ Tranquila(SinEmision)
  BY CfeAssumption
     DEF SinEmision, UnaEmision, Emision, Fases, Sufijos, Tipos, Tranquila
<1>2. Cambia(i, p, SinEmision)
  BY <1>1, PasaEfecto DEF Termina
<1>3. corrida' \in [Replicas -> SUBSET Pagos]
  BY DEF Termina, CfeTypeOK
<1> QED BY <1>1, <1>2, <1>3

\* An emission that fails begins again or counts the failure.
LEMMA FallaEfecto ==
  ASSUME CfeTypeOK, NEW i \in Replicas, NEW p \in Pagos,
         NEW transitorio \in BOOLEAN, Falla(i, p, transitorio)
  PROVE  /\ \E e \in Emision : Tranquila(e) /\ Cambia(i, p, e)
         /\ corrida' \in [Replicas -> SUBSET Pagos]
<1> USE CfeAssumption
<1>1. em[i][p].quedan \in 0 .. ReintentosFondo
  BY DEF CfeTypeOK, Emision
<1>2. corrida' \in [Replicas -> SUBSET Pagos]
  BY DEF Falla, CfeTypeOK
<1>3. CASE transitorio /\ em[i][p].quedan > 0
  <2> DEFINE e == UnaEmision("leer", em[i][p].quedan - 1, "bl", "101")
  <2>1. em[i][p].quedan - 1 \in 0 .. ReintentosFondo
    BY <1>1, <1>3
  <2>2. e \in Emision /\ e.fase = "leer"
    BY <2>1, UnaEmisionTipo DEF Fases, Sufijos, Tipos
  <2>3. Pasa(i, p, e)
    BY <1>3 DEF Falla
  <2> HIDE DEF e
  <2>4. Cambia(i, p, e)
    BY <2>2, <2>3, PasaEfecto
  <2> QED BY <1>2, <2>2, <2>4 DEF Tranquila
<1>4. CASE ~(transitorio /\ em[i][p].quedan > 0)
  <2> DEFINE e == UnaEmision("registrar", 0, "bl", "101")
  <2>1. e \in Emision /\ e.fase = "registrar"
    BY UnaEmisionTipo DEF Fases, Sufijos, Tipos
  <2>2. Pasa(i, p, e)
    BY <1>4, Zenon DEF Falla
  <2> HIDE DEF e
  <2>3. Cambia(i, p, e)
    BY <2>1, <2>2, PasaEfecto
  <2> QED BY <1>2, <2>1, <2>3 DEF Tranquila
<1> QED BY <1>3, <1>4

\* The receptor of an order may be forgotten, and nothing else.
ReceptorQueda ==
  \A p \in Pagos :
    /\ pago'[p].receptor => pago[p].receptor
    /\ pago[p].anonimizado => pago'[p].anonimizado
    /\ pago[p].receptor => pago'[p].receptor \/ pago'[p].anonimizado

\* An emission that stays is right as documents and answers are added.
LEMMA EmisionQueda ==
  ASSUME NEW i \in Replicas, NEW p \in Pagos, EmisionBien(i, p),
         em'[i][p] = em[i][p], documentos \subseteq documentos',
         dijo[p] \subseteq dijo'[p], ReceptorQueda
  PROVE  EmisionBien(i, p)'
BY DEF EmisionBien, ReceptorQueda

\* An emission that asks nothing is right.
LEMMA TranquilaBien ==
  ASSUME NEW i \in Replicas, NEW p \in Pagos, Tranquila(em'[i][p])
  PROVE  EmisionBien(i, p)'
BY DEF EmisionBien, Tranquila

\* A step that asks nothing of Surtec and saves nothing keeps the invariant.
LEMMA PasoTranquilo ==
  ASSUME CfeInv, CfeTypeOK', UNCHANGED <<documentos, comprobantes, dijo>>,
         ReceptorQueda,
         \A i \in Replicas, p \in Pagos :
           em'[i][p] = em[i][p] \/ Tranquila(em'[i][p])
  PROVE  CfeInv'
<1>1. DocumentosBien'
  <2>1. documentos \subseteq Documento
    BY DEF CfeInv, CfeTypeOK
  <2> QED BY <2>1 DEF CfeInv, DocumentosBien, ReceptorQueda, Documento
<1>2. DijoBien'
  BY DEF CfeInv, DijoBien, ReceptorQueda
<1>3. EmisionesBien'
  BY EmisionQueda, TranquilaBien DEF CfeInv, EmisionesBien
<1>4. ComprobanteFiel'
  <2>1. comprobantes \subseteq Documento
    BY DEF CfeInv, CfeTypeOK
  <2> QED BY <2>1 DEF CfeInv, ComprobanteFiel, ReceptorQueda, Documento
<1> QED BY <1>1, <1>2, <1>3, <1>4 DEF CfeInv

-----------------------------------------------------------------------------
(* The steps that ask nothing *)

\* A change of a payment other than its receptor.
LEMMA PagoCambia ==
  ASSUME CfeTypeOK, NEW p \in Pagos, NEW k \in Pago,
         pago' = [pago EXCEPT ![p] = k],
         k.receptor => pago[p].receptor,
         pago[p].anonimizado => k.anonimizado,
         pago[p].receptor => k.receptor \/ k.anonimizado
  PROVE  pago' \in [Pagos -> Pago] /\ ReceptorQueda
BY DEF CfeTypeOK, ReceptorQueda

\* An emission starts, unless there is one.
LEMMA EmpiezaEfecto ==
  ASSUME CfeTypeOK, NEW i \in Replicas, NEW p \in Pagos,
         EmpiezaEnFondo(i, p) \/ EmpiezaUnIntento(i, p)
  PROVE  /\ em' \in [Replicas -> [Pagos -> Emision]]
         /\ \A j \in Replicas, q \in Pagos :
              em'[j][q] = em[j][q] \/ Tranquila(em'[j][q])
<1> USE CfeAssumption
<1>1. CASE em' = em
  BY <1>1 DEF CfeTypeOK
<1>2. ASSUME NEW n \in 0 .. ReintentosFondo,
             em' = [em EXCEPT ![i][p] = UnaEmision("leer", n, "bl", "101")]
      PROVE  /\ em' \in [Replicas -> [Pagos -> Emision]]
             /\ \A j \in Replicas, q \in Pagos :
                  em'[j][q] = em[j][q] \/ Tranquila(em'[j][q])
  <2> DEFINE e == UnaEmision("leer", n, "bl", "101")
  <2>1. e \in Emision /\ e.fase = "leer"
    BY UnaEmisionTipo DEF Fases, Sufijos, Tipos
  <2>2. Pasa(i, p, e)
    BY <1>2 DEF Pasa
  <2> HIDE DEF e
  <2>3. Cambia(i, p, e)
    BY <2>1, <2>2, PasaEfecto
  <2> QED BY <2>1, <2>3 DEF Cambia, Tranquila
<1>3. 0 \in 0 .. ReintentosFondo /\ ReintentosFondo \in 0 .. ReintentosFondo
  OBVIOUS
<1> QED BY <1>1, <1>2, <1>3 DEF EmpiezaEnFondo, EmpiezaUnIntento

\* The payment is approved.
LEMMA AprobarPagoConserva ==
  ASSUME CfeInv, NEW i \in Replicas, NEW p \in Pagos, AprobarPago(i, p)
  PROVE  CfeInv'
<1> DEFINE k == [pago[p] EXCEPT !.estado = "APROBADO", !.reciente = TRUE]
<1>0. CfeTypeOK
  BY DEF CfeInv
<1>1. pago[p] \in Pago
  BY <1>0 DEF CfeTypeOK
<1>2. /\ k \in Pago /\ k.receptor = pago[p].receptor
      /\ k.anonimizado = pago[p].anonimizado
  BY <1>1 DEF Pago
<1>3. pago' = [pago EXCEPT ![p] = k]
  BY DEF AprobarPago
<1> HIDE DEF k
<1>4. pago' \in [Pagos -> Pago] /\ ReceptorQueda
  BY <1>0, <1>2, <1>3, PagoCambia
<1>5. /\ em' \in [Replicas -> [Pagos -> Emision]]
      /\ \A j \in Replicas, q \in Pagos :
           em'[j][q] = em[j][q] \/ Tranquila(em'[j][q])
  BY <1>0, EmpiezaEfecto DEF AprobarPago
<1>6. UNCHANGED <<comprobantes, documentos, corrida, manual, dijo, percances>>
  BY DEF AprobarPago
<1>7. CfeTypeOK'
  BY <1>0, <1>4, <1>5, <1>6 DEF CfeTypeOK
<1> QED BY <1>4, <1>5, <1>6, <1>7, PasoTranquilo

\* Something else starts an emission, or gets ready to.
LEMMA DisparoConserva ==
  ASSUME CfeInv, NEW i \in Replicas, NEW p \in Pagos,
         \/ RepetirAviso(i, p) \/ VerificarManual(i, p)
         \/ ReintentarManual(i, p) \/ RetomarDelJob(i, p)
  PROVE  CfeInv'
<1> USE CfeAssumption
<1>0. CfeTypeOK
  BY DEF CfeInv
<1>1. /\ UNCHANGED <<pago, comprobantes, documentos, corrida, dijo>>
      /\ ReceptorQueda
  BY DEF RepetirAviso, VerificarManual, ReintentarManual, RetomarDelJob,
         ReceptorQueda
<1>2. /\ em' \in [Replicas -> [Pagos -> Emision]]
      /\ \A j \in Replicas, q \in Pagos :
           em'[j][q] = em[j][q] \/ Tranquila(em'[j][q])
  <2>1. CASE VerificarManual(i, p)
    BY <1>0, <2>1 DEF VerificarManual, CfeTypeOK
  <2>2. CASE RepetirAviso(i, p) \/ ReintentarManual(i, p) \/ RetomarDelJob(i, p)
    BY <1>0, <2>2, EmpiezaEfecto DEF RepetirAviso, ReintentarManual, RetomarDelJob
  <2> QED BY <2>1, <2>2
<1>3. manual' \subseteq Replicas \X Pagos
  BY <1>0 DEF RepetirAviso, VerificarManual, ReintentarManual, RetomarDelJob, CfeTypeOK
<1>4. percances' \in 0 .. MaxPercances
  BY <1>0 DEF RepetirAviso, VerificarManual, ReintentarManual, RetomarDelJob,
              UnPercance, CfeTypeOK
<1>5. CfeTypeOK'
  BY <1>0, <1>1, <1>2, <1>3, <1>4 DEF CfeTypeOK
<1> QED BY <1>1, <1>2, <1>5, PasoTranquilo

\* The job takes its payments.
LEMMA CorrerJobConserva ==
  ASSUME CfeInv, NEW i \in Replicas, CorrerJob(i)
  PROVE  CfeInv'
<1>0. CfeTypeOK
  BY DEF CfeInv
<1>1. ARetomar \subseteq Pagos
  BY DEF ARetomar, MasViejos, Candidatos
<1>2. /\ UNCHANGED <<pago, comprobantes, documentos, em, manual, dijo, percances>>
      /\ corrida' \in [Replicas -> SUBSET Pagos]
  BY <1>0, <1>1 DEF CorrerJob, CfeTypeOK
<1>3. CfeTypeOK' /\ ReceptorQueda
  BY <1>0, <1>2 DEF CfeTypeOK, ReceptorQueda
<1> QED BY <1>2, <1>3, PasoTranquilo

\* What a replica was doing is forgotten.
LEMMA CaeReplicaConserva ==
  ASSUME CfeInv, NEW i \in Replicas, CaeReplica(i)
  PROVE  CfeInv'
<1> USE CfeAssumption
<1>0. CfeTypeOK
  BY DEF CfeInv
<1>1. SinEmision \in Emision /\ Tranquila(SinEmision)
  BY DEF SinEmision, UnaEmision, Emision, Fases, Sufijos, Tipos, Tranquila
<1>2. /\ em' \in [Replicas -> [Pagos -> Emision]]
      /\ \A j \in Replicas, q \in Pagos :
           em'[j][q] = em[j][q] \/ Tranquila(em'[j][q])
  <2>1. em' = [em EXCEPT ![i] = [p \in Pagos |-> SinEmision]]
    BY DEF CaeReplica
  <2>2. em \in [Replicas -> [Pagos -> Emision]]
    BY <1>0 DEF CfeTypeOK
  <2> QED BY <1>1, <2>1, <2>2
<1>3. UNCHANGED <<pago, comprobantes, documentos, dijo>> /\ ReceptorQueda
  BY DEF CaeReplica, ReceptorQueda
<1>4. /\ corrida' \in [Replicas -> SUBSET Pagos]
      /\ manual' \subseteq Replicas \X Pagos /\ percances' \in 0 .. MaxPercances
  BY <1>0 DEF CaeReplica, UnPercance, CfeTypeOK
<1>5. CfeTypeOK'
  BY <1>0, <1>2, <1>3, <1>4 DEF CfeTypeOK
<1> QED BY <1>2, <1>3, <1>5, PasoTranquilo

\* Time passes, or the diner is forgotten.
LEMMA EntornoConserva ==
  ASSUME CfeInv, NEW p \in Pagos,
         PasaElTiempo(p) \/ PasanLosDias(p) \/ AnonimizarReceptor(p)
  PROVE  CfeInv'
<1>0. CfeTypeOK
  BY DEF CfeInv
<1>1. pago[p] \in Pago
  BY <1>0 DEF CfeTypeOK
<1>2. UNCHANGED <<comprobantes, documentos, em, corrida, manual, dijo, percances>>
  BY DEF PasaElTiempo, PasanLosDias, AnonimizarReceptor
<1>3. pago' \in [Pagos -> Pago] /\ ReceptorQueda
  <2>1. CASE PasaElTiempo(p)
    <3> DEFINE k == [pago[p] EXCEPT !.reciente = FALSE]
    <3>1. /\ k \in Pago /\ k.receptor = pago[p].receptor
          /\ k.anonimizado = pago[p].anonimizado
      BY <1>1 DEF Pago
    <3>2. pago' = [pago EXCEPT ![p] = k]
      BY <2>1 DEF PasaElTiempo
    <3> HIDE DEF k
    <3> QED BY <1>0, <3>1, <3>2, PagoCambia
  <2>2. CASE PasanLosDias(p)
    <3> DEFINE k == [pago[p] EXCEPT !.vencido = TRUE]
    <3>1. /\ k \in Pago /\ k.receptor = pago[p].receptor
          /\ k.anonimizado = pago[p].anonimizado
      BY <1>1 DEF Pago
    <3>2. pago' = [pago EXCEPT ![p] = k]
      BY <2>2 DEF PasanLosDias
    <3> HIDE DEF k
    <3> QED BY <1>0, <3>1, <3>2, PagoCambia
  <2>3. CASE AnonimizarReceptor(p)
    <3> DEFINE k == [pago[p] EXCEPT !.receptor = FALSE, !.anonimizado = TRUE]
    <3>1. k \in Pago /\ ~k.receptor /\ k.anonimizado
      BY <1>1 DEF Pago
    <3>2. pago' = [pago EXCEPT ![p] = k]
      BY <2>3 DEF AnonimizarReceptor
    <3> HIDE DEF k
    <3> QED BY <1>0, <3>1, <3>2, PagoCambia
  <2> QED BY <2>1, <2>2, <2>3
<1>4. CfeTypeOK'
  BY <1>0, <1>2, <1>3 DEF CfeTypeOK
<1> QED BY <1>2, <1>3, <1>4, PasoTranquilo

\* A failure that is counted.
LEMMA RegistrarConserva ==
  ASSUME CfeInv, NEW i \in Replicas, NEW p \in Pagos, RegistrarIntentoFallido(i, p)
  PROVE  CfeInv'
<1> USE CfeAssumption
<1>0. CfeTypeOK
  BY DEF CfeInv
<1>1. pago[p] \in Pago
  BY <1>0 DEF CfeTypeOK
<1>2. UNCHANGED <<comprobantes, documentos, manual, dijo>>
  BY DEF RegistrarIntentoFallido
<1>3. /\ Cambia(i, p, SinEmision) /\ Tranquila(SinEmision)
      /\ corrida' \in [Replicas -> SUBSET Pagos]
  BY <1>0, TerminaEfecto DEF RegistrarIntentoFallido
<1>4. pago' \in [Pagos -> Pago] /\ ReceptorQueda
  <2>1. CASE UNCHANGED pago
    BY <1>0, <2>1 DEF CfeTypeOK, ReceptorQueda
  <2>2. CASE pago' = [pago EXCEPT ![p].intentos = @ + 1, ![p].reciente = TRUE]
    <3> DEFINE k == [pago[p] EXCEPT !.intentos = pago[p].intentos + 1, !.reciente = TRUE]
    <3>1. pago[p].intentos + 1 \in Nat
      BY <1>1 DEF Pago
    <3>2. \A n \in Nat : LET r == [pago[p] EXCEPT !.intentos = n, !.reciente = TRUE]
                         IN  /\ r \in Pago /\ r.receptor = pago[p].receptor
                             /\ r.anonimizado = pago[p].anonimizado
      BY <1>1 DEF Pago
    <3>3. /\ k \in Pago /\ k.receptor = pago[p].receptor
          /\ k.anonimizado = pago[p].anonimizado
      BY <3>1, <3>2, Zenon
    <3>4. pago' = [pago EXCEPT ![p] = k]
      BY <2>2
    <3> HIDE DEF k
    <3> QED BY <1>0, <3>3, <3>4, PagoCambia
  <2> QED BY <2>1, <2>2 DEF RegistrarIntentoFallido
<1>5. percances' \in 0 .. MaxPercances
  BY <1>0 DEF RegistrarIntentoFallido, UnPercance, CfeTypeOK
<1>6. CfeTypeOK'
  BY <1>0, <1>2, <1>3, <1>4, <1>5 DEF CfeTypeOK, Cambia
<1>7. \A j \in Replicas, q \in Pagos :
        em'[j][q] = em[j][q] \/ Tranquila(em'[j][q])
  BY <1>3 DEF Cambia
<1> QED BY <1>2, <1>4, <1>6, <1>7, PasoTranquilo

-----------------------------------------------------------------------------
(* The steps that ask and save *)

\* Surtec has then a document with the key: one that it had, or the new one.
LEMMA SurtecEfecto ==
  ASSUME CfeTypeOK, NEW p \in Pagos, NEW s \in Sufijos, NEW t \in Tipos,
         SurtecEmite(p, s, t)
  PROVE  LET n == [pago |-> p, sufijo |-> s, tipo |-> t]
         IN  /\ documentos \subseteq documentos' /\ documentos' \subseteq Documento
             /\ n \in Documento /\ n.pago = p /\ n.sufijo = s /\ n.tipo = t
             /\ \A d \in documentos' : d \in documentos \/ d = n
             /\ \/ n \in documentos'
                \/ \E d \in documentos : d.pago = p /\ d.sufijo = s
             /\ n \in documentos' /\ n \notin documentos =>
                  \A d \in documentos : ~(d.pago = p /\ d.sufijo = s)
<1> DEFINE n == [pago |-> p, sufijo |-> s, tipo |-> t]
<1>1. n \in Documento /\ n.pago = p /\ n.sufijo = s /\ n.tipo = t
  BY DEF Documento
<1>2. documentos \subseteq Documento
  BY DEF CfeTypeOK
<1> HIDE DEF n
<1>3. documentos' = IF ConClave(documentos, p, s) = {}
                      THEN documentos \cup {n} ELSE documentos
  BY DEF SurtecEmite, n
<1>4. CASE ConClave(documentos, p, s) = {}
  <2>1. \A d \in documentos : ~(d.pago = p /\ d.sufijo = s)
    BY <1>4 DEF ConClave
  <2> QED BY <1>1, <1>2, <1>3, <1>4, <2>1 DEF n
<1>5. CASE ConClave(documentos, p, s) # {}
  <2>1. \E d \in documentos : d.pago = p /\ d.sufijo = s
    BY <1>5 DEF ConClave
  <2> QED BY <1>1, <1>2, <1>3, <1>5, <2>1 DEF n
<1> QED BY <1>4, <1>5

\* A document that is issued, with its answer or without, is as the ones
\* before it.
LEMMA EmitidoConserva ==
  ASSUME CfeInv, NEW i \in Replicas, NEW p \in Pagos,
         NEW s \in Sufijos, NEW t \in Tipos, Emitido(i, p, s, t),
         UNCHANGED <<pago, comprobantes, manual, percances>>,
         dijo' \in [Pagos -> SUBSET {"acepto", "rechazo"}], DijoBien',
         \A q \in Pagos : dijo[q] \subseteq dijo'[q],
         s = "bl-et" => t = "101" /\ "rechazo" \in dijo'[p],
         t = "111" => "acepto" \in dijo'[p] /\ (pago[p].receptor \/ pago[p].anonimizado),
         s = "bl" /\ t = "101" => ~pago[p].receptor
  PROVE  CfeInv'
<1> USE CfeAssumption
<1>0. CfeTypeOK /\ DocumentosBien /\ DijoBien
  BY DEF CfeInv
<1> DEFINE n == [pago |-> p, sufijo |-> s, tipo |-> t]
<1>1. /\ documentos \subseteq documentos' /\ documentos' \subseteq Documento
      /\ n \in Documento /\ n.pago = p /\ n.sufijo = s /\ n.tipo = t
      /\ \A d \in documentos' : d \in documentos \/ d = n
      /\ \/ n \in documentos'
         \/ \E d \in documentos : d.pago = p /\ d.sufijo = s
      /\ n \in documentos' /\ n \notin documentos =>
           \A d \in documentos : ~(d.pago = p /\ d.sufijo = s)
  BY <1>0, SurtecEfecto DEF Emitido
<1> HIDE DEF n
<1>2. documentos \subseteq Documento
  BY <1>0 DEF CfeTypeOK
<1>3. DocumentosBien'
  <2>1. \A d, e \in documentos' : d.pago = e.pago /\ d.sufijo = e.sufijo => d = e
    BY <1>0, <1>1 DEF DocumentosBien
  <2>2. \A d \in documentos' :
          /\ d.sufijo = "bl-et" => d.tipo = "101" /\ "rechazo" \in dijo'[d.pago]
          /\ d.tipo = "111" => "acepto" \in dijo'[d.pago]
          /\ d.sufijo = "bl" /\ d.tipo = "101" => ~pago'[d.pago].receptor
    <3>1. ASSUME NEW d \in documentos
          PROVE  /\ d.sufijo = "bl-et" => d.tipo = "101" /\ "rechazo" \in dijo'[d.pago]
                 /\ d.tipo = "111" => "acepto" \in dijo'[d.pago]
                 /\ d.sufijo = "bl" /\ d.tipo = "101" => ~pago'[d.pago].receptor
      <4>1. d.pago \in Pagos
        BY <1>2 DEF Documento
      <4> QED BY <1>0, <4>1 DEF DocumentosBien
    <3> QED BY <1>1, <3>1
  <2> QED BY <2>1, <2>2 DEF DocumentosBien
<1>4. ReceptorQueda
  BY DEF ReceptorQueda
<1>5. /\ corrida' \in [Replicas -> SUBSET Pagos]
      /\ \E e \in Emision :
           /\ Cambia(i, p, e)
           /\ \/ Tranquila(e)
              \/ e.fase = "guardar" /\ e.sufijo = s /\ e.tipo = t
  <2>1. CASE \E transitorio \in BOOLEAN : Falla(i, p, transitorio)
    BY <1>0, <2>1, FallaEfecto
  <2>2. CASE /\ Pasa(i, p, UnaEmision("guardar", em[i][p].quedan, s, t))
             /\ UNCHANGED corrida
    <3> DEFINE e == UnaEmision("guardar", em[i][p].quedan, s, t)
    <3>1. em[i][p].quedan \in 0 .. ReintentosFondo
      BY <1>0 DEF CfeTypeOK, Emision
    <3>2. e \in Emision /\ e.fase = "guardar" /\ e.sufijo = s /\ e.tipo = t
      BY <3>1, UnaEmisionTipo DEF Fases
    <3>3. Pasa(i, p, e)
      BY <2>2
    <3> HIDE DEF e
    <3>4. Cambia(i, p, e)
      BY <1>0, <3>2, <3>3, PasaEfecto
    <3> QED BY <1>0, <2>2, <3>2, <3>4 DEF CfeTypeOK
  <2> QED BY <2>1, <2>2 DEF Emitido
<1>6. PICK e \in Emision :
        /\ Cambia(i, p, e)
        /\ \/ Tranquila(e)
           \/ e.fase = "guardar" /\ e.sufijo = s /\ e.tipo = t
  BY <1>5
<1>7. CfeTypeOK'
  BY <1>0, <1>1, <1>5, <1>6 DEF CfeTypeOK, Cambia
<1>8. \E d \in documentos' : /\ d.pago = p /\ d.sufijo = s
                             /\ d.tipo = t \/ pago[p].anonimizado
  <2>1. CASE n \in documentos'
    BY <1>1, <2>1
  <2>2. CASE \E d \in documentos : d.pago = p /\ d.sufijo = s
    <3>1. PICK d \in documentos : d.pago = p /\ d.sufijo = s
      BY <2>2
    <3>2. d.tipo \in {"101", "111"} /\ s \in {"bl", "bl-et"} /\ t \in {"101", "111"}
      BY <1>2 DEF Documento, Sufijos, Tipos
    <3>3. CASE d.tipo = t
      BY <1>1, <3>1, <3>3
    <3>4. CASE d.tipo = "101" /\ t = "111"
      <4>1. s = "bl"
        BY <3>2, <3>4
      <4>2. ~pago[p].receptor
        BY <1>0, <3>1, <3>4, <4>1 DEF DocumentosBien
      <4> QED BY <1>1, <3>1, <3>4, <4>2
    <3>5. CASE d.tipo = "111" /\ t = "101"
      <4>1. s = "bl" /\ dijo[p] # {}
        BY <1>0, <3>1, <3>2, <3>5 DEF DocumentosBien
      <4>2. pago[p].anonimizado
        BY <1>0, <3>5, <4>1 DEF DijoBien
      <4> QED BY <1>1, <3>1, <4>2
    <3> QED BY <3>2, <3>3, <3>4, <3>5
  <2> QED BY <1>1, <2>1, <2>2
<1>9. EmisionesBien'
  <2>1. SUFFICES ASSUME NEW j \in Replicas, NEW q \in Pagos PROVE EmisionBien(j, q)'
    BY DEF EmisionesBien
  <2>2. CASE <<j, q>> # <<i, p>>
    <3>1. em'[j][q] = em[j][q] /\ EmisionBien(j, q)
      BY <1>6, <2>2 DEF Cambia, CfeInv, EmisionesBien
    <3> QED BY <1>1, <1>4, <3>1, EmisionQueda
  <2>3. CASE j = i /\ q = p
    <3>1. em'[j][q] = e
      BY <1>6, <2>3 DEF Cambia
    <3>2. CASE Tranquila(e)
      BY <3>1, <3>2, TranquilaBien
    <3>3. CASE e.fase = "guardar" /\ e.sufijo = s /\ e.tipo = t
      BY <1>8, <2>3, <3>1, <3>3 DEF EmisionBien
    <3> QED BY <1>6, <3>2, <3>3
  <2> QED BY <2>2, <2>3
<1>10. ComprobanteFiel'
  BY <1>1 DEF CfeInv, ComprobanteFiel
<1> QED BY <1>3, <1>7, <1>9, <1>10 DEF CfeInv

\* What was not issued leaves the documents as they are.
LEMMA NoEmitidoConserva ==
  ASSUME CfeInv, NEW i \in Replicas, NEW p \in Pagos, NoEmitido(i, p),
         UNCHANGED <<pago, comprobantes, manual, dijo, percances>>
  PROVE  CfeInv'
<1>0. CfeTypeOK
  BY DEF CfeInv
<1>1. /\ \E e \in Emision : Tranquila(e) /\ Cambia(i, p, e)
      /\ corrida' \in [Replicas -> SUBSET Pagos]
  BY <1>0, FallaEfecto DEF NoEmitido
<1>2. CfeTypeOK'
  BY <1>0, <1>1 DEF CfeTypeOK, Cambia, NoEmitido
<1>3. UNCHANGED documentos /\ ReceptorQueda
  BY DEF NoEmitido, ReceptorQueda
<1>4. \A j \in Replicas, q \in Pagos :
        em'[j][q] = em[j][q] \/ Tranquila(em'[j][q])
  BY <1>1 DEF Cambia
<1> QED BY <1>2, <1>3, <1>4, PasoTranquilo

\* The emission reads whether there is a receptor, and what it will ask agrees.
LEMMA LeerPagoConserva ==
  ASSUME CfeInv, NEW i \in Replicas, NEW p \in Pagos, LeerPago(i, p)
  PROVE  CfeInv'
<1> USE CfeAssumption
<1>0. CfeTypeOK
  BY DEF CfeInv
<1>1. /\ UNCHANGED <<pago, comprobantes, documentos, manual, dijo, percances>>
      /\ ReceptorQueda
  BY DEF LeerPago, ReceptorQueda
<1>2. CASE Falla(i, p, TRUE) \/ Termina(i, p)
  <2>1. /\ \E e \in Emision : Tranquila(e) /\ Cambia(i, p, e)
        /\ corrida' \in [Replicas -> SUBSET Pagos]
    <3>1. CASE Falla(i, p, TRUE)
      BY <1>0, <3>1, FallaEfecto
    <3>2. CASE Termina(i, p)
      <4>1. SinEmision \in Emision
        BY DEF SinEmision, UnaEmision, Emision, Fases, Sufijos, Tipos
      <4> QED BY <1>0, <3>2, <4>1, TerminaEfecto
    <3> QED BY <1>2, <3>1, <3>2
  <2>2. CfeTypeOK'
    BY <1>0, <1>1, <2>1 DEF CfeTypeOK, Cambia
  <2>3. \A j \in Replicas, q \in Pagos :
          em'[j][q] = em[j][q] \/ Tranquila(em'[j][q])
    BY <2>1 DEF Cambia
  <2> QED BY <1>1, <2>2, <2>3, PasoTranquilo
<1>3. CASE /\ Pasa(i, p, IF pago[p].receptor
                          THEN UnaEmision("efactura", em[i][p].quedan, "bl", "111")
                          ELSE UnaEmision("eticket", em[i][p].quedan, "bl", "101"))
           /\ UNCHANGED corrida
  <2>0. em[i][p].quedan \in 0 .. ReintentosFondo
    BY <1>0 DEF CfeTypeOK, Emision
  <2>1. \E e \in Emision :
          /\ Cambia(i, p, e) /\ e.sufijo = "bl"
          /\ \/ e.fase = "efactura" /\ pago[p].receptor
             \/ e.fase = "eticket" /\ ~pago[p].receptor
    <3>1. CASE pago[p].receptor
      <4> DEFINE e == UnaEmision("efactura", em[i][p].quedan, "bl", "111")
      <4>1. e \in Emision /\ e.fase = "efactura" /\ e.sufijo = "bl"
        BY <2>0, UnaEmisionTipo DEF Fases, Sufijos, Tipos
      <4>2. Pasa(i, p, e)
        BY <1>3, <3>1
      <4> HIDE DEF e
      <4> QED BY <1>0, <3>1, <4>1, <4>2, PasaEfecto
    <3>2. CASE ~pago[p].receptor
      <4> DEFINE e == UnaEmision("eticket", em[i][p].quedan, "bl", "101")
      <4>1. e \in Emision /\ e.fase = "eticket" /\ e.sufijo = "bl"
        BY <2>0, UnaEmisionTipo DEF Fases, Sufijos, Tipos
      <4>2. Pasa(i, p, e)
        BY <1>3, <3>2
      <4> HIDE DEF e
      <4> QED BY <1>0, <3>2, <4>1, <4>2, PasaEfecto
    <3> QED BY <3>1, <3>2
  <2>2. CfeTypeOK'
    BY <1>0, <1>1, <1>3, <2>1 DEF CfeTypeOK, Cambia
  <2>3. EmisionesBien'
    <3>1. SUFFICES ASSUME NEW j \in Replicas, NEW q \in Pagos PROVE EmisionBien(j, q)'
      BY DEF EmisionesBien
    <3>2. CASE <<j, q>> # <<i, p>>
      <4>1. em'[j][q] = em[j][q] /\ EmisionBien(j, q)
        BY <2>1, <3>2 DEF Cambia, CfeInv, EmisionesBien
      <4> QED BY <1>1, <4>1, EmisionQueda
    <3>3. CASE j = i /\ q = p
      BY <1>1, <2>1, <3>3 DEF Cambia, EmisionBien
    <3> QED BY <3>2, <3>3
  <2>4. DocumentosBien' /\ DijoBien' /\ ComprobanteFiel'
    BY <1>1 DEF CfeInv, DocumentosBien, DijoBien, ComprobanteFiel
  <2> QED BY <2>2, <2>3, <2>4 DEF CfeInv
<1> QED BY <1>2, <1>3 DEF LeerPago

\* The e-Factura is issued, or not, or rejected for good.
LEMMA EmitirEFacturaConserva ==
  ASSUME CfeInv, NEW i \in Replicas, NEW p \in Pagos, EmitirEFactura(i, p)
  PROVE  CfeInv'
<1> USE CfeAssumption
<1>0. CfeTypeOK /\ DocumentosBien /\ DijoBien /\ ComprobanteFiel
  BY DEF CfeInv
<1>1. UNCHANGED <<pago, comprobantes, manual, percances>>
  BY DEF EmitirEFactura
<1>2. pago[p].receptor \/ pago[p].anonimizado
  BY DEF CfeInv, EmisionesBien, EmisionBien, EmitirEFactura, EnFase
<1>3. ASSUME NEW x \in {"acepto", "rechazo"},
             dijo' = [dijo EXCEPT ![p] = @ \cup {x}]
      PROVE  /\ dijo' \in [Pagos -> SUBSET {"acepto", "rechazo"}]
             /\ DijoBien' /\ x \in dijo'[p]
             /\ \A q \in Pagos : dijo[q] \subseteq dijo'[q]
  <2>1. dijo \in [Pagos -> SUBSET {"acepto", "rechazo"}]
    BY <1>0 DEF CfeTypeOK
  <2>2. /\ dijo'[p] = dijo[p] \cup {x}
        /\ \A q \in Pagos \ {p} : dijo'[q] = dijo[q]
    BY <1>3, <2>1
  <2>3. DijoBien'
    BY <1>0, <1>1, <1>2, <2>2 DEF DijoBien
  <2> QED BY <1>3, <2>1, <2>2, <2>3
<1>4. CASE /\ Emitido(i, p, "bl", "111")
           /\ dijo' = [dijo EXCEPT ![p] = @ \cup {"acepto"}]
  <2>1. /\ dijo' \in [Pagos -> SUBSET {"acepto", "rechazo"}]
        /\ DijoBien' /\ "acepto" \in dijo'[p]
        /\ \A q \in Pagos : dijo[q] \subseteq dijo'[q]
    BY <1>3, <1>4
  <2>2. "bl" \in Sufijos /\ "111" \in Tipos
    BY DEF Sufijos, Tipos
  <2> QED BY <1>1, <1>2, <1>4, <2>1, <2>2, EmitidoConserva
<1>5. CASE NoEmitido(i, p) /\ UNCHANGED dijo
  BY <1>1, <1>5, NoEmitidoConserva
<1>6. CASE /\ dijo' = [dijo EXCEPT ![p] = @ \cup {"rechazo"}]
           /\ Pasa(i, p, UnaEmision("eticket", em[i][p].quedan, "bl-et", "101"))
           /\ UNCHANGED <<documentos, corrida>>
  <2>1. /\ dijo' \in [Pagos -> SUBSET {"acepto", "rechazo"}]
        /\ DijoBien' /\ "rechazo" \in dijo'[p]
        /\ \A q \in Pagos : dijo[q] \subseteq dijo'[q]
    BY <1>3, <1>6
  <2> DEFINE e == UnaEmision("eticket", em[i][p].quedan, "bl-et", "101")
  <2>2. em[i][p].quedan \in 0 .. ReintentosFondo
    BY <1>0 DEF CfeTypeOK, Emision
  <2>3. e \in Emision /\ e.fase = "eticket" /\ e.sufijo = "bl-et"
    BY <2>2, UnaEmisionTipo DEF Fases, Sufijos, Tipos
  <2>4. Pasa(i, p, e)
    BY <1>6
  <2> HIDE DEF e
  <2>5. Cambia(i, p, e)
    BY <1>0, <2>3, <2>4, PasaEfecto
  <2>6. CfeTypeOK'
    BY <1>0, <1>1, <1>6, <2>1, <2>5 DEF CfeTypeOK, Cambia
  <2>7. ReceptorQueda /\ documentos' = documentos
    BY <1>1, <1>6 DEF ReceptorQueda
  <2>8. EmisionesBien'
    <3>1. SUFFICES ASSUME NEW j \in Replicas, NEW q \in Pagos PROVE EmisionBien(j, q)'
      BY DEF EmisionesBien
    <3>2. CASE <<j, q>> # <<i, p>>
      <4>1. em'[j][q] = em[j][q] /\ EmisionBien(j, q)
        BY <2>5, <3>2 DEF Cambia, CfeInv, EmisionesBien
      <4> QED BY <2>1, <2>7, <4>1, EmisionQueda
    <3>3. CASE j = i /\ q = p
      BY <2>1, <2>3, <2>5, <3>3 DEF Cambia, EmisionBien
    <3> QED BY <3>2, <3>3
  <2>9. DocumentosBien'
    <3>1. documentos \subseteq Documento
      BY <1>0 DEF CfeTypeOK
    <3> QED BY <1>0, <1>1, <1>6, <2>1, <3>1 DEF DocumentosBien, Documento
  <2>10. ComprobanteFiel'
    BY <1>0, <1>1, <2>7 DEF ComprobanteFiel
  <2> QED BY <2>1, <2>6, <2>8, <2>9, <2>10 DEF CfeInv
<1> QED BY <1>4, <1>5, <1>6 DEF EmitirEFactura

\* The e-Ticket is issued, or not.
LEMMA EmitirETicketConserva ==
  ASSUME CfeInv, NEW i \in Replicas, NEW p \in Pagos, EmitirETicket(i, p)
  PROVE  CfeInv'
<1>0. CfeTypeOK /\ DijoBien
  BY DEF CfeInv
<1> DEFINE s == em[i][p].sufijo
<1>1. /\ UNCHANGED <<pago, comprobantes, manual, dijo, percances>>
      /\ em[i][p].fase = "eticket"
  BY DEF EmitirETicket, EnFase
<1>2. s \in Sufijos /\ "101" \in Tipos
  BY <1>0 DEF CfeTypeOK, Emision, Tipos
<1>3. /\ s = "bl-et" => "rechazo" \in dijo[p]
      /\ s = "bl" => ~pago[p].receptor
  BY <1>1 DEF CfeInv, EmisionesBien, EmisionBien
<1>4. dijo' \in [Pagos -> SUBSET {"acepto", "rechazo"}] /\ DijoBien'
  BY <1>0, <1>1 DEF CfeTypeOK, DijoBien
<1>5. CASE Emitido(i, p, s, "101")
  <2>1. /\ \A q \in Pagos : dijo[q] \subseteq dijo'[q]
        /\ s = "bl-et" => "rechazo" \in dijo'[p]
    BY <1>1, <1>3
  <2> HIDE DEF s
  <2> QED BY <1>1, <1>2, <1>3, <1>4, <1>5, <2>1, EmitidoConserva
<1>6. CASE NoEmitido(i, p)
  BY <1>1, <1>6, NoEmitidoConserva
<1> QED BY <1>5, <1>6 DEF EmitirETicket

\* What is saved is of a document that was issued.
LEMMA GuardarConserva ==
  ASSUME CfeInv, NEW i \in Replicas, NEW p \in Pagos, GuardarComprobante(i, p)
  PROVE  CfeInv'
<1> USE CfeAssumption
<1>0. CfeTypeOK
  BY DEF CfeInv
<1>1. /\ UNCHANGED <<pago, documentos, manual, dijo, percances>>
      /\ em[i][p].fase = "guardar" /\ ReceptorQueda
  BY DEF GuardarComprobante, EnFase, ReceptorQueda
<1>2. /\ \E e \in Emision : Tranquila(e) /\ Cambia(i, p, e)
      /\ corrida' \in [Replicas -> SUBSET Pagos]
  <2>1. CASE Falla(i, p, TRUE)
    BY <1>0, <2>1, FallaEfecto
  <2>2. CASE Termina(i, p)
    <3>1. SinEmision \in Emision
      BY DEF SinEmision, UnaEmision, Emision, Fases, Sufijos, Tipos
    <3> QED BY <1>0, <2>2, <3>1, TerminaEfecto
  <2> QED BY <2>1, <2>2 DEF GuardarComprobante
<1> DEFINE c == [pago |-> p, sufijo |-> em[i][p].sufijo, tipo |-> em[i][p].tipo]
<1>3. /\ c \in Documento /\ c.pago = p
      /\ c.sufijo = em[i][p].sufijo /\ c.tipo = em[i][p].tipo
  BY <1>0 DEF CfeTypeOK, Emision, Documento
<1>4. comprobantes' \subseteq comprobantes \cup {c}
  BY DEF GuardarComprobante, FilaDelUpsert
<1> HIDE DEF c
<1>5. CfeTypeOK'
  BY <1>0, <1>1, <1>2, <1>3, <1>4 DEF CfeTypeOK, Cambia
<1>6. \A j \in Replicas, q \in Pagos :
        em'[j][q] = em[j][q] \/ Tranquila(em'[j][q])
  BY <1>2 DEF Cambia
<1>7. EmisionesBien'
  BY <1>1, <1>6, EmisionQueda, TranquilaBien DEF CfeInv, EmisionesBien
<1>8. DocumentosBien' /\ DijoBien'
  BY <1>1 DEF CfeInv, DocumentosBien, DijoBien
<1>9. ComprobanteFiel'
  <2>1. PICK d \in documentos :
          /\ d.pago = p /\ d.sufijo = c.sufijo
          /\ d.tipo = c.tipo \/ pago[p].anonimizado
    BY <1>1, <1>3 DEF CfeInv, EmisionesBien, EmisionBien
  <2> QED BY <1>1, <1>3, <1>4, <2>1 DEF CfeInv, ComprobanteFiel
<1> QED BY <1>5, <1>7, <1>8, <1>9 DEF CfeInv

-----------------------------------------------------------------------------
(* The theorems *)

\* Every step keeps the invariant.
LEMMA CfePaso == CfeInv /\ [CfeNext]_cfeVars => CfeInv'
<1> SUFFICES ASSUME CfeInv, [CfeNext]_cfeVars PROVE CfeInv'
  OBVIOUS
<1>1. CASE UNCHANGED cfeVars
  <2>1. UNCHANGED <<pago, comprobantes, documentos, em, corrida, manual, dijo,
                    percances>>
    BY <1>1 DEF cfeVars
  <2>2. CfeTypeOK' /\ ReceptorQueda
    BY <2>1 DEF CfeInv, CfeTypeOK, ReceptorQueda
  <2> QED BY <2>1, <2>2, PasoTranquilo
<1>2. ASSUME NEW i \in Replicas, NEW p \in Pagos,
             \/ AprobarPago(i, p) \/ RepetirAviso(i, p)
             \/ VerificarManual(i, p) \/ ReintentarManual(i, p)
             \/ RetomarDelJob(i, p)
      PROVE  CfeInv'
  BY <1>2, AprobarPagoConserva, DisparoConserva
<1>3. ASSUME NEW i \in Replicas, NEW p \in Pagos, PasoDeEmision(i, p)
      PROVE  CfeInv'
  BY <1>3, LeerPagoConserva, EmitirEFacturaConserva, EmitirETicketConserva,
     GuardarConserva, RegistrarConserva DEF PasoDeEmision
<1>4. ASSUME NEW i \in Replicas, CorrerJob(i) \/ CaeReplica(i)
      PROVE  CfeInv'
  BY <1>4, CorrerJobConserva, CaeReplicaConserva
<1>5. ASSUME NEW p \in Pagos,
             PasaElTiempo(p) \/ PasanLosDias(p) \/ AnonimizarReceptor(p)
      PROVE  CfeInv'
  BY <1>5, EntornoConserva
<1> QED BY <1>1, <1>2, <1>3, <1>4, <1>5, Zenon DEF CfeNext

\* The invariant holds in every state.
THEOREM CfeSpecInv == CfeSpec => []CfeInv
<1>1. CfeInit => CfeInv
  BY CfeInicio
<1>2. CfeInv /\ [CfeNext]_cfeVars => CfeInv'
  BY CfePaso
<1> QED BY <1>1, <1>2, PTL DEF CfeSpec

\* The payments, the documents and the emissions are of their types.
THEOREM CfeTipos == CfeSpec => []CfeTypeOK
<1>1. CfeInv => CfeTypeOK
  BY DEF CfeInv
<1> QED BY <1>1, CfeSpecInv, PTL

\* Two documents of a payment are an e-Ticket and an e-Factura that was both
\* accepted and rejected, or its receptor was forgotten: no crash, repeated
\* notification, job or retry by hand issues a second one otherwise.
THEOREM UnSoloDocumento == CfeSpec => []DosDocumentosSoloSi
<1>1. CfeInv => DosDocumentosSoloSi
  <2> SUFFICES ASSUME CfeInv, NEW p \in Pagos,
                      NEW d \in documentos, NEW e \in documentos,
                      d.pago = p, e.pago = p, d # e
               PROVE  pago[p].anonimizado \/ dijo[p] = {"acepto", "rechazo"}
    BY DEF DosDocumentosSoloSi, DocumentosDe
  <2>1. /\ d \in Documento /\ e \in Documento
        /\ dijo[p] \subseteq {"acepto", "rechazo"}
    BY DEF CfeInv, CfeTypeOK
  <2>2. d.sufijo # e.sufijo
    BY DEF CfeInv, DocumentosBien
  <2>3. PICK f \in documentos : f.pago = p /\ f.sufijo = "bl"
    BY <2>1, <2>2 DEF Documento, Sufijos
  <2>4. "rechazo" \in dijo[p]
    BY <2>1, <2>2 DEF CfeInv, DocumentosBien, Documento, Sufijos
  <2>5. f \in Documento
    BY DEF CfeInv, CfeTypeOK
  <2>6. CASE f.tipo = "111"
    BY <2>1, <2>3, <2>4, <2>6 DEF CfeInv, DocumentosBien
  <2>7. CASE f.tipo = "101"
    BY <2>3, <2>4, <2>7 DEF CfeInv, DocumentosBien, DijoBien
  <2> QED BY <2>5, <2>6, <2>7 DEF Documento, Tipos
<1> QED BY <1>1, CfeSpecInv, PTL

\* Every row that is saved has the key of a document that Surtec issued, and
\* its type, unless the receptor was forgotten half way.
THEOREM FilasFieles == CfeSpec => []ComprobanteFiel
<1>1. CfeInv => ComprobanteFiel
  BY DEF CfeInv
<1> QED BY <1>1, CfeSpecInv, PTL

-----------------------------------------------------------------------------
(* The states that the DGI answers (EstadoDgi) *)

\* The runs that changed a document and have still to count it.
PorContar(c) == {i \in ReplicasDgi : c \in aplicados[i]}

\* Until its state is final nobody has a document to count; then it is counted,
\* or one run has it to count, or the one that had it ended.
CuentaLlevada(c) ==
  \/ /\ estadoDgi[c] \notin Definitivos
     /\ contado[c] = 0 /\ PorContar(c) = {} /\ c \notin sinContar
  \/ /\ estadoDgi[c] \in Definitivos
     /\ \/ contado[c] = 1 /\ PorContar(c) = {} /\ c \notin sinContar
        \/ contado[c] = 0 /\ PorContar(c) = {} /\ c \in sinContar
        \/ /\ contado[c] = 0 /\ c \notin sinContar
           /\ \E i \in ReplicasDgi : PorContar(c) = {i}

\* A run has only one thing to do.
UnaCosa(i) == leidos[i] = {} \/ aplicados[i] = {}

DgiInv ==
  /\ DgiTypeOK
  /\ \A c \in Cfes : CuentaLlevada(c)
  /\ \A i \in ReplicasDgi : UnaCosa(i)

\* The invariant is what the property says, and who is to count it.
LEMMA CuentaLlevadaDice == DgiInv => CadaEstadoSeCuentaUnaVez
<1> SUFFICES ASSUME DgiInv, NEW c \in Cfes
             PROVE  /\ contado[c] <= IF estadoDgi[c] \in Definitivos THEN 1 ELSE 0
                    /\ \/ contado[c] = 1
                       \/ estadoDgi[c] \notin Definitivos
                       \/ c \in sinContar \cup UNION {aplicados[i] : i \in ReplicasDgi}
  BY DEF CadaEstadoSeCuentaUnaVez
<1>1. CuentaLlevada(c)
  BY DEF DgiInv
<1>2. contado[c] <= IF estadoDgi[c] \in Definitivos THEN 1 ELSE 0
  BY <1>1 DEF CuentaLlevada
<1>3. ASSUME NEW i \in ReplicasDgi, PorContar(c) = {i}
      PROVE  c \in UNION {aplicados[j] : j \in ReplicasDgi}
  BY <1>3 DEF PorContar
<1> QED BY <1>1, <1>2, <1>3 DEF CuentaLlevada

\* No replica has been told anything at the beginning, or after its run.
LEMMA SinCambiosTipo ==
  SinCambios \in CambiosDe(Cfes) /\ DOMAIN SinCambios = {}
<1>1. DOMAIN SinCambios = {} /\ SinCambios \in [{} -> Definitivos]
  BY DEF SinCambios
<1>2. [{} -> Definitivos] \in {[ds -> Definitivos] : ds \in SUBSET Cfes}
  OBVIOUS
<1> QED BY <1>1, <1>2 DEF CambiosDe

\* What a run is told of some documents is also an answer about all of them.
LEMMA CambiosMonotono ==
  ASSUME NEW cs \in SUBSET Cfes, NEW r \in CambiosDe(cs)
  PROVE  /\ r \in CambiosDe(Cfes)
         /\ DOMAIN r \subseteq cs
         /\ \A c \in DOMAIN r : r[c] \in Definitivos
<1>1. PICK ds \in SUBSET cs : r \in [ds -> Definitivos]
  BY DEF CambiosDe
<1>2. [ds -> Definitivos] \in {[es -> Definitivos] : es \in SUBSET Cfes}
  BY <1>1
<1> QED BY <1>1, <1>2 DEF CambiosDe

\* Before anything is saved, nothing has been counted.
LEMMA DgiInicio == DgiInit => DgiInv
<1> SUFFICES ASSUME DgiInit PROVE DgiInv
  OBVIOUS
<1>1. DgiTypeOK
  BY SinCambiosTipo, EstadoDgiAssumption DEF DgiInit, DgiTypeOK
<1>2. \A c \in Cfes : CuentaLlevada(c)
  BY EstadoDgiAssumption DEF DgiInit, CuentaLlevada, PorContar
<1>3. \A i \in ReplicasDgi : UnaCosa(i)
  BY DEF DgiInit, UnaCosa
<1> QED BY <1>1, <1>2, <1>3 DEF DgiInv

\* A run that ends holds nothing.
LEMMA AcabarTipo ==
  ASSUME DgiTypeOK, NEW i \in ReplicasDgi, Acabar(i)
  PROVE  /\ leidos' \in [ReplicasDgi -> SUBSET Cfes]
         /\ cambios' \in [ReplicasDgi -> CambiosDe(Cfes)]
         /\ \A j \in ReplicasDgi : DOMAIN cambios'[j] \subseteq leidos'[j]
BY SinCambiosTipo DEF DgiTypeOK, Acabar

\* What is written are the final states that the run was told, where the row
\* was still PENDIENTE, and the run has those to count.
LEMMA AplicarEfecto ==
  ASSUME DgiTypeOK, NEW i \in ReplicasDgi, AplicarCambios(i), NEW c \in Cfes
  PROVE  \/ /\ estadoDgi[c] = "PENDIENTE"
            /\ estadoDgi'[c] \in Definitivos
            /\ c \in aplicados'[i]
         \/ /\ estadoDgi'[c] = estadoDgi[c]
            /\ c \notin aplicados'[i]
<1>1. CASE c \in Actualizables(i)
  <2>1. estadoDgi[c] = "PENDIENTE" /\ c \in DOMAIN cambios[i]
    BY <1>1 DEF Actualizables
  <2>2. cambios[i][c] \in Definitivos
    BY <2>1, CambiosMonotono DEF DgiTypeOK
  <2> QED BY <1>1, <2>1, <2>2 DEF AplicarCambios, DgiTypeOK
<1>2. CASE c \notin Actualizables(i)
  BY <1>2 DEF AplicarCambios, DgiTypeOK
<1> QED BY <1>1, <1>2

\* Writing keeps the types.
LEMMA AplicarTipo ==
  ASSUME DgiTypeOK, NEW i \in ReplicasDgi, AplicarCambios(i)
  PROVE  DgiTypeOK'
<1>1. estadoDgi' \in [Cfes -> Definitivos \cup {"PENDIENTE", Nulo}]
  <2>1. \A c \in Cfes : estadoDgi'[c] \in Definitivos \cup {"PENDIENTE", Nulo}
    BY AplicarEfecto DEF DgiTypeOK
  <2>2. estadoDgi' = [c \in Cfes |-> estadoDgi'[c]]
    BY DEF AplicarCambios
  <2> QED BY <2>1, <2>2
<1>2. aplicados' \in [ReplicasDgi -> SUBSET Cfes]
  <2>1. Actualizables(i) \subseteq Cfes
    BY CambiosMonotono DEF Actualizables, DgiTypeOK
  <2> QED BY <2>1 DEF AplicarCambios, DgiTypeOK
<1>3. corridas' \in 0 .. MaxCorridas
  BY DEF AplicarCambios, DgiTypeOK
<1>4. Acabar(i) /\ UNCHANGED <<contado, sinContar>>
  BY DEF AplicarCambios
<1> QED BY <1>1, <1>2, <1>3, <1>4, AcabarTipo DEF DgiTypeOK

\* Counting keeps the types.
LEMMA ContarTipo ==
  ASSUME DgiTypeOK, NEW i \in ReplicasDgi, ContarCambios(i)
  PROVE  DgiTypeOK'
<1>1. contado' \in [Cfes -> Nat]
  BY DEF ContarCambios, DgiTypeOK
<1>2. aplicados' \in [ReplicasDgi -> SUBSET Cfes]
  BY DEF ContarCambios, DgiTypeOK
<1> QED BY <1>1, <1>2 DEF ContarCambios, DgiTypeOK

\* Every step keeps the types.
LEMMA DgiTiposPaso == DgiTypeOK /\ [DgiNext]_dgiVars => DgiTypeOK'
<1> SUFFICES ASSUME DgiTypeOK, [DgiNext]_dgiVars PROVE DgiTypeOK'
  OBVIOUS
<1>1. ASSUME NEW c \in Cfes, SeGuarda(c) PROVE DgiTypeOK'
  BY <1>1 DEF DgiTypeOK, SeGuarda
<1>2. ASSUME NEW i \in ReplicasDgi, LeerPendientes(i) PROVE DgiTypeOK'
  <2>1. Pendientes \subseteq Cfes
    BY DEF Pendientes
  <2>2. leidos' \in [ReplicasDgi -> SUBSET Cfes]
    BY <1>2, <2>1 DEF DgiTypeOK, LeerPendientes
  <2>3. \A j \in ReplicasDgi : DOMAIN cambios'[j] \subseteq leidos'[j]
    BY <1>2 DEF DgiTypeOK, LeerPendientes
  <2>4. corridas' \in 0 .. MaxCorridas
    BY <1>2, EstadoDgiAssumption DEF DgiTypeOK, LeerPendientes
  <2> QED BY <1>2, <2>2, <2>3, <2>4 DEF DgiTypeOK, LeerPendientes
<1>3. ASSUME NEW i \in ReplicasDgi, ConsultarEmitidos(i) PROVE DgiTypeOK'
  <2>1. CASE Acabar(i)
    BY <1>3, <2>1, AcabarTipo DEF DgiTypeOK, ConsultarEmitidos
  <2>2. ASSUME NEW r \in CambiosDe(leidos[i]),
               cambios' = [cambios EXCEPT ![i] = r], UNCHANGED leidos
        PROVE  DgiTypeOK'
    <3>1. leidos[i] \in SUBSET Cfes
      BY DEF DgiTypeOK
    <3>2. r \in CambiosDe(Cfes) /\ DOMAIN r \subseteq leidos[i]
      BY <2>2, <3>1, CambiosMonotono
    <3> QED BY <1>3, <2>2, <3>2 DEF DgiTypeOK, ConsultarEmitidos
  <2> QED BY <1>3, <2>1, <2>2 DEF ConsultarEmitidos
<1>4. ASSUME NEW i \in ReplicasDgi, AplicarCambios(i) PROVE DgiTypeOK'
  BY <1>4, AplicarTipo
<1>5. ASSUME NEW i \in ReplicasDgi, AbandonarCorrida(i) PROVE DgiTypeOK'
  <2>1. /\ aplicados' \in [ReplicasDgi -> SUBSET Cfes]
        /\ sinContar' \subseteq Cfes
    BY <1>5 DEF DgiTypeOK, AbandonarCorrida
  <2> QED BY <1>5, <2>1, AcabarTipo DEF DgiTypeOK, AbandonarCorrida
<1>6. ASSUME NEW i \in ReplicasDgi, ContarCambios(i) PROVE DgiTypeOK'
  BY <1>6, ContarTipo
<1>7. CASE UNCHANGED dgiVars
  BY <1>7 DEF DgiTypeOK, dgiVars
<1> QED BY <1>1, <1>2, <1>3, <1>4, <1>5, <1>6, <1>7 DEF DgiNext

\* What a step does to the state of a document: nothing, or it becomes pending,
\* or it is settled.
LEMMA DgiUnDocumento ==
  ASSUME DgiTypeOK, [DgiNext]_dgiVars, NEW c \in Cfes
  PROVE  \/ estadoDgi'[c] = estadoDgi[c]
         \/ estadoDgi[c] = Nulo /\ estadoDgi'[c] = "PENDIENTE"
         \/ estadoDgi[c] = "PENDIENTE" /\ estadoDgi'[c] \in Definitivos
<1>1. ASSUME NEW d \in Cfes, SeGuarda(d)
      PROVE  \/ estadoDgi'[c] = estadoDgi[c]
             \/ estadoDgi[c] = Nulo /\ estadoDgi'[c] = "PENDIENTE"
  BY <1>1 DEF SeGuarda, DgiTypeOK
<1>2. ASSUME NEW i \in ReplicasDgi,
             \/ LeerPendientes(i) \/ ConsultarEmitidos(i)
             \/ ContarCambios(i) \/ AbandonarCorrida(i)
      PROVE  estadoDgi'[c] = estadoDgi[c]
  BY <1>2 DEF LeerPendientes, ConsultarEmitidos, ContarCambios, AbandonarCorrida
<1>3. CASE \E i \in ReplicasDgi : AplicarCambios(i)
  BY <1>3, AplicarEfecto
<1>4. CASE UNCHANGED dgiVars
  BY <1>4 DEF dgiVars
<1> QED BY <1>1, <1>2, <1>3, <1>4 DEF DgiNext

\* Writing the states: who settles a document has it to count.
LEMMA AplicarCuenta ==
  ASSUME DgiInv, NEW i \in ReplicasDgi, AplicarCambios(i), NEW c \in Cfes
  PROVE  CuentaLlevada(c)'
<1>1. DgiTypeOK /\ CuentaLlevada(c)
  BY DEF DgiInv
<1>2. UNCHANGED <<contado, sinContar>>
  BY DEF AplicarCambios
<1>3. \A j \in ReplicasDgi \ {i} : aplicados'[j] = aplicados[j]
  BY <1>1 DEF AplicarCambios, DgiTypeOK
<1>4. c \notin aplicados[i]
  <2>1. DOMAIN cambios[i] # {}
    <3>1. PICK ds \in SUBSET Cfes : cambios[i] \in [ds -> Definitivos]
      BY <1>1 DEF DgiTypeOK, CambiosDe
    <3>2. cambios[i] # SinCambios
      BY DEF AplicarCambios
    <3>3. CASE ds = {}
      BY <3>1, <3>2, <3>3 DEF SinCambios
    <3> QED BY <3>1, <3>3
  <2> QED BY <1>1, <2>1 DEF DgiInv, UnaCosa, DgiTypeOK
<1>5. CASE /\ estadoDgi[c] = "PENDIENTE" /\ estadoDgi'[c] \in Definitivos
           /\ c \in aplicados'[i]
  <2>1. contado[c] = 0 /\ PorContar(c) = {} /\ c \notin sinContar
    BY <1>1, <1>5, EstadoDgiAssumption DEF CuentaLlevada, Definitivos
  <2>2. PorContar(c)' = {i}
    BY <1>3, <1>5, <2>1 DEF PorContar
  <2> QED BY <1>2, <1>5, <2>1, <2>2 DEF CuentaLlevada
<1>6. CASE estadoDgi'[c] = estadoDgi[c] /\ c \notin aplicados'[i]
  <2>1. PorContar(c)' = PorContar(c)
    BY <1>3, <1>4, <1>6 DEF PorContar
  <2> QED BY <1>1, <1>2, <1>6, <2>1 DEF CuentaLlevada
<1> QED BY <1>1, <1>5, <1>6, AplicarEfecto

\* Counting them, or ending before that: the run has nothing to count any more.
LEMMA ContarCuenta ==
  ASSUME DgiInv, NEW i \in ReplicasDgi, ContarCambios(i) \/ AbandonarCorrida(i),
         NEW c \in Cfes
  PROVE  CuentaLlevada(c)'
<1>1. DgiTypeOK /\ CuentaLlevada(c)
  BY DEF DgiInv
<1>2. estadoDgi' = estadoDgi
  BY DEF ContarCambios, AbandonarCorrida
<1>3. PorContar(c)' = PorContar(c) \ {i}
  BY <1>1 DEF ContarCambios, AbandonarCorrida, DgiTypeOK, PorContar
<1>4. CASE c \in aplicados[i]
  <2>1. /\ estadoDgi[c] \in Definitivos /\ contado[c] = 0
        /\ c \notin sinContar /\ PorContar(c) = {i}
    BY <1>1, <1>4 DEF CuentaLlevada, PorContar
  <2>2. PorContar(c)' = {}
    BY <1>3, <2>1
  <2>3. \/ contado'[c] = 1 /\ c \notin sinContar'
        \/ contado'[c] = 0 /\ c \in sinContar'
    BY <1>1, <1>4, <2>1 DEF ContarCambios, AbandonarCorrida, DgiTypeOK
  <2> QED BY <1>2, <2>1, <2>2, <2>3 DEF CuentaLlevada
<1>5. CASE c \notin aplicados[i]
  <2>1. PorContar(c)' = PorContar(c)
    BY <1>3, <1>5 DEF PorContar
  <2>2. contado'[c] = contado[c] /\ (c \in sinContar' <=> c \in sinContar)
    BY <1>1, <1>5 DEF ContarCambios, AbandonarCorrida, DgiTypeOK
  <2> QED BY <1>1, <1>2, <2>1, <2>2 DEF CuentaLlevada
<1> QED BY <1>4, <1>5

\* Every step keeps the invariant.
LEMMA DgiPaso == DgiInv /\ [DgiNext]_dgiVars => DgiInv'
<1> SUFFICES ASSUME DgiInv, [DgiNext]_dgiVars PROVE DgiInv'
  OBVIOUS
<1>1. DgiTypeOK /\ DgiTypeOK'
  BY DgiTiposPaso DEF DgiInv
<1>2. ASSUME NEW c \in Cfes PROVE CuentaLlevada(c)'
  <2>1. CuentaLlevada(c)
    BY DEF DgiInv
  <2>2. ASSUME NEW d \in Cfes, SeGuarda(d) PROVE CuentaLlevada(c)'
    <3>1. estadoDgi'[c] \in Definitivos <=> estadoDgi[c] \in Definitivos
      BY <1>1, <2>2, EstadoDgiAssumption DEF SeGuarda, DgiTypeOK, Definitivos
    <3>2. UNCHANGED <<aplicados, contado, sinContar>>
      BY <2>2 DEF SeGuarda
    <3> QED BY <2>1, <3>1, <3>2 DEF CuentaLlevada, PorContar
  <2>3. ASSUME NEW i \in ReplicasDgi, LeerPendientes(i) \/ ConsultarEmitidos(i)
        PROVE  CuentaLlevada(c)'
    BY <2>1, <2>3 DEF LeerPendientes, ConsultarEmitidos, CuentaLlevada, PorContar
  <2>4. ASSUME NEW i \in ReplicasDgi, AplicarCambios(i) PROVE CuentaLlevada(c)'
    BY <2>4, AplicarCuenta
  <2>5. ASSUME NEW i \in ReplicasDgi, ContarCambios(i) \/ AbandonarCorrida(i)
        PROVE  CuentaLlevada(c)'
    BY <2>5, ContarCuenta
  <2>6. CASE UNCHANGED dgiVars
    BY <2>1, <2>6 DEF dgiVars, CuentaLlevada, PorContar
  <2> QED BY <2>2, <2>3, <2>4, <2>5, <2>6 DEF DgiNext
<1>3. ASSUME NEW i \in ReplicasDgi PROVE UnaCosa(i)'
  <2>1. UnaCosa(i)
    BY DEF DgiInv
  <2>2. CASE \E c \in Cfes : SeGuarda(c)
    BY <2>1, <2>2 DEF SeGuarda, UnaCosa
  <2>3. ASSUME NEW j \in ReplicasDgi, LeerPendientes(j) PROVE UnaCosa(i)'
    BY <1>1, <2>1, <2>3 DEF LeerPendientes, UnaCosa, DgiTypeOK
  <2>4. ASSUME NEW j \in ReplicasDgi, ConsultarEmitidos(j) PROVE UnaCosa(i)'
    BY <1>1, <2>1, <2>4 DEF ConsultarEmitidos, Acabar, UnaCosa, DgiTypeOK
  <2>5. ASSUME NEW j \in ReplicasDgi, AplicarCambios(j) PROVE UnaCosa(i)'
    BY <1>1, <2>1, <2>5 DEF AplicarCambios, Acabar, UnaCosa, DgiTypeOK
  <2>6. ASSUME NEW j \in ReplicasDgi, ContarCambios(j) \/ AbandonarCorrida(j)
        PROVE  UnaCosa(i)'
    BY <1>1, <2>1, <2>6 DEF ContarCambios, AbandonarCorrida, Acabar, UnaCosa, DgiTypeOK
  <2>7. CASE UNCHANGED dgiVars
    BY <2>1, <2>7 DEF dgiVars, UnaCosa
  <2> QED BY <2>2, <2>3, <2>4, <2>5, <2>6, <2>7 DEF DgiNext
<1> QED BY <1>1, <1>2, <1>3 DEF DgiInv

\* No step changes a final state.
LEMMA DgiDefinitivoPaso ==
  ASSUME DgiTypeOK, [DgiNext]_dgiVars
  PROVE  \A c \in Cfes : estadoDgi[c] \in Definitivos
           => estadoDgi'[c] = estadoDgi[c]
BY DgiUnDocumento, EstadoDgiAssumption DEF Definitivos

\* The state before the tax office stays well formed and counted, for any
\* number of documents, replicas and runs.
THEOREM DgiSpecInv == DgiSpec => []DgiInv
<1> QED BY DgiInicio, DgiPaso, PTL DEF DgiSpec

\* A document is counted, and its rejection announced, at most once, however
\* the runs of the replicas overlap; and it is, unless the run that wrote its
\* state ends between the commit and the count.
THEOREM CadaEstadoUnaVez == DgiSpec => []CadaEstadoSeCuentaUnaVez
<1> QED BY CuentaLlevadaDice, DgiSpecInv, PTL

\* A final state is never written over by a run that was told another one.
THEOREM EstadoDefinitivoQueda == DgiSpec => EstadoDefinitivoNoCambia
<1>1. DgiInv => DgiTypeOK
  BY DEF DgiInv
<1>2. DgiTypeOK /\ [DgiNext]_dgiVars =>
        [\A c \in Cfes : estadoDgi[c] \in Definitivos
           => estadoDgi'[c] = estadoDgi[c]]_dgiVars
  BY DgiDefinitivoPaso
<1> QED BY <1>1, <1>2, DgiSpecInv, PTL DEF DgiSpec, EstadoDefinitivoNoCambia

=============================================================================
