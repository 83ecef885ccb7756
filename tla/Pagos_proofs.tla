---------------------------- MODULE Pagos_proofs ----------------------------
(***************************************************************************)
(* Proofs about Pagos, for every set of tables, orders, keys and handlers: *)
(* IInv is inductive, so every step, whatever it races with, leaves the    *)
(* kitchen with orders for which money was taken.  At the end, Pagos       *)
(* implements Prepago: every step of a request, a handler, the job or the  *)
(* staff is, for each order, a charge, a confirmation that was paid for, a *)
(* delivery, a cancellation or nothing.                                    *)
(***************************************************************************)
EXTENDS Pagos, TLAPS

-----------------------------------------------------------------------------
(* What the transactions do, in the terms of the invariant *)

\* Nothing a handler relied on is undone: an accredited order stays so, a row
\* of pago is not deleted, a resolved pedido does not wait to be paid again.
Avanza ==
  /\ \A k \in Claves : orden[k] \in Acreditadas => orden'[k] \in Acreditadas
  /\ \A k \in Claves : pago[k].estado # "NADA" => pago'[k].estado # "NADA"
  /\ \A p \in Pedidos : pedido[p] \in Resuelto => pedido'[p] \in Resuelto

\* The row of k gets state e and no other row of pago changes.
FilaEscrita(k, e) ==
  /\ pago' \in [Claves -> FilaPago]
  /\ pago'[k].estado = e
  /\ \A j \in Claves \ {k} : pago'[j] = pago[j]

\* An update of a payment writes the state it is given and keeps the mark.
LEMMA ResuelveFila ==
  ASSUME TypeOK, NEW k \in Claves, NEW e \in PagoEstado,
         NEW r \in Claves \cup {Ninguna}, NEW m \in Motivos, Resuelve(k, e, r, m)
  PROVE  FilaEscrita(k, e) /\ pago'[k].marcado = pago[k].marcado
BY DEF TypeOK, Resuelve, Fila, FilaPago, FilaEscrita

\* An inserted row is not marked.
LEMMA InsertaFila ==
  ASSUME TypeOK, NEW k \in Claves, NEW e \in PagoEstado,
         pago' = [pago EXCEPT ![k] = Fila(e, Ninguna, "NINGUNO", FALSE)]
  PROVE  FilaEscrita(k, e) /\ pago'[k].marcado = FALSE
BY DEF TypeOK, Fila, FilaPago, FilaEscrita, Motivos

\* The tables after a step: well typed, and with a session exactly when open.
MesaBien ==
  /\ mesa' \in [Mesas -> [estado : MesaEstado, sesion : Nat]]
  /\ SesionCoherente'

\* Writing a coherent row leaves the tables coherent.
LEMMA EscribeMesa ==
  ASSUME TypeOK, SesionCoherente, NEW m \in Mesas, NEW e \in MesaEstado,
         NEW s \in Nat, CambiaMesa(m, e, s),
         FilaCoherente(m, [estado |-> e, sesion |-> s])
  PROVE  MesaBien
<1>1. /\ mesa' \in [Mesas -> [estado : MesaEstado, sesion : Nat]]
      /\ mesa'[m] = [estado |-> e, sesion |-> s]
      /\ \A n \in Mesas \ {m} : mesa'[n] = mesa[n]
  BY DEF TypeOK, CambiaMesa
<1>2. ASSUME NEW n \in Mesas PROVE FilaCoherente(n, mesa'[n])
  <2>1. CASE n = m
    BY <1>1, <2>1
  <2>2. CASE n # m
    BY <1>1, <2>2 DEF SesionCoherente, FilaCoherente
  <2> QED BY <2>1, <2>2
<1> QED BY <1>1, <1>2 DEF MesaBien, SesionCoherente, FilaCoherente

\* A step that leaves the tables alone leaves them coherent.
LEMMA MesaQuieta ==
  ASSUME TypeOK, SesionCoherente, UNCHANGED mesa
  PROVE  MesaBien
BY DEF TypeOK, SesionCoherente, FilaCoherente, MesaBien

\* Taking a table out of a charge never opens a closed one.
LEMMA LiberarMesa ==
  ASSUME TypeOK, SesionCoherente, NEW m \in Mesas, Liberar(m)
  PROVE  MesaBien
<1>1. CASE mesa[m].estado = "EN_PROCESO_DE_PAGO"
  <2>1. /\ mesa[m].sesion \in Nat
        /\ "OCUPADA" \in MesaEstado
        /\ CambiaMesa(m, "OCUPADA", mesa[m].sesion)
    BY <1>1 DEF TypeOK, MesaEstado, Liberar
  <2>2. FilaCoherente(m, [estado |-> "OCUPADA", sesion |-> mesa[m].sesion])
    BY <1>1 DEF SesionCoherente, FilaCoherente
  <2> QED BY <2>1, <2>2, EscribeMesa
<1>2. CASE mesa[m].estado # "EN_PROCESO_DE_PAGO"
  BY <1>2, MesaQuieta DEF Liberar
<1> QED BY <1>1, <1>2

\* What confirmarPagoEnTx does to the orders.
PedidoConfirmado(p, k) ==
  /\ pedido' \in [Pedidos -> PedidoEstado]
  /\ confirmadoPor' \in [Pedidos -> Claves \cup {Ninguna}]
  /\ \A q \in Pedidos \ {p} :
       pedido'[q] = pedido[q] /\ confirmadoPor'[q] = confirmadoPor[q]
  /\ pedido[p] = "PENDIENTE_PAGO"
       => pedido'[p] = "RECIBIDO" /\ confirmadoPor'[p] = k
  /\ pedido[p] # "PENDIENTE_PAGO"
       => pedido'[p] = pedido[p] /\ confirmadoPor'[p] = confirmadoPor[p]

\* The conditional update confirms an order that waits and touches no other.
LEMMA ConfirmarPedido ==
  ASSUME TypeOK, NEW p \in Pedidos, NEW k \in Claves, Confirmar(p, k)
  PROVE  PedidoConfirmado(p, k)
BY DEF TypeOK, Confirmar, Confirmable, PedidoEstado, PedidoConfirmado

-----------------------------------------------------------------------------
(* Handlers *)

\* What a handler holds stays good while everything advances.
LEMMA LecturaBuenaEstable ==
  ASSUME TypeOK, Avanza, NEW l \in Lectura, LecturaBuena(l)
  PROVE  LecturaBuena(l)'
BY ConstantesAssumption
   DEF Avanza, LecturaBuena, Lectura, EstadosAplicables, TypeOK, Acciones

LecturasBien ==
  /\ lectura' \in [Lectores -> Lectura]
  /\ LecturaReal'
  /\ JobEnPago'

\* So a step of anybody else leaves the handlers as they were.
LEMMA LecturasQuietas ==
  ASSUME TypeOK, LecturaReal, JobEnPago, Avanza, UNCHANGED lectura
  PROVE  LecturasBien
<1>1. LecturaReal'
  BY LecturaBuenaEstable DEF LecturaReal, TypeOK
<1> QED BY <1>1 DEF LecturasBien, JobEnPago, Job, TypeOK

\* The job, unless it is expiring a payment, knows which one it is at.
JobBueno(h, l) ==
  h = Conciliacion /\ l.paso # "libre"
    /\ l.accion \notin {"vencer", "vencer_sin_liberar"} => l.lista \in Claves

\* A handler that reads something good leaves the handlers good.
LEMMA LecturaNueva ==
  ASSUME TypeOK, LecturaReal, JobEnPago, Avanza,
         NEW h \in Lectores, NEW l \in Lectura,
         lectura' = [lectura EXCEPT ![h] = l],
         LecturaBuena(l)', JobBueno(h, l)
  PROVE  LecturasBien
<1>1. /\ lectura' \in [Lectores -> Lectura]
      /\ lectura'[h] = l
      /\ \A g \in Lectores \ {h} : lectura'[g] = lectura[g]
  BY DEF TypeOK
<1>2. ASSUME NEW g \in Lectores PROVE LecturaBuena(lectura[g])'
  <2>1. CASE g = h
    BY <1>1, <2>1 DEF LecturaBuena
  <2>2. CASE g # h
    <3>1. PICK x \in Lectura : x = lectura[g]
      BY DEF TypeOK
    <3>2. LecturaBuena(x)
      BY <3>1 DEF LecturaReal
    <3>3. LecturaBuena(x)'
      BY <3>2, LecturaBuenaEstable
    <3> QED BY <1>1, <2>2, <3>1, <3>3 DEF LecturaBuena
  <2> QED BY <2>1, <2>2
<1>3. JobEnPago'
  BY <1>1 DEF JobEnPago, Job, JobBueno, Lectores
<1> QED BY <1>1, <1>2, <1>3 DEF LecturasBien, LecturaReal

\* A handler that is done holds nothing.
LEMMA TerminadaBuena ==
  ASSUME TypeOK, NEW h \in Lectores, NEW r \in BOOLEAN,
         NEW l, l = Terminada(h, r),
         h = Conciliacion /\ ~r => Job.lista \in Claves
  PROVE  l \in Lectura /\ LecturaBuena(l)' /\ JobBueno(h, l)
<1>1. lectura[h].lista \in Claves \cup {Ninguna}
  BY DEF TypeOK, Lectura
<1>2. \/ l = UnaLectura("por_vencer", lectura[h].lista, Ninguna, "PENDIENTE",
                        Ninguna, "nada") /\ (h = Conciliacion => ~r)
      \/ l = SinLectura
  BY DEF Terminada
<1> QED
  BY <1>1, <1>2
  DEF Terminada, SinLectura, UnaLectura, Lectura, LecturaBuena, JobBueno, Job,
      Acciones, EstadosAplicables

-----------------------------------------------------------------------------
(* How the steps preserve the invariant, by what they leave alone *)

\* The part of the invariant about orders and payments.
PagosBien ==
  /\ ConfirmadoEnCocina'
  /\ PrepagoReal'
  /\ AprobadoLlega'
  /\ ReembolsoJusto'
  /\ EfectivoUnaVez'

\* The requests after a step.
CobroBien ==
  /\ cobro' \in [Claves -> CobroPaso]
  /\ \A k \in Claves :
       /\ Medio[k] = "EFECTIVO" => cobro'[k] \in {"inicio", "leido", "fin"}
       /\ cobro'[k] = "aprobado" => orden'[k] \in Acreditadas
       /\ cobro'[k] \in AntesDeCobrar => orden'[k] = "NO_EXISTE"
       /\ cobro'[k] # "inicio" => pedido[PedidoDe[k]] \in Creado

\* Requests that do not move stay as good as they were.
LEMMA CobroQuieto ==
  ASSUME IInv, UNCHANGED <<cobro, orden>>
  PROVE  CobroBien
BY DEF IInv, TypeOK, CobroBien, MedioCoherente, RespuestaReal, SinOrdenAntes,
       PagoDePedido

\* A request that moves to a step it may be at.
LEMMA CobroMueve ==
  ASSUME IInv, NEW k \in Claves, NEW c \in CobroPaso,
         cobro' = [cobro EXCEPT ![k] = c],
         \A j \in Claves \ {k} : orden'[j] = orden[j],
         c \in AntesDeCobrar => orden'[k] = "NO_EXISTE",
         Medio[k] = "EFECTIVO" => c \in {"inicio", "leido", "fin"},
         c = "aprobado" => orden'[k] \in Acreditadas,
         c # "inicio" => pedido[PedidoDe[k]] \in Creado
  PROVE  CobroBien
BY DEF IInv, TypeOK, CobroBien, MedioCoherente, RespuestaReal, SinOrdenAntes,
       PagoDePedido

\* The orders of the gateway only move forward.
OrdenBien ==
  /\ orden' \in [Claves -> OrdenEstado]
  /\ \A k \in Claves : orden[k] \in Acreditadas => orden'[k] \in Acreditadas

\* A step that writes neither payments nor orders keeps what is said of them.
LEMMA SinTocarPagos ==
  ASSUME IInv, OrdenBien, UNCHANGED <<pago, pedido, confirmadoPor>>
  PROVE  Avanza /\ PagosBien
<1>1. Avanza
  BY DEF Avanza, OrdenBien
<1>2. ConfirmadoEnCocina' /\ AprobadoLlega' /\ ReembolsoJusto' /\ EfectivoUnaVez'
  BY DEF IInv, ConfirmadoEnCocina, AprobadoLlega, ReembolsoJusto, EfectivoUnaVez
<1>3. PrepagoReal'
  BY DEF IInv, PrepagoReal, Cobrados, Cobrada, OrdenBien
<1> QED BY <1>1, <1>2, <1>3 DEF PagosBien

\* A card payment is written, and its order is not: allowed if the order is
\* resolved, or the payment neither approved nor newly marked.
LEMMA EscribePago ==
  ASSUME IInv, NEW k \in Claves, NEW e \in PagoEstado \ {"NADA"},
         FilaEscrita(k, e), Medio[k] = "MERCADOPAGO",
         e = "APROBADO" \/ (pago'[k].marcado /\ ~pago[k].marcado)
           => \/ pedido[PedidoDe[k]] \in Resuelto
              \/ pago[k].estado = e /\ pago'[k].marcado = pago[k].marcado,
         UNCHANGED <<orden, pedido, confirmadoPor>>
  PROVE  Avanza /\ PagosBien
<1>1. Avanza
  BY DEF Avanza, FilaEscrita
<1>2. pago'[k].marcado = TRUE \/ pago'[k].marcado = FALSE
  BY DEF FilaEscrita, FilaPago
<1>3. ConfirmadoEnCocina'
  BY DEF IInv, ConfirmadoEnCocina
<1>4. PrepagoReal'
  BY DEF IInv, PrepagoReal, Cobrados, Cobrada, FilaEscrita
<1>5. AprobadoLlega'
  BY DEF IInv, AprobadoLlega, FilaEscrita
<1>6. ReembolsoJusto'
  BY DEF IInv, ReembolsoJusto, FilaEscrita, TypeOK, FilaPago
<1>7. EfectivoUnaVez'
  BY DEF IInv, EfectivoUnaVez, FilaEscrita
<1> QED BY <1>1, <1>3, <1>4, <1>5, <1>6, <1>7 DEF PagosBien

\* A payment is approved and its order confirmed if it waits for that, which
\* one in cash requires: money was taken for it.
LEMMA ApruebaPago ==
  ASSUME IInv, NEW k \in Claves, FilaEscrita(k, "APROBADO"),
         pago'[k].marcado => pago[k].marcado,
         PedidoConfirmado(PedidoDe[k], k), pedido[PedidoDe[k]] \in Creado,
         Medio[k] = "EFECTIVO" => pedido[PedidoDe[k]] = "PENDIENTE_PAGO",
         Medio[k] = "MERCADOPAGO" => orden[k] \in Acreditadas \/ PedidoDe[k] \in Cobrados,
         UNCHANGED orden
  PROVE  Avanza /\ PagosBien
<1>1. PedidoDe[k] \in Pedidos /\ Medio[k] \in Medios
  BY ConstantesAssumption
<1>2. \A q \in Pedidos : pedido[q] \in Resuelto => pedido'[q] \in Resuelto
  BY DEF PedidoConfirmado, Resuelto
<1>3. pedido'[PedidoDe[k]] \in Resuelto
  BY DEF PedidoConfirmado, Resuelto, Creado, PedidoEstado
<1>4. Avanza
  BY <1>2 DEF Avanza, FilaEscrita
<1>5. Cobrados \subseteq Cobrados' /\ PedidoDe[k] \in Cobrados'
  <2>1. \A j \in Claves : Cobrada(j) => Cobrada(j)'
    BY DEF Cobrada, FilaEscrita
  <2>2. Cobrados \subseteq Cobrados'
    BY <2>1 DEF Cobrados
  <2>3. Cobrada(k)' \/ PedidoDe[k] \in Cobrados
    BY <1>1 DEF Cobrada, FilaEscrita, Medios
  <2> QED BY <1>1, <2>2, <2>3 DEF Cobrados
<1>6. ConfirmadoEnCocina'
  BY <1>1 DEF IInv, ConfirmadoEnCocina, PedidoConfirmado, EnCocina
<1>7. PrepagoReal'
  BY <1>1, <1>5 DEF IInv, PrepagoReal, PedidoConfirmado
<1>8. AprobadoLlega'
  BY <1>2, <1>3, ConstantesAssumption DEF IInv, AprobadoLlega, FilaEscrita
<1>9. ReembolsoJusto'
  BY <1>2, <1>3, ConstantesAssumption DEF IInv, ReembolsoJusto, FilaEscrita
<1>10. EfectivoUnaVez'
  <2>1. ASSUME NEW j \in Claves \ {k}, Medio[j] = "EFECTIVO", pago[j].estado = "APROBADO"
        PROVE  confirmadoPor'[PedidoDe[j]] = j
    <3>1. confirmadoPor[PedidoDe[j]] = j /\ j # Ninguna /\ PedidoDe[j] \in Pedidos
      BY <2>1, ConstantesAssumption DEF IInv, EfectivoUnaVez
    <3>2. pedido[PedidoDe[j]] # "PENDIENTE_PAGO"
      BY <3>1 DEF IInv, ConfirmadoEnCocina, EnCocina
    <3> QED BY <3>1, <3>2 DEF PedidoConfirmado
  <2> QED BY <2>1 DEF EfectivoUnaVez, FilaEscrita, PedidoConfirmado
<1> QED BY <1>4, <1>6, <1>7, <1>8, <1>9, <1>10 DEF PagosBien

\* The rows of pago after a step.
FilasBien ==
  /\ pago' \in [Claves -> FilaPago]
  /\ \A k \in Claves :
       /\ pago'[k].estado # "NADA" => pedido[PedidoDe[k]] \in Creado
       /\ Medio[k] = "EFECTIVO" => pago'[k].estado \in {"NADA", "APROBADO"}

\* Rows nobody writes.
LEMMA FilasQuietas ==
  ASSUME IInv, UNCHANGED pago
  PROVE  FilasBien
BY DEF IInv, TypeOK, FilasBien, PagoDePedido, MedioCoherente

\* The row of an order that exists is written.
LEMMA FilasEscritas ==
  ASSUME IInv, NEW k \in Claves, NEW e \in PagoEstado, FilaEscrita(k, e),
         pedido[PedidoDe[k]] \in Creado, Medio[k] = "EFECTIVO" => e = "APROBADO"
  PROVE  FilasBien
BY DEF IInv, TypeOK, FilasBien, FilaEscrita, PagoDePedido, MedioCoherente

\* The orders after a step: none is deleted.
PedidosBien ==
  /\ pedido' \in [Pedidos -> PedidoEstado]
  /\ confirmadoPor' \in [Pedidos -> Claves \cup {Ninguna}]
  /\ \A p \in Pedidos : pedido[p] \in Creado => pedido'[p] \in Creado

\* Confirming an order does not delete it.
LEMMA ConfirmadoBien ==
  ASSUME NEW p \in Pedidos, NEW k \in Claves, PedidoConfirmado(p, k)
  PROVE  PedidosBien
BY DEF PedidoConfirmado, PedidosBien, Creado, PedidoEstado

\* Orders nobody writes.
LEMMA PedidosQuietos ==
  ASSUME TypeOK, UNCHANGED <<pedido, confirmadoPor>>
  PROVE  PedidosBien
BY DEF TypeOK, PedidosBien

\* The variables the invariant only types.
RestoBien ==
  /\ sesiones' \in [Mesas -> Nat]
  /\ orden' \in [Claves -> OrdenEstado]
  /\ avisos' \subseteq Claves
  /\ cierre' \in [Mesas -> Cierre]
  /\ historialCancelado' \subseteq Pedidos

\* The parts make the invariant.
LEMMA Ensambla ==
  ASSUME MesaBien, PedidosBien, FilasBien, CobroBien, LecturasBien, RestoBien, PagosBien
  PROVE  IInv'
<1>1. \A k \in Claves : PedidoDe[k] \in Pedidos
  BY ConstantesAssumption
<1>2. TypeOK'
  BY DEF TypeOK, MesaBien, PedidosBien, FilasBien, CobroBien, LecturasBien, RestoBien
<1>3. MedioCoherente'
  BY DEF MedioCoherente, CobroBien, FilasBien
<1>4. PagoDePedido'
  BY <1>1 DEF PagoDePedido, CobroBien, FilasBien, PedidosBien
<1>5. RespuestaReal' /\ SinOrdenAntes'
  BY DEF RespuestaReal, SinOrdenAntes, CobroBien
<1> QED
  BY <1>2, <1>3, <1>4, <1>5 DEF IInv, MesaBien, LecturasBien, PagosBien

-----------------------------------------------------------------------------
(* Steps grouped by the state they write *)

\* Steps of a table that leave orders and payments alone.
LEMMA SoloMesa ==
  ASSUME IInv, MesaBien, sesiones' \in [Mesas -> Nat], cierre' \in [Mesas -> Cierre],
         UNCHANGED <<pedidoVars, pago, redVars, cobro, lectura>>
  PROVE  IInv'
<1>1. /\ OrdenBien /\ TypeOK
      /\ UNCHANGED <<orden, pago, pedido, confirmadoPor, cobro, lectura>>
  BY DEF IInv, TypeOK, OrdenBien, pedidoVars, redVars
<1>2. Avanza /\ PagosBien
  BY <1>1, SinTocarPagos
<1>3. CobroBien /\ FilasBien /\ PedidosBien
  BY <1>1, CobroQuieto, FilasQuietas, PedidosQuietos
<1>4. LecturasBien
  BY <1>1, <1>2, LecturasQuietas DEF IInv
<1>5. RestoBien
  BY <1>1 DEF RestoBien, TypeOK, pedidoVars, redVars
<1> QED BY <1>2, <1>3, <1>4, <1>5, Ensambla

\* Steps of a request to pay, of the gateway, or of both.
LEMMA SoloCobro ==
  ASSUME IInv, OrdenBien, avisos' \subseteq Claves, CobroBien,
         UNCHANGED <<mesaVars, pedidoVars, pago, lectura>>
  PROVE  IInv'
<1>1. UNCHANGED <<mesa, pago, pedido, confirmadoPor, lectura>> /\ TypeOK
  BY DEF IInv, mesaVars, pedidoVars
<1>2. Avanza /\ PagosBien
  BY <1>1, SinTocarPagos
<1>3. MesaBien /\ FilasBien /\ PedidosBien
  BY <1>1, MesaQuieta, FilasQuietas, PedidosQuietos DEF IInv
<1>4. LecturasBien
  BY <1>1, <1>2, LecturasQuietas DEF IInv
<1>5. RestoBien
  BY <1>1 DEF RestoBien, TypeOK, mesaVars, pedidoVars, OrdenBien
<1> QED BY <1>2, <1>3, <1>4, <1>5, Ensambla

\* Steps of a handler that only reads.
LEMMA SoloLectura ==
  ASSUME IInv, LecturasBien, avisos' \subseteq Claves,
         UNCHANGED <<mesaVars, pedidoVars, pago, orden, cobro>>
  PROVE  IInv'
<1>1. OrdenBien /\ UNCHANGED <<mesa, pago, pedido, confirmadoPor, cobro>> /\ TypeOK
  BY DEF IInv, TypeOK, OrdenBien, mesaVars, pedidoVars
<1>2. Avanza /\ PagosBien
  BY <1>1, SinTocarPagos
<1>3. MesaBien /\ FilasBien /\ PedidosBien /\ CobroBien
  BY <1>1, <1>2, MesaQuieta, FilasQuietas, PedidosQuietos, CobroQuieto DEF IInv
<1>4. RestoBien
  BY <1>1 DEF RestoBien, TypeOK, mesaVars, pedidoVars
<1> QED BY <1>2, <1>3, <1>4, Ensambla

\* Steps that write a payment and at most release its table and confirm its
\* order.
LEMMA SoloPago ==
  ASSUME IInv, MesaBien, PedidosBien, FilasBien, CobroBien, LecturasBien, PagosBien,
         UNCHANGED <<sesiones, cierre, historialCancelado, redVars>>
  PROVE  IInv'
<1>1. RestoBien
  BY DEF IInv, TypeOK, RestoBien, redVars
<1> QED BY <1>1, Ensambla

-----------------------------------------------------------------------------
(* Orders *)

\* Orders move, none that was resolved waits again, and one that enters the
\* kitchen was paid: here none enters.
LEMMA SoloPedido ==
  ASSUME IInv, pedido' \in [Pedidos -> PedidoEstado],
         \A p \in Pedidos : \/ pedido'[p] = pedido[p]
                            \/ /\ pedido[p] \notin EnCocina
                               /\ pedido'[p] \notin EnCocina
                               /\ pedido[p] \in Creado => pedido'[p] \in Resuelto
                            \/ pedido[p] \in EnCocina /\ pedido'[p] \in EnCocina,
         UNCHANGED <<pago, redVars, cobro, lectura, sesiones, confirmadoPor>>,
         MesaBien, cierre' \in [Mesas -> Cierre], historialCancelado' \subseteq Pedidos
  PROVE  IInv'
<1>1. TypeOK /\ \A k \in Claves : PedidoDe[k] \in Pedidos
  BY ConstantesAssumption DEF IInv
<1>2. PedidosBien
  BY <1>1 DEF PedidosBien, TypeOK, Creado, Resuelto, EnCocina, PedidoEstado
<1>3. Avanza
  <2>1. \A p \in Pedidos : pedido[p] \in Resuelto => pedido'[p] \in Resuelto
    BY DEF Resuelto, EnCocina, Creado, PedidoEstado
  <2> QED BY <2>1 DEF Avanza, redVars
<1>4. PagosBien
  <2>1. ConfirmadoEnCocina'
    BY DEF IInv, ConfirmadoEnCocina, EnCocina
  <2>2. PrepagoReal'
    BY DEF IInv, PrepagoReal, EnCocina, Cobrados, Cobrada, redVars
  <2>3. AprobadoLlega' /\ ReembolsoJusto'
    BY <1>1, <1>3 DEF IInv, AprobadoLlega, ReembolsoJusto, Avanza
  <2>4. EfectivoUnaVez'
    BY DEF IInv, EfectivoUnaVez
  <2> QED BY <2>1, <2>2, <2>3, <2>4 DEF PagosBien
<1>5. FilasBien /\ CobroBien
  BY FilasQuietas, CobroQuieto DEF redVars
<1>6. LecturasBien
  BY <1>1, <1>3, LecturasQuietas DEF IInv
<1>7. RestoBien
  BY <1>1 DEF RestoBien, TypeOK, redVars
<1> QED BY <1>2, <1>4, <1>5, <1>6, <1>7, Ensambla

\* Creating and delivering an order keep the invariant.
LEMMA PasoPedidoIInv ==
  ASSUME IInv, NEW p \in Pedidos, PasoPedido(p)
  PROVE  IInv'
<1>1. /\ UNCHANGED <<pago, redVars, cobro, lectura, sesiones, confirmadoPor, mesa>>
      /\ UNCHANGED <<cierre, historialCancelado>>
  BY DEF PasoPedido, CrearAdmite, CrearConfirma, Entregar, TransicionTardia,
         mesaVars
<1>2. MesaBien /\ cierre' \in [Mesas -> Cierre] /\ historialCancelado' \subseteq Pedidos
  BY <1>1, MesaQuieta DEF IInv, TypeOK
<1>3. /\ pedido' \in [Pedidos -> PedidoEstado]
      /\ \A q \in Pedidos \ {p} : pedido'[q] = pedido[q]
      /\ \/ pedido[p] = "SIN_CREAR" /\ pedido'[p] = "ADMITIDO"
         \/ pedido[p] = "ADMITIDO" /\ pedido'[p] = "PENDIENTE_PAGO"
         \/ pedido[p] \in EnCocina /\ pedido'[p] \in EnCocina
  BY DEF IInv, TypeOK, PasoPedido, CrearAdmite, CrearConfirma, Entregar,
         TransicionTardia, PedidoEstado, EnCocina
<1>4. \A q \in Pedidos : \/ pedido'[q] = pedido[q]
                         \/ /\ pedido[q] \notin EnCocina
                            /\ pedido'[q] \notin EnCocina
                            /\ pedido[q] \in Creado => pedido'[q] \in Resuelto
                         \/ pedido[q] \in EnCocina /\ pedido'[q] \in EnCocina
  BY <1>3 DEF EnCocina, Creado, PedidoEstado
<1> QED BY <1>1, <1>2, <1>3, <1>4, SoloPedido

-----------------------------------------------------------------------------
(* Tables *)

\* Closing a table cancels only orders that wait for their payment.
LEMMA CierreConfirmaIInv ==
  ASSUME IInv, NEW m \in Mesas, CierreConfirma(m)
  PROVE  IInv'
<1>1. MesaBien
  BY EscribeMesa DEF CierreConfirma, IInv, MesaEstado, FilaCoherente
<1>2. /\ pedido' \in [Pedidos -> PedidoEstado]
      /\ \A p \in Pedidos :
           \/ pedido'[p] = pedido[p]
           \/ pedido[p] = "PENDIENTE_PAGO" /\ pedido'[p] = "CANCELADO"
  BY DEF CierreConfirma, Cancelables, Confirmable, IInv, TypeOK, PedidoEstado
<1>3. \A q \in Pedidos : \/ pedido'[q] = pedido[q]
                         \/ /\ pedido[q] \notin EnCocina
                            /\ pedido'[q] \notin EnCocina
                            /\ pedido[q] \in Creado => pedido'[q] \in Resuelto
                         \/ pedido[q] \in EnCocina /\ pedido'[q] \in EnCocina
  BY <1>2 DEF EnCocina, Creado, PedidoEstado, Resuelto
<1>4. cierre' \in [Mesas -> Cierre] /\ historialCancelado' \subseteq Pedidos
  BY DEF CierreConfirma, SinCierre, UnCierre, Cierre, IInv, TypeOK
<1>5. UNCHANGED <<pago, redVars, cobro, lectura, sesiones, confirmadoPor>>
  BY DEF CierreConfirma
<1> QED BY <1>1, <1>2, <1>3, <1>4, <1>5, SoloPedido

\* Opening, cleaning and closing a table keep the invariant.
LEMMA PasoMesaIInv ==
  ASSUME IInv, NEW m \in Mesas, PasoMesa(m)
  PROVE  IInv'
<1> USE DEF IInv
<1>1. CASE AbrirSesion(m)
  <2>1. sesiones' \in [Mesas -> Nat] /\ sesiones[m] + 1 \in Nat \ {0}
    BY <1>1 DEF AbrirSesion, TypeOK
  <2>2. MesaBien
    BY <1>1, <2>1, EscribeMesa DEF AbrirSesion, MesaEstado, FilaCoherente
  <2> QED BY <1>1, <2>1, <2>2, SoloMesa DEF AbrirSesion, TypeOK
<1>2. CASE MarcarLimpia(m)
  <2>1. mesa[m].sesion \in Nat
    BY DEF TypeOK
  <2>2. FilaCoherente(m, [estado |-> "LIBRE", sesion |-> mesa[m].sesion])
    BY <1>2 DEF MarcarLimpia, SesionCoherente, FilaCoherente
  <2>3. MesaBien
    BY <1>2, <2>1, <2>2, EscribeMesa DEF MarcarLimpia, MesaEstado
  <2> QED BY <1>2, <2>3, SoloMesa DEF MarcarLimpia, TypeOK
<1>3. CASE CierreLee(m) \/ CierreBloquea(m) \/ CierreAborta(m)
  <2>1. UNCHANGED <<mesa, sesiones, pedidoVars, pago, redVars, cobro, lectura>>
    BY <1>3 DEF CierreLee, CierreBloquea, CierreAborta
  <2>2. cierre' \in [Mesas -> Cierre]
    <3>1. PICK c \in Cierre : cierre' = [cierre EXCEPT ![m] = c]
      <4>1. mesa[m].sesion \in Nat /\ cierre[m].sesion \in Nat
        BY DEF TypeOK, Cierre
      <4>2. /\ UnCierre("leido", mesa[m].sesion, {}) \in Cierre
            /\ UnCierre("bloqueado", cierre[m].sesion,
                        {p \in PedidosDe(m) : Confirmable(p)}) \in Cierre
            /\ SinCierre \in Cierre
        BY <4>1 DEF UnCierre, SinCierre, Cierre, PedidosDe
      <4> QED BY <1>3, <4>2 DEF CierreLee, CierreBloquea, CierreAborta
    <3> QED BY <3>1 DEF TypeOK
  <2>3. MesaBien
    BY <2>1, MesaQuieta
  <2> QED BY <2>1, <2>2, <2>3, SoloMesa DEF TypeOK
<1>4. CASE CierreConfirma(m)
  BY <1>4, CierreConfirmaIInv
<1> QED BY <1>1, <1>2, <1>3, <1>4 DEF PasoMesa

-----------------------------------------------------------------------------
(* Requests to pay *)

\* A request moves and nothing else does.
LEMMA MueveCobro ==
  ASSUME IInv, NEW k \in Claves, NEW c \in CobroPaso \ {"aprobado"},
         cobro' = [cobro EXCEPT ![k] = c],
         Medio[k] = "EFECTIVO" => c \in {"inicio", "leido", "fin"},
         c # "inicio" => pedido[PedidoDe[k]] \in Creado,
         c \in AntesDeCobrar => cobro[k] \in AntesDeCobrar,
         UNCHANGED <<mesaVars, pedidoVars, pago, redVars, lectura>>
  PROVE  IInv'
<1>1. OrdenBien /\ avisos' \subseteq Claves
  BY DEF IInv, TypeOK, OrdenBien, redVars
<1>2. c \in AntesDeCobrar => orden'[k] = "NO_EXISTE"
  BY DEF IInv, SinOrdenAntes, redVars
<1>3. CobroBien
  BY <1>2, CobroMueve DEF redVars
<1> QED BY <1>1, <1>3, SoloCobro

\* A request past its first step is of an order that exists, and by card if
\* it is past its reads.
LEMMA CobroDePedido ==
  ASSUME IInv, NEW k \in Claves, cobro[k] # "inicio"
  PROVE  /\ pedido[PedidoDe[k]] \in Creado
         /\ Medio[k] = "EFECTIVO" => cobro[k] \in {"leido", "fin"}
BY DEF IInv, PagoDePedido, MedioCoherente

\* Requests that move without writing.
LEMMA LecturasDeCobroIInv ==
  ASSUME IInv, NEW k \in Claves,
         \/ ReservarLee(k) \/ ReservarAborta(k) \/ CobroTarde(k)
         \/ EfectivoLee(k) \/ EfectivoAborta(k)
  PROVE  IInv'
<1>1. UNCHANGED <<mesaVars, pedidoVars, pago, redVars, lectura>>
  BY DEF ReservarLee, ReservarAborta, CobroTarde, EfectivoLee, EfectivoAborta
<1>2. CASE ReservarLee(k) \/ EfectivoLee(k)
  <2>1. /\ pedido[PedidoDe[k]] \in Creado
        /\ cobro[k] = "inicio"
        /\ cobro' = [cobro EXCEPT ![k] = "leido"]
    BY <1>2 DEF ReservarLee, EfectivoLee, Confirmable, Creado, PedidoEstado, Paso
  <2> QED BY <1>1, <2>1, MueveCobro DEF CobroPaso, AntesDeCobrar
<1>3. CASE ReservarAborta(k) \/ EfectivoAborta(k)
  <2>1. cobro[k] = "leido" /\ cobro' = [cobro EXCEPT ![k] = "inicio"]
    BY <1>3 DEF ReservarAborta, EfectivoAborta, Paso
  <2> QED BY <1>1, <2>1, MueveCobro DEF CobroPaso, AntesDeCobrar
<1>4. CASE CobroTarde(k)
  <2>1. cobro[k] # "inicio" /\ cobro' = [cobro EXCEPT ![k] = "fin"]
    BY <1>4 DEF CobroTarde, Respuestas
  <2> QED BY <1>1, <2>1, MueveCobro, CobroDePedido DEF CobroPaso, AntesDeCobrar
<1> QED BY <1>2, <1>3, <1>4

\* Reserving inserts a row that is not approved for an order that exists.
LEMMA ReservarConfirmaIInv ==
  ASSUME IInv, NEW k \in Claves, ReservarConfirma(k)
  PROVE  IInv'
<1> DEFINE m == Mesa(k)
<1>1. m \in Mesas /\ Medio[k] = "MERCADOPAGO" /\ TypeOK /\ SesionCoherente
  BY ConstantesAssumption DEF Mesa, ReservarConfirma, IInv
<1>2. /\ cobro[k] = "leido"
      /\ cobro' = [cobro EXCEPT ![k] = "reservado"]
      /\ UNCHANGED <<sesiones, cierre, pedidoVars, redVars, lectura>>
  BY DEF ReservarConfirma, Paso
<1>3. pedido[PedidoDe[k]] \in Creado
  BY <1>2, CobroDePedido
<1>4. MesaBien
  <2>1. mesa[m].sesion \in Nat
    BY <1>1 DEF TypeOK
  <2>2. /\ CambiaMesa(m, "EN_PROCESO_DE_PAGO", mesa[m].sesion)
        /\ FilaCoherente(m, [estado |-> "EN_PROCESO_DE_PAGO", sesion |-> mesa[m].sesion])
    BY DEF ReservarConfirma, CambiaMesa, Reservada
  <2> QED BY <1>1, <2>1, <2>2, EscribeMesa DEF MesaEstado
<1>5. FilaEscrita(k, "PENDIENTE") /\ pago'[k].marcado = FALSE
  BY <1>1, InsertaFila DEF ReservarConfirma, PagoEstado
<1>6. Avanza /\ PagosBien
  BY <1>1, <1>2, <1>5, EscribePago DEF redVars, pedidoVars, PagoEstado
<1>7. CobroBien
  <2>1. orden' = orden /\ orden[k] = "NO_EXISTE"
    BY <1>2 DEF IInv, SinOrdenAntes, AntesDeCobrar, redVars
  <2> QED BY <1>1, <1>2, <1>3, <2>1, CobroMueve DEF CobroPaso
<1>8. FilasBien
  BY <1>1, <1>3, <1>5, FilasEscritas DEF PagoEstado
<1>9. LecturasBien /\ PedidosBien
  BY <1>1, <1>2, <1>6, LecturasQuietas, PedidosQuietos DEF IInv, pedidoVars
<1> QED BY <1>2, <1>4, <1>6, <1>7, <1>8, <1>9, SoloPago DEF pedidoVars

\* The gateway only reports as approved what it accredited.
LEMMA PasoPasarelaIInv ==
  ASSUME IInv, NEW k \in Claves, PasoPasarela(k)
  PROVE  IInv'
<1>1. UNCHANGED <<mesaVars, pedidoVars, pago, lectura>>
  BY DEF PasoPasarela, PasarelaResponde, PasarelaError, PasarelaCalla, OrdenAvanza
<1>2. TypeOK /\ UNCHANGED pedido
  BY <1>1 DEF IInv, pedidoVars
<1>3. CASE OrdenAvanza(k)
  <2>1. /\ OrdenBien
        /\ \A j \in Claves \ {k} : orden'[j] = orden[j]
        /\ orden[k] # "NO_EXISTE"
    BY <1>2, <1>3 DEF OrdenAvanza, OrdenBien, TypeOK, OrdenEstado, Acreditadas
  <2>2. avisos' \subseteq Claves /\ UNCHANGED cobro
    BY <1>2, <1>3 DEF OrdenAvanza, Notificar, TypeOK
  <2>3. cobro[k] \notin AntesDeCobrar
    BY <2>1 DEF IInv, SinOrdenAntes
  <2>4. CobroBien
    BY <1>2, <2>1, <2>2, <2>3
    DEF CobroBien, OrdenBien, IInv, TypeOK, MedioCoherente, RespuestaReal,
        SinOrdenAntes, PagoDePedido
  <2> QED BY <1>1, <2>1, <2>2, <2>4, SoloCobro
<1>4. CASE PasarelaResponde(k) \/ PasarelaError(k) \/ PasarelaCalla(k)
  <2>1. PICK o \in OrdenEstado, c \in CobroPaso :
          /\ c \in {Respuesta(o), "error", "fin"}
          /\ CrearOrden(k, o)
          /\ Paso(k, "reservado", c)
    BY <1>4, ConstantesAssumption
       DEF PasarelaResponde, PasarelaError, PasarelaCalla, OrdenEstado, CobroPaso,
           Respuesta
  <2>2. cobro[k] = "reservado" /\ cobro' = [cobro EXCEPT ![k] = c]
    BY <2>1 DEF Paso
  <2>3. /\ c \in CobroPaso \ AntesDeCobrar
        /\ c = "aprobado" => o = "ACREDITADA"
    BY <2>1 DEF Respuesta, CobroPaso, AntesDeCobrar
  <2>4. pedido[PedidoDe[k]] \in Creado /\ Medio[k] # "EFECTIVO"
    BY <2>2, CobroDePedido
  <2>5. avisos' \subseteq Claves
    BY <2>1, <1>2 DEF CrearOrden, Notificar, TypeOK
  <2>6. orden[k] = "NO_EXISTE"
    BY <2>2 DEF IInv, SinOrdenAntes, AntesDeCobrar
  <2>7. /\ OrdenBien
        /\ \A j \in Claves \ {k} : orden'[j] = orden[j]
        /\ orden'[k] = o
    BY <1>2, <2>1, <2>6 DEF CrearOrden, OrdenBien, TypeOK, Acreditadas
  <2>8. CobroBien
    BY <2>2, <2>3, <2>4, <2>7, CobroMueve DEF Acreditadas, AntesDeCobrar
  <2> QED BY <1>1, <2>5, <2>7, <2>8, SoloCobro
<1> QED BY <1>3, <1>4 DEF PasoPasarela

\* The end of a request: the step it comes to needs nothing but its order.
LEMMA CobroTermina ==
  ASSUME IInv, NEW k \in Claves, cobro[k] # "inicio",
         cobro' = [cobro EXCEPT ![k] = "fin"], UNCHANGED orden
  PROVE  CobroBien
BY CobroMueve, CobroDePedido DEF CobroPaso, AntesDeCobrar

\* Approving a payment at the end of a request.
LEMMA CobroAprobadoIInv ==
  ASSUME IInv, NEW k \in Claves, CobroAprobado(k)
  PROVE  IInv'
<1>1. /\ PedidoDe[k] \in Pedidos /\ Mesa(k) \in Mesas
      /\ TypeOK /\ SesionCoherente /\ LecturaReal /\ JobEnPago
  BY ConstantesAssumption DEF Mesa, IInv
<1>2. /\ cobro[k] = "aprobado"
      /\ cobro' = [cobro EXCEPT ![k] = "fin"]
      /\ UNCHANGED <<sesiones, cierre, historialCancelado, redVars, lectura, orden>>
  BY DEF CobroAprobado, Paso, redVars
<1>3. pedido[PedidoDe[k]] \in Creado /\ Medio[k] # "EFECTIVO" /\ orden[k] \in Acreditadas
  BY <1>2, CobroDePedido DEF IInv, RespuestaReal
<1>4. FilaEscrita(k, "APROBADO") /\ pago'[k].marcado = pago[k].marcado
  BY <1>1, ResuelveFila DEF CobroAprobado, PagoEstado, Motivos
<1>5. MesaBien /\ PedidoConfirmado(PedidoDe[k], k)
  BY <1>1, LiberarMesa, ConfirmarPedido DEF CobroAprobado
<1>6. Avanza /\ PagosBien
  BY <1>2, <1>3, <1>4, <1>5, ApruebaPago
<1>7. CobroBien /\ FilasBien /\ PedidosBien
  BY <1>1, <1>2, <1>3, <1>4, <1>5, CobroTermina, FilasEscritas, ConfirmadoBien
  DEF PagoEstado
<1>8. LecturasBien
  BY <1>1, <1>2, <1>6, LecturasQuietas
<1> QED BY <1>2, <1>5, <1>6, <1>7, <1>8, SoloPago

\* Writing any other answer at the end of a request.
LEMMA CobroNoAprobadoIInv ==
  ASSUME IInv, NEW k \in Claves, CobroRechazado(k) \/ CobroPendiente(k) \/ CobroError(k)
  PROVE  IInv'
<1>1. /\ PedidoDe[k] \in Pedidos /\ Mesa(k) \in Mesas
      /\ TypeOK /\ SesionCoherente /\ LecturaReal /\ JobEnPago
  BY ConstantesAssumption DEF Mesa, IInv
<1>2. /\ cobro[k] \in {"rechazado", "pendiente", "error"}
      /\ cobro' = [cobro EXCEPT ![k] = "fin"]
      /\ UNCHANGED <<sesiones, cierre, pedidoVars, redVars, lectura>>
  BY DEF CobroRechazado, CobroPendiente, CobroError, Paso, mesaVars
<1>3. UNCHANGED <<orden, pedido, confirmadoPor, historialCancelado>>
  BY <1>2 DEF redVars, pedidoVars
<1>4. pedido[PedidoDe[k]] \in Creado /\ Medio[k] = "MERCADOPAGO"
  BY <1>2, CobroDePedido, ConstantesAssumption DEF Medios
<1>5. PICK e \in {"RECHAZADO", "PENDIENTE"} :
        FilaEscrita(k, e) /\ pago'[k].marcado = pago[k].marcado
  <2>1. pago[k].ref \in Claves \cup {Ninguna}
    BY <1>1 DEF TypeOK, FilaPago
  <2> QED
    BY <1>1, <2>1, ResuelveFila
    DEF CobroRechazado, CobroPendiente, CobroError, PagoEstado, Motivos
<1>6. MesaBien
  BY <1>1, LiberarMesa, MesaQuieta
  DEF CobroRechazado, CobroPendiente, CobroError, mesaVars
<1>7. Avanza /\ PagosBien
  BY <1>3, <1>4, <1>5, EscribePago DEF PagoEstado
<1>8. CobroBien /\ FilasBien /\ PedidosBien
  BY <1>1, <1>2, <1>3, <1>4, <1>5, CobroTermina, FilasEscritas, PedidosQuietos
  DEF PagoEstado
<1>9. LecturasBien
  BY <1>1, <1>2, <1>7, LecturasQuietas
<1> QED BY <1>2, <1>3, <1>6, <1>7, <1>8, <1>9, SoloPago

\* Cash is taken and confirms its order.
LEMMA EfectivoConfirmaIInv ==
  ASSUME IInv, NEW k \in Claves, EfectivoConfirma(k)
  PROVE  IInv'
<1>1. /\ PedidoDe[k] \in Pedidos
      /\ TypeOK /\ SesionCoherente /\ LecturaReal /\ JobEnPago
  BY ConstantesAssumption DEF IInv
<1>2. /\ cobro[k] = "leido"
      /\ cobro' = [cobro EXCEPT ![k] = "fin"]
      /\ UNCHANGED <<mesa, sesiones, cierre, historialCancelado, redVars, lectura, orden>>
      /\ Medio[k] = "EFECTIVO"
      /\ pedido[PedidoDe[k]] = "PENDIENTE_PAGO"
  BY DEF EfectivoConfirma, CobroSeSostiene, Confirmable, Paso, redVars, mesaVars
<1>3. pedido[PedidoDe[k]] \in Creado
  BY <1>2 DEF Creado, PedidoEstado
<1>4. FilaEscrita(k, "APROBADO") /\ pago'[k].marcado = FALSE
  BY <1>1, InsertaFila DEF EfectivoConfirma, PagoEstado
<1>5. MesaBien /\ PedidoConfirmado(PedidoDe[k], k)
  BY <1>1, <1>2, MesaQuieta, ConfirmarPedido DEF EfectivoConfirma
<1>6. Avanza /\ PagosBien
  BY <1>2, <1>3, <1>4, <1>5, ApruebaPago
<1>7. CobroBien /\ FilasBien /\ PedidosBien
  BY <1>1, <1>2, <1>3, <1>4, <1>5, CobroTermina, FilasEscritas, ConfirmadoBien
  DEF PagoEstado
<1>8. LecturasBien
  BY <1>1, <1>2, <1>6, LecturasQuietas
<1> QED BY <1>2, <1>5, <1>6, <1>7, <1>8, SoloPago

-----------------------------------------------------------------------------
(* Handlers that read *)

\* What a handler of order k holds after consulting it.
LEMMA ConsultadaBuena ==
  ASSUME TypeOK, NEW h \in Lectores, NEW k \in Claves, UNCHANGED orden,
         NEW l, l = Consultada(h, k),
         h = Conciliacion => Job.lista \in Claves
  PROVE  l \in Lectura /\ LecturaBuena(l)' /\ JobBueno(h, l)
<1>1. CASE EstadoPagoDesdeOrden(orden[k]) = "PENDIENTE"
  <2>1. l = Terminada(h, FALSE)
    BY <1>1 DEF Consultada
  <2> QED BY <2>1, TerminadaBuena
<1>2. CASE EstadoPagoDesdeOrden(orden[k]) # "PENDIENTE"
  <2> DEFINE e == EstadoPagoDesdeOrden(orden[k])
  <2>1. lectura[h].lista \in Claves \cup {Ninguna} /\ orden[k] \in OrdenEstado
    BY DEF TypeOK, Lectura
  <2>2. l = UnaLectura("consultada", lectura[h].lista, k, e, Ninguna, "nada")
    BY <1>2 DEF Consultada
  <2>3. /\ e \in EstadosAplicables \cup {"PENDIENTE"}
        /\ e # "PENDIENTE"
        /\ e \in {"APROBADO", "REEMBOLSADO"} => orden[k] \in Acreditadas
    BY <1>2, <2>1
    DEF EstadoPagoDesdeOrden, EstadosAplicables, Acreditadas, OrdenEstado
  <2> HIDE DEF e
  <2>4. l \in Lectura
    BY <2>1, <2>2, <2>3 DEF UnaLectura, Lectura, Acciones
  <2>5. /\ l.paso = "consultada" /\ l.estado = e /\ l.orden = k
        /\ l.accion = "nada" /\ l.lista = lectura[h].lista
    BY <2>2 DEF UnaLectura
  <2>6. LecturaBuena(l)'
    BY <2>3, <2>5 DEF LecturaBuena
  <2> QED BY <2>4, <2>5, <2>6 DEF JobBueno, Job
<1> QED BY <1>1, <1>2

\* A step that gives h a good reading and writes at most avisos.
LEMMA LeeBien ==
  ASSUME IInv, NEW h \in Lectores, NEW l \in Lectura,
         lectura' = [lectura EXCEPT ![h] = l],
         LecturaBuena(l)', JobBueno(h, l), avisos' \subseteq Claves,
         UNCHANGED <<mesaVars, pedidoVars, pago, orden, cobro>>
  PROVE  IInv'
<1>1. TypeOK /\ LecturaReal /\ JobEnPago /\ Avanza
  BY DEF IInv, Avanza, pedidoVars
<1>2. LecturasBien
  BY <1>1, LecturaNueva
<1> QED BY <1>2, SoloLectura

\* A handler that ends, or gives its payment to the job to expire.
LEMMA TerminaBien ==
  ASSUME IInv, NEW h \in Lectores, NEW r \in BOOLEAN,
         lectura' = [lectura EXCEPT ![h] = Terminada(h, r)],
         h = Conciliacion /\ ~r => Job.lista \in Claves,
         avisos' \subseteq Claves,
         UNCHANGED <<mesaVars, pedidoVars, pago, orden, cobro>>
  PROVE  IInv'
<1>1. PICK l : l = Terminada(h, r)
  OBVIOUS
<1>2. l \in Lectura /\ LecturaBuena(l)' /\ JobBueno(h, l)
  BY <1>1, TerminadaBuena DEF IInv
<1> QED BY <1>1, <1>2, LeeBien

\* The job, while it is not expiring a payment, knows which one it is at.
LEMMA JobTrabaja ==
  ASSUME IInv, Job.paso \in {"listada", "consultada", "por_vencer"}
                 \/ Job.accion \in {"referencia", "aplicar", "reembolsar"}
  PROVE  Job.lista \in Claves
BY DEF IInv, JobEnPago, LecturaReal, LecturaBuena, Job, Lectores

\* A notification is received and its order consulted.
LEMMA RecibirIInv ==
  ASSUME IInv, NEW h \in Avisos, NEW k \in Claves, Recibir(h, k)
  PROVE  IInv'
<1>1. h \in Lectores /\ h # Conciliacion /\ TypeOK
  BY ConstantesAssumption DEF Lectores, IInv
<1>2. PICK l : l = Consultada(h, k)
  OBVIOUS
<1>3. /\ lectura' = [lectura EXCEPT ![h] = l]
      /\ UNCHANGED <<mesaVars, pedidoVars, pago, orden, cobro>>
      /\ avisos' \subseteq Claves
  BY <1>1, <1>2 DEF Recibir, TypeOK
<1>4. l \in Lectura /\ LecturaBuena(l)' /\ JobBueno(h, l)
  BY <1>1, <1>2, <1>3, ConsultadaBuena
<1> QED BY <1>1, <1>3, <1>4, LeeBien

\* The rows elegirPago may find are card payments of the order's own pedido.
LEMMA ElegiblesDeMP ==
  ASSUME NEW k \in Claves, NEW j \in Elegibles(k)
  PROVE  /\ j \in Claves /\ PedidoDe[j] = PedidoDe[k]
         /\ Medio[j] = "MERCADOPAGO" /\ pago[j].estado # "NADA"
BY DEF Elegibles, PagosDe

\* A payment is marked for refund only if its order is resolved already.
LEMMA ReembolsaResuelto ==
  ASSUME IInv, NEW j \in Claves, NEW e, Decision(j, e) = "reembolsar"
  PROVE  pedido[PedidoDe[j]] \in Resuelto
BY DEF IInv, Decision, YaNoUsaElPago, PagosDe, AprobadoLlega, Resuelto

\* The reads of aplicar.
LEMMA LeerIInv ==
  ASSUME IInv, NEW h \in Lectores, Leer(h)
  PROVE  IInv'
<1> DEFINE k == lectura[h].orden
           e == lectura[h].estado
<1>1. /\ lectura[h] \in Lectura /\ LecturaBuena(lectura[h])
      /\ lectura[h].paso = "consultada"
      /\ TypeOK
  BY DEF IInv, TypeOK, LecturaReal, Leer
<1>2. /\ e \in EstadosAplicables /\ k \in Claves
      /\ e \in {"APROBADO", "REEMBOLSADO"} => orden[k] \in Acreditadas
      /\ lectura[h].lista \in Claves \cup {Ninguna}
  BY <1>1 DEF LecturaBuena, Lectura
<1>3. h = Conciliacion => Job.lista \in Claves
  BY <1>1, JobTrabaja DEF Job
<1>4. /\ UNCHANGED <<mesaVars, pedidoVars, pago, orden, cobro>>
      /\ avisos' \subseteq Claves
  BY <1>1 DEF Leer, redVars, TypeOK
<1>5. CASE Elegibles(k) = {}
  BY <1>3, <1>4, <1>5, TerminaBien DEF Leer
<1>6. CASE Elegibles(k) # {}
  <2>1. PICK j \in Elegibles(k) :
          lectura' = [lectura EXCEPT ![h] =
                        UnaLectura("leida", lectura[h].lista, k, e, j, Decision(j, e))]
    BY <1>6 DEF Leer
  <2>2. /\ j \in Claves /\ PedidoDe[j] = PedidoDe[k]
        /\ Medio[j] = "MERCADOPAGO" /\ pago[j].estado # "NADA"
    BY <1>2, ElegiblesDeMP
  <2>3. PICK a : a = Decision(j, e)
    OBVIOUS
  <2>4. /\ a \in {"referencia", "aplicar", "reembolsar"}
        /\ a = "reembolsar" => pedido[PedidoDe[j]] \in Resuelto
    <3>1. a \in {"referencia", "aplicar", "reembolsar"}
      BY <2>3 DEF Decision
    <3>2. a = "reembolsar" => pedido[PedidoDe[j]] \in Resuelto
      BY <2>2, <2>3, ReembolsaResuelto
    <3> QED BY <3>1, <3>2
  <2>5. PICK l : l = UnaLectura("leida", lectura[h].lista, k, e, j, a)
    OBVIOUS
  <2>6. /\ l.paso = "leida" /\ l.orden = k /\ l.estado = e /\ l.pago = j
        /\ l.accion = a /\ l.lista = lectura[h].lista
    BY <2>5 DEF UnaLectura
  <2>7. l \in Lectura
    BY <1>2, <2>2, <2>4, <2>5 DEF UnaLectura, Lectura, Acciones
  <2>8. LecturaBuena(l)'
    <3>1. UNCHANGED <<orden, pago, pedido>> /\ e # "PENDIENTE"
      BY <1>2, <1>4 DEF pedidoVars, EstadosAplicables
    <3> HIDE DEF k, e
    <3> QED BY <1>2, <2>2, <2>4, <2>6, <3>1 DEF LecturaBuena
  <2>9. JobBueno(h, l)
    BY <1>3, <2>6 DEF JobBueno, Job
  <2> QED BY <1>4, <2>1, <2>3, <2>5, <2>7, <2>8, <2>9, LeeBien
<1> QED BY <1>5, <1>6

\* A transaction that fails leaves its notification to be delivered again.
LEMMA FallarIInv ==
  ASSUME IInv, NEW h \in Lectores, Fallar(h)
  PROVE  IInv'
<1>1. /\ lectura[h] \in Lectura /\ LecturaBuena(lectura[h])
      /\ lectura[h].paso = "leida"
      /\ lectura[h].accion \in {"referencia", "aplicar", "reembolsar"}
      /\ TypeOK
  BY DEF IInv, TypeOK, LecturaReal, Fallar, LecturaBuena, Lectura, Acciones
<1>2. h = Conciliacion => Job.lista \in Claves
  BY <1>1, JobTrabaja DEF Job
<1>3. lectura[h].orden \in Claves
  BY <1>1 DEF LecturaBuena
<1>4. /\ UNCHANGED <<mesaVars, pedidoVars, pago, orden, cobro>>
      /\ avisos' \subseteq Claves
  BY <1>1, <1>3 DEF Fallar, Notificar, TypeOK
<1> QED BY <1>2, <1>4, TerminaBien DEF Fallar

-----------------------------------------------------------------------------
(* Handlers that write *)

\* What a handler about to write holds.
Escribe(h, a) ==
  /\ lectura[h].paso = "leida"
  /\ lectura[h].accion = a

\* It holds a card payment of an order that exists, of the same pedido as the
\* order of the gateway it consulted, and that order was accredited if it says
\* so.
LEMMA LoQueEscribe ==
  ASSUME IInv, NEW h \in Lectores,
         \E a \in {"referencia", "aplicar", "reembolsar"} : Escribe(h, a)
  PROVE  LET j == lectura[h].pago IN
         /\ j \in Claves /\ Medio[j] = "MERCADOPAGO"
         /\ pago[j].estado # "NADA"
         /\ PedidoDe[j] \in Pedidos /\ Mesa(j) \in Mesas
         /\ pedido[PedidoDe[j]] \in Creado
         /\ lectura[h].orden \in Claves
         /\ lectura[h].estado \in EstadosAplicables
         /\ PedidoDe[j] = PedidoDe[lectura[h].orden]
         /\ lectura[h].estado = "APROBADO" => PedidoDe[j] \in Cobrados
         /\ lectura[h].accion = "reembolsar" => pedido[PedidoDe[j]] \in Resuelto
         /\ h = Conciliacion => Job.lista \in Claves
<1> DEFINE j == lectura[h].pago
<1>1. /\ lectura[h] \in Lectura /\ LecturaBuena(lectura[h])
      /\ lectura[h].paso = "leida"
      /\ lectura[h].accion \in {"referencia", "aplicar", "reembolsar"}
  BY DEF IInv, TypeOK, LecturaReal, Escribe
<1>2. /\ j \in Claves /\ Medio[j] = "MERCADOPAGO" /\ pago[j].estado # "NADA"
      /\ lectura[h].orden \in Claves
      /\ lectura[h].estado \in EstadosAplicables
      /\ PedidoDe[j] = PedidoDe[lectura[h].orden]
      /\ lectura[h].estado = "APROBADO" => orden[lectura[h].orden] \in Acreditadas
      /\ lectura[h].accion = "reembolsar" => pedido[PedidoDe[j]] \in Resuelto
  BY <1>1 DEF LecturaBuena, Lectura
<1>3. PedidoDe[j] \in Pedidos /\ Mesa(j) \in Mesas /\ pedido[PedidoDe[j]] \in Creado
  BY <1>2, ConstantesAssumption DEF Mesa, IInv, PagoDePedido
<1>4. lectura[h].estado = "APROBADO" => PedidoDe[j] \in Cobrados
  BY <1>2, <1>3 DEF Cobrados, Cobrada
<1>5. h = Conciliacion => Job.lista \in Claves
  BY <1>1, JobTrabaja DEF Job
<1> QED BY <1>2, <1>3, <1>4, <1>5

\* After writing, the handler is over, or the job goes on with its payment.
LEMMA EscribeYTermina ==
  ASSUME IInv, Avanza, NEW h \in Lectores, NEW r \in BOOLEAN,
         lectura' = [lectura EXCEPT ![h] = Terminada(h, r)],
         h = Conciliacion /\ ~r => Job.lista \in Claves
  PROVE  LecturasBien
<1>1. PICK l : l = Terminada(h, r)
  OBVIOUS
<1>2. TypeOK /\ LecturaReal /\ JobEnPago
  BY DEF IInv
<1>3. l \in Lectura /\ LecturaBuena(l)' /\ JobBueno(h, l)
  BY <1>1, <1>2, TerminadaBuena
<1> QED BY <1>1, <1>2, <1>3, LecturaNueva

\* A handler writes a payment and leaves the order alone.
LEMMA EscribeSinConfirmar ==
  ASSUME IInv, NEW h \in Lectores, NEW a \in {"referencia", "aplicar", "reembolsar"},
         Escribe(h, a), NEW r \in BOOLEAN, NEW j, j = lectura[h].pago,
         NEW e \in PagoEstado \ {"NADA"}, FilaEscrita(j, e),
         e = "APROBADO" \/ (pago'[j].marcado /\ ~pago[j].marcado)
           => \/ pedido[PedidoDe[j]] \in Resuelto
              \/ pago[j].estado = e /\ pago'[j].marcado = pago[j].marcado,
         lectura' = [lectura EXCEPT ![h] = Terminada(h, r)],
         MesaBien, UNCHANGED <<sesiones, cierre, pedidoVars, redVars, cobro>>
  PROVE  IInv'
<1>1. UNCHANGED <<orden, pedido, confirmadoPor, historialCancelado>> /\ TypeOK
  BY DEF redVars, pedidoVars, IInv
<1>2. /\ j \in Claves /\ Medio[j] = "MERCADOPAGO"
      /\ pedido[PedidoDe[j]] \in Creado
      /\ h = Conciliacion => Job.lista \in Claves
  BY LoQueEscribe
<1>3. Avanza /\ PagosBien
  BY <1>1, <1>2, EscribePago
<1>4. CobroBien /\ FilasBien /\ PedidosBien
  BY <1>1, <1>2, CobroQuieto, FilasEscritas, PedidosQuietos
<1>5. LecturasBien
  BY <1>2, <1>3, EscribeYTermina
<1> QED BY <1>1, <1>3, <1>4, <1>5, SoloPago

\* Completing a reference changes no state.
LEMMA CompletarReferenciaIInv ==
  ASSUME IInv, NEW h \in Lectores, CompletarReferencia(h)
  PROVE  IInv'
<1> DEFINE j == lectura[h].pago
<1>1. Escribe(h, "referencia") /\ TypeOK /\ SesionCoherente
  BY DEF CompletarReferencia, Escribe, IInv
<1>2. j \in Claves /\ lectura[h].orden \in Claves /\ pago[j].estado # "NADA"
  BY <1>1, LoQueEscribe
<1>3. /\ pago[j].estado \in PagoEstado \ {"NADA"} /\ pago[j].motivo \in Motivos
      /\ pago[j].marcado \in BOOLEAN
  BY <1>1, <1>2 DEF TypeOK, FilaPago
<1>4. /\ Resuelve(j, pago[j].estado, lectura[h].orden, pago[j].motivo)
      /\ lectura' = [lectura EXCEPT ![h] = Terminada(h, pago[j].marcado)]
      /\ UNCHANGED <<mesa, sesiones, cierre, pedidoVars, redVars, cobro>>
  BY DEF CompletarReferencia, mesaVars
<1>5. FilaEscrita(j, pago[j].estado) /\ pago'[j].marcado = pago[j].marcado
  BY <1>1, <1>2, <1>3, <1>4, ResuelveFila
<1>6. MesaBien
  BY <1>1, <1>4, MesaQuieta
<1> HIDE DEF j
<1> QED BY <1>1, <1>3, <1>4, <1>5, <1>6, EscribeSinConfirmar DEF j

\* Marking for refund: the order was resolved when it was read, and still is.
LEMMA ReembolsarIInv ==
  ASSUME IInv, NEW h \in Lectores, Reembolsar(h)
  PROVE  IInv'
<1> DEFINE j == lectura[h].pago
           e == lectura[h].estado
<1>1. Escribe(h, "reembolsar") /\ TypeOK /\ SesionCoherente
  BY DEF Reembolsar, Escribe, IInv
<1>2. /\ j \in Claves /\ lectura[h].orden \in Claves
      /\ e \in PagoEstado \ {"NADA"} /\ pedido[PedidoDe[j]] \in Resuelto
  BY <1>1, LoQueEscribe DEF EstadosAplicables, PagoEstado, Escribe
<1>3. FilaEscrita(j, e)
  BY <1>1, <1>2 DEF Reembolsar, TypeOK, Fila, FilaPago, FilaEscrita, MotivoDe, Motivos
<1>4. /\ lectura' = [lectura EXCEPT ![h] = Terminada(h, TRUE)]
      /\ UNCHANGED <<mesa, sesiones, cierre, pedidoVars, redVars, cobro>>
  BY DEF Reembolsar, mesaVars
<1>5. MesaBien
  BY <1>1, <1>4, MesaQuieta
<1> HIDE DEF j, e
<1> QED BY <1>1, <1>2, <1>3, <1>4, <1>5, EscribeSinConfirmar DEF j

\* Applying the state of the gateway's order.
LEMMA AplicarIInv ==
  ASSUME IInv, NEW h \in Lectores, Aplicar(h)
  PROVE  IInv'
<1> DEFINE j == lectura[h].pago
           e == lectura[h].estado
<1>1. Escribe(h, "aplicar") /\ TypeOK /\ SesionCoherente
  BY DEF Aplicar, Escribe, IInv
<1>2. /\ j \in Claves /\ Medio[j] = "MERCADOPAGO" /\ lectura[h].orden \in Claves
      /\ e \in EstadosAplicables /\ e \in PagoEstado \ {"NADA"}
      /\ PedidoDe[j] \in Pedidos /\ Mesa(j) \in Mesas
      /\ pedido[PedidoDe[j]] \in Creado
      /\ e = "APROBADO" => PedidoDe[j] \in Cobrados
  BY <1>1, LoQueEscribe DEF EstadosAplicables, PagoEstado
<1>3. /\ Resuelve(j, e, lectura[h].orden, MotivoDe(e))
      /\ lectura' = [lectura EXCEPT ![h] = Terminada(h, TRUE)]
      /\ UNCHANGED <<sesiones, cierre, historialCancelado, redVars, cobro, orden>>
  BY DEF Aplicar, redVars
<1>4. FilaEscrita(j, e) /\ pago'[j].marcado = pago[j].marcado
  <2>1. MotivoDe(e) \in Motivos
    BY DEF MotivoDe, Motivos
  <2> QED BY <1>1, <1>2, <1>3, <2>1, ResuelveFila
<1>5. MesaBien
  BY <1>1, <1>2, LiberarMesa, MesaQuieta DEF Aplicar
<1>6. CASE e = "APROBADO"
  <2>1. PedidoConfirmado(PedidoDe[j], j)
    BY <1>1, <1>2, <1>6, ConfirmarPedido DEF Aplicar
  <2>2. Avanza /\ PagosBien
    BY <1>2, <1>3, <1>4, <1>6, <2>1, ApruebaPago
  <2>3. CobroBien /\ FilasBien /\ PedidosBien
    BY <1>2, <1>3, <1>4, <2>1, CobroQuieto, FilasEscritas, ConfirmadoBien
  <2>4. LecturasBien
    BY <1>3, <2>2, EscribeYTermina
  <2> QED BY <1>3, <1>5, <2>2, <2>3, <2>4, SoloPago
<1>7. CASE e # "APROBADO"
  <2>1. UNCHANGED pedidoVars
    BY <1>7 DEF Aplicar, pedidoVars
  <2> HIDE DEF j, e
  <2> QED BY <1>1, <1>2, <1>3, <1>4, <1>5, <1>7, <2>1, EscribeSinConfirmar DEF j
<1> QED BY <1>6, <1>7

-----------------------------------------------------------------------------
(* The reconciliation job *)

\* What the job holds of a payment it has listed is good.
LEMMA ListadaBuena ==
  ASSUME TypeOK, NEW k \in Claves, NEW l, UNCHANGED orden,
         \/ l = UnaLectura("por_vencer", k, Ninguna, "PENDIENTE", Ninguna, "nada")
         \/ /\ pago[k].ref # Ninguna
            /\ l = UnaLectura("listada", k, pago[k].ref, "PENDIENTE", Ninguna, "nada")
         \/ \E a \in {"vencer", "vencer_sin_liberar"} :
              l = UnaLectura("leida", Ninguna, Ninguna, "PENDIENTE", k, a)
  PROVE  l \in Lectura /\ LecturaBuena(l)' /\ JobBueno(Conciliacion, l)
<1>1. pago[k].ref \in Claves \cup {Ninguna}
  BY DEF TypeOK, FilaPago
<1> QED
  BY <1>1
  DEF UnaLectura, Lectura, LecturaBuena, JobBueno, Acciones, EstadosAplicables

\* Expiring a payment that is still PENDIENTE rejects it, and nothing else.
LEMMA VencerIInv ==
  ASSUME IInv, Vencer
  PROVE  IInv'
<1> DEFINE k == Job.pago
<1>1. Conciliacion \in Lectores /\ TypeOK /\ SesionCoherente
  BY DEF Lectores, IInv
<1>2. /\ Job \in Lectura /\ LecturaBuena(Job) /\ Job.paso = "leida"
      /\ lectura' = [lectura EXCEPT ![Conciliacion] = Terminada(Conciliacion, TRUE)]
      /\ UNCHANGED <<sesiones, cierre, pedidoVars, redVars, cobro>>
  BY <1>1 DEF IInv, TypeOK, LecturaReal, Job, Vencer, Terminada
<1>3. UNCHANGED <<orden, pedido, confirmadoPor, historialCancelado>>
  BY <1>2 DEF redVars, pedidoVars
<1>4. k \in Claves /\ Mesa(k) \in Mesas
  BY <1>2, ConstantesAssumption DEF LecturaBuena, Mesa
<1>5. CobroBien /\ PedidosBien
  BY <1>1, <1>2, <1>3, CobroQuieto, PedidosQuietos
<1>6. MesaBien
  BY <1>1, <1>4, LiberarMesa, MesaQuieta DEF Vencer
<1>7. CASE SiguePendiente(k)
  <2>1. pago[k].ref \in Claves \cup {Ninguna} /\ Medio[k] = "MERCADOPAGO"
    BY <1>1, <1>4, <1>7, ConstantesAssumption
    DEF TypeOK, FilaPago, IInv, MedioCoherente, SiguePendiente, Medios
  <2>2. FilaEscrita(k, "RECHAZADO") /\ pago'[k].marcado = pago[k].marcado
    BY <1>1, <1>4, <1>7, <2>1, ResuelveFila DEF Vencer, PagoEstado, Motivos
  <2>3. pedido[PedidoDe[k]] \in Creado
    BY <1>4, <1>7 DEF SiguePendiente, IInv, PagoDePedido
  <2>4. Avanza /\ PagosBien
    BY <1>3, <1>4, <2>1, <2>2, EscribePago DEF PagoEstado
  <2>5. FilasBien
    BY <1>4, <2>1, <2>2, <2>3, FilasEscritas DEF PagoEstado
  <2>6. LecturasBien
    BY <1>1, <1>2, <2>4, EscribeYTermina
  <2> QED BY <1>2, <1>3, <1>5, <1>6, <2>4, <2>5, <2>6, SoloPago
<1>8. CASE ~SiguePendiente(k)
  <2>1. UNCHANGED pago
    BY <1>8 DEF Vencer
  <2>2. Avanza /\ PagosBien
    BY <1>1, <1>3, <2>1, SinTocarPagos DEF OrdenBien, TypeOK
  <2>3. FilasBien
    BY <2>1, FilasQuietas
  <2>4. LecturasBien
    BY <1>1, <1>2, <2>2, EscribeYTermina
  <2> QED BY <1>2, <1>3, <1>5, <1>6, <2>2, <2>3, <2>4, SoloPago
<1> QED BY <1>7, <1>8

\* The job keeps the invariant.
LEMMA PasoConciliacionIInv ==
  ASSUME IInv, PasoConciliacion
  PROVE  IInv'
<1>1. Conciliacion \in Lectores /\ TypeOK
  BY DEF Lectores, IInv
<1>2. ASSUME NEW k \in Claves, ConciliarLista(k) PROVE IInv'
  <2>1. PICK l : /\ lectura' = [lectura EXCEPT ![Conciliacion] = l]
                 /\ \/ l = UnaLectura("por_vencer", k, Ninguna, "PENDIENTE", Ninguna, "nada")
                    \/ /\ pago[k].ref # Ninguna
                       /\ l = UnaLectura("listada", k, pago[k].ref, "PENDIENTE",
                                         Ninguna, "nada")
    BY <1>2 DEF ConciliarLista
  <2>2. /\ UNCHANGED <<mesaVars, pedidoVars, pago, orden, cobro>>
        /\ avisos' \subseteq Claves
    BY <1>1, <1>2 DEF ConciliarLista, redVars, TypeOK
  <2>3. l \in Lectura /\ LecturaBuena(l)' /\ JobBueno(Conciliacion, l)
    BY <1>1, <2>1, <2>2, ListadaBuena
  <2> QED BY <1>1, <2>1, <2>2, <2>3, LeeBien
<1>3. CASE ConciliarConsulta
  <2>1. Job.orden \in Claves /\ Job.lista \in Claves
    BY <1>1, <1>3, JobTrabaja
    DEF ConciliarConsulta, IInv, LecturaReal, LecturaBuena, Job
  <2>2. /\ UNCHANGED <<mesaVars, pedidoVars, pago, orden, cobro>>
        /\ avisos' \subseteq Claves
    BY <1>1, <1>3 DEF ConciliarConsulta, redVars, TypeOK
  <2>3. PICK l \in {Consultada(Conciliacion, Job.orden), Terminada(Conciliacion, FALSE)} :
          lectura' = [lectura EXCEPT ![Conciliacion] = l]
    BY <1>3 DEF ConciliarConsulta
  <2>4. l \in Lectura /\ LecturaBuena(l)' /\ JobBueno(Conciliacion, l)
    <3>1. CASE l = Consultada(Conciliacion, Job.orden)
      BY <1>1, <2>1, <2>2, <3>1, ConsultadaBuena
    <3>2. CASE l = Terminada(Conciliacion, FALSE)
      BY <1>1, <2>1, <3>2, TerminadaBuena
    <3> QED BY <3>1, <3>2
  <2> QED BY <1>1, <2>2, <2>3, <2>4, LeeBien
<1>4. CASE TodaviaNo
  <2>1. /\ UNCHANGED <<mesaVars, pedidoVars, pago, orden, cobro>>
        /\ avisos' \subseteq Claves
        /\ lectura' = [lectura EXCEPT ![Conciliacion] = Terminada(Conciliacion, TRUE)]
    BY <1>1, <1>4 DEF TodaviaNo, redVars, TypeOK, Terminada
  <2> QED BY <1>1, <2>1, TerminaBien
<1>5. CASE VencerLee
  <2>1. Job.lista \in Claves
    BY <1>5, JobTrabaja DEF VencerLee
  <2>2. /\ UNCHANGED <<mesaVars, pedidoVars, pago, orden, cobro>>
        /\ avisos' \subseteq Claves
    BY <1>1, <1>5 DEF VencerLee, redVars, TypeOK
  <2>3. PICK l : /\ lectura' = [lectura EXCEPT ![Conciliacion] = l]
                 /\ \E a \in {"vencer", "vencer_sin_liberar"} :
                      l = UnaLectura("leida", Ninguna, Ninguna, "PENDIENTE", Job.lista, a)
    BY <1>5 DEF VencerLee
  <2>4. l \in Lectura /\ LecturaBuena(l)' /\ JobBueno(Conciliacion, l)
    BY <1>1, <2>1, <2>2, <2>3, ListadaBuena
  <2> QED BY <1>1, <2>2, <2>3, <2>4, LeeBien
<1>6. CASE Vencer
  BY <1>6, VencerIInv
<1> QED BY <1>2, <1>3, <1>4, <1>5, <1>6 DEF PasoConciliacion

-----------------------------------------------------------------------------
(* The invariant and the theorems *)

\* Nothing has been created, charged or read.
LEMMA InitIInv == Init => IInv
<1> SUFFICES ASSUME Init PROVE IInv
  OBVIOUS
<1>1. TypeOK
  <2>1. SinLectura \in Lectura
    BY DEF SinLectura, UnaLectura, Lectura, Acciones
  <2>2. SinCierre \in Cierre
    BY DEF SinCierre, UnCierre, Cierre
  <2>3. SinFila \in FilaPago
    BY DEF SinFila, Fila, FilaPago, PagoEstado, Motivos
  <2> QED
    BY <2>1, <2>2, <2>3
    DEF Init, TypeOK, MesaEstado, PedidoEstado, OrdenEstado, CobroPaso
<1>2. LecturaReal /\ JobEnPago
  <2>1. /\ SinLectura.paso = "libre" /\ SinLectura.estado = "PENDIENTE"
        /\ SinLectura.accion = "nada"
    BY DEF SinLectura, UnaLectura
  <2>2. LecturaBuena(SinLectura)
    BY <2>1 DEF LecturaBuena
  <2>3. \A h \in Lectores : lectura[h] = SinLectura
    BY DEF Init
  <2>4. LecturaReal
    BY <2>2, <2>3 DEF LecturaReal
  <2>5. Job = SinLectura
    BY <2>3 DEF Job, Lectores
  <2> QED BY <2>1, <2>4, <2>5 DEF JobEnPago
<1>3. SesionCoherente
  BY DEF Init, SesionCoherente, FilaCoherente
<1>4. \A k \in Claves : pago[k].estado = "NADA" /\ pago[k].marcado = FALSE
  BY DEF Init, SinFila, Fila
<1>5. MedioCoherente /\ PagoDePedido /\ RespuestaReal /\ SinOrdenAntes
  BY <1>4 DEF Init, MedioCoherente, PagoDePedido, RespuestaReal, SinOrdenAntes
<1>6. ConfirmadoEnCocina /\ PrepagoReal /\ AprobadoLlega /\ ReembolsoJusto /\ EfectivoUnaVez
  BY <1>4 DEF Init, ConfirmadoEnCocina, PrepagoReal, AprobadoLlega, ReembolsoJusto,
              EfectivoUnaVez, EnCocina
<1> QED BY <1>1, <1>2, <1>3, <1>5, <1>6 DEF IInv

\* A step that changes nothing.
LEMMA QuietoIInv ==
  ASSUME IInv, UNCHANGED vars
  PROVE  IInv'
<1>1. UNCHANGED <<mesaVars, pedidoVars, pago, redVars, cobro, lectura>>
  BY DEF vars
<1>2. UNCHANGED <<mesa, sesiones, cierre>>
  BY <1>1 DEF mesaVars
<1>3. MesaBien
  BY <1>2, MesaQuieta DEF IInv
<1> QED BY <1>1, <1>2, <1>3, SoloMesa DEF IInv, TypeOK

\* Every step of every process keeps the invariant.
LEMMA NextIInv ==
  ASSUME IInv, [Next]_vars
  PROVE  IInv'
<1>1. ASSUME NEW p \in Pedidos, PasoPedido(p) PROVE IInv'
  BY <1>1, PasoPedidoIInv
<1>2. ASSUME NEW k \in Claves, PasoReserva(k) PROVE IInv'
  BY <1>2, LecturasDeCobroIInv, ReservarConfirmaIInv DEF PasoReserva
<1>3. ASSUME NEW k \in Claves, PasoPasarela(k) PROVE IInv'
  BY <1>3, PasoPasarelaIInv
<1>4. ASSUME NEW k \in Claves, PasoRespuesta(k) PROVE IInv'
  BY <1>4, CobroAprobadoIInv, CobroNoAprobadoIInv, LecturasDeCobroIInv DEF PasoRespuesta
<1>5. ASSUME NEW k \in Claves, PasoEfectivo(k) PROVE IInv'
  BY <1>5, LecturasDeCobroIInv, EfectivoConfirmaIInv DEF PasoEfectivo
<1>6. ASSUME NEW h \in Lectores, PasoProcesarOrden(h) PROVE IInv'
  BY <1>6, RecibirIInv, LeerIInv, CompletarReferenciaIInv, ReembolsarIInv, AplicarIInv,
     FallarIInv
  DEF PasoProcesarOrden
<1>7. ASSUME NEW m \in Mesas, PasoMesa(m) PROVE IInv'
  BY <1>7, PasoMesaIInv
<1>8. CASE UNCHANGED vars
  BY <1>8, QuietoIInv
<1> QED
  BY <1>1, <1>2, <1>3, <1>4, <1>5, <1>6, <1>7, <1>8, PasoConciliacionIInv DEF Next

\* The inductive invariant holds in every state of every behaviour.
THEOREM SpecIInv == Spec => []IInv
<1>1. IInv /\ [Next]_vars => IInv'
  BY NextIInv
<1> QED BY <1>1, InitIInv, PTL DEF Spec

\* Every variable keeps its type.
THEOREM TiposCorrectos == Spec => []TypeOK
<1>1. IInv => TypeOK
  BY DEF IInv
<1> QED BY <1>1, SpecIInv, PTL

\* The kitchen only has orders for which money was taken, for any number of
\* tables, orders, attempts and notifications.
THEOREM CocinaSoloPagados == Spec => []PrepagoReal
<1>1. IInv => PrepagoReal
  BY DEF IInv
<1> QED BY <1>1, SpecIInv, PTL

\* An approved payment never waits: its order is in the kitchen, delivered or
\* cancelled.
THEOREM AprobadoNoEspera == Spec => []AprobadoLlega
<1>1. IInv => AprobadoLlega
  BY DEF IInv
<1> QED BY <1>1, SpecIInv, PTL

\* No charge is marked for refund while its order could still use it.
THEOREM ReembolsosJustos == Spec => []ReembolsoJusto
<1>1. IInv => ReembolsoJusto
  BY DEF IInv
<1> QED BY <1>1, SpecIInv, PTL

\* Cash that was registered is what confirmed its order, and so nobody pays an
\* order in cash twice, or in cash after a card payment confirmed it.
THEOREM EfectivoConfirmo == Spec => []EfectivoUnaVez
<1>1. IInv => EfectivoUnaVez
  BY DEF IInv
<1> QED BY <1>1, SpecIInv, PTL

\* The constraint between the state of a table and its session never fails.
THEOREM MesasCoherentes == Spec => []SesionCoherente
<1>1. IInv => SesionCoherente
  BY DEF IInv
<1> QED BY <1>1, SpecIInv, PTL

-----------------------------------------------------------------------------
(* Pagos implements Prepago *)

\* The mapping of CumplePrepago.
FaseAbs == [p \in Pedidos |-> Fase(p)]

\* The abstract state does not change.
Tartamudea == FaseAbs' = FaseAbs /\ Cobrados' = Cobrados

\* Nothing has been paid or created.
LEMMA InitPrepago == Init => Promesa!Init
<1> SUFFICES ASSUME Init PROVE Promesa!Init
  OBVIOUS
<1>1. FaseAbs = [p \in Pedidos |-> "sin_pagar"]
  BY DEF Init, FaseAbs, Fase
<1>2. Cobrados = {}
  BY DEF Init, Cobrados, Cobrada, Acreditadas, SinFila, Fila
<1> QED BY <1>1, <1>2 DEF Promesa!Init, FaseAbs

PasoPrepago == [Promesa!Next]_(Promesa!vars)

\* Doing nothing to orders and charges is allowed.
LEMMA TartamudeaBien ==
  ASSUME Tartamudea
  PROVE  PasoPrepago
BY DEF Tartamudea, PasoPrepago, Promesa!vars, FaseAbs

\* Orders nobody writes keep their phase.
LEMMA FasesQuietas ==
  ASSUME UNCHANGED pedido
  PROVE  FaseAbs' = FaseAbs
BY DEF FaseAbs, Fase

\* If neither the gateway nor the cash register took money, no order was paid.
LEMMA CobradosQuietos ==
  ASSUME UNCHANGED orden,
         \A k \in Claves : Medio[k] = "EFECTIVO" => pago'[k].estado = pago[k].estado
  PROVE  Cobrados' = Cobrados
<1>1. \A k \in Claves : Cobrada(k)' = Cobrada(k)
  <2>1. \A k \in Claves : Cobrada(k)' <=> Cobrada(k)
    BY DEF Cobrada
  <2> QED BY <2>1 DEF Cobrada
<1> QED BY <1>1 DEF Cobrados

\* Writing a card payment takes no money.
LEMMA TarjetaNoCobra ==
  ASSUME NEW k \in Claves, NEW e, FilaEscrita(k, e), Medio[k] = "MERCADOPAGO",
         UNCHANGED orden
  PROVE  Cobrados' = Cobrados
BY CobradosQuietos DEF FilaEscrita

\* A step that writes at most a card payment is a stutter.
LEMMA SoloTarjeta ==
  ASSUME UNCHANGED <<pedido, orden>>,
         UNCHANGED pago \/ \E k \in Claves, e \in PagoEstado :
                             FilaEscrita(k, e) /\ Medio[k] = "MERCADOPAGO"
  PROVE  PasoPrepago
<1>1. Cobrados' = Cobrados
  BY TarjetaNoCobra, CobradosQuietos
<1> QED BY <1>1, FasesQuietas, TartamudeaBien DEF Tartamudea

\* confirmarPagoEnTx confirms a paid order or leaves it.
LEMMA ConfirmaPrepago ==
  ASSUME NEW p \in Pedidos, NEW k, PedidoConfirmado(p, k),
         Cobrados' \in {Cobrados, Cobrados \cup {p}}, p \in Cobrados'
  PROVE  PasoPrepago
<1>1. CASE pedido[p] = "PENDIENTE_PAGO"
  <2>1. FaseAbs[p] = "sin_pagar" /\ FaseAbs' = [FaseAbs EXCEPT ![p] = "en_cocina"]
    <3>1. \A q \in Pedidos \ {p} : Fase(q)' = Fase(q)
      BY DEF PedidoConfirmado, Fase
    <3>2. Fase(p) = "sin_pagar" /\ Fase(p)' = "en_cocina"
      BY <1>1 DEF PedidoConfirmado, Fase
    <3> QED BY <3>1, <3>2 DEF FaseAbs
  <2>2. Promesa!Confirmar(p)
    BY <2>1 DEF Promesa!Confirmar, Promesa!Pasa, FaseAbs
  <2> QED BY <2>2 DEF PasoPrepago, Promesa!Next
<1>2. CASE pedido[p] # "PENDIENTE_PAGO"
  <2>1. FaseAbs' = FaseAbs
    <3>1. \A q \in Pedidos : pedido'[q] = pedido[q]
      BY <1>2 DEF PedidoConfirmado
    <3> QED BY <3>1 DEF FaseAbs, Fase
  <2>2. CASE Cobrados' = Cobrados
    BY <2>1, <2>2, TartamudeaBien DEF Tartamudea
  <2>3. CASE Cobrados' = Cobrados \cup {p}
    <3>1. Promesa!Cobrar(p)
      BY <2>1, <2>3 DEF Promesa!Cobrar, FaseAbs
    <3> QED BY <3>1 DEF PasoPrepago, Promesa!Next
  <2> QED BY <2>2, <2>3
<1> QED BY <1>1, <1>2

-----------------------------------------------------------------------------
(* The steps *)

\* Delivering an order is the delivery of the promise; creating it is nothing.
LEMMA PasoPedidoPrepago ==
  ASSUME TypeOK, NEW p \in Pedidos, PasoPedido(p)
  PROVE  PasoPrepago
<1>1. Cobrados' = Cobrados
  BY CobradosQuietos DEF PasoPedido, CrearAdmite, CrearConfirma, Entregar,
         TransicionTardia, redVars
<1>2. /\ pedido' = [pedido EXCEPT ![p] = pedido'[p]]
      /\ pedido \in [Pedidos -> PedidoEstado]
  BY DEF PasoPedido, CrearAdmite, CrearConfirma, Entregar, TransicionTardia, TypeOK
<1>3. \A q \in Pedidos \ {p} : Fase(q)' = Fase(q)
  BY <1>2 DEF Fase
<1>4. CASE Entregar(p)
  <2>1. pedido[p] = "RECIBIDO" /\ pedido'[p] = "ENTREGADO"
    BY <1>2, <1>4 DEF Entregar
  <2>2. Fase(p) = "en_cocina" /\ Fase(p)' = "entregado"
    BY <2>1 DEF Fase
  <2>3. Promesa!Entregar(p)
    BY <1>1, <1>3, <2>2 DEF Promesa!Entregar, Promesa!Pasa
  <2> QED BY <2>3 DEF PasoPrepago, Promesa!Next
<1>5. CASE CrearAdmite(p) \/ CrearConfirma(p)
  <2>1. /\ pedido[p] \in {"SIN_CREAR", "ADMITIDO"}
        /\ pedido'[p] \in {"ADMITIDO", "PENDIENTE_PAGO"}
    BY <1>2, <1>5 DEF CrearAdmite, CrearConfirma
  <2>2. Fase(p)' = Fase(p)
    BY <2>1 DEF Fase
  <2> QED BY <1>1, <1>3, <2>2, TartamudeaBien DEF Tartamudea, FaseAbs
<1>6. CASE TransicionTardia(p)
  <2>1. pedido[p] = "ENTREGADO" /\ pedido'[p] = "RECIBIDO"
    BY <1>2, <1>6 DEF TransicionTardia
  <2>2. Fase(p) = "entregado" /\ Fase(p)' = "en_cocina"
    BY <2>1 DEF Fase
  <2>3. Promesa!Volver(p)
    BY <1>1, <1>3, <2>2 DEF Promesa!Volver, Promesa!Pasa
  <2> QED BY <2>3 DEF PasoPrepago, Promesa!Next
<1> QED BY <1>4, <1>5, <1>6 DEF PasoPedido

\* Only the gateway takes money by card, for the order of the key.
LEMMA PasoPasarelaPrepago ==
  ASSUME IInv, NEW k \in Claves, PasoPasarela(k)
  PROVE  PasoPrepago
<1>1. TypeOK /\ PedidoDe[k] \in Pedidos /\ UNCHANGED <<pedido, pago>>
  BY ConstantesAssumption
  DEF IInv, PasoPasarela, PasarelaResponde, PasarelaError, PasarelaCalla, OrdenAvanza,
      pedidoVars
<1>2. /\ \A j \in Claves \ {k} : orden'[j] = orden[j]
      /\ orden[k] \in Acreditadas => orden'[k] \in Acreditadas
  <2>1. CASE OrdenAvanza(k)
    BY <1>1, <2>1 DEF OrdenAvanza, TypeOK, Acreditadas
  <2>2. CASE PasarelaResponde(k) \/ PasarelaError(k) \/ PasarelaCalla(k)
    <3>1. cobro[k] = "reservado"
      BY <2>2 DEF PasarelaResponde, PasarelaError, PasarelaCalla, Paso
    <3>2. orden[k] \notin Acreditadas
      BY <3>1 DEF IInv, SinOrdenAntes, AntesDeCobrar, Acreditadas
    <3> QED
      BY <1>1, <2>2, <3>2
      DEF PasarelaResponde, PasarelaError, PasarelaCalla, CrearOrden, TypeOK
  <2> QED BY <2>1, <2>2 DEF PasoPasarela
<1>3. /\ \A j \in Claves \ {k} : Cobrada(j)' <=> Cobrada(j)
      /\ Cobrada(k) => Cobrada(k)'
  BY <1>1, <1>2 DEF Cobrada
<1>4. Cobrados' \in {Cobrados, Cobrados \cup {PedidoDe[k]}}
  BY <1>1, <1>3 DEF Cobrados
<1>5. FaseAbs' = FaseAbs
  BY <1>1, FasesQuietas
<1>6. CASE Cobrados' = Cobrados
  BY <1>5, <1>6, TartamudeaBien DEF Tartamudea
<1>7. CASE Cobrados' = Cobrados \cup {PedidoDe[k]}
  <2>1. Promesa!Cobrar(PedidoDe[k])
    BY <1>5, <1>7 DEF Promesa!Cobrar, FaseAbs
  <2> QED BY <1>1, <2>1 DEF PasoPrepago, Promesa!Next
<1> QED BY <1>4, <1>6, <1>7

\* A reservation, a late answer and the reads of a request take no money.
LEMMA PasoReservaPrepago ==
  ASSUME IInv, NEW k \in Claves, PasoReserva(k)
  PROVE  PasoPrepago
<1>1. UNCHANGED <<pedido, orden>>
  BY DEF PasoReserva, ReservarLee, ReservarConfirma, ReservarAborta, pedidoVars, redVars
<1>2. CASE ReservarConfirma(k)
  <2>1. FilaEscrita(k, "PENDIENTE") /\ Medio[k] = "MERCADOPAGO"
    BY <1>2, InsertaFila DEF ReservarConfirma, PagoEstado, IInv
  <2> QED BY <1>1, <2>1, SoloTarjeta DEF PagoEstado
<1>3. CASE ReservarLee(k) \/ ReservarAborta(k)
  BY <1>1, <1>3, SoloTarjeta DEF ReservarLee, ReservarAborta
<1> QED BY <1>2, <1>3 DEF PasoReserva

\* An answer written late or on time confirms an order the gateway charged.
LEMMA PasoRespuestaPrepago ==
  ASSUME IInv, NEW k \in Claves, PasoRespuesta(k)
  PROVE  PasoPrepago
<1>1. TypeOK /\ PedidoDe[k] \in Pedidos
  BY ConstantesAssumption DEF IInv
<1>2. UNCHANGED orden
  BY DEF PasoRespuesta, CobroAprobado, CobroRechazado, CobroPendiente, CobroError,
         CobroTarde, redVars
<1>3. CASE CobroAprobado(k)
  <2>1. /\ FilaEscrita(k, "APROBADO")
        /\ PedidoConfirmado(PedidoDe[k], k)
    BY <1>1, <1>3, ResuelveFila, ConfirmarPedido DEF CobroAprobado, PagoEstado, Motivos
  <2>2. cobro[k] = "aprobado"
    BY <1>3 DEF CobroAprobado, Paso
  <2>3. Medio[k] = "MERCADOPAGO" /\ orden[k] \in Acreditadas
    BY <2>2, CobroDePedido, ConstantesAssumption DEF IInv, RespuestaReal, Medios
  <2>4. Cobrados' = Cobrados
    BY <1>2, <2>1, <2>3, TarjetaNoCobra
  <2>5. PedidoDe[k] \in Cobrados
    BY <1>1, <2>3 DEF Cobrados, Cobrada
  <2> QED BY <1>1, <2>1, <2>4, <2>5, ConfirmaPrepago
<1>4. CASE CobroRechazado(k) \/ CobroPendiente(k) \/ CobroError(k)
  <2>1. UNCHANGED pedido
    BY <1>4 DEF CobroRechazado, CobroPendiente, CobroError, pedidoVars
  <2>2. cobro[k] \in {"rechazado", "pendiente", "error"}
    BY <1>4 DEF CobroRechazado, CobroPendiente, CobroError, Paso
  <2>3. Medio[k] = "MERCADOPAGO"
    BY <2>2, CobroDePedido, ConstantesAssumption DEF Medios
  <2>4. pago[k].ref \in Claves \cup {Ninguna}
    BY <1>1 DEF TypeOK, FilaPago
  <2>5. \E e \in PagoEstado : FilaEscrita(k, e)
    BY <1>1, <1>4, <2>4, ResuelveFila
    DEF CobroRechazado, CobroPendiente, CobroError, PagoEstado, Motivos
  <2> QED BY <1>2, <2>1, <2>3, <2>5, SoloTarjeta
<1>5. CASE CobroTarde(k)
  BY <1>5, <1>2, SoloTarjeta DEF CobroTarde, pedidoVars
<1> QED BY <1>3, <1>4, <1>5 DEF PasoRespuesta

\* Cash is money for the order it confirms.
LEMMA PasoEfectivoPrepago ==
  ASSUME IInv, NEW k \in Claves, PasoEfectivo(k)
  PROVE  PasoPrepago
<1>1. TypeOK /\ PedidoDe[k] \in Pedidos
  BY ConstantesAssumption DEF IInv
<1>2. CASE EfectivoConfirma(k)
  <2>1. /\ FilaEscrita(k, "APROBADO") /\ PedidoConfirmado(PedidoDe[k], k)
        /\ Medio[k] = "EFECTIVO" /\ UNCHANGED orden
    BY <1>1, <1>2, InsertaFila, ConfirmarPedido DEF EfectivoConfirma, PagoEstado, redVars
  <2>2. \A j \in Claves \ {k} : Cobrada(j)' <=> Cobrada(j)
    BY <2>1 DEF Cobrada, FilaEscrita
  <2>3. Cobrada(k)'
    BY <2>1 DEF Cobrada, FilaEscrita
  <2>4. Cobrados' = Cobrados \cup {PedidoDe[k]}
    BY <1>1, <2>2, <2>3 DEF Cobrados
  <2> QED BY <1>1, <2>1, <2>4, ConfirmaPrepago
<1>3. CASE EfectivoLee(k) \/ EfectivoAborta(k)
  BY <1>3, SoloTarjeta DEF EfectivoLee, EfectivoAborta, pedidoVars, redVars
<1> QED BY <1>2, <1>3 DEF PasoEfectivo

\* What a handler writes confirms an order that was charged, or takes nothing.
LEMMA PasoProcesarPrepago ==
  ASSUME IInv, NEW h \in Lectores, PasoProcesarOrden(h)
  PROVE  PasoPrepago
<1> DEFINE j == lectura[h].pago
           e == lectura[h].estado
<1>1. TypeOK /\ UNCHANGED orden
  BY DEF IInv, PasoProcesarOrden, Recibir, Leer, CompletarReferencia, Reembolsar,
         Aplicar, Fallar, redVars
<1>2. CASE (\E k \in Claves : Recibir(h, k)) \/ Leer(h) \/ Fallar(h)
  BY <1>1, <1>2, SoloTarjeta DEF Recibir, Leer, Fallar, pedidoVars
<1>3. ASSUME NEW a \in {"referencia", "aplicar", "reembolsar"}, Escribe(h, a)
      PROVE  /\ j \in Claves /\ Medio[j] = "MERCADOPAGO" /\ PedidoDe[j] \in Pedidos
             /\ lectura[h].orden \in Claves /\ e \in PagoEstado
             /\ e = "APROBADO" => PedidoDe[j] \in Cobrados
  BY <1>3, LoQueEscribe DEF EstadosAplicables, PagoEstado
<1>4. CASE CompletarReferencia(h)
  <2>1. Escribe(h, "referencia") /\ UNCHANGED pedido
    BY <1>4 DEF CompletarReferencia, Escribe, pedidoVars
  <2>2. pago[j].estado \in PagoEstado /\ pago[j].motivo \in Motivos
    BY <1>1, <1>3, <2>1 DEF TypeOK, FilaPago
  <2>3. FilaEscrita(j, pago[j].estado)
    BY <1>1, <1>3, <1>4, <2>1, <2>2, ResuelveFila DEF CompletarReferencia
  <2> QED BY <1>1, <1>3, <2>1, <2>2, <2>3, SoloTarjeta
<1>5. CASE Reembolsar(h)
  <2>1. Escribe(h, "reembolsar") /\ UNCHANGED pedido
    BY <1>5 DEF Reembolsar, Escribe, pedidoVars
  <2>2. FilaEscrita(j, e)
    BY <1>1, <1>3, <1>5, <2>1
    DEF Reembolsar, TypeOK, Fila, FilaPago, FilaEscrita, MotivoDe, Motivos
  <2> QED BY <1>1, <1>3, <2>1, <2>2, SoloTarjeta
<1>6. CASE Aplicar(h)
  <2>1. Escribe(h, "aplicar") /\ MotivoDe(e) \in Motivos
    BY <1>6 DEF Aplicar, Escribe, MotivoDe, Motivos
  <2>2. FilaEscrita(j, e)
    BY <1>1, <1>3, <1>6, <2>1, ResuelveFila DEF Aplicar
  <2>3. CASE e = "APROBADO"
    <3>1. PedidoConfirmado(PedidoDe[j], j)
      BY <1>1, <1>3, <1>6, <2>1, <2>3, ConfirmarPedido DEF Aplicar
    <3>2. Cobrados' = Cobrados
      BY <1>1, <1>3, <2>1, <2>2, TarjetaNoCobra
    <3> QED BY <1>3, <2>1, <2>3, <3>1, <3>2, ConfirmaPrepago
  <2>4. CASE e # "APROBADO"
    <3>1. UNCHANGED pedido
      BY <1>6, <2>4 DEF Aplicar
    <3> QED BY <1>1, <1>3, <2>1, <2>2, <3>1, SoloTarjeta
  <2> QED BY <2>3, <2>4
<1> QED BY <1>2, <1>4, <1>5, <1>6 DEF PasoProcesarOrden

\* The job takes no money: what it finds is applied by the steps above.
LEMMA PasoConciliacionPrepago ==
  ASSUME IInv, PasoConciliacion
  PROVE  PasoPrepago
<1>1. UNCHANGED <<pedido, orden>> /\ TypeOK
  BY DEF PasoConciliacion, ConciliarLista, ConciliarConsulta, TodaviaNo, VencerLee,
         Vencer, pedidoVars, redVars, IInv
<1>2. CASE Vencer /\ SiguePendiente(Job.pago)
  <2> DEFINE k == Job.pago
  <2>1. k \in Claves
    BY <1>2 DEF Vencer, IInv, LecturaReal, LecturaBuena, Job, Lectores
  <2>2. pago[k].ref \in Claves \cup {Ninguna} /\ Medio[k] = "MERCADOPAGO"
    BY <1>1, <1>2, <2>1, ConstantesAssumption
    DEF TypeOK, FilaPago, IInv, MedioCoherente, SiguePendiente, Medios
  <2>3. FilaEscrita(k, "RECHAZADO")
    BY <1>1, <1>2, <2>1, <2>2, ResuelveFila DEF Vencer, PagoEstado, Motivos
  <2> QED BY <1>1, <2>1, <2>2, <2>3, SoloTarjeta DEF PagoEstado
<1>3. CASE ~(Vencer /\ SiguePendiente(Job.pago))
  <2>1. UNCHANGED pago
    BY <1>3 DEF PasoConciliacion, ConciliarLista, ConciliarConsulta, TodaviaNo,
                VencerLee, Vencer
  <2> QED BY <1>1, <2>1, SoloTarjeta
<1> QED BY <1>2, <1>3

\* Closing a table cancels orders that nobody paid for in the kitchen.
LEMMA PasoMesaPrepago ==
  ASSUME IInv, NEW m \in Mesas, PasoMesa(m)
  PROVE  PasoPrepago
<1>1. UNCHANGED <<orden, pago>>
  BY DEF PasoMesa, AbrirSesion, MarcarLimpia, CierreLee, CierreBloquea, CierreAborta,
         CierreConfirma, redVars
<1>2. CASE CierreConfirma(m)
  <2> DEFINE ps == Cancelables(cierre[m].pendientes) \cap Pedidos
  <2>1. Cobrados' = Cobrados
    BY <1>1, CobradosQuietos
  <2>2. \A p \in Pedidos : pedido'[p] = IF p \in ps THEN "CANCELADO" ELSE pedido[p]
    BY <1>2 DEF CierreConfirma
  <2>3. \A p \in ps : Fase(p) = "sin_pagar" /\ Fase(p)' = "cancelado"
    BY <2>2 DEF Cancelables, Confirmable, Fase
  <2>4. \A p \in Pedidos \ ps : Fase(p)' = Fase(p)
    BY <2>2 DEF Fase
  <2>5. Promesa!Cancelar(ps)
    BY <2>1, <2>3, <2>4 DEF Promesa!Cancelar
  <2> QED BY <2>5 DEF PasoPrepago, Promesa!Next
<1>3. CASE ~CierreConfirma(m)
  <2>1. UNCHANGED pedido
    BY <1>3 DEF PasoMesa, AbrirSesion, MarcarLimpia, CierreLee, CierreBloquea,
                CierreAborta, pedidoVars
  <2> QED BY <1>1, <2>1, SoloTarjeta
<1> QED BY <1>2, <1>3

\* Every step is one of the promise, or none.
LEMMA NextPrepago ==
  ASSUME IInv, [Next]_vars
  PROVE  PasoPrepago
<1>1. CASE UNCHANGED vars
  BY <1>1, SoloTarjeta DEF vars, pedidoVars, redVars
<1>2. CASE Next
  <2>1. TypeOK
    BY DEF IInv
  <2> QED
    BY <1>2, <2>1, PasoPedidoPrepago, PasoReservaPrepago, PasoPasarelaPrepago,
       PasoRespuestaPrepago, PasoEfectivoPrepago, PasoProcesarPrepago,
       PasoConciliacionPrepago, PasoMesaPrepago
    DEF Next
<1> QED BY <1>1, <1>2

\* Whatever times out, is repeated, arrives late or fails, each order of the
\* program behaves as Prepago promises.
THEOREM PagosCumplePrepago == Spec => CumplePrepago
<1>1. IInv /\ [Next]_vars => PasoPrepago
  BY NextPrepago
<1> QED BY <1>1, InitPrepago, SpecIInv, PTL DEF Spec, CumplePrepago, Promesa!Spec, PasoPrepago

=============================================================================
