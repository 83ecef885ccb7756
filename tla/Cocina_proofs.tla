--------------------------- MODULE Cocina_proofs ---------------------------
(***************************************************************************)
(* Proofs about Cocina, for every set of orders and of transactions.       *)
(* While the queue is never off, ColaInv is inductive: who moves the queue *)
(* holds its lock, so the orders that were chosen stay the first ones that *)
(* wait.  While, besides, the limit is only raised, IInv is inductive: the *)
(* places that were counted are still free when they are taken.  With the  *)
(* queue on or off, PagadosInv is inductive: of the transactions that go   *)
(* on, only a confirmation writes an order that waits to be paid.          *)
(*                                                                         *)
(* Then about what the screens show.  Of Avisos, for any number of         *)
(* screens, tables, requests of cash and answers: a screen that is up to   *)
(* date shows what the memory has, and a request that was attended is in   *)
(* neither.  Of Tablero, for any number of boards, pages, orders and       *)
(* requests: what a screen shows of the last version is what the database  *)
(* has, and what it was not told of it yet is still to be told, by a       *)
(* request or by a copy that is on its way to it, or was lost: the answer  *)
(* of a commit, or a read of the queue that failed.                        *)
(***************************************************************************)
EXTENDS Cocina, Avisos, Tablero, FiniteSetTheorems, TLAPS

-----------------------------------------------------------------------------
(* What each step does to the transactions *)

\* A step of t leaves the other transactions as they were.
SoloCambia(t) ==
  /\ tx' \in [Txs -> Tx]
  /\ \A o \in Txs \ {t} : tx'[o] = tx[o]

\* The record of t after the step.
Queda(t, paso, p, n, e, s) ==
  /\ SoloCambia(t)
  /\ tx'[t].paso = paso
  /\ tx'[t].pedido = p
  /\ tx'[t].nuevo = n
  /\ tx'[t].escrito <=> e
  /\ tx'[t].lista = s

\* t goes on at another step with the same order.
Avanza(t, paso, e, s) == Queda(t, paso, tx[t].pedido, tx[t].nuevo, e, s)

\* The record of a transaction that has not started is of the type.
LEMMA SinTxTipo ==
  /\ SinTx \in Tx
  /\ SinTx.paso = "libre"
  /\ SinTx.pedido = Ninguno
  /\ SinTx.nuevo = "RECIBIDO"
  /\ SinTx.limite = 0
  /\ ~SinTx.escrito
  /\ SinTx.lista = {}
BY DEF SinTx, UnaTx, Tx, Pasos, Estado, SinLimite

\* A confirmation has written its order and goes on with the limit.
LEMMA ConfirmarPagoTx ==
  ASSUME TypeOK, NEW t \in Txs, NEW p \in Pedidos, ConfirmarPago(t, p)
  PROVE  /\ Queda(t, "capacidad", p, "RECIBIDO", TRUE, {})
         /\ tx'[t].limite = 0
<1>1. UnaTx("capacidad", p, "RECIBIDO", SinLimite, TRUE, {}) \in Tx
  BY DEF UnaTx, Tx, Pasos, Estado, SinLimite
<1> QED
  BY <1>1 DEF TypeOK, ConfirmarPago, Queda, SoloCambia, UnaTx, SinLimite

\* The staff's screen asks for the next state of the order it reads.
LEMMA TransicionarLeeTx ==
  ASSUME TypeOK, NEW t \in Txs, NEW p \in Pedidos, TransicionarLee(t, p)
  PROVE  /\ \/ /\ Queda(t, "capacidad", p, "EN_PREPARACION", FALSE, {})
               /\ estado[p] = "RECIBIDO"
            \/ /\ Queda(t, "escribir", p, "LISTO_PARA_ENTREGAR", FALSE, {})
               /\ estado[p] = "EN_PREPARACION"
            \/ /\ Queda(t, "escribir", p, "ENTREGADO", FALSE, {})
               /\ estado[p] = "LISTO_PARA_ENTREGAR"
         /\ tx'[t].limite = 0
<1>1. estado[p] \in {"RECIBIDO", "EN_PREPARACION", "LISTO_PARA_ENTREGAR"}
  BY DEF TransicionarLee, Siguiente
<1>2. CASE estado[p] = "RECIBIDO"
  <2>1. Siguiente["RECIBIDO"] = "EN_PREPARACION"
    BY DEF Siguiente
  <2>2. UnaTx("capacidad", p, "EN_PREPARACION", SinLimite, FALSE, {}) \in Tx
    BY DEF UnaTx, Tx, Pasos, Estado, SinLimite
  <2>3. tx' = [tx EXCEPT ![t] =
          UnaTx("capacidad", p, "EN_PREPARACION", SinLimite, FALSE, {})]
    BY <1>2, <2>1 DEF TransicionarLee
  <2> QED
    BY <1>2, <2>2, <2>3 DEF TypeOK, Queda, SoloCambia, UnaTx, SinLimite
<1>3. CASE estado[p] = "EN_PREPARACION"
  <2>1. Siguiente["EN_PREPARACION"] = "LISTO_PARA_ENTREGAR"
    BY DEF Siguiente
  <2>2. UnaTx("escribir", p, "LISTO_PARA_ENTREGAR", SinLimite, FALSE, {}) \in Tx
    BY DEF UnaTx, Tx, Pasos, Estado, SinLimite
  <2>3. tx' = [tx EXCEPT ![t] =
          UnaTx("escribir", p, "LISTO_PARA_ENTREGAR", SinLimite, FALSE, {})]
    BY <1>3, <2>1 DEF TransicionarLee
  <2> QED
    BY <1>3, <2>2, <2>3 DEF TypeOK, Queda, SoloCambia, UnaTx, SinLimite
<1>4. CASE estado[p] = "LISTO_PARA_ENTREGAR"
  <2>1. Siguiente["LISTO_PARA_ENTREGAR"] = "ENTREGADO"
    BY DEF Siguiente
  <2>2. UnaTx("escribir", p, "ENTREGADO", SinLimite, FALSE, {}) \in Tx
    BY DEF UnaTx, Tx, Pasos, Estado, SinLimite
  <2>3. tx' = [tx EXCEPT ![t] =
          UnaTx("escribir", p, "ENTREGADO", SinLimite, FALSE, {})]
    BY <1>4, <2>1 DEF TransicionarLee
  <2> QED
    BY <1>4, <2>2, <2>3 DEF TypeOK, Queda, SoloCambia, UnaTx, SinLimite
<1> QED BY <1>1, <1>2, <1>3, <1>4

\* A change of the limit has written it, and no order.
LEMMA CambiarLimiteTx ==
  ASSUME TypeOK, NEW t \in Txs, NEW l \in Limites, CambiarLimite(t, l)
  PROVE  /\ \E paso \in {"espera", "confirmar"} :
              Queda(t, paso, Ninguno, "RECIBIDO", TRUE, {})
         /\ tx'[t].limite = l
<1>1. l \in Nat
  BY CocinaAssumption
<1>2. PICK paso \in {"espera", "confirmar"} :
        tx' = [tx EXCEPT ![t] = UnaTx(paso, Ninguno, "RECIBIDO", l, TRUE, {})]
  BY DEF CambiarLimite
<1>3. UnaTx(paso, Ninguno, "RECIBIDO", l, TRUE, {}) \in Tx
  BY <1>1 DEF UnaTx, Tx, Pasos, Estado
<1> QED
  BY <1>2, <1>3 DEF TypeOK, Queda, SoloCambia, UnaTx

\* With the queue on, who read the limit goes on to wait for the lock.
LEMMA LeerLimiteTx ==
  ASSUME TypeOK, limite # SinLimite, NEW t \in Txs, LeerLimite(t)
  PROVE  Avanza(t, "espera", tx[t].escrito, tx[t].lista) /\ tx'[t].limite = limite
BY DEF TypeOK, LeerLimite, Avanza, Queda, SoloCambia, Tx, Pasos

\* A step that only moves t on.
LEMMA PasaTx ==
  ASSUME TypeOK, NEW t \in Txs, NEW paso \in Pasos, Pasa(t, paso)
  PROVE  /\ Avanza(t, paso, tx[t].escrito, tx[t].lista)
         /\ tx'[t].limite = tx[t].limite
BY DEF TypeOK, Pasa, Avanza, Queda, SoloCambia, Tx

\* The update of the screen keeps the order and the state it was to write.
LEMMA EscribirTx ==
  ASSUME TypeOK, NEW t \in Txs, Escribir(t)
  PROVE  /\ \/ /\ Avanza(t, "capacidad", TRUE, tx[t].lista)
               /\ tx[t].nuevo = "LISTO_PARA_ENTREGAR"
            \/ /\ Avanza(t, "confirmar", TRUE, tx[t].lista)
               /\ tx[t].nuevo # "LISTO_PARA_ENTREGAR"
         /\ tx'[t].limite = tx[t].limite
BY DEF TypeOK, Escribir, Avanza, Queda, SoloCambia, Tx, Pasos

\* The places that t sees free.
Libres(t) ==
  LET ocupados == Cardinality(EnPreparacion(Vista(t)))
  IN  IF ocupados < tx[t].limite THEN tx[t].limite - ocupados ELSE 0

\* The chosen orders are the first ones of those that t sees waiting.
LEMMA ElegirTx ==
  ASSUME TypeOK, NEW t \in Txs, Elegir(t)
  PROVE  \E elegidos \in LosPrimeros(EnEspera(Vista(t)), Libres(t)) :
           /\ elegidos \subseteq EnEspera(Vista(t))
           /\ \/ elegidos = {} /\ Avanza(t, "confirmar", tx[t].escrito, elegidos)
              \/ elegidos # {} /\ Avanza(t, "promover", tx[t].escrito, elegidos)
           /\ tx'[t].limite = tx[t].limite
<1>1. PICK elegidos \in LosPrimeros(EnEspera(Vista(t)), Libres(t)) :
        tx' = [tx EXCEPT ![t].lista = elegidos,
                         ![t].paso = IF elegidos = {} THEN "confirmar"
                                                      ELSE "promover"]
  BY DEF Elegir, Libres
<1>2. elegidos \subseteq EnEspera(Vista(t)) /\ elegidos \in SUBSET Pedidos
  BY DEF LosPrimeros, Tomados, EnEspera
<1> QED
  BY <1>1, <1>2 DEF TypeOK, Avanza, Queda, SoloCambia, Tx, Pasos

\* A transaction that ends leaves nothing of its own.
LEMMA TerminaTx ==
  ASSUME TypeOK, NEW t \in Txs, Termina(t)
  PROVE  /\ Queda(t, "libre", Ninguno, "RECIBIDO", FALSE, {})
         /\ tx'[t].limite = 0
         /\ tx'[t] = SinTx
BY SinTxTipo DEF TypeOK, Termina, Queda, SoloCambia

-----------------------------------------------------------------------------
(* Types, and the form of a transaction *)

\* A step of t.
Paso(t) == Empezar(t) \/ Seguir(t) \/ AbrazoMortal(t) \/ Caer(t)

\* Some transaction ends its work here: it commits, it is refused or it dies.
TerminaPaso(t) == CocinaLlena(t) \/ ConfirmarTx(t) \/ Abortar(t)

\* Whoever ends its work lets the lock go.
LEMMA TerminaPasoTx ==
  ASSUME TypeOK, NEW t \in Txs, TerminaPaso(t)
  PROVE  /\ Queda(t, "libre", Ninguno, "RECIBIDO", FALSE, {})
         /\ tx'[t].limite = 0
         /\ tx'[t] = SinTx
         /\ Soltar(t)
<1>1. Termina(t)
  BY DEF TerminaPaso, CocinaLlena, ConfirmarTx, Abortar
<1> QED BY <1>1, TerminaTx DEF Termina

\* Dying and losing a deadlock are aborts.
LEMMA PasoCasos ==
  ASSUME NEW t \in Txs, Paso(t)
  PROVE  \/ \E p \in Pedidos : ConfirmarPago(t, p)
         \/ \E p \in Pedidos : TransicionarLee(t, p)
         \/ \E l \in Limites : CambiarLimite(t, l)
         \/ LeerLimite(t) \/ BloquearCola(t) \/ HayLugar(t) \/ Escribir(t)
         \/ Elegir(t) \/ TerminaPaso(t)
BY DEF Paso, Empezar, Seguir, AbrazoMortal, Caer, TerminaPaso

\* What a transaction writes and what it adds are states and orders.
LEMMA VistaTipo ==
  ASSUME TypeOK, NEW t \in Txs
  PROVE  /\ Vista(t) \in [Pedidos -> Estado]
         /\ Confirmado(t) \in [Pedidos -> Estado]
BY DEF TypeOK, Vista, Confirmado, Tx, Estado

\* The types are kept; a new arrival is after the others and is not among them.
LEMMA TypeOKPaso ==
  ASSUME ColaInv, limite # SinLimite, NEW t \in Txs, Paso(t)
  PROVE  TypeOK'
<1> DEFINE AntesBien ==
      /\ antes' \subseteq Pedidos \X Pedidos
      /\ \A p, q \in Pedidos : <<p, q>> \in antes' => <<q, p>> \notin antes'
<1>0. TypeOK
  BY DEF ColaInv
<1>1. ASSUME NEW p \in Pedidos, ConfirmarPago(t, p) PROVE TypeOK'
  <2>1. SoloCambia(t)
    BY <1>0, <1>1, ConfirmarPagoTx DEF Queda
  <2>2. ~Llego(p)
    BY <1>1 DEF ConfirmarPago, FilaLibre, Llego, ColaInv, TxsEnForma, TxEnForma,
                SinTx, UnaTx, Escribio
  <2>3. antes' = antes \cup {<<q, p>> : q \in {q \in Pedidos : Llego(q)}}
    BY <1>1 DEF ConfirmarPago
  <2>4. AntesBien
    BY <1>0, <2>2, <2>3 DEF TypeOK, ColaInv, AntesLlegaron
  <2> QED BY <1>0, <1>1, <2>1, <2>4 DEF TypeOK, ConfirmarPago, SoloCambia
<1>2. ASSUME NEW p \in Pedidos, TransicionarLee(t, p) PROVE TypeOK'
  <2>1. SoloCambia(t)
    BY <1>0, <1>2, TransicionarLeeTx DEF Queda
  <2> QED BY <1>0, <1>2, <2>1 DEF TypeOK, TransicionarLee, SoloCambia
<1>3. ASSUME NEW l \in Limites, CambiarLimite(t, l) PROVE TypeOK'
  <2>1. SoloCambia(t)
    BY <1>0, <1>3, CambiarLimiteTx DEF Queda
  <2> QED BY <1>0, <1>3, <2>1 DEF TypeOK, CambiarLimite, SoloCambia
<1>4. CASE LeerLimite(t)
  BY <1>0, <1>4, LeerLimiteTx DEF TypeOK, LeerLimite, Avanza, Queda, SoloCambia
<1>5. CASE BloquearCola(t)
  <2>1. SoloCambia(t)
    BY <1>0, <1>5, PasaTx DEF BloquearCola, Avanza, Queda, Pasos
  <2> QED BY <1>0, <1>5, <2>1 DEF TypeOK, BloquearCola, SoloCambia
<1>6. CASE HayLugar(t)
  <2>1. SoloCambia(t)
    BY <1>0, <1>6, PasaTx DEF HayLugar, Avanza, Queda, Pasos
  <2> QED BY <1>0, <1>6, <2>1 DEF TypeOK, HayLugar, SoloCambia
<1>7. CASE Escribir(t)
  <2>1. SoloCambia(t)
    BY <1>0, <1>7, EscribirTx DEF Avanza, Queda
  <2> QED BY <1>0, <1>7, <2>1 DEF TypeOK, Escribir, SoloCambia
<1>8. CASE Elegir(t)
  <2>1. SoloCambia(t)
    BY <1>0, <1>8, ElegirTx DEF Avanza, Queda
  <2> QED BY <1>0, <1>8, <2>1 DEF TypeOK, Elegir, SoloCambia
<1>9. CASE TerminaPaso(t)
  <2>1. SoloCambia(t) /\ Soltar(t)
    BY <1>0, <1>9, TerminaPasoTx DEF Queda
  <2>2. candado' \in Txs \cup {Ninguno}
    BY <1>0, <2>1 DEF Soltar, TypeOK
  <2>3. estado' \in [Pedidos -> Estado]
    BY <1>0, <1>9, VistaTipo
       DEF TypeOK, TerminaPaso, CocinaLlena, ConfirmarTx, Abortar
  <2>4. antes' \subseteq antes
    BY <1>9 DEF TerminaPaso, CocinaLlena, ConfirmarTx, Abortar, AntesSin
  <2>5. limite' \in Nat
    <3>1. tx[t].limite \in Nat
      BY <1>0 DEF TypeOK, Tx
    <3> QED
      BY <1>0, <1>9, <3>1 DEF TypeOK, TerminaPaso, CocinaLlena, ConfirmarTx, Abortar
  <2>6. AntesBien
    BY <1>0, <2>4 DEF TypeOK
  <2> QED BY <2>1, <2>2, <2>3, <2>5, <2>6 DEF TypeOK, SoloCambia
<1> QED
  BY <1>1, <1>2, <1>3, <1>4, <1>5, <1>6, <1>7, <1>8, <1>9, PasoCasos

\* The transactions keep their form.
LEMMA TxsEnFormaPaso ==
  ASSUME ColaInv, limite # SinLimite, NEW t \in Txs, Paso(t)
  PROVE  TxsEnForma'
<1>0. TypeOK /\ TxEnForma(t)
  BY DEF ColaInv, TxsEnForma
<1> USE DEF EsCambioDeLimite, Queda, Avanza, TxEnForma
<1>1. SoloCambia(t) /\ TxEnForma(t)'
  <2>1. ASSUME NEW p \in Pedidos, ConfirmarPago(t, p)
        PROVE  SoloCambia(t) /\ TxEnForma(t)'
    BY <1>0, <2>1, ConfirmarPagoTx, CocinaAssumption
  <2>2. ASSUME NEW p \in Pedidos, TransicionarLee(t, p)
        PROVE  SoloCambia(t) /\ TxEnForma(t)'
    BY <1>0, <2>2, TransicionarLeeTx, CocinaAssumption
  <2>3. ASSUME NEW l \in Limites, CambiarLimite(t, l)
        PROVE  SoloCambia(t) /\ TxEnForma(t)'
    BY <1>0, <2>3, CambiarLimiteTx
  <2>4. CASE LeerLimite(t)
    BY <1>0, <2>4, LeerLimiteTx DEF LeerLimite
  <2>5. CASE BloquearCola(t)
    BY <1>0, <2>5, PasaTx DEF BloquearCola, Pasos
  <2>6. CASE HayLugar(t)
    BY <1>0, <2>6, PasaTx DEF HayLugar, Pasos
  <2>7. CASE Escribir(t)
    BY <1>0, <2>7, EscribirTx DEF Escribir
  <2>8. CASE Elegir(t)
    BY <1>0, <2>8, ElegirTx DEF Elegir
  <2>9. CASE TerminaPaso(t)
    BY <1>0, <2>9, TerminaPasoTx
  <2> QED
    BY <2>1, <2>2, <2>3, <2>4, <2>5, <2>6, <2>7, <2>8, <2>9, PasoCasos
<1>2. ASSUME NEW o \in Txs PROVE TxEnForma(o)'
  <2>1. CASE o = t
    BY <1>1, <2>1
  <2>2. CASE o # t
    BY <1>1, <2>2 DEF ColaInv, TxsEnForma, SoloCambia
  <2> QED BY <2>1, <2>2
<1> QED BY <1>2 DEF TxsEnForma

-----------------------------------------------------------------------------
(* The lock and the rows *)

\* Nobody takes the lock from who holds it.
LEMMA CandadoAjeno ==
  ASSUME TypeOK, NEW t \in Txs, Paso(t), NEW o \in Txs \ {t}, candado = o
  PROVE  candado' = o
<1>1. CASE TerminaPaso(t)
  BY <1>1, TerminaPasoTx DEF Soltar
<1>2. CASE ~TerminaPaso(t)
  BY <1>2, PasoCasos
     DEF ConfirmarPago, TransicionarLee, CambiarLimite, LeerLimite, BloquearCola,
         HayLugar, Escribir, Elegir, CandadoLibre
<1> QED BY <1>1, <1>2

\* Who moves the queue still holds its lock.
LEMMA ColaConCandadoPaso ==
  ASSUME ColaInv, limite # SinLimite, NEW t \in Txs, Paso(t)
  PROVE  ColaConCandado'
<1>0. TypeOK /\ TxEnForma(t) /\ (MueveLaCola(t) => candado = t)
  BY DEF ColaInv, TxsEnForma, ColaConCandado
<1> USE DEF Queda, Avanza, MueveLaCola
<1>1. SoloCambia(t) /\ (MueveLaCola(t)' => candado' = t)
  <2>1. ASSUME NEW p \in Pedidos, ConfirmarPago(t, p)
        PROVE  SoloCambia(t) /\ (MueveLaCola(t)' => candado' = t)
    BY <1>0, <2>1, ConfirmarPagoTx
  <2>2. ASSUME NEW p \in Pedidos, TransicionarLee(t, p)
        PROVE  SoloCambia(t) /\ (MueveLaCola(t)' => candado' = t)
    BY <1>0, <2>2, TransicionarLeeTx
  <2>3. ASSUME NEW l \in Limites, CambiarLimite(t, l)
        PROVE  SoloCambia(t) /\ (MueveLaCola(t)' => candado' = t)
    BY <1>0, <2>3, CambiarLimiteTx, CocinaAssumption
  <2>4. CASE LeerLimite(t)
    BY <1>0, <2>4, LeerLimiteTx
  <2>5. CASE BloquearCola(t)
    BY <1>0, <2>5, PasaTx DEF BloquearCola, Pasos
  <2>6. CASE HayLugar(t)
    BY <1>0, <2>6, PasaTx DEF HayLugar, Pasos
  <2>7. CASE Escribir(t)
    BY <1>0, <2>7, EscribirTx DEF Escribir, TxEnForma
  <2>8. CASE Elegir(t)
    BY <1>0, <2>8, ElegirTx DEF Elegir
  <2>9. CASE TerminaPaso(t)
    BY <1>0, <2>9, TerminaPasoTx
  <2> QED
    BY <2>1, <2>2, <2>3, <2>4, <2>5, <2>6, <2>7, <2>8, <2>9, PasoCasos
<1>2. ASSUME NEW o \in Txs, MueveLaCola(o)' PROVE candado' = o
  <2>1. CASE o = t
    BY <1>1, <1>2, <2>1
  <2>2. CASE o # t
    <3>1. candado = o
      BY <1>1, <1>2, <2>2 DEF ColaInv, ColaConCandado, SoloCambia
    <3> QED BY <1>0, <2>2, <3>1, CandadoAjeno
  <2> QED BY <2>1, <2>2
<1> QED BY <1>2 DEF ColaConCandado

\* A step of t writes no row but the one it is free to write.
LEMMA EscribioPaso ==
  ASSUME ColaInv, limite # SinLimite, NEW t \in Txs, Paso(t)
  PROVE  /\ SoloCambia(t)
         /\ \A p \in Pedidos : Escribio(t, p)' => Escribio(t, p) \/ FilaLibre(t, p)
<1>0. TypeOK
  BY DEF ColaInv
<1> USE DEF Queda, Avanza, Escribio
<1>1. ASSUME NEW p \in Pedidos, ConfirmarPago(t, p)
      PROVE  /\ SoloCambia(t)
             /\ \A q \in Pedidos : Escribio(t, q)' => FilaLibre(t, q)
  BY <1>0, <1>1, ConfirmarPagoTx DEF ConfirmarPago
<1>2. ASSUME NEW p \in Pedidos, TransicionarLee(t, p)
      PROVE  /\ SoloCambia(t)
             /\ \A q \in Pedidos : ~Escribio(t, q)'
  BY <1>0, <1>2, TransicionarLeeTx
<1>3. ASSUME NEW l \in Limites, CambiarLimite(t, l)
      PROVE  /\ SoloCambia(t)
             /\ \A q \in Pedidos : ~Escribio(t, q)'
  BY <1>0, <1>3, CambiarLimiteTx, CocinaAssumption
<1>4. CASE LeerLimite(t)
  BY <1>0, <1>4, LeerLimiteTx
<1>5. CASE BloquearCola(t)
  BY <1>0, <1>5, PasaTx DEF BloquearCola, Pasos
<1>6. CASE HayLugar(t)
  BY <1>0, <1>6, PasaTx DEF HayLugar, Pasos
<1>7. CASE Escribir(t)
  BY <1>0, <1>7, EscribirTx DEF Escribir
<1>8. CASE Elegir(t)
  BY <1>0, <1>8, ElegirTx
<1>9. CASE TerminaPaso(t)
  BY <1>0, <1>9, TerminaPasoTx
<1> QED
  BY <1>1, <1>2, <1>3, <1>4, <1>5, <1>6, <1>7, <1>8, <1>9, PasoCasos

\* A row is still written by one transaction at a time.
LEMMA FilaDeUnoPaso ==
  ASSUME ColaInv, limite # SinLimite, NEW t \in Txs, Paso(t)
  PROVE  FilaDeUno'
BY EscribioPaso DEF ColaInv, FilaDeUno, FilaLibre, SoloCambia, Escribio

-----------------------------------------------------------------------------
(* The orders *)

\* A step that writes orders is a commit.  It takes orders out of the queue and
\* gives one a new state, which it had written.
LEMMA EstadoPaso ==
  ASSUME ColaInv, limite # SinLimite, NEW t \in Txs, Paso(t),
         NEW p \in Pedidos, estado'[p] # estado[p]
  PROVE  /\ ConfirmarTx(t)
         /\ \/ /\ Escribio(t, p)
               /\ estado'[p] = tx[t].nuevo
            \/ /\ p \in tx[t].lista
               /\ estado[p] = "RECIBIDO"
               /\ estado'[p] = "EN_PREPARACION"
            \/ /\ p \in tx[t].lista
               /\ Escribio(t, p)
               /\ tx[t].nuevo = "RECIBIDO"
               /\ estado'[p] = "EN_PREPARACION"
<1>1. ConfirmarTx(t)
  BY PasoCasos
     DEF ConfirmarPago, TransicionarLee, CambiarLimite, LeerLimite, BloquearCola,
         HayLugar, Escribir, Elegir, TerminaPaso, CocinaLlena, Abortar
<1>2. estado'[p] = Confirmado(t)[p]
  BY <1>1 DEF ConfirmarTx
<1> QED
  BY <1>1, <1>2 DEF Confirmado, Vista

\* No order goes back to wait for its payment, nor to the queue.
LEMMA AvanzadosPaso ==
  ASSUME ColaInv, limite # SinLimite, NEW t \in Txs, Paso(t)
  PROVE  Avanzados'
<1> DEFINE Bien(nuevo, e) ==
      /\ nuevo = "RECIBIDO" <=> e = "PENDIENTE_PAGO"
      /\ nuevo \in {"LISTO_PARA_ENTREGAR", "ENTREGADO"} => e # "RECIBIDO"
<1>0. /\ TypeOK
      /\ \A o \in Txs : TxEnForma(o)
      /\ \A o \in Txs : tx[o].pedido \in Pedidos
           => Bien(tx[o].nuevo, estado[tx[o].pedido])
  BY DEF ColaInv, TxsEnForma, Avanzados
<1>1. ASSUME NEW o \in Txs \ {t}, tx'[o].pedido \in Pedidos
      PROVE  Bien(tx'[o].nuevo, estado'[tx'[o].pedido])
  <2>1. tx'[o] = tx[o] /\ tx[o].pedido \in Pedidos
    BY <1>1, EscribioPaso DEF SoloCambia
  <2> DEFINE p == tx[o].pedido
  <2>2. CASE estado'[p] = estado[p]
    BY <1>0, <2>1, <2>2
  <2>3. CASE estado'[p] # estado[p]
    <3>1. ~(tx[o].nuevo = "RECIBIDO" /\ Escribio(t, p))
      BY <1>0, <2>1, CocinaAssumption, SinTxTipo DEF TxEnForma, ColaInv, FilaDeUno, Escribio
    <3>2. Escribio(t, p) /\ tx[t].nuevo = "RECIBIDO" => tx[o].nuevo = "RECIBIDO"
      BY <1>0, <2>1 DEF Escribio
    <3>3. tx[t].nuevo # "PENDIENTE_PAGO"
      BY <1>0 DEF TxEnForma
    <3> QED BY <1>0, <2>1, <2>3, <3>1, <3>2, <3>3, EstadoPaso
  <2> QED BY <2>2, <2>3
<1>2. ASSUME tx'[t].pedido \in Pedidos
      PROVE  Bien(tx'[t].nuevo, estado'[tx'[t].pedido])
  <2> USE DEF Queda, Avanza
  <2>1. ASSUME NEW p \in Pedidos, ConfirmarPago(t, p)
        PROVE  Bien(tx'[t].nuevo, estado'[tx'[t].pedido])
    BY <1>0, <2>1, ConfirmarPagoTx DEF ConfirmarPago
  <2>2. ASSUME NEW p \in Pedidos, TransicionarLee(t, p)
        PROVE  Bien(tx'[t].nuevo, estado'[tx'[t].pedido])
    BY <1>0, <2>2, TransicionarLeeTx DEF TransicionarLee
  <2>3. ASSUME NEW l \in Limites, CambiarLimite(t, l) PROVE FALSE
    BY <1>0, <1>2, <2>3, CambiarLimiteTx, CocinaAssumption
  <2>4. CASE LeerLimite(t)
    BY ZenonT(60), <1>0, <1>2, <2>4, LeerLimiteTx DEF LeerLimite
  <2>5. CASE BloquearCola(t)
    BY <1>0, <1>2, <2>5, PasaTx DEF BloquearCola, Pasos
  <2>6. CASE HayLugar(t)
    <3>1. Pasa(t, "escribir") /\ "escribir" \in Pasos /\ estado' = estado
      BY <2>6 DEF HayLugar, Pasos
    <3> QED BY <1>0, <1>2, <3>1, PasaTx
  <2>7. CASE Escribir(t)
    <3>1. /\ tx'[t].pedido = tx[t].pedido /\ tx'[t].nuevo = tx[t].nuevo
          /\ estado' = estado
      BY <1>0, <2>7, EscribirTx DEF Escribir
    <3> QED BY <1>0, <1>2, <3>1
  <2>8. CASE Elegir(t)
    BY <1>0, <1>2, <2>8, ElegirTx DEF Elegir
  <2>9. CASE TerminaPaso(t)
    BY <1>0, <1>2, <2>9, TerminaPasoTx, CocinaAssumption
  <2> QED
    BY <2>1, <2>2, <2>3, <2>4, <2>5, <2>6, <2>7, <2>8, <2>9, PasoCasos
<1> QED BY <1>1, <1>2 DEF Avanzados

\* An order that has arrived stays so, but for the confirmation that aborts.
LEMMA LlegoPaso ==
  ASSUME ColaInv, limite # SinLimite, NEW t \in Txs, Paso(t),
         NEW p \in Pedidos, Llego(p),
         ~(Abortar(t) /\ Escribio(t, p) /\ tx[t].nuevo = "RECIBIDO")
  PROVE  Llego(p)'
<1>0. /\ TypeOK
      /\ TxEnForma(t)
      /\ tx[t].pedido \in Pedidos /\ tx[t].nuevo # "RECIBIDO"
           => estado[tx[t].pedido] # "PENDIENTE_PAGO"
  BY DEF ColaInv, TxsEnForma, Avanzados
<1>1. ASSUME estado[p] # "PENDIENTE_PAGO" PROVE estado'[p] # "PENDIENTE_PAGO"
  BY <1>0, <1>1, EstadoPaso DEF TxEnForma
<1>2. ASSUME NEW o \in Txs, Escribio(o, p) PROVE Llego(p)'
  <2>1. CASE o # t
    BY <1>2, <2>1, EscribioPaso DEF SoloCambia, Escribio, Llego
  <2>2. CASE o = t /\ TerminaPaso(t)
    <3>1. CASE CocinaLlena(t)
      BY <1>2, <2>2, <3>1 DEF CocinaLlena, Escribio
    <3>2. CASE ConfirmarTx(t)
      <4>1. estado'[p] = Confirmado(t)[p]
        BY <3>2 DEF ConfirmarTx
      <4> QED BY <1>0, <1>2, <2>2, <4>1 DEF Confirmado, Vista, TxEnForma, Llego
    <3>3. CASE Abortar(t)
      BY <1>0, <1>1, <1>2, <2>2, <3>3 DEF Escribio, Llego
    <3> QED BY <2>2, <3>1, <3>2, <3>3 DEF TerminaPaso
  <2>3. CASE o = t /\ ~TerminaPaso(t)
    <3> USE DEF Queda, Avanza, Escribio
    <3>1. tx[t].paso # "libre" /\ tx[t].escrito /\ tx[t].pedido = p
      BY <1>0, <1>2, <2>3, SinTxTipo DEF TxEnForma
    <3>2. Escribio(t, p)'
      <4>1. CASE LeerLimite(t)
        BY <1>0, <3>1, <4>1, LeerLimiteTx
      <4>2. CASE BloquearCola(t)
        BY <1>0, <3>1, <4>2, PasaTx DEF BloquearCola, Pasos
      <4>3. CASE HayLugar(t)
        BY <1>0, <3>1, <4>3 DEF HayLugar
      <4>4. CASE Escribir(t)
        BY <1>0, <3>1, <4>4, EscribirTx
      <4>5. CASE Elegir(t)
        BY <1>0, <3>1, <4>5, ElegirTx
      <4> QED
        BY <2>3, <3>1, <4>1, <4>2, <4>3, <4>4, <4>5, PasoCasos
           DEF ConfirmarPago, TransicionarLee, CambiarLimite
    <3> QED BY <3>2 DEF Llego
  <2> QED BY <2>1, <2>2, <2>3
<1> QED BY <1>1, <1>2 DEF Llego

\* The order of arrival has no order that did not arrive.
LEMMA AntesLlegaronPaso ==
  ASSUME ColaInv, limite # SinLimite, NEW t \in Txs, Paso(t)
  PROVE  AntesLlegaron'
<1>0. TypeOK /\ AntesLlegaron
  BY DEF ColaInv
<1>1. ASSUME NEW p \in Pedidos, ConfirmarPago(t, p) PROVE AntesLlegaron'
  <2>1. Llego(p)'
    BY <1>0, <1>1, ConfirmarPagoTx DEF Queda, Llego, Escribio
  <2>2. ~Abortar(t)
    BY <1>0, <1>1, ConfirmarPagoTx, TerminaPasoTx DEF Queda, TerminaPaso
  <2>3. \A q \in Pedidos : Llego(q) => Llego(q)'
    BY <2>2, LlegoPaso
  <2>4. antes' = antes \cup {<<q, p>> : q \in {q \in Pedidos : Llego(q)}}
    BY <1>1 DEF ConfirmarPago
  <2> QED BY <1>0, <2>1, <2>3, <2>4 DEF AntesLlegaron
<1>2. CASE Abortar(t)
  <2>1. ASSUME NEW p \in Pedidos, NEW q \in Pedidos, <<p, q>> \in antes'
        PROVE  /\ <<p, q>> \in antes
               /\ ~(Escribio(t, p) /\ tx[t].nuevo = "RECIBIDO")
               /\ ~(Escribio(t, q) /\ tx[t].nuevo = "RECIBIDO")
    BY <1>2, <2>1 DEF Abortar, AntesSin, Escribio
  <2> QED BY <1>0, <2>1, LlegoPaso DEF AntesLlegaron
<1>3. CASE ~Abortar(t) /\ \A p \in Pedidos : ~ConfirmarPago(t, p)
  <2>1. antes' = antes
    BY <1>3, PasoCasos
       DEF TransicionarLee, CambiarLimite, LeerLimite, BloquearCola, HayLugar,
           Escribir, Elegir, TerminaPaso, CocinaLlena, ConfirmarTx
  <2> QED BY <1>0, <1>3, <2>1, LlegoPaso DEF AntesLlegaron
<1> QED BY <1>1, <1>2, <1>3

-----------------------------------------------------------------------------
(* The chosen orders *)

\* While o holds the lock, what another transaction commits takes nothing out
\* of the queue and puts nothing in it, nor in preparation.
LEMMA ColaQuieta ==
  ASSUME ColaInv, limite # SinLimite, NEW t \in Txs, Paso(t),
         NEW o \in Txs \ {t}, candado = o,
         NEW p \in Pedidos, estado'[p] # estado[p]
  PROVE  /\ estado[p] \notin {"PENDIENTE_PAGO", "RECIBIDO"}
         /\ estado'[p] \in {"LISTO_PARA_ENTREGAR", "ENTREGADO"}
<1>1. ~MueveLaCola(t)
  BY DEF ColaInv, ColaConCandado
<1>2. ConfirmarTx(t) /\ tx[t].lista = {} /\ tx[t].paso = "confirmar"
  BY <1>1, EstadoPaso
     DEF MueveLaCola, ColaInv, TxsEnForma, TxEnForma, ConfirmarTx
<1>3. Escribio(t, p) /\ estado'[p] = tx[t].nuevo
  BY <1>2, EstadoPaso
<1>4. tx[t].pedido = p /\ tx[t].nuevo \in {"LISTO_PARA_ENTREGAR", "ENTREGADO"}
  BY <1>1, <1>2, <1>3
     DEF Escribio, MueveLaCola, ColaInv, TxsEnForma, TxEnForma, TypeOK, Tx, Estado
<1> QED BY <1>3, <1>4 DEF ColaInv, Avanzados

\* So it still sees the queue as it was, and no more orders in preparation.
LEMMA VistaQuieta ==
  ASSUME ColaInv, limite # SinLimite, NEW t \in Txs, Paso(t),
         NEW o \in Txs \ {t}, candado = o, NEW p \in Pedidos
  PROVE  /\ Vista(o)'[p] = "RECIBIDO" <=> Vista(o)[p] = "RECIBIDO"
         /\ Vista(o)'[p] = "EN_PREPARACION" => Vista(o)[p] = "EN_PREPARACION"
<1>1. tx'[o] = tx[o]
  BY EscribioPaso DEF SoloCambia
<1>2. CASE estado'[p] = estado[p]
  BY <1>1, <1>2 DEF Vista, Escribio
<1>3. CASE estado'[p] # estado[p]
  BY <1>1, <1>3, ColaQuieta DEF Vista, Escribio
<1> QED BY <1>2, <1>3

\* A list of chosen orders is the one of another transaction, as it was, or the
\* one that t has just chosen.
LEMMA ListaPaso ==
  ASSUME ColaInv, limite # SinLimite, NEW t \in Txs, Paso(t),
         NEW o \in Txs, tx'[o].lista # {}
  PROVE  \/ o # t /\ tx'[o] = tx[o] /\ candado = o
         \/ /\ o = t
            /\ Elegir(t)
            /\ Vista(t)' = Vista(t)
            /\ tx'[t].lista \in LosPrimeros(EnEspera(Vista(t)), Libres(t))
            /\ tx'[t].lista \subseteq EnEspera(Vista(t))
<1>0. TypeOK /\ TxEnForma(t)
  BY DEF ColaInv, TxsEnForma
<1>1. CASE o # t
  <2>1. tx'[o] = tx[o]
    BY <1>1, EscribioPaso DEF SoloCambia
  <2> QED
    BY <1>1, <2>1 DEF ColaInv, TxsEnForma, TxEnForma, ColaConCandado, MueveLaCola
<1>2. CASE o = t /\ ~Elegir(t)
  <2> USE DEF Queda, Avanza
  <2>1. ~ \E p \in Pedidos : ConfirmarPago(t, p)
    BY <1>0, <1>2, ConfirmarPagoTx
  <2>2. ~ \E p \in Pedidos : TransicionarLee(t, p)
    BY <1>0, <1>2, TransicionarLeeTx
  <2>3. ~ \E l \in Limites : CambiarLimite(t, l)
    BY <1>0, <1>2, CambiarLimiteTx
  <2>4. ~LeerLimite(t)
    BY <1>0, <1>2, LeerLimiteTx DEF LeerLimite, TxEnForma
  <2>5. ~BloquearCola(t)
    BY <1>0, <1>2, PasaTx DEF BloquearCola, Pasos, TxEnForma
  <2>6. ~HayLugar(t)
    BY <1>0, <1>2, PasaTx DEF HayLugar, Pasos, TxEnForma
  <2>7. ~Escribir(t)
    BY <1>0, <1>2, EscribirTx DEF Escribir, TxEnForma
  <2>8. ~TerminaPaso(t)
    BY <1>0, <1>2, TerminaPasoTx
  <2> QED
    BY <1>2, <2>1, <2>2, <2>3, <2>4, <2>5, <2>6, <2>7, <2>8, PasoCasos
<1>3. CASE o = t /\ Elegir(t)
  <2>1. Vista(t)' = Vista(t)
    BY <1>0, <1>3, ElegirTx DEF Elegir, Avanza, Queda, Vista, Escribio
  <2> QED BY <1>0, <1>3, <2>1, ElegirTx DEF Avanza, Queda
<1> QED BY <1>1, <1>2, <1>3

\* The chosen orders still wait.
LEMMA ElegidosEnEsperaPaso ==
  ASSUME ColaInv, limite # SinLimite, NEW t \in Txs, Paso(t)
  PROVE  ElegidosEnEspera'
<1>1. SUFFICES ASSUME NEW o \in Txs, NEW p \in tx'[o].lista
               PROVE  Vista(o)'[p] = "RECIBIDO"
  BY DEF ElegidosEnEspera
<1>2. CASE o # t /\ tx'[o] = tx[o] /\ candado = o
  <2>1. p \in Pedidos /\ Vista(o)[p] = "RECIBIDO"
    BY <1>2 DEF ColaInv, ElegidosEnEspera, TypeOK, Tx
  <2> QED BY <1>2, <2>1, VistaQuieta
<1>3. CASE o = t /\ Vista(t)' = Vista(t)
           /\ tx'[t].lista \subseteq EnEspera(Vista(t))
  BY <1>3 DEF EnEspera
<1> QED BY <1>2, <1>3, ListaPaso

\* The chosen orders are still the first ones.
LEMMA ElegidosSonPrimerosPaso ==
  ASSUME ColaInv, limite # SinLimite, NEW t \in Txs, Paso(t)
  PROVE  ElegidosSonPrimeros'
<1>0. TypeOK
  BY DEF ColaInv
<1>1. SUFFICES ASSUME NEW o \in Txs, NEW p \in tx'[o].lista, NEW q \in Pedidos,
                      <<q, p>> \in antes', Vista(o)'[q] = "RECIBIDO"
               PROVE  q \in tx'[o].lista
  BY DEF ElegidosSonPrimeros
<1>2. CASE o # t /\ tx'[o] = tx[o] /\ candado = o
  <2>1. p \in Pedidos /\ Vista(o)[p] = "RECIBIDO"
    BY <1>2 DEF ColaInv, ElegidosEnEspera, TypeOK, Tx
  <2>2. Llego(p)
    BY <2>1 DEF Vista, Llego
  <2>3. <<q, p>> \in antes
    <3>1. CASE \E r \in Pedidos : ConfirmarPago(t, r)
      <4>1. PICK r \in Pedidos : ConfirmarPago(t, r)
        BY <3>1
      <4>2. estado[r] = "PENDIENTE_PAGO" /\ \A x \in Txs \ {t} : ~Escribio(x, r)
        BY <4>1 DEF ConfirmarPago, FilaLibre
      <4>3. ~Escribio(t, r)
        BY <4>1, SinTxTipo
           DEF ConfirmarPago, ColaInv, TxsEnForma, TxEnForma, Escribio
      <4>4. p # r
        BY <2>2, <4>2, <4>3 DEF Llego
      <4> QED BY <1>1, <4>1, <4>4 DEF ConfirmarPago
    <3>2. CASE ~ \E r \in Pedidos : ConfirmarPago(t, r)
      BY <1>1, <3>2, PasoCasos
         DEF TransicionarLee, CambiarLimite, LeerLimite, BloquearCola, HayLugar,
             Escribir, Elegir, TerminaPaso, CocinaLlena, ConfirmarTx, Abortar,
             AntesSin
    <3> QED BY <3>1, <3>2
  <2>4. Vista(o)[q] = "RECIBIDO"
    BY <1>1, <1>2, VistaQuieta
  <2> QED BY <1>2, <2>3, <2>4 DEF ColaInv, ElegidosSonPrimeros
<1>3. CASE /\ o = t
           /\ Elegir(t)
           /\ Vista(t)' = Vista(t)
           /\ tx'[t].lista \in LosPrimeros(EnEspera(Vista(t)), Libres(t))
  <2>1. antes' = antes
    BY <1>3 DEF Elegir
  <2>2. q \in EnEspera(Vista(t)) /\ p \in Pedidos
    BY <1>0, <1>1, <1>3, VistaTipo DEF EnEspera, LosPrimeros, Tomados
  <2>3. q \notin tx'[t].lista => <<p, q>> \in antes
    BY <1>3, <2>2 DEF LosPrimeros
  <2> QED BY <1>0, <1>1, <1>3, <2>1, <2>2, <2>3 DEF TypeOK
<1> QED BY <1>2, <1>3, ListaPaso

-----------------------------------------------------------------------------
(* The queue *)

\* While the queue is on, nothing undoes ColaInv.
LEMMA ColaInvPaso ==
  ASSUME ColaInv, limite # SinLimite, [Next]_vars
  PROVE  ColaInv'
<1>1. CASE Next
  <2>1. PICK t \in Txs : Paso(t)
    BY <1>1 DEF Next, Paso
  <2> QED
    BY <2>1, TypeOKPaso, TxsEnFormaPaso, ColaConCandadoPaso, FilaDeUnoPaso,
       AvanzadosPaso, AntesLlegaronPaso, ElegidosEnEsperaPaso,
       ElegidosSonPrimerosPaso
    DEF ColaInv
<1>2. CASE UNCHANGED vars
  BY <1>2
     DEF ColaInv, TypeOK, TxsEnForma, TxEnForma, EsCambioDeLimite, ColaConCandado,
         MueveLaCola, FilaDeUno, Escribio, Avanzados, AntesLlegaron, Llego,
         ElegidosEnEspera, ElegidosSonPrimeros, Vista, vars
<1> QED BY <1>1, <1>2

\* Before the first order there is nothing to break.
LEMMA ColaInvInit == Init => ColaInv
<1> SUFFICES ASSUME Init PROVE ColaInv
  OBVIOUS
<1>1. TypeOK
  BY SinTxTipo, CocinaAssumption DEF Init, TypeOK, Estado
<1> QED
  BY <1>1, SinTxTipo, CocinaAssumption
     DEF Init, ColaInv, TxsEnForma, TxEnForma, EsCambioDeLimite, ColaConCandado,
         MueveLaCola, FilaDeUno, Escribio, Avanzados, AntesLlegaron,
         ElegidosEnEspera, ElegidosSonPrimeros

-----------------------------------------------------------------------------
(* The places of the kitchen *)

\* Sets of orders are finite, so fewer orders are no more.
LEMMA MenosPedidos ==
  ASSUME NEW S \in SUBSET Pedidos, NEW T \in SUBSET Pedidos
  PROVE  /\ Cardinality(S) \in Nat
         /\ S \subseteq T => Cardinality(S) <= Cardinality(T)
         /\ Cardinality(S \cup T) <= Cardinality(S) + Cardinality(T)
<1>1. IsFiniteSet(S) /\ IsFiniteSet(T) /\ IsFiniteSet(S \cap T)
  BY CocinaAssumption, FS_Subset
<1>2. /\ Cardinality(S) \in Nat /\ Cardinality(T) \in Nat
      /\ Cardinality(S \cap T) \in Nat
  BY <1>1, FS_CardinalityType
<1>3. Cardinality(S \cup T)
        = Cardinality(S) + Cardinality(T) - Cardinality(S \cap T)
  BY <1>1, FS_Union
<1>4. S \subseteq T => Cardinality(S) <= Cardinality(T)
  BY <1>1, FS_Subset
<1> QED BY <1>2, <1>3, <1>4

\* What t may leave in preparation are orders.
LEMMA OcuparaTipo ==
  ASSUME TypeOK, NEW t \in Txs
  PROVE  Ocupara(t) \in SUBSET Pedidos /\ EnPreparacion(Vista(t)) \in SUBSET Pedidos
BY DEF TypeOK, Ocupara, EnPreparacion, Tx

\* Room for one, and room for the chosen ones.
LEMMA HayLugarCabe ==
  ASSUME IInv, NEW t \in Txs, HayLugar(t)
  PROVE  Cardinality(Ocupara(t)') <= tx'[t].limite
<1>0. TypeOK /\ TxEnForma(t)
  BY DEF IInv, ColaInv, TxsEnForma
<1>1. /\ Queda(t, "escribir", tx[t].pedido, "EN_PREPARACION", FALSE, {})
      /\ tx'[t].limite = tx[t].limite
      /\ estado' = estado
  <2>1. /\ Pasa(t, "escribir") /\ "escribir" \in Pasos /\ estado' = estado
        /\ tx[t].paso = "contar" /\ ~tx[t].escrito
    BY DEF HayLugar, Pasos
  <2>2. tx[t].nuevo = "EN_PREPARACION" /\ tx[t].lista = {}
    BY <1>0, <2>1 DEF TxEnForma
  <2> QED BY <1>0, <2>1, <2>2, PasaTx DEF Avanza, Queda
<1> DEFINE Uno == {p \in Pedidos : p = tx[t].pedido}
           Los == EnPreparacion(estado)
<1>2. Ocupara(t)' = Los \cup Uno
  <2>1. Vista(t)' = [p \in Pedidos |-> estado[p]]
    BY <1>1 DEF Queda, Vista, Escribio
  <2>2. EnPreparacion(Vista(t))' = Los
    BY <2>1 DEF EnPreparacion
  <2>3. Ocupara(t)' = EnPreparacion(Vista(t))' \cup tx'[t].lista
          \cup {p \in Pedidos : p = tx'[t].pedido /\ tx'[t].nuevo = "EN_PREPARACION"}
    BY DEF Ocupara
  <2> QED BY <1>1, <2>2, <2>3 DEF Queda
<1>3. Cardinality(Uno) <= 1
  <2>1. Uno = {} \/ Uno = {tx[t].pedido}
    OBVIOUS
  <2>2. Cardinality({}) = 0 /\ Cardinality({tx[t].pedido}) = 1
    BY FS_EmptySet, FS_Singleton
  <2> QED BY <2>1, <2>2
<1>4. Cardinality(Los) < tx[t].limite /\ tx[t].limite \in Nat
  BY <1>0 DEF HayLugar, TypeOK, Tx
<1>5. /\ Cardinality(Los) \in Nat /\ Cardinality(Uno) \in Nat
      /\ Cardinality(Los \cup Uno) \in Nat
      /\ Cardinality(Los \cup Uno) <= Cardinality(Los) + Cardinality(Uno)
  <2>1. /\ Los \in SUBSET Pedidos /\ Uno \in SUBSET Pedidos
        /\ Los \cup Uno \in SUBSET Pedidos
    BY DEF EnPreparacion
  <2> QED BY <2>1, MenosPedidos
<1> QED BY <1>1, <1>2, <1>3, <1>4, <1>5

\* The chosen orders are no more than the places that t saw free.
LEMMA ElegirCabe ==
  ASSUME IInv, NEW t \in Txs, Elegir(t), Agrega(t)'
  PROVE  Cardinality(Ocupara(t)') <= tx'[t].limite
<1>0. TypeOK /\ TxEnForma(t)
  BY DEF IInv, ColaInv, TxsEnForma
<1>1. tx[t].escrito /\ tx[t].nuevo # "EN_PREPARACION"
  BY <1>0 DEF Elegir, TxEnForma
<1>2. PICK es \in LosPrimeros(EnEspera(Vista(t)), Libres(t)) :
        /\ es \subseteq EnEspera(Vista(t))
        /\ es # {} /\ Avanza(t, "promover", tx[t].escrito, es)
        /\ tx'[t].limite = tx[t].limite
  BY <1>0, <1>1, ElegirTx DEF Agrega, Avanza, Queda
<1> DEFINE Los == EnPreparacion(Vista(t))
           Esp == EnEspera(Vista(t))
<1>3. /\ Los \in SUBSET Pedidos /\ es \in SUBSET Pedidos
      /\ Los \cup es \in SUBSET Pedidos /\ Esp \in SUBSET Pedidos
  BY <1>2 DEF EnPreparacion, EnEspera
<1>4. Ocupara(t)' = Los \cup es
  <2>1. Vista(t)' = Vista(t)
    BY <1>2 DEF Elegir, Avanza, Queda, Vista, Escribio
  <2>2. EnPreparacion(Vista(t))' = Los
    BY <2>1 DEF EnPreparacion
  <2>3. Ocupara(t)' = EnPreparacion(Vista(t))' \cup tx'[t].lista
          \cup {p \in Pedidos : p = tx'[t].pedido /\ tx'[t].nuevo = "EN_PREPARACION"}
    BY DEF Ocupara
  <2>4. tx'[t].lista = es /\ tx'[t].nuevo # "EN_PREPARACION"
    BY <1>1, <1>2 DEF Avanza, Queda
  <2> QED BY <2>2, <2>3, <2>4
<1>5. /\ Cardinality(Los) \in Nat /\ Cardinality(es) \in Nat
      /\ Cardinality(Los \cup es) \in Nat /\ Cardinality(Esp) \in Nat
      /\ Cardinality(Los \cup es) <= Cardinality(Los) + Cardinality(es)
  BY <1>3, MenosPedidos
<1>6. tx[t].limite \in Nat /\ Libres(t) \in Nat
  BY <1>0, <1>5 DEF TypeOK, Tx, Libres
<1>7. Cardinality(es) <= Libres(t)
  <2>1. Cardinality(es) = IF Cardinality(Esp) < Libres(t) THEN Cardinality(Esp)
                                                          ELSE Libres(t)
    BY <1>2 DEF LosPrimeros, Tomados
  <2> QED BY <1>5, <1>6, <2>1
<1>8. Cardinality(es) # 0
  <2>1. IsFiniteSet(es)
    BY <1>3, CocinaAssumption, FS_Subset
  <2> QED BY <1>2, <2>1, FS_EmptySet
<1>9. Cardinality(Los) + Cardinality(es) <= tx[t].limite
  BY <1>5, <1>6, <1>7, <1>8 DEF Libres
<1> QED BY <1>2, <1>4, <1>5, <1>6, <1>9

\* The places that were counted are still there: nobody else fills them.
LEMMA LugarReservadoPaso ==
  ASSUME IInv, NEW t \in Txs, Paso(t)
  PROVE  LugarReservado'
<1>0. /\ TypeOK /\ ColaInv /\ limite # SinLimite /\ TxEnForma(t)
      /\ \A o \in Txs : tx[o].limite \in Nat
  BY DEF IInv, ColaInv, TxsEnForma, TypeOK, Tx
<1>1. TypeOK'
  BY <1>0, TypeOKPaso
<1>2. ASSUME NEW o \in Txs \ {t}, Agrega(o)'
      PROVE  Cardinality(Ocupara(o)') <= tx'[o].limite
  <2>1. tx'[o] = tx[o]
    BY <1>0, EscribioPaso DEF SoloCambia
  <2>2. Agrega(o)
    BY <1>2, <2>1 DEF Agrega
  <2>3. candado = o
    BY <1>0, <2>2 DEF Agrega, MueveLaCola, ColaInv, ColaConCandado
  <2>4. EnPreparacion(Vista(o))' \subseteq EnPreparacion(Vista(o))
    BY <1>0, <2>3, VistaQuieta DEF EnPreparacion
  <2>5. Ocupara(o)' \subseteq Ocupara(o)
    BY <2>1, <2>4 DEF Ocupara
  <2>6. /\ Cardinality(Ocupara(o)') <= Cardinality(Ocupara(o))
        /\ Cardinality(Ocupara(o)') \in Nat /\ Cardinality(Ocupara(o)) \in Nat
    <3>1. Ocupara(o) \in SUBSET Pedidos /\ Ocupara(o)' \in SUBSET Pedidos
      BY <1>0, <2>5, OcuparaTipo
    <3> QED BY <2>5, <3>1, MenosPedidos
  <2>7. Cardinality(Ocupara(o)) <= tx[o].limite
    BY <2>2 DEF IInv, LugarReservado
  <2> QED BY <1>0, <2>1, <2>6, <2>7
<1>3. ASSUME Agrega(t)' PROVE Cardinality(Ocupara(t)') <= tx'[t].limite
  <2> USE DEF Queda, Avanza
  <2>1. ASSUME NEW p \in Pedidos, ConfirmarPago(t, p) PROVE FALSE
    BY <1>0, <1>3, <2>1, ConfirmarPagoTx DEF Agrega
  <2>2. ASSUME NEW p \in Pedidos, TransicionarLee(t, p) PROVE FALSE
    BY <1>0, <1>3, <2>2, TransicionarLeeTx DEF Agrega
  <2>3. ASSUME NEW l \in Limites, CambiarLimite(t, l) PROVE FALSE
    BY <1>0, <1>3, <2>3, CambiarLimiteTx DEF Agrega
  <2>4. ASSUME LeerLimite(t) PROVE FALSE
    BY <1>0, <1>3, <2>4, LeerLimiteTx DEF Agrega
  <2>5. ASSUME BloquearCola(t) PROVE FALSE
    BY <1>0, <1>3, <2>5, PasaTx DEF BloquearCola, Pasos, Agrega
  <2>6. CASE HayLugar(t)
    BY <2>6, HayLugarCabe
  <2>7. CASE Escribir(t)
    <3>1. /\ tx[t].paso = "escribir" /\ tx[t].nuevo = "EN_PREPARACION"
          /\ tx'[t].pedido = tx[t].pedido /\ tx'[t].nuevo = tx[t].nuevo
          /\ tx'[t].lista = tx[t].lista /\ tx'[t].limite = tx[t].limite
          /\ estado' = estado
      BY <1>0, <1>3, <2>7, EscribirTx DEF Escribir, Agrega
    <3>2. \A p \in Pedidos : Vista(t)'[p] = "EN_PREPARACION"
            => Vista(t)[p] = "EN_PREPARACION" \/ p = tx[t].pedido
      BY <1>0, <2>7, <3>1 DEF Vista, Escribio, TxEnForma
    <3>3. Ocupara(t)' \subseteq Ocupara(t)
      BY <3>1, <3>2 DEF Ocupara, EnPreparacion
    <3>4. Cardinality(Ocupara(t)) <= tx[t].limite
      BY <3>1 DEF IInv, LugarReservado, Agrega
    <3>5. /\ Cardinality(Ocupara(t)') <= Cardinality(Ocupara(t))
          /\ Cardinality(Ocupara(t)') \in Nat /\ Cardinality(Ocupara(t)) \in Nat
      <4>1. Ocupara(t) \in SUBSET Pedidos /\ Ocupara(t)' \in SUBSET Pedidos
        BY <1>0, <3>3, OcuparaTipo
      <4> QED BY <3>3, <4>1, MenosPedidos
    <3> QED BY <1>0, <3>1, <3>4, <3>5
  <2>8. CASE Elegir(t)
    BY <1>3, <2>8, ElegirCabe
  <2>9. ASSUME TerminaPaso(t) PROVE FALSE
    BY <1>0, <1>3, <2>9, TerminaPasoTx DEF Agrega
  <2> QED
    BY <2>1, <2>2, <2>3, <2>4, <2>5, <2>6, <2>7, <2>8, <2>9, PasoCasos
<1> QED BY <1>2, <1>3 DEF LugarReservado

\* A commit never leaves more orders in preparation than the limit.
LEMMA BajoLimitePaso ==
  ASSUME IInv, NEW t \in Txs, Paso(t), limite' >= limite
  PROVE  CocinaBajoLimite'
<1>0. /\ TypeOK /\ ColaInv /\ limite # SinLimite /\ TxEnForma(t)
      /\ tx[t].limite \in Nat /\ limite \in Nat
      /\ tx[t].pedido \in Pedidos \cup {Ninguno}
      /\ Cardinality(EnPreparacion(estado)) <= limite
      /\ tx[t].pedido \in Pedidos => tx[t].limite <= limite
      /\ Agrega(t) => Cardinality(Ocupara(t)) <= tx[t].limite
  BY DEF IInv, ColaInv, TxsEnForma, TypeOK, Tx, CocinaBajoLimite, LimiteLeido,
         LugarReservado
<1>1. TypeOK'
  BY <1>0, TypeOKPaso
<1>2. limite' \in Nat /\ EnPreparacion(estado) \in SUBSET Pedidos
      /\ EnPreparacion(estado)' \in SUBSET Pedidos
  BY <1>1 DEF TypeOK, EnPreparacion
<1>3. CASE ConfirmarTx(t) /\ Agrega(t)
  <2>1. EnPreparacion(estado)' \subseteq Ocupara(t)
    <3>1. \A p \in Pedidos : estado'[p] = "EN_PREPARACION"
            => p \in tx[t].lista \/ Vista(t)[p] = "EN_PREPARACION"
      BY <1>3 DEF ConfirmarTx, Confirmado
    <3> QED BY <3>1 DEF EnPreparacion, Ocupara
  <2>2. tx[t].limite <= limite'
    BY <1>0, <1>2, <1>3 DEF ConfirmarTx, EsCambioDeLimite
  <2>3. /\ Cardinality(EnPreparacion(estado)') \in Nat
        /\ Cardinality(Ocupara(t)) \in Nat
        /\ Cardinality(EnPreparacion(estado)') <= Cardinality(Ocupara(t))
    BY <1>0, <1>2, <2>1, OcuparaTipo, MenosPedidos
  <2> QED BY <1>0, <1>2, <1>3, <2>2, <2>3 DEF CocinaBajoLimite
<1>4. CASE ~(ConfirmarTx(t) /\ Agrega(t))
  <2>1. EnPreparacion(estado)' \subseteq EnPreparacion(estado)
    <3>1. ASSUME NEW p \in Pedidos, estado'[p] = "EN_PREPARACION",
                 estado[p] # "EN_PREPARACION"
          PROVE  FALSE
      <4>1. ConfirmarTx(t) /\ tx[t].paso # "promover"
        BY <1>0, <1>4, <3>1, EstadoPaso DEF Agrega
      <4>2. tx[t].lista = {} /\ tx[t].paso = "confirmar"
        BY <1>0, <4>1 DEF TxEnForma, ConfirmarTx
      <4>3. tx[t].nuevo = "EN_PREPARACION"
        BY <1>0, <3>1, <4>2, EstadoPaso
      <4> QED BY <1>4, <4>1, <4>2, <4>3 DEF Agrega
    <3> QED BY <3>1 DEF EnPreparacion
  <2>2. /\ Cardinality(EnPreparacion(estado)') \in Nat
        /\ Cardinality(EnPreparacion(estado)) \in Nat
        /\ Cardinality(EnPreparacion(estado)') <= Cardinality(EnPreparacion(estado))
    BY <1>2, <2>1, MenosPedidos
  <2> QED BY <1>0, <1>2, <2>2 DEF CocinaBajoLimite
<1> QED BY <1>3, <1>4

\* A limit that was read is only passed by the one in force.
LEMMA LimiteLeidoPaso ==
  ASSUME IInv, NEW t \in Txs, Paso(t), limite' >= limite
  PROVE  LimiteLeido'
<1>0. /\ TypeOK /\ ColaInv /\ limite # SinLimite
      /\ limite \in Nat /\ \A o \in Txs : tx[o].limite \in Nat
      /\ \A o \in Txs : tx[o].pedido \in Pedidos => tx[o].limite <= limite
  BY DEF IInv, ColaInv, TypeOK, Tx, LimiteLeido
<1>1. limite' \in Nat
  BY <1>0, TypeOKPaso DEF TypeOK
<1>2. ASSUME NEW o \in Txs \ {t}, tx'[o].pedido \in Pedidos
      PROVE  tx'[o].limite <= limite'
  <2>1. tx'[o] = tx[o]
    BY <1>0, EscribioPaso DEF SoloCambia
  <2> QED BY <1>0, <1>1, <1>2, <2>1
<1>3. ASSUME tx'[t].pedido \in Pedidos PROVE tx'[t].limite <= limite'
  <2> USE DEF Queda, Avanza
  <2>1. ASSUME NEW p \in Pedidos, ConfirmarPago(t, p)
        PROVE  tx'[t].limite = 0
    BY <1>0, <2>1, ConfirmarPagoTx
  <2>2. ASSUME NEW p \in Pedidos, TransicionarLee(t, p)
        PROVE  tx'[t].limite = 0
    BY <1>0, <2>2, TransicionarLeeTx
  <2>3. ASSUME NEW l \in Limites, CambiarLimite(t, l) PROVE FALSE
    BY <1>0, <1>3, <2>3, CambiarLimiteTx, CocinaAssumption
  <2>4. ASSUME LeerLimite(t) PROVE tx'[t].limite = limite
    BY <1>0, <2>4, LeerLimiteTx
  <2>5. ASSUME BloquearCola(t) \/ HayLugar(t) \/ Escribir(t) \/ Elegir(t)
        PROVE  tx'[t].limite = tx[t].limite /\ tx'[t].pedido = tx[t].pedido
    <3>1. CASE BloquearCola(t)
      BY <1>0, <3>1, PasaTx DEF BloquearCola, Pasos
    <3>2. CASE HayLugar(t)
      BY <1>0, <3>2, PasaTx DEF HayLugar, Pasos
    <3>3. CASE Escribir(t)
      BY <1>0, <3>3, EscribirTx
    <3>4. CASE Elegir(t)
      BY <1>0, <3>4, ElegirTx
    <3> QED BY <2>5, <3>1, <3>2, <3>3, <3>4
  <2>6. ASSUME TerminaPaso(t) PROVE FALSE
    BY <1>0, <1>3, <2>6, TerminaPasoTx, CocinaAssumption
  <2>7. \/ tx'[t].limite = 0
        \/ tx'[t].limite = limite
        \/ /\ tx'[t].limite = tx[t].limite
           /\ tx'[t].pedido = tx[t].pedido
    BY <2>1, <2>2, <2>3, <2>4, <2>5, <2>6, PasoCasos
  <2> QED BY <1>0, <1>1, <1>3, <2>7
<1> QED BY <1>2, <1>3 DEF LimiteLeido

\* While the limit is not lowered, nothing undoes IInv.
LEMMA IInvPaso ==
  ASSUME IInv, [Next]_vars, [limite' >= limite]_vars
  PROVE  IInv'
<1>1. ColaInv /\ limite # SinLimite /\ limite \in Nat
  BY DEF IInv, ColaInv, TypeOK
<1>2. ColaInv'
  BY <1>1, ColaInvPaso
<1>3. CASE Next /\ limite' >= limite
  <2>1. PICK t \in Txs : Paso(t)
    BY <1>3 DEF Next, Paso
  <2>2. limite' # SinLimite
    BY <1>1, <1>2, <1>3 DEF SinLimite, ColaInv, TypeOK
  <2> QED
    BY <1>2, <1>3, <2>1, <2>2, BajoLimitePaso, LugarReservadoPaso, LimiteLeidoPaso
    DEF IInv
<1>4. CASE UNCHANGED vars
  BY <1>1, <1>2, <1>4
     DEF IInv, CocinaBajoLimite, LugarReservado, LimiteLeido, Agrega, Ocupara,
         Vista, Escribio, EnPreparacion, SinLimite, vars
<1> QED BY <1>3, <1>4

\* An empty kitchen is under its limit.
LEMMA IInvInit == Init /\ LimiteInicial # SinLimite => IInv
<1> SUFFICES ASSUME Init, LimiteInicial # SinLimite PROVE IInv
  OBVIOUS
<1>1. ColaInv
  BY ColaInvInit
<1>2. EnPreparacion(estado) = {}
  BY DEF Init, EnPreparacion
<1>3. Cardinality(EnPreparacion(estado)) = 0
  BY <1>2, FS_EmptySet
<1>4. \A t \in Txs : ~Agrega(t) /\ tx[t].pedido \notin Pedidos
  BY SinTxTipo, CocinaAssumption DEF Init, Agrega
<1> QED
  BY <1>1, <1>3, <1>4, CocinaAssumption
     DEF IInv, Init, CocinaBajoLimite, LugarReservado, LimiteLeido

-----------------------------------------------------------------------------
(* Theorems *)

\* The administrator does not turn the queue off.
ColaActiva == [](limite # SinLimite)

\* The administrator does not lower the limit, nor turns the queue off.
LimiteSoloSube == LimiteInicial # SinLimite /\ [][limite' >= limite]_vars

\* While the queue is on, who moves it has its lock (bloquearColaDelTenant),
\* and what was chosen under it stays chosen.
THEOREM SpecColaInv == Spec /\ ColaActiva => []ColaInv
<1>1. Init => ColaInv
  BY ColaInvInit
<1>2. ColaInv /\ limite # SinLimite /\ [Next]_vars => ColaInv'
  BY ColaInvPaso
<1> QED BY <1>1, <1>2, PTL DEF Spec, ColaActiva

\* Type correctness of the kitchen queue: states, arrivals, limit and lock.
THEOREM TiposDeLaCola == Spec /\ ColaActiva => []TypeOK
<1>1. ColaInv => TypeOK
  BY DEF ColaInv
<1> QED BY <1>1, SpecColaInv, PTL

\* The orders completarCapacidad chose are still in the queue when it writes
\* them.
THEOREM ElegidosSiguenEnEspera == Spec /\ ColaActiva => []ElegidosEnEspera
<1>1. ColaInv => ElegidosEnEspera
  BY DEF ColaInv
<1> QED BY <1>1, SpecColaInv, PTL

\* completarCapacidad is first come, first served.
THEOREM ColaPorOrdenDeLlegada == Spec /\ ColaActiva => ColaJusta
<1> DEFINE Justa ==
      \A p, q \in Pedidos :
        /\ estado[p] = "RECIBIDO" /\ estado'[p] = "EN_PREPARACION"
        /\ \A t \in Txs : tx'[t] # tx[t] => ~AMano(t, p)
        /\ <<q, p>> \in antes /\ estado[q] = "RECIBIDO"
        => estado'[q] # "RECIBIDO"
<1>1. ASSUME ColaInv, limite # SinLimite, [Next]_vars PROVE [Justa]_vars
  <2>1. SUFFICES ASSUME NEW t \in Txs, Paso(t),
                        NEW p \in Pedidos, NEW q \in Pedidos,
                        estado[p] = "RECIBIDO", estado'[p] = "EN_PREPARACION",
                        tx'[t] # tx[t] => ~AMano(t, p),
                        <<q, p>> \in antes, estado[q] = "RECIBIDO"
                 PROVE  estado'[q] # "RECIBIDO"
    BY <1>1 DEF Next, Paso
  <2>2. TypeOK /\ TxEnForma(t) /\ ConfirmarTx(t)
    BY <1>1, <2>1, EstadoPaso DEF ColaInv, TxsEnForma
  <2>3. tx'[t] # tx[t]
    BY <2>2, TerminaPasoTx DEF TerminaPaso, Queda, ConfirmarTx
  <2>4. p \in tx[t].lista
    BY <1>1, <2>1, <2>3, EstadoPaso DEF AMano, Escribio
  <2>5. CASE Vista(t)[q] = "RECIBIDO"
    <3>1. q \in tx[t].lista
      BY <1>1, <2>1, <2>4, <2>5 DEF ColaInv, ElegidosSonPrimeros
    <3> QED BY <2>2, <2>5, <3>1 DEF ConfirmarTx, Confirmado
  <2>6. CASE Vista(t)[q] # "RECIBIDO"
    BY <2>2, <2>6 DEF ConfirmarTx, Confirmado
  <2> QED BY <2>5, <2>6
<1>2. ColaInv /\ limite # SinLimite /\ [Next]_vars => [Justa]_vars
  BY <1>1
<1>3. Spec /\ ColaActiva => [][Justa]_vars
  BY <1>2, SpecColaInv, PTL DEF Spec, ColaActiva
<1> QED BY <1>3 DEF ColaJusta

\* While the limit is only raised, the places that were counted under the lock
\* are free when they are taken.
THEOREM SpecIInv == Spec /\ LimiteSoloSube => []IInv
<1>1. Init /\ LimiteInicial # SinLimite => IInv
  BY IInvInit
<1>2. IInv /\ [Next]_vars /\ [limite' >= limite]_vars => IInv'
  BY IInvPaso
<1> QED BY <1>1, <1>2, PTL DEF Spec, LimiteSoloSube

\* The kitchen is never over its limit (completarCapacidad, transicionar).
THEOREM CocinaNoDesborda == Spec /\ LimiteSoloSube => []CocinaBajoLimite
<1>1. IInv => CocinaBajoLimite
  BY DEF IInv
<1> QED BY <1>1, SpecIInv, PTL

-----------------------------------------------------------------------------
(* Once in the queue, with the queue on or off *)

\* The order, what is written of it and whether it is already written.
Sobre(t, p, n, e) ==
  /\ tx' \in [Txs -> Tx]
  /\ \A o \in Txs \ {t} : tx'[o] = tx[o]
  /\ tx'[t].pedido = p /\ tx'[t].nuevo = n /\ (tx'[t].escrito <=> e)

\* A step that does not commit changes no order, and writes only rows that no
\* other transaction has written.
LEMMA SinConfirmar ==
  ASSUME PagadosInv, NEW t \in Txs, Paso(t), ~ConfirmarTx(t)
  PROVE  /\ UNCHANGED <<estado, limite>>
         /\ \/ \E p \in Pedidos :
                 /\ Sobre(t, p, "RECIBIDO", TRUE) /\ FilaLibre(t, p)
                 /\ estado[p] = "PENDIENTE_PAGO"
            \/ \E p \in Pedidos, n \in {"EN_PREPARACION", "LISTO_PARA_ENTREGAR", "ENTREGADO"} :
                 Sobre(t, p, n, FALSE) /\ estado[p] # "PENDIENTE_PAGO"
            \/ \E n \in Estado, e \in BOOLEAN : Sobre(t, Ninguno, n, e)
            \/ Sobre(t, tx[t].pedido, tx[t].nuevo, tx[t].escrito)
            \/ Sobre(t, tx[t].pedido, tx[t].nuevo, TRUE) /\ FilaLibre(t, tx[t].pedido)
<1>0. tx \in [Txs -> Tx] /\ limite \in Nat
  BY DEF PagadosInv
<1>1. ASSUME NEW p \in Pedidos, ConfirmarPago(t, p)
      PROVE  /\ UNCHANGED <<estado, limite>> /\ Sobre(t, p, "RECIBIDO", TRUE) /\ FilaLibre(t, p)
             /\ estado[p] = "PENDIENTE_PAGO"
  BY <1>0, <1>1 DEF ConfirmarPago, Sobre, UnaTx, Tx, Pasos, Estado, SinLimite
<1>2. ASSUME NEW p \in Pedidos, TransicionarLee(t, p)
      PROVE  /\ UNCHANGED <<estado, limite>> /\ estado[p] # "PENDIENTE_PAGO"
             /\ \E n \in {"EN_PREPARACION", "LISTO_PARA_ENTREGAR", "ENTREGADO"} :
                  Sobre(t, p, n, FALSE)
  <2>1. estado[p] \in {"RECIBIDO", "EN_PREPARACION", "LISTO_PARA_ENTREGAR"}
    BY <1>2 DEF TransicionarLee, Siguiente
  <2>2. Siguiente[estado[p]] \in {"EN_PREPARACION", "LISTO_PARA_ENTREGAR", "ENTREGADO"}
    BY <2>1 DEF Siguiente
  <2>3. PICK paso \in {"capacidad", "escribir"} :
          tx' = [tx EXCEPT ![t] = UnaTx(paso, p, Siguiente[estado[p]], SinLimite, FALSE, {})]
    BY <1>2 DEF TransicionarLee
  <2>4. Sobre(t, p, Siguiente[estado[p]], FALSE)
    BY <1>0, <2>2, <2>3 DEF Sobre, UnaTx, Tx, Pasos, Estado, SinLimite
  <2> QED BY <1>2, <2>1, <2>2, <2>4 DEF TransicionarLee
<1>3. ASSUME NEW l \in Limites, CambiarLimite(t, l)
      PROVE  UNCHANGED <<estado, limite>> /\ Sobre(t, Ninguno, "RECIBIDO", TRUE)
  <2>1. PICK paso \in {"espera", "confirmar"} :
          tx' = [tx EXCEPT ![t] = UnaTx(paso, Ninguno, "RECIBIDO", l, TRUE, {})]
    BY <1>3 DEF CambiarLimite
  <2>2. l \in Nat
    BY CocinaAssumption
  <2> QED BY <1>0, <1>3, <2>1, <2>2 DEF CambiarLimite, Sobre, UnaTx, Tx, Pasos, Estado
<1>4. ASSUME LeerLimite(t)
      PROVE  UNCHANGED <<estado, limite>> /\ Sobre(t, tx[t].pedido, tx[t].nuevo, tx[t].escrito)
  <2>1. PICK paso \in {"espera", "confirmar", "escribir"} :
          tx' = [tx EXCEPT ![t].limite = limite, ![t].paso = paso]
    BY <1>4 DEF LeerLimite
  <2>2. tx' \in [Txs -> Tx]
    BY <1>0, <2>1 DEF Tx, Pasos
  <2> QED BY <1>0, <1>4, <2>1, <2>2 DEF LeerLimite, Sobre, Tx
<1>5. ASSUME BloquearCola(t) \/ HayLugar(t)
      PROVE  UNCHANGED <<estado, limite>> /\ Sobre(t, tx[t].pedido, tx[t].nuevo, tx[t].escrito)
  BY <1>0, <1>5 DEF BloquearCola, HayLugar, Pasa, Sobre, Tx, Pasos
<1>6. ASSUME Escribir(t)
      PROVE  /\ UNCHANGED <<estado, limite>> /\ FilaLibre(t, tx[t].pedido)
             /\ Sobre(t, tx[t].pedido, tx[t].nuevo, TRUE)
  BY <1>0, <1>6 DEF Escribir, Sobre, Tx, Pasos
<1>7. ASSUME Elegir(t)
      PROVE  UNCHANGED <<estado, limite>> /\ Sobre(t, tx[t].pedido, tx[t].nuevo, tx[t].escrito)
  <2>1. PICK elegidos \in SUBSET Pedidos, paso \in {"confirmar", "promover"} :
          tx' = [tx EXCEPT ![t].lista = elegidos, ![t].paso = paso]
    BY <1>7 DEF Elegir, LosPrimeros, Tomados, EnEspera
  <2>2. [tx[t] EXCEPT !.lista = elegidos, !.paso = paso] \in Tx
    BY <1>0 DEF Tx, Pasos
  <2>3. tx' = [tx EXCEPT ![t] = [tx[t] EXCEPT !.lista = elegidos, !.paso = paso]]
    BY <1>0, <2>1
  <2> QED BY <1>0, <1>7, <2>2, <2>3 DEF Elegir, Sobre, Tx
<1>8. ASSUME CocinaLlena(t) \/ Abortar(t)
      PROVE  UNCHANGED <<estado, limite>> /\ Sobre(t, Ninguno, "RECIBIDO", FALSE)
  <2>1. tx' = [tx EXCEPT ![t] = SinTx] /\ UNCHANGED <<estado, limite>>
    BY <1>8 DEF CocinaLlena, Abortar, Termina
  <2> QED BY <1>0, <2>1, SinTxTipo DEF Sobre
<1>9. "RECIBIDO" \in Estado
  BY DEF Estado
<1>10. CASE Empezar(t)
  BY <1>1, <1>2, <1>3, <1>9, <1>10 DEF Empezar
<1>11. CASE Seguir(t)
  BY <1>4, <1>5, <1>6, <1>7, <1>8, <1>9, <1>11 DEF Seguir
<1>12. CASE AbrazoMortal(t) \/ Caer(t)
  BY <1>8, <1>9, <1>12 DEF AbrazoMortal, Caer
<1> QED BY <1>10, <1>11, <1>12 DEF Paso

\* A commit writes its order and takes from the queue those it chose.
LEMMA AlConfirmar ==
  ASSUME PagadosInv, NEW t \in Txs, ConfirmarTx(t)
  PROVE  /\ limite' \in Nat
         /\ estado' \in [Pedidos -> Estado]
         /\ Sobre(t, Ninguno, "RECIBIDO", FALSE)
         /\ \A p \in Pedidos :
              IF Escribio(t, p)
              THEN estado'[p] \in {tx[t].nuevo,
                     IF tx[t].nuevo = "RECIBIDO" THEN "EN_PREPARACION" ELSE tx[t].nuevo}
              ELSE estado'[p] \in {estado[p],
                     IF estado[p] = "RECIBIDO" THEN "EN_PREPARACION" ELSE estado[p]}
<1>0. tx \in [Txs -> Tx] /\ limite \in Nat /\ estado \in [Pedidos -> Estado]
  BY DEF PagadosInv
<1>1. limite' \in Nat
  BY <1>0 DEF ConfirmarTx, Tx
<1>2. Sobre(t, Ninguno, "RECIBIDO", FALSE)
  BY <1>0, SinTxTipo DEF ConfirmarTx, Termina, Sobre
<1>3. estado' = Confirmado(t)
  BY DEF ConfirmarTx
<1>4. \A p \in Pedidos :
        Vista(t)[p] = IF Escribio(t, p) THEN tx[t].nuevo ELSE estado[p]
  BY DEF Vista
<1>5. \A p \in Pedidos :
        estado'[p] = IF p \in tx[t].lista /\ Vista(t)[p] = "RECIBIDO"
                     THEN "EN_PREPARACION" ELSE Vista(t)[p]
  BY <1>3 DEF Confirmado
<1>6. \A p \in Pedidos : estado'[p] \in Estado
  BY <1>0, <1>4, <1>5 DEF Tx, Estado
<1>7. estado' \in [Pedidos -> Estado]
  BY <1>3, <1>6 DEF Confirmado
<1> QED BY <1>1, <1>2, <1>4, <1>5, <1>7

\* Nothing undoes PagadosInv, with the queue on or off.
LEMMA PagadosInvPaso ==
  ASSUME PagadosInv, NEW t \in Txs, Paso(t)
  PROVE  PagadosInv'
<1>0. tx \in [Txs -> Tx] /\ limite \in Nat /\ estado \in [Pedidos -> Estado]
  BY DEF PagadosInv
<1>1. Ninguno \notin Pedidos
  BY CocinaAssumption
<1>2. \A o \in Txs \ {t} : tx'[o] = tx[o]
  BY SinConfirmar, AlConfirmar DEF Sobre
<1>3. tx' \in [Txs -> Tx]
  BY SinConfirmar, AlConfirmar DEF Sobre
<1>4. \A p \in Pedidos : Escribio(t, p)' => Escribio(t, p) \/ FilaLibre(t, p)
  <2>1. CASE ConfirmarTx(t)
    BY <1>1, <2>1, AlConfirmar DEF Sobre, Escribio
  <2>2. CASE ~ConfirmarTx(t)
    BY <1>1, <2>2, SinConfirmar DEF Sobre, Escribio
  <2> QED BY <2>1, <2>2
<1>5. FilaDeUno'
  <2>1. \A o \in Txs \ {t}, p \in Pedidos : Escribio(o, p)' <=> Escribio(o, p)
    BY <1>2 DEF Escribio
  <2>2. \A o \in Txs \ {t}, p \in Pedidos : ~(Escribio(t, p)' /\ Escribio(o, p)')
    BY <1>4, <2>1 DEF PagadosInv, FilaDeUno, FilaLibre
  <2> QED BY <2>1, <2>2 DEF PagadosInv, FilaDeUno
<1>6. CASE ConfirmarTx(t)
  <2>a. ~(tx'[t].pedido \in Pedidos)
    BY <1>1, <1>6, AlConfirmar DEF Sobre
  <2>b. limite' \in Nat /\ estado' \in [Pedidos -> Estado]
    BY <1>6, AlConfirmar
  <2>c. SUFFICES EscriturasPagadas'
    BY <1>3, <1>5, <2>b DEF PagadosInv
  <2>1. SUFFICES ASSUME NEW o \in Txs \ {t}, tx[o].pedido \in Pedidos
                 PROVE  estado[tx[o].pedido] = "PENDIENTE_PAGO"
                          <=> estado'[tx[o].pedido] = "PENDIENTE_PAGO"
    BY <1>2, <2>a DEF PagadosInv, EscriturasPagadas
  <2> DEFINE p == tx[o].pedido
  <2>2. CASE Escribio(t, p)
    <3>1. tx[t].pedido = p
      BY <2>2 DEF Escribio
    <3>2. tx[o].nuevo # "RECIBIDO"
      BY <2>1, <2>2 DEF PagadosInv, FilaDeUno, EscriturasPagadas, Escribio
    <3>3. estado[p] # "PENDIENTE_PAGO" /\ tx[t].nuevo # "PENDIENTE_PAGO"
      BY <2>1, <3>1, <3>2 DEF PagadosInv, EscriturasPagadas
    <3> QED BY <1>6, <2>1, <2>2, <3>3, AlConfirmar
  <2>3. CASE ~Escribio(t, p)
    BY <1>6, <2>1, <2>3, AlConfirmar
  <2> QED BY <2>2, <2>3
<1>7. CASE ~ConfirmarTx(t)
  <2>1. UNCHANGED <<estado, limite>>
    BY <1>7, SinConfirmar
  <2>2. tx'[t].pedido \in Pedidos =>
          /\ tx'[t].nuevo = "RECIBIDO" <=> estado[tx'[t].pedido] = "PENDIENTE_PAGO"
          /\ tx'[t].nuevo = "RECIBIDO" => tx'[t].escrito
          /\ tx'[t].nuevo # "PENDIENTE_PAGO"
    BY <1>1, <1>7, SinConfirmar DEF Sobre, PagadosInv, EscriturasPagadas
  <2>3. EscriturasPagadas'
    BY <1>2, <2>1, <2>2 DEF PagadosInv, EscriturasPagadas
  <2> QED BY <1>0, <1>3, <1>5, <2>1, <2>3 DEF PagadosInv
<1> QED BY <1>6, <1>7

LEMMA PagadosInvInit == Init => PagadosInv
<1> SUFFICES ASSUME Init PROVE PagadosInv
  OBVIOUS
<1>1. Ninguno \notin Pedidos /\ LimiteInicial \in Nat
  BY CocinaAssumption
<1>2. SinTx \in Tx /\ SinTx.pedido = Ninguno /\ ~SinTx.escrito
  BY DEF SinTx, UnaTx, Tx, Pasos, Estado, SinLimite
<1>3. \A t \in Txs : tx[t] = SinTx
  BY DEF Init
<1>4. FilaDeUno /\ EscriturasPagadas
  BY <1>1, <1>2, <1>3 DEF FilaDeUno, EscriturasPagadas, Escribio
<1> QED BY <1>1, <1>2, <1>4 DEF Init, PagadosInv, Estado

\* EntraUnaVez of one step.
EntraBien ==
  \A p \in Pedidos :
    /\ estado[p] = "PENDIENTE_PAGO"
         => estado'[p] \in {"PENDIENTE_PAGO", "RECIBIDO", "EN_PREPARACION"}
    /\ estado'[p] = "PENDIENTE_PAGO" => estado[p] = "PENDIENTE_PAGO"
    /\ estado'[p] = "RECIBIDO" => estado[p] \in {"PENDIENTE_PAGO", "RECIBIDO"}

LEMMA EntraBienPaso ==
  ASSUME PagadosInv, NEW t \in Txs, Paso(t)
  PROVE  EntraBien
<1>1. CASE ~ConfirmarTx(t)
  BY <1>1, SinConfirmar DEF EntraBien
<1>2. CASE ConfirmarTx(t)
  <2>1. SUFFICES ASSUME NEW p \in Pedidos
                 PROVE  /\ estado[p] = "PENDIENTE_PAGO"
                             => estado'[p] \in {"PENDIENTE_PAGO", "RECIBIDO", "EN_PREPARACION"}
                        /\ estado'[p] = "PENDIENTE_PAGO" => estado[p] = "PENDIENTE_PAGO"
                        /\ estado'[p] = "RECIBIDO"
                             => estado[p] \in {"PENDIENTE_PAGO", "RECIBIDO"}
    BY DEF EntraBien
  <2>2. CASE Escribio(t, p)
    <3>1. /\ tx[t].nuevo = "RECIBIDO" <=> estado[p] = "PENDIENTE_PAGO"
          /\ tx[t].nuevo # "PENDIENTE_PAGO"
      BY <2>2 DEF PagadosInv, EscriturasPagadas, Escribio
    <3> QED BY <1>2, <2>2, <3>1, AlConfirmar
  <2>3. CASE ~Escribio(t, p)
    BY <1>2, <2>3, AlConfirmar
  <2> QED BY <2>2, <2>3
<1> QED BY <1>1, <1>2

\* An order enters the kitchen by the confirmation of its payment, once, and is
\* never put back in the queue (confirmarPagoEnTx, transicionar), whether or not
\* the queue is on.
THEOREM EntraAlaColaUnaVez == Spec => EntraUnaVez
<1>1. PagadosInv /\ [Next]_vars => PagadosInv'
  <2> SUFFICES ASSUME PagadosInv, [Next]_vars PROVE PagadosInv'
    OBVIOUS
  <2>1. CASE Next
    BY <2>1, PagadosInvPaso DEF Next, Paso
  <2>2. CASE UNCHANGED vars
    BY <2>2 DEF vars, PagadosInv, FilaDeUno, EscriturasPagadas, Escribio
  <2> QED BY <2>1, <2>2
<1>2. PagadosInv /\ [Next]_vars => [EntraBien]_vars
  BY EntraBienPaso DEF Next, Paso
<1>3. Spec => [][EntraBien]_vars
  BY <1>1, <1>2, PagadosInvInit, PTL DEF Spec
<1> QED BY <1>3 DEF EntraUnaVez, EntraBien

-----------------------------------------------------------------------------
(* The alerts: the invariant *)

Alertas == PedidosEfectivo \cup {Llamado, Nada}

Listas == [MesasSala -> Alertas]

Conexiones ==
  [fase : {"cortada", "leyendo", "emitiendo", "al_dia"}, leyo : SUBSET PedidosEfectivo]

UnaRespuesta ==
  [fase : {"libre", "enviada", "leer", "marcar"}, mesa : MesasSala \cup {Nada},
   vio : Alertas, pedido : PedidosEfectivo \cup {Nada}]

AvisosTipos ==
  /\ efectivo \in [PedidosEfectivo -> {"impago", "solicitado", "cobrado", "cancelado"}]
  /\ pendientes \in Listas
  /\ atendidos \subseteq PedidosEfectivo
  /\ lista \in [Pantallas -> Listas]
  /\ conexion \in [Pantallas -> Conexiones]
  /\ respuesta \in [Respuestas -> UnaRespuesta]
  /\ debe \subseteq MesasSala
  /\ aceptados \subseteq PedidosEfectivo
  /\ salvedad \in [cruzada : SUBSET MesasSala, tapada : SUBSET MesasSala,
                   dudosa : SUBSET MesasSala]

\* What is shown at a table, if it is a request of cash, is of an order of it
\* that was asked for.
DeLaMesa(m, a) == a \in PedidosEfectivo => MesaDe[a] = m /\ efectivo[a] # "impago"

DeSusMesas ==
  /\ \A m \in MesasSala : DeLaMesa(m, pendientes[m])
  /\ \A s \in Pantallas, m \in MesasSala : DeLaMesa(m, lista[s][m])
  /\ \A r \in Respuestas :
       /\ respuesta[r].fase # "libre" => respuesta[r].mesa \in MesasSala
       /\ DeLaMesa(respuesta[r].mesa, respuesta[r].vio)
  /\ \A s \in Pantallas : \A p \in conexion[s].leyo : efectivo[p] # "impago"
  /\ \A p \in PedidosEfectivo :
       /\ <<"solicitud", p>> \in porAvisar \/ p \in aceptados => efectivo[p] # "impago"
       /\ <<"cobro", p>> \in porAvisar => efectivo[p] = "cobrado"

\* The table that called is in memory, and every screen shows what is in memory.
SeVeLoPendiente ==
  \A m \in debe \ (salvedad.cruzada \cup salvedad.tapada) :
    /\ pendientes[m] # Nada
    /\ \A s \in Pantallas : conexion[s].fase = "al_dia" => lista[s][m] = pendientes[m]

\* The request of cash of an order waits, and is the only one of its table.
Unica(p) == efectivo[p] = "solicitado" /\ MesaDe[p] \notin salvedad.dudosa

SoloUna ==
  \A p \in PedidosEfectivo : Unica(p) =>
    /\ ~HayOtroPedido(p)
    /\ \A r \in Respuestas :
         respuesta[r].fase = "marcar" /\ respuesta[r].vio = p => respuesta[r].pedido = p

\* The one that was attended is noted, and neither the memory nor a screen has it.
AceptadosBien ==
  \A p \in aceptados : Unica(p) =>
    /\ p \in atendidos
    /\ pendientes[MesaDe[p]] # p
    /\ \A s \in Pantallas : conexion[s].fase = "al_dia" => lista[s][MesaDe[p]] # p

AvisosInv == AvisosTipos /\ DeSusMesas /\ SeVeLoPendiente /\ SoloUna /\ AceptadosBien
-----------------------------------------------------------------------------
(* The alerts: what the helpers do *)

LEMMA MuestranHace ==
  ASSUME AvisosTipos, NEW m \in MesasSala, NEW a \in Alertas, MuestranTodas(m, a)
  PROVE  /\ lista' \in [Pantallas -> Listas]
         /\ \A s \in Pantallas, k \in MesasSala :
              lista'[s][k] = IF EnSalon(s) /\ k = m THEN a ELSE lista[s][k]
BY DEF MuestranTodas, AvisosTipos, Listas

LEMMA QuitanHace ==
  ASSUME AvisosTipos, NEW p \in PedidosEfectivo, QuitanElPedido(p)
  PROVE  /\ lista' \in [Pantallas -> Listas]
         /\ \A s \in Pantallas, k \in MesasSala :
              lista'[s][k] = IF EnSalon(s) /\ lista[s][k] = p THEN Nada ELSE lista[s][k]
<1>1. Nada \in Alertas
  BY DEF Alertas
<1> QED BY <1>1 DEF QuitanElPedido, SinPedido, AvisosTipos, Listas

LEMMA SinRespuestaHace ==
  /\ SinRespuesta \in UnaRespuesta /\ SinRespuesta.fase = "libre"
  /\ SinRespuesta.vio = Nada
BY DEF SinRespuesta, UnaRespuesta, Alertas

\* Nothing that is asked for goes back to not having been.
LEMMA SeConserva ==
  ASSUME DeSusMesas,
         \A p \in PedidosEfectivo : efectivo[p] # "impago" => efectivo'[p] # "impago",
         \A m \in MesasSala : \/ pendientes'[m] = pendientes[m]
                              \/ DeLaMesa(m, pendientes[m])',
         \A s \in Pantallas, m \in MesasSala : \/ lista'[s][m] = lista[s][m]
                                               \/ DeLaMesa(m, lista[s][m])',
         \A r \in Respuestas :
           \/ respuesta'[r].mesa = respuesta[r].mesa /\ respuesta'[r].vio = respuesta[r].vio
              /\ respuesta[r].fase # "libre"
           \/ respuesta'[r] = respuesta[r]
           \/ /\ respuesta'[r].fase # "libre" => respuesta'[r].mesa \in MesasSala
              /\ DeLaMesa(respuesta[r].mesa, respuesta[r].vio)',
         \A s \in Pantallas : \A p \in conexion'[s].leyo :
           p \in conexion[s].leyo \/ efectivo'[p] # "impago",
         \A s \in Pantallas : conexion[s].leyo \subseteq PedidosEfectivo,
         \A p \in PedidosEfectivo :
           /\ <<"solicitud", p>> \in porAvisar' =>
                <<"solicitud", p>> \in porAvisar \/ efectivo'[p] # "impago"
           /\ p \in aceptados' => p \in aceptados \/ efectivo'[p] # "impago"
           /\ <<"cobro", p>> \in porAvisar' => efectivo'[p] = "cobrado"
  PROVE  DeSusMesas'
<1>1. \A m \in MesasSala : DeLaMesa(m, pendientes[m])'
  BY DEF DeSusMesas, DeLaMesa
<1>2. \A s \in Pantallas, m \in MesasSala : DeLaMesa(m, lista[s][m])'
  BY DEF DeSusMesas, DeLaMesa
<1>3. \A r \in Respuestas :
       /\ respuesta'[r].fase # "libre" => respuesta'[r].mesa \in MesasSala
       /\ DeLaMesa(respuesta[r].mesa, respuesta[r].vio)'
  BY DEF DeSusMesas, DeLaMesa
<1>4. \A s \in Pantallas : \A p \in conexion'[s].leyo : efectivo'[p] # "impago"
  BY DEF DeSusMesas
<1>5. \A p \in PedidosEfectivo :
       /\ <<"solicitud", p>> \in porAvisar' \/ p \in aceptados' => efectivo'[p] # "impago"
       /\ <<"cobro", p>> \in porAvisar' => efectivo'[p] = "cobrado"
  BY DEF DeSusMesas
<1> QED BY <1>1, <1>2, <1>3, <1>4, <1>5 DEF DeSusMesas, DeLaMesa

-----------------------------------------------------------------------------
(* The alerts: they are emitted, paid and closed *)

LEMMA LlamadoBien ==
  ASSUME AvisosInv, NEW m \in MesasSala, NEW a \in PedidosEfectivo \cup {Llamado},
         EmitirLlamado(m, a), efectivo' = efectivo,
         \/ a = Llamado /\ porAvisar' = porAvisar
         \/ /\ a \in PedidosEfectivo /\ MesaDe[a] = m /\ <<"solicitud", a>> \in porAvisar
            /\ porAvisar' = porAvisar \ {<<"solicitud", a>>}
  PROVE  AvisosInv'
<1>1. /\ a \in Alertas /\ a # Nada /\ AvisosTipos
      /\ a \in PedidosEfectivo => efectivo[a] # "impago"
  BY AvisosAssumption DEF Alertas, AvisosInv, DeSusMesas
<1>2. /\ pendientes' = [pendientes EXCEPT ![m] = a] /\ atendidos' = atendidos \ {a}
      /\ MuestranTodas(m, a) /\ debe' = debe \cup {m} /\ aceptados' = aceptados \ {a}
      /\ UNCHANGED <<conexion, respuesta>>
      /\ salvedad' = [salvedad EXCEPT
           !.cruzada = IF SeResponde(m) THEN @ \cup {m} ELSE @ \ {m}, !.tapada = @ \ {m}]
  BY DEF EmitirLlamado
<1>3. /\ salvedad' \in [cruzada : SUBSET MesasSala, tapada : SUBSET MesasSala,
                        dudosa : SUBSET MesasSala]
      /\ salvedad'.dudosa = salvedad.dudosa
      /\ \A k \in MesasSala \ {m} : /\ k \in salvedad'.cruzada <=> k \in salvedad.cruzada
                                    /\ k \in salvedad'.tapada <=> k \in salvedad.tapada
  BY <1>1, <1>2 DEF AvisosTipos
<1>4. /\ lista' \in [Pantallas -> Listas]
      /\ \A s \in Pantallas, k \in MesasSala :
           lista'[s][k] = IF EnSalon(s) /\ k = m THEN a ELSE lista[s][k]
  BY <1>1, <1>2, MuestranHace
<1>5. /\ pendientes' \in Listas /\ pendientes'[m] = a
      /\ \A k \in MesasSala \ {m} : pendientes'[k] = pendientes[k]
  BY <1>1, <1>2 DEF AvisosTipos, Listas
<1>6. AvisosTipos'
  BY <1>1, <1>2, <1>3, <1>4, <1>5 DEF AvisosTipos
<1>7. DeSusMesas'
  <2>1. DeLaMesa(m, a)'
    BY <1>1, AvisosAssumption DEF DeLaMesa
  <2>2. \A k \in MesasSala : pendientes'[k] = pendientes[k] \/ DeLaMesa(k, pendientes[k])'
    BY <1>5, <2>1 DEF DeLaMesa
  <2>3. \A s \in Pantallas, k \in MesasSala :
          lista'[s][k] = lista[s][k] \/ DeLaMesa(k, lista[s][k])'
    BY <1>4, <2>1 DEF DeLaMesa
  <2> QED BY <1>1, <1>2, <2>2, <2>3, SeConserva DEF AvisosInv, DeSusMesas, AvisosTipos, Conexiones
<1>8. SeVeLoPendiente'
  <2>1. SUFFICES ASSUME NEW k \in debe' \ (salvedad'.cruzada \cup salvedad'.tapada)
                 PROVE  /\ pendientes'[k] # Nada
                        /\ \A s \in Pantallas :
                             conexion[s].fase = "al_dia" => lista'[s][k] = pendientes'[k]
    BY <1>2 DEF SeVeLoPendiente
  <2>2. CASE k = m
    BY <1>1, <1>4, <1>5, <2>2 DEF EnSalon
  <2>3. CASE k # m
    <3>1. k \in MesasSala /\ k \in debe \ (salvedad.cruzada \cup salvedad.tapada)
      BY <1>1, <1>2, <1>3, <2>3, <2>1 DEF AvisosTipos
    <3> QED BY <1>4, <1>5, <2>3, <3>1 DEF AvisosInv, SeVeLoPendiente
  <2> QED BY <2>2, <2>3
<1>9. SoloUna'
  <2>1. SUFFICES ASSUME NEW p \in PedidosEfectivo, Unica(p)
                 PROVE  /\ ~HayOtroPedido(p)'
                        /\ \A r \in Respuestas :
                             respuesta[r].fase = "marcar" /\ respuesta[r].vio = p
                               => respuesta[r].pedido = p
    BY <1>2, <1>3 DEF SoloUna, Unica
  <2>2. /\ ~HayOtroPedido(p)
        /\ \A r \in Respuestas :
             respuesta[r].fase = "marcar" /\ respuesta[r].vio = p => respuesta[r].pedido = p
    BY <2>1 DEF AvisosInv, SoloUna
  <2>3. MesaDe[p] \in MesasSala
    BY AvisosAssumption
  <2> QED BY <1>5, <2>2, <2>3, AvisosAssumption DEF HayOtroPedido
<1>10. AceptadosBien'
  <2>1. SUFFICES ASSUME NEW p \in aceptados', Unica(p)
                 PROVE  /\ p \in atendidos' /\ pendientes'[MesaDe[p]] # p
                        /\ \A s \in Pantallas :
                             conexion[s].fase = "al_dia" => lista'[s][MesaDe[p]] # p
    BY <1>2, <1>3 DEF AceptadosBien, Unica
  <2>2. p \in aceptados /\ p # a /\ p \in PedidosEfectivo /\ MesaDe[p] \in MesasSala
    BY <1>1, <1>2, AvisosAssumption DEF AvisosTipos
  <2> QED BY <1>2, <1>4, <1>5, <2>1, <2>2 DEF AvisosInv, AceptadosBien
<1> QED BY <1>6, <1>7, <1>8, <1>9, <1>10 DEF AvisosInv

LEMMA LlamarMozoBien ==
  ASSUME AvisosInv, NEW m \in MesasSala, LlamarMozo(m)
  PROVE  AvisosInv'
BY LlamadoBien DEF LlamarMozo

LEMMA AvisarSolicitudBien ==
  ASSUME AvisosInv, NEW p \in PedidosEfectivo, AvisarSolicitud(p)
  PROVE  AvisosInv'
<1>1. MesaDe[p] \in MesasSala
  BY AvisosAssumption
<1> QED BY <1>1, LlamadoBien DEF AvisarSolicitud

LEMMA SolicitarBien ==
  ASSUME AvisosInv, NEW p \in PedidosEfectivo, SolicitarEfectivo(p)
  PROVE  AvisosInv'
<1>1. /\ AvisosTipos /\ MesaDe[p] \in MesasSala
      /\ efectivo' = [efectivo EXCEPT ![p] = "solicitado"]
      /\ porAvisar' = porAvisar \cup {<<"solicitud", p>>}
      /\ salvedad' = IF HayOtroPedido(p) THEN Con("dudosa", MesaDe[p]) ELSE salvedad
      /\ efectivo[p] \in {"impago", "solicitado"}
      /\ UNCHANGED <<pendientes, atendidos, lista, conexion, respuesta, debe, aceptados>>
  BY AvisosAssumption DEF AvisosInv, SolicitarEfectivo
<1>2. /\ efectivo'[p] = "solicitado"
      /\ \A o \in PedidosEfectivo \ {p} : efectivo'[o] = efectivo[o]
  BY <1>1 DEF AvisosTipos
<1>3. /\ salvedad' \in [cruzada : SUBSET MesasSala, tapada : SUBSET MesasSala,
                        dudosa : SUBSET MesasSala]
      /\ salvedad'.cruzada = salvedad.cruzada /\ salvedad'.tapada = salvedad.tapada
      /\ salvedad.dudosa \subseteq salvedad'.dudosa
      /\ HayOtroPedido(p) => MesaDe[p] \in salvedad'.dudosa
  BY <1>1 DEF AvisosTipos, Con
<1>4. AvisosTipos'
  BY <1>1, <1>3 DEF AvisosTipos
<1>5. DeSusMesas'
  <2>1. \A o \in PedidosEfectivo :
          /\ efectivo[o] # "impago" => efectivo'[o] # "impago"
          /\ <<"solicitud", o>> \in porAvisar' =>
               <<"solicitud", o>> \in porAvisar \/ efectivo'[o] # "impago"
          /\ <<"cobro", o>> \in porAvisar' => efectivo'[o] = "cobrado"
    BY <1>1, <1>2 DEF AvisosInv, DeSusMesas
  <2> QED BY <1>1, <2>1, SeConserva DEF AvisosInv, AvisosTipos, Conexiones
<1>6. SeVeLoPendiente'
  BY <1>1, <1>3 DEF AvisosInv, SeVeLoPendiente
<1>7. SoloUna'
  <2>1. SUFFICES ASSUME NEW q \in PedidosEfectivo, Unica(q)'
                 PROVE  /\ ~HayOtroPedido(q)'
                        /\ \A r \in Respuestas :
                             respuesta[r].fase = "marcar" /\ respuesta[r].vio = q
                               => respuesta[r].pedido = q
    BY <1>1 DEF SoloUna
  <2>2. MesaDe[q] \notin salvedad'.dudosa /\ MesaDe[q] \notin salvedad.dudosa
    BY <1>3, <2>1 DEF Unica
  <2>3. CASE q = p
    <3>1. ~HayOtroPedido(p)
      BY <1>3, <2>2, <2>3
    <3>2. ~HayOtroPedido(p)'
      BY <1>1, <1>2, <3>1 DEF HayOtroPedido
    <3>3. \A r \in Respuestas :
            respuesta[r].fase = "marcar" /\ respuesta[r].vio = p => respuesta[r].pedido = p
      BY <1>1, <2>2, <2>3 DEF AvisosInv, SoloUna, Unica, DeSusMesas, DeLaMesa
    <3> QED BY <2>3, <3>2, <3>3 DEF HayOtroPedido
  <2>4. CASE q # p
    <3>1. Unica(q)
      BY <1>2, <2>1, <2>2, <2>4 DEF Unica
    <3>2. /\ ~HayOtroPedido(q)
          /\ \A r \in Respuestas :
               respuesta[r].fase = "marcar" /\ respuesta[r].vio = q => respuesta[r].pedido = q
      BY <3>1 DEF AvisosInv, SoloUna
    <3>3. MesaDe[q] # MesaDe[p]
      BY <1>3, <2>2, <2>4, <3>1 DEF HayOtroPedido, Unica
    <3>4. ~HayOtroPedido(q)'
      BY <1>1, <1>2, <3>2, <3>3 DEF HayOtroPedido
    <3> QED BY <3>2, <3>4
  <2> QED BY <2>3, <2>4
<1>8. AceptadosBien'
  <2>1. SUFFICES ASSUME NEW q \in aceptados, Unica(q)'
                 PROVE  Unica(q)
    BY <1>1 DEF AvisosInv, AceptadosBien
  <2>2. q \in PedidosEfectivo /\ efectivo[q] # "impago" /\ MesaDe[q] \notin salvedad.dudosa
    BY <1>1, <1>3, <2>1 DEF AvisosInv, DeSusMesas, AvisosTipos, Unica
  <2> QED BY <1>1, <1>2, <2>1, <2>2 DEF Unica
<1> QED BY <1>4, <1>5, <1>6, <1>7, <1>8 DEF AvisosInv

\* A step after which fewer orders are asked for.
LEMMA MenosSolicitados ==
  ASSUME AvisosInv,
         efectivo' \in [PedidosEfectivo -> {"impago", "solicitado", "cobrado", "cancelado"}],
         \A p \in PedidosEfectivo : efectivo'[p] \in {efectivo[p], "cobrado", "cancelado"},
         \A p \in PedidosEfectivo :
           /\ <<"solicitud", p>> \in porAvisar' => <<"solicitud", p>> \in porAvisar
           /\ <<"cobro", p>> \in porAvisar' => efectivo'[p] = "cobrado",
         UNCHANGED <<pendientes, atendidos, lista, conexion, respuesta, debe, aceptados, salvedad>>
  PROVE  AvisosInv'
<1>1. AvisosTipos' /\ SeVeLoPendiente'
  BY DEF AvisosInv, AvisosTipos, SeVeLoPendiente
<1>2. DeSusMesas'
  BY SeConserva DEF AvisosInv, AvisosTipos, Conexiones
<1>3. \A p \in PedidosEfectivo : Unica(p)' => Unica(p)
  BY DEF Unica
<1>4. SoloUna'
  BY <1>3 DEF AvisosInv, SoloUna, HayOtroPedido
<1>5. AceptadosBien'
  BY <1>3 DEF AvisosInv, AvisosTipos, AceptadosBien
<1> QED BY <1>1, <1>2, <1>4, <1>5 DEF AvisosInv

LEMMA CobrarBien ==
  ASSUME AvisosInv, NEW p \in PedidosEfectivo, Cobrar(p)
  PROVE  AvisosInv'
<1>1. /\ efectivo' = [efectivo EXCEPT ![p] = "cobrado"]
      /\ porAvisar' = porAvisar \cup {<<"cobro", p>>}
      /\ UNCHANGED <<pendientes, atendidos, lista, conexion, respuesta, debe, aceptados, salvedad>>
  BY DEF Cobrar
<1>2. /\ efectivo' \in [PedidosEfectivo -> {"impago", "solicitado", "cobrado", "cancelado"}]
      /\ \A o \in PedidosEfectivo : efectivo'[o] = IF o = p THEN "cobrado" ELSE efectivo[o]
  BY <1>1 DEF AvisosInv, AvisosTipos
<1>3. \A o \in PedidosEfectivo :
        /\ <<"solicitud", o>> \in porAvisar' => <<"solicitud", o>> \in porAvisar
        /\ <<"cobro", o>> \in porAvisar' => efectivo'[o] = "cobrado"
  BY <1>1, <1>2 DEF AvisosInv, DeSusMesas
<1> QED BY <1>1, <1>2, <1>3, MenosSolicitados

LEMMA CerrarMesaBien ==
  ASSUME AvisosInv, NEW m \in MesasSala, CerrarMesa(m)
  PROVE  AvisosInv'
<1>1. /\ efectivo' = [p \in PedidosEfectivo |->
           IF p \in Solicitados(m) THEN "cancelado" ELSE efectivo[p]]
      /\ porAvisar' = porAvisar \cup {<<"cierre", m>>}
      /\ UNCHANGED <<pendientes, atendidos, lista, conexion, respuesta, debe, aceptados, salvedad>>
  BY DEF CerrarMesa
<1>2. /\ efectivo' \in [PedidosEfectivo -> {"impago", "solicitado", "cobrado", "cancelado"}]
      /\ \A o \in PedidosEfectivo : /\ efectivo'[o] \in {efectivo[o], "cancelado"}
                                    /\ efectivo[o] = "cobrado" => efectivo'[o] = "cobrado"
  BY <1>1 DEF AvisosInv, AvisosTipos, Solicitados
<1>3. \A o \in PedidosEfectivo :
        /\ <<"solicitud", o>> \in porAvisar' => <<"solicitud", o>> \in porAvisar
        /\ <<"cobro", o>> \in porAvisar' => efectivo'[o] = "cobrado"
  BY <1>1, <1>2 DEF AvisosInv, DeSusMesas
<1> QED BY <1>1, <1>2, <1>3, MenosSolicitados

LEMMA AvisarCobroBien ==
  ASSUME AvisosInv, NEW p \in PedidosEfectivo, AvisarCobro(p)
  PROVE  AvisosInv'
<1>1. /\ AvisosTipos /\ <<"cobro", p>> \in porAvisar
      /\ porAvisar' = porAvisar \ {<<"cobro", p>>}
      /\ atendidos' = atendidos \ {p} /\ pendientes' = SinPedido(pendientes, p)
      /\ QuitanElPedido(p) /\ debe' = {m \in debe : pendientes[m] # p}
      /\ UNCHANGED <<efectivo, conexion, respuesta, aceptados, salvedad>>
  BY DEF AvisosInv, AvisarCobro
<1>2. efectivo[p] = "cobrado" /\ Nada \in Alertas /\ Nada \notin PedidosEfectivo
  BY <1>1, AvisosAssumption DEF AvisosInv, DeSusMesas, Alertas
<1>3. /\ lista' \in [Pantallas -> Listas]
      /\ \A s \in Pantallas, k \in MesasSala :
           lista'[s][k] = IF EnSalon(s) /\ lista[s][k] = p THEN Nada ELSE lista[s][k]
  BY <1>1, QuitanHace
<1>4. /\ pendientes' \in Listas
      /\ \A k \in MesasSala :
           pendientes'[k] = IF pendientes[k] = p THEN Nada ELSE pendientes[k]
  BY <1>1, <1>2 DEF SinPedido, AvisosTipos, Listas
<1>5. AvisosTipos'
  BY <1>1, <1>3, <1>4 DEF AvisosTipos
<1>6. DeSusMesas'
  <2>1. \A k \in MesasSala : pendientes'[k] = pendientes[k] \/ DeLaMesa(k, pendientes[k])'
    BY <1>2, <1>4 DEF DeLaMesa
  <2>2. \A s \in Pantallas, k \in MesasSala :
          lista'[s][k] = lista[s][k] \/ DeLaMesa(k, lista[s][k])'
    BY <1>2, <1>3 DEF DeLaMesa
  <2>3. \A o \in PedidosEfectivo : <<"cobro", o>> \in porAvisar' => efectivo'[o] = "cobrado"
    BY <1>1 DEF AvisosInv, DeSusMesas
  <2> QED BY <1>1, <2>1, <2>2, <2>3, SeConserva DEF AvisosInv, AvisosTipos, Conexiones
<1>7. SeVeLoPendiente'
  BY <1>1, <1>3, <1>4 DEF AvisosInv, AvisosTipos, SeVeLoPendiente
<1>8. SoloUna'
  <2>1. SUFFICES ASSUME NEW q \in PedidosEfectivo, ~HayOtroPedido(q)
                 PROVE  ~HayOtroPedido(q)'
    BY <1>1 DEF AvisosInv, SoloUna, Unica
  <2> QED BY <1>1, <1>2, <1>4, <2>1, AvisosAssumption DEF HayOtroPedido
<1>9. AceptadosBien'
  <2>1. SUFFICES ASSUME NEW q \in aceptados, Unica(q)
                 PROVE  /\ q \in atendidos' /\ pendientes'[MesaDe[q]] # q
                        /\ \A s \in Pantallas :
                             conexion[s].fase = "al_dia" => lista'[s][MesaDe[q]] # q
    BY <1>1 DEF AceptadosBien, Unica
  <2>2. q \in PedidosEfectivo /\ q # p /\ MesaDe[q] \in MesasSala
    BY <1>1, <1>2, <2>1, AvisosAssumption DEF AvisosTipos, Unica
  <2> QED BY <1>1, <1>2, <1>3, <1>4, <2>1, <2>2 DEF AvisosInv, AceptadosBien
<1> QED BY <1>5, <1>6, <1>7, <1>8, <1>9 DEF AvisosInv

LEMMA AvisarCierreBien ==
  ASSUME AvisosInv, NEW m \in MesasSala, AvisarCierre(m)
  PROVE  AvisosInv'
<1>1. /\ AvisosTipos /\ porAvisar' = porAvisar \ {<<"cierre", m>>}
      /\ pendientes' = [pendientes EXCEPT ![m] = Nada]
      /\ atendidos' = {p \in atendidos : MesaDe[p] # m}
      /\ QuitanTodas(m) /\ debe' = debe \ {m}
      /\ aceptados' = {p \in aceptados : MesaDe[p] # m}
      /\ UNCHANGED <<efectivo, conexion, respuesta, salvedad>>
  BY DEF AvisosInv, AvisarCierre
<1>2. Nada \in Alertas /\ Nada \notin PedidosEfectivo
  BY AvisosAssumption DEF Alertas
<1>3. /\ lista' \in [Pantallas -> Listas]
      /\ \A s \in Pantallas, k \in MesasSala :
           lista'[s][k] = IF EnSalon(s) /\ k = m THEN Nada ELSE lista[s][k]
  BY <1>1, <1>2, MuestranHace DEF QuitanTodas
<1>4. /\ pendientes' \in Listas
      /\ \A k \in MesasSala : pendientes'[k] = IF k = m THEN Nada ELSE pendientes[k]
  BY <1>1, <1>2 DEF AvisosTipos, Listas
<1>5. AvisosTipos'
  BY <1>1, <1>3, <1>4 DEF AvisosTipos
<1>6. DeSusMesas'
  <2>1. \A k \in MesasSala : pendientes'[k] = pendientes[k] \/ DeLaMesa(k, pendientes[k])'
    BY <1>2, <1>4 DEF DeLaMesa
  <2>2. \A s \in Pantallas, k \in MesasSala :
          lista'[s][k] = lista[s][k] \/ DeLaMesa(k, lista[s][k])'
    BY <1>2, <1>3 DEF DeLaMesa
  <2>3. \A o \in PedidosEfectivo : <<"cobro", o>> \in porAvisar' => efectivo'[o] = "cobrado"
    BY <1>1 DEF AvisosInv, DeSusMesas
  <2> QED BY <1>1, <2>1, <2>2, <2>3, SeConserva DEF AvisosInv, AvisosTipos, Conexiones
<1>7. SeVeLoPendiente'
  BY <1>1, <1>3, <1>4 DEF AvisosInv, AvisosTipos, SeVeLoPendiente
<1>8. SoloUna'
  <2>1. SUFFICES ASSUME NEW q \in PedidosEfectivo, ~HayOtroPedido(q)
                 PROVE  ~HayOtroPedido(q)'
    BY <1>1 DEF AvisosInv, SoloUna, Unica
  <2> QED BY <1>1, <1>2, <1>4, <2>1, AvisosAssumption DEF HayOtroPedido
<1>9. AceptadosBien'
  <2>1. SUFFICES ASSUME NEW q \in aceptados', Unica(q)
                 PROVE  /\ q \in atendidos' /\ pendientes'[MesaDe[q]] # q
                        /\ \A s \in Pantallas :
                             conexion[s].fase = "al_dia" => lista'[s][MesaDe[q]] # q
    BY <1>1 DEF AceptadosBien, Unica
  <2>2. q \in aceptados /\ q \in PedidosEfectivo /\ MesaDe[q] \in MesasSala \ {m}
    BY <1>1, <2>1, AvisosAssumption DEF AvisosTipos
  <2> QED BY <1>1, <1>3, <1>4, <2>1, <2>2 DEF AvisosInv, AceptadosBien
<1> QED BY <1>5, <1>6, <1>7, <1>8, <1>9 DEF AvisosInv

-----------------------------------------------------------------------------
(* The alerts: the answers of the waiters *)

\* The answer of r ends: what it says of the order that the waiter saw, if it
\* is the only one of its table, is that it is noted and no longer in memory.
LEMMA ResueltoBien ==
  ASSUME AvisosInv, NEW r \in Respuestas, respuesta[r].fase # "libre", Resuelto(r),
         UNCHANGED <<efectivo, porAvisar, conexion>>,
         \/ pendientes' = pendientes
         \/ pendientes' = [pendientes EXCEPT ![respuesta[r].mesa] = Nada],
         atendidos \subseteq atendidos', atendidos' \subseteq PedidosEfectivo,
         salvedad' = salvedad \/ salvedad' = Con("dudosa", respuesta[r].mesa),
         \A p \in PedidosEfectivo : p = respuesta[r].vio /\ Unica(p)' =>
           p \in atendidos' /\ pendientes'[respuesta[r].mesa] # p
  PROVE  AvisosInv'
<1> DEFINE m == respuesta[r].mesa
           vio == respuesta[r].vio
<1>1. /\ AvisosTipos /\ m \in MesasSala /\ Nada \in Alertas /\ Nada \notin PedidosEfectivo
      /\ vio \in PedidosEfectivo => MesaDe[vio] = m /\ efectivo[vio] # "impago"
  BY AvisosAssumption DEF AvisosInv, DeSusMesas, DeLaMesa, Alertas
<1>2. /\ QuitanTodas(m) /\ respuesta' = [respuesta EXCEPT ![r] = SinRespuesta]
      /\ debe' = IF m \in salvedad.cruzada THEN debe ELSE debe \ {m}
      /\ \/ aceptados' = aceptados
         \/ aceptados' = aceptados \cup ({vio} \cap PedidosEfectivo)
  BY DEF Resuelto
<1>3. /\ lista' \in [Pantallas -> Listas]
      /\ \A s \in Pantallas, k \in MesasSala :
           lista'[s][k] = IF EnSalon(s) /\ k = m THEN Nada ELSE lista[s][k]
  BY <1>1, <1>2, MuestranHace DEF QuitanTodas
<1>4. /\ pendientes' \in Listas
      /\ \A k \in MesasSala : pendientes'[k] = pendientes[k] \/ (k = m /\ pendientes'[k] = Nada)
  BY <1>1 DEF AvisosTipos, Listas
<1>5. /\ salvedad' \in [cruzada : SUBSET MesasSala, tapada : SUBSET MesasSala,
                        dudosa : SUBSET MesasSala]
      /\ salvedad'.cruzada = salvedad.cruzada /\ salvedad'.tapada = salvedad.tapada
      /\ salvedad.dudosa \subseteq salvedad'.dudosa
  BY <1>1 DEF AvisosTipos, Con
<1>6. /\ respuesta' \in [Respuestas -> UnaRespuesta]
      /\ respuesta'[r] = SinRespuesta
      /\ \A q \in Respuestas \ {r} : respuesta'[q] = respuesta[q]
  BY <1>1, <1>2, SinRespuestaHace DEF AvisosTipos
<1>7. AvisosTipos'
  BY <1>1, <1>2, <1>3, <1>4, <1>5, <1>6 DEF AvisosTipos
<1>8. DeSusMesas'
  <2>1. \A k \in MesasSala : pendientes'[k] = pendientes[k] \/ DeLaMesa(k, pendientes[k])'
    BY <1>1, <1>4 DEF DeLaMesa
  <2>2. \A s \in Pantallas, k \in MesasSala :
          lista'[s][k] = lista[s][k] \/ DeLaMesa(k, lista[s][k])'
    BY <1>1, <1>3 DEF DeLaMesa
  <2>3. /\ respuesta'[r].fase = "libre"
        /\ DeLaMesa(respuesta[r].mesa, respuesta[r].vio)'
    BY <1>1, <1>6, SinRespuestaHace DEF DeLaMesa
  <2>4. \A o \in PedidosEfectivo :
          /\ o \in aceptados' => o \in aceptados \/ efectivo'[o] # "impago"
          /\ <<"cobro", o>> \in porAvisar' => efectivo'[o] = "cobrado"
    BY <1>1, <1>2 DEF AvisosInv, DeSusMesas
  <2> HIDE DEF m, vio
  <2>5. \A q \in Respuestas :
          \/ respuesta'[q] = respuesta[q]
          \/ /\ respuesta'[q].fase # "libre" => respuesta'[q].mesa \in MesasSala
             /\ DeLaMesa(respuesta[q].mesa, respuesta[q].vio)'
    BY <1>6, <2>3
  <2> QED BY <1>1, <2>1, <2>2, <2>4, <2>5, SeConserva
          DEF AvisosInv, AvisosTipos, Conexiones
<1>9. SeVeLoPendiente'
  <2>1. SUFFICES ASSUME NEW k \in debe' \ (salvedad'.cruzada \cup salvedad'.tapada)
                 PROVE  /\ pendientes'[k] # Nada
                        /\ \A s \in Pantallas :
                             conexion[s].fase = "al_dia" => lista'[s][k] = pendientes'[k]
    BY DEF SeVeLoPendiente
  <2>2. k \in MesasSala /\ k # m /\ k \in debe \ (salvedad.cruzada \cup salvedad.tapada)
    BY <1>1, <1>2, <1>5, <2>1 DEF AvisosTipos
  <2> QED BY <1>3, <1>4, <2>2 DEF AvisosInv, SeVeLoPendiente
<1>10. \A p \in PedidosEfectivo : Unica(p)' => Unica(p)
  BY <1>5 DEF Unica
<1>11. SoloUna'
  <2>1. SUFFICES ASSUME NEW p \in PedidosEfectivo, Unica(p)
                 PROVE  /\ ~HayOtroPedido(p)'
                        /\ \A q \in Respuestas :
                             respuesta'[q].fase = "marcar" /\ respuesta'[q].vio = p
                               => respuesta'[q].pedido = p
    BY <1>10 DEF SoloUna
  <2>2. ~HayOtroPedido(p)'
    <3>1. ~HayOtroPedido(p) /\ MesaDe[p] \in MesasSala
      BY <2>1, AvisosAssumption DEF AvisosInv, SoloUna
    <3>2. \A o \in PedidosEfectivo :
            pendientes'[MesaDe[p]] = o => pendientes[MesaDe[p]] = o
      BY <1>1, <1>4, <3>1
    <3> QED BY <3>1, <3>2 DEF HayOtroPedido
  <2>3. \A q \in Respuestas :
          respuesta'[q].fase = "marcar" /\ respuesta'[q].vio = p => respuesta'[q].pedido = p
    BY <1>6, <2>1, SinRespuestaHace DEF AvisosInv, SoloUna
  <2> QED BY <2>2, <2>3
<1>12. AceptadosBien'
  <2>1. SUFFICES ASSUME NEW p \in aceptados', Unica(p)'
                 PROVE  /\ p \in atendidos' /\ pendientes'[MesaDe[p]] # p
                        /\ \A s \in Pantallas :
                             conexion[s].fase = "al_dia" => lista'[s][MesaDe[p]] # p
    BY DEF AceptadosBien
  <2>2. p \in PedidosEfectivo /\ MesaDe[p] \in MesasSala
    BY <1>7, <2>1, AvisosAssumption DEF AvisosTipos
  <2>3. CASE p \in aceptados
    BY <1>1, <1>3, <1>4, <1>10, <2>1, <2>2, <2>3 DEF AvisosInv, AceptadosBien
  <2>4. CASE p \notin aceptados
    <3>1. p = vio
      BY <1>2, <2>1, <2>4
    <3>2. p \in atendidos' /\ MesaDe[p] = m /\ pendientes'[m] # p
      BY <1>1, <2>1, <2>2, <3>1
    <3> QED BY <1>1, <1>3, <2>2, <3>2 DEF EnSalon
  <2> QED BY <2>3, <2>4
<1> HIDE DEF m, vio
<1> QED BY <1>7, <1>8, <1>9, <1>11, <1>12 DEF AvisosInv

LEMMA QuitarHace ==
  ASSUME AvisosInv, NEW m \in MesasSala, NEW p \in PedidosEfectivo \cup {Nada}, Quitar(m, p)
  PROVE  /\ pendientes' = [pendientes EXCEPT ![m] = Nada] /\ pendientes' \in Listas
         /\ pendientes'[m] = Nada
         /\ atendidos \subseteq atendidos' /\ atendidos' \subseteq PedidosEfectivo
         /\ pendientes[m] \in PedidosEfectivo => pendientes[m] \in atendidos'
         /\ pendientes[m] \notin PedidosEfectivo =>
              atendidos' = atendidos \cup ({p} \cap PedidosEfectivo)
<1>1. Nada \in Alertas
  BY DEF Alertas
<1> QED BY <1>1 DEF Quitar, AvisosInv, AvisosTipos, Listas

\* An alert in memory of the table of the only request is of that request.
LEMMA LaPendienteEsLaUnica ==
  ASSUME AvisosInv, NEW p \in PedidosEfectivo, Unica(p), NEW m \in MesasSala, MesaDe[p] = m,
         pendientes[m] \in PedidosEfectivo
  PROVE  pendientes[m] = p
BY DEF AvisosInv, SoloUna, HayOtroPedido, DeSusMesas, DeLaMesa

LEMMA ResponderBien ==
  ASSUME AvisosInv, NEW r \in Respuestas, NEW s \in Pantallas, NEW m \in MesasSala,
         Responder(r, s, m)
  PROVE  AvisosInv'
<1>1. /\ AvisosTipos /\ respuesta[r].fase = "libre"
      /\ respuesta' = [respuesta EXCEPT ![r] =
           [SinRespuesta EXCEPT !.fase = "enviada", !.mesa = m, !.vio = lista[s][m]]]
      /\ UNCHANGED <<efectivo, porAvisar, pendientes, atendidos, lista, conexion,
                     debe, aceptados, salvedad>>
  BY DEF AvisosInv, Responder
<1>2. /\ respuesta' \in [Respuestas -> UnaRespuesta]
      /\ respuesta'[r].fase = "enviada" /\ respuesta'[r].mesa = m
      /\ respuesta'[r].vio = lista[s][m]
      /\ \A q \in Respuestas \ {r} : respuesta'[q] = respuesta[q]
  <2>1. lista[s][m] \in Alertas
    BY <1>1 DEF AvisosTipos, Listas
  <2> QED BY <1>1, <2>1 DEF AvisosTipos, SinRespuesta, UnaRespuesta
<1>3. AvisosTipos'
  BY <1>1, <1>2 DEF AvisosTipos
<1>4. DeSusMesas'
  <2>1. DeLaMesa(respuesta[r].mesa, respuesta[r].vio)'
    BY <1>1, <1>2 DEF AvisosInv, DeSusMesas, DeLaMesa
  <2>2. \A q \in Respuestas :
          \/ respuesta'[q] = respuesta[q]
          \/ /\ respuesta'[q].fase # "libre" => respuesta'[q].mesa \in MesasSala
             /\ DeLaMesa(respuesta[q].mesa, respuesta[q].vio)'
    BY <1>2, <2>1
  <2>3. \A o \in PedidosEfectivo : <<"cobro", o>> \in porAvisar' => efectivo'[o] = "cobrado"
    BY <1>1 DEF AvisosInv, DeSusMesas
  <2> QED BY <1>1, <2>2, <2>3, SeConserva DEF AvisosInv, AvisosTipos, Conexiones
<1>5. SeVeLoPendiente' /\ AceptadosBien'
  BY <1>1 DEF AvisosInv, SeVeLoPendiente, AceptadosBien, Unica
<1>6. SoloUna'
  BY <1>1, <1>2 DEF AvisosInv, SoloUna, Unica, HayOtroPedido
<1> QED BY <1>3, <1>4, <1>5, <1>6 DEF AvisosInv

\* The answer of r goes on, with the same table and the same alert.
LEMMA SigueBien ==
  ASSUME AvisosInv, NEW r \in Respuestas, respuesta[r].fase # "libre",
         NEW f \in {"leer", "marcar"}, NEW p \in PedidosEfectivo \cup {Nada},
         respuesta' \in [Respuestas -> UnaRespuesta],
         respuesta'[r].fase = f /\ respuesta'[r].mesa = respuesta[r].mesa
           /\ respuesta'[r].vio = respuesta[r].vio /\ respuesta'[r].pedido = p,
         \A q \in Respuestas \ {r} : respuesta'[q] = respuesta[q],
         f = "marcar" => \A o \in PedidosEfectivo :
                           Unica(o) /\ respuesta[r].vio = o => p = o,
         UNCHANGED <<efectivo, porAvisar, atendidos, lista, conexion, aceptados, salvedad>>,
         \/ UNCHANGED <<pendientes, debe>>
         \/ /\ pendientes' = [pendientes EXCEPT ![respuesta[r].mesa] = Nada]
            /\ debe' = IF respuesta[r].mesa \in salvedad.cruzada THEN debe
                       ELSE debe \ {respuesta[r].mesa}
  PROVE  AvisosInv'
<1>1. AvisosTipos /\ Nada \in Alertas /\ Nada \notin PedidosEfectivo
      /\ respuesta[r].mesa \in MesasSala
  BY AvisosAssumption DEF AvisosInv, DeSusMesas, Alertas
<1>2. /\ pendientes' \in Listas
      /\ \A k \in MesasSala :
           pendientes'[k] = pendientes[k] \/ (k = respuesta[r].mesa /\ pendientes'[k] = Nada)
  BY <1>1 DEF AvisosTipos, Listas
<1>3. AvisosTipos'
  BY <1>1, <1>2 DEF AvisosTipos
<1>4. DeSusMesas'
  <2>1. \A k \in MesasSala : pendientes'[k] = pendientes[k] \/ DeLaMesa(k, pendientes[k])'
    BY <1>1, <1>2 DEF DeLaMesa
  <2>2. \A q \in Respuestas :
          \/ /\ respuesta'[q].mesa = respuesta[q].mesa
             /\ respuesta'[q].vio = respuesta[q].vio /\ respuesta[q].fase # "libre"
          \/ respuesta'[q] = respuesta[q]
    OBVIOUS
  <2>3. \A o \in PedidosEfectivo : <<"cobro", o>> \in porAvisar' => efectivo'[o] = "cobrado"
    BY <1>1 DEF AvisosInv, DeSusMesas
  <2> QED BY <1>1, <2>1, <2>2, <2>3, SeConserva DEF AvisosInv, AvisosTipos, Conexiones
<1>5. SeVeLoPendiente'
  <2>1. SUFFICES ASSUME NEW k \in debe' \ (salvedad.cruzada \cup salvedad.tapada)
                 PROVE  pendientes'[k] = pendientes[k] /\ k \in debe
    BY DEF AvisosInv, SeVeLoPendiente
  <2> QED BY <1>1, <1>2, <2>1 DEF AvisosTipos
<1>6. SoloUna'
  <2>1. SUFFICES ASSUME NEW o \in PedidosEfectivo, Unica(o)
                 PROVE  /\ ~HayOtroPedido(o)'
                        /\ \A q \in Respuestas :
                             respuesta'[q].fase = "marcar" /\ respuesta'[q].vio = o
                               => respuesta'[q].pedido = o
    BY DEF SoloUna, Unica
  <2>2. ~HayOtroPedido(o)'
    <3>1. ~HayOtroPedido(o) /\ MesaDe[o] \in MesasSala
      BY <2>1, AvisosAssumption DEF AvisosInv, SoloUna
    <3> QED BY <1>1, <1>2, <3>1 DEF HayOtroPedido
  <2>3. \A q \in Respuestas :
          respuesta'[q].fase = "marcar" /\ respuesta'[q].vio = o => respuesta'[q].pedido = o
    BY <2>1 DEF AvisosInv, SoloUna
  <2> QED BY <2>2, <2>3
<1>7. AceptadosBien'
  BY <1>1, <1>2, AvisosAssumption DEF AvisosInv, AvisosTipos, AceptadosBien, Unica
<1> QED BY <1>3, <1>4, <1>5, <1>6, <1>7 DEF AvisosInv

LEMMA ResolverBien ==
  ASSUME AvisosInv, NEW r \in Respuestas, ResolverLlamado(r)
  PROVE  AvisosInv'
<1> DEFINE m == respuesta[r].mesa
<1>1. /\ AvisosTipos /\ respuesta[r].fase = "enviada" /\ m \in MesasSala
      /\ Nada \notin PedidosEfectivo
      /\ Quitar(m, Nada) /\ UNCHANGED <<efectivo, porAvisar, conexion, salvedad>>
  BY AvisosAssumption DEF AvisosInv, DeSusMesas, ResolverLlamado
<1>2. /\ pendientes' = [pendientes EXCEPT ![m] = Nada] /\ pendientes'[m] = Nada
      /\ atendidos \subseteq atendidos' /\ atendidos' \subseteq PedidosEfectivo
      /\ pendientes[m] \in PedidosEfectivo => pendientes[m] \in atendidos'
      /\ pendientes[m] \notin PedidosEfectivo =>
           atendidos' = atendidos \cup ({Nada} \cap PedidosEfectivo)
  BY <1>1, QuitarHace
<1>3. CASE pendientes[m] \in PedidosEfectivo
  <2>1. Resuelto(r)
    BY <1>3 DEF ResolverLlamado
  <2>2. ASSUME NEW p \in PedidosEfectivo, p = respuesta[r].vio, Unica(p)'
        PROVE  p \in atendidos' /\ pendientes'[m] # p
    <3>1. Unica(p) /\ MesaDe[p] = m
      BY <1>1, <2>2 DEF Unica, AvisosInv, DeSusMesas, DeLaMesa
    <3>2. pendientes[m] = p
      BY <1>1, <1>3, <3>1, LaPendienteEsLaUnica
    <3> QED BY <1>1, <1>2, <3>2
  <2> QED BY <1>1, <1>2, <2>1, <2>2, ResueltoBien
<1>4. CASE pendientes[m] \notin PedidosEfectivo
  <2>1. /\ respuesta' = [respuesta EXCEPT ![r].fase = "leer"]
        /\ debe' = IF m \in salvedad.cruzada THEN debe ELSE debe \ {m}
        /\ UNCHANGED <<lista, aceptados>>
        /\ atendidos' = atendidos
    BY <1>1, <1>2, <1>4 DEF ResolverLlamado
  <2>2. PICK p \in PedidosEfectivo \cup {Nada} : p = respuesta[r].pedido
    BY <1>1 DEF AvisosTipos, UnaRespuesta
  <2>3. /\ respuesta' \in [Respuestas -> UnaRespuesta]
        /\ respuesta'[r].fase = "leer" /\ respuesta'[r].mesa = respuesta[r].mesa
        /\ respuesta'[r].vio = respuesta[r].vio /\ respuesta'[r].pedido = p
        /\ \A q \in Respuestas \ {r} : respuesta'[q] = respuesta[q]
    BY <1>1, <2>1, <2>2 DEF AvisosTipos, UnaRespuesta
  <2> QED BY <1>1, <1>2, <2>1, <2>3, SigueBien
<1> QED BY <1>3, <1>4

LEMMA LeerDeLaMesaBien ==
  ASSUME AvisosInv, NEW r \in Respuestas, LeerDeLaMesa(r)
  PROVE  AvisosInv'
<1> DEFINE m == respuesta[r].mesa
<1>1. /\ AvisosTipos /\ respuesta[r].fase = "leer" /\ m \in MesasSala
      /\ UNCHANGED <<efectivo, porAvisar, pendientes, atendidos, conexion, salvedad>>
  BY DEF AvisosInv, DeSusMesas, LeerDeLaMesa
<1>2. ASSUME NEW o \in PedidosEfectivo, o = respuesta[r].vio, Unica(o)
      PROVE  o \in Solicitados(m)
  BY <1>1, <1>2 DEF Unica, Solicitados, AvisosInv, DeSusMesas, DeLaMesa
<1>3. CASE Solicitados(m) = {} /\ Resuelto(r)
  <2>1. \A p \in PedidosEfectivo : p = respuesta[r].vio => ~Unica(p)'
    BY <1>1, <1>2, <1>3 DEF Unica
  <2> QED BY <1>1, <1>3, <2>1, ResueltoBien DEF AvisosInv, AvisosTipos
<1>4. CASE /\ \E p \in Solicitados(m) :
                respuesta' = [respuesta EXCEPT ![r].fase = "marcar", ![r].pedido = p]
           /\ UNCHANGED <<lista, debe, aceptados>>
  <2>1. PICK p \in Solicitados(m) :
          respuesta' = [respuesta EXCEPT ![r].fase = "marcar", ![r].pedido = p]
    BY <1>4
  <2>2. p \in PedidosEfectivo /\ MesaDe[p] = m /\ efectivo[p] = "solicitado"
    BY <2>1 DEF Solicitados
  <2>3. /\ respuesta' \in [Respuestas -> UnaRespuesta]
        /\ respuesta'[r].fase = "marcar" /\ respuesta'[r].mesa = respuesta[r].mesa
        /\ respuesta'[r].vio = respuesta[r].vio /\ respuesta'[r].pedido = p
        /\ \A q \in Respuestas \ {r} : respuesta'[q] = respuesta[q]
    BY <1>1, <2>1, <2>2 DEF AvisosTipos, UnaRespuesta
  <2>4. \A o \in PedidosEfectivo : Unica(o) /\ respuesta[r].vio = o => p = o
    <3> TAKE o \in PedidosEfectivo
    <3> HAVE Unica(o) /\ respuesta[r].vio = o
    <3>1. ~HayOtroPedido(o) /\ MesaDe[o] = m
      BY <1>2 DEF AvisosInv, SoloUna, Solicitados
    <3> QED BY <2>2, <3>1 DEF HayOtroPedido
  <2>5. UNCHANGED <<pendientes, debe>> /\ UNCHANGED <<lista, aceptados>>
    BY <1>1, <1>4
  <2> HIDE DEF m
  <2> QED BY <1>1, <2>2, <2>3, <2>4, <2>5, SigueBien
<1> QED BY <1>3, <1>4 DEF LeerDeLaMesa

LEMMA FallarLecturaBien ==
  ASSUME AvisosInv, NEW r \in Respuestas, FallarLectura(r)
  PROVE  AvisosInv'
<1> DEFINE m == respuesta[r].mesa
<1>1. /\ AvisosTipos /\ respuesta[r].fase = "leer" /\ m \in MesasSala
      /\ salvedad' = Con("dudosa", m) /\ Resuelto(r)
      /\ UNCHANGED <<efectivo, porAvisar, pendientes, atendidos, conexion>>
  BY DEF AvisosInv, DeSusMesas, FallarLectura
<1>2. m \in salvedad'.dudosa
  BY <1>1 DEF AvisosTipos, Con
<1>3. \A p \in PedidosEfectivo : p = respuesta[r].vio => ~Unica(p)'
  BY <1>1, <1>2 DEF Unica, AvisosInv, DeSusMesas, DeLaMesa
<1> QED BY <1>1, <1>3, ResueltoBien DEF AvisosTipos

LEMMA MarcarAtendidoBien ==
  ASSUME AvisosInv, NEW r \in Respuestas, MarcarAtendido(r)
  PROVE  AvisosInv'
<1> DEFINE m == respuesta[r].mesa
           leido == respuesta[r].pedido
<1>1. /\ AvisosTipos /\ respuesta[r].fase = "marcar" /\ m \in MesasSala
      /\ Nada \notin PedidosEfectivo /\ leido \in PedidosEfectivo \cup {Nada}
      /\ Quitar(m, leido) /\ Resuelto(r)
      /\ UNCHANGED <<efectivo, porAvisar, conexion, salvedad>>
  BY AvisosAssumption DEF AvisosInv, DeSusMesas, MarcarAtendido, AvisosTipos, UnaRespuesta
<1>2. /\ pendientes' = [pendientes EXCEPT ![m] = Nada] /\ pendientes'[m] = Nada
      /\ atendidos \subseteq atendidos' /\ atendidos' \subseteq PedidosEfectivo
      /\ pendientes[m] \in PedidosEfectivo => pendientes[m] \in atendidos'
      /\ pendientes[m] \notin PedidosEfectivo =>
           atendidos' = atendidos \cup ({leido} \cap PedidosEfectivo)
  BY <1>1, QuitarHace
<1>3. ASSUME NEW p \in PedidosEfectivo, p = respuesta[r].vio, Unica(p)'
      PROVE  p \in atendidos' /\ pendientes'[m] # p
  <2>1. Unica(p) /\ MesaDe[p] = m
    BY <1>1, <1>3 DEF Unica, AvisosInv, DeSusMesas, DeLaMesa
  <2>2. leido = p
    BY <1>1, <1>3, <2>1 DEF AvisosInv, SoloUna
  <2>3. pendientes[m] \in PedidosEfectivo => pendientes[m] = p
    BY <1>1, <2>1, LaPendienteEsLaUnica
  <2> QED BY <1>1, <1>2, <2>2, <2>3
<1> QED BY <1>1, <1>2, <1>3, ResueltoBien

-----------------------------------------------------------------------------
(* The alerts: the screens and the environment *)

\* Only the connections change, and no screen becomes up to date.
LEMMA ConexionBien ==
  ASSUME AvisosInv, NEW s \in Pantallas, NEW c \in Conexiones, c.fase # "al_dia",
         \A p \in c.leyo : p \in conexion[s].leyo \/ efectivo[p] # "impago",
         conexion' = [conexion EXCEPT ![s] = c],
         UNCHANGED <<efectivo, porAvisar, pendientes, atendidos, lista, respuesta,
                     debe, aceptados, salvedad>>
  PROVE  AvisosInv'
<1>1. /\ conexion' \in [Pantallas -> Conexiones]
      /\ conexion'[s] = c
      /\ \A t \in Pantallas \ {s} : conexion'[t] = conexion[t]
  BY DEF AvisosInv, AvisosTipos
<1>2. AvisosTipos'
  BY <1>1 DEF AvisosInv, AvisosTipos
<1>3. DeSusMesas'
  <2>1. \A o \in PedidosEfectivo : <<"cobro", o>> \in porAvisar' => efectivo'[o] = "cobrado"
    BY DEF AvisosInv, DeSusMesas
  <2> QED BY <1>1, <2>1, SeConserva DEF AvisosInv, AvisosTipos, Conexiones
<1>4. SeVeLoPendiente' /\ AceptadosBien'
  BY <1>1 DEF AvisosInv, SeVeLoPendiente, AceptadosBien, Unica
<1>5. SoloUna'
  BY DEF AvisosInv, SoloUna, Unica, HayOtroPedido
<1> QED BY <1>2, <1>3, <1>4, <1>5 DEF AvisosInv

LEMMA SincronizarBien ==
  ASSUME AvisosInv, NEW s \in Pantallas, Sincronizar(s)
  PROVE  AvisosInv'
<1>1. PICK c \in Conexiones : c = [conexion[s] EXCEPT !.fase = "leyendo"]
  BY DEF AvisosInv, AvisosTipos, Conexiones
<1>2. c.fase = "leyendo" /\ c.leyo = conexion[s].leyo
  BY <1>1 DEF AvisosInv, AvisosTipos, Conexiones
<1>3. conexion' = [conexion EXCEPT ![s] = c]
  BY <1>1 DEF Sincronizar
<1> QED BY <1>2, <1>3, ConexionBien DEF Sincronizar

LEMMA CortarBien ==
  ASSUME AvisosInv, NEW s \in Pantallas, Cortar(s)
  PROVE  AvisosInv'
<1>1. SinConexion \in Conexiones /\ SinConexion.fase = "cortada" /\ SinConexion.leyo = {}
  BY DEF SinConexion, Conexiones
<1> QED BY <1>1, ConexionBien DEF Cortar

LEMMA LeerSolicitudesBien ==
  ASSUME AvisosInv, NEW s \in Pantallas, LeerSolicitudes(s)
  PROVE  AvisosInv'
<1>1. PICK c : c = [fase |-> "emitiendo", leyo |-> UNION {Solicitados(m) : m \in MesasSala}]
  OBVIOUS
<1>2. c.leyo \subseteq PedidosEfectivo /\ \A p \in c.leyo : efectivo[p] # "impago"
  BY <1>1 DEF Solicitados
<1>3. c \in Conexiones /\ c.fase = "emitiendo"
  BY <1>1, <1>2 DEF Conexiones
<1>4. conexion' = [conexion EXCEPT ![s] = c]
  BY <1>1 DEF LeerSolicitudes
<1> QED BY <1>2, <1>3, <1>4, ConexionBien DEF LeerSolicitudes

\* What a snapshot shows at a table was asked for, or is in memory.
LEMMA SnapshotBien ==
  ASSUME AvisosInv, NEW s \in Pantallas, EmitirSnapshot(s)
  PROVE  AvisosInv'
<1>1. PICK l \in [MesasSala -> PedidosEfectivo \cup {Llamado, Nada}] :
        /\ \A m \in MesasSala : \/ l[m] \in ParaLaMesa(s, m)
                                \/ ParaLaMesa(s, m) = {} /\ l[m] = Nada
        /\ lista' = [lista EXCEPT ![s] = l]
        /\ salvedad' = [salvedad EXCEPT !.tapada = @ \cup
             {m \in MesasSala : pendientes[m] \notin {Nada, l[m]} /\ l[m] # Nada}]
  BY DEF EmitirSnapshot
<1>2. /\ AvisosTipos /\ l \in Listas /\ Nada \notin PedidosEfectivo
      /\ conexion' = [conexion EXCEPT ![s] = [fase |-> "al_dia", leyo |-> {}]]
      /\ UNCHANGED <<efectivo, porAvisar, pendientes, atendidos, respuesta, debe, aceptados>>
  BY AvisosAssumption DEF AvisosInv, EmitirSnapshot, Listas, Alertas
<1>3. \A m \in MesasSala :
        \/ l[m] = pendientes[m]
        \/ l[m] \in conexion[s].leyo \ atendidos /\ MesaDe[l[m]] = m
  BY <1>1 DEF ParaLaMesa
<1>4. conexion[s].leyo \subseteq PedidosEfectivo
  BY <1>2 DEF AvisosTipos, Conexiones
<1>5. /\ lista' \in [Pantallas -> Listas] /\ lista'[s] = l
      /\ \A t \in Pantallas \ {s} : lista'[t] = lista[t]
  BY <1>1, <1>2 DEF AvisosTipos
<1>6. /\ conexion' \in [Pantallas -> Conexiones] /\ conexion'[s].leyo = {}
      /\ \A t \in Pantallas \ {s} : conexion'[t] = conexion[t]
  BY <1>2 DEF AvisosTipos, Conexiones
<1>7. /\ salvedad' \in [cruzada : SUBSET MesasSala, tapada : SUBSET MesasSala,
                        dudosa : SUBSET MesasSala]
      /\ salvedad'.cruzada = salvedad.cruzada /\ salvedad'.dudosa = salvedad.dudosa
      /\ salvedad.tapada \subseteq salvedad'.tapada
      /\ \A m \in MesasSala : pendientes[m] \notin {Nada, l[m]} /\ l[m] # Nada
                                => m \in salvedad'.tapada
  BY <1>1, <1>2 DEF AvisosTipos
<1>8. AvisosTipos'
  BY <1>2, <1>5, <1>6, <1>7 DEF AvisosTipos
<1>9. DeSusMesas'
  <2>1. \A m \in MesasSala : DeLaMesa(m, l[m])
    BY <1>3, <1>4 DEF AvisosInv, DeSusMesas, DeLaMesa
  <2>2. \A t \in Pantallas, m \in MesasSala :
          lista'[t][m] = lista[t][m] \/ DeLaMesa(m, lista[t][m])'
    BY <1>2, <1>5, <2>1 DEF DeLaMesa
  <2>3. \A t \in Pantallas : \A p \in conexion'[t].leyo : p \in conexion[t].leyo
    BY <1>6
  <2>4. \A o \in PedidosEfectivo : <<"cobro", o>> \in porAvisar' => efectivo'[o] = "cobrado"
    BY <1>2 DEF AvisosInv, DeSusMesas
  <2> QED BY <1>2, <2>2, <2>3, <2>4, SeConserva DEF AvisosInv, AvisosTipos, Conexiones
<1>10. SeVeLoPendiente'
  <2>1. SUFFICES ASSUME NEW k \in debe \ (salvedad'.cruzada \cup salvedad'.tapada)
                 PROVE  /\ pendientes[k] # Nada
                        /\ \A t \in Pantallas :
                             conexion'[t].fase = "al_dia" => lista'[t][k] = pendientes[k]
    BY <1>2 DEF SeVeLoPendiente
  <2>2. k \in MesasSala /\ k \in debe \ (salvedad.cruzada \cup salvedad.tapada)
    BY <1>2, <1>7, <2>1 DEF AvisosTipos
  <2>3. /\ pendientes[k] # Nada
        /\ \A t \in Pantallas : conexion[t].fase = "al_dia" => lista[t][k] = pendientes[k]
    BY <2>2 DEF AvisosInv, SeVeLoPendiente
  <2>4. l[k] = pendientes[k]
    BY <1>2, <1>3, <1>4, <1>7, <2>1, <2>2, <2>3
  <2> QED BY <1>5, <1>6, <2>3, <2>4
<1>11. SoloUna'
  BY <1>2, <1>7 DEF AvisosInv, SoloUna, Unica, HayOtroPedido
<1>12. AceptadosBien'
  <2>1. SUFFICES ASSUME NEW p \in aceptados, Unica(p)
                 PROVE  /\ p \in atendidos /\ pendientes[MesaDe[p]] # p
                        /\ \A t \in Pantallas :
                             conexion'[t].fase = "al_dia" => lista'[t][MesaDe[p]] # p
    BY <1>2, <1>7 DEF AceptadosBien, Unica
  <2>2. /\ p \in atendidos /\ pendientes[MesaDe[p]] # p /\ MesaDe[p] \in MesasSala
        /\ \A t \in Pantallas : conexion[t].fase = "al_dia" => lista[t][MesaDe[p]] # p
    BY <1>2, <2>1, AvisosAssumption DEF AvisosInv, AvisosTipos, AceptadosBien
  <2>3. l[MesaDe[p]] # p
    BY <1>3, <2>2
  <2> QED BY <1>5, <1>6, <2>2, <2>3
<1> QED BY <1>8, <1>9, <1>10, <1>11, <1>12 DEF AvisosInv

\* The alerts are forgotten, and what is in progress goes on or ends.
LEMMA OlvidadoBien ==
  ASSUME AvisosInv, Olvidado, UNCHANGED <<efectivo, lista, salvedad>>,
         porAvisar' \subseteq porAvisar,
         \/ conexion' = conexion
         \/ conexion' = [s \in Pantallas |-> SinConexion],
         \/ respuesta' = respuesta
         \/ respuesta' = [r \in Respuestas |-> SinRespuesta]
  PROVE  AvisosInv'
<1>1. /\ AvisosTipos /\ pendientes' \in Listas
      /\ \A m \in MesasSala : pendientes'[m] = Nada
      /\ atendidos' = {} /\ debe' = {} /\ aceptados' = {}
      /\ Nada \notin PedidosEfectivo
  BY AvisosAssumption DEF AvisosInv, Olvidado, Listas, Alertas
<1>2. /\ conexion' \in [Pantallas -> Conexiones]
      /\ \A s \in Pantallas : conexion'[s].leyo \subseteq conexion[s].leyo
  BY <1>1 DEF AvisosTipos, SinConexion, Conexiones
<1>3. /\ respuesta' \in [Respuestas -> UnaRespuesta]
      /\ \A r \in Respuestas : respuesta'[r] = respuesta[r] \/ respuesta'[r] = SinRespuesta
  BY <1>1, SinRespuestaHace DEF AvisosTipos
<1>4. AvisosTipos'
  BY <1>1, <1>2, <1>3 DEF AvisosTipos
<1>5. DeSusMesas'
  <2>1. \A m \in MesasSala : DeLaMesa(m, pendientes[m])'
    BY <1>1 DEF DeLaMesa
  <2>2. ASSUME NEW r \in Respuestas, respuesta'[r] = SinRespuesta
        PROVE  /\ respuesta'[r].fase # "libre" => respuesta'[r].mesa \in MesasSala
               /\ DeLaMesa(respuesta[r].mesa, respuesta[r].vio)'
    BY <1>1, <2>2, SinRespuestaHace DEF DeLaMesa
  <2>3. \A o \in PedidosEfectivo : <<"cobro", o>> \in porAvisar' => efectivo'[o] = "cobrado"
    BY DEF AvisosInv, DeSusMesas
  <2> QED BY <1>1, <1>2, <1>3, <2>1, <2>2, <2>3, SeConserva
          DEF AvisosInv, AvisosTipos, Conexiones
<1>6. SeVeLoPendiente' /\ AceptadosBien'
  BY <1>1 DEF SeVeLoPendiente, AceptadosBien
<1>7. SoloUna'
  <2>1. SUFFICES ASSUME NEW p \in PedidosEfectivo, Unica(p)
                 PROVE  /\ ~HayOtroPedido(p)'
                        /\ \A r \in Respuestas :
                             respuesta'[r].fase = "marcar" /\ respuesta'[r].vio = p
                               => respuesta'[r].pedido = p
    BY DEF SoloUna, Unica
  <2>2. ~HayOtroPedido(p)'
    BY <1>1, <2>1, AvisosAssumption DEF AvisosInv, SoloUna, HayOtroPedido
  <2>3. \A r \in Respuestas :
          respuesta'[r].fase = "marcar" /\ respuesta'[r].vio = p => respuesta'[r].pedido = p
    BY <1>3, <2>1, SinRespuestaHace DEF AvisosInv, SoloUna
  <2> QED BY <2>2, <2>3
<1> QED BY <1>4, <1>5, <1>6, <1>7 DEF AvisosInv

LEMMA AvisosInicio ==
  ASSUME AvisosInit
  PROVE  AvisosInv
<1>1. Nada \in Alertas /\ Nada \notin PedidosEfectivo
  BY AvisosAssumption DEF Alertas
<1>2. AvisosTipos
  BY <1>1, SinRespuestaHace
     DEF AvisosInit, AvisosTipos, Listas, Conexiones, SinConexion
<1>3. DeSusMesas
  BY <1>1, SinRespuestaHace DEF AvisosInit, DeSusMesas, DeLaMesa, SinConexion
<1>4. SeVeLoPendiente /\ SoloUna /\ AceptadosBien
  BY DEF AvisosInit, SeVeLoPendiente, SoloUna, AceptadosBien, Unica
<1> QED BY <1>2, <1>3, <1>4 DEF AvisosInv

LEMMA AvisosPaso ==
  ASSUME AvisosInv, [AvisosNext]_avisosVars
  PROVE  AvisosInv'
<1>1. ASSUME NEW m \in MesasSala, LlamarMozo(m) \/ CerrarMesa(m) \/ AvisarCierre(m)
      PROVE  AvisosInv'
  BY <1>1, LlamarMozoBien, CerrarMesaBien, AvisarCierreBien
<1>2. ASSUME NEW p \in PedidosEfectivo,
             SolicitarEfectivo(p) \/ AvisarSolicitud(p) \/ Cobrar(p) \/ AvisarCobro(p)
      PROVE  AvisosInv'
  BY <1>2, SolicitarBien, AvisarSolicitudBien, CobrarBien, AvisarCobroBien
<1>3. ASSUME NEW r \in Respuestas, NEW s \in Pantallas, NEW m \in MesasSala,
             Responder(r, s, m)
      PROVE  AvisosInv'
  BY <1>3, ResponderBien
<1>4. ASSUME NEW r \in Respuestas,
             ResolverLlamado(r) \/ LeerDeLaMesa(r) \/ FallarLectura(r) \/ MarcarAtendido(r)
      PROVE  AvisosInv'
  BY <1>4, ResolverBien, LeerDeLaMesaBien, FallarLecturaBien, MarcarAtendidoBien
<1>5. ASSUME NEW s \in Pantallas,
             Sincronizar(s) \/ Cortar(s) \/ LeerSolicitudes(s) \/ EmitirSnapshot(s)
      PROVE  AvisosInv'
  BY <1>5, SincronizarBien, CortarBien, LeerSolicitudesBien, SnapshotBien
<1>6. CASE VencerAlertas
  BY <1>6, OlvidadoBien DEF VencerAlertas
<1>7. CASE Reiniciar
  BY <1>7, OlvidadoBien DEF Reiniciar
<1>8. CASE UNCHANGED avisosVars
  BY <1>8 DEF avisosVars, AvisosInv, AvisosTipos, DeSusMesas, DeLaMesa, SeVeLoPendiente,
              SoloUna, AceptadosBien, Unica, HayOtroPedido
<1> QED BY <1>1, <1>2, <1>3, <1>4, <1>5, <1>6, <1>7, <1>8 DEF AvisosNext

\* The alerts in memory, on the screens and in the answers in progress agree,
\* whatever crosses on the way (alertas-pendientes.ts, pedidos.gateway.ts).
THEOREM AvisosSpecInv == AvisosSpec => []AvisosInv
<1>1. AvisosInit => AvisosInv
  BY AvisosInicio
<1>2. AvisosInv /\ [AvisosNext]_avisosVars => AvisosInv'
  BY AvisosPaso
<1> QED BY <1>1, <1>2, PTL DEF AvisosSpec

\* A table that called is on every screen that is up to date, until a waiter
\* attends it (alertas-pendientes.ts:9).
THEOREM ElLlamadoSeVe == AvisosSpec => []AlertaVisible
<1>1. AvisosInv => AlertaVisible
  BY DEF AvisosInv, SeVeLoPendiente, AlertaVisible
<1> QED BY <1>1, AvisosSpecInv, PTL

\* A request of cash that a waiter attended does not come back to the screens
\* while the order waits to be paid (alertas-pendientes.ts:14-18).
THEOREM LoAtendidoNoVuelve == AvisosSpec => []AceptadoNoVuelve
<1>1. AvisosInv => AceptadoNoVuelve
  BY DEF AvisosInv, AvisosTipos, AceptadosBien, Unica, AceptadoNoVuelve
<1> QED BY <1>1, AvisosSpecInv, PTL

-----------------------------------------------------------------------------
(* The screens: the invariant *)

EstadosOrden ==
  {"PENDIENTE_PAGO", "RECIBIDO", "EN_PREPARACION", "LISTO_PARA_ENTREGAR", "ENTREGADO"}

Muestra(e) == IF e \in {"PENDIENTE_PAGO", "ENTREGADO"} THEN "fuera" ELSE e

Fichas == [estado : EstadosOrden \cup {"fuera"}, v : Nat]

Eventos == [orden : Ordenes, nuevo : BOOLEAN, estado : EstadosOrden, v : Nat]

\* What a copy is made of depends on its phase.
UnPase(p) ==
  [fase : {"libre", "leyo", "hecho", "emitido", "colaLeida"}, de : SUBSET Tableros,
   orden : SUBSET Ordenes, a : EstadosOrden \cup {""}, eventos : SUBSET Eventos,
   forzar : BOOLEAN, cola : {p.cola}]

UnaFoto(f) == [fase : {"nada", "pedida", "leida", "cola", "colaLeida"}, leido : {f.leido}]

UnTablero(t) ==
  [conectado : BOOLEAN, montado : BOOLEAN, cargando : BOOLEAN, error : BOOLEAN,
   alConectar : UnaFoto(t.alConectar), sync : UnaFoto(t.sync),
   lista : [Ordenes -> Fichas], cola : {t.cola}, visto : [Ordenes -> Nat], colaVista : Nat,
   perdido : [Ordenes -> Nat], colaPerdida : Nat, sinCopia : BOOLEAN]

UnSeguidor(s) ==
  [fase : {"fuera", "pide", "leido", "cola", "colaLeida", "sigue"}, leido : {s.leido},
   estado : Fichas, lugar : [puesto : Nat, v : Nat], visto : Nat, perdido : Nat,
   lugarVisto : Nat, lugarPerdido : Nat]

SalonForma ==
  /\ etapa \in [Ordenes -> EstadosOrden]
  /\ version \in [Ordenes -> Nat]
  /\ llegada \in [Ordenes -> Nat]
  /\ tope \in LimitesCola
  /\ hechos \in Nat \ {0}
  /\ \A o \in Ordenes : version[o] = 0 <=> etapa[o] = "PENDIENTE_PAGO"

TableroForma ==
  /\ SalonForma
  /\ pase = [h \in Pases |-> pase[h]] /\ \A h \in Pases : pase[h] \in UnPase(pase[h])
  /\ tablero = [w \in Tableros |-> tablero[w]]
  /\ \A w \in Tableros : tablero[w] \in UnTablero(tablero[w])
  /\ seguidor = [d \in Seguidores |-> seguidor[d]]
  /\ \A d \in Seguidores : seguidor[d] \in UnSeguidor(seguidor[d])

\* A copy that was read: of the last version, it is what the database has.
FichaFiel(o, ficha) ==
  /\ ficha.v \in 0..version[o] /\ ficha.estado \in EstadosOrden
  /\ ficha.v = version[o] => ficha.estado = etapa[o]

CopiaFiel(copia) ==
  /\ copia.v \in 0..hechos /\ \A o \in Ordenes : Puesto(copia.cola.espera, o) \in Nat
  /\ copia.v = hechos => copia.cola = FotoDeLaCola

\* What is told of an order.
EventoFiel(e) ==
  /\ FichaFiel(e.orden, e) /\ e.v > 0
  /\ e.estado # "PENDIENTE_PAGO"
  /\ e.nuevo => e.estado \in {"RECIBIDO", "EN_PREPARACION"}

PaseFiel(p) ==
  /\ p.fase # "hecho" => p.eventos = {}
  /\ \A e \in p.eventos :
       /\ EventoFiel(e)
       /\ \A x \in p.eventos : x.orden = e.orden => x = e
  /\ p.fase = "colaLeida" => CopiaFiel(p.cola)
  /\ p.fase = "leyo" =>
       /\ p.a \in {"EN_PREPARACION", "LISTO_PARA_ENTREGAR", "ENTREGADO"}
       /\ \A o \in p.orden : etapa[o] # "PENDIENTE_PAGO"

PasesFieles == \A h \in Pases : PaseFiel(pase[h])

\* The last change of o, or the last state of the queue, is still to be told.
PorDecir(o) == \E h \in Pases : \E e \in pase[h].eventos : e.orden = o /\ e.v = version[o]

ColaPorDecir ==
  \E h \in Pases :
    \/ pase[h].fase \in {"hecho", "emitido"}
    \/ pase[h].fase = "colaLeida" /\ pase[h].cola.v = hechos

FotoFiel(f) ==
  /\ f.fase = "leida" => \A o \in Ordenes : f.leido[o] \in Fichas /\ FichaFiel(o, f.leido[o])
  /\ f.fase = "colaLeida" => CopiaFiel(f.leido)

Fotos(t) == {t.alConectar, t.sync}

TableroFiel(t) ==
  /\ \A f \in Fotos(t) : FotoFiel(f)
  /\ \A o \in Ordenes :
       /\ t.lista[o].v <= version[o]
       /\ t.lista[o].v = version[o] => t.lista[o].estado = Muestra(etapa[o])
       /\ t.visto[o] <= version[o] /\ t.perdido[o] <= version[o]
  /\ t.colaVista <= hechos /\ t.cola.v \in 0..hechos
  /\ t.cola.v = hechos => t.cola.cola = FotoDeLaCola

\* What a board was told, or is to be told.
TraeLasOrdenes(f) == f.fase \in {"pedida", "leida"}

Trae(f, o) ==
  \/ f.fase = "pedida"
  \/ f.fase = "leida" /\ f.leido[o].v = version[o]

TraeLaCola(f) ==
  \/ f.fase \in {"pedida", "leida", "cola"}
  \/ f.fase = "colaLeida" /\ f.leido.v = hechos

\* The server told it, or failed to tell it.
Dicha(t, o) == version[o] \in {t.visto[o], t.perdido[o]}

ColaDicha(t) == hechos \in {t.colaVista, t.colaPerdida}

TableroEnterado(t) ==
  t.conectado /\ t.montado /\ ~t.sinCopia =>
    /\ t.cargando => \E f \in Fotos(t) : TraeLasOrdenes(f)
    /\ \A o \in Ordenes : Dicha(t, o) \/ PorDecir(o) \/ \E f \in Fotos(t) : Trae(f, o)
    /\ tope # SinCola => ColaDicha(t) \/ ColaPorDecir \/ \E f \in Fotos(t) : TraeLaCola(f)

\* The same of the page of a diner that follows o.
SeguidorFiel(s, o) ==
  /\ s.fase # "fuera" => etapa[o] # "PENDIENTE_PAGO"
  /\ s.estado.v <= version[o] /\ s.visto <= version[o] /\ s.perdido <= version[o]
  /\ s.estado.v = version[o] /\ etapa[o] # "PENDIENTE_PAGO" => s.estado.estado = etapa[o]
  /\ s.lugarVisto <= hechos /\ s.lugar.v <= hechos
  /\ s.lugar.v = hechos => s.lugar.puesto = Puesto(FotoDeLaCola.espera, o)
  /\ s.fase = "leido" =>
       /\ s.leido \in Fichas /\ FichaFiel(o, s.leido)
       /\ s.leido.estado # "RECIBIDO" => etapa[o] # "RECIBIDO"
  /\ s.fase = "colaLeida" =>
       /\ s.leido.puesto \in Nat /\ s.leido.v \in 0..hechos
       /\ s.leido.v = hechos => s.leido.puesto = Puesto(FotoDeLaCola.espera, o)

LugarDicho(s) == hechos \in {s.lugarVisto, s.lugarPerdido}

SeguidorEnterado(s, o) ==
  /\ s.fase = "leido" =>
       s.leido.v = version[o] \/ s.perdido = version[o] \/ PorDecir(o)
  /\ s.fase \in {"cola", "colaLeida", "sigue"} =>
       version[o] \in {s.visto, s.perdido} \/ PorDecir(o)
  /\ s.fase \in {"colaLeida", "sigue"} /\ tope # SinCola /\ etapa[o] = "RECIBIDO" =>
       \/ ColaPorDecir \/ LugarDicho(s)
       \/ s.fase = "colaLeida" /\ s.leido.v = hechos

TableroInv ==
  /\ TableroForma /\ PasesFieles
  /\ \A w \in Tableros : TableroFiel(tablero[w]) /\ TableroEnterado(tablero[w])
  /\ \A d \in Seguidores :
       SeguidorFiel(seguidor[d], Sigue[d]) /\ SeguidorEnterado(seguidor[d], Sigue[d])

\* An order that waits has a place, and one that does not has none.
LEMMA ElPuesto ==
  ASSUME SalonForma, NEW o \in Ordenes
  PROVE  /\ Puesto(FotoDeLaCola.espera, o) \in Nat
         /\ tope # SinCola =>
              (etapa[o] = "RECIBIDO" <=> o \in DOMAIN FotoDeLaCola.espera)
         /\ o \in DOMAIN FotoDeLaCola.espera => Puesto(FotoDeLaCola.espera, o) > 0
<1> DEFINE espera == {q \in Ordenes : etapa[q] = "RECIBIDO"}
           previas(x) == {q \in espera : llegada[q] <= llegada[x]}
<1>1. ASSUME NEW x \in espera
      PROVE  Cardinality(previas(x)) \in Nat /\ Cardinality(previas(x)) > 0
  <2>1. previas(x) \subseteq Ordenes
    OBVIOUS
  <2>2. IsFiniteSet(previas(x))
    BY <2>1, FS_Subset, TableroAssumption
  <2>3. x \in previas(x)
    BY DEF SalonForma
  <2> HIDE DEF previas
  <2>4. Cardinality(previas(x)) \in Nat /\ Cardinality(previas(x)) # 0
    BY <2>2, <2>3, FS_CardinalityType, FS_EmptySet
  <2> QED BY <2>4
<1>2. CASE tope = SinCola
  <2>1. FotoDeLaCola.espera = <<>>
    BY <1>2 DEF FotoDeLaCola, ColaApagada
  <2>2. DOMAIN FotoDeLaCola.espera = {}
    BY <2>1
  <2> QED BY <1>2, <2>2 DEF Puesto
<1>3. CASE tope # SinCola
  <2>1. FotoDeLaCola.espera = [x \in espera |-> Cardinality(previas(x))]
    BY <1>3 DEF FotoDeLaCola, Esperando
  <2> HIDE DEF previas
  <2>2. ASSUME o \in espera
        PROVE  /\ o \in DOMAIN FotoDeLaCola.espera /\ etapa[o] = "RECIBIDO"
               /\ FotoDeLaCola.espera[o] \in Nat /\ FotoDeLaCola.espera[o] > 0
    BY <1>1, <2>1, <2>2
  <2>3. o \notin espera => o \notin DOMAIN FotoDeLaCola.espera /\ etapa[o] # "RECIBIDO"
    BY <2>1
  <2> QED BY <2>2, <2>3 DEF Puesto
<1> QED BY <1>2, <1>3

\* What is read of the queue now is true of it.
LEMMA CopiaDeAhora ==
  ASSUME SalonForma, NEW copia, copia = [cola |-> FotoDeLaCola, v |-> hechos]
  PROVE  CopiaFiel(copia) /\ copia.v = hechos
BY ElPuesto DEF CopiaFiel, SalonForma

-----------------------------------------------------------------------------
(* The screens: a step of one board, or of one page *)

LEMMA FotoIgual ==
  ASSUME UNCHANGED salonVars
  PROVE  FotoDeLaCola' = FotoDeLaCola
BY DEF salonVars, FotoDeLaCola, Esperando, Cocinando

\* While the database and the requests do not change, what is true of them is.
LEMMA PasesIguales ==
  ASSUME TableroInv, UNCHANGED <<salonVars, pase>>
  PROVE  SalonForma' /\ PasesFieles'
<1>1. FotoDeLaCola' = FotoDeLaCola
  BY FotoIgual
<1>2. SalonForma'
  BY DEF TableroInv, TableroForma, SalonForma, salonVars
<1> QED BY <1>1, <1>2
        DEF TableroInv, PasesFieles, PaseFiel, EventoFiel, FichaFiel, CopiaFiel, salonVars

LEMMA TableroIgual ==
  ASSUME UNCHANGED <<salonVars, pase>>, NEW t, TableroFiel(t), TableroEnterado(t)
  PROVE  TableroFiel(t)' /\ TableroEnterado(t)'
<1>1. FotoDeLaCola' = FotoDeLaCola
  BY FotoIgual
<1>2. TableroFiel(t)'
  BY <1>1 DEF TableroFiel, FotoFiel, FichaFiel, CopiaFiel, salonVars
<1>3. TableroEnterado(t)'
  BY <1>1 DEF TableroEnterado, Trae, TraeLaCola, Dicha, ColaDicha, PorDecir, ColaPorDecir,
                salonVars
<1> QED BY <1>2, <1>3

LEMMA SeguidorIgual ==
  ASSUME UNCHANGED <<salonVars, pase>>, NEW s, NEW o, SeguidorFiel(s, o), SeguidorEnterado(s, o)
  PROVE  SeguidorFiel(s, o)' /\ SeguidorEnterado(s, o)'
<1>1. FotoDeLaCola' = FotoDeLaCola
  BY FotoIgual
<1>2. SeguidorFiel(s, o)'
  BY <1>1 DEF SeguidorFiel, FichaFiel, salonVars
<1>3. SeguidorEnterado(s, o)'
  BY <1>1 DEF SeguidorEnterado, LugarDicho, PorDecir, ColaPorDecir, salonVars
<1> QED BY <1>2, <1>3

\* The invariant, with the screens named.
LEMMA InvDePantallas ==
  ASSUME SalonForma', PasesFieles',
         pase' = [h \in Pases |-> pase'[h]], \A h \in Pases : pase'[h] \in UnPase(pase'[h]),
         tablero' = [w \in Tableros |-> tablero'[w]],
         seguidor' = [d \in Seguidores |-> seguidor'[d]],
         \A w \in Tableros : \E t :
           t = tablero'[w] /\ t \in UnTablero(t) /\ TableroFiel(t)' /\ TableroEnterado(t)',
         \A d \in Seguidores : \E s :
           /\ s = seguidor'[d] /\ s \in UnSeguidor(s)
           /\ SeguidorFiel(s, Sigue[d])' /\ SeguidorEnterado(s, Sigue[d])'
  PROVE  TableroInv'
<1>1. ASSUME NEW w \in Tableros
      PROVE  /\ tablero'[w] \in UnTablero(tablero'[w])
             /\ TableroFiel(tablero[w])' /\ TableroEnterado(tablero[w])'
  <2>1. PICK t : t = tablero'[w] /\ t \in UnTablero(t) /\ TableroFiel(t)' /\ TableroEnterado(t)'
    OBVIOUS
  <2>2. tablero'[w] \in UnTablero(tablero'[w])
    BY <2>1
  <2>3. TableroFiel(tablero[w])'
    BY <2>1 DEF TableroFiel
  <2>4. TableroEnterado(tablero[w])'
    BY <2>1 DEF TableroEnterado, Dicha, ColaDicha
  <2> QED BY <2>2, <2>3, <2>4
<1>2. ASSUME NEW d \in Seguidores
      PROVE  /\ seguidor'[d] \in UnSeguidor(seguidor'[d])
             /\ SeguidorFiel(seguidor[d], Sigue[d])' /\ SeguidorEnterado(seguidor[d], Sigue[d])'
  <2>1. PICK s : /\ s = seguidor'[d] /\ s \in UnSeguidor(s)
                 /\ SeguidorFiel(s, Sigue[d])' /\ SeguidorEnterado(s, Sigue[d])'
    OBVIOUS
  <2>2. seguidor'[d] \in UnSeguidor(seguidor'[d])
    BY <2>1
  <2>3. SeguidorFiel(seguidor[d], Sigue[d])'
    BY <2>1 DEF SeguidorFiel, FichaFiel
  <2>4. SeguidorEnterado(seguidor[d], Sigue[d])'
    BY <2>1 DEF SeguidorEnterado, LugarDicho
  <2> QED BY <2>2, <2>3, <2>4
<1>3. TableroForma'
  BY <1>1, <1>2 DEF TableroForma, UnTablero, UnSeguidor, UnPase, UnaFoto
<1> QED BY <1>1, <1>2, <1>3 DEF TableroInv

LEMMA TableroSolo ==
  ASSUME TableroInv, NEW w \in Tableros, NEW t, tablero' = [tablero EXCEPT ![w] = t],
         t \in UnTablero(t), TableroFiel(t), TableroEnterado(t),
         UNCHANGED <<salonVars, pase, seguidor>>
  PROVE  TableroInv'
<1>1. SalonForma' /\ PasesFieles'
  BY PasesIguales
<1>2. /\ pase' = [h \in Pases |-> pase'[h]] /\ \A h \in Pases : pase'[h] \in UnPase(pase'[h])
      /\ tablero' = [x \in Tableros |-> tablero'[x]]
      /\ seguidor' = [d \in Seguidores |-> seguidor'[d]]
  BY DEF TableroInv, TableroForma, UnPase
<1>3. \A x \in Tableros : \E u :
        u = tablero'[x] /\ u \in UnTablero(u) /\ TableroFiel(u)' /\ TableroEnterado(u)'
  <2> TAKE x \in Tableros
  <2>1. PICK u : u = IF x = w THEN t ELSE tablero[x]
    OBVIOUS
  <2>2. u = tablero'[x]
    BY <2>1 DEF TableroInv, TableroForma
  <2>3. u \in UnTablero(u) /\ TableroFiel(u) /\ TableroEnterado(u)
    BY <2>1 DEF TableroInv, TableroForma
  <2> QED BY <2>2, <2>3, TableroIgual
<1>4. \A d \in Seguidores : \E s :
        /\ s = seguidor'[d] /\ s \in UnSeguidor(s)
        /\ SeguidorFiel(s, Sigue[d])' /\ SeguidorEnterado(s, Sigue[d])'
  <2> TAKE d \in Seguidores
  <2>1. PICK s : s = seguidor[d]
    OBVIOUS
  <2>2. PICK o : o = Sigue[d]
    OBVIOUS
  <2>3. s \in UnSeguidor(s) /\ SeguidorFiel(s, o) /\ SeguidorEnterado(s, o)
    BY <2>1, <2>2 DEF TableroInv, TableroForma
  <2>4. SeguidorFiel(s, o)' /\ SeguidorEnterado(s, o)'
    BY <2>3, SeguidorIgual
  <2> QED BY <2>1, <2>2, <2>3, <2>4
<1> QED BY <1>1, <1>2, <1>3, <1>4, InvDePantallas

LEMMA SeguidorSolo ==
  ASSUME TableroInv, NEW d \in Seguidores, NEW s, seguidor' = [seguidor EXCEPT ![d] = s],
         s \in UnSeguidor(s), SeguidorFiel(s, Sigue[d]), SeguidorEnterado(s, Sigue[d]),
         UNCHANGED <<salonVars, pase, tablero>>
  PROVE  TableroInv'
<1>1. SalonForma' /\ PasesFieles'
  BY PasesIguales
<1>2. /\ pase' = [h \in Pases |-> pase'[h]] /\ \A h \in Pases : pase'[h] \in UnPase(pase'[h])
      /\ tablero' = [x \in Tableros |-> tablero'[x]]
      /\ seguidor' = [x \in Seguidores |-> seguidor'[x]]
  BY DEF TableroInv, TableroForma, UnPase
<1>3. \A x \in Tableros : \E t :
        t = tablero'[x] /\ t \in UnTablero(t) /\ TableroFiel(t)' /\ TableroEnterado(t)'
  <2> TAKE x \in Tableros
  <2>1. PICK t : t = tablero[x]
    OBVIOUS
  <2>2. t \in UnTablero(t) /\ TableroFiel(t) /\ TableroEnterado(t)
    BY <2>1 DEF TableroInv, TableroForma
  <2> QED BY <2>1, <2>2, TableroIgual
<1>4. \A x \in Seguidores : \E u :
        /\ u = seguidor'[x] /\ u \in UnSeguidor(u)
        /\ SeguidorFiel(u, Sigue[x])' /\ SeguidorEnterado(u, Sigue[x])'
  <2> TAKE x \in Seguidores
  <2>1. PICK u : u = IF x = d THEN s ELSE seguidor[x]
    OBVIOUS
  <2>2. PICK o : o = Sigue[x]
    OBVIOUS
  <2>3. u = seguidor'[x]
    BY <2>1 DEF TableroInv, TableroForma
  <2>4. u \in UnSeguidor(u) /\ SeguidorFiel(u, o) /\ SeguidorEnterado(u, o)
    BY <2>1, <2>2 DEF TableroInv, TableroForma
  <2>5. SeguidorFiel(u, o)' /\ SeguidorEnterado(u, o)'
    BY <2>4, SeguidorIgual
  <2> QED BY <2>2, <2>3, <2>4, <2>5
<1> QED BY <1>1, <1>2, <1>3, <1>4, InvDePantallas

-----------------------------------------------------------------------------
(* The screens: the steps of a board *)

\* What t shows, and what it was told, is what u does.
MismosDatos(t, u) ==
  /\ t.lista = u.lista /\ t.visto = u.visto /\ t.perdido = u.perdido
  /\ t.cola = u.cola /\ t.colaVista = u.colaVista /\ t.colaPerdida = u.colaPerdida

\* t is the board u, whose copy x became g.
FotoCambiada(t, u, x, g) ==
  /\ t \in UnTablero(t) /\ g \in Fotos(t)
  /\ \A f \in Fotos(t) : f = g \/ f \in Fotos(u)
  /\ \A f \in Fotos(u) : f = x \/ f \in Fotos(t)
  /\ t.conectado = u.conectado /\ t.montado = u.montado /\ t.cargando = u.cargando
  /\ t.sinCopia = u.sinCopia /\ MismosDatos(t, u)

LEMMA CambiaFoto ==
  ASSUME NEW u, u \in UnTablero(u), NEW c \in {"alConectar", "sync"}, NEW g, g \in UnaFoto(g),
         NEW t, t = [u EXCEPT ![c] = g]
  PROVE  FotoCambiada(t, u, u[c], g)
<1>1. CASE c = "alConectar"
  BY <1>1 DEF UnTablero, Fotos, UnaFoto, FotoCambiada, MismosDatos
<1>2. CASE c = "sync"
  BY <1>2 DEF UnTablero, Fotos, UnaFoto, FotoCambiada, MismosDatos
<1> QED BY <1>1, <1>2

LEMMA EsFoto ==
  ASSUME NEW u, NEW c \in {"alConectar", "sync"}
  PROVE  u[c] \in Fotos(u)
<1>1. CASE c = "alConectar"
  BY <1>1 DEF Fotos
<1>2. CASE c = "sync"
  BY <1>2 DEF Fotos
<1> QED BY <1>1, <1>2

LEMMA LasFotos ==
  /\ SinFoto \in UnaFoto(SinFoto) /\ SinFoto.fase = "nada"
  /\ FotoPedida \in UnaFoto(FotoPedida) /\ FotoPedida.fase = "pedida"
BY DEF SinFoto, FotoPedida, UnaFoto

LEMMA ConectarTableroBien ==
  ASSUME TableroInv, NEW w \in Tableros, ConectarTablero(w)
  PROVE  TableroInv'
<1>1. PICK u : u = tablero[w]
  OBVIOUS
<1>2. u \in UnTablero(u) /\ TableroFiel(u) /\ SalonForma
  BY <1>1 DEF TableroInv, TableroForma
<1>3. PICK t : t = [u EXCEPT !.conectado = TRUE, !.alConectar = FotoPedida, !.sinCopia = FALSE,
                             !.perdido = [o \in Ordenes |-> 0], !.colaPerdida = 0]
  OBVIOUS
<1>4. /\ t \in UnTablero(t) /\ FotoPedida \in Fotos(t)
      /\ \A f \in Fotos(t) : f = FotoPedida \/ f \in Fotos(u)
      /\ t.lista = u.lista /\ t.visto = u.visto /\ t.perdido = [o \in Ordenes |-> 0]
      /\ t.cola = u.cola /\ t.colaVista = u.colaVista
  BY <1>2, <1>3, LasFotos DEF UnTablero, Fotos
<1>5. TableroFiel(t)
  BY <1>2, <1>4, LasFotos DEF TableroFiel, FotoFiel, SalonForma
<1>6. TableroEnterado(t)
  BY <1>4, LasFotos DEF TableroEnterado, TraeLasOrdenes, Trae, TraeLaCola
<1>7. tablero' = [tablero EXCEPT ![w] = t] /\ UNCHANGED <<salonVars, pase, seguidor>>
  BY <1>1, <1>3 DEF ConectarTablero
<1> QED BY <1>4, <1>5, <1>6, <1>7, TableroSolo

LEMMA MontarBien ==
  ASSUME TableroInv, NEW w \in Tableros, Montar(w)
  PROVE  TableroInv'
<1>1. PICK u : u = tablero[w]
  OBVIOUS
<1>2. u \in UnTablero(u) /\ TableroFiel(u)
  BY <1>1 DEF TableroInv, TableroForma
<1>3. PICK g : g = IF u.conectado THEN FotoPedida ELSE SinFoto
  OBVIOUS
<1>4. PICK t : t = [u EXCEPT !.montado = TRUE, !.sync = g]
  OBVIOUS
<1>5. /\ t \in UnTablero(t) /\ g \in Fotos(t) /\ t.conectado = u.conectado
      /\ \A f \in Fotos(t) : f = g \/ f \in Fotos(u)
      /\ MismosDatos(t, u)
  BY <1>2, <1>3, <1>4, LasFotos DEF UnTablero, Fotos, MismosDatos
<1>6. TableroFiel(t)
  BY <1>2, <1>3, <1>5, LasFotos DEF TableroFiel, FotoFiel, MismosDatos
<1>7. TableroEnterado(t)
  BY <1>3, <1>5, LasFotos DEF TableroEnterado, TraeLasOrdenes, Trae, TraeLaCola
<1>8. tablero' = [tablero EXCEPT ![w] = t] /\ UNCHANGED <<salonVars, pase, seguidor>>
  BY <1>1, <1>3, <1>4 DEF Montar
<1> QED BY <1>5, <1>6, <1>7, <1>8, TableroSolo

LEMMA ElNuevo ==
  ASSUME NEW x \in BOOLEAN
  PROVE  /\ TableroNuevo(x) \in UnTablero(TableroNuevo(x))
         /\ TableroNuevo(x).alConectar = SinFoto /\ TableroNuevo(x).sync = SinFoto
         /\ ~TableroNuevo(x).montado /\ TableroNuevo(x).conectado = x
         /\ TableroNuevo(x).lista = [o \in Ordenes |-> SinDato]
         /\ TableroNuevo(x).visto = [o \in Ordenes |-> 0]
         /\ TableroNuevo(x).perdido = [o \in Ordenes |-> 0]
         /\ TableroNuevo(x).colaVista = 0 /\ TableroNuevo(x).cola.v = 0
  BY LasFotos DEF TableroNuevo, UnTablero, Fichas, SinDato, SinCopiaDeCola

LEMMA DesmontarBien ==
  ASSUME TableroInv, NEW w \in Tableros, Desmontar(w)
  PROVE  TableroInv'
<1>1. PICK u : u = tablero[w]
  OBVIOUS
<1>2. u \in UnTablero(u) /\ TableroFiel(u) /\ u.conectado \in BOOLEAN
  BY <1>1 DEF TableroInv, TableroForma, UnTablero
<1>3. PICK n : n = TableroNuevo(u.conectado)
  OBVIOUS
<1>4. PICK t : t = [n EXCEPT !.alConectar = u.alConectar, !.sync = u.sync]
  OBVIOUS
<1>5. /\ n \in UnTablero(n) /\ ~n.montado
      /\ n.lista = [o \in Ordenes |-> SinDato] /\ n.visto = [o \in Ordenes |-> 0]
      /\ n.perdido = [o \in Ordenes |-> 0] /\ n.colaVista = 0 /\ n.cola.v = 0
  BY <1>2, <1>3, ElNuevo
<1>6. t \in UnTablero(t) /\ ~t.montado /\ Fotos(t) = Fotos(u) /\ MismosDatos(t, n)
  BY <1>2, <1>4, <1>5 DEF UnTablero, Fotos, MismosDatos
<1>7. TableroFiel(t)
  BY <1>2, <1>5, <1>6
     DEF TableroFiel, Muestra, SinDato, TableroInv, TableroForma, SalonForma, MismosDatos
<1>8. TableroEnterado(t)
  BY <1>6 DEF TableroEnterado
<1>9. tablero' = [tablero EXCEPT ![w] = t] /\ UNCHANGED <<salonVars, pase, seguidor>>
  BY <1>1, <1>3, <1>4 DEF Desmontar, TableroInv, TableroForma
<1> QED BY <1>6, <1>7, <1>8, <1>9, TableroSolo

\* A board that is cut owes nothing.
LEMMA TableroCortado ==
  ASSUME NEW u, u \in UnTablero(u), TableroFiel(u), NEW t, t = Cortado(u)
  PROVE  t \in UnTablero(t) /\ TableroFiel(t) /\ TableroEnterado(t) /\ ~t.conectado
<1>1. /\ t \in UnTablero(t) /\ ~t.conectado /\ Fotos(t) = {SinFoto} /\ MismosDatos(t, u)
  BY LasFotos DEF Cortado, UnTablero, Fotos, MismosDatos
<1> QED BY <1>1, LasFotos DEF TableroFiel, FotoFiel, TableroEnterado, MismosDatos

\* The copy c of a board goes on, as far as it is true and it tells as much.
LEMMA FotoSigue ==
  ASSUME TableroInv, NEW w \in Tableros, NEW u, u = tablero[w],
         NEW c \in {"alConectar", "sync"}, NEW g, g \in UnaFoto(g), FotoFiel(g),
         TraeLasOrdenes(u[c]) => TraeLasOrdenes(g),
         \A o \in Ordenes : Trae(u[c], o) => Trae(g, o),
         tope # SinCola => TraeLaCola(g),
         tablero' = [tablero EXCEPT ![w][c] = g],
         UNCHANGED <<salonVars, pase, seguidor>>
  PROVE  TableroInv'
<1>1. u \in UnTablero(u) /\ TableroFiel(u) /\ TableroEnterado(u)
  BY DEF TableroInv, TableroForma
<1>2. PICK t : t = [u EXCEPT ![c] = g]
  OBVIOUS
<1>3. FotoCambiada(t, u, u[c], g)
  BY <1>1, <1>2, CambiaFoto
<1>4. TableroFiel(t)
  BY <1>1, <1>3 DEF TableroFiel, FotoCambiada, MismosDatos
<1>5. TableroEnterado(t)
  BY <1>1, <1>3 DEF TableroEnterado, FotoCambiada, MismosDatos, Dicha, ColaDicha
<1>6. tablero' = [tablero EXCEPT ![w] = t] /\ t \in UnTablero(t)
  BY <1>2, <1>3 DEF FotoCambiada
<1> QED BY <1>4, <1>5, <1>6, TableroSolo

LEMMA LeerPedidosBien ==
  ASSUME TableroInv, NEW w \in Tableros, NEW c \in {"alConectar", "sync"}, LeerPedidos(w, c)
  PROVE  TableroInv'
<1>1. PICK u : u = tablero[w]
  OBVIOUS
<1>2. PICK g : g = [fase |-> "leida",
                    leido |-> [o \in Ordenes |-> [estado |-> etapa[o], v |-> version[o]]]]
  OBVIOUS
<1>3. g \in UnaFoto(g) /\ g.fase = "leida"
  BY <1>2 DEF UnaFoto
<1>4. \A o \in Ordenes : /\ g.leido[o] \in Fichas /\ FichaFiel(o, g.leido[o])
                          /\ g.leido[o].v = version[o]
  BY <1>2 DEF Fichas, FichaFiel, TableroInv, TableroForma, SalonForma
<1>5. FotoFiel(g) /\ TraeLasOrdenes(g) /\ TraeLaCola(g) /\ \A o \in Ordenes : Trae(g, o)
  BY <1>3, <1>4 DEF FotoFiel, TraeLasOrdenes, TraeLaCola, Trae
<1>6. tablero' = [tablero EXCEPT ![w][c] = g] /\ UNCHANGED <<salonVars, pase, seguidor>>
  BY <1>2 DEF LeerPedidos
<1> QED BY <1>1, <1>3, <1>5, <1>6, FotoSigue

LEMMA LeerColaDeLaFotoBien ==
  ASSUME TableroInv, NEW w \in Tableros, NEW c \in {"alConectar", "sync"},
         LeerColaDeLaFoto(w, c)
  PROVE  TableroInv'
<1>1. PICK u : u = tablero[w]
  OBVIOUS
<1>2. PICK g : g = IF tope = SinCola THEN SinFoto
                   ELSE [fase |-> "colaLeida", leido |-> [cola |-> FotoDeLaCola, v |-> hechos]]
  OBVIOUS
<1>3. /\ g \in UnaFoto(g) /\ FotoFiel(g)
      /\ tope # SinCola => TraeLaCola(g)
  <2>1. CASE tope = SinCola
    BY <1>2, <2>1, LasFotos DEF FotoFiel
  <2>2. CASE tope # SinCola
    <3>1. PICK copia : copia = [cola |-> FotoDeLaCola, v |-> hechos]
      OBVIOUS
    <3>2. CopiaFiel(copia) /\ copia.v = hechos
      BY <3>1, CopiaDeAhora DEF TableroInv, TableroForma
    <3>3. g \in UnaFoto(g) /\ g.fase = "colaLeida" /\ g.leido = copia
      BY <1>2, <2>2, <3>1 DEF UnaFoto
    <3> QED BY <3>2, <3>3 DEF FotoFiel, TraeLaCola
  <2> QED BY <2>1, <2>2
<1>4. ~TraeLasOrdenes(u[c]) /\ \A o \in Ordenes : ~Trae(u[c], o)
  BY <1>1 DEF LeerColaDeLaFoto, TraeLasOrdenes, Trae
<1>5. tablero' = [tablero EXCEPT ![w][c] = g] /\ UNCHANGED <<salonVars, pase, seguidor>>
  BY <1>2 DEF LeerColaDeLaFoto
<1> QED BY <1>1, <1>3, <1>4, <1>5, FotoSigue

\* What a board does with what it receives leaves its copies and its
\* connection as they were.
IgualPorFuera(n, u) ==
  /\ n.alConectar = u.alConectar /\ n.sync = u.sync
  /\ n.conectado = u.conectado /\ n.montado = u.montado /\ n.sinCopia = u.sinCopia

LEMMA MaximoHace ==
  ASSUME NEW m \in Nat, NEW k \in Nat
  PROVE  /\ Maximo(m, k) \in Nat /\ Maximo(m, k) >= m /\ Maximo(m, k) >= k
         /\ Maximo(m, k) \in {m, k}
BY DEF Maximo

LEMMA ConFotoHace ==
  ASSUME SalonForma, NEW u, u \in UnTablero(u), TableroFiel(u),
         NEW fichas, \A o \in Ordenes : FichaFiel(o, fichas[o]) /\ fichas[o] \in Fichas,
         NEW n, n = SiMontado(u, ConFoto(u, fichas))
  PROVE  /\ n \in UnTablero(n) /\ IgualPorFuera(n, u) /\ TableroFiel(n)
         /\ n.montado => ~n.cargando
         /\ \A o \in Ordenes :
              n.montado /\ (Dicha(u, o) \/ fichas[o].v = version[o]) => Dicha(n, o)
<1>1. CASE ~u.montado
  BY <1>1 DEF SiMontado, IgualPorFuera
<1>2. CASE u.montado
  <2>1. /\ n = [u EXCEPT !.cargando = FALSE, !.lista = n.lista, !.visto = n.visto]
        /\ n.lista = [o \in Ordenes |-> IF fichas[o].estado \in EN_EL_TABLERO THEN fichas[o]
                                        ELSE [fichas[o] EXCEPT !.estado = "fuera"]]
        /\ n.visto = [o \in Ordenes |-> Maximo(u.visto[o], fichas[o].v)]
    BY <1>2 DEF SiMontado, ConFoto, UnTablero
  <2>2. \A o \in Ordenes : u.visto[o] \in Nat /\ fichas[o].v \in Nat /\ version[o] \in Nat
    BY DEF UnTablero, Fichas, SalonForma
  <2>3. n.visto \in [Ordenes -> Nat]
        /\ \A o \in Ordenes : /\ n.visto[o] \in {u.visto[o], fichas[o].v}
                              /\ n.visto[o] >= u.visto[o] /\ n.visto[o] >= fichas[o].v
    BY <2>1, <2>2, MaximoHace
  <2>4. n.lista \in [Ordenes -> Fichas]
    BY <2>1 DEF Fichas
  <2>5. \A o \in Ordenes : /\ n.lista[o].v = fichas[o].v
                           /\ n.lista[o].estado = Muestra(fichas[o].estado)
    BY <2>1 DEF Fichas, FichaFiel, EstadosOrden, EN_EL_TABLERO, Muestra
  <2>6. /\ n \in UnTablero(n) /\ IgualPorFuera(n, u) /\ n.montado /\ ~n.cargando
        /\ n.cola = u.cola /\ n.colaVista = u.colaVista /\ n.perdido = u.perdido
    BY <1>2, <2>1, <2>3, <2>4 DEF UnTablero, IgualPorFuera
  <2>7. \A o \in Ordenes :
          /\ n.lista[o].v <= version[o]
          /\ n.lista[o].v = version[o] => n.lista[o].estado = Muestra(etapa[o])
          /\ n.visto[o] <= version[o] /\ n.perdido[o] <= version[o]
    BY <2>2, <2>3, <2>5, <2>6 DEF FichaFiel, TableroFiel
  <2>8. TableroFiel(n)
    BY <2>6, <2>7 DEF TableroFiel, Fotos, IgualPorFuera
  <2>9. \A o \in Ordenes : Dicha(u, o) \/ fichas[o].v = version[o] => Dicha(n, o)
    BY <2>2, <2>3, <2>6, <2>7 DEF Dicha
  <2> QED BY <2>6, <2>8, <2>9
<1>3. u.montado \in BOOLEAN
  BY DEF UnTablero
<1> QED BY <1>1, <1>2, <1>3

LEMMA ConColaHace ==
  ASSUME SalonForma, NEW u, u \in UnTablero(u), TableroFiel(u),
         NEW copia, CopiaFiel(copia), NEW n, n = SiMontado(u, ConCola(u, copia))
  PROVE  /\ n \in UnTablero(n) /\ IgualPorFuera(n, u) /\ TableroFiel(n)
         /\ n.visto = u.visto /\ n.perdido = u.perdido /\ n.cargando = u.cargando
         /\ n.montado /\ (copia.v = hechos \/ ColaDicha(u)) => ColaDicha(n)
<1>1. CASE ~u.montado
  BY <1>1 DEF SiMontado, IgualPorFuera
<1>2. CASE u.montado
  <2>1. n = [u EXCEPT !.cola = copia, !.colaVista = Maximo(u.colaVista, copia.v)]
    BY <1>2 DEF SiMontado, ConCola, UnTablero
  <2>2. u.colaVista \in Nat /\ copia.v \in Nat /\ hechos \in Nat /\ copia.v <= hechos
        /\ u.colaVista <= hechos
    BY DEF UnTablero, CopiaFiel, SalonForma, TableroFiel
  <2>3. /\ Maximo(u.colaVista, copia.v) \in Nat /\ Maximo(u.colaVista, copia.v) <= hechos
        /\ copia.v = hechos \/ u.colaVista = hechos => Maximo(u.colaVista, copia.v) = hechos
    BY <2>2 DEF Maximo
  <2>4. /\ n \in UnTablero(n) /\ IgualPorFuera(n, u) /\ n.lista = u.lista
        /\ n.visto = u.visto /\ n.cargando = u.cargando /\ n.cola = copia
        /\ n.colaVista = Maximo(u.colaVista, copia.v)
        /\ n.perdido = u.perdido /\ n.colaPerdida = u.colaPerdida
    BY <2>1, <2>3 DEF UnTablero, IgualPorFuera
  <2>5. TableroFiel(n)
    BY <2>3, <2>4 DEF TableroFiel, CopiaFiel, Fotos, IgualPorFuera
  <2>6. copia.v = hechos \/ ColaDicha(u) => ColaDicha(n)
    BY <2>3, <2>4 DEF ColaDicha
  <2> QED BY <2>4, <2>5, <2>6
<1>3. u.montado \in BOOLEAN
  BY DEF UnTablero
<1> QED BY <1>1, <1>2, <1>3

\* A board that is told of an error was told as much as it had been.
LEMMA ConErrorHace ==
  ASSUME NEW u, u \in UnTablero(u), TableroFiel(u), NEW n, n = SiMontado(u, ConMensaje(u))
  PROVE  /\ n \in UnTablero(n) /\ TableroFiel(n) /\ IgualPorFuera(n, u)
         /\ MismosDatos(n, u) /\ (n.cargando => u.cargando)
<1>1. CASE ~u.montado
  BY <1>1 DEF SiMontado, IgualPorFuera, MismosDatos
<1>2. CASE u.montado
  <2>1. n = [u EXCEPT !.error = TRUE, !.cargando = FALSE]
    BY <1>2 DEF SiMontado, ConMensaje
  <2>2. /\ n \in UnTablero(n) /\ IgualPorFuera(n, u) /\ Fotos(n) = Fotos(u)
        /\ MismosDatos(n, u) /\ ~n.cargando
    BY <2>1 DEF UnTablero, IgualPorFuera, MismosDatos, Fotos
  <2> QED BY <2>2 DEF TableroFiel, MismosDatos
<1>3. u.montado \in BOOLEAN
  BY DEF UnTablero
<1> QED BY <1>1, <1>2, <1>3

\* What the server fails to tell a board stays known to be missing.
LEMMA SinLaColaHace ==
  ASSUME SalonForma, NEW u, u \in UnTablero(u), TableroFiel(u), NEW n, n = SinLaCola(u)
  PROVE  /\ n \in UnTablero(n) /\ TableroFiel(n) /\ IgualPorFuera(n, u)
         /\ n.visto = u.visto /\ n.perdido = u.perdido /\ n.cargando = u.cargando
         /\ ColaDicha(n)
<1>1. n = [u EXCEPT !.colaPerdida = hechos] /\ hechos \in Nat
  BY DEF SinLaCola, SalonForma
<1>2. /\ n \in UnTablero(n) /\ IgualPorFuera(n, u) /\ Fotos(n) = Fotos(u)
      /\ n.lista = u.lista /\ n.visto = u.visto /\ n.perdido = u.perdido
      /\ n.cargando = u.cargando
      /\ n.cola = u.cola /\ n.colaVista = u.colaVista /\ n.colaPerdida = hechos
  BY <1>1 DEF UnTablero, IgualPorFuera, Fotos
<1> QED BY <1>2 DEF TableroFiel, ColaDicha

LEMMA EmitirPedidosBien ==
  ASSUME TableroInv, NEW w \in Tableros, NEW c \in {"alConectar", "sync"}, EmitirPedidos(w, c)
  PROVE  TableroInv'
<1>1. PICK u : u = tablero[w]
  OBVIOUS
<1>2. SalonForma /\ u \in UnTablero(u) /\ TableroFiel(u) /\ TableroEnterado(u)
  BY <1>1 DEF TableroInv, TableroForma
<1>3. PICK fichas : fichas = u[c].leido
  OBVIOUS
<1>4. PICK g : g = [fase |-> "cola", leido |-> {}]
  OBVIOUS
<1>5. u[c].fase = "leida" /\ u[c] \in Fotos(u)
  BY <1>1, EsFoto DEF EmitirPedidos
<1>6. \A o \in Ordenes : FichaFiel(o, fichas[o]) /\ fichas[o] \in Fichas
  BY <1>2, <1>3, <1>5 DEF TableroFiel, FotoFiel
<1>7. PICK n : n = SiMontado(u, ConFoto(u, fichas))
  OBVIOUS
<1>8. /\ n \in UnTablero(n) /\ IgualPorFuera(n, u) /\ TableroFiel(n)
      /\ n.montado => ~n.cargando
      /\ \A o \in Ordenes :
           n.montado /\ (Dicha(u, o) \/ fichas[o].v = version[o]) => Dicha(n, o)
  BY <1>2, <1>6, <1>7, ConFotoHace
<1>9. PICK t : t = [n EXCEPT ![c] = g]
  OBVIOUS
<1>10. g \in UnaFoto(g) /\ g.fase = "cola" /\ Fotos(n) = Fotos(u) /\ n[c] = u[c]
  BY <1>4, <1>8 DEF UnaFoto, Fotos, IgualPorFuera
<1>11. FotoCambiada(t, n, n[c], g)
  BY <1>8, <1>9, <1>10, CambiaFoto
<1>12. TableroFiel(t)
  BY <1>8, <1>10, <1>11 DEF TableroFiel, FotoFiel, FotoCambiada, MismosDatos
<1>13. TableroEnterado(t)
  <2>1. SUFFICES ASSUME t.conectado, t.montado, ~t.sinCopia
                 PROVE  /\ ~t.cargando /\ TraeLaCola(g)
                        /\ \A o \in Ordenes :
                             Dicha(t, o) \/ PorDecir(o) \/ \E f \in Fotos(t) : Trae(f, o)
    BY <1>11 DEF TableroEnterado, FotoCambiada
  <2>2. ~t.cargando /\ TraeLaCola(g)
    BY <1>8, <1>10, <1>11, <2>1 DEF TraeLaCola, FotoCambiada
  <2>3. ASSUME NEW o \in Ordenes
        PROVE  Dicha(t, o) \/ PorDecir(o) \/ \E f \in Fotos(t) : Trae(f, o)
    <3>1. Dicha(u, o) \/ PorDecir(o) \/ \E f \in Fotos(u) : Trae(f, o)
      BY <1>2, <1>8, <1>11, <2>1 DEF TableroEnterado, IgualPorFuera, FotoCambiada
    <3>2. Trae(u[c], o) => fichas[o].v = version[o]
      BY <1>3, <1>5 DEF Trae
    <3>3. Dicha(u, o) \/ fichas[o].v = version[o] => Dicha(t, o)
      BY <1>8, <1>11, <2>1 DEF FotoCambiada, MismosDatos, Dicha
    <3> QED BY <1>10, <1>11, <3>1, <3>2, <3>3 DEF FotoCambiada
  <2> QED BY <2>2, <2>3
<1>14. tablero' = [tablero EXCEPT ![w] = t] /\ UNCHANGED <<salonVars, pase, seguidor>>
  BY <1>1, <1>3, <1>4, <1>7, <1>9 DEF EmitirPedidos, TableroInv, TableroForma
<1> QED BY <1>11, <1>12, <1>13, <1>14, TableroSolo DEF FotoCambiada

\* The copy c of the board ends, once its queue was told to n, or could not be.
LEMMA FotoTermina ==
  ASSUME TableroInv, NEW w \in Tableros, NEW u, u = tablero[w],
         NEW c \in {"alConectar", "sync"}, ~TraeLasOrdenes(u[c]),
         \A o \in Ordenes : ~Trae(u[c], o),
         NEW n, n \in UnTablero(n), IgualPorFuera(n, u), TableroFiel(n),
         n.visto = u.visto, n.perdido = u.perdido, n.cargando = u.cargando,
         n.montado /\ (TraeLaCola(u[c]) \/ ColaDicha(u)) => ColaDicha(n),
         tablero' = [tablero EXCEPT ![w] = [n EXCEPT ![c] = SinFoto]],
         UNCHANGED <<salonVars, pase, seguidor>>
  PROVE  TableroInv'
<1>1. u \in UnTablero(u) /\ TableroEnterado(u)
  BY DEF TableroInv, TableroForma
<1>2. PICK t : t = [n EXCEPT ![c] = SinFoto]
  OBVIOUS
<1>3. Fotos(n) = Fotos(u) /\ n[c] = u[c]
  BY DEF Fotos, IgualPorFuera
<1>4. FotoCambiada(t, n, n[c], SinFoto)
  BY <1>2, CambiaFoto, LasFotos
<1>5. TableroFiel(t)
  BY <1>4, LasFotos DEF TableroFiel, FotoFiel, FotoCambiada, MismosDatos
<1>6. TableroEnterado(t)
  <2>1. SUFFICES ASSUME t.conectado, t.montado, ~t.sinCopia
                 PROVE  /\ t.cargando => \E f \in Fotos(t) : TraeLasOrdenes(f)
                        /\ \A o \in Ordenes :
                             Dicha(t, o) \/ PorDecir(o) \/ \E f \in Fotos(t) : Trae(f, o)
                        /\ tope # SinCola =>
                             ColaDicha(t) \/ ColaPorDecir \/ \E f \in Fotos(t) : TraeLaCola(f)
    BY DEF TableroEnterado
  <2>2. u.conectado /\ u.montado /\ ~u.sinCopia /\ n.montado
    BY <1>4, <2>1 DEF IgualPorFuera, FotoCambiada
  <2>3. ColaDicha(n) => ColaDicha(t)
    BY <1>4 DEF ColaDicha, FotoCambiada, MismosDatos
  <2>4. \A o \in Ordenes : Dicha(u, o) => Dicha(t, o)
    BY <1>4 DEF Dicha, FotoCambiada, MismosDatos
  <2>5. t.cargando => \E f \in Fotos(t) : TraeLasOrdenes(f)
    BY <1>1, <1>3, <1>4, <2>2 DEF TableroEnterado, FotoCambiada
  <2>6. \A o \in Ordenes :
          Dicha(t, o) \/ PorDecir(o) \/ \E f \in Fotos(t) : Trae(f, o)
    BY <1>1, <1>3, <1>4, <2>2, <2>4 DEF TableroEnterado, FotoCambiada
  <2>7. tope # SinCola => ColaDicha(t) \/ ColaPorDecir \/ \E f \in Fotos(t) : TraeLaCola(f)
    BY <1>1, <1>3, <1>4, <2>2, <2>3 DEF TableroEnterado, FotoCambiada
  <2> QED BY <2>5, <2>6, <2>7
<1>7. tablero' = [tablero EXCEPT ![w] = t]
  BY <1>2
<1> QED BY <1>4, <1>5, <1>6, <1>7, TableroSolo DEF FotoCambiada

LEMMA EmitirColaDeLaFotoBien ==
  ASSUME TableroInv, NEW w \in Tableros, NEW c \in {"alConectar", "sync"},
         EmitirColaDeLaFoto(w, c)
  PROVE  TableroInv'
<1>1. PICK u : u = tablero[w]
  OBVIOUS
<1>2. SalonForma /\ u \in UnTablero(u) /\ TableroFiel(u)
  BY <1>1 DEF TableroInv, TableroForma
<1>3. PICK copia : copia = u[c].leido
  OBVIOUS
<1>4. u[c].fase = "colaLeida" /\ u[c] \in Fotos(u)
  BY <1>1, EsFoto DEF EmitirColaDeLaFoto
<1>5. CopiaFiel(copia)
  BY <1>2, <1>3, <1>4 DEF TableroFiel, FotoFiel
<1>6. PICK n : n = SiMontado(u, ConCola(u, copia))
  OBVIOUS
<1>7. /\ n \in UnTablero(n) /\ IgualPorFuera(n, u) /\ TableroFiel(n)
      /\ n.visto = u.visto /\ n.perdido = u.perdido /\ n.cargando = u.cargando
      /\ n.montado /\ (copia.v = hechos \/ ColaDicha(u)) => ColaDicha(n)
  BY <1>2, <1>5, <1>6, ConColaHace
<1>8. ~TraeLasOrdenes(u[c]) /\ (TraeLaCola(u[c]) => copia.v = hechos)
  BY <1>3, <1>4 DEF TraeLasOrdenes, TraeLaCola
<1>9. \A o \in Ordenes : ~Trae(u[c], o)
  BY <1>4 DEF Trae
<1>10. /\ tablero' = [tablero EXCEPT ![w] = [n EXCEPT ![c] = SinFoto]]
       /\ UNCHANGED <<salonVars, pase, seguidor>>
  BY <1>1, <1>3, <1>6 DEF EmitirColaDeLaFoto, TableroInv, TableroForma
<1> QED BY <1>1, <1>7, <1>8, <1>9, <1>10, FotoTermina

LEMMA FallarColaDeLaFotoBien ==
  ASSUME TableroInv, NEW w \in Tableros, NEW c \in {"alConectar", "sync"},
         FallarColaDeLaFoto(w, c)
  PROVE  TableroInv'
<1>1. PICK u : u = tablero[w]
  OBVIOUS
<1>2. SalonForma /\ u \in UnTablero(u) /\ TableroFiel(u) /\ u.montado \in BOOLEAN
  BY <1>1 DEF TableroInv, TableroForma, UnTablero
<1>3. u[c].fase = "cola"
  BY <1>1 DEF FallarColaDeLaFoto
<1>4. PICK n : n = SiMontado(u, SinLaCola(u))
  OBVIOUS
<1>5. /\ n \in UnTablero(n) /\ IgualPorFuera(n, u) /\ TableroFiel(n)
      /\ n.visto = u.visto /\ n.perdido = u.perdido /\ n.cargando = u.cargando
      /\ n.montado => ColaDicha(n)
  <2>1. CASE u.montado
    BY <1>2, <1>4, <2>1, SinLaColaHace DEF SiMontado
  <2>2. CASE ~u.montado
    BY <1>2, <1>4, <2>2 DEF SiMontado, IgualPorFuera
  <2> QED BY <1>2, <2>1, <2>2
<1>6. ~TraeLasOrdenes(u[c]) /\ \A o \in Ordenes : ~Trae(u[c], o)
  BY <1>3 DEF TraeLasOrdenes, Trae
<1>7. /\ tablero' = [tablero EXCEPT ![w] = [n EXCEPT ![c] = SinFoto]]
      /\ UNCHANGED <<salonVars, pase, seguidor>>
  BY <1>1, <1>4 DEF FallarColaDeLaFoto, TableroInv, TableroForma
<1> QED BY <1>1, <1>5, <1>6, <1>7, FotoTermina

LEMMA FallarCopiaBien ==
  ASSUME TableroInv, NEW w \in Tableros, FallarCopia(w)
  PROVE  TableroInv'
<1>1. PICK u : u = tablero[w]
  OBVIOUS
<1>2. u \in UnTablero(u) /\ TableroFiel(u)
  BY <1>1 DEF TableroInv, TableroForma
<1>3. PICK t : t = [u EXCEPT !.sync = SinFoto, !.sinCopia = u.sinCopia \/ u.montado]
  OBVIOUS
<1>4. /\ t \in UnTablero(t) /\ MismosDatos(t, u) /\ (t.montado => t.sinCopia)
      /\ \A f \in Fotos(t) : f = SinFoto \/ f \in Fotos(u)
  BY <1>2, <1>3, LasFotos DEF UnTablero, Fotos, MismosDatos
<1>5. TableroFiel(t) /\ TableroEnterado(t)
  BY <1>2, <1>4, LasFotos DEF TableroFiel, FotoFiel, MismosDatos, TableroEnterado
<1>6. tablero' = [tablero EXCEPT ![w] = t] /\ UNCHANGED <<salonVars, pase, seguidor>>
  BY <1>1, <1>3 DEF FallarCopia, TableroInv, TableroForma
<1> QED BY <1>4, <1>5, <1>6, TableroSolo

LEMMA RechazarAlLeerBien ==
  ASSUME TableroInv, NEW w \in Tableros, RechazarAlLeer(w)
  PROVE  TableroInv'
<1>1. PICK u : u = tablero[w]
  OBVIOUS
<1>2. u \in UnTablero(u) /\ TableroFiel(u) /\ TableroEnterado(u) /\ u.montado
  BY <1>1 DEF TableroInv, TableroForma, RechazarAlLeer
<1>3. PICK t : t = SiMontado(u, ConMensaje(u))
  OBVIOUS
<1>4. /\ t \in UnTablero(t) /\ TableroFiel(t) /\ IgualPorFuera(t, u)
      /\ MismosDatos(t, u) /\ (t.cargando => u.cargando)
  BY <1>2, <1>3, ConErrorHace
<1>5. TableroEnterado(t)
  BY <1>2, <1>4 DEF TableroEnterado, IgualPorFuera, MismosDatos, Fotos, Dicha, ColaDicha
<1>6. tablero' = [tablero EXCEPT ![w] = t] /\ UNCHANGED <<salonVars, pase, seguidor>>
  BY <1>1, <1>2, <1>3 DEF RechazarAlLeer, SiMontado, TableroInv, TableroForma
<1> QED BY <1>4, <1>5, <1>6, TableroSolo

-----------------------------------------------------------------------------
(* The screens: the steps of the page of a diner *)

\* The page of d, as every step finds it.
LEMMA ElSeguidor ==
  ASSUME TableroInv, NEW d \in Seguidores, NEW u, u = seguidor[d], NEW o, o = Sigue[d]
  PROVE  /\ SalonForma /\ o \in Ordenes /\ u \in UnSeguidor(u)
         /\ SeguidorFiel(u, o) /\ SeguidorEnterado(u, o)
         /\ version[o] \in Nat /\ hechos \in Nat /\ etapa[o] \in EstadosOrden
BY TableroAssumption DEF TableroInv, TableroForma, SalonForma

\* What the page shows and was told stays the same.
MismaPagina(s, u) ==
  /\ s.estado = u.estado /\ s.lugar = u.lugar /\ s.visto = u.visto
  /\ s.perdido = u.perdido /\ s.lugarVisto = u.lugarVisto /\ s.lugarPerdido = u.lugarPerdido

LEMMA PedirSeguimientoBien ==
  ASSUME TableroInv, NEW d \in Seguidores, PedirSeguimiento(d)
  PROVE  TableroInv'
<1>1. PICK u : u = seguidor[d]
  OBVIOUS
<1>2. PICK o : o = Sigue[d]
  OBVIOUS
<1>3. SalonForma /\ u \in UnSeguidor(u) /\ SeguidorFiel(u, o)
  BY <1>1, <1>2, ElSeguidor
<1>4. PICK s : s = [u EXCEPT !.fase = "pide"]
  OBVIOUS
<1>5. s \in UnSeguidor(s) /\ s.fase = "pide" /\ MismaPagina(s, u)
  BY <1>3, <1>4 DEF UnSeguidor, MismaPagina
<1>6. etapa[o] # "PENDIENTE_PAGO"
  BY <1>2 DEF PedirSeguimiento
<1>7. SeguidorFiel(s, o) /\ SeguidorEnterado(s, o)
  BY <1>3, <1>5, <1>6 DEF SeguidorFiel, SeguidorEnterado, MismaPagina
<1>8. seguidor' = [seguidor EXCEPT ![d] = s] /\ UNCHANGED <<salonVars, pase, tablero>>
  BY <1>1, <1>4 DEF PedirSeguimiento
<1> QED BY <1>2, <1>5, <1>7, <1>8, SeguidorSolo

LEMMA PaginaCortada ==
  ASSUME NEW u, NEW o, u \in UnSeguidor(u), SeguidorFiel(u, o),
         NEW s, s = [u EXCEPT !.fase = "fuera", !.leido = {}]
  PROVE  s \in UnSeguidor(s) /\ SeguidorFiel(s, o) /\ SeguidorEnterado(s, o) /\ s.fase = "fuera"
<1>1. s \in UnSeguidor(s) /\ s.fase = "fuera" /\ MismaPagina(s, u)
  BY DEF UnSeguidor, MismaPagina
<1> QED BY <1>1 DEF SeguidorFiel, SeguidorEnterado, MismaPagina

LEMMA CortarSeguidorBien ==
  ASSUME TableroInv, NEW d \in Seguidores, CortarSeguidor(d)
  PROVE  TableroInv'
<1>1. PICK u : u = seguidor[d]
  OBVIOUS
<1>2. PICK o : o = Sigue[d]
  OBVIOUS
<1>3. u \in UnSeguidor(u) /\ SeguidorFiel(u, o)
  BY <1>1, <1>2, ElSeguidor
<1>4. PICK s : s = [u EXCEPT !.fase = "fuera", !.leido = {}]
  OBVIOUS
<1>5. s \in UnSeguidor(s) /\ SeguidorFiel(s, o) /\ SeguidorEnterado(s, o)
  BY <1>3, <1>4, PaginaCortada
<1>6. seguidor' = [seguidor EXCEPT ![d] = s] /\ UNCHANGED <<salonVars, pase, tablero>>
  BY <1>1, <1>4 DEF CortarSeguidor
<1> QED BY <1>2, <1>5, <1>6, SeguidorSolo

LEMMA LeerResumenBien ==
  ASSUME TableroInv, NEW d \in Seguidores, LeerResumen(d)
  PROVE  TableroInv'
<1>1. PICK u : u = seguidor[d]
  OBVIOUS
<1>2. PICK o : o = Sigue[d]
  OBVIOUS
<1>3. /\ SalonForma /\ u \in UnSeguidor(u) /\ SeguidorFiel(u, o)
      /\ version[o] \in Nat /\ etapa[o] \in EstadosOrden
  BY <1>1, <1>2, ElSeguidor
<1>4. PICK leido : leido = [estado |-> etapa[o], v |-> version[o]]
  OBVIOUS
<1>5. PICK s : s = [u EXCEPT !.fase = "leido", !.leido = leido]
  OBVIOUS
<1>6. s \in UnSeguidor(s) /\ s.fase = "leido" /\ s.leido = leido /\ MismaPagina(s, u)
  BY <1>3, <1>5 DEF UnSeguidor, MismaPagina
<1>7. leido \in Fichas /\ FichaFiel(o, leido) /\ leido.estado = etapa[o] /\ leido.v = version[o]
  BY <1>3, <1>4 DEF Fichas, FichaFiel
<1>8. u.fase = "pide"
  BY <1>1 DEF LeerResumen
<1>9. SeguidorFiel(s, o) /\ SeguidorEnterado(s, o)
  BY <1>3, <1>6, <1>7, <1>8 DEF SeguidorFiel, SeguidorEnterado, MismaPagina
<1>10. seguidor' = [seguidor EXCEPT ![d] = s] /\ UNCHANGED <<salonVars, pase, tablero>>
  BY <1>1, <1>2, <1>4, <1>5 DEF LeerResumen, TableroInv, TableroForma
<1> QED BY <1>2, <1>6, <1>9, <1>10, SeguidorSolo

LEMMA FallarResumenBien ==
  ASSUME TableroInv, NEW d \in Seguidores, FallarResumen(d)
  PROVE  TableroInv'
<1>1. PICK u : u = seguidor[d]
  OBVIOUS
<1>2. PICK o : o = Sigue[d]
  OBVIOUS
<1>3. u \in UnSeguidor(u) /\ SeguidorFiel(u, o)
  BY <1>1, <1>2, ElSeguidor
<1>4. PICK s : s = [u EXCEPT !.fase = "fuera"]
  OBVIOUS
<1>5. s \in UnSeguidor(s) /\ s.fase = "fuera" /\ MismaPagina(s, u)
  BY <1>3, <1>4 DEF UnSeguidor, MismaPagina
<1>6. SeguidorFiel(s, o) /\ SeguidorEnterado(s, o)
  BY <1>3, <1>5 DEF SeguidorFiel, SeguidorEnterado, MismaPagina
<1>7. seguidor' = [seguidor EXCEPT ![d] = s] /\ UNCHANGED <<salonVars, pase, tablero>>
  BY <1>1, <1>4 DEF FallarResumen
<1> QED BY <1>2, <1>5, <1>6, <1>7, SeguidorSolo

LEMMA UnirSeguidorBien ==
  ASSUME TableroInv, NEW d \in Seguidores, UnirSeguidor(d)
  PROVE  TableroInv'
<1>1. PICK u : u = seguidor[d]
  OBVIOUS
<1>2. PICK o : o = Sigue[d]
  OBVIOUS
<1>3. /\ SalonForma /\ u \in UnSeguidor(u) /\ SeguidorFiel(u, o) /\ SeguidorEnterado(u, o)
      /\ version[o] \in Nat /\ etapa[o] \in EstadosOrden
  BY <1>1, <1>2, ElSeguidor
<1>4. u.fase = "leido"
  BY <1>1 DEF UnirSeguidor
<1>5. /\ u.leido \in Fichas /\ u.leido.v \in 0..version[o]
      /\ u.leido.v = version[o] => u.leido.estado = etapa[o]
      /\ u.leido.estado # "RECIBIDO" => etapa[o] # "RECIBIDO"
  BY <1>3, <1>4 DEF SeguidorFiel, FichaFiel
<1>6. PICK f : f = IF u.leido.estado = "RECIBIDO" THEN "cola" ELSE "sigue"
  OBVIOUS
<1>7. PICK s : s = [ConEstado(u, u.leido) EXCEPT !.fase = f, !.leido = {}]
  OBVIOUS
<1>8. /\ u.visto \in Nat /\ u.visto <= version[o]
      /\ Maximo(u.visto, u.leido.v) \in Nat /\ Maximo(u.visto, u.leido.v) <= version[o]
      /\ version[o] \in {u.visto, u.leido.v} => Maximo(u.visto, u.leido.v) = version[o]
  BY <1>3, <1>5 DEF UnSeguidor, SeguidorFiel, Maximo
<1>9. /\ s \in UnSeguidor(s) /\ s.fase = f /\ s.estado = u.leido
      /\ s.visto = Maximo(u.visto, u.leido.v) /\ s.perdido = u.perdido
      /\ s.lugar = u.lugar /\ s.lugarVisto = u.lugarVisto
  BY <1>3, <1>5, <1>6, <1>7, <1>8 DEF ConEstado, UnSeguidor
<1>10. SeguidorFiel(s, o)
  BY <1>3, <1>4, <1>5, <1>6, <1>8, <1>9 DEF SeguidorFiel
<1>11. SeguidorEnterado(s, o)
  <2>1. s.fase \in {"cola", "sigue"} /\ (s.fase = "sigue" => etapa[o] # "RECIBIDO")
    BY <1>5, <1>6, <1>9
  <2>2. version[o] \in {s.visto, s.perdido} \/ PorDecir(o)
    BY <1>3, <1>4, <1>8, <1>9 DEF SeguidorEnterado
  <2> QED BY <2>1, <2>2 DEF SeguidorEnterado
<1>12. seguidor' = [seguidor EXCEPT ![d] = s] /\ UNCHANGED <<salonVars, pase, tablero>>
  BY <1>1, <1>6, <1>7 DEF UnirSeguidor, TableroInv, TableroForma
<1> QED BY <1>2, <1>9, <1>10, <1>11, <1>12, SeguidorSolo

LEMMA LeerLugarBien ==
  ASSUME TableroInv, NEW d \in Seguidores, LeerLugar(d)
  PROVE  TableroInv'
<1>1. PICK u : u = seguidor[d]
  OBVIOUS
<1>2. PICK o : o = Sigue[d]
  OBVIOUS
<1>3. /\ SalonForma /\ o \in Ordenes /\ u \in UnSeguidor(u)
      /\ SeguidorFiel(u, o) /\ SeguidorEnterado(u, o) /\ hechos \in Nat
  BY <1>1, <1>2, ElSeguidor
<1>4. PICK leido : leido = [puesto |-> Puesto(FotoDeLaCola.espera, o), v |-> hechos]
  OBVIOUS
<1>5. PICK s : s = [u EXCEPT !.fase = "colaLeida", !.leido = leido]
  OBVIOUS
<1>6. s \in UnSeguidor(s) /\ s.fase = "colaLeida" /\ s.leido = leido /\ MismaPagina(s, u)
  BY <1>3, <1>5 DEF UnSeguidor, MismaPagina
<1>7. u.fase = "cola"
  BY <1>1 DEF LeerLugar
<1>8. Puesto(FotoDeLaCola.espera, o) \in Nat
  BY <1>3, ElPuesto
<1>9. leido.puesto = Puesto(FotoDeLaCola.espera, o) /\ leido.v = hechos
  BY <1>4
<1>10. SeguidorFiel(s, o) /\ SeguidorEnterado(s, o)
  BY <1>3, <1>6, <1>7, <1>8, <1>9 DEF SeguidorFiel, SeguidorEnterado, MismaPagina
<1>11. seguidor' = [seguidor EXCEPT ![d] = s] /\ UNCHANGED <<salonVars, pase, tablero>>
  BY <1>1, <1>2, <1>4, <1>5 DEF LeerLugar
<1> QED BY <1>2, <1>6, <1>10, <1>11, SeguidorSolo

LEMMA FallarLugarBien ==
  ASSUME TableroInv, NEW d \in Seguidores, FallarLugar(d)
  PROVE  TableroInv'
<1>1. PICK u : u = seguidor[d]
  OBVIOUS
<1>2. PICK o : o = Sigue[d]
  OBVIOUS
<1>3. /\ u \in UnSeguidor(u) /\ SeguidorFiel(u, o) /\ SeguidorEnterado(u, o)
      /\ hechos \in Nat /\ u.fase = "cola"
  BY <1>1, <1>2, ElSeguidor DEF FallarLugar
<1>4. PICK s : s = [u EXCEPT !.fase = "sigue", !.lugarPerdido = hechos]
  OBVIOUS
<1>5. /\ s \in UnSeguidor(s) /\ s.fase = "sigue" /\ s.estado = u.estado /\ s.lugar = u.lugar
      /\ s.visto = u.visto /\ s.perdido = u.perdido /\ s.lugarVisto = u.lugarVisto
      /\ s.lugarPerdido = hechos
  BY <1>3, <1>4 DEF UnSeguidor
<1>6. SeguidorFiel(s, o) /\ SeguidorEnterado(s, o)
  BY <1>3, <1>5 DEF SeguidorFiel, SeguidorEnterado, LugarDicho
<1>7. seguidor' = [seguidor EXCEPT ![d] = s] /\ UNCHANGED <<salonVars, pase, tablero>>
  BY <1>1, <1>4 DEF FallarLugar
<1> QED BY <1>2, <1>5, <1>6, <1>7, SeguidorSolo

\* The page is told a place p of its order, read at v.
LEMMA ConLugarHace ==
  ASSUME SalonForma, NEW u, u \in UnSeguidor(u), NEW o, SeguidorFiel(u, o),
         NEW p \in Nat, NEW v \in 0..hechos,
         v = hechos => p = Puesto(FotoDeLaCola.espera, o),
         NEW s, s = ConLugar(u, p, v)
  PROVE  /\ s \in UnSeguidor(s) /\ SeguidorFiel(s, o)
         /\ s.fase = u.fase /\ s.leido = u.leido /\ s.visto = u.visto /\ s.perdido = u.perdido
         /\ s.estado = u.estado
         /\ v = hechos \/ LugarDicho(u) => LugarDicho(s)
<1>1. hechos \in Nat /\ v \in Nat /\ v <= hechos /\ u.lugarVisto \in Nat /\ u.lugarVisto <= hechos
  BY DEF SalonForma, UnSeguidor, SeguidorFiel
<1>2. /\ Maximo(u.lugarVisto, v) \in Nat /\ Maximo(u.lugarVisto, v) <= hechos
      /\ v = hechos \/ u.lugarVisto = hechos => Maximo(u.lugarVisto, v) = hechos
  BY <1>1 DEF Maximo
<1>3. /\ s \in UnSeguidor(s)
      /\ s.fase = u.fase /\ s.leido = u.leido /\ s.visto = u.visto /\ s.perdido = u.perdido
      /\ s.estado = u.estado /\ s.lugar = [puesto |-> p, v |-> v]
      /\ s.lugarVisto = Maximo(u.lugarVisto, v) /\ s.lugarPerdido = u.lugarPerdido
  BY <1>1, <1>2 DEF ConLugar, UnSeguidor
<1>4. SeguidorFiel(s, o)
  BY <1>1, <1>2, <1>3 DEF SeguidorFiel
<1>5. v = hechos \/ LugarDicho(u) => LugarDicho(s)
  BY <1>2, <1>3 DEF LugarDicho
<1> QED BY <1>3, <1>4, <1>5

LEMMA DarLugarBien ==
  ASSUME TableroInv, NEW d \in Seguidores, DarLugar(d)
  PROVE  TableroInv'
<1>1. PICK u : u = seguidor[d]
  OBVIOUS
<1>2. PICK o : o = Sigue[d]
  OBVIOUS
<1>3. /\ SalonForma /\ o \in Ordenes /\ u \in UnSeguidor(u)
      /\ SeguidorFiel(u, o) /\ SeguidorEnterado(u, o)
  BY <1>1, <1>2, ElSeguidor
<1>4. u.fase = "colaLeida"
  BY <1>1 DEF DarLugar
<1>5. /\ u.leido.puesto \in Nat /\ u.leido.v \in 0..hechos
      /\ u.leido.v = hechos => u.leido.puesto = Puesto(FotoDeLaCola.espera, o)
  BY <1>3, <1>4 DEF SeguidorFiel
<1>6. PICK n : n = IF u.leido.puesto > 0 THEN ConLugar(u, u.leido.puesto, u.leido.v) ELSE u
  OBVIOUS
<1>7. /\ n \in UnSeguidor(n) /\ SeguidorFiel(n, o)
      /\ n.fase = u.fase /\ n.leido = u.leido /\ n.visto = u.visto /\ n.perdido = u.perdido
      /\ LugarDicho(u) \/ (u.leido.puesto > 0 /\ u.leido.v = hechos) => LugarDicho(n)
  <2>1. CASE u.leido.puesto > 0
    <3>1. PICK p \in Nat : p = u.leido.puesto
      BY <1>5
    <3>2. PICK v \in 0..hechos : v = u.leido.v
      BY <1>5
    <3>3. n = ConLugar(u, p, v)
      BY <1>6, <2>1, <3>1, <3>2
    <3> QED BY <1>3, <1>5, <3>1, <3>2, <3>3, ConLugarHace
  <2>2. CASE ~(u.leido.puesto > 0)
    BY <1>3, <1>6, <2>2
  <2> QED BY <2>1, <2>2
<1>8. PICK s : s = [n EXCEPT !.fase = "sigue", !.leido = {}]
  OBVIOUS
<1>9. s \in UnSeguidor(s) /\ s.fase = "sigue" /\ MismaPagina(s, n)
  BY <1>7, <1>8 DEF UnSeguidor, MismaPagina
<1>10. SeguidorFiel(s, o)
  BY <1>4, <1>7, <1>9 DEF SeguidorFiel, MismaPagina
<1>11. SeguidorEnterado(s, o)
  <2>1. version[o] \in {s.visto, s.perdido} \/ PorDecir(o)
    BY <1>3, <1>4, <1>7, <1>9 DEF SeguidorEnterado, MismaPagina
  <2>2. ASSUME tope # SinCola, etapa[o] = "RECIBIDO"
        PROVE  ColaPorDecir \/ LugarDicho(s)
    <3>1. Puesto(FotoDeLaCola.espera, o) > 0
      BY <1>3, <2>2, ElPuesto
    <3>2. LugarDicho(n) => LugarDicho(s)
      BY <1>9 DEF LugarDicho, MismaPagina
    <3>3. ColaPorDecir \/ LugarDicho(u) \/ u.leido.v = hechos
      BY <1>3, <1>4, <2>2 DEF SeguidorEnterado
    <3> QED BY <1>5, <1>7, <3>1, <3>2, <3>3
  <2> QED BY <1>9, <2>1, <2>2 DEF SeguidorEnterado
<1>12. seguidor' = [seguidor EXCEPT ![d] = s] /\ UNCHANGED <<salonVars, pase, tablero>>
  BY <1>1, <1>6, <1>8 DEF DarLugar, TableroInv, TableroForma
<1> QED BY <1>2, <1>9, <1>10, <1>11, <1>12, SeguidorSolo

-----------------------------------------------------------------------------
(* The screens: the requests that read, and those that tell *)

\* The database stays, and the request h becomes p.
LEMMA UnPaseBien ==
  ASSUME TableroInv, UNCHANGED salonVars, NEW h \in Pases, NEW p,
         pase' = [pase EXCEPT ![h] = p], p \in UnPase(p), PaseFiel(p)
  PROVE  /\ SalonForma' /\ PasesFieles'
         /\ pase' = [x \in Pases |-> pase'[x]] /\ \A x \in Pases : pase'[x] \in UnPase(pase'[x])
         /\ pase'[h] = p /\ \A x \in Pases \ {h} : pase'[x] = pase[x]
<1>1. FotoDeLaCola' = FotoDeLaCola
  BY FotoIgual
<1>2. SalonForma'
  BY DEF TableroInv, TableroForma, SalonForma, salonVars
<1>3. pase'[h] = p /\ \A x \in Pases \ {h} : pase'[x] = pase[x]
  BY DEF TableroInv, TableroForma
<1>4. pase' = [x \in Pases |-> pase'[x]] /\ \A x \in Pases : pase'[x] \in UnPase(pase'[x])
  BY <1>3 DEF TableroInv, TableroForma
<1>5. PasesFieles'
  <2>1. ASSUME NEW x \in Pases
        PROVE  PaseFiel(pase[x])'
    <3>1. PICK q : q = pase'[x]
      OBVIOUS
    <3>2. PaseFiel(q)
      BY <1>3, <3>1 DEF TableroInv, PasesFieles
    <3>3. PaseFiel(q)'
      BY <1>1, <3>2 DEF PaseFiel, EventoFiel, FichaFiel, CopiaFiel, salonVars
    <3> QED BY <3>1, <3>3 DEF PaseFiel
  <2> QED BY <2>1 DEF PasesFieles
<1> QED BY <1>2, <1>3, <1>4, <1>5

\* What is still to be told, after the request h becomes p.
LEMMA SeDice ==
  ASSUME UNCHANGED salonVars, NEW h \in Pases, NEW p,
         pase'[h] = p, \A x \in Pases \ {h} : pase'[x] = pase[x]
  PROVE  /\ \A o \in Ordenes : PorDecir(o) =>
              \/ PorDecir(o)'
              \/ \E e \in pase[h].eventos : e.orden = o /\ e.v = version[o]
         /\ ColaPorDecir =>
              \/ ColaPorDecir' \/ pase[h].fase \in {"hecho", "emitido"}
              \/ pase[h].fase = "colaLeida" /\ pase[h].cola.v = hechos
<1>1. ASSUME NEW o \in Ordenes, PorDecir(o)
      PROVE  \/ PorDecir(o)'
             \/ \E e \in pase[h].eventos : e.orden = o /\ e.v = version[o]
  <2>1. PICK x \in Pases : \E e \in pase[x].eventos : e.orden = o /\ e.v = version[o]
    BY <1>1 DEF PorDecir
  <2>2. CASE x = h
    BY <2>1, <2>2
  <2>3. CASE x # h
    BY <2>1, <2>3 DEF PorDecir, salonVars
  <2> QED BY <2>2, <2>3
<1>2. ASSUME ColaPorDecir
      PROVE  \/ ColaPorDecir' \/ pase[h].fase \in {"hecho", "emitido"}
             \/ pase[h].fase = "colaLeida" /\ pase[h].cola.v = hechos
  <2>1. PICK x \in Pases : \/ pase[x].fase \in {"hecho", "emitido"}
                           \/ pase[x].fase = "colaLeida" /\ pase[x].cola.v = hechos
    BY <1>2 DEF ColaPorDecir
  <2>2. CASE x = h
    BY <2>1, <2>2
  <2>3. CASE x # h
    BY <2>1, <2>3 DEF ColaPorDecir, salonVars
  <2> QED BY <2>2, <2>3
<1> QED BY <1>1, <1>2

\* A board, once a step told it things, or failed to: what the step leaves
\* nobody to tell was told to it, as far as the server could.
LEMMA TableroTrasAviso ==
  ASSUME UNCHANGED salonVars,
         NEW u, TableroEnterado(u),
         NEW t, IgualPorFuera(t, u), TableroFiel(t), t.cargando => u.cargando,
         \A o \in Ordenes :
           t.conectado /\ t.montado /\ (Dicha(u, o) \/ (PorDecir(o) /\ ~PorDecir(o)'))
           => Dicha(t, o),
         t.conectado /\ t.montado /\ tope # SinCola
         /\ (ColaDicha(u) \/ (ColaPorDecir /\ ~ColaPorDecir'))
         => ColaDicha(t)
  PROVE  TableroFiel(t)' /\ TableroEnterado(t)'
<1>1. FotoDeLaCola' = FotoDeLaCola
  BY FotoIgual
<1>2. TableroFiel(t)'
  BY <1>1 DEF TableroFiel, FotoFiel, FichaFiel, CopiaFiel, salonVars
<1>3. Fotos(t) = Fotos(u)
  BY DEF Fotos, IgualPorFuera
<1>4. ASSUME t.conectado, t.montado, ~t.sinCopia
      PROVE  /\ t.cargando => \E f \in Fotos(t) : TraeLasOrdenes(f)
             /\ \A o \in Ordenes :
                  Dicha(t, o) \/ PorDecir(o)' \/ \E f \in Fotos(t) : Trae(f, o)
             /\ tope # SinCola =>
                  ColaDicha(t) \/ ColaPorDecir' \/ \E f \in Fotos(t) : TraeLaCola(f)
  <2>1. /\ u.cargando => \E f \in Fotos(u) : TraeLasOrdenes(f)
        /\ \A o \in Ordenes :
             Dicha(u, o) \/ PorDecir(o) \/ \E f \in Fotos(u) : Trae(f, o)
        /\ tope # SinCola =>
             ColaDicha(u) \/ ColaPorDecir \/ \E f \in Fotos(u) : TraeLaCola(f)
    BY <1>4 DEF TableroEnterado, IgualPorFuera
  <2> QED BY <1>3, <1>4, <2>1
<1>5. TableroEnterado(t)'
  BY <1>4 DEF TableroEnterado, Trae, TraeLaCola, Dicha, ColaDicha, salonVars
<1> QED BY <1>2, <1>5

\* The same of the page of a diner.
LEMMA SeguidorTrasAviso ==
  ASSUME UNCHANGED salonVars, NEW o,
         NEW u, SeguidorEnterado(u, o),
         NEW s, SeguidorFiel(s, o), s.fase = u.fase, s.leido = u.leido,
         u.perdido = version[o] => s.perdido = version[o],
         u.visto = version[o] => s.visto = version[o],
         PorDecir(o) /\ ~PorDecir(o)' =>
           /\ s.fase = "leido" => s.perdido = version[o]
           /\ s.fase \in {"cola", "colaLeida", "sigue"} => version[o] \in {s.visto, s.perdido},
         s.fase \in {"colaLeida", "sigue"} /\ tope # SinCola /\ etapa[o] = "RECIBIDO"
         /\ (LugarDicho(u) \/ (ColaPorDecir /\ ~ColaPorDecir'))
         => LugarDicho(s)
  PROVE  SeguidorFiel(s, o)' /\ SeguidorEnterado(s, o)'
<1>1. FotoDeLaCola' = FotoDeLaCola
  BY FotoIgual
<1>2. SeguidorFiel(s, o)'
  BY <1>1 DEF SeguidorFiel, FichaFiel, salonVars
<1>3. s.fase = "leido" =>
        s.leido.v = version[o] \/ s.perdido = version[o] \/ PorDecir(o)'
  BY DEF SeguidorEnterado
<1>4. s.fase \in {"cola", "colaLeida", "sigue"} =>
        version[o] \in {s.visto, s.perdido} \/ PorDecir(o)'
  BY DEF SeguidorEnterado
<1>5. s.fase \in {"colaLeida", "sigue"} /\ tope # SinCola /\ etapa[o] = "RECIBIDO" =>
        ColaPorDecir' \/ LugarDicho(s) \/ (s.fase = "colaLeida" /\ s.leido.v = hechos)
  BY DEF SeguidorEnterado
<1>6. SeguidorEnterado(s, o)'
  BY <1>3, <1>4, <1>5 DEF SeguidorEnterado, LugarDicho, salonVars
<1> QED BY <1>2, <1>6

\* A step of h that leaves nothing less to be told to the screens; some boards
\* may be told of an error.
LEMMA PaseSolo ==
  ASSUME TableroInv, NEW h \in Pases, NEW p,
         pase' = [pase EXCEPT ![h] = p], p \in UnPase(p), PaseFiel(p),
         pase[h].fase \in {"libre", "leyo", "emitido"},
         tope # SinCola /\ pase[h].fase = "emitido" => p.fase = "colaLeida" /\ p.cola.v = hechos,
         tablero' = [w \in Tableros |-> tablero'[w]],
         \A w \in Tableros :
           tablero'[w] \in {tablero[w], SiMontado(tablero[w], ConMensaje(tablero[w]))},
         UNCHANGED <<salonVars, seguidor>>
  PROVE  TableroInv'
<1>1. /\ SalonForma' /\ PasesFieles'
      /\ pase' = [x \in Pases |-> pase'[x]] /\ \A x \in Pases : pase'[x] \in UnPase(pase'[x])
      /\ pase'[h] = p /\ \A x \in Pases \ {h} : pase'[x] = pase[x]
  BY UnPaseBien
<1>2. pase[h].eventos = {}
  BY DEF TableroInv, PasesFieles, PaseFiel
<1>3. \A o \in Ordenes : PorDecir(o) => PorDecir(o)'
  BY <1>1, <1>2, SeDice
<1>4. tope # SinCola /\ ColaPorDecir => ColaPorDecir'
  <2>1. SUFFICES ASSUME tope # SinCola, ColaPorDecir, pase[h].fase = "emitido"
                 PROVE  ColaPorDecir'
    BY <1>1, SeDice
  <2> QED BY <1>1, <2>1 DEF ColaPorDecir, salonVars
<1>5. \A w \in Tableros : \E t :
        t = tablero'[w] /\ t \in UnTablero(t) /\ TableroFiel(t)' /\ TableroEnterado(t)'
  <2> TAKE w \in Tableros
  <2>1. PICK u : u = tablero[w]
    OBVIOUS
  <2>2. u \in UnTablero(u) /\ TableroFiel(u) /\ TableroEnterado(u)
    BY <2>1 DEF TableroInv, TableroForma
  <2>3. PICK t : t = tablero'[w]
    OBVIOUS
  <2>4. /\ t \in UnTablero(t) /\ TableroFiel(t) /\ IgualPorFuera(t, u)
        /\ MismosDatos(t, u) /\ (t.cargando => u.cargando)
    <3>1. CASE t = u
      BY <2>2, <3>1 DEF IgualPorFuera, MismosDatos
    <3>2. CASE t = SiMontado(u, ConMensaje(u))
      BY <2>2, <3>2, ConErrorHace
    <3> QED BY <2>1, <2>3, <3>1, <3>2
  <2>5. /\ \A o \in Ordenes : Dicha(u, o) => Dicha(t, o)
        /\ ColaDicha(u) => ColaDicha(t)
    BY <2>4 DEF MismosDatos, Dicha, ColaDicha
  <2>6. TableroFiel(t)' /\ TableroEnterado(t)'
    BY <1>3, <1>4, <2>2, <2>4, <2>5, TableroTrasAviso
  <2> QED BY <2>3, <2>4, <2>6
<1>6. \A d \in Seguidores : \E s :
        /\ s = seguidor'[d] /\ s \in UnSeguidor(s)
        /\ SeguidorFiel(s, Sigue[d])' /\ SeguidorEnterado(s, Sigue[d])'
  <2> TAKE d \in Seguidores
  <2>1. PICK s : s = seguidor[d]
    OBVIOUS
  <2>2. PICK o : o = Sigue[d]
    OBVIOUS
  <2>3. o \in Ordenes /\ s \in UnSeguidor(s) /\ SeguidorFiel(s, o) /\ SeguidorEnterado(s, o)
    BY <2>1, <2>2, ElSeguidor
  <2>4. SeguidorFiel(s, o)' /\ SeguidorEnterado(s, o)'
    BY <1>3, <1>4, <2>3, SeguidorTrasAviso
  <2> QED BY <2>1, <2>2, <2>3, <2>4
<1>7. seguidor' = [d \in Seguidores |-> seguidor'[d]]
  BY DEF TableroInv, TableroForma
<1> QED BY <1>1, <1>5, <1>6, <1>7, InvDePantallas

LEMMA ElPase ==
  ASSUME TableroInv, NEW h \in Pases
  PROVE  /\ pase[h] \in UnPase(pase[h]) /\ PaseFiel(pase[h])
         /\ SinPase \in UnPase(SinPase) /\ PaseFiel(SinPase)
         /\ SinPase.fase = "libre" /\ SinPase.eventos = {}
  BY DEF TableroInv, TableroForma, PasesFieles, UnPase, SinPase, PaseFiel

LEMMA PedirTransicionBien ==
  ASSUME TableroInv, NEW h \in Pases, NEW o \in Ordenes, NEW de \in SUBSET Tableros,
         NEW a \in Transiciones(etapa[o]), PedirTransicion(h, de, o, a)
  PROVE  TableroInv'
<1>1. PICK p : p = [SinPase EXCEPT !.fase = "leyo", !.de = de, !.orden = {o}, !.a = a]
  OBVIOUS
<1>2. /\ a \in {"EN_PREPARACION", "LISTO_PARA_ENTREGAR", "ENTREGADO"}
      /\ etapa[o] # "PENDIENTE_PAGO"
  BY DEF Transiciones, TableroInv, TableroForma, SalonForma, EstadosOrden
<1>3. p \in UnPase(p) /\ p.fase = "leyo" /\ p.orden = {o} /\ p.a = a /\ p.eventos = {}
  BY <1>1, <1>2 DEF SinPase, UnPase, EstadosOrden
<1>4. PaseFiel(p)
  BY <1>2, <1>3 DEF PaseFiel
<1>5. /\ pase' = [pase EXCEPT ![h] = p] /\ pase[h].fase = "libre"
      /\ UNCHANGED <<salonVars, tablero, seguidor>>
  BY <1>1 DEF PedirTransicion
<1>6. tablero' = [w \in Tableros |-> tablero'[w]]
  BY <1>5 DEF TableroInv, TableroForma
<1> QED BY <1>3, <1>4, <1>5, <1>6, PaseSolo

LEMMA RechazarTransicionBien ==
  ASSUME TableroInv, NEW h \in Pases, RechazarTransicion(h)
  PROVE  TableroInv'
<1>1. PICK p : p = SinPase
  OBVIOUS
<1>2. p \in UnPase(p) /\ PaseFiel(p)
  BY <1>1, ElPase
<1>3. /\ pase' = [pase EXCEPT ![h] = p] /\ pase[h].fase = "leyo"
      /\ UNCHANGED <<salonVars, seguidor>>
  BY <1>1 DEF RechazarTransicion
<1>4. /\ tablero' = [w \in Tableros |-> tablero'[w]]
      /\ \A w \in Tableros :
           tablero'[w] \in {tablero[w], SiMontado(tablero[w], ConMensaje(tablero[w]))}
  BY DEF RechazarTransicion, TrasRechazo
<1> QED BY <1>2, <1>3, <1>4, PaseSolo

LEMMA LeerColaDelPaseBien ==
  ASSUME TableroInv, NEW h \in Pases, LeerColaDelPase(h)
  PROVE  TableroInv'
<1>1. PICK u : u = pase[h]
  OBVIOUS
<1>2. PICK copia : copia = [cola |-> FotoDeLaCola, v |-> hechos]
  OBVIOUS
<1>3. PICK p : p = IF tope # SinCola \/ u.forzar
                   THEN [u EXCEPT !.fase = "colaLeida", !.cola = copia] ELSE SinPase
  OBVIOUS
<1>4. u \in UnPase(u) /\ PaseFiel(u) /\ u.fase = "emitido"
  BY <1>1, ElPase DEF LeerColaDelPase
<1>5. CopiaFiel(copia) /\ copia.v = hechos
  BY <1>2, CopiaDeAhora DEF TableroInv, TableroForma
<1>6. /\ p \in UnPase(p) /\ PaseFiel(p)
      /\ tope # SinCola => p.fase = "colaLeida" /\ p.cola.v = hechos
  <2>1. CASE tope # SinCola \/ u.forzar
    <3>1. /\ p \in UnPase(p) /\ p.fase = "colaLeida" /\ p.cola = copia
          /\ p.eventos = u.eventos
      BY <1>3, <1>4, <2>1 DEF UnPase
    <3>2. PaseFiel(p)
      BY <1>4, <1>5, <3>1 DEF PaseFiel
    <3> QED BY <1>5, <3>1, <3>2
  <2>2. CASE ~(tope # SinCola \/ u.forzar)
    BY <1>3, <2>2, ElPase
  <2> QED BY <2>1, <2>2
<1>7. pase' = [pase EXCEPT ![h] = p] /\ UNCHANGED <<salonVars, tablero, seguidor>>
  BY <1>1, <1>2, <1>3 DEF LeerColaDelPase, TableroInv, TableroForma
<1>8. tablero' = [w \in Tableros |-> tablero'[w]]
  BY <1>7 DEF TableroInv, TableroForma
<1> QED BY <1>1, <1>4, <1>6, <1>7, <1>8, PaseSolo

LEMMA MostradaHace ==
  ASSUME SalonForma, NEW o \in Ordenes, NEW ficha \in Fichas, NEW e \in Eventos,
         e.orden = o, EventoFiel(e),
         ficha.v <= version[o], ficha.v = version[o] => ficha.estado = Muestra(etapa[o])
  PROVE  LET f == Mostrada(ficha, e) IN
         /\ f \in Fichas /\ f.v <= version[o]
         /\ f.v = version[o] => f.estado = Muestra(etapa[o])
<1>1. /\ e.v \in Nat /\ e.v <= version[o] /\ e.estado \in EstadosOrden \ {"PENDIENTE_PAGO"}
      /\ e.v = version[o] => e.estado = etapa[o]
      /\ e.nuevo => e.estado \in {"RECIBIDO", "EN_PREPARACION"}
  BY DEF EventoFiel, FichaFiel, Eventos, SalonForma
<1>2. PICK g : g = [estado |-> e.estado, v |-> e.v]
  OBVIOUS
<1>3. PICK k : k = [estado |-> "fuera", v |-> e.v]
  OBVIOUS
<1>4. /\ g \in Fichas /\ g.v = e.v /\ g.estado = e.estado
      /\ k \in Fichas /\ k.v = e.v /\ k.estado = "fuera"
  BY <1>1, <1>2, <1>3 DEF Fichas
<1>5. CASE e.nuevo
  <2>1. Mostrada(ficha, e) = IF ficha.estado = "fuera" THEN g ELSE ficha
    BY <1>2, <1>5 DEF Mostrada
  <2> QED BY <1>1, <1>4, <1>5, <2>1 DEF Muestra
<1>6. CASE ~e.nuevo /\ e.estado = "ENTREGADO"
  <2>1. Mostrada(ficha, e) = k
    BY <1>3, <1>6 DEF Mostrada
  <2> QED BY <1>1, <1>4, <1>6, <2>1 DEF Muestra
<1>7. CASE ~e.nuevo /\ e.estado # "ENTREGADO"
  <2>1. Mostrada(ficha, e) = IF ficha.estado = "fuera" THEN ficha ELSE g
    BY <1>2, <1>7 DEF Mostrada
  <2> QED BY <1>1, <1>4, <1>7, <2>1 DEF Muestra
<1> QED BY <1>5, <1>6, <1>7

\* Of the events of one change, the one of o is told.
LEMMA ElDeLaOrden ==
  ASSUME NEW es \in SUBSET Eventos, NEW o \in Ordenes, De(es, o) # {},
         \A e, x \in es : x.orden = e.orden => x = e
  PROVE  /\ (CHOOSE e \in De(es, o) : TRUE) \in es
         /\ (CHOOSE e \in De(es, o) : TRUE).orden = o
         /\ \A x \in es : x.orden = o => x = CHOOSE e \in De(es, o) : TRUE
<1>1. (CHOOSE e \in De(es, o) : TRUE) \in De(es, o)
  OBVIOUS
<1> QED BY <1>1 DEF De

LEMMA ConEventosHace ==
  ASSUME SalonForma, NEW u, u \in UnTablero(u), TableroFiel(u),
         NEW es \in SUBSET Eventos, \A e \in es : EventoFiel(e),
         \A e, x \in es : x.orden = e.orden => x = e,
         NEW n, n = SiMontado(u, ConEventos(u, es))
  PROVE  /\ n \in UnTablero(n) /\ IgualPorFuera(n, u) /\ TableroFiel(n)
         /\ n.cargando = u.cargando /\ (ColaDicha(u) => ColaDicha(n))
         /\ \A o \in Ordenes :
              /\ n.montado
              /\ Dicha(u, o) \/ \E e \in es : e.orden = o /\ e.v = version[o]
              => Dicha(n, o)
<1>1. CASE ~u.montado
  BY <1>1 DEF SiMontado, IgualPorFuera
<1>2. CASE u.montado
  <2>1. /\ n = [u EXCEPT !.lista = n.lista, !.visto = n.visto]
        /\ n.lista = [o \in Ordenes |-> IF De(es, o) = {} THEN u.lista[o]
                        ELSE Mostrada(u.lista[o], CHOOSE e \in De(es, o) : TRUE)]
        /\ n.visto = [o \in Ordenes |-> IF De(es, o) = {} THEN u.visto[o]
                        ELSE Maximo(u.visto[o], (CHOOSE e \in De(es, o) : TRUE).v)]
    BY <1>2 DEF SiMontado, ConEventos, UnTablero
  <2>2. u.lista \in [Ordenes -> Fichas] /\ u.visto \in [Ordenes -> Nat]
    BY DEF UnTablero
  <2>3. ASSUME NEW o \in Ordenes
        PROVE  /\ n.lista[o] \in Fichas /\ n.lista[o].v <= version[o]
               /\ n.lista[o].v = version[o] => n.lista[o].estado = Muestra(etapa[o])
               /\ n.visto[o] \in Nat /\ n.visto[o] <= version[o]
               /\ u.visto[o] = version[o] \/ (\E e \in es : e.orden = o /\ e.v = version[o])
                    => n.visto[o] = version[o]
    <3>1. /\ u.lista[o] \in Fichas /\ u.lista[o].v <= version[o]
          /\ u.lista[o].v = version[o] => u.lista[o].estado = Muestra(etapa[o])
          /\ u.visto[o] \in Nat /\ u.visto[o] <= version[o] /\ version[o] \in Nat
      BY <2>2 DEF TableroFiel, SalonForma
    <3>2. CASE De(es, o) = {}
      <4>1. n.lista[o] = u.lista[o] /\ n.visto[o] = u.visto[o]
        BY <2>1, <3>2
      <4>2. \A e \in es : e.orden # o
        BY <3>2 DEF De
      <4> QED BY <3>1, <4>1, <4>2
    <3>3. CASE De(es, o) # {}
      <4>1. PICK e : e = CHOOSE x \in De(es, o) : TRUE
        OBVIOUS
      <4>2. e \in es /\ e.orden = o /\ \A x \in es : x.orden = o => x = e
        BY <3>3, <4>1, ElDeLaOrden
      <4>3. e \in Eventos /\ EventoFiel(e) /\ e.v \in Nat /\ e.v <= version[o]
        BY <3>1, <4>2 DEF EventoFiel, FichaFiel
      <4>4. n.lista[o] = Mostrada(u.lista[o], e) /\ n.visto[o] = Maximo(u.visto[o], e.v)
        BY <2>1, <3>3, <4>1
      <4>5. /\ n.lista[o] \in Fichas /\ n.lista[o].v <= version[o]
            /\ n.lista[o].v = version[o] => n.lista[o].estado = Muestra(etapa[o])
        BY <3>1, <4>2, <4>3, <4>4, MostradaHace
      <4>6. /\ n.visto[o] \in Nat /\ n.visto[o] <= version[o]
            /\ version[o] \in {u.visto[o], e.v} => n.visto[o] = version[o]
        BY <3>1, <4>3, <4>4 DEF Maximo
      <4> QED BY <4>2, <4>5, <4>6
    <3> QED BY <3>2, <3>3
  <2>4. n.lista \in [Ordenes -> Fichas] /\ n.visto \in [Ordenes -> Nat]
    BY <2>1, <2>3
  <2>5. /\ n \in UnTablero(n) /\ IgualPorFuera(n, u)
        /\ n.cola = u.cola /\ n.colaVista = u.colaVista /\ n.cargando = u.cargando
        /\ n.perdido = u.perdido /\ n.colaPerdida = u.colaPerdida
    BY <1>2, <2>1, <2>4 DEF UnTablero, IgualPorFuera
  <2>6. TableroFiel(n)
    BY <2>3, <2>5 DEF TableroFiel, Fotos, IgualPorFuera
  <2> QED BY <2>3, <2>5, <2>6 DEF Dicha, ColaDicha
<1>3. u.montado \in BOOLEAN
  BY DEF UnTablero
<1> QED BY <1>1, <1>2, <1>3

LEMMA SinEventosHace ==
  ASSUME SalonForma, NEW u, u \in UnTablero(u), TableroFiel(u),
         NEW es \in SUBSET Eventos, \A e \in es : EventoFiel(e),
         \A e, x \in es : x.orden = e.orden => x = e,
         NEW n, n = SinEventos(u, es)
  PROVE  /\ n \in UnTablero(n) /\ IgualPorFuera(n, u) /\ TableroFiel(n)
         /\ n.cargando = u.cargando
         /\ \A o \in Ordenes :
              Dicha(u, o) \/ (\E e \in es : e.orden = o /\ e.v = version[o]) => Dicha(n, o)
<1>1. /\ n = [u EXCEPT !.perdido = n.perdido]
      /\ n.perdido = [o \in Ordenes |-> IF De(es, o) = {} THEN u.perdido[o]
                        ELSE Maximo(u.perdido[o], (CHOOSE e \in De(es, o) : TRUE).v)]
  BY DEF SinEventos, UnTablero
<1>2. ASSUME NEW o \in Ordenes
      PROVE  /\ n.perdido[o] \in Nat /\ n.perdido[o] <= version[o]
             /\ \/ u.perdido[o] = version[o]
                \/ \E e \in es : e.orden = o /\ e.v = version[o]
                => n.perdido[o] = version[o]
  <2>1. u.perdido[o] \in Nat /\ u.perdido[o] <= version[o] /\ version[o] \in Nat
    BY DEF UnTablero, TableroFiel, SalonForma
  <2>2. CASE De(es, o) = {}
    <3>1. n.perdido[o] = u.perdido[o] /\ \A e \in es : e.orden # o
      BY <1>1, <2>2 DEF De
    <3> QED BY <2>1, <3>1
  <2>3. CASE De(es, o) # {}
    <3>1. PICK e : e = CHOOSE x \in De(es, o) : TRUE
      OBVIOUS
    <3>2. e \in es /\ e.orden = o /\ \A x \in es : x.orden = o => x = e
      BY <2>3, <3>1, ElDeLaOrden
    <3>3. e.v \in Nat /\ e.v <= version[o]
      BY <2>1, <3>2 DEF EventoFiel, FichaFiel
    <3>4. n.perdido[o] = Maximo(u.perdido[o], e.v)
      BY <1>1, <2>3, <3>1
    <3>5. /\ n.perdido[o] \in Nat /\ n.perdido[o] <= version[o]
          /\ version[o] \in {u.perdido[o], e.v} => n.perdido[o] = version[o]
      BY <2>1, <3>3, <3>4 DEF Maximo
    <3> QED BY <3>2, <3>5
  <2> QED BY <2>2, <2>3
<1>3. n.perdido \in [Ordenes -> Nat]
  BY <1>1, <1>2
<1>4. /\ n \in UnTablero(n) /\ IgualPorFuera(n, u) /\ Fotos(n) = Fotos(u)
      /\ n.lista = u.lista /\ n.visto = u.visto /\ n.cargando = u.cargando
      /\ n.cola = u.cola /\ n.colaVista = u.colaVista
  BY <1>1, <1>3 DEF UnTablero, IgualPorFuera, Fotos
<1>5. TableroFiel(n)
  BY <1>2, <1>4 DEF TableroFiel
<1> QED BY <1>2, <1>4, <1>5 DEF Dicha

LEMMA EmitirCambiosBien ==
  ASSUME TableroInv, NEW h \in Pases, EmitirCambios(h)
  PROVE  TableroInv'
<1>1. PICK u : u = pase[h]
  OBVIOUS
<1>2. PICK es : es = pase[h].eventos
  OBVIOUS
<1>3. PICK p : p = [u EXCEPT !.fase = "emitido", !.de = {}, !.eventos = {}]
  OBVIOUS
<1>4. /\ u \in UnPase(u) /\ PaseFiel(u) /\ u.fase = "hecho" /\ SalonForma
      /\ UNCHANGED salonVars
  BY <1>1, ElPase DEF EmitirCambios, TableroInv, TableroForma
<1>5. /\ es \in SUBSET Eventos /\ \A e \in es : EventoFiel(e)
      /\ \A e, x \in es : x.orden = e.orden => x = e
  BY <1>1, <1>2, <1>4 DEF UnPase, PaseFiel
<1>6. p \in UnPase(p) /\ PaseFiel(p) /\ p.fase = "emitido" /\ p.eventos = {}
  BY <1>3, <1>4 DEF UnPase, PaseFiel
<1>7. pase' = [pase EXCEPT ![h] = p]
  BY <1>1, <1>3 DEF EmitirCambios, TableroInv, TableroForma
<1>8. /\ SalonForma' /\ PasesFieles'
      /\ pase' = [x \in Pases |-> pase'[x]] /\ \A x \in Pases : pase'[x] \in UnPase(pase'[x])
      /\ pase'[h] = p /\ \A x \in Pases \ {h} : pase'[x] = pase[x]
  BY <1>4, <1>6, <1>7, UnPaseBien
<1>9. /\ ColaPorDecir'
      /\ \A o \in Ordenes : PorDecir(o) =>
           PorDecir(o)' \/ \E e \in es : e.orden = o /\ e.v = version[o]
  BY <1>2, <1>4, <1>6, <1>8, SeDice DEF ColaPorDecir
<1>10. /\ tablero' = [w \in Tableros |->
            IF EnLaSala(w) THEN SiMontado(tablero[w], ConEventos(tablero[w], es)) ELSE tablero[w]]
       /\ seguidor' = [d \in Seguidores |->
            LET suyos == De(es, Sigue[d])
                e == CHOOSE x \in suyos : TRUE
            IN  CASE suyos # {} /\ SigueA(d, Sigue[d]) ->
                       ConEstado(seguidor[d], [estado |-> e.estado, v |-> e.v])
                  [] suyos # {} /\ seguidor[d].fase = "leido" ->
                       [seguidor[d] EXCEPT !.perdido = Maximo(@, e.v)]
                  [] OTHER -> seguidor[d]]
  BY <1>2 DEF EmitirCambios, AEmitir
<1>11. \A w \in Tableros : \E t :
         t = tablero'[w] /\ t \in UnTablero(t) /\ TableroFiel(t)' /\ TableroEnterado(t)'
  <2> TAKE w \in Tableros
  <2>1. PICK b : b = tablero[w]
    OBVIOUS
  <2>2. b \in UnTablero(b) /\ TableroFiel(b) /\ TableroEnterado(b)
    BY <2>1 DEF TableroInv, TableroForma
  <2>3. PICK t : t = IF b.conectado THEN SiMontado(b, ConEventos(b, es)) ELSE b
    OBVIOUS
  <2>4. t = tablero'[w]
    BY <1>10, <2>1, <2>3 DEF EnLaSala
  <2>5. /\ t \in UnTablero(t) /\ IgualPorFuera(t, b) /\ TableroFiel(t)
        /\ t.cargando = b.cargando /\ (ColaDicha(b) => ColaDicha(t))
        /\ \A o \in Ordenes :
             /\ t.montado /\ t.conectado
             /\ Dicha(b, o) \/ \E e \in es : e.orden = o /\ e.v = version[o]
             => Dicha(t, o)
    <3>1. CASE b.conectado
      BY <1>4, <1>5, <2>2, <2>3, <3>1, ConEventosHace
    <3>2. CASE ~b.conectado
      BY <2>2, <2>3, <3>2 DEF IgualPorFuera
    <3> QED BY <3>1, <3>2
  <2>6. TableroFiel(t)' /\ TableroEnterado(t)'
    BY <1>4, <1>9, <2>2, <2>5, TableroTrasAviso
  <2> QED BY <2>4, <2>5, <2>6
<1>12. \A d \in Seguidores : \E s :
         /\ s = seguidor'[d] /\ s \in UnSeguidor(s)
         /\ SeguidorFiel(s, Sigue[d])' /\ SeguidorEnterado(s, Sigue[d])'
  <2> TAKE d \in Seguidores
  <2>1. PICK b : b = seguidor[d]
    OBVIOUS
  <2>2. PICK o : o = Sigue[d]
    OBVIOUS
  <2>3. /\ o \in Ordenes /\ b \in UnSeguidor(b) /\ SeguidorFiel(b, o) /\ SeguidorEnterado(b, o)
        /\ version[o] \in Nat /\ b.visto \in Nat /\ b.perdido \in Nat
    BY <2>1, <2>2, ElSeguidor DEF UnSeguidor
  <2>4. \/ PorDecir(o) => PorDecir(o)'
        \/ De(es, o) # {}
    BY <1>9, <2>3 DEF De
  <2>5. CASE De(es, o) # {} /\ b.fase \in {"cola", "colaLeida", "sigue"}
    <3>1. PICK e : e = CHOOSE x \in De(es, o) : TRUE
      OBVIOUS
    <3>2. e \in es /\ e.orden = o /\ \A x \in es : x.orden = o => x = e
      BY <1>5, <2>3, <2>5, <3>1, ElDeLaOrden
    <3>3. /\ e.estado \in EstadosOrden /\ e.v \in Nat /\ e.v <= version[o]
          /\ e.v = version[o] => e.estado = etapa[o]
      BY <1>5, <2>3, <3>2 DEF EventoFiel, FichaFiel, Eventos
    <3>4. PICK ficha : ficha = [estado |-> e.estado, v |-> e.v]
      OBVIOUS
    <3>5. ficha \in Fichas /\ ficha.v = e.v /\ ficha.estado = e.estado
      BY <3>3, <3>4 DEF Fichas
    <3>6. PICK s : s = ConEstado(b, ficha)
      OBVIOUS
    <3>7. s = seguidor'[d]
      BY <1>10, <2>1, <2>2, <2>5, <3>1, <3>4, <3>6 DEF SigueA
    <3>8. /\ Maximo(b.visto, e.v) \in Nat /\ Maximo(b.visto, e.v) <= version[o]
          /\ version[o] \in {b.visto, e.v} => Maximo(b.visto, e.v) = version[o]
      BY <2>3, <3>3 DEF Maximo, SeguidorFiel
    <3>9. /\ s \in UnSeguidor(s) /\ s.fase = b.fase /\ s.leido = b.leido /\ s.estado = ficha
          /\ s.visto = Maximo(b.visto, e.v) /\ s.perdido = b.perdido
          /\ s.lugar = b.lugar /\ s.lugarVisto = b.lugarVisto
          /\ s.lugarPerdido = b.lugarPerdido
      BY <2>3, <3>5, <3>6, <3>8 DEF ConEstado, UnSeguidor
    <3>10. SeguidorFiel(s, o)
      BY <2>3, <2>5, <3>3, <3>5, <3>8, <3>9 DEF SeguidorFiel
    <3>11. PorDecir(o) /\ ~PorDecir(o)' => s.visto = version[o]
      BY <1>9, <2>3, <3>2, <3>8, <3>9
    <3>12. LugarDicho(b) => LugarDicho(s)
      BY <3>9 DEF LugarDicho
    <3>13. SeguidorFiel(s, o)' /\ SeguidorEnterado(s, o)'
      BY <1>4, <1>9, <2>3, <2>5, <3>8, <3>9, <3>10, <3>11, <3>12, SeguidorTrasAviso
    <3> QED BY <2>2, <3>7, <3>9, <3>13
  <2>6. CASE De(es, o) # {} /\ b.fase = "leido"
    <3>1. PICK e : e = CHOOSE x \in De(es, o) : TRUE
      OBVIOUS
    <3>2. e \in es /\ e.orden = o /\ \A x \in es : x.orden = o => x = e
      BY <1>5, <2>3, <2>6, <3>1, ElDeLaOrden
    <3>3. e.v \in Nat /\ e.v <= version[o]
      BY <1>5, <2>3, <3>2 DEF EventoFiel, FichaFiel
    <3>4. PICK s : s = [b EXCEPT !.perdido = Maximo(b.perdido, e.v)]
      OBVIOUS
    <3>5. ~SigueA(d, Sigue[d])
      BY <2>1, <2>6 DEF SigueA
    <3>6. s = seguidor'[d]
      BY <1>10, <2>1, <2>2, <2>3, <2>6, <3>1, <3>4, <3>5 DEF UnSeguidor
    <3>7. /\ Maximo(b.perdido, e.v) \in Nat /\ Maximo(b.perdido, e.v) <= version[o]
          /\ version[o] \in {b.perdido, e.v} => Maximo(b.perdido, e.v) = version[o]
      BY <2>3, <3>3 DEF Maximo, SeguidorFiel
    <3>8. /\ s \in UnSeguidor(s) /\ s.fase = b.fase /\ s.leido = b.leido
          /\ s.estado = b.estado /\ s.visto = b.visto /\ s.perdido = Maximo(b.perdido, e.v)
          /\ s.lugar = b.lugar /\ s.lugarVisto = b.lugarVisto
      BY <2>3, <3>4, <3>7 DEF UnSeguidor
    <3>9. SeguidorFiel(s, o)
      BY <2>3, <3>7, <3>8 DEF SeguidorFiel
    <3>10. PorDecir(o) /\ ~PorDecir(o)' => s.perdido = version[o]
      BY <1>9, <2>3, <3>2, <3>7, <3>8
    <3>11. SeguidorFiel(s, o)' /\ SeguidorEnterado(s, o)'
      BY <1>4, <2>3, <2>6, <3>7, <3>8, <3>9, <3>10, SeguidorTrasAviso
    <3> QED BY <2>2, <3>6, <3>8, <3>11
  <2>7. CASE \/ De(es, o) = {}
             \/ b.fase \notin {"cola", "colaLeida", "sigue", "leido"}
    <3>1. b = seguidor'[d]
      BY <1>10, <2>1, <2>2, <2>7 DEF SigueA
    <3>2. SeguidorFiel(b, o)' /\ SeguidorEnterado(b, o)'
      BY <1>4, <1>9, <2>3, <2>4, <2>7, SeguidorTrasAviso
    <3> QED BY <2>2, <2>3, <3>1, <3>2
  <2> QED BY <2>5, <2>6, <2>7
<1>13. /\ tablero' = [w \in Tableros |-> tablero'[w]]
       /\ seguidor' = [d \in Seguidores |-> seguidor'[d]]
  BY <1>10
<1> QED BY <1>8, <1>11, <1>12, <1>13, InvDePantallas

LEMMA EmitirColaBien ==
  ASSUME TableroInv, NEW h \in Pases, EmitirCola(h)
  PROVE  TableroInv'
<1>1. PICK u : u = pase[h]
  OBVIOUS
<1>2. PICK copia : copia = u.cola
  OBVIOUS
<1>3. PICK p : p = SinPase
  OBVIOUS
<1>4. /\ PaseFiel(u) /\ u.fase = "colaLeida" /\ SalonForma
      /\ UNCHANGED salonVars /\ pase' = [pase EXCEPT ![h] = p]
  BY <1>1, <1>3, ElPase DEF EmitirCola, TableroInv, TableroForma
<1>5. CopiaFiel(copia) /\ u.eventos = {}
  BY <1>2, <1>4 DEF PaseFiel
<1>6. /\ SalonForma' /\ PasesFieles'
      /\ pase' = [x \in Pases |-> pase'[x]] /\ \A x \in Pases : pase'[x] \in UnPase(pase'[x])
      /\ pase'[h] = p /\ \A x \in Pases \ {h} : pase'[x] = pase[x]
  BY <1>3, <1>4, ElPase, UnPaseBien
<1>7. /\ \A o \in Ordenes : PorDecir(o) => PorDecir(o)'
      /\ ColaPorDecir => ColaPorDecir' \/ copia.v = hechos
  BY <1>1, <1>2, <1>4, <1>5, <1>6, SeDice
<1>8. /\ tablero' = [w \in Tableros |->
           IF EnLaSala(w) THEN SiMontado(tablero[w], ConCola(tablero[w], copia)) ELSE tablero[w]]
      /\ seguidor' = [d \in Seguidores |->
           IF SigueA(d, Sigue[d]) /\ Sigue[d] \in DOMAIN copia.cola.espera
             THEN ConLugar(seguidor[d], Puesto(copia.cola.espera, Sigue[d]), copia.v)
             ELSE seguidor[d]]
  BY <1>1, <1>2 DEF EmitirCola
<1>9. \A w \in Tableros : \E t :
         t = tablero'[w] /\ t \in UnTablero(t) /\ TableroFiel(t)' /\ TableroEnterado(t)'
  <2> TAKE w \in Tableros
  <2>1. PICK b : b = tablero[w]
    OBVIOUS
  <2>2. b \in UnTablero(b) /\ TableroFiel(b) /\ TableroEnterado(b)
    BY <2>1 DEF TableroInv, TableroForma
  <2>3. PICK t : t = IF b.conectado THEN SiMontado(b, ConCola(b, copia)) ELSE b
    OBVIOUS
  <2>4. t = tablero'[w]
    BY <1>8, <2>1, <2>3 DEF EnLaSala
  <2>5. /\ t \in UnTablero(t) /\ IgualPorFuera(t, b) /\ TableroFiel(t)
        /\ t.visto = b.visto /\ t.perdido = b.perdido /\ t.cargando = b.cargando
        /\ t.conectado /\ t.montado /\ (copia.v = hechos \/ ColaDicha(b)) => ColaDicha(t)
    <3>1. CASE b.conectado
      BY <1>4, <1>5, <2>2, <2>3, <3>1, ConColaHace
    <3>2. CASE ~b.conectado
      BY <2>2, <2>3, <3>2 DEF IgualPorFuera
    <3> QED BY <3>1, <3>2
  <2>6. \A o \in Ordenes : Dicha(b, o) => Dicha(t, o)
    BY <2>5 DEF Dicha
  <2>7. TableroFiel(t)' /\ TableroEnterado(t)'
    BY <1>4, <1>7, <2>2, <2>5, <2>6, TableroTrasAviso
  <2> QED BY <2>4, <2>5, <2>7
<1>10. \A d \in Seguidores : \E s :
         /\ s = seguidor'[d] /\ s \in UnSeguidor(s)
         /\ SeguidorFiel(s, Sigue[d])' /\ SeguidorEnterado(s, Sigue[d])'
  <2> TAKE d \in Seguidores
  <2>1. PICK b : b = seguidor[d]
    OBVIOUS
  <2>2. PICK o : o = Sigue[d]
    OBVIOUS
  <2>3. o \in Ordenes /\ b \in UnSeguidor(b) /\ SeguidorFiel(b, o) /\ SeguidorEnterado(b, o)
    BY <2>1, <2>2, ElSeguidor
  <2>4. PICK v \in 0..hechos : v = copia.v
    BY <1>5 DEF CopiaFiel
  <2>5. PICK k \in Nat : k = Puesto(copia.cola.espera, o)
    BY <1>5, <2>3 DEF CopiaFiel
  <2>6. v = hechos => k = Puesto(FotoDeLaCola.espera, o)
    BY <1>5, <2>4, <2>5 DEF CopiaFiel
  <2>7. CASE SigueA(d, o) /\ o \in DOMAIN copia.cola.espera
    <3>1. PICK s : s = ConLugar(b, k, v)
      OBVIOUS
    <3>2. s = seguidor'[d]
      BY <1>8, <2>1, <2>2, <2>4, <2>5, <2>7, <3>1
    <3>3. /\ s \in UnSeguidor(s) /\ SeguidorFiel(s, o)
          /\ s.fase = b.fase /\ s.leido = b.leido /\ s.visto = b.visto /\ s.perdido = b.perdido
          /\ v = hechos \/ LugarDicho(b) => LugarDicho(s)
      BY <1>4, <2>3, <2>6, <3>1, ConLugarHace
    <3>4. SeguidorFiel(s, o)' /\ SeguidorEnterado(s, o)'
      BY <1>4, <1>7, <2>3, <2>4, <3>3, SeguidorTrasAviso
    <3> QED BY <2>2, <3>2, <3>3, <3>4
  <2>8. CASE ~(SigueA(d, o) /\ o \in DOMAIN copia.cola.espera)
    <3>1. b = seguidor'[d]
      BY <1>8, <2>1, <2>2, <2>8
    <3>2. ASSUME b.fase \in {"colaLeida", "sigue"}, tope # SinCola, etapa[o] = "RECIBIDO"
          PROVE  copia.v # hechos
      <4>1. o \in DOMAIN FotoDeLaCola.espera
        BY <1>4, <2>3, <3>2, ElPuesto
      <4>2. o \notin DOMAIN copia.cola.espera
        BY <2>1, <2>2, <2>8, <3>2 DEF SigueA
      <4> QED BY <1>5, <4>1, <4>2 DEF CopiaFiel
    <3>3. SeguidorFiel(b, o)' /\ SeguidorEnterado(b, o)'
      BY <1>4, <1>7, <2>3, <3>2, SeguidorTrasAviso
    <3> QED BY <2>2, <2>3, <3>1, <3>3
  <2> QED BY <2>7, <2>8
<1>11. /\ tablero' = [w \in Tableros |-> tablero'[w]]
       /\ seguidor' = [d \in Seguidores |-> seguidor'[d]]
  BY <1>8
<1> QED BY <1>6, <1>9, <1>10, <1>11, InvDePantallas

LEMMA PerderRespuestaBien ==
  ASSUME TableroInv, NEW h \in Pases, PerderRespuesta(h)
  PROVE  TableroInv'
<1>1. PICK u : u = pase[h]
  OBVIOUS
<1>2. PICK es : es = pase[h].eventos
  OBVIOUS
<1>3. PICK p : p = SinPase
  OBVIOUS
<1>4. /\ u \in UnPase(u) /\ PaseFiel(u) /\ SalonForma
      /\ UNCHANGED salonVars /\ pase' = [pase EXCEPT ![h] = p]
  BY <1>1, <1>3, ElPase DEF PerderRespuesta, TableroInv, TableroForma
<1>5. /\ es \in SUBSET Eventos /\ \A e \in es : EventoFiel(e)
      /\ \A e, x \in es : x.orden = e.orden => x = e
  BY <1>1, <1>2, <1>4 DEF UnPase, PaseFiel
<1>6. /\ SalonForma' /\ PasesFieles'
      /\ pase' = [x \in Pases |-> pase'[x]] /\ \A x \in Pases : pase'[x] \in UnPase(pase'[x])
      /\ pase'[h] = p /\ \A x \in Pases \ {h} : pase'[x] = pase[x]
  BY <1>3, <1>4, ElPase, UnPaseBien
<1>7. \A o \in Ordenes : PorDecir(o) =>
        PorDecir(o)' \/ \E e \in es : e.orden = o /\ e.v = version[o]
  BY <1>2, <1>4, <1>6, SeDice
<1>8. \A w \in Tableros : \E t :
        t = tablero'[w] /\ t \in UnTablero(t) /\ TableroFiel(t)' /\ TableroEnterado(t)'
  <2> TAKE w \in Tableros
  <2>1. PICK b : b = tablero[w]
    OBVIOUS
  <2>2. b \in UnTablero(b) /\ TableroFiel(b) /\ TableroEnterado(b)
    BY <2>1 DEF TableroInv, TableroForma
  <2>3. PICK m : m = SinEventos(b, es)
    OBVIOUS
  <2>4. PICK k : k = SinLaCola(m)
    OBVIOUS
  <2>5. PICK n : n = IF b.conectado THEN SiMontado(b, k) ELSE b
    OBVIOUS
  <2>6. PICK t : t = IF w \in u.de THEN SiMontado(n, ConMensaje(n)) ELSE n
    OBVIOUS
  <2>7. t = tablero'[w]
    BY <1>1, <1>2, <2>1, <2>3, <2>4, <2>5, <2>6 DEF PerderRespuesta, TrasRechazo, EnLaSala
  <2>8. /\ m \in UnTablero(m) /\ IgualPorFuera(m, b) /\ TableroFiel(m)
        /\ m.cargando = b.cargando
        /\ \A o \in Ordenes :
             Dicha(b, o) \/ (\E e \in es : e.orden = o /\ e.v = version[o]) => Dicha(m, o)
    BY <1>4, <1>5, <2>2, <2>3, SinEventosHace
  <2>9. /\ k \in UnTablero(k) /\ TableroFiel(k) /\ IgualPorFuera(k, m)
        /\ k.visto = m.visto /\ k.perdido = m.perdido /\ k.cargando = m.cargando
        /\ ColaDicha(k)
    BY <1>4, <2>4, <2>8, SinLaColaHace
  <2>10. /\ n \in UnTablero(n) /\ TableroFiel(n) /\ IgualPorFuera(n, b)
         /\ n.cargando = b.cargando
         /\ n.conectado /\ n.montado =>
              /\ ColaDicha(n)
              /\ \A o \in Ordenes :
                   Dicha(b, o) \/ (\E e \in es : e.orden = o /\ e.v = version[o]) => Dicha(n, o)
    <3>1. CASE n = b /\ ~(b.conectado /\ b.montado)
      BY <2>2, <3>1 DEF IgualPorFuera
    <3>2. CASE n = k
      BY <2>8, <2>9, <3>2 DEF IgualPorFuera, Dicha
    <3>3. b.conectado \in BOOLEAN /\ b.montado \in BOOLEAN
      BY <2>2 DEF UnTablero
    <3> QED BY <2>5, <3>1, <3>2, <3>3 DEF SiMontado
  <2>11. /\ t \in UnTablero(t) /\ TableroFiel(t) /\ IgualPorFuera(t, n)
         /\ MismosDatos(t, n) /\ (t.cargando => n.cargando)
    <3>1. CASE t = n
      BY <2>10, <3>1 DEF IgualPorFuera, MismosDatos
    <3>2. CASE t = SiMontado(n, ConMensaje(n))
      BY <2>10, <3>2, ConErrorHace
    <3> QED BY <2>6, <3>1, <3>2
  <2>12. /\ IgualPorFuera(t, b) /\ (t.cargando => b.cargando)
         /\ t.conectado /\ t.montado =>
              /\ ColaDicha(t)
              /\ \A o \in Ordenes :
                   Dicha(b, o) \/ (\E e \in es : e.orden = o /\ e.v = version[o]) => Dicha(t, o)
    BY <2>10, <2>11 DEF IgualPorFuera, MismosDatos, Dicha, ColaDicha
  <2>13. TableroFiel(t)' /\ TableroEnterado(t)'
    BY <1>4, <1>7, <2>2, <2>11, <2>12, TableroTrasAviso
  <2> QED BY <2>7, <2>11, <2>13
<1>9. \A d \in Seguidores : \E s :
        /\ s = seguidor'[d] /\ s \in UnSeguidor(s)
        /\ SeguidorFiel(s, Sigue[d])' /\ SeguidorEnterado(s, Sigue[d])'
  <2> TAKE d \in Seguidores
  <2>1. PICK b : b = seguidor[d]
    OBVIOUS
  <2>2. PICK o : o = Sigue[d]
    OBVIOUS
  <2>3. /\ o \in Ordenes /\ b \in UnSeguidor(b) /\ SeguidorFiel(b, o) /\ SeguidorEnterado(b, o)
        /\ version[o] \in Nat /\ b.perdido \in Nat /\ b.perdido <= version[o] /\ hechos \in Nat
    BY <2>1, <2>2, ElSeguidor DEF UnSeguidor, SeguidorFiel
  <2>4. CASE b.fase \in {"fuera", "pide"}
    <3>1. b = seguidor'[d]
      BY <2>1, <2>4 DEF PerderRespuesta
    <3>2. SeguidorFiel(b, o)' /\ SeguidorEnterado(b, o)'
      BY <1>4, <2>3, <2>4, SeguidorTrasAviso
    <3> QED BY <2>2, <2>3, <3>1, <3>2
  <2>5. CASE b.fase \notin {"fuera", "pide"}
    <3>1. PICK e : e = CHOOSE x \in De(es, o) : TRUE
      OBVIOUS
    <3>2. PICK v : v = IF De(es, o) = {} THEN b.perdido ELSE Maximo(b.perdido, e.v)
      OBVIOUS
    <3>3. PICK s : s = [b EXCEPT !.perdido = v, !.lugarPerdido = hechos]
      OBVIOUS
    <3>4. s = seguidor'[d]
      BY <1>2, <2>1, <2>2, <2>3, <2>5, <3>1, <3>2, <3>3 DEF PerderRespuesta, UnSeguidor
    <3>5. /\ v \in Nat /\ v <= version[o]
          /\ b.perdido = version[o] => v = version[o]
          /\ PorDecir(o) /\ ~PorDecir(o)' => v = version[o]
      <4>1. CASE De(es, o) = {}
        <5>1. \A x \in es : x.orden # o
          BY <4>1 DEF De
        <5> QED BY <1>7, <2>3, <3>2, <4>1, <5>1
      <4>2. CASE De(es, o) # {}
        <5>1. e \in es /\ e.orden = o /\ \A x \in es : x.orden = o => x = e
          BY <1>5, <2>3, <3>1, <4>2, ElDeLaOrden
        <5>2. e.v \in Nat /\ e.v <= version[o]
          BY <1>5, <2>3, <5>1 DEF EventoFiel, FichaFiel
        <5>3. /\ v \in Nat /\ v <= version[o]
              /\ version[o] \in {b.perdido, e.v} => v = version[o]
          BY <2>3, <3>2, <4>2, <5>2 DEF Maximo
        <5> QED BY <1>7, <2>3, <5>1, <5>3
      <4> QED BY <4>1, <4>2
    <3>6. /\ s \in UnSeguidor(s) /\ s.fase = b.fase /\ s.leido = b.leido
          /\ s.estado = b.estado /\ s.visto = b.visto /\ s.perdido = v
          /\ s.lugar = b.lugar /\ s.lugarVisto = b.lugarVisto /\ s.lugarPerdido = hechos
      BY <2>3, <3>3, <3>5 DEF UnSeguidor
    <3>7. SeguidorFiel(s, o) /\ LugarDicho(s)
      BY <2>3, <3>5, <3>6 DEF SeguidorFiel, LugarDicho
    <3>8. SeguidorFiel(s, o)' /\ SeguidorEnterado(s, o)'
      BY <1>4, <2>3, <3>5, <3>6, <3>7, SeguidorTrasAviso
    <3> QED BY <2>2, <3>4, <3>6, <3>8
  <2> QED BY <2>4, <2>5
<1>10. /\ tablero' = [w \in Tableros |-> tablero'[w]]
       /\ seguidor' = [d \in Seguidores |-> seguidor'[d]]
  BY DEF PerderRespuesta, TrasRechazo
<1> QED BY <1>6, <1>8, <1>9, <1>10, InvDePantallas

LEMMA FallarColaDelPaseBien ==
  ASSUME TableroInv, NEW h \in Pases, FallarColaDelPase(h)
  PROVE  TableroInv'
<1>1. PICK p : p = SinPase
  OBVIOUS
<1>2. /\ pase[h].eventos = {} /\ SalonForma
      /\ UNCHANGED salonVars /\ pase' = [pase EXCEPT ![h] = p]
  BY <1>1, ElPase DEF FallarColaDelPase, PaseFiel, TableroInv, TableroForma
<1>3. /\ SalonForma' /\ PasesFieles'
      /\ pase' = [x \in Pases |-> pase'[x]] /\ \A x \in Pases : pase'[x] \in UnPase(pase'[x])
      /\ pase'[h] = p /\ \A x \in Pases \ {h} : pase'[x] = pase[x]
  BY <1>1, <1>2, ElPase, UnPaseBien
<1>4. \A o \in Ordenes : PorDecir(o) => PorDecir(o)'
  BY <1>2, <1>3, SeDice
<1>5. \A w \in Tableros : \E t :
        t = tablero'[w] /\ t \in UnTablero(t) /\ TableroFiel(t)' /\ TableroEnterado(t)'
  <2> TAKE w \in Tableros
  <2>1. PICK b : b = tablero[w]
    OBVIOUS
  <2>2. b \in UnTablero(b) /\ TableroFiel(b) /\ TableroEnterado(b)
    BY <2>1 DEF TableroInv, TableroForma
  <2>3. PICK k : k = SinLaCola(b)
    OBVIOUS
  <2>4. PICK t : t = IF b.conectado THEN SiMontado(b, k) ELSE b
    OBVIOUS
  <2>5. t = tablero'[w]
    BY <2>1, <2>3, <2>4 DEF FallarColaDelPase, EnLaSala
  <2>6. /\ k \in UnTablero(k) /\ TableroFiel(k) /\ IgualPorFuera(k, b)
        /\ k.visto = b.visto /\ k.perdido = b.perdido /\ k.cargando = b.cargando
        /\ ColaDicha(k)
    BY <1>2, <2>2, <2>3, SinLaColaHace
  <2>7. /\ t \in UnTablero(t) /\ TableroFiel(t) /\ IgualPorFuera(t, b)
        /\ t.cargando = b.cargando /\ \A o \in Ordenes : Dicha(b, o) => Dicha(t, o)
        /\ t.conectado /\ t.montado => ColaDicha(t)
    <3>1. CASE t = b /\ ~(b.conectado /\ b.montado)
      BY <2>2, <3>1 DEF IgualPorFuera
    <3>2. CASE t = k
      BY <2>6, <3>2 DEF Dicha
    <3>3. b.conectado \in BOOLEAN /\ b.montado \in BOOLEAN
      BY <2>2 DEF UnTablero
    <3> QED BY <2>4, <3>1, <3>2, <3>3 DEF SiMontado
  <2>8. TableroFiel(t)' /\ TableroEnterado(t)'
    BY <1>2, <1>4, <2>2, <2>7, TableroTrasAviso
  <2> QED BY <2>5, <2>7, <2>8
<1>6. \A d \in Seguidores : \E s :
        /\ s = seguidor'[d] /\ s \in UnSeguidor(s)
        /\ SeguidorFiel(s, Sigue[d])' /\ SeguidorEnterado(s, Sigue[d])'
  <2> TAKE d \in Seguidores
  <2>1. PICK b : b = seguidor[d]
    OBVIOUS
  <2>2. PICK o : o = Sigue[d]
    OBVIOUS
  <2>3. /\ o \in Ordenes /\ b \in UnSeguidor(b) /\ SeguidorFiel(b, o) /\ SeguidorEnterado(b, o)
        /\ hechos \in Nat
    BY <2>1, <2>2, ElSeguidor
  <2>4. PICK s : s = IF SigueA(d, o) THEN [b EXCEPT !.lugarPerdido = hechos] ELSE b
    OBVIOUS
  <2>5. s = seguidor'[d]
    BY <2>1, <2>2, <2>4 DEF FallarColaDelPase
  <2>6. /\ s \in UnSeguidor(s) /\ s.fase = b.fase /\ s.leido = b.leido
        /\ s.estado = b.estado /\ s.visto = b.visto /\ s.perdido = b.perdido
        /\ s.lugar = b.lugar /\ s.lugarVisto = b.lugarVisto
        /\ SigueA(d, o) => s.lugarPerdido = hechos
    BY <2>3, <2>4 DEF UnSeguidor
  <2>7. SeguidorFiel(s, o)
    BY <2>3, <2>6 DEF SeguidorFiel
  <2>8. s.fase \in {"colaLeida", "sigue"} => LugarDicho(s)
    BY <2>1, <2>2, <2>6 DEF SigueA, LugarDicho
  <2>9. SeguidorFiel(s, o)' /\ SeguidorEnterado(s, o)'
    BY <1>2, <1>4, <2>3, <2>6, <2>7, <2>8, SeguidorTrasAviso
  <2> QED BY <2>2, <2>5, <2>6, <2>9
<1>7. /\ tablero' = [w \in Tableros |-> tablero'[w]]
      /\ seguidor' = [d \in Seguidores |-> seguidor'[d]]
  BY DEF FallarColaDelPase
<1> QED BY <1>3, <1>5, <1>6, <1>7, InvDePantallas

\* Who asked for a change matters only to whom its error is told.
LEMMA SinAquienBien ==
  ASSUME TableroInv, UNCHANGED salonVars, NEW w, pase' = SinAquien(w)
  PROVE  /\ SalonForma' /\ PasesFieles'
         /\ pase' = [h \in Pases |-> pase'[h]] /\ \A h \in Pases : pase'[h] \in UnPase(pase'[h])
         /\ \A o \in Ordenes : PorDecir(o) => PorDecir(o)'
         /\ ColaPorDecir => ColaPorDecir'
<1>1. FotoDeLaCola' = FotoDeLaCola
  BY FotoIgual
<1>2. SalonForma'
  BY DEF TableroInv, TableroForma, SalonForma, salonVars
<1>3. pase' = [h \in Pases |-> pase'[h]]
  BY DEF SinAquien
<1>4. ASSUME NEW h \in Pases
      PROVE  /\ pase'[h] \in UnPase(pase'[h])
             /\ pase'[h].fase = pase[h].fase /\ pase'[h].orden = pase[h].orden
             /\ pase'[h].a = pase[h].a /\ pase'[h].eventos = pase[h].eventos
             /\ pase'[h].cola = pase[h].cola
  <2>1. pase[h] \in UnPase(pase[h])
    BY DEF TableroInv, TableroForma
  <2>2. pase'[h] = [pase[h] EXCEPT !.de = @ \ {w}]
    BY DEF SinAquien
  <2> QED BY <2>1, <2>2 DEF UnPase
<1>5. ASSUME NEW h \in Pases
      PROVE  PaseFiel(pase[h])'
  <2>1. PaseFiel(pase[h])
    BY DEF TableroInv, PasesFieles
  <2> QED BY <1>1, <1>4, <2>1 DEF PaseFiel, EventoFiel, FichaFiel, CopiaFiel, salonVars
<1>6. PasesFieles'
  BY <1>5 DEF PasesFieles
<1>7. \A o \in Ordenes : PorDecir(o) => PorDecir(o)'
  BY <1>4 DEF PorDecir, salonVars
<1>8. ColaPorDecir => ColaPorDecir'
  BY <1>4 DEF ColaPorDecir, salonVars
<1> QED BY <1>2, <1>3, <1>4, <1>6, <1>7, <1>8

LEMMA TableroCaido ==
  ASSUME TableroInv, NEW w \in Tableros, NEW u, u \in UnTablero(u), TableroFiel(u),
         tablero' = [tablero EXCEPT ![w] = Cortado(u)], pase' = SinAquien(w),
         UNCHANGED <<salonVars, seguidor>>
  PROVE  TableroInv'
<1>1. /\ SalonForma' /\ PasesFieles'
      /\ pase' = [h \in Pases |-> pase'[h]] /\ \A h \in Pases : pase'[h] \in UnPase(pase'[h])
      /\ \A o \in Ordenes : PorDecir(o) => PorDecir(o)'
      /\ ColaPorDecir => ColaPorDecir'
  BY SinAquienBien
<1>2. \A x \in Tableros : \E t :
        t = tablero'[x] /\ t \in UnTablero(t) /\ TableroFiel(t)' /\ TableroEnterado(t)'
  <2> TAKE x \in Tableros
  <2>1. PICK t : t = IF x = w THEN Cortado(u) ELSE tablero[x]
    OBVIOUS
  <2>2. t = tablero'[x]
    BY <2>1 DEF TableroInv, TableroForma
  <2>3. t \in UnTablero(t) /\ TableroFiel(t) /\ TableroEnterado(t)
    BY <2>1, TableroCortado DEF TableroInv, TableroForma
  <2>4. TableroFiel(t)' /\ TableroEnterado(t)'
    BY <1>1, <2>3, TableroTrasAviso DEF IgualPorFuera
  <2> QED BY <2>2, <2>3, <2>4
<1>3. \A d \in Seguidores : \E s :
        /\ s = seguidor'[d] /\ s \in UnSeguidor(s)
        /\ SeguidorFiel(s, Sigue[d])' /\ SeguidorEnterado(s, Sigue[d])'
  <2> TAKE d \in Seguidores
  <2>1. PICK s : s = seguidor[d]
    OBVIOUS
  <2>2. PICK o : o = Sigue[d]
    OBVIOUS
  <2>3. o \in Ordenes /\ s \in UnSeguidor(s) /\ SeguidorFiel(s, o) /\ SeguidorEnterado(s, o)
    BY <2>1, <2>2, ElSeguidor
  <2>4. SeguidorFiel(s, o)' /\ SeguidorEnterado(s, o)'
    BY <1>1, <2>3, SeguidorTrasAviso
  <2> QED BY <2>1, <2>2, <2>3, <2>4
<1>4. /\ tablero' = [x \in Tableros |-> tablero'[x]]
      /\ seguidor' = [d \in Seguidores |-> seguidor'[d]]
  BY DEF TableroInv, TableroForma
<1> QED BY <1>1, <1>2, <1>3, <1>4, InvDePantallas

LEMMA CortarTableroBien ==
  ASSUME TableroInv, NEW w \in Tableros, CortarTablero(w)
  PROVE  TableroInv'
<1>1. PICK u : u = tablero[w]
  OBVIOUS
<1>2. u \in UnTablero(u) /\ TableroFiel(u)
  BY <1>1 DEF TableroInv, TableroForma
<1>3. /\ tablero' = [tablero EXCEPT ![w] = Cortado(u)] /\ pase' = SinAquien(w)
      /\ UNCHANGED <<salonVars, seguidor>>
  BY <1>1 DEF CortarTablero, TableroInv, TableroForma
<1> QED BY <1>2, <1>3, TableroCaido

LEMMA CerrarTableroBien ==
  ASSUME TableroInv, NEW w \in Tableros, CerrarTablero(w)
  PROVE  TableroInv'
<1>1. PICK u : u = tablero[w]
  OBVIOUS
<1>2. PICK n : n = SiMontado(u, ConMensaje(u))
  OBVIOUS
<1>3. u \in UnTablero(u) /\ TableroFiel(u)
  BY <1>1 DEF TableroInv, TableroForma
<1>4. n \in UnTablero(n) /\ TableroFiel(n)
  BY <1>2, <1>3, ConErrorHace
<1>5. /\ tablero' = [tablero EXCEPT ![w] = Cortado(n)] /\ pase' = SinAquien(w)
      /\ UNCHANGED <<salonVars, seguidor>>
  BY <1>1, <1>2 DEF CerrarTablero, TableroInv, TableroForma
<1> QED BY <1>4, <1>5, TableroCaido

LEMMA ReiniciarServidorBien ==
  ASSUME TableroInv, ReiniciarServidor
  PROVE  TableroInv'
<1>1. /\ UNCHANGED salonVars /\ pase' = [h \in Pases |-> SinPase]
      /\ tablero' = [w \in Tableros |-> Cortado(tablero[w])]
      /\ seguidor' = [d \in Seguidores |-> [seguidor[d] EXCEPT !.fase = "fuera", !.leido = {}]]
  BY DEF ReiniciarServidor
<1>2. FotoDeLaCola' = FotoDeLaCola
  BY <1>1, FotoIgual
<1>3. SalonForma'
  BY <1>1 DEF TableroInv, TableroForma, SalonForma, salonVars
<1>4. SinPase \in UnPase(SinPase) /\ PaseFiel(SinPase)'
  BY DEF UnPase, SinPase, PaseFiel
<1>5. PasesFieles'
  <2>1. ASSUME NEW h \in Pases
        PROVE  PaseFiel(pase[h])'
    <3>1. pase'[h] = SinPase
      BY <1>1
    <3> QED BY <1>4, <3>1 DEF PaseFiel
  <2> QED BY <2>1 DEF PasesFieles
<1>6. pase' = [h \in Pases |-> pase'[h]] /\ \A h \in Pases : pase'[h] \in UnPase(pase'[h])
  BY <1>1, <1>4
<1>7. \A w \in Tableros : \E t :
        t = tablero'[w] /\ t \in UnTablero(t) /\ TableroFiel(t)' /\ TableroEnterado(t)'
  <2> TAKE w \in Tableros
  <2>1. PICK u : u = tablero[w]
    OBVIOUS
  <2>2. u \in UnTablero(u) /\ TableroFiel(u)
    BY <2>1 DEF TableroInv, TableroForma
  <2>3. PICK t : t = Cortado(u)
    OBVIOUS
  <2>4. t = tablero'[w]
    BY <1>1, <2>1, <2>3
  <2>5. t \in UnTablero(t) /\ TableroFiel(t) /\ ~t.conectado
    BY <2>2, <2>3, TableroCortado
  <2>6. TableroFiel(t)'
    BY <1>1, <1>2, <2>5 DEF TableroFiel, FotoFiel, FichaFiel, CopiaFiel, salonVars
  <2>7. TableroEnterado(t)'
    BY <2>5 DEF TableroEnterado
  <2> QED BY <2>4, <2>5, <2>6, <2>7
<1>8. \A d \in Seguidores : \E s :
        /\ s = seguidor'[d] /\ s \in UnSeguidor(s)
        /\ SeguidorFiel(s, Sigue[d])' /\ SeguidorEnterado(s, Sigue[d])'
  <2> TAKE d \in Seguidores
  <2>1. PICK u : u = seguidor[d]
    OBVIOUS
  <2>2. PICK o : o = Sigue[d]
    OBVIOUS
  <2>3. u \in UnSeguidor(u) /\ SeguidorFiel(u, o)
    BY <2>1, <2>2, ElSeguidor
  <2>4. PICK s : s = [u EXCEPT !.fase = "fuera", !.leido = {}]
    OBVIOUS
  <2>5. s \in UnSeguidor(s) /\ SeguidorFiel(s, o) /\ s.fase = "fuera"
    BY <2>3, <2>4, PaginaCortada
  <2>6. SeguidorFiel(s, o)'
    BY <1>1, <1>2, <2>5 DEF SeguidorFiel, FichaFiel, salonVars
  <2>7. SeguidorEnterado(s, o)'
    BY <2>5 DEF SeguidorEnterado
  <2>8. s = seguidor'[d]
    BY <1>1, <2>1, <2>4
  <2> QED BY <2>2, <2>5, <2>6, <2>7, <2>8
<1>9. /\ tablero' = [w \in Tableros |-> tablero'[w]]
      /\ seguidor' = [d \in Seguidores |-> seguidor'[d]]
  BY <1>1
<1> QED BY <1>3, <1>5, <1>6, <1>7, <1>8, <1>9, InvDePantallas

-----------------------------------------------------------------------------
(* The screens: a change is committed *)

\* The request h committed a change of the orders of cambiadas, and has it to
\* tell.
Cambio(h, cambiadas) ==
  /\ hechos' = hechos + 1
  /\ etapa' \in [Ordenes -> EstadosOrden] /\ version' \in [Ordenes -> Nat]
  /\ llegada' \in [Ordenes -> Nat] /\ tope' \in LimitesCola
  /\ \A o \in cambiadas :
       /\ version'[o] = version[o] + 1 /\ etapa'[o] # "PENDIENTE_PAGO"
       /\ etapa'[o] = "RECIBIDO" => etapa[o] = "PENDIENTE_PAGO"
  /\ \A o \in Ordenes \ cambiadas : version'[o] = version[o] /\ etapa'[o] = etapa[o]
  /\ pase' = [x \in Pases |-> pase'[x]] /\ \A x \in Pases \ {h} : pase'[x] = pase[x]
  /\ UNCHANGED <<tablero, seguidor>>

\* What it has to tell is p.
TieneParaDecir(p, cambiadas) ==
  /\ p \in UnPase(p) /\ p.fase = "hecho"
  /\ \A e \in p.eventos :
       /\ e.orden \in cambiadas /\ e.v = version'[e.orden] /\ e.estado = etapa'[e.orden]
       /\ e.nuevo => e.estado \in {"RECIBIDO", "EN_PREPARACION"}
       /\ \A x \in p.eventos : x.orden = e.orden => x = e
  /\ \A o \in cambiadas : \E e \in p.eventos : e.orden = o

\* What was read before the change is older than it, or of another order.
LEMMA LoViejoSigue ==
  ASSUME SalonForma, NEW h, NEW cambiadas \in SUBSET Ordenes, Cambio(h, cambiadas)
  PROVE  /\ \A o \in Ordenes : version[o] \in Nat /\ version'[o] \in Nat
                               /\ version[o] <= version'[o] /\ etapa'[o] \in EstadosOrden
         /\ hechos \in Nat /\ hechos < hechos' /\ hechos' \in Nat
         /\ \A o \in Ordenes : \A f : FichaFiel(o, f) => FichaFiel(o, f)'
         /\ \A copia : CopiaFiel(copia) => CopiaFiel(copia)' /\ copia.v # hechos'
<1>1. /\ \A o \in Ordenes : version[o] \in Nat /\ version'[o] \in Nat
                            /\ version[o] <= version'[o] /\ etapa'[o] \in EstadosOrden
      /\ \A o \in Ordenes : version'[o] = version[o] => etapa'[o] = etapa[o]
      /\ hechos \in Nat /\ hechos < hechos' /\ hechos' \in Nat
  BY DEF SalonForma, Cambio
<1>2. ASSUME NEW o \in Ordenes, NEW f, FichaFiel(o, f)
      PROVE  FichaFiel(o, f)'
  <2>1. /\ f.v \in 0..version[o] /\ f.estado \in EstadosOrden
        /\ f.v = version[o] => f.estado = etapa[o]
    BY <1>2 DEF FichaFiel
  <2>2. /\ version[o] \in Nat /\ version'[o] \in Nat /\ version[o] <= version'[o]
        /\ version'[o] = version[o] => etapa'[o] = etapa[o]
    BY <1>1
  <2>3. f.v \in 0..version'[o] /\ (f.v = version'[o] => version'[o] = version[o])
    BY <2>1, <2>2
  <2> QED BY <2>1, <2>2, <2>3 DEF FichaFiel
<1>3. ASSUME NEW copia, CopiaFiel(copia)
      PROVE  CopiaFiel(copia)' /\ copia.v # hechos'
  <2>1. copia.v \in 0..hechos /\ \A o \in Ordenes : Puesto(copia.cola.espera, o) \in Nat
    BY <1>3 DEF CopiaFiel
  <2>2. copia.v \in 0..hechos' /\ copia.v # hechos'
    BY <1>1, <2>1
  <2> QED BY <2>1, <2>2 DEF CopiaFiel
<1> QED BY <1>1, <1>2, <1>3

LEMMA PasesTrasCambio ==
  ASSUME TableroInv, NEW h \in Pases, NEW cambiadas \in SUBSET Ordenes, Cambio(h, cambiadas),
         NEW p, p = pase'[h], TieneParaDecir(p, cambiadas), pase[h].eventos = {}
  PROVE  /\ SalonForma' /\ PasesFieles'
         /\ \A x \in Pases : pase'[x] \in UnPase(pase'[x])
         /\ ColaPorDecir' /\ \A o \in cambiadas : PorDecir(o)'
         /\ \A o \in Ordenes : PorDecir(o) => PorDecir(o)'
<1> SalonForma
  BY DEF TableroInv, TableroForma
<1>1. /\ \A o \in Ordenes : version[o] \in Nat /\ version'[o] \in Nat
                            /\ version[o] <= version'[o] /\ etapa'[o] \in EstadosOrden
      /\ hechos \in Nat /\ hechos' \in Nat
      /\ \A o \in Ordenes : \A f : FichaFiel(o, f) => FichaFiel(o, f)'
      /\ \A copia : CopiaFiel(copia) => CopiaFiel(copia)'
  BY LoViejoSigue
<1>2. SalonForma'
  <2>1. ASSUME NEW o \in Ordenes
        PROVE  version'[o] = 0 <=> etapa'[o] = "PENDIENTE_PAGO"
    BY <1>1 DEF Cambio, SalonForma
  <2> QED BY <1>1, <2>1 DEF Cambio, SalonForma
<1>3. \A x \in Pases : pase'[x] \in UnPase(pase'[x])
  BY DEF Cambio, TieneParaDecir, TableroInv, TableroForma
<1>4. ASSUME NEW x \in Pases
      PROVE  PaseFiel(pase[x])'
  <2>1. PICK q : q = pase'[x]
    OBVIOUS
  <2>2. q \in UnPase(q)
    BY <1>3, <2>1
  <2>3. CASE x = h
    <3>1. q = p /\ q.fase = "hecho"
      BY <2>1, <2>3 DEF TieneParaDecir
    <3>2. ASSUME NEW e \in q.eventos
          PROVE  EventoFiel(e)' /\ \A y \in q.eventos : y.orden = e.orden => y = e
      <4>1. /\ e.orden \in cambiadas /\ e.v = version'[e.orden] /\ e.estado = etapa'[e.orden]
            /\ e.nuevo => e.estado \in {"RECIBIDO", "EN_PREPARACION"}
            /\ \A y \in q.eventos : y.orden = e.orden => y = e
        BY <3>1 DEF TieneParaDecir
      <4>2. /\ version'[e.orden] = version[e.orden] + 1 /\ etapa'[e.orden] # "PENDIENTE_PAGO"
            /\ e.orden \in Ordenes
        BY <4>1 DEF Cambio
      <4>3. FichaFiel(e.orden, e)'
        BY <1>1, <4>1, <4>2 DEF FichaFiel
      <4> QED BY <1>1, <4>1, <4>2, <4>3 DEF EventoFiel
    <3>3. PaseFiel(q)'
      BY <3>1, <3>2 DEF PaseFiel
    <3> QED BY <2>1, <3>3 DEF PaseFiel
  <2>4. CASE x # h
    <3>1. q = pase[x]
      BY <2>1, <2>4 DEF Cambio
    <3>2. PaseFiel(q)
      BY <3>1 DEF TableroInv, PasesFieles
    <3>3. \A o \in Ordenes : etapa[o] # "PENDIENTE_PAGO" => etapa'[o] # "PENDIENTE_PAGO"
      BY DEF Cambio
    <3>4. ASSUME NEW e \in q.eventos
          PROVE  EventoFiel(e)'
      <4>1. e.orden \in Ordenes
        BY <2>2 DEF UnPase, Eventos
      <4> QED BY <1>1, <3>2, <4>1 DEF PaseFiel, EventoFiel
    <3>5. q.orden \subseteq Ordenes
      BY <2>2 DEF UnPase
    <3>6. PaseFiel(q)'
      BY <1>1, <3>2, <3>3, <3>4, <3>5 DEF PaseFiel
    <3> QED BY <2>1, <3>6 DEF PaseFiel
  <2> QED BY <2>3, <2>4
<1>5. PasesFieles'
  BY <1>4 DEF PasesFieles
<1>6. ColaPorDecir'
  BY DEF ColaPorDecir, TieneParaDecir
<1>7. ASSUME NEW o \in cambiadas
      PROVE  PorDecir(o)'
  <2>1. PICK e \in p.eventos : e.orden = o
    BY DEF TieneParaDecir
  <2>2. e.v = version'[o]
    BY <2>1 DEF TieneParaDecir
  <2> QED BY <2>1, <2>2 DEF PorDecir
<1>8. ASSUME NEW o \in Ordenes, PorDecir(o)
      PROVE  PorDecir(o)'
  <2>1. CASE o \in cambiadas
    BY <1>7, <2>1
  <2>2. CASE o \notin cambiadas
    <3>1. PICK x \in Pases : \E e \in pase[x].eventos : e.orden = o /\ e.v = version[o]
      BY <1>8 DEF PorDecir
    <3>2. x # h /\ version'[o] = version[o]
      BY <2>2, <3>1 DEF Cambio
    <3> QED BY <3>1, <3>2 DEF PorDecir, Cambio
  <2> QED BY <2>1, <2>2
<1> QED BY <1>2, <1>3, <1>5, <1>6, <1>7, <1>8

LEMMA CambioBien ==
  ASSUME TableroInv, NEW h \in Pases, NEW cambiadas \in SUBSET Ordenes, Cambio(h, cambiadas),
         NEW p, p = pase'[h], TieneParaDecir(p, cambiadas), pase[h].eventos = {}
  PROVE  TableroInv'
<1> SalonForma
  BY DEF TableroInv, TableroForma
<1>1. /\ SalonForma' /\ PasesFieles'
      /\ \A x \in Pases : pase'[x] \in UnPase(pase'[x])
      /\ ColaPorDecir' /\ \A o \in cambiadas : PorDecir(o)'
      /\ \A o \in Ordenes : PorDecir(o) => PorDecir(o)'
  BY PasesTrasCambio
<1>2. /\ \A o \in Ordenes : version[o] \in Nat /\ version'[o] \in Nat
                            /\ version[o] <= version'[o] /\ etapa'[o] \in EstadosOrden
      /\ hechos \in Nat /\ hechos' \in Nat /\ hechos < hechos'
      /\ \A o \in Ordenes : \A f : FichaFiel(o, f) => FichaFiel(o, f)'
      /\ \A copia : CopiaFiel(copia) => CopiaFiel(copia)'
  BY LoViejoSigue
<1>3. ASSUME NEW o \in Ordenes
      PROVE  o \in cambiadas \/ (version'[o] = version[o] /\ etapa'[o] = etapa[o])
  BY DEF Cambio
<1>4. \A w \in Tableros : \E t :
        t = tablero'[w] /\ t \in UnTablero(t) /\ TableroFiel(t)' /\ TableroEnterado(t)'
  <2> TAKE w \in Tableros
  <2>1. PICK t : t = tablero[w]
    OBVIOUS
  <2>2. t = tablero'[w] /\ t \in UnTablero(t) /\ TableroFiel(t) /\ TableroEnterado(t)
    BY <2>1 DEF TableroInv, TableroForma, Cambio
  <2>3. \A f \in Fotos(t) : FotoFiel(f)'
    BY <1>2, <2>2 DEF TableroFiel, FotoFiel
  <2>4. ASSUME NEW o \in Ordenes
        PROVE  /\ t.lista[o].v <= version'[o]
               /\ t.lista[o].v = version'[o] => t.lista[o].estado = Muestra(etapa'[o])
               /\ t.visto[o] <= version'[o] /\ t.perdido[o] <= version'[o]
    <3>1. t.lista[o].v \in Nat /\ t.visto[o] \in Nat /\ t.perdido[o] \in Nat
      BY <2>2 DEF UnTablero, Fichas
    <3>2. /\ t.lista[o].v <= version[o] /\ t.visto[o] <= version[o]
          /\ t.perdido[o] <= version[o]
          /\ t.lista[o].v = version[o] => t.lista[o].estado = Muestra(etapa[o])
      BY <2>2 DEF TableroFiel
    <3>3. version'[o] = version[o] + 1 \/ (version'[o] = version[o] /\ etapa'[o] = etapa[o])
      BY DEF Cambio
    <3> QED BY <1>2, <3>1, <3>2, <3>3
  <2>5. t.colaVista <= hechos' /\ t.cola.v \in 0..hechos' /\ t.cola.v # hechos'
    <3>1. t.colaVista \in Nat /\ t.colaVista <= hechos /\ t.cola.v \in 0..hechos
      BY <2>2 DEF UnTablero, TableroFiel
    <3> QED BY <1>2, <3>1
  <2>6. TableroFiel(t)'
    BY <2>3, <2>4, <2>5 DEF TableroFiel, Muestra
  <2>7. ASSUME t.conectado, t.montado, ~t.sinCopia, NEW o \in Ordenes
        PROVE  Dicha(t, o)' \/ PorDecir(o)' \/ \E f \in Fotos(t) : Trae(f, o)'
    <3>1. CASE o \in cambiadas
      BY <1>1, <3>1
    <3>2. CASE o \notin cambiadas
      <4>1. version'[o] = version[o]
        BY <1>3, <3>2
      <4>2. Dicha(t, o) \/ PorDecir(o) \/ \E f \in Fotos(t) : Trae(f, o)
        BY <2>2, <2>7 DEF TableroEnterado
      <4> QED BY <1>1, <4>1, <4>2 DEF Trae, Dicha
    <3> QED BY <3>1, <3>2
  <2>8. TableroEnterado(t)'
    BY <1>1, <2>2, <2>7 DEF TableroEnterado
  <2> QED BY <2>2, <2>6, <2>8
<1>5. \A d \in Seguidores : \E s :
        /\ s = seguidor'[d] /\ s \in UnSeguidor(s)
        /\ SeguidorFiel(s, Sigue[d])' /\ SeguidorEnterado(s, Sigue[d])'
  <2> TAKE d \in Seguidores
  <2>1. PICK s : s = seguidor[d]
    OBVIOUS
  <2>2. PICK o : o = Sigue[d]
    OBVIOUS
  <2>3. /\ s = seguidor'[d] /\ o \in Ordenes /\ s \in UnSeguidor(s)
        /\ SeguidorFiel(s, o) /\ SeguidorEnterado(s, o)
    BY <2>1, <2>2, ElSeguidor DEF Cambio
  <2>4. \/ /\ version'[o] = version[o] + 1 /\ etapa'[o] # "PENDIENTE_PAGO" /\ PorDecir(o)'
           /\ etapa'[o] = "RECIBIDO" => etapa[o] = "PENDIENTE_PAGO"
        \/ version'[o] = version[o] /\ etapa'[o] = etapa[o]
    BY <1>1, <2>3 DEF Cambio
  <2>5. /\ s.estado.v \in Nat /\ s.visto \in Nat /\ s.perdido \in Nat /\ s.lugarVisto \in Nat
        /\ s.lugar.v \in Nat
    BY <2>3 DEF UnSeguidor, Fichas
  <2>6. /\ s.fase # "fuera" => etapa'[o] # "PENDIENTE_PAGO"
        /\ s.estado.v <= version'[o] /\ s.visto <= version'[o] /\ s.perdido <= version'[o]
        /\ s.estado.v = version'[o] /\ etapa'[o] # "PENDIENTE_PAGO" => s.estado.estado = etapa'[o]
        /\ s.lugarVisto <= hechos' /\ s.lugar.v <= hechos' /\ s.lugar.v # hechos'
    BY <1>2, <2>3, <2>4, <2>5 DEF SeguidorFiel
  <2>7. s.fase = "leido" =>
          /\ s.leido \in Fichas /\ FichaFiel(o, s.leido)'
          /\ s.leido.estado # "RECIBIDO" => etapa'[o] # "RECIBIDO"
    BY <1>2, <2>3, <2>4 DEF SeguidorFiel
  <2>8. s.fase = "colaLeida" =>
          s.leido.puesto \in Nat /\ s.leido.v \in 0..hechos' /\ s.leido.v # hechos'
    BY <1>2, <2>3 DEF SeguidorFiel
  <2>9. SeguidorFiel(s, o)'
    BY <2>6, <2>7, <2>8 DEF SeguidorFiel
  <2>10. /\ s.fase = "leido" =>
              s.leido.v = version'[o] \/ s.perdido = version'[o] \/ PorDecir(o)'
         /\ s.fase \in {"cola", "colaLeida", "sigue"} =>
              version'[o] \in {s.visto, s.perdido} \/ PorDecir(o)'
    BY <1>1, <2>3, <2>4 DEF SeguidorEnterado
  <2>11. SeguidorEnterado(s, o)'
    BY <1>1, <2>10 DEF SeguidorEnterado
  <2> QED BY <2>2, <2>3, <2>9, <2>11
<1>6. /\ tablero' = [w \in Tableros |-> tablero'[w]]
      /\ seguidor' = [d \in Seguidores |-> seguidor'[d]]
      /\ pase' = [x \in Pases |-> pase'[x]]
  BY DEF Cambio, TableroInv, TableroForma
<1> QED BY <1>1, <1>4, <1>5, <1>6, InvDePantallas

\* What every transaction commits is a change.
LEMMA GuardaBien ==
  ASSUME TableroInv, NEW h \in Pases, pase[h].fase \in {"libre", "leyo"},
         NEW es \in [Ordenes -> EstadosOrden], NEW ls \in [Ordenes -> Nat],
         NEW l \in LimitesCola, NEW promueve \in BOOLEAN, NEW forzar \in BOOLEAN,
         NEW propias \in SUBSET Ordenes, NEW nueva \in SUBSET propias,
         \A o \in nueva : es[o] = "RECIBIDO",
         \A o \in Ordenes \ propias : es[o] = etapa[o],
         \A o \in propias :
           es[o] # "PENDIENTE_PAGO" /\ (es[o] = "RECIBIDO" => etapa[o] = "PENDIENTE_PAGO"),
         Guarda(h, es, ls, l, propias, promueve, nueva, forzar)
  PROVE  TableroInv'
<1>1. PICK promovidas : promovidas = IF promueve THEN Promovidas(es, ls, l) ELSE {}
  OBVIOUS
<1>2. promovidas \in SUBSET Ordenes /\ \A o \in promovidas : es[o] = "RECIBIDO"
  BY <1>1 DEF Promovidas, Esperando
<1>3. PICK cambiadas \in SUBSET Ordenes : cambiadas = propias \cup promovidas
  BY <1>2
<1>4. PICK quedan : quedan = [o \in Ordenes |-> IF o \in promovidas THEN "EN_PREPARACION" ELSE es[o]]
  OBVIOUS
<1>5. PICK versiones :
        versiones = [o \in Ordenes |-> IF o \in cambiadas THEN version[o] + 1 ELSE version[o]]
  OBVIOUS
<1>6. PICK eventos :
        eventos = {[orden |-> o, nuevo |-> o \in nueva, estado |-> quedan[o], v |-> versiones[o]] :
                     o \in cambiadas}
  OBVIOUS
<1>7. PICK p : p = [SinPase EXCEPT !.fase = "hecho", !.de = pase[h].de, !.forzar = forzar,
                                   !.eventos = eventos]
  OBVIOUS
<1>8. /\ hechos' = hechos + 1 /\ etapa' = quedan /\ llegada' = ls /\ tope' = l
      /\ version' = versiones /\ pase' = [pase EXCEPT ![h] = p]
      /\ UNCHANGED <<tablero, seguidor>>
  BY <1>1, <1>3, <1>4, <1>5, <1>6, <1>7 DEF Guarda
<1>9. /\ etapa \in [Ordenes -> EstadosOrden] /\ version \in [Ordenes -> Nat] /\ hechos \in Nat
      /\ pase[h] \in UnPase(pase[h]) /\ PaseFiel(pase[h])
  BY ElPase DEF TableroInv, TableroForma, SalonForma
<1>10. quedan \in [Ordenes -> EstadosOrden] /\ versiones \in [Ordenes -> Nat]
  BY <1>4, <1>5, <1>9 DEF EstadosOrden
<1>11. ASSUME NEW o \in cambiadas
       PROVE  /\ versiones[o] = version[o] + 1 /\ quedan[o] # "PENDIENTE_PAGO"
              /\ quedan[o] = "RECIBIDO" => etapa[o] = "PENDIENTE_PAGO"
              /\ o \in nueva => quedan[o] \in {"RECIBIDO", "EN_PREPARACION"}
  BY <1>2, <1>3, <1>4, <1>5
<1>12. ASSUME NEW o \in Ordenes \ cambiadas
       PROVE  versiones[o] = version[o] /\ quedan[o] = etapa[o]
  BY <1>3, <1>4, <1>5
<1>13. pase'[h] = p /\ pase' = [x \in Pases |-> pase'[x]]
       /\ \A x \in Pases \ {h} : pase'[x] = pase[x]
  BY <1>8 DEF TableroInv, TableroForma
<1>14. Cambio(h, cambiadas)
  BY <1>8, <1>10, <1>11, <1>12, <1>13 DEF Cambio
<1>15. TieneParaDecir(p, cambiadas)
  <2>1. ASSUME NEW e \in eventos
        PROVE  /\ e \in Eventos /\ e.orden \in cambiadas
               /\ e.v = version'[e.orden] /\ e.estado = etapa'[e.orden]
               /\ e.nuevo => e.estado \in {"RECIBIDO", "EN_PREPARACION"}
    <3>1. PICK o \in cambiadas :
            e = [orden |-> o, nuevo |-> o \in nueva, estado |-> quedan[o], v |-> versiones[o]]
      BY <1>6
    <3>2. e.orden = o /\ e.estado = quedan[o] /\ e.v = versiones[o]
      BY <3>1
    <3>3. e.nuevo => o \in nueva
      BY <3>1
    <3>4. e \in Eventos
      BY <1>10, <3>1 DEF Eventos
    <3> QED BY <1>8, <1>11, <3>2, <3>3, <3>4
  <2>2. ASSUME NEW e \in eventos, NEW x \in eventos, x.orden = e.orden
        PROVE  x = e
    <3>1. PICK o \in cambiadas :
            e = [orden |-> o, nuevo |-> o \in nueva, estado |-> quedan[o], v |-> versiones[o]]
      BY <1>6
    <3>2. PICK q \in cambiadas :
            x = [orden |-> q, nuevo |-> q \in nueva, estado |-> quedan[q], v |-> versiones[q]]
      BY <1>6
    <3>3. q = o
      BY <2>2, <3>1, <3>2
    <3> QED BY <3>1, <3>2, <3>3
  <2>3. ASSUME NEW o \in cambiadas
        PROVE  \E e \in eventos : e.orden = o
    <3>1. PICK e :
            e = [orden |-> o, nuevo |-> o \in nueva, estado |-> quedan[o], v |-> versiones[o]]
      OBVIOUS
    <3>2. e \in eventos /\ e.orden = o
      BY <1>6, <3>1
    <3> QED BY <3>2
  <2>4. /\ p.fase = "hecho" /\ p.eventos = eventos
        /\ p \in UnPase(p)
    BY <1>7, <1>9, <2>1 DEF SinPase, UnPase
  <2> QED BY <2>1, <2>2, <2>3, <2>4 DEF TieneParaDecir
<1>16. pase[h].eventos = {}
  BY <1>9 DEF PaseFiel
<1> QED BY <1>13, <1>14, <1>15, <1>16, CambioBien

LEMMA ConfirmarOrdenBien ==
  ASSUME TableroInv, NEW h \in Pases, NEW o \in Ordenes, ConfirmarOrden(h, o)
  PROVE  TableroInv'
<1>1. PICK ultima : ultima = Cardinality({q \in Ordenes : llegada[q] > 0}) + 1
  OBVIOUS
<1>2. PICK es : es = [etapa EXCEPT ![o] = "RECIBIDO"]
  OBVIOUS
<1>3. PICK ls : ls = [llegada EXCEPT ![o] = ultima]
  OBVIOUS
<1>4. /\ etapa \in [Ordenes -> EstadosOrden] /\ llegada \in [Ordenes -> Nat]
      /\ tope \in LimitesCola
  BY DEF TableroInv, TableroForma, SalonForma
<1>5. ultima \in Nat
  <2>1. IsFiniteSet({q \in Ordenes : llegada[q] > 0})
    BY FS_Subset, TableroAssumption
  <2>2. Cardinality({q \in Ordenes : llegada[q] > 0}) \in Nat
    BY <2>1, FS_CardinalityType
  <2> QED BY <1>1, <2>2
<1>6. es \in [Ordenes -> EstadosOrden] /\ es[o] = "RECIBIDO" /\ ls \in [Ordenes -> Nat]
      /\ \A q \in Ordenes \ {o} : es[q] = etapa[q]
  BY <1>2, <1>3, <1>4, <1>5 DEF EstadosOrden
<1>7. PICK l \in LimitesCola : l = tope
  BY <1>4
<1>8. PICK propias \in SUBSET Ordenes : propias = {o}
  OBVIOUS
<1>9. /\ pase[h].fase = "libre" /\ etapa[o] = "PENDIENTE_PAGO"
      /\ Guarda(h, es, ls, l, propias, TRUE, propias, FALSE)
  BY <1>1, <1>2, <1>3, <1>7, <1>8 DEF ConfirmarOrden
<1>10. /\ \A q \in propias : /\ es[q] = "RECIBIDO" /\ es[q] # "PENDIENTE_PAGO"
                             /\ etapa[q] = "PENDIENTE_PAGO"
       /\ \A q \in Ordenes \ propias : es[q] = etapa[q]
  BY <1>6, <1>8, <1>9
<1> QED BY <1>6, <1>9, <1>10, GuardaBien

LEMMA GuardarTransicionBien ==
  ASSUME TableroInv, NEW h \in Pases, GuardarTransicion(h)
  PROVE  TableroInv'
<1>1. PICK u : u = pase[h]
  OBVIOUS
<1>2. u \in UnPase(u) /\ PaseFiel(u) /\ u.fase = "leyo"
  BY <1>1, ElPase DEF GuardarTransicion
<1>3. PICK propias \in SUBSET Ordenes : propias = u.orden
  BY <1>2 DEF UnPase
<1>4. PICK a : a = u.a
  OBVIOUS
<1>5. a \in {"EN_PREPARACION", "LISTO_PARA_ENTREGAR", "ENTREGADO"}
  BY <1>2, <1>4 DEF PaseFiel
<1>6. PICK es : es = [o \in Ordenes |-> IF o \in propias THEN a ELSE etapa[o]]
  OBVIOUS
<1>7. PICK ls : ls = llegada
  OBVIOUS
<1>8. PICK l : l = tope
  OBVIOUS
<1>9. /\ etapa \in [Ordenes -> EstadosOrden] /\ ls \in [Ordenes -> Nat] /\ l \in LimitesCola
  BY <1>7, <1>8 DEF TableroInv, TableroForma, SalonForma
<1>10. PICK promueve \in BOOLEAN : promueve = (a = "LISTO_PARA_ENTREGAR")
  OBVIOUS
<1>11. PICK nueva \in SUBSET propias : nueva = {}
  OBVIOUS
<1>12. Guarda(h, es, ls, l, propias, promueve, nueva, FALSE)
  BY <1>1, <1>3, <1>4, <1>6, <1>7, <1>8, <1>10, <1>11 DEF GuardarTransicion
<1>13. es \in [Ordenes -> EstadosOrden]
  BY <1>5, <1>6, <1>9 DEF EstadosOrden
<1>14. /\ \A o \in propias : es[o] # "PENDIENTE_PAGO" /\ es[o] # "RECIBIDO"
       /\ \A o \in Ordenes \ propias : es[o] = etapa[o]
       /\ \A o \in nueva : es[o] = "RECIBIDO"
  BY <1>5, <1>6, <1>11
<1>15. pase[h].fase = "leyo"
  BY <1>1, <1>2
<1> QED BY <1>3, <1>9, <1>10, <1>11, <1>12, <1>13, <1>14, <1>15, GuardaBien

LEMMA CambiarTopeBien ==
  ASSUME TableroInv, NEW h \in Pases, NEW l \in LimitesCola, CambiarTope(h, l)
  PROVE  TableroInv'
<1>1. PICK es : es = etapa
  OBVIOUS
<1>2. PICK ls : ls = llegada
  OBVIOUS
<1>3. es \in [Ordenes -> EstadosOrden] /\ ls \in [Ordenes -> Nat]
  BY <1>1, <1>2 DEF TableroInv, TableroForma, SalonForma
<1>4. PICK propias \in SUBSET Ordenes : propias = {}
  OBVIOUS
<1>5. PICK nueva \in SUBSET propias : nueva = {}
  OBVIOUS
<1>6. pase[h].fase = "libre" /\ Guarda(h, es, ls, l, propias, TRUE, nueva, TRUE)
  BY <1>1, <1>2, <1>4, <1>5 DEF CambiarTope
<1> QED BY <1>1, <1>3, <1>4, <1>5, <1>6, GuardaBien

-----------------------------------------------------------------------------
(* The screens: the theorems *)

LEMMA TableroInicio ==
  ASSUME TableroInit
  PROVE  TableroInv
<1>1. /\ etapa = [o \in Ordenes |-> "PENDIENTE_PAGO"] /\ version = [o \in Ordenes |-> 0]
      /\ llegada = [o \in Ordenes |-> 0] /\ tope \in LimitesCola /\ hechos = 1
      /\ pase = [h \in Pases |-> SinPase]
      /\ tablero = [w \in Tableros |-> TableroNuevo(FALSE)]
      /\ seguidor = [d \in Seguidores |-> SeguidorNuevo]
  BY DEF TableroInit
<1>2. SalonForma
  BY <1>1 DEF SalonForma, EstadosOrden
<1>3. SinPase \in UnPase(SinPase) /\ PaseFiel(SinPase)
  BY DEF UnPase, SinPase, PaseFiel
<1>4. PICK t : t = TableroNuevo(FALSE)
  OBVIOUS
<1>5. /\ t \in UnTablero(t) /\ Fotos(t) = {SinFoto} /\ ~t.conectado
      /\ t.lista = [o \in Ordenes |-> SinDato] /\ t.visto = [o \in Ordenes |-> 0]
      /\ t.perdido = [o \in Ordenes |-> 0] /\ t.colaVista = 0 /\ t.cola.v = 0
  BY <1>4, ElNuevo DEF Fotos
<1>6. TableroFiel(t) /\ TableroEnterado(t)
  BY <1>1, <1>2, <1>5, LasFotos
     DEF TableroFiel, FotoFiel, TableroEnterado, SinDato, Muestra, SalonForma
<1>7. PICK s : s = SeguidorNuevo
  OBVIOUS
<1>8. /\ s \in UnSeguidor(s) /\ s.fase = "fuera" /\ s.estado.v = 0 /\ s.visto = 0
      /\ s.perdido = 0 /\ s.lugarVisto = 0 /\ s.lugar.v = 0
  BY <1>7 DEF SeguidorNuevo, UnSeguidor, Fichas, EstadosOrden
<1>9. \A o \in Ordenes : SeguidorFiel(s, o) /\ SeguidorEnterado(s, o)
  BY <1>1, <1>8 DEF SeguidorFiel, SeguidorEnterado
<1>10. TableroForma /\ PasesFieles
  BY <1>1, <1>2, <1>3, <1>4, <1>5, <1>7, <1>8 DEF TableroForma, PasesFieles
<1> QED BY <1>1, <1>4, <1>6, <1>7, <1>9, <1>10, TableroAssumption DEF TableroInv

LEMMA TableroQuedaIgual ==
  ASSUME TableroInv, UNCHANGED tableroVars
  PROVE  TableroInv'
<1>1. UNCHANGED <<salonVars, pase, tablero, seguidor>>
  BY DEF tableroVars
<1>2. SalonForma' /\ PasesFieles'
  BY <1>1, PasesIguales
<1>3. /\ pase' = [h \in Pases |-> pase'[h]] /\ \A h \in Pases : pase'[h] \in UnPase(pase'[h])
      /\ tablero' = [x \in Tableros |-> tablero'[x]]
      /\ seguidor' = [x \in Seguidores |-> seguidor'[x]]
  BY <1>1 DEF TableroInv, TableroForma
<1>4. \A x \in Tableros : \E t :
        t = tablero'[x] /\ t \in UnTablero(t) /\ TableroFiel(t)' /\ TableroEnterado(t)'
  <2> TAKE x \in Tableros
  <2>1. PICK t : t = tablero[x]
    OBVIOUS
  <2>2. t \in UnTablero(t) /\ TableroFiel(t) /\ TableroEnterado(t)
    BY <2>1 DEF TableroInv, TableroForma
  <2> QED BY <1>1, <2>1, <2>2, TableroIgual
<1>5. \A x \in Seguidores : \E s :
        /\ s = seguidor'[x] /\ s \in UnSeguidor(s)
        /\ SeguidorFiel(s, Sigue[x])' /\ SeguidorEnterado(s, Sigue[x])'
  <2> TAKE x \in Seguidores
  <2>1. PICK s : s = seguidor[x]
    OBVIOUS
  <2>2. PICK o : o = Sigue[x]
    OBVIOUS
  <2>3. s \in UnSeguidor(s) /\ SeguidorFiel(s, o) /\ SeguidorEnterado(s, o)
    BY <2>1, <2>2, ElSeguidor
  <2>4. SeguidorFiel(s, o)' /\ SeguidorEnterado(s, o)'
    BY <1>1, <2>3, SeguidorIgual
  <2> QED BY <1>1, <2>1, <2>2, <2>3, <2>4
<1> QED BY <1>2, <1>3, <1>4, <1>5, InvDePantallas

LEMMA TableroPaso ==
  ASSUME TableroInv, [TableroNext]_tableroVars
  PROVE  TableroInv'
<1>1. ASSUME NEW h \in Pases, NEW o \in Ordenes, ConfirmarOrden(h, o)
      PROVE  TableroInv'
  BY <1>1, ConfirmarOrdenBien
<1>2. ASSUME NEW h \in Pases, NEW o \in Ordenes, NEW de \in {{}} \cup {{w} : w \in Tableros},
             NEW a \in Transiciones(etapa[o]), PedirTransicion(h, de, o, a)
      PROVE  TableroInv'
  BY <1>2, PedirTransicionBien
<1>3. ASSUME NEW h \in Pases,
             \/ GuardarTransicion(h) \/ RechazarTransicion(h)
             \/ \E l \in LimitesCola : CambiarTope(h, l)
             \/ EmitirCambios(h) \/ PerderRespuesta(h)
             \/ LeerColaDelPase(h) \/ FallarColaDelPase(h) \/ EmitirCola(h)
      PROVE  TableroInv'
  BY <1>3, GuardarTransicionBien, RechazarTransicionBien, CambiarTopeBien, EmitirCambiosBien,
     PerderRespuestaBien, LeerColaDelPaseBien, FallarColaDelPaseBien, EmitirColaBien
<1>4. ASSUME NEW w \in Tableros,
             \/ ConectarTablero(w) \/ Montar(w) \/ Desmontar(w) \/ CortarTablero(w)
             \/ CerrarTablero(w) \/ RechazarAlLeer(w) \/ FallarCopia(w)
      PROVE  TableroInv'
  BY <1>4, ConectarTableroBien, MontarBien, DesmontarBien, CortarTableroBien, CerrarTableroBien,
     RechazarAlLeerBien, FallarCopiaBien
<1>5. ASSUME NEW w \in Tableros, NEW c \in {"alConectar", "sync"},
             \/ LeerPedidos(w, c) \/ EmitirPedidos(w, c)
             \/ LeerColaDeLaFoto(w, c) \/ FallarColaDeLaFoto(w, c) \/ EmitirColaDeLaFoto(w, c)
      PROVE  TableroInv'
  BY <1>5, LeerPedidosBien, EmitirPedidosBien, LeerColaDeLaFotoBien, FallarColaDeLaFotoBien,
     EmitirColaDeLaFotoBien
<1>6. ASSUME NEW d \in Seguidores,
             \/ PedirSeguimiento(d) \/ CortarSeguidor(d) \/ LeerResumen(d) \/ UnirSeguidor(d)
             \/ FallarResumen(d) \/ LeerLugar(d) \/ FallarLugar(d) \/ DarLugar(d)
      PROVE  TableroInv'
  BY <1>6, PedirSeguimientoBien, CortarSeguidorBien, LeerResumenBien, UnirSeguidorBien,
     FallarResumenBien, LeerLugarBien, FallarLugarBien, DarLugarBien
<1>7. CASE ReiniciarServidor
  BY <1>7, ReiniciarServidorBien
<1>8. CASE UNCHANGED tableroVars
  BY <1>8, TableroQuedaIgual
<1> QED BY <1>1, <1>2, <1>3, <1>4, <1>5, <1>6, <1>7, <1>8 DEF TableroNext

\* Whatever the changes, the failures, the cuts, the restarts and the copies that
\* cross: what a screen shows of the last version is what the database has, and
\* what it was not told yet is still to be told by a request or by a copy on its
\* way to it, unless the server failed to tell it: the answer of a commit was
\* lost, or the queue could not be read (KdsGateway: the event after the commit,
\* the queue read again after it, and the catch of avisarEstadoCola).
THEOREM TableroSpecInv == TableroSpec => []TableroInv
<1>1. TableroInit => TableroInv
  BY TableroInicio
<1>2. TableroInv /\ [TableroNext]_tableroVars => TableroInv'
  BY TableroPaso
<1> QED BY <1>1, <1>2, PTL DEF TableroSpec

\* When nobody has anything left to tell, nothing is still to be told.
LEMMA NadaPorDecir ==
  ASSUME TableroInv, NadieAvisa
  PROVE  ~ColaPorDecir /\ \A o \in Ordenes : ~PorDecir(o)
<1>1. ASSUME NEW h \in Pases
      PROVE  /\ pase[h].fase \in {"libre", "leyo"}
             /\ pase[h].eventos = {}
  BY DEF NadieAvisa, TableroInv, PasesFieles, PaseFiel
<1> QED BY <1>1 DEF ColaPorDecir, PorDecir

\* A board that is quiet was told everything, as far as the server could.
LEMMA TableroQuietoEnterado ==
  ASSUME TableroInv, NEW w \in Tableros, TableroQuieto(w), NEW t, t = tablero[w]
  PROVE  /\ TableroFiel(t) /\ t \in UnTablero(t) /\ ~t.cargando
         /\ \A o \in Ordenes : Dicha(t, o)
         /\ tope # SinCola => ColaDicha(t)
<1>1. /\ TableroFiel(t) /\ t \in UnTablero(t) /\ TableroEnterado(t)
      /\ t.conectado /\ t.montado /\ ~t.sinCopia /\ Fotos(t) = {SinFoto}
  BY DEF TableroInv, TableroForma, TableroQuieto, Fotos
<1>2. ~ColaPorDecir /\ \A o \in Ordenes : ~PorDecir(o)
  BY NadaPorDecir DEF TableroQuieto
<1>3. ~TraeLasOrdenes(SinFoto) /\ ~TraeLaCola(SinFoto) /\ \A o \in Ordenes : ~Trae(SinFoto, o)
  BY LasFotos DEF TraeLasOrdenes, TraeLaCola, Trae
<1> QED BY <1>1, <1>2, <1>3 DEF TableroEnterado

\* A board that is quiet was told the last state of every order, unless the
\* answer of the commit of that change was lost; and shows it unless an older one
\* came after it, or it was told of an error, which it shows instead (KdsBoard,
\* BL-65).
THEOREM ElTableroEstaAlDia == TableroSpec => []TableroAlDia
<1>1. TableroInv => TableroAlDia
  <2>1. SUFFICES ASSUME TableroInv, NEW w \in Tableros, TableroQuieto(w)
                 PROVE  /\ ~tablero[w].cargando
                        /\ \A o \in Ordenes :
                             /\ version[o] \in {tablero[w].visto[o], tablero[w].perdido[o]}
                             /\ tablero[w].lista[o].v = version[o] =>
                                  tablero[w].lista[o].estado =
                                    IF etapa[o] \in {"PENDIENTE_PAGO", "ENTREGADO"} THEN "fuera"
                                    ELSE etapa[o]
    BY DEF TableroAlDia
  <2> QED BY <2>1, TableroQuietoEnterado DEF TableroFiel, Dicha, Muestra
<1> QED BY <1>1, TableroSpecInv, PTL

\* The page of a diner that follows its order was told its last state, or that
\* state was emitted while it was joining the room, or the answer of its commit
\* was lost (SeguimientoPedido).
THEOREM ElSeguimientoEstaAlDia == TableroSpec => []SeguimientoAlDia
<1>1. TableroInv => SeguimientoAlDia
  <2>1. SUFFICES ASSUME TableroInv, NEW d \in Seguidores, SeguidorQuieto(d)
                 PROVE  /\ version[Sigue[d]] \in {seguidor[d].visto, seguidor[d].perdido}
                        /\ seguidor[d].estado.v = version[Sigue[d]] =>
                             seguidor[d].estado.estado = etapa[Sigue[d]]
    BY DEF SeguimientoAlDia
  <2>2. \A o \in Ordenes : ~PorDecir(o)
    BY <2>1, NadaPorDecir DEF SeguidorQuieto
  <2> QED BY <2>1, <2>2, ElSeguidor DEF SeguidorQuieto, SeguidorFiel, SeguidorEnterado
<1> QED BY <1>1, TableroSpecInv, PTL

\* While the queue is on, whoever shows it was told how it is now, the board
\* and the page of an order that waits, unless the read of it failed, or the
\* answer of a commit was lost; and what it shows of the last change is how it is
\* (avisarEstadoCola, enviarEstadoCola).
THEOREM LaColaEstaAlDia == TableroSpec => []ColaAlDia
<1>1. TableroInv => ColaAlDia
  <2> SUFFICES ASSUME TableroInv
               PROVE  ColaAlDia
    OBVIOUS
  <2>1. ASSUME NEW w \in Tableros, TableroQuieto(w), tope # SinCola
        PROVE  /\ hechos \in {tablero[w].colaVista, tablero[w].colaPerdida}
               /\ tablero[w].cola.v = hechos => tablero[w].cola.cola = FotoDeLaCola
    BY <2>1, TableroQuietoEnterado DEF ColaDicha, TableroFiel
  <2>2. ASSUME NEW d \in Seguidores, SeguidorQuieto(d), tope # SinCola,
               etapa[Sigue[d]] = "RECIBIDO"
        PROVE  /\ hechos \in {seguidor[d].lugarVisto, seguidor[d].lugarPerdido}
               /\ seguidor[d].lugar.v = hechos =>
                    seguidor[d].lugar.puesto = Puesto(FotoDeLaCola.espera, Sigue[d])
    <3>1. ~ColaPorDecir /\ seguidor[d].fase = "sigue"
      BY <2>2, NadaPorDecir DEF SeguidorQuieto
    <3>2. LugarDicho(seguidor[d])
      BY <2>2, <3>1, ElSeguidor DEF SeguidorEnterado
    <3>3. seguidor[d].lugar.v = hechos =>
            seguidor[d].lugar.puesto = Puesto(FotoDeLaCola.espera, Sigue[d])
      BY ElSeguidor DEF SeguidorFiel
    <3> QED BY <3>2, <3>3 DEF LugarDicho
  <2> QED BY <2>1, <2>2 DEF ColaAlDia
<1> QED BY <1>1, TableroSpecInv, PTL

=============================================================================
