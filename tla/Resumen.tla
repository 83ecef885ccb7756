------------------------------ MODULE Resumen ------------------------------
(***************************************************************************)
(* The summary of sales of the reports.  Every payment that sends its      *)
(* order to the kitchen has the last hours calculated again, once it is    *)
(* committed and without waiting for it; a job calculates more hours now   *)
(* and then.  A calculation takes the lock of the establishment, writes    *)
(* the hours of its window from the approved payments, first their sales   *)
(* and then the dishes of their orders, and commits.                       *)
(*                                                                         *)
(* A payment counts in the hour of its creation, and its order in the hour *)
(* of the first of its approved payments.  Statements read what is         *)
(* committed when they run.  An hour is a number; amounts, channels and    *)
(* names are left out, so an hour is the set of what it counts.            *)
(***************************************************************************)
EXTENDS Integers

CONSTANTS
  Comprados,    \* orders
  Ventas,       \* their payments
  CompradoDe,   \* [Ventas -> Comprados]
  Jobs,         \* replicas of the job
  VentanaHoras, \* hours that the job calculates
  MaxHora,      \* bound on the clock
  MaxCalculos,  \* bound on the runs of each replica of the job
  SinCandado    \* nobody has the lock

ASSUME ResumenAssumption ==
  /\ CompradoDe \in [Ventas -> Comprados]
  /\ VentanaHoras \in Nat /\ MaxHora \in Nat /\ MaxCalculos \in Nat
  /\ Ventas \cap Jobs = {}
  /\ SinCandado \notin Ventas \cup Jobs

VARIABLES
  ahora,     \* the hour
  venta,     \* [Ventas -> state and hour of creation]
  porHora,   \* resumen_ventas_hora: [Horas -> SUBSET Ventas]
  platos,    \* resumen_platos_hora: [Horas -> SUBSET Comprados]
  turno,     \* who calculates
  calculo,   \* [Ventas \cup Jobs -> the calculation that each one asked for]
  vueltas,   \* [Jobs -> how much of MaxCalculos is used]
  cerrados,  \* orders that were paid or cancelled
  vista,     \* history: payments whose own calculation committed in time
  retomadas  \* history: payments approved again after their refund

resumenVars == <<ahora, venta, porHora, platos, turno, calculo, vueltas, vista, cerrados, retomadas>>

-----------------------------------------------------------------------------

Horas == 0 .. MaxHora
Calculistas == Ventas \cup Jobs

\* desde: the window.  cuenta, sirve: what its two INSERTs found, by hour.
UnCalculo(paso, ventana, cuenta, sirve) ==
  [paso |-> paso, ventana |-> ventana, cuenta |-> cuenta, sirve |-> sirve]

SinCalculo == UnCalculo("no", {}, {}, {})

ResumenInit ==
  /\ ahora = 0
  /\ venta = [v \in Ventas |-> [estado |-> "NUEVA", hora |-> 0]]
  /\ porHora = [h \in Horas |-> {}]
  /\ platos = [h \in Horas |-> {}]
  /\ turno = SinCandado
  /\ calculo = [k \in Calculistas |-> SinCalculo]
  /\ vueltas = [j \in Jobs |-> 0]
  /\ cerrados = {}
  /\ vista = {}
  /\ retomadas = {}

Aprobadas == {v \in Ventas : venta[v].estado = "APROBADO"}

DelPedido(c) == {v \in Ventas : CompradoDe[v] = c}

\* SELECT ... WHERE estado = 'APROBADO': the payments that an hour counts.
CuentaEn(h) == {v \in Aprobadas : venta[v].hora = h}

\* MIN(created_at): an order counts in the hour of the first one.
PlatosEn(h) ==
  {c \in Comprados :
     /\ CuentaEn(h) \cap DelPedido(c) # {}
     /\ \A v \in Aprobadas \cap DelPedido(c) : venta[v].hora >= h}

-----------------------------------------------------------------------------
(* Payments *)

PasaUnaHora ==
  /\ ahora < MaxHora
  /\ ahora' = ahora + 1
  /\ UNCHANGED <<venta, porHora, platos, turno, calculo, vueltas, vista, cerrados, retomadas>>

\* An order that waits to be paid has one payment in progress or approved.
Reservar(v) ==
  /\ venta[v].estado = "NUEVA"
  /\ CompradoDe[v] \notin cerrados
  /\ \A w \in DelPedido(CompradoDe[v]) :
       venta[w].estado \notin {"PENDIENTE", "APROBADO"}
  /\ venta' = [venta EXCEPT ![v] = [estado |-> "PENDIENTE", hora |-> ahora]]
  /\ UNCHANGED <<ahora, porHora, platos, turno, calculo, vueltas, vista, cerrados, retomadas>>

\* Rejected, or expired.
Rechazar(v) ==
  /\ venta[v].estado = "PENDIENTE"
  /\ venta' = [venta EXCEPT ![v].estado = "RECHAZADO"]
  /\ UNCHANGED <<ahora, porHora, platos, turno, calculo, vueltas, vista, cerrados, retomadas>>

\* The close of the table cancels an order that was not paid.
CancelarPedido(c) ==
  /\ c \notin cerrados
  /\ cerrados' = cerrados \cup {c}
  /\ UNCHANGED <<ahora, venta, porHora, platos, turno, calculo, vueltas, vista, retomadas>>

\* In time or late, and also over the refund, by whoever asked the gateway
\* before it.  The one that confirms the order asks for a calculation; one that
\* comes when the order is paid or cancelled is only written.
Aprobar(v) ==
  /\ venta[v].estado \in {"PENDIENTE", "RECHAZADO", "REEMBOLSADO"}
  /\ venta' = [venta EXCEPT ![v].estado = "APROBADO"]
  /\ \/ /\ CompradoDe[v] \notin cerrados
        /\ cerrados' = cerrados \cup {CompradoDe[v]}
        /\ calculo' = [calculo EXCEPT ![v].paso = "pedido"]
        /\ UNCHANGED retomadas
     \/ /\ CompradoDe[v] \in cerrados
        /\ retomadas' = retomadas \cup {w \in {v} : venta[w].estado = "REEMBOLSADO"}
        /\ UNCHANGED <<cerrados, calculo>>
  /\ UNCHANGED <<ahora, porHora, platos, turno, vueltas, vista>>

\* The notification of a refund, whatever the payment was, asks for no
\* calculation.
Reembolsar(v) ==
  /\ venta[v].estado \in {"PENDIENTE", "RECHAZADO", "APROBADO"}
  /\ venta' = [venta EXCEPT ![v].estado = "REEMBOLSADO"]
  /\ UNCHANGED <<ahora, porHora, platos, turno, calculo, vueltas, vista, cerrados, retomadas>>

-----------------------------------------------------------------------------
(* Calculations *)

\* Seeded defect: only the current hour.
SoloLaHora == 1

HORAS_AL_COBRAR == 2

\* The last n hours, with the current one.
VentanaReciente(n) == {h \in Horas : h > ahora - n /\ h <= ahora}

RecalcularRecientes(v) ==
  /\ calculo[v].paso = "pedido"
  /\ calculo' = [calculo EXCEPT ![v] =
       UnCalculo("espera", VentanaReciente(HORAS_AL_COBRAR), {}, {})]
  /\ UNCHANGED <<ahora, venta, porHora, platos, turno, vueltas, vista, cerrados, retomadas>>

\* A replica runs one at a time.
CorrerResumen(j) ==
  /\ vueltas[j] < MaxCalculos
  /\ calculo[j].paso = "no"
  /\ vueltas' = [vueltas EXCEPT ![j] = @ + 1]
  /\ calculo' = [calculo EXCEPT ![j] =
       UnCalculo("espera", VentanaReciente(VentanaHoras), {}, {})]
  /\ UNCHANGED <<ahora, venta, porHora, platos, turno, vista, cerrados, retomadas>>

\* Seeded defect: it goes on without waiting.
SinEsperar(k) == TRUE

HayLugar(k) == turno = SinCandado

\* pg_advisory_xact_lock
TomarCandado(k) ==
  /\ calculo[k].paso = "espera"
  /\ HayLugar(k)
  /\ turno' = k
  /\ calculo' = [calculo EXCEPT ![k].paso = "ventas"]
  /\ UNCHANGED <<ahora, venta, porHora, platos, vueltas, vista, cerrados, retomadas>>

\* DELETE and INSERT of the sales of the window.
CalcularVentas(k) ==
  /\ calculo[k].paso = "ventas"
  /\ calculo' = [calculo EXCEPT ![k].paso = "platos",
       ![k].cuenta = UNION {CuentaEn(h) : h \in calculo[k].ventana}]
  /\ UNCHANGED <<ahora, venta, porHora, platos, turno, vueltas, vista, cerrados, retomadas>>

\* DELETE and INSERT of the dishes, which see payments approved meanwhile.
CalcularPlatos(k) ==
  /\ calculo[k].paso = "platos"
  /\ calculo' = [calculo EXCEPT ![k].paso = "commit",
       ![k].sirve = {hc \in calculo[k].ventana \X Comprados : hc[2] \in PlatosEn(hc[1])}]
  /\ UNCHANGED <<ahora, venta, porHora, platos, turno, vueltas, vista, cerrados, retomadas>>

Suelto(k) == IF turno = k THEN SinCandado ELSE turno

ConfirmarCalculo(k) ==
  /\ calculo[k].paso = "commit"
  /\ porHora' = [h \in Horas |->
       IF h \in calculo[k].ventana
         THEN {v \in calculo[k].cuenta : venta[v].hora = h} ELSE porHora[h]]
  /\ platos' = [h \in Horas |->
       IF h \in calculo[k].ventana
         THEN {c \in Comprados : <<h, c>> \in calculo[k].sirve} ELSE platos[h]]
  /\ turno' = Suelto(k)
  /\ calculo' = [calculo EXCEPT ![k] = SinCalculo]
  /\ vista' = vista \cup {v \in {k} : v \in Ventas /\ ahora - venta[v].hora <= 1}
  /\ UNCHANGED <<ahora, venta, vueltas, cerrados, retomadas>>

\* The database fails, or the process dies: nothing is written, and a payment
\* leaves it to the job.  Until the commit it does not matter when.
FallarCalculo(k) ==
  /\ calculo[k].paso \in {"espera", "commit"}
  /\ turno' = Suelto(k)
  /\ calculo' = [calculo EXCEPT ![k] = SinCalculo]
  /\ UNCHANGED <<ahora, venta, porHora, platos, vueltas, vista, cerrados, retomadas>>

ResumenNext ==
  \/ PasaUnaHora
  \/ \E c \in Comprados : CancelarPedido(c)
  \/ \E v \in Ventas :
       \/ Reservar(v) \/ Rechazar(v) \/ Aprobar(v) \/ Reembolsar(v)
       \/ RecalcularRecientes(v)
  \/ \E j \in Jobs : CorrerResumen(j)
  \/ \E k \in Calculistas :
       \/ TomarCandado(k) \/ CalcularVentas(k) \/ CalcularPlatos(k)
       \/ ConfirmarCalculo(k) \/ FallarCalculo(k)

ResumenSpec == ResumenInit /\ [][ResumenNext]_resumenVars

-----------------------------------------------------------------------------
(* Properties *)

CobradoUnaVez(v) ==
  \A w \in DelPedido(CompradoDe[v]) \ {v} :
    venta[w].estado \notin {"APROBADO", "REEMBOLSADO"}

\* A sale stays in the report: once the calculation that a payment asked for
\* committed within an hour of its creation, the payment is counted in its
\* hour, and its order's dishes too unless the order was charged twice,
\* whatever other calculations (of other payments, or older ones that waited
\* for the lock) are written after it.  What the report does not promise: a
\* payment approved later than that, one whose calculation failed, or one that
\* a late answer approved again after its refund, waits for the job.
CobradoSeVe ==
  \A v \in (vista \cap Aprobadas) \ retomadas :
    /\ v \in porHora[venta[v].hora]
    /\ CobradoUnaVez(v) => CompradoDe[v] \in platos[venta[v].hora]

=============================================================================
