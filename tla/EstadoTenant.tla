---------------------------- MODULE EstadoTenant ----------------------------
(***************************************************************************)
(* Suspending a restaurant.  Every request asks whether the tenant is      *)
(* suspended; each replica of the backend remembers the answer for a time. *)
(* Suspending and reactivating commit, and then drop what their replica    *)
(* remembers.  A query reads the clock and finds nothing valid, reads the  *)
(* database, and then stores: others run in between.  One tenant: they     *)
(* share nothing.                                                          *)
(***************************************************************************)
EXTENDS Integers

CONSTANTS
  Instancias,  \* replicas of the backend
  Consultas,   \* queries that may be in progress at once
  Plazo,       \* TTL_CACHE_ESTADO_MS, in ticks of the clock
  MaxReloj,    \* bound: ticks
  MaxCambios,  \* bound: suspensions and reactivations
  Ninguno      \* no replica

ASSUME EstadoTenantAssumption ==
  /\ Ninguno \notin Instancias
  /\ Plazo \in Nat \ {0}
  /\ MaxReloj \in Nat
  /\ MaxCambios \in Nat

VARIABLES
  suspendido,   \* tenant.estado = 'SUSPENDIDO', committed
  recuerdo,     \* [Instancias -> Recuerdo], the cache
  consulta,     \* [Consultas -> Consulta]
  porInvalidar, \* [Instancias -> changes committed whose drop is to come]
  ultimaVez,    \* history: [BOOLEAN -> last time that suspendido was so]
  reloj,
  cambiosHechos \* how much of MaxCambios is used

tenantVars ==
  <<suspendido, recuerdo, consulta, porInvalidar, ultimaVez, reloj, cambiosHechos>>

\* vence: until when it is valid.  ajeno (history): since it was read, another
\* replica made a change, or this one dropped what it remembered.
Recuerdo == [suspendido : BOOLEAN, vence : Nat, ajeno : BOOLEAN]

Olvido == [suspendido |-> FALSE, vence |-> 0, ajeno |-> FALSE]

\* desde: the clock when it began.  leyo: what it read.
Consulta ==
  [fase : {"nada", "leer", "guardar"}, en : Instancias \cup {Ninguno},
   desde : Nat, leyo : BOOLEAN, ajeno : BOOLEAN]

UnaConsulta(fase, i, desde, leyo) ==
  [fase |-> fase, en |-> i, desde |-> desde, leyo |-> leyo, ajeno |-> FALSE]

SinConsulta == UnaConsulta("nada", Ninguno, 0, FALSE)

TenantTypeOK ==
  /\ suspendido \in BOOLEAN
  /\ recuerdo \in [Instancias -> Recuerdo]
  /\ consulta \in [Consultas -> Consulta]
  /\ porInvalidar \in [Instancias -> Nat]
  /\ ultimaVez \in [BOOLEAN -> Int]
  /\ reloj \in 0 .. MaxReloj
  /\ cambiosHechos \in 0 .. MaxCambios

\* Nobody has suspended it, nor will have for as long as anything is valid.
TenantInit ==
  /\ suspendido = FALSE
  /\ recuerdo = [i \in Instancias |-> Olvido]
  /\ consulta = [q \in Consultas |-> SinConsulta]
  /\ porInvalidar = [i \in Instancias |-> 0]
  /\ ultimaVez = [b \in BOOLEAN |-> IF b THEN -Plazo ELSE 0]
  /\ reloj = 0
  /\ cambiosHechos = 0

-----------------------------------------------------------------------------
(* estaSuspendido *)

Vale(i) == recuerdo[i].vence > reloj

\* What is remembered is answered at once.
Empezar(q, i) ==
  /\ consulta[q].fase = "nada"
  /\ ~Vale(i)
  /\ consulta' = [consulta EXCEPT ![q] = UnaConsulta("leer", i, reloj, FALSE)]
  /\ UNCHANGED <<suspendido, recuerdo, porInvalidar, ultimaVez, reloj, cambiosHechos>>

Leer(q) ==
  /\ consulta[q].fase = "leer"
  /\ consulta' = [consulta EXCEPT ![q] =
       UnaConsulta("guardar", @.en, @.desde, suspendido)]
  /\ UNCHANGED <<suspendido, recuerdo, porInvalidar, ultimaVez, reloj, cambiosHechos>>

\* Seeded defect: the time counts from the store.
VenceDesdeQueSeGuarda(c) == reloj + Plazo

\* The time counts from before the database was read.
Vencimiento(c) == c.desde + Plazo

Guardar(q) ==
  LET c == consulta[q]
  IN  /\ c.fase = "guardar"
      /\ recuerdo' = [recuerdo EXCEPT ![c.en] =
           [suspendido |-> c.leyo, vence |-> Vencimiento(c), ajeno |-> c.ajeno]]
      /\ consulta' = [consulta EXCEPT ![q] = SinConsulta]
      /\ UNCHANGED <<suspendido, porInvalidar, ultimaVez, reloj, cambiosHechos>>

\* The read fails: nothing is stored.
FallarConsulta(q) ==
  /\ consulta[q].fase = "leer"
  /\ consulta' = [consulta EXCEPT ![q] = SinConsulta]
  /\ UNCHANGED <<suspendido, recuerdo, porInvalidar, ultimaVez, reloj, cambiosHechos>>

-----------------------------------------------------------------------------
(* suspender, reactivar *)

\* UPDATE ... WHERE estado = the other one, in replica i.
Cambiar(i) ==
  /\ cambiosHechos < MaxCambios
  /\ cambiosHechos' = cambiosHechos + 1
  /\ suspendido' = ~suspendido
  /\ ultimaVez' = [ultimaVez EXCEPT ![~suspendido] = reloj]
  /\ porInvalidar' = [porInvalidar EXCEPT ![i] = @ + 1]
  /\ recuerdo' = [j \in Instancias |->
       [recuerdo[j] EXCEPT !.ajeno = @ \/ j # i]]
  /\ consulta' = [q \in Consultas |->
       [consulta[q] EXCEPT !.ajeno = @ \/ (consulta[q].fase = "guardar"
                                             /\ consulta[q].en # i)]]
  /\ UNCHANGED reloj

\* Seeded defect: it stays.
NoOlvidar(i) == [recuerdo EXCEPT ![i] = @]

Olvidar(i) == [recuerdo EXCEPT ![i] = Olvido]

\* invalidar
Invalidar(i) ==
  /\ porInvalidar[i] > 0
  /\ porInvalidar' = [porInvalidar EXCEPT ![i] = @ - 1]
  /\ recuerdo' = Olvidar(i)
  /\ consulta' = [q \in Consultas |->
       [consulta[q] EXCEPT !.ajeno = @ \/ (consulta[q].fase = "guardar"
                                             /\ consulta[q].en = i)]]
  /\ UNCHANGED <<suspendido, ultimaVez, reloj, cambiosHechos>>

PasaUnMomento ==
  /\ reloj < MaxReloj
  /\ reloj' = reloj + 1
  /\ ultimaVez' = [ultimaVez EXCEPT ![suspendido] = reloj + 1]
  /\ UNCHANGED <<suspendido, recuerdo, consulta, porInvalidar, cambiosHechos>>

TenantNext ==
  \/ \E q \in Consultas :
       \/ \E i \in Instancias : Empezar(q, i)
       \/ Leer(q) \/ Guardar(q) \/ FallarConsulta(q)
  \/ \E i \in Instancias : Cambiar(i) \/ Invalidar(i)
  \/ PasaUnMomento

TenantSpec == TenantInit /\ [][TenantNext]_tenantVars

-----------------------------------------------------------------------------
(* Properties *)

\* What a replica answers from memory was true less than a term ago, however
\* long the read took and whoever made changes meanwhile.
RecuerdoReciente ==
  \A i \in Instancias :
    Vale(i) => ultimaVez[recuerdo[i].suspendido] > reloj - Plazo

\* What a replica remembers is the truth, except for the changes that another
\* one made, or that this one has not yet dropped, or whose drop came between
\* the read of a query and its store.
RecuerdoFiel ==
  \A i \in Instancias :
    Vale(i) /\ recuerdo[i].suspendido # suspendido
      => recuerdo[i].ajeno \/ porInvalidar[i] > 0

=============================================================================
