------------------------- MODULE EstadoTenant_proofs -------------------------
(***************************************************************************)
(* Proofs about EstadoTenant, for any number of replicas, of queries, of   *)
(* changes, and any term.  What a replica remembers was true at the time   *)
(* from which its term counts; and when it is not true any more, either    *)
(* the replica has the drop still to do, or the history says why not.      *)
(* Both have to be known also of the queries that have read the database   *)
(* and have not stored.                                                    *)
(*                                                                         *)
(* At the end, about Altas, for any number of requests, restaurants and    *)
(* failures: a step touches one restaurant, and a restaurant at which two  *)
(* requests never were has at most one of them at it, so it is enough to   *)
(* follow that one.                                                        *)
(***************************************************************************)
EXTENDS EstadoTenant, Altas, TLAPS

\* The types, and a query in progress is in a replica.
TiposTenant ==
  /\ TenantTypeOK
  /\ \A q \in Consultas : consulta[q].fase # "nada" => consulta[q].en \in Instancias

\* The history and the clock.
Historia ==
  /\ ultimaVez[suspendido] = reloj
  /\ \A b \in BOOLEAN : -Plazo <= ultimaVez[b] /\ ultimaVez[b] <= reloj

\* What was read was so after the time from which its term counts.
LeidoEntonces ==
  /\ \A i \in Instancias :
       ultimaVez[recuerdo[i].suspendido] >= recuerdo[i].vence - Plazo
  /\ \A q \in Consultas :
       /\ consulta[q].fase # "nada" => consulta[q].desde <= reloj
       /\ consulta[q].fase = "guardar" =>
            ultimaVez[consulta[q].leyo] >= consulta[q].desde

\* What a query has read is true, or its replica has a drop to do, or the
\* query is one of the exceptions.
LeidoFiel ==
  \A q \in Consultas :
    consulta[q].fase = "guardar" =>
      \/ consulta[q].leyo = suspendido
      \/ consulta[q].ajeno
      \/ porInvalidar[consulta[q].en] > 0

TenantInv ==
  TiposTenant /\ Historia /\ LeidoEntonces /\ LeidoFiel /\ RecuerdoFiel

-----------------------------------------------------------------------------
(* The beginning *)

\* Nobody remembers anything, and it was never suspended in the last term.
LEMMA TenantInicio == TenantInit => TenantInv
<1> SUFFICES ASSUME TenantInit PROVE TenantInv
  OBVIOUS
<1> USE EstadoTenantAssumption
<1>1. Olvido \in Recuerdo /\ Olvido.vence = 0
  BY DEF Olvido, Recuerdo
<1>2. SinConsulta \in Consulta /\ SinConsulta.fase = "nada"
  BY DEF SinConsulta, UnaConsulta, Consulta
<1>3. suspendido = FALSE /\ reloj = 0 /\ cambiosHechos = 0
  BY DEF TenantInit
<1>4. \A b \in BOOLEAN : ultimaVez[b] = IF b THEN -Plazo ELSE 0
  BY Zenon DEF TenantInit
<1>5. ultimaVez[FALSE] = 0 /\ ultimaVez[TRUE] = -Plazo
  BY <1>4
<1>6. \A b \in BOOLEAN : ultimaVez[b] = 0 \/ ultimaVez[b] = -Plazo
  BY <1>4
<1>7. TiposTenant /\ Historia
  <2>1. \A b \in BOOLEAN : ultimaVez[b] \in Int
    BY <1>6
  <2>2. DOMAIN ultimaVez = BOOLEAN /\ ultimaVez = [b \in BOOLEAN |-> ultimaVez[b]]
    BY Zenon DEF TenantInit
  <2>3. ultimaVez \in [BOOLEAN -> Int]
    BY <2>1, <2>2, Zenon
  <2>4. porInvalidar \in [Instancias -> Nat]
    BY DEF TenantInit
  <2>5. /\ recuerdo \in [Instancias -> Recuerdo]
        /\ consulta \in [Consultas -> Consulta]
    BY <1>1, <1>2 DEF TenantInit
  <2>6. reloj \in 0 .. MaxReloj /\ cambiosHechos \in 0 .. MaxCambios
    BY <1>3
  <2>7. suspendido \in BOOLEAN
    BY <1>3
  <2>8. TenantTypeOK
    BY <2>3, <2>4, <2>5, <2>6, <2>7, Zenon DEF TenantTypeOK
  <2>9. TiposTenant
    BY <1>2, <2>8 DEF TenantInit, TiposTenant
  <2>10. \A b \in BOOLEAN : -Plazo <= ultimaVez[b] /\ ultimaVez[b] <= reloj
    BY <1>3, <1>6
  <2>11. ultimaVez[suspendido] = reloj
    BY <1>3, <1>5, Zenon
  <2> QED BY <2>9, <2>10, <2>11 DEF Historia
<1>10. LeidoEntonces
  <2>1. ASSUME NEW i \in Instancias
        PROVE  ultimaVez[recuerdo[i].suspendido] >= recuerdo[i].vence - Plazo
    <3>1. recuerdo[i] = Olvido
      BY DEF TenantInit
    <3>2. recuerdo[i].suspendido = FALSE /\ recuerdo[i].vence = 0
      BY <3>1 DEF Olvido
    <3>3. ultimaVez[recuerdo[i].suspendido] = 0
      BY <3>2, <1>5, Zenon
    <3> QED BY <3>2, <3>3
  <2>2. \A q \in Consultas : consulta[q].fase = "nada"
    BY <1>2 DEF TenantInit
  <2> QED BY <2>1, <2>2 DEF LeidoEntonces
<1>8. LeidoFiel
  BY <1>2 DEF TenantInit, LeidoFiel
<1>9. RecuerdoFiel
  BY <1>1 DEF TenantInit, RecuerdoFiel, Vale
<1> QED BY <1>7, <1>8, <1>9, <1>10 DEF TenantInv

-----------------------------------------------------------------------------
(* What each step does to what is remembered and to the queries *)

\* A query begins.
LEMMA EmpezarEfecto ==
  ASSUME TiposTenant, NEW q \in Consultas, NEW i \in Instancias, Empezar(q, i)
  PROVE  /\ consulta' \in [Consultas -> Consulta]
         /\ \A o \in Consultas \ {q} : consulta'[o] = consulta[o]
         /\ consulta'[q].fase = "leer" /\ consulta'[q].en = i
         /\ consulta'[q].desde = reloj
<1>1. reloj \in Nat
  BY EstadoTenantAssumption DEF TiposTenant, TenantTypeOK
<1>2. UnaConsulta("leer", i, reloj, FALSE) \in Consulta
  BY <1>1 DEF UnaConsulta, Consulta
<1> QED BY <1>2 DEF TiposTenant, TenantTypeOK, Empezar, UnaConsulta

\* It reads what is true now.
LEMMA LeerEfecto ==
  ASSUME TiposTenant, NEW q \in Consultas, Leer(q)
  PROVE  /\ consulta' \in [Consultas -> Consulta]
         /\ \A o \in Consultas \ {q} : consulta'[o] = consulta[o]
         /\ consulta[q].fase = "leer"
         /\ consulta'[q].fase = "guardar" /\ consulta'[q].en = consulta[q].en
         /\ consulta'[q].desde = consulta[q].desde
         /\ consulta'[q].leyo = suspendido
<1>1. consulta[q] \in Consulta /\ suspendido \in BOOLEAN
  BY DEF TiposTenant, TenantTypeOK
<1>2. UnaConsulta("guardar", consulta[q].en, consulta[q].desde, suspendido)
        \in Consulta
  BY <1>1 DEF UnaConsulta, Consulta
<1> QED BY <1>2 DEF TiposTenant, TenantTypeOK, Leer, UnaConsulta

\* What it stores is what it read, with its term.
LEMMA GuardarEfecto ==
  ASSUME TiposTenant, NEW q \in Consultas, Guardar(q)
  PROVE  /\ consulta[q].fase = "guardar" /\ consulta[q].en \in Instancias
         /\ recuerdo' \in [Instancias -> Recuerdo]
         /\ \A i \in Instancias \ {consulta[q].en} : recuerdo'[i] = recuerdo[i]
         /\ recuerdo'[consulta[q].en].suspendido = consulta[q].leyo
         /\ recuerdo'[consulta[q].en].ajeno = consulta[q].ajeno
         /\ recuerdo'[consulta[q].en].vence = consulta[q].desde + Plazo
<1>1. consulta[q] \in Consulta /\ consulta[q].fase = "guardar"
  BY DEF TiposTenant, TenantTypeOK, Guardar
<1>2. consulta[q].en \in Instancias
  BY <1>1 DEF TiposTenant
<1>3. [suspendido |-> consulta[q].leyo, vence |-> Vencimiento(consulta[q]),
        ajeno |-> consulta[q].ajeno] \in Recuerdo
  BY <1>1, EstadoTenantAssumption DEF Consulta, Recuerdo, Vencimiento
<1> QED BY <1>1, <1>2, <1>3 DEF TiposTenant, TenantTypeOK, Guardar, Vencimiento

\* A query that ends leaves the others as they were.
LEMMA TerminaEfecto ==
  ASSUME TiposTenant, NEW q \in Consultas,
         consulta' = [consulta EXCEPT ![q] = SinConsulta]
  PROVE  /\ consulta' \in [Consultas -> Consulta]
         /\ \A o \in Consultas \ {q} : consulta'[o] = consulta[o]
         /\ consulta'[q].fase = "nada"
<1>1. SinConsulta \in Consulta /\ SinConsulta.fase = "nada"
  BY DEF SinConsulta, UnaConsulta, Consulta
<1> QED BY <1>1 DEF TiposTenant, TenantTypeOK

\* The queries of replica i that have read, and the ones of the others.
Leyeron(i) == {q \in Consultas : consulta[q].fase = "guardar" /\ consulta[q].en = i}
LeyeronEnOtra(i) ==
  {q \in Consultas : consulta[q].fase = "guardar" /\ consulta[q].en # i}

\* A change, and a drop, only note in the queries that some are exceptions.
MarcaConsultas(qs) ==
  /\ consulta' \in [Consultas -> Consulta]
  /\ \A q \in Consultas :
       /\ consulta'[q].fase = consulta[q].fase
       /\ consulta'[q].en = consulta[q].en
       /\ consulta'[q].desde = consulta[q].desde
       /\ consulta'[q].leyo = consulta[q].leyo
       /\ consulta[q].ajeno => consulta'[q].ajeno
       /\ q \in qs => consulta'[q].ajeno

\* The change of replica i is an exception in the others.
LEMMA CambiarEfecto ==
  ASSUME TiposTenant, NEW i \in Instancias, Cambiar(i)
  PROVE  /\ MarcaConsultas(LeyeronEnOtra(i))
         /\ recuerdo' \in [Instancias -> Recuerdo]
         /\ \A j \in Instancias :
              /\ recuerdo'[j].suspendido = recuerdo[j].suspendido
              /\ recuerdo'[j].vence = recuerdo[j].vence
              /\ j # i => recuerdo'[j].ajeno
         /\ porInvalidar' \in [Instancias -> Nat]
         /\ porInvalidar'[i] > 0
         /\ suspendido' \in BOOLEAN /\ suspendido' # suspendido
         /\ ultimaVez' \in [BOOLEAN -> Int]
         /\ ultimaVez'[suspendido'] = reloj
         /\ ultimaVez'[suspendido] = ultimaVez[suspendido]
<1> USE DEF TiposTenant, TenantTypeOK, Cambiar
<1>1. MarcaConsultas(LeyeronEnOtra(i))
  BY ZenonT(60) DEF MarcaConsultas, Consulta, LeyeronEnOtra
<1>2. /\ recuerdo' \in [Instancias -> Recuerdo]
      /\ \A j \in Instancias :
           /\ recuerdo'[j].suspendido = recuerdo[j].suspendido
           /\ recuerdo'[j].vence = recuerdo[j].vence
           /\ j # i => recuerdo'[j].ajeno
  BY DEF Recuerdo
<1>3. porInvalidar' \in [Instancias -> Nat] /\ porInvalidar'[i] > 0
  OBVIOUS
<1>4. suspendido' \in BOOLEAN /\ suspendido' = ~suspendido
  OBVIOUS
<1>5. reloj \in Int
  OBVIOUS
<1>6. ultimaVez' \in [BOOLEAN -> Int]
  BY <1>5
<1>7. ultimaVez'[~suspendido] = reloj /\ ultimaVez'[suspendido] = ultimaVez[suspendido]
  OBVIOUS
<1> QED BY <1>1, <1>2, <1>3, <1>4, <1>6, <1>7

\* The drop of replica i is an exception for its own queries.
LEMMA InvalidarEfecto ==
  ASSUME TiposTenant, NEW i \in Instancias, Invalidar(i)
  PROVE  /\ MarcaConsultas(Leyeron(i))
         /\ recuerdo' \in [Instancias -> Recuerdo]
         /\ \A j \in Instancias \ {i} :
              /\ recuerdo'[j] = recuerdo[j]
              /\ porInvalidar'[j] = porInvalidar[j]
         /\ recuerdo'[i] = Olvido
         /\ porInvalidar' \in [Instancias -> Nat]
<1> USE DEF TiposTenant, TenantTypeOK, Invalidar
<1>1. MarcaConsultas(Leyeron(i))
  <2>1. consulta' \in [Consultas -> Consulta]
    <3>1. ASSUME NEW q \in Consultas PROVE consulta'[q] \in Consulta
      <4>1. consulta[q] \in Consulta
        OBVIOUS
      <4>2. \A b \in BOOLEAN : [consulta[q] EXCEPT !.ajeno = b] \in Consulta
        BY <4>1 DEF Consulta
      <4>3. (consulta[q].ajeno
               \/ (consulta[q].fase = "guardar" /\ consulta[q].en = i)) \in BOOLEAN
        BY <4>1 DEF Consulta
      <4> QED BY <4>2, <4>3, Zenon
    <3> QED BY <3>1, Zenon
  <2>2. \A q \in Consultas :
          /\ consulta'[q].fase = consulta[q].fase
          /\ consulta'[q].en = consulta[q].en
          /\ consulta'[q].desde = consulta[q].desde
    BY DEF Consulta
  <2>3. \A q \in Consultas :
          /\ consulta'[q].leyo = consulta[q].leyo
          /\ consulta[q].ajeno => consulta'[q].ajeno
    BY DEF Consulta
  <2>4. \A q \in Leyeron(i) : consulta'[q].ajeno
    BY DEF Consulta, Leyeron
  <2> QED BY <2>1, <2>2, <2>3, <2>4 DEF MarcaConsultas
<1>2. Olvido \in Recuerdo
  BY DEF Olvido, Recuerdo
<1>3. /\ recuerdo' \in [Instancias -> Recuerdo]
      /\ recuerdo'[i] = Olvido
      /\ \A j \in Instancias \ {i} : recuerdo'[j] = recuerdo[j]
  BY <1>2 DEF Olvidar
<1>4. /\ porInvalidar' \in [Instancias -> Nat]
      /\ \A j \in Instancias \ {i} : porInvalidar'[j] = porInvalidar[j]
  OBVIOUS
<1> QED BY <1>1, <1>3, <1>4

\* The clock goes on, and what is true is true now.
LEMMA RelojEfecto ==
  ASSUME TiposTenant, PasaUnMomento
  PROVE  /\ reloj' = reloj + 1 /\ reloj' \in 0 .. MaxReloj
         /\ ultimaVez' \in [BOOLEAN -> Int]
         /\ ultimaVez'[suspendido] = reloj'
         /\ \A b \in BOOLEAN : b # suspendido => ultimaVez'[b] = ultimaVez[b]
BY EstadoTenantAssumption DEF TiposTenant, TenantTypeOK, PasaUnMomento
-----------------------------------------------------------------------------
(* Each step keeps the invariant *)

\* A query that begins has read nothing.
LEMMA EmpezarPaso ==
  ASSUME TenantInv, NEW q \in Consultas, NEW i \in Instancias, Empezar(q, i)
  PROVE  TenantInv'
<1> USE DEF TenantInv
<1>1. UNCHANGED <<suspendido, recuerdo, porInvalidar, ultimaVez, reloj, cambiosHechos>>
  BY DEF Empezar
<1>2. /\ consulta' \in [Consultas -> Consulta]
      /\ \A o \in Consultas \ {q} : consulta'[o] = consulta[o]
      /\ consulta'[q].fase = "leer" /\ consulta'[q].en = i
      /\ consulta'[q].desde = reloj
  BY EmpezarEfecto
<1>3. reloj \in Nat
  BY EstadoTenantAssumption DEF TiposTenant, TenantTypeOK
<1>4. TiposTenant'
  BY <1>1, <1>2 DEF TiposTenant, TenantTypeOK
<1>5. Historia'
  BY <1>1 DEF Historia
<1>6. LeidoEntonces'
  BY <1>1, <1>2, <1>3 DEF LeidoEntonces
<1>7. LeidoFiel'
  BY <1>1, <1>2 DEF LeidoFiel
<1>8. RecuerdoFiel'
  BY <1>1 DEF RecuerdoFiel, Vale
<1> QED BY <1>4, <1>5, <1>6, <1>7, <1>8

\* What is read is true now.
LEMMA LeerPaso ==
  ASSUME TenantInv, NEW q \in Consultas, Leer(q)
  PROVE  TenantInv'
<1> USE DEF TenantInv
<1>1. UNCHANGED <<suspendido, recuerdo, porInvalidar, ultimaVez, reloj, cambiosHechos>>
  BY DEF Leer
<1>2. /\ consulta' \in [Consultas -> Consulta]
      /\ \A o \in Consultas \ {q} : consulta'[o] = consulta[o]
      /\ consulta[q].fase = "leer"
      /\ consulta'[q].fase = "guardar" /\ consulta'[q].en = consulta[q].en
      /\ consulta'[q].desde = consulta[q].desde
      /\ consulta'[q].leyo = suspendido
  BY LeerEfecto
<1>3. TiposTenant'
  BY <1>1, <1>2 DEF TiposTenant, TenantTypeOK
<1>4. Historia'
  BY <1>1 DEF Historia
<1>5. LeidoEntonces'
  <2>1. ultimaVez'[consulta'[q].leyo] = reloj
    BY <1>1, <1>2 DEF Historia
  <2>2. consulta[q].desde <= reloj
    BY <1>2 DEF LeidoEntonces
  <2> QED BY <1>1, <1>2, <2>1, <2>2 DEF LeidoEntonces
<1>6. LeidoFiel'
  BY <1>1, <1>2 DEF LeidoFiel
<1>7. RecuerdoFiel'
  BY <1>1 DEF RecuerdoFiel, Vale
<1> QED BY <1>3, <1>4, <1>5, <1>6, <1>7

\* What is stored was known of the query.
LEMMA GuardarPaso ==
  ASSUME TenantInv, NEW q \in Consultas, Guardar(q)
  PROVE  TenantInv'
<1> USE DEF TenantInv
<1>1. UNCHANGED <<suspendido, porInvalidar, ultimaVez, reloj, cambiosHechos>>
  BY DEF Guardar
<1> DEFINE i == consulta[q].en
<1>2. /\ consulta[q].fase = "guardar" /\ i \in Instancias
      /\ recuerdo' \in [Instancias -> Recuerdo]
      /\ \A j \in Instancias \ {i} : recuerdo'[j] = recuerdo[j]
      /\ recuerdo'[i].suspendido = consulta[q].leyo
      /\ recuerdo'[i].ajeno = consulta[q].ajeno
      /\ recuerdo'[i].vence = consulta[q].desde + Plazo
  BY GuardarEfecto
<1>3. /\ consulta' \in [Consultas -> Consulta]
      /\ \A o \in Consultas \ {q} : consulta'[o] = consulta[o]
      /\ consulta'[q].fase = "nada"
  BY TerminaEfecto DEF Guardar
<1>4. TiposTenant'
  BY <1>1, <1>2, <1>3 DEF TiposTenant, TenantTypeOK
<1>5. Historia'
  BY <1>1 DEF Historia
<1>6. LeidoEntonces'
  <2>1. /\ consulta[q].desde \in Nat /\ Plazo \in Nat
        /\ ultimaVez[consulta[q].leyo] \in Int
    BY EstadoTenantAssumption DEF TiposTenant, TenantTypeOK, Consulta
  <2>2. ultimaVez[consulta[q].leyo] >= consulta[q].desde
    BY <1>2 DEF LeidoEntonces
  <2>3. ultimaVez'[recuerdo'[i].suspendido] >= recuerdo'[i].vence - Plazo
    BY <1>1, <1>2, <2>1, <2>2
  <2>4. \A j \in Instancias :
          ultimaVez'[recuerdo'[j].suspendido] >= recuerdo'[j].vence - Plazo
    BY <1>1, <1>2, <2>3 DEF LeidoEntonces
  <2>5. \A o \in Consultas :
          /\ consulta'[o].fase # "nada" => consulta'[o].desde <= reloj'
          /\ consulta'[o].fase = "guardar" =>
               ultimaVez'[consulta'[o].leyo] >= consulta'[o].desde
    BY <1>1, <1>3 DEF LeidoEntonces
  <2> QED BY <2>4, <2>5 DEF LeidoEntonces
<1>7. LeidoFiel'
  BY <1>1, <1>3 DEF LeidoFiel
<1>8. RecuerdoFiel'
  <2>1. consulta[q].leyo = suspendido \/ consulta[q].ajeno \/ porInvalidar[i] > 0
    BY <1>2 DEF LeidoFiel
  <2>2. \/ recuerdo'[i].suspendido = suspendido'
        \/ recuerdo'[i].ajeno
        \/ porInvalidar'[i] > 0
    BY <1>1, <1>2, <2>1
  <2>3. ASSUME NEW j \in Instancias, Vale(j)', recuerdo'[j].suspendido # suspendido'
        PROVE  recuerdo'[j].ajeno \/ porInvalidar'[j] > 0
    <3>1. CASE j = i
      BY <2>2, <2>3, <3>1
    <3>2. CASE j # i
      BY <1>1, <1>2, <2>3, <3>2 DEF RecuerdoFiel, Vale
    <3> QED BY <3>1, <3>2
  <2> QED BY <2>3 DEF RecuerdoFiel
<1> QED BY <1>4, <1>5, <1>6, <1>7, <1>8

\* A read that fails stores nothing.
LEMMA FallarPaso ==
  ASSUME TenantInv, NEW q \in Consultas, FallarConsulta(q)
  PROVE  TenantInv'
<1> USE DEF TenantInv
<1>1. UNCHANGED <<suspendido, recuerdo, porInvalidar, ultimaVez, reloj, cambiosHechos>>
  BY DEF FallarConsulta
<1>2. /\ consulta' \in [Consultas -> Consulta]
      /\ \A o \in Consultas \ {q} : consulta'[o] = consulta[o]
      /\ consulta'[q].fase = "nada"
  BY TerminaEfecto DEF FallarConsulta
<1>3. TiposTenant'
  BY <1>1, <1>2 DEF TiposTenant, TenantTypeOK
<1>4. Historia'
  BY <1>1 DEF Historia
<1>5. LeidoEntonces'
  BY <1>1, <1>2 DEF LeidoEntonces
<1>6. LeidoFiel'
  BY <1>1, <1>2 DEF LeidoFiel
<1>7. RecuerdoFiel'
  BY <1>1 DEF RecuerdoFiel, Vale
<1> QED BY <1>3, <1>4, <1>5, <1>6, <1>7

\* After a change of replica i, i has a drop to do, and in the others it is an
\* exception.
LEMMA CambiarPaso ==
  ASSUME TenantInv, NEW i \in Instancias, Cambiar(i)
  PROVE  TenantInv'
<1> USE DEF TenantInv
<1>1. /\ MarcaConsultas(LeyeronEnOtra(i))
      /\ recuerdo' \in [Instancias -> Recuerdo]
      /\ \A j \in Instancias :
           /\ recuerdo'[j].suspendido = recuerdo[j].suspendido
           /\ recuerdo'[j].vence = recuerdo[j].vence
           /\ j # i => recuerdo'[j].ajeno
      /\ porInvalidar' \in [Instancias -> Nat]
      /\ porInvalidar'[i] > 0
      /\ suspendido' \in BOOLEAN /\ suspendido' # suspendido
      /\ ultimaVez' \in [BOOLEAN -> Int]
      /\ ultimaVez'[suspendido'] = reloj
      /\ ultimaVez'[suspendido] = ultimaVez[suspendido]
  BY CambiarEfecto
<1>2. reloj' = reloj /\ reloj \in 0 .. MaxReloj /\ cambiosHechos' \in 0 .. MaxCambios
  BY EstadoTenantAssumption DEF Cambiar, TiposTenant, TenantTypeOK
<1>3. TiposTenant'
  BY <1>1, <1>2 DEF TiposTenant, TenantTypeOK, MarcaConsultas
<1>4. \A b \in BOOLEAN : b = suspendido \/ b = suspendido'
  BY <1>1 DEF TiposTenant, TenantTypeOK
<1>5. \A b \in BOOLEAN : ultimaVez'[b] >= ultimaVez[b]
  <2>1. \A b \in BOOLEAN : ultimaVez[b] \in Int /\ ultimaVez[b] <= reloj
    BY DEF TiposTenant, TenantTypeOK, Historia
  <2>2. ASSUME NEW b \in BOOLEAN, b = suspendido PROVE ultimaVez'[b] = ultimaVez[b]
    BY <1>1, <2>2, Zenon
  <2>3. ASSUME NEW b \in BOOLEAN, b = suspendido' PROVE ultimaVez'[b] = reloj
    BY <1>1, <2>3, Zenon
  <2>4. \A b \in BOOLEAN : ultimaVez'[b] = ultimaVez[b] \/ ultimaVez'[b] = reloj
    BY <1>4, <2>2, <2>3, Zenon
  <2> QED BY <1>2, <2>1, <2>4
<1>6. Historia'
  <2>1. \A b \in BOOLEAN : ultimaVez'[b] = ultimaVez[b] \/ ultimaVez'[b] = reloj
    <3>1. ASSUME NEW b \in BOOLEAN, b = suspendido PROVE ultimaVez'[b] = ultimaVez[b]
      BY <1>1, <3>1, Zenon
    <3>2. ASSUME NEW b \in BOOLEAN, b = suspendido' PROVE ultimaVez'[b] = reloj
      BY <1>1, <3>2, Zenon
    <3> QED BY <1>4, <3>1, <3>2, Zenon
  <2>2. \A b \in BOOLEAN : -Plazo <= ultimaVez'[b] /\ ultimaVez'[b] <= reloj
    <3>1. /\ \A b \in BOOLEAN : -Plazo <= ultimaVez[b] /\ ultimaVez[b] <= reloj
          /\ reloj \in Nat /\ Plazo \in Nat
      BY <1>2, EstadoTenantAssumption DEF Historia
    <3> QED BY <2>1, <3>1
  <2> QED BY <1>1, <1>2, <2>2 DEF Historia
<1>7. LeidoEntonces'
  <2>1. \A b \in BOOLEAN : ultimaVez[b] \in Int /\ ultimaVez'[b] \in Int
    BY <1>1 DEF TiposTenant, TenantTypeOK
  <2>2. ASSUME NEW j \in Instancias
        PROVE  ultimaVez'[recuerdo'[j].suspendido] >= recuerdo'[j].vence - Plazo
    <3>1. /\ recuerdo[j].suspendido \in BOOLEAN
          /\ recuerdo[j].vence \in Int /\ Plazo \in Int
      BY EstadoTenantAssumption DEF TiposTenant, TenantTypeOK, Recuerdo
    <3>2. ultimaVez[recuerdo[j].suspendido] >= recuerdo[j].vence - Plazo
      BY DEF LeidoEntonces
    <3>3. ultimaVez'[recuerdo[j].suspendido] >= recuerdo[j].vence - Plazo
      BY <1>5, <2>1, <3>1, <3>2
    <3> QED BY <1>1, <3>3
  <2>3. ASSUME NEW q \in Consultas, consulta'[q].fase = "guardar"
        PROVE  ultimaVez'[consulta'[q].leyo] >= consulta'[q].desde
    <3>1. consulta[q].leyo \in BOOLEAN /\ consulta[q].desde \in Int
      BY DEF TiposTenant, TenantTypeOK, Consulta
    <3>2. /\ consulta[q].fase = "guardar"
          /\ consulta'[q].leyo = consulta[q].leyo
          /\ consulta'[q].desde = consulta[q].desde
      BY <1>1, <2>3 DEF MarcaConsultas
    <3>3. ultimaVez[consulta[q].leyo] >= consulta[q].desde
      BY <3>2 DEF LeidoEntonces
    <3>4. ultimaVez'[consulta[q].leyo] >= consulta[q].desde
      BY <1>5, <2>1, <3>1, <3>3
    <3> QED BY <3>2, <3>4
  <2>4. \A q \in Consultas : consulta'[q].fase # "nada" => consulta'[q].desde <= reloj'
    BY <1>1, <1>2 DEF MarcaConsultas, LeidoEntonces
  <2> QED BY <2>2, <2>3, <2>4 DEF LeidoEntonces
<1>8. LeidoFiel'
  <2>1. ASSUME NEW q \in Consultas, consulta'[q].fase = "guardar"
        PROVE  consulta'[q].ajeno \/ porInvalidar'[consulta'[q].en] > 0
    <3>1. consulta[q].fase = "guardar" /\ consulta'[q].en = consulta[q].en
      BY <1>1, <2>1 DEF MarcaConsultas
    <3>2. CASE consulta[q].en = i
      BY <1>1, <3>1, <3>2
    <3>3. CASE consulta[q].en # i
      BY <1>1, <3>1, <3>3 DEF MarcaConsultas, LeyeronEnOtra
    <3> QED BY <3>2, <3>3
  <2> QED BY <2>1 DEF LeidoFiel
<1>9. RecuerdoFiel'
  BY <1>1 DEF RecuerdoFiel
<1> QED BY <1>3, <1>6, <1>7, <1>8, <1>9

\* After its drop, replica i remembers nothing, and its queries that had read
\* are exceptions.
LEMMA InvalidarPaso ==
  ASSUME TenantInv, NEW i \in Instancias, Invalidar(i)
  PROVE  TenantInv'
<1> USE DEF TenantInv
<1>1. /\ MarcaConsultas(Leyeron(i))
      /\ recuerdo' \in [Instancias -> Recuerdo]
      /\ \A j \in Instancias \ {i} :
           /\ recuerdo'[j] = recuerdo[j]
           /\ porInvalidar'[j] = porInvalidar[j]
      /\ recuerdo'[i] = Olvido
      /\ porInvalidar' \in [Instancias -> Nat]
  BY InvalidarEfecto
<1>2. UNCHANGED <<suspendido, ultimaVez, reloj, cambiosHechos>>
  BY DEF Invalidar
<1>3. TiposTenant'
  BY <1>1, <1>2 DEF TiposTenant, TenantTypeOK, MarcaConsultas
<1>4. Historia'
  BY <1>2 DEF Historia
<1>5. LeidoEntonces'
  <2>1. ultimaVez[FALSE] >= 0 - Plazo
    <3>1. /\ \A b \in BOOLEAN : -Plazo <= ultimaVez[b] /\ ultimaVez[b] \in Int
          /\ Plazo \in Int
      BY EstadoTenantAssumption DEF Historia, TiposTenant, TenantTypeOK
    <3>2. -Plazo <= ultimaVez[FALSE] /\ ultimaVez[FALSE] \in Int
      BY <3>1, Zenon
    <3>3. \A x, p \in Int : -p <= x => x >= 0 - p
      OBVIOUS
    <3> QED BY <3>1, <3>2, <3>3, Zenon
  <2>2. Olvido.suspendido = FALSE /\ Olvido.vence = 0
    BY DEF Olvido
  <2>3. ultimaVez'[recuerdo'[i].suspendido] = ultimaVez[FALSE]
    BY <1>1, <1>2, <2>2, Zenon
  <2>4. ultimaVez'[recuerdo'[i].suspendido] >= recuerdo'[i].vence - Plazo
    BY <1>1, <2>1, <2>2, <2>3
  <2>5. \A j \in Instancias :
          ultimaVez'[recuerdo'[j].suspendido] >= recuerdo'[j].vence - Plazo
    BY <1>1, <1>2, <2>4 DEF LeidoEntonces
  <2>6. \A q \in Consultas :
          /\ consulta'[q].fase # "nada" => consulta'[q].desde <= reloj'
          /\ consulta'[q].fase = "guardar" =>
               ultimaVez'[consulta'[q].leyo] >= consulta'[q].desde
    BY <1>1, <1>2 DEF MarcaConsultas, LeidoEntonces
  <2> QED BY <2>5, <2>6 DEF LeidoEntonces
<1>6. LeidoFiel'
  <2>1. ASSUME NEW q \in Consultas, consulta'[q].fase = "guardar"
        PROVE  \/ consulta'[q].leyo = suspendido'
               \/ consulta'[q].ajeno
               \/ porInvalidar'[consulta'[q].en] > 0
    <3>1. /\ consulta[q].fase = "guardar" /\ consulta'[q].en = consulta[q].en
          /\ consulta'[q].leyo = consulta[q].leyo
          /\ consulta[q].ajeno => consulta'[q].ajeno
          /\ consulta[q].en \in Instancias
      BY <1>1, <2>1 DEF MarcaConsultas, TiposTenant
    <3>2. CASE consulta[q].en = i
      BY <1>1, <3>1, <3>2 DEF MarcaConsultas, Leyeron
    <3>3. CASE consulta[q].en # i
      BY <1>1, <1>2, <3>1, <3>3 DEF LeidoFiel
    <3> QED BY <3>2, <3>3
  <2> QED BY <2>1 DEF LeidoFiel
<1>7. RecuerdoFiel'
  <2>1. ASSUME NEW j \in Instancias, Vale(j)', recuerdo'[j].suspendido # suspendido'
        PROVE  recuerdo'[j].ajeno \/ porInvalidar'[j] > 0
    <3>1. CASE j = i
      BY <1>1, <1>2, <2>1, <3>1 DEF Vale, Olvido, TiposTenant, TenantTypeOK
    <3>2. CASE j # i
      BY <1>1, <1>2, <2>1, <3>2 DEF RecuerdoFiel, Vale
    <3> QED BY <3>1, <3>2
  <2> QED BY <2>1 DEF RecuerdoFiel
<1> QED BY <1>3, <1>4, <1>5, <1>6, <1>7

\* Time only takes away what is valid.
LEMMA RelojPaso ==
  ASSUME TenantInv, PasaUnMomento
  PROVE  TenantInv'
<1> USE DEF TenantInv
<1>1. /\ reloj' = reloj + 1 /\ reloj' \in 0 .. MaxReloj
      /\ ultimaVez' \in [BOOLEAN -> Int]
      /\ ultimaVez'[suspendido] = reloj'
      /\ \A b \in BOOLEAN : b # suspendido => ultimaVez'[b] = ultimaVez[b]
  BY RelojEfecto
<1>2. UNCHANGED <<suspendido, recuerdo, consulta, porInvalidar, cambiosHechos>>
  BY DEF PasaUnMomento
<1>3. TiposTenant'
  BY <1>1, <1>2 DEF TiposTenant, TenantTypeOK
<1>4. \A b \in BOOLEAN : ultimaVez'[b] = ultimaVez[b] \/ ultimaVez'[b] = reloj'
  BY <1>1, Zenon
<1>5. /\ \A b \in BOOLEAN : /\ ultimaVez[b] \in Int
                            /\ -Plazo <= ultimaVez[b] /\ ultimaVez[b] <= reloj
      /\ reloj \in Nat /\ Plazo \in Nat
  BY EstadoTenantAssumption DEF TiposTenant, TenantTypeOK, Historia
<1>6. \A b \in BOOLEAN :
        ultimaVez'[b] >= ultimaVez[b] /\ ultimaVez'[b] <= reloj'
  BY <1>1, <1>4, <1>5
<1>7. Historia'
  BY <1>1, <1>2, <1>4, <1>5, <1>6 DEF Historia
<1>8. LeidoEntonces'
  <2>1. ASSUME NEW j \in Instancias
        PROVE  ultimaVez'[recuerdo[j].suspendido] >= recuerdo[j].vence - Plazo
    <3>1. recuerdo[j].suspendido \in BOOLEAN /\ recuerdo[j].vence \in Int
      BY DEF TiposTenant, TenantTypeOK, Recuerdo
    <3>2. ultimaVez[recuerdo[j].suspendido] >= recuerdo[j].vence - Plazo
      BY DEF LeidoEntonces
    <3>3. /\ ultimaVez'[recuerdo[j].suspendido] >= ultimaVez[recuerdo[j].suspendido]
          /\ ultimaVez'[recuerdo[j].suspendido] \in Int
      BY <1>1, <1>6, <3>1
    <3> QED BY <1>5, <3>1, <3>2, <3>3
  <2>2. ASSUME NEW q \in Consultas, consulta[q].fase = "guardar"
        PROVE  ultimaVez'[consulta[q].leyo] >= consulta[q].desde
    <3>1. consulta[q].leyo \in BOOLEAN /\ consulta[q].desde \in Int
      BY DEF TiposTenant, TenantTypeOK, Consulta
    <3>2. ultimaVez[consulta[q].leyo] >= consulta[q].desde
      BY <2>2 DEF LeidoEntonces
    <3>3. /\ ultimaVez'[consulta[q].leyo] >= ultimaVez[consulta[q].leyo]
          /\ ultimaVez'[consulta[q].leyo] \in Int
      BY <1>1, <1>6, <3>1
    <3> QED BY <1>5, <3>1, <3>2, <3>3
  <2>3. ASSUME NEW q \in Consultas, consulta[q].fase # "nada"
        PROVE  consulta[q].desde <= reloj'
    <3>1. consulta[q].desde \in Int /\ consulta[q].desde <= reloj
      BY <2>3 DEF TiposTenant, TenantTypeOK, Consulta, LeidoEntonces
    <3> QED BY <1>1, <1>5, <3>1
  <2> QED BY <1>2, <2>1, <2>2, <2>3 DEF LeidoEntonces
<1>9. LeidoFiel'
  BY <1>2 DEF LeidoFiel
<1>10. RecuerdoFiel'
  <2>1. ASSUME NEW j \in Instancias, Vale(j)' PROVE Vale(j)
    <3>1. recuerdo[j].vence \in Int
      BY DEF TiposTenant, TenantTypeOK, Recuerdo
    <3> QED BY <1>1, <1>2, <1>5, <2>1, <3>1 DEF Vale
  <2> QED BY <1>2, <2>1 DEF RecuerdoFiel
<1> QED BY <1>3, <1>7, <1>8, <1>9, <1>10

-----------------------------------------------------------------------------
(* The theorems *)

\* Every step keeps the invariant.
LEMMA TenantPaso == TenantInv /\ [TenantNext]_tenantVars => TenantInv'
<1> SUFFICES ASSUME TenantInv, [TenantNext]_tenantVars PROVE TenantInv'
  OBVIOUS
<1>1. ASSUME NEW q \in Consultas, NEW i \in Instancias, Empezar(q, i)
      PROVE  TenantInv'
  BY <1>1, EmpezarPaso
<1>2. ASSUME NEW q \in Consultas, Leer(q) PROVE TenantInv'
  BY <1>2, LeerPaso
<1>3. ASSUME NEW q \in Consultas, Guardar(q) PROVE TenantInv'
  BY <1>3, GuardarPaso
<1>4. ASSUME NEW q \in Consultas, FallarConsulta(q) PROVE TenantInv'
  BY <1>4, FallarPaso
<1>5. ASSUME NEW i \in Instancias, Cambiar(i) PROVE TenantInv'
  BY <1>5, CambiarPaso
<1>6. ASSUME NEW i \in Instancias, Invalidar(i) PROVE TenantInv'
  BY <1>6, InvalidarPaso
<1>7. CASE PasaUnMomento
  BY <1>7, RelojPaso
<1>8. CASE UNCHANGED tenantVars
  BY <1>8 DEF tenantVars, TenantInv, TiposTenant, TenantTypeOK, Historia,
              LeidoEntonces, LeidoFiel, RecuerdoFiel, Vale
<1> QED
  BY <1>1, <1>2, <1>3, <1>4, <1>5, <1>6, <1>7, <1>8 DEF TenantNext

\* What was so after the beginning of a term that is not over, was so less than
\* a term ago.
LEMMA EntoncesReciente == TenantInv => RecuerdoReciente
<1> SUFFICES ASSUME TenantInv, NEW i \in Instancias, Vale(i)
             PROVE  ultimaVez[recuerdo[i].suspendido] > reloj - Plazo
  BY DEF RecuerdoReciente
<1>1. /\ recuerdo[i].vence \in Int /\ reloj \in Int /\ Plazo \in Int
      /\ ultimaVez[recuerdo[i].suspendido] \in Int
  BY EstadoTenantAssumption DEF TenantInv, TiposTenant, TenantTypeOK, Recuerdo
<1>2. ultimaVez[recuerdo[i].suspendido] >= recuerdo[i].vence - Plazo
  BY DEF TenantInv, LeidoEntonces
<1> QED BY <1>1, <1>2 DEF Vale

\* The invariant holds in every behaviour, whatever the term, the replicas and
\* the queries in progress.
THEOREM TenantSpecInv == TenantSpec => []TenantInv
<1> QED BY TenantInicio, TenantPaso, PTL DEF TenantSpec

\* What a replica answers from memory was true less than a term ago.
THEOREM RecuerdoSiempreReciente == TenantSpec => []RecuerdoReciente
<1> QED BY TenantSpecInv, EntoncesReciente, PTL

\* What a replica remembers is the truth, but for the exceptions that
\* RecuerdoFiel names: there is no other one.
THEOREM RecuerdoSiempreFiel == TenantSpec => []RecuerdoFiel
<1>1. TenantInv => RecuerdoFiel
  BY DEF TenantInv
<1> QED BY <1>1, TenantSpecInv, PTL

-----------------------------------------------------------------------------
(* Altas: the invariant *)

Ruts == {d.rut : d \in Datos} \cup {Ningun}

UnTenant ==
  [hay : BOOLEAN, rut : Ruts, completa : BOOLEAN, actividad : BOOLEAN,
   filas : SUBSET (Usuarios \X Nat)]

UnaIdentidad ==
  [hay : BOOLEAN, de : TenantIds \cup {Ningun}, roles : SUBSET (1 .. 3), id : Nat]

UnAlta ==
  [fase : {"datos", "usuario", "crear", "rol", "deshacer", "fila"}, d : Datos,
   t : TenantIds, n : 1 .. 3, id : Nat, idAdmin : Nat, creada : BOOLEAN]

UnAltaSinTenant ==
  [fase : {"buscar"}, d : Datos, t : {Ningun}, n : {1}, id : Nat, idAdmin : Nat,
   creada : BOOLEAN]

UnaBaja ==
  [fase : {"listar", "borrar"}, t : TenantIds, faltan : SUBSET (Usuarios \X Nat),
   fallo : BOOLEAN]

AltasTipos ==
  /\ tenant \in [TenantIds -> UnTenant]
  /\ identidad \in [Usuarios -> UnaIdentidad]
  /\ alta \in [Altas -> {SinAlta} \cup UnAltaSinTenant \cup UnAlta]
  /\ baja \in [Bajas -> {SinBaja} \cup UnaBaja]
  /\ \A x \in Altas : /\ Fase(x, "datos") => alta[x].n = 1
                      /\ Fase(x, "fila") => alta[x].n = 3
  /\ gastado \in [{"fallas", "pedidas", "bajas"} -> Nat]

\* At a tenant that is not in the history there is one request at most.
Solos ==
  \A t \in TenantIds \ solapados :
    /\ \A x, y \in Altas : Tenant(x) = t /\ Tenant(y) = t => x = y
    /\ \A e, f \in Bajas : baja[e].t = t /\ baja[f].t = t => e = f
    /\ \A x \in Altas, e \in Bajas : ~(Tenant(x) = t /\ baja[e].t = t)

\* An account that was found or created, and that may not be there any more.
EsOFue(u, id, t) ==
  id <= identidad[u].id /\ (EsLaCuenta(u, id) => identidad[u].de = t)

Tiene(t, u, rol) ==
  identidad[u].hay /\ identidad[u].de = t /\ rol \in identidad[u].roles

\* What a request that is the only one at its tenant has done.
HechoHastaAqui(x) ==
  LET t == Tenant(x)
      a == alta[x]
  IN  /\ tenant[t].hay /\ t \notin limpios
      /\ a.n > 1 => Tiene(t, a.d.admin, 1) /\ identidad[a.d.admin].id = a.idAdmin
      /\ a.n > 2 => Tiene(t, a.d.cocina, 2)
      /\ a.fase = "fila" => Tiene(t, t, 3)
      /\ a.fase = "deshacer" \/ (a.fase = "rol" /\ a.creada) =>
           (EsLaCuenta(Usuario(x), a.id) => identidad[Usuario(x)].roles = {})

AltaBien(x) ==
  /\ alta[x].fase \in {"rol", "deshacer"} => EsOFue(Usuario(x), alta[x].id, Tenant(x))
  /\ alta[x].fase \notin {"libre", "buscar", "datos"} /\ Tenant(x) \notin solapados =>
       HechoHastaAqui(x)

\* The accounts that a deletion, the only one at its tenant, has still to try.
BajaBien(e) ==
  /\ \A k \in baja[e].faltan : EsOFue(k[1], k[2], baja[e].t)
  /\ baja[e].fase # "libre" /\ baja[e].t \notin solapados =>
       /\ ~tenant[baja[e].t].hay /\ ~tenant[baja[e].t].completa
       /\ baja[e].fase = "borrar" /\ ~baja[e].fallo =>
            \A u \in CuentasDe(baja[e].t) : <<u, identidad[u].id>> \in baja[e].faltan

\* What the two properties say of a tenant.
TenantBien(t) ==
  t \notin solapados =>
    /\ tenant[t].completa =>
         /\ \E u \in Usuarios : Tiene(t, u, 1) /\ <<u, identidad[u].id>> \in tenant[t].filas
         /\ \E u \in Usuarios : Tiene(t, u, 2)
         /\ Tiene(t, t, 3)
    /\ t \in limpios => ~tenant[t].hay /\ CuentasDe(t) = {}

AltasInv ==
  /\ Solos
  /\ \A x \in Altas : AltaBien(x)
  /\ \A e \in Bajas : BajaBien(e)
  /\ \A t \in TenantIds : TenantBien(t)

-----------------------------------------------------------------------------
(* Altas: a step touches one tenant *)

LEMMA Sueltos ==
  /\ SinAlta.fase = "libre" /\ SinAlta.t = Ningun /\ SinAlta.n = 1
  /\ SinBaja.fase = "libre" /\ SinBaja.t = Ningun /\ SinBaja.faltan = {}
BY DEF SinAlta, SinBaja

\* A request that has its tenant.
LEMMA AltaTipo ==
  ASSUME AltasTipos, NEW x \in Altas, alta[x].fase \notin {"libre", "buscar"}
  PROVE  /\ alta[x] \in UnAlta /\ Tenant(x) \in TenantIds /\ Usuario(x) \in Usuarios
         /\ alta[x].d \in Datos /\ alta[x].n \in 1 .. 3 /\ alta[x].id \in Nat
         /\ alta[x].d.admin \in Usuarios /\ alta[x].d.cocina \in Usuarios
<1>1. alta[x] \in UnAlta
  BY Sueltos DEF AltasTipos, UnAltaSinTenant
<1>2. /\ alta[x].t \in TenantIds /\ alta[x].d \in Datos /\ alta[x].n \in 1 .. 3
      /\ alta[x].id \in Nat
  BY <1>1 DEF UnAlta
<1>3. alta[x].d.admin \in Usuarios /\ alta[x].d.cocina \in Usuarios /\ alta[x].t \in Usuarios
  BY <1>2 DEF Usuarios
<1>4. alta[x].n = 1 \/ alta[x].n = 2 \/ alta[x].n = 3
  BY <1>2
<1>5. Usuario(x) \in Usuarios
  BY <1>3, <1>4 DEF Usuario, Tenant
<1> QED BY <1>1, <1>2, <1>3, <1>5 DEF Tenant

LEMMA BajaTipo ==
  ASSUME AltasTipos, NEW e \in Bajas
  PROVE  /\ baja[e].fase # "libre" =>
              baja[e] \in UnaBaja /\ baja[e].t \in TenantIds
         /\ baja[e].fase = "libre" => baja[e] = SinBaja
         /\ baja[e].faltan \subseteq Usuarios \X Nat
BY Sueltos DEF AltasTipos, UnaBaja

LEMMA IdentidadTipo ==
  ASSUME AltasTipos, NEW u \in Usuarios
  PROVE  /\ identidad[u] \in UnaIdentidad /\ identidad[u].id \in Nat
         /\ identidad[u].roles \subseteq 1 .. 3 /\ identidad[u].hay \in BOOLEAN
BY DEF AltasTipos, UnaIdentidad

\* An account that is there with the same id is the one that was there.
IdentidadSigue ==
  \A u \in Usuarios :
    /\ identidad[u].id <= identidad'[u].id
    /\ identidad'[u].hay /\ identidad'[u].id = identidad[u].id =>
         identidad[u].hay /\ identidad'[u].de = identidad[u].de

\* Only the tenant t, and its accounts, change.
SoloDe(t) ==
  /\ \A s \in TenantIds \ {t} :
       /\ tenant'[s].hay = tenant[s].hay /\ tenant'[s].completa = tenant[s].completa
       /\ tenant'[s].filas = tenant[s].filas
       /\ s \in limpios' <=> s \in limpios
       /\ s \in solapados' <=> s \in solapados
  /\ \A u \in Usuarios :
       \/ identidad'[u] = identidad[u]
       \/ /\ identidad[u].hay => identidad[u].de = t
          /\ identidad'[u].hay => identidad'[u].de = t

LEMMA EsOFueSigue ==
  ASSUME AltasTipos, AltasTipos', IdentidadSigue, NEW u \in Usuarios, NEW id \in Nat,
         NEW t, EsOFue(u, id, t)
  PROVE  /\ id <= identidad'[u].id
         /\ identidad'[u].hay /\ identidad'[u].id = id =>
              EsLaCuenta(u, id) /\ identidad'[u].de = t
<1>1. identidad[u].id \in Nat /\ identidad'[u].id \in Nat
  BY DEF AltasTipos, UnaIdentidad
<1> QED BY <1>1 DEF IdentidadSigue, EsOFue, EsLaCuenta

\* A request that did not move, at another tenant or at one of the history.
LEMMA AltaQuieta ==
  ASSUME AltasTipos, AltasTipos', IdentidadSigue, NEW t, SoloDe(t),
         NEW x \in Altas, AltaBien(x), alta'[x] = alta[x],
         t \in TenantIds /\ Tenant(x) = t => t \in solapados'
  PROVE  AltaBien(x)'
<1>1. Usuario(x)' = Usuario(x) /\ Tenant(x)' = Tenant(x)
  BY DEF Usuario, Tenant
<1>2. CASE alta[x].fase \in {"libre", "buscar", "datos"}
  BY <1>2 DEF AltaBien
<1>3. CASE alta[x].fase \notin {"libre", "buscar", "datos"}
  <2> DEFINE u == Usuario(x)
             s == Tenant(x)
  <2>1. /\ s \in TenantIds /\ u \in Usuarios /\ alta[x].id \in Nat
        /\ alta[x].d.admin \in Usuarios /\ alta[x].d.cocina \in Usuarios /\ s \in Usuarios
    BY <1>3, AltaTipo DEF Usuarios
  <2>2. alta[x].fase \in {"rol", "deshacer"} => EsOFue(u, alta[x].id, s)
    BY DEF AltaBien
  <2>3. alta[x].fase \in {"rol", "deshacer"} =>
          /\ alta[x].id <= identidad'[u].id
          /\ identidad'[u].hay /\ identidad'[u].id = alta[x].id =>
               EsLaCuenta(u, alta[x].id) /\ identidad'[u].de = s
    <3> HIDE DEF u, s
    <3> QED BY <2>1, <2>2, EsOFueSigue
  <2>4. AltaBien(x)!1'
    BY <1>1, <2>3 DEF EsOFue, EsLaCuenta
  <2>5. ASSUME s \notin solapados' PROVE HechoHastaAqui(x)'
    <3>1. s # t /\ s \notin solapados
      BY <2>1, <2>5 DEF SoloDe
    <3>2. HechoHastaAqui(x)
      BY <1>3, <3>1 DEF AltaBien
    <3>3. tenant'[s].hay = tenant[s].hay /\ (s \in limpios' <=> s \in limpios)
      BY <2>1, <3>1 DEF SoloDe
    <3>4. \A v \in Usuarios, r \in 1 .. 3 :
            Tiene(s, v, r) => Tiene(s, v, r)' /\ identidad'[v].id = identidad[v].id
      BY <1>1, <3>1 DEF SoloDe, Tiene
    <3>5. identidad'[u].hay /\ identidad'[u].de = s => identidad'[u] = identidad[u]
      BY <2>1, <3>1 DEF SoloDe
    <3>6. alta[x].fase = "deshacer" \/ (alta[x].fase = "rol" /\ alta[x].creada) =>
            (identidad'[u].hay /\ identidad'[u].id = alta[x].id => identidad'[u].roles = {})
      BY <2>3, <3>2, <3>5 DEF HechoHastaAqui
    <3> QED BY <1>1, <2>1, <3>2, <3>3, <3>4, <3>6 DEF HechoHastaAqui, EsLaCuenta
  <2> QED BY <1>1, <2>4, <2>5 DEF AltaBien
<1> QED BY <1>2, <1>3

LEMMA BajaQuieta ==
  ASSUME AltasTipos, AltasTipos', IdentidadSigue, NEW t, SoloDe(t),
         NEW e \in Bajas, BajaBien(e), baja'[e] = baja[e],
         t \in TenantIds /\ baja[e].t = t => t \in solapados'
  PROVE  BajaBien(e)'
<1> DEFINE s == baja[e].t
<1>1. \A k \in baja[e].faltan : k[1] \in Usuarios /\ k[2] \in Nat
  BY BajaTipo
<1>2. \A k \in baja[e].faltan : EsOFue(k[1], k[2], s)'
  BY <1>1, EsOFueSigue DEF BajaBien, EsOFue, EsLaCuenta
<1>3. ASSUME baja[e].fase # "libre", s \notin solapados'
      PROVE  /\ ~tenant'[s].hay /\ ~tenant'[s].completa
             /\ baja[e].fase = "borrar" /\ ~baja[e].fallo =>
                  \A u \in CuentasDe(s)' : <<u, identidad'[u].id>> \in baja[e].faltan
  <2>1. s \in TenantIds /\ s # t
    BY <1>3, BajaTipo
  <2>2. s \notin solapados /\ tenant'[s].hay = tenant[s].hay
        /\ tenant'[s].completa = tenant[s].completa
    BY <1>3, <2>1 DEF SoloDe
  <2>3. \A u \in CuentasDe(s)' : u \in CuentasDe(s) /\ identidad'[u] = identidad[u]
    BY <2>1 DEF SoloDe, CuentasDe
  <2> QED BY <1>3, <2>2, <2>3 DEF BajaBien
<1> QED BY <1>2, <1>3 DEF BajaBien

\* A tenant that the step does not touch.
LEMMA TenantQuieto ==
  ASSUME NEW t, SoloDe(t), NEW s \in TenantIds \ {t}, TenantBien(s)
  PROVE  TenantBien(s)'
<1>1. /\ tenant'[s].hay = tenant[s].hay /\ tenant'[s].completa = tenant[s].completa
      /\ tenant'[s].filas = tenant[s].filas
      /\ s \in limpios' <=> s \in limpios
      /\ s \in solapados' <=> s \in solapados
  BY DEF SoloDe
<1>2. \A u \in Usuarios, r \in 1 .. 3 :
        Tiene(s, u, r) => Tiene(s, u, r)' /\ identidad'[u].id = identidad[u].id
  BY DEF SoloDe, Tiene
<1>3. s \in Usuarios
  BY DEF Usuarios
<1>4. CuentasDe(s)' \subseteq CuentasDe(s)
  BY DEF SoloDe, CuentasDe
<1>5. ASSUME s \notin solapados', tenant'[s].completa
      PROVE  /\ \E u \in Usuarios : Tiene(s, u, 1)' /\ <<u, identidad'[u].id>> \in tenant'[s].filas
             /\ \E u \in Usuarios : Tiene(s, u, 2)'
             /\ Tiene(s, s, 3)'
  <2>1. /\ \E u \in Usuarios : Tiene(s, u, 1) /\ <<u, identidad[u].id>> \in tenant[s].filas
        /\ \E u \in Usuarios : Tiene(s, u, 2)
        /\ Tiene(s, s, 3)
    BY <1>1, <1>5 DEF TenantBien
  <2> QED BY <1>1, <1>2, <1>3, <2>1
<1>6. ASSUME s \notin solapados', s \in limpios'
      PROVE  ~tenant'[s].hay /\ CuentasDe(s)' = {}
  BY <1>1, <1>4, <1>6 DEF TenantBien
<1> QED BY <1>5, <1>6 DEF TenantBien

\* What is left to show of a step.
LEMMA Marco ==
  ASSUME AltasTipos, AltasTipos', AltasInv, IdentidadSigue, Solos', NEW t, SoloDe(t),
         \A x \in Altas :
           \/ alta'[x] = alta[x] /\ (t \in TenantIds /\ Tenant(x) = t => t \in solapados')
           \/ AltaBien(x)',
         \A e \in Bajas :
           \/ baja'[e] = baja[e] /\ (t \in TenantIds /\ baja[e].t = t => t \in solapados')
           \/ BajaBien(e)',
         t \in TenantIds => TenantBien(t)'
  PROVE  AltasInv'
<1>1. \A x \in Altas : AltaBien(x)'
  BY AltaQuieta DEF AltasInv
<1>2. \A e \in Bajas : BajaBien(e)'
  BY BajaQuieta DEF AltasInv
<1>3. \A s \in TenantIds : TenantBien(s)'
  BY TenantQuieto DEF AltasInv
<1> QED BY <1>1, <1>2, <1>3 DEF AltasInv

\* The request x moves, at its tenant or away from it.
LEMMA AltaMueve ==
  ASSUME AltasTipos, AltasTipos', AltasInv, IdentidadSigue, NEW x \in Altas,
         NEW t \in TenantIds, Tenant(x) = t, SoloDe(t), UNCHANGED <<baja, solapados>>,
         NEW r, alta' = [alta EXCEPT ![x] = r], r.t \in {t, Ningun},
         AltaBien(x)', TenantBien(t)'
  PROVE  AltasInv'
<1>1. /\ alta'[x] = r
      /\ \A y \in Altas \ {x} : alta'[y] = alta[y]
  BY DEF AltasTipos
<1>2. \A y \in Altas : Tenant(y)' \in {Tenant(y), Ningun}
  BY <1>1 DEF Tenant
<1>3. Solos'
  BY <1>2, AltasAssumption DEF AltasInv, Solos
<1>4. \A y \in Altas \ {x} : Tenant(y) = t => t \in solapados'
  BY DEF AltasInv, Solos
<1>5. \A e \in Bajas : baja[e].t = t => t \in solapados'
  BY DEF AltasInv, Solos
<1> QED BY <1>1, <1>3, <1>4, <1>5, Marco

\* The deletion e moves.
LEMMA BajaMueve ==
  ASSUME AltasTipos, AltasTipos', AltasInv, IdentidadSigue, NEW e \in Bajas,
         NEW t \in TenantIds, baja[e].t = t, SoloDe(t), UNCHANGED <<alta, solapados>>,
         NEW r, baja' = [baja EXCEPT ![e] = r], r.t \in {t, Ningun},
         BajaBien(e)', TenantBien(t)'
  PROVE  AltasInv'
<1>1. /\ baja'[e] = r
      /\ \A f \in Bajas \ {e} : baja'[f] = baja[f]
  BY DEF AltasTipos
<1>2. \A f \in Bajas : baja'[f].t \in {baja[f].t, Ningun}
  BY <1>1
<1>3. Solos'
  BY <1>2, AltasAssumption DEF AltasInv, Solos, Tenant
<1>4. \A f \in Bajas \ {e} : baja[f].t = t => t \in solapados'
  BY DEF AltasInv, Solos
<1>5. \A x \in Altas : Tenant(x) = t => t \in solapados'
  BY DEF AltasInv, Solos
<1> QED BY <1>1, <1>3, <1>4, <1>5, Marco

\* Nothing in Keycloak changes.
LEMMA IdentidadQuieta ==
  ASSUME AltasTipos, UNCHANGED identidad
  PROVE  IdentidadSigue
<1>1. \A u \in Usuarios : identidad[u].id \in Nat
  BY IdentidadTipo
<1> QED BY <1>1 DEF IdentidadSigue

\* One account changes: it is created, has one more role, or is deleted.
LEMMA IdentidadCambia ==
  ASSUME AltasTipos, NEW u \in Usuarios, NEW k \in UnaIdentidad, NEW t,
         identidad' = [identidad EXCEPT ![u] = k],
         identidad[u].hay => identidad[u].de = t, k.hay => k.de = t,
         \/ k.id = identidad[u].id + 1
         \/ k.id = identidad[u].id /\ (k.hay => identidad[u].hay)
  PROVE  /\ identidad' \in [Usuarios -> UnaIdentidad]
         /\ identidad'[u] = k /\ \A v \in Usuarios \ {u} : identidad'[v] = identidad[v]
         /\ IdentidadSigue
         /\ \A v \in Usuarios :
              \/ identidad'[v] = identidad[v]
              \/ /\ identidad[v].hay => identidad[v].de = t
                 /\ identidad'[v].hay => identidad'[v].de = t
<1>1. identidad'[u] = k /\ \A v \in Usuarios \ {u} : identidad'[v] = identidad[v]
  BY DEF AltasTipos
<1>2. \A v \in Usuarios : identidad[v].id \in Nat
  BY IdentidadTipo
<1>3. identidad' \in [Usuarios -> UnaIdentidad]
  BY DEF AltasTipos
<1>4. IdentidadSigue
  BY <1>1, <1>2 DEF IdentidadSigue
<1> QED BY <1>1, <1>3, <1>4

\* The types of what a step writes.
LEMMA AltaCambiaTipo ==
  ASSUME AltasTipos, NEW x \in Altas, NEW r \in {SinAlta} \cup UnAltaSinTenant \cup UnAlta,
         r.fase = "datos" => r.n = 1, r.fase = "fila" => r.n = 3,
         AltaCambia(x, r)
  PROVE  /\ alta' \in [Altas -> {SinAlta} \cup UnAltaSinTenant \cup UnAlta]
         /\ alta'[x] = r
         /\ \A y \in Altas : /\ alta'[y].fase = "datos" => alta'[y].n = 1
                             /\ alta'[y].fase = "fila" => alta'[y].n = 3
BY DEF AltasTipos, AltaCambia, Fase

LEMMA GastaTipo ==
  ASSUME AltasTipos, NEW que \in {"fallas", "pedidas", "bajas"}, NEW maximo,
         Gasta(que, maximo)
  PROVE  gastado' \in [{"fallas", "pedidas", "bajas"} -> Nat]
BY DEF AltasTipos, Gasta

LEMMA AltasInicio == AltasInit => AltasTipos /\ AltasInv
<1> SUFFICES ASSUME AltasInit PROVE AltasTipos /\ AltasInv
  OBVIOUS
<1>1. SinTenant \in UnTenant /\ ~SinTenant.hay /\ ~SinTenant.completa
  BY DEF SinTenant, UnTenant, Ruts
<1>2. SinIdentidad(0) \in UnaIdentidad /\ ~SinIdentidad(0).hay
  BY DEF SinIdentidad, UnaIdentidad
<1>3. AltasTipos
  BY <1>1, <1>2, Sueltos DEF AltasInit, AltasTipos, Fase
<1>4. /\ \A x \in Altas : alta[x].fase = "libre" /\ Tenant(x) = Ningun
      /\ \A e \in Bajas : baja[e].fase = "libre" /\ baja[e].t = Ningun /\ baja[e].faltan = {}
  BY Sueltos DEF AltasInit, Tenant
<1>5. Solos
  BY <1>4, AltasAssumption DEF Solos
<1>6. \A x \in Altas : AltaBien(x)
  BY <1>4 DEF AltaBien
<1>7. \A e \in Bajas : BajaBien(e)
  BY <1>4 DEF BajaBien
<1>8. \A t \in TenantIds : TenantBien(t)
  BY <1>1 DEF AltasInit, TenantBien
<1> QED BY <1>3, <1>5, <1>6, <1>7, <1>8 DEF AltasInv

-----------------------------------------------------------------------------
(* Altas: the steps of setting up *)

LEMMA AcabaHace ==
  ASSUME AltasTipos, NEW x \in Altas, AltaAcaba(x)
  PROVE  /\ alta' \in [Altas -> {SinAlta} \cup UnAltaSinTenant \cup UnAlta]
         /\ \A y \in Altas : /\ alta'[y].fase = "datos" => alta'[y].n = 1
                             /\ alta'[y].fase = "fila" => alta'[y].n = 3
         /\ alta' = [alta EXCEPT ![x] = SinAlta] /\ SinAlta.t = Ningun
         /\ AltaBien(x)'
<1>1. SinAlta.fase = "libre" /\ SinAlta.t = Ningun
  BY Sueltos
<1>2. AltaCambia(x, SinAlta)
  BY DEF AltaAcaba
<1>3. alta'[x] = SinAlta
  BY <1>2, AltasTipos DEF AltaCambia, AltasTipos
<1>4. AltaBien(x)'
  BY <1>1, <1>3 DEF AltaBien
<1> QED BY <1>1, <1>2, <1>4, AltaCambiaTipo DEF AltaCambia

\* A request that has its tenant, and what it writes of itself.
LEMMA AltaEscribe ==
  ASSUME AltasTipos, NEW x \in Altas, NEW r \in UnAlta, AltaCambia(x, r),
         r.fase = "datos" => r.n = 1, r.fase = "fila" => r.n = 3
  PROVE  /\ alta' \in [Altas -> {SinAlta} \cup UnAltaSinTenant \cup UnAlta]
         /\ \A y \in Altas : /\ alta'[y].fase = "datos" => alta'[y].n = 1
                             /\ alta'[y].fase = "fila" => alta'[y].n = 3
         /\ alta' = [alta EXCEPT ![x] = r] /\ alta'[x] = r
BY AltaCambiaTipo DEF AltaCambia

\* Only requests move.
LEMMA SinCambiosSoloDe ==
  ASSUME AltasTipos, UNCHANGED <<tenant, identidad, limpios, solapados>>, NEW t
  PROVE  SoloDe(t) /\ IdentidadSigue
BY IdentidadQuieta DEF SoloDe

\* A tenant of which nothing changes.
LEMMA TenantIgual ==
  ASSUME NEW t \in TenantIds, TenantBien(t), UNCHANGED <<tenant, identidad, limpios>>,
         t \in solapados => t \in solapados'
  PROVE  TenantBien(t)'
BY DEF TenantBien, Tiene, CuentasDe

LEMMA AsegurarDatosBien ==
  ASSUME AltasTipos, AltasInv, NEW x \in Altas, AsegurarDatos(x)
  PROVE  AltasTipos' /\ AltasInv'
<1>0. Tenant(x) \in TenantIds /\ alta[x] \in UnAlta /\ alta[x].n = 1 /\ alta[x].d \in Datos
  BY AltaTipo DEF AsegurarDatos, Fase, AltasTipos
<1>1. PICK t \in TenantIds : Tenant(x) = t
  BY <1>0
<1>2. UNCHANGED <<identidad, baja, quiere, solapados, gastado>>
  BY DEF AsegurarDatos
<1>3. TenantBien(t)
  BY <1>1 DEF AltasInv
<1>4. IdentidadSigue
  BY <1>2, IdentidadQuieta
<1>5. CASE AltaAcaba(x) /\ UNCHANGED <<tenant, limpios>>
  <2>1. AltasTipos'
    BY <1>2, <1>5, AcabaHace DEF AltasTipos, Fase
  <2>2. SoloDe(t) /\ TenantBien(t)'
    BY <1>1, <1>2, <1>3, <1>5, SinCambiosSoloDe, TenantIgual
  <2> QED BY <1>1, <1>2, <1>4, <1>5, <2>1, <2>2, AcabaHace, AltaMueve
<1>6. CASE /\ tenant' = [tenant EXCEPT ![t].hay = TRUE, ![t].rut = alta[x].d.rut]
           /\ limpios' = limpios \ {t}
           /\ AltaPasa(x, "usuario")
  <2> DEFINE r == [alta[x] EXCEPT !.fase = "usuario"]
  <2>1. r \in UnAlta /\ r.fase = "usuario" /\ r.n = 1 /\ r.t = t
    BY <1>0, <1>1 DEF UnAlta, Tenant
  <2>2. AltaCambia(x, r)
    BY <1>6 DEF AltaPasa
  <2> HIDE DEF r
  <2>3. /\ alta' \in [Altas -> {SinAlta} \cup UnAltaSinTenant \cup UnAlta]
        /\ \A y \in Altas : /\ alta'[y].fase = "datos" => alta'[y].n = 1
                            /\ alta'[y].fase = "fila" => alta'[y].n = 3
        /\ alta' = [alta EXCEPT ![x] = r] /\ alta'[x] = r
    BY <2>1, <2>2, AltaEscribe
  <2>4. tenant[t] \in UnTenant /\ alta[x].d.rut \in Ruts
    BY <1>0 DEF AltasTipos, Ruts
  <2>5. /\ tenant' \in [TenantIds -> UnTenant]
        /\ tenant'[t].hay /\ tenant'[t].completa = tenant[t].completa
        /\ tenant'[t].filas = tenant[t].filas
        /\ \A s \in TenantIds \ {t} : tenant'[s] = tenant[s]
    <3> DEFINE nt == [tenant[t] EXCEPT !.hay = TRUE, !.rut = alta[x].d.rut]
    <3>1. /\ nt \in UnTenant /\ nt.hay /\ nt.completa = tenant[t].completa
          /\ nt.filas = tenant[t].filas
      BY <2>4 DEF UnTenant
    <3>2. tenant' = [tenant EXCEPT ![t] = nt]
      BY <1>1, <1>6 DEF AltasTipos
    <3> HIDE DEF nt
    <3> QED BY <1>1, <3>1, <3>2 DEF AltasTipos
  <2>6. AltasTipos'
    BY <1>2, <2>3, <2>5 DEF AltasTipos, Fase
  <2>7. SoloDe(t)
    BY <1>2, <1>6, <2>5 DEF SoloDe
  <2>8. AltaBien(x)'
    BY <1>1, <1>6, <2>1, <2>3, <2>5 DEF AltaBien, HechoHastaAqui, Tenant
  <2>9. TenantBien(t)'
    BY <1>2, <1>3, <1>6, <2>5 DEF TenantBien, Tiene
  <2> QED BY <1>1, <1>2, <1>4, <2>1, <2>3, <2>6, <2>7, <2>8, <2>9, AltaMueve
<1> QED BY <1>1, <1>5, <1>6 DEF AsegurarDatos

\* A request that only moves.
LEMMA SoloSeMueve ==
  ASSUME AltasTipos, AltasInv, NEW x \in Altas, NEW t \in TenantIds, Tenant(x) = t,
         UNCHANGED <<tenant, identidad, baja, solapados, limpios>>,
         gastado' \in [{"fallas", "pedidas", "bajas"} -> Nat],
         AltaAcaba(x) \/ \E r \in UnAlta : /\ AltaCambia(x, r) /\ r.t = t
                                           /\ r.fase = "datos" => r.n = 1
                                           /\ r.fase = "fila" => r.n = 3
                                           /\ AltaBien(x)'
  PROVE  AltasTipos' /\ AltasInv'
<1>1. SoloDe(t) /\ IdentidadSigue
  BY SinCambiosSoloDe
<1>2. TenantBien(t)'
  BY TenantIgual DEF AltasInv
<1>3. CASE AltaAcaba(x)
  <2>1. AltasTipos'
    BY <1>3, AcabaHace DEF AltasTipos, Fase
  <2> QED BY <1>1, <1>2, <1>3, <2>1, AcabaHace, AltaMueve
<1>4. ASSUME NEW r \in UnAlta, AltaCambia(x, r), r.t = t, r.fase = "datos" => r.n = 1,
             r.fase = "fila" => r.n = 3, AltaBien(x)'
      PROVE  AltasTipos' /\ AltasInv'
  <2>1. AltasTipos'
    BY <1>4, AltaEscribe DEF AltasTipos, Fase
  <2> QED BY <1>1, <1>2, <1>4, <2>1, AltaEscribe, AltaMueve
<1> QED BY <1>3, <1>4

LEMMA BuscarUsuarioBien ==
  ASSUME AltasTipos, AltasInv, NEW x \in Altas, BuscarUsuario(x)
  PROVE  AltasTipos' /\ AltasInv'
<1>1. /\ alta[x] \in UnAlta /\ alta[x].fase = "usuario" /\ Usuario(x) \in Usuarios
      /\ Tenant(x) \in TenantIds
  BY AltaTipo DEF BuscarUsuario, Fase
<1>2. PICK t \in TenantIds : Tenant(x) = t
  BY <1>1
<1>3. UNCHANGED <<tenant, identidad, baja, solapados, limpios, gastado>>
  BY DEF BuscarUsuario
<1>4. gastado' \in [{"fallas", "pedidas", "bajas"} -> Nat]
  BY <1>3 DEF AltasTipos
<1>5. AltaBien(x)
  BY DEF AltasInv
<1> DEFINE k == identidad[Usuario(x)]
           r1 == [alta[x] EXCEPT !.fase = "crear"]
           r2 == [alta[x] EXCEPT !.fase = "rol", !.id = k.id, !.creada = FALSE]
<1>6. k.id \in Nat
  BY <1>1, IdentidadTipo
<1>7. /\ r1 \in UnAlta /\ r1.fase = "crear" /\ r1.t = t /\ r1.d = alta[x].d /\ r1.n = alta[x].n
      /\ r1.idAdmin = alta[x].idAdmin
  BY <1>1, <1>2 DEF UnAlta, Tenant
<1>8. /\ r2 \in UnAlta /\ r2.fase = "rol" /\ r2.t = t /\ r2.d = alta[x].d /\ r2.n = alta[x].n
      /\ r2.idAdmin = alta[x].idAdmin /\ r2.id = k.id /\ ~r2.creada
  BY <1>1, <1>2, <1>6 DEF UnAlta, Tenant
<1>9. \/ AltaAcaba(x)
      \/ AltaCambia(x, r1)
      \/ k.de = t /\ AltaCambia(x, r2)
  BY <1>2 DEF BuscarUsuario, AltaPasa, NoEsSuya, Rechaza
<1> HIDE DEF r1, r2
<1>10. t \notin solapados => HechoHastaAqui(x)
  BY <1>1, <1>2, <1>5 DEF AltaBien
<1>11. ASSUME AltaCambia(x, r1) PROVE AltaBien(x)'
  <2>1. alta'[x] = r1
    BY <1>11, <1>7, AltaEscribe
  <2>2. t \notin solapados => HechoHastaAqui(x)'
    BY <1>2, <1>3, <1>7, <1>10, <2>1 DEF HechoHastaAqui, Tiene, Tenant
  <2> QED BY <1>3, <1>7, <2>1, <2>2 DEF AltaBien, Tenant
<1>12. ASSUME k.de = t, AltaCambia(x, r2) PROVE AltaBien(x)'
  <2>1. alta'[x] = r2
    BY <1>12, <1>8, AltaEscribe
  <2>2. Usuario(x)' = Usuario(x) /\ Tenant(x)' = t
    BY <1>2, <1>8, <2>1 DEF Usuario, Tenant
  <2>3. t \notin solapados => HechoHastaAqui(x)'
    BY <1>2, <1>3, <1>8, <1>10, <2>1 DEF HechoHastaAqui, Tiene, Tenant
  <2>4. EsOFue(Usuario(x), k.id, t) /\ alta'[x].id = k.id /\ alta'[x].fase = "rol"
    BY <1>6, <1>8, <1>12, <2>1 DEF EsOFue, EsLaCuenta
  <2>5. EsOFue(Usuario(x), alta[x].id, Tenant(x))'
    BY <1>3, <2>2, <2>4 DEF EsOFue, EsLaCuenta
  <2> QED BY <1>3, <2>2, <2>3, <2>4, <2>5 DEF AltaBien
<1> QED BY <1>2, <1>3, <1>4, <1>7, <1>8, <1>9, <1>11, <1>12, SoloSeMueve

\* One that fails, or is refused.
LEMMA FallarAltaBien ==
  ASSUME AltasTipos, AltasInv, NEW x \in Altas, FallarAlta(x)
  PROVE  AltasTipos' /\ AltasInv'
<1>1. gastado' \in [{"fallas", "pedidas", "bajas"} -> Nat]
  BY GastaTipo DEF FallarAlta, UnaFallaAlta
<1>2. UNCHANGED <<tenant, identidad, baja, solapados, limpios>> /\ AltaAcaba(x)
  BY DEF FallarAlta
<1>3. AltasTipos'
  BY <1>1, <1>2, AcabaHace DEF AltasTipos, Fase
<1>4. SoloDe(SinTenant) /\ IdentidadSigue
  BY <1>2, SinCambiosSoloDe
<1>5. CASE Tenant(x) \in TenantIds
  BY <1>1, <1>2, <1>5, SoloSeMueve
<1>6. CASE Tenant(x) \notin TenantIds
  <2>1. \A y \in Altas : Tenant(y)' = Tenant(y) \/ Tenant(y)' = Ningun
    BY <1>2, AcabaHace DEF Tenant, AltasTipos
  <2>2. Solos'
    BY <1>2, <2>1, AltasAssumption DEF AltasInv, Solos
  <2>3. \A y \in Altas \ {x} : alta'[y] = alta[y]
    BY <1>2, AcabaHace DEF AltasTipos
  <2>4. \A s \in TenantIds : TenantBien(s)'
    BY <1>2, TenantIgual DEF AltasInv
  <2>5. /\ \A y \in Altas : alta'[y] = alta[y] \/ AltaBien(y)'
        /\ \A e \in Bajas : baja'[e] = baja[e]
    BY <1>2, <2>3, AcabaHace
  <2>6. PICK t : t \notin TenantIds
    BY AltasAssumption
  <2>7. SoloDe(t)
    BY <1>2, SinCambiosSoloDe
  <2> QED BY <1>3, <1>4, <2>2, <2>5, <2>6, <2>7, Marco
<1> QED BY <1>5, <1>6

\* The same after the step, of accounts that do not depend on it.
Tendra(t, u, rol) ==
  identidad'[u].hay /\ identidad'[u].de = t /\ rol \in identidad'[u].roles

LEMMA TieneDespues ==
  ASSUME NEW t, NEW u, NEW rol
  PROVE  Tiene(t, u, rol)' <=> Tendra(t, u, rol)
BY DEF Tiene, Tendra

\* What the request x has done, after the step.
LEMMA HechoDespues ==
  ASSUME NEW x \in Altas, NEW t, NEW d, NEW u, alta'[x].t = t, alta'[x].d = d,
         Usuario(x)' = u, tenant'[t].hay, t \notin limpios',
         alta'[x].n > 1 => Tendra(t, d.admin, 1) /\ identidad'[d.admin].id = alta'[x].idAdmin,
         alta'[x].n > 2 => Tendra(t, d.cocina, 2),
         alta'[x].fase = "fila" => Tendra(t, t, 3),
         alta'[x].fase = "deshacer" \/ (alta'[x].fase = "rol" /\ alta'[x].creada) =>
           (identidad'[u].hay /\ identidad'[u].id = alta'[x].id => identidad'[u].roles = {})
  PROVE  HechoHastaAqui(x)'
BY DEF HechoHastaAqui, Tendra, Tiene, Tenant, EsLaCuenta

\* What it had done before.
LEMMA HechoAntes ==
  ASSUME NEW x \in Altas, NEW t, NEW d, NEW u, Tenant(x) = t, alta[x].d = d,
         Usuario(x) = u, HechoHastaAqui(x)
  PROVE  /\ tenant[t].hay /\ t \notin limpios
         /\ alta[x].n > 1 => Tiene(t, d.admin, 1) /\ identidad[d.admin].id = alta[x].idAdmin
         /\ alta[x].n > 2 => Tiene(t, d.cocina, 2)
         /\ alta[x].fase = "fila" => Tiene(t, t, 3)
         /\ alta[x].fase = "deshacer" \/ (alta[x].fase = "rol" /\ alta[x].creada) =>
              (EsLaCuenta(u, alta[x].id) => identidad[u].roles = {})
BY DEF HechoHastaAqui, Tenant

\* A tenant whose accounts keep what they have, and that was not deleted.
LEMMA TenantConserva ==
  ASSUME NEW t \in TenantIds, TenantBien(t), UNCHANGED <<tenant, limpios, solapados>>,
         t \notin solapados => t \notin limpios,
         t \notin solapados => \A v \in Usuarios, rol \in 1 .. 3 :
           Tiene(t, v, rol) => Tendra(t, v, rol) /\ identidad'[v].id = identidad[v].id
  PROVE  TenantBien(t)'
<1> SUFFICES ASSUME t \notin solapados PROVE TenantBien(t)'
  BY DEF TenantBien
<1>1. t \in Usuarios
  BY DEF Usuarios
<1>2. tenant[t].completa =>
        /\ \E v \in Usuarios : Tiene(t, v, 1) /\ <<v, identidad[v].id>> \in tenant[t].filas
        /\ \E v \in Usuarios : Tiene(t, v, 2)
        /\ Tiene(t, t, 3)
  BY DEF TenantBien
<1>3. tenant[t].completa =>
        /\ \E v \in Usuarios : Tendra(t, v, 1) /\ <<v, identidad'[v].id>> \in tenant[t].filas
        /\ \E v \in Usuarios : Tendra(t, v, 2)
        /\ Tendra(t, t, 3)
  <2>1. 1 \in 1 .. 3 /\ 2 \in 1 .. 3 /\ 3 \in 1 .. 3
    OBVIOUS
  <2>2. \A v \in Usuarios :
          /\ Tiene(t, v, 1) => Tendra(t, v, 1) /\ identidad'[v].id = identidad[v].id
          /\ Tiene(t, v, 2) => Tendra(t, v, 2)
          /\ Tiene(t, v, 3) => Tendra(t, v, 3)
    BY <2>1
  <2> QED BY <1>1, <1>2, <2>2
<1> QED BY <1>3 DEF TenantBien, Tendra, Tiene

\* An account of which there was none: it is of the tenant, and has no role.
LEMMA CrearUsuarioBien ==
  ASSUME AltasTipos, AltasInv, NEW x \in Altas, CrearUsuario(x)
  PROVE  AltasTipos' /\ AltasInv'
<1>1. /\ alta[x] \in UnAlta /\ alta[x].fase = "crear" /\ Usuario(x) \in Usuarios
      /\ Tenant(x) \in TenantIds /\ alta[x].d \in Datos
  BY AltaTipo DEF CrearUsuario, Fase
<1>2. PICK t \in TenantIds, u \in Usuarios, d \in Datos :
        Tenant(x) = t /\ Usuario(x) = u /\ alta[x].d = d
  BY <1>1
<1>3. d.admin \in Usuarios /\ d.cocina \in Usuarios
  BY DEF Usuarios
<1>4. UNCHANGED <<tenant, baja, solapados, limpios>>
  BY DEF CrearUsuario
<1>5. gastado' \in [{"fallas", "pedidas", "bajas"} -> Nat]
  BY GastaTipo DEF CrearUsuario, UnaFallaAlta, AltasTipos
<1>6. CASE identidad[u].hay
  BY <1>2, <1>4, <1>5, <1>6, SoloSeMueve DEF CrearUsuario, Rechaza
<1>7. CASE ~identidad[u].hay
  <2>1. PICK k \in UnaIdentidad :
          /\ k.hay /\ k.de = t /\ k.roles = {} /\ k.id = identidad[u].id + 1 /\ k.id \in Nat
          /\ k = IdentidadNueva(x)
    <3> DEFINE k == [hay |-> TRUE, de |-> t, roles |-> {}, id |-> identidad[u].id + 1]
    <3>1. identidad[u].id \in Nat
      BY IdentidadTipo
    <3>2. /\ k \in UnaIdentidad /\ k.hay /\ k.de = t /\ k.roles = {}
          /\ k.id = identidad[u].id + 1 /\ k.id \in Nat
      BY <3>1 DEF UnaIdentidad
    <3>3. k = IdentidadNueva(x)
      BY <1>2 DEF IdentidadNueva
    <3> HIDE DEF k
    <3> QED BY <3>2, <3>3
  <2>2. PICK r \in UnAlta :
          /\ r.fase = "rol" /\ r.t = t /\ r.d = d /\ r.n = alta[x].n
          /\ r.idAdmin = alta[x].idAdmin /\ r.id = k.id
          /\ AltaCambia(x, r) \/ AltaAcaba(x)
    <3> DEFINE r == [alta[x] EXCEPT !.fase = "rol", !.id = k.id, !.creada = TRUE]
    <3>1. r \in UnAlta /\ r.fase = "rol" /\ r.t = t /\ r.d = d /\ r.n = alta[x].n
          /\ r.idAdmin = alta[x].idAdmin /\ r.id = k.id
      BY <1>1, <1>2, <2>1 DEF UnAlta, Tenant
    <3>2. AltaCambia(x, r) \/ AltaAcaba(x)
      BY <1>2, <1>7, <2>1 DEF CrearUsuario
    <3> HIDE DEF r
    <3> QED BY <3>1, <3>2
  <2>3. identidad' = [identidad EXCEPT ![u] = k]
    BY <1>2, <1>7, <2>1 DEF CrearUsuario
  <2>4. /\ identidad' \in [Usuarios -> UnaIdentidad] /\ identidad'[u] = k
        /\ \A v \in Usuarios \ {u} : identidad'[v] = identidad[v]
        /\ IdentidadSigue
        /\ \A v \in Usuarios :
             \/ identidad'[v] = identidad[v]
             \/ /\ identidad[v].hay => identidad[v].de = t
                /\ identidad'[v].hay => identidad'[v].de = t
    BY <1>7, <2>1, <2>3, IdentidadCambia
  <2>5. SoloDe(t)
    BY <1>4, <2>4 DEF SoloDe
  <2>6. \A v \in Usuarios, rol \in 1 .. 3 :
          Tiene(t, v, rol) => Tendra(t, v, rol) /\ identidad'[v].id = identidad[v].id
    BY <1>7, <2>4 DEF Tiene, Tendra
  <2>7. t \notin solapados => HechoHastaAqui(x)
    BY <1>1, <1>2 DEF AltasInv, AltaBien
  <2>8. t \notin solapados => t \notin limpios
    BY <1>2, <2>7, HechoAntes
  <2>9. TenantBien(t)'
    BY <1>4, <2>6, <2>8, TenantConserva DEF AltasInv
  <2>10. CASE AltaAcaba(x)
    <3>1. AltasTipos'
      BY <1>4, <1>5, <2>4, <2>10, AcabaHace DEF AltasTipos, Fase
    <3> QED BY <1>2, <1>4, <2>4, <2>5, <2>9, <2>10, <3>1, AcabaHace, AltaMueve
  <2>11. CASE AltaCambia(x, r)
    <3>1. /\ alta' \in [Altas -> {SinAlta} \cup UnAltaSinTenant \cup UnAlta]
          /\ \A y \in Altas : /\ alta'[y].fase = "datos" => alta'[y].n = 1
                              /\ alta'[y].fase = "fila" => alta'[y].n = 3
          /\ alta' = [alta EXCEPT ![x] = r] /\ alta'[x] = r
      BY <2>2, <2>11, AltaEscribe
    <3>2. AltasTipos'
      BY <1>4, <1>5, <2>4, <3>1 DEF AltasTipos, Fase
    <3>3. Usuario(x)' = u /\ Tenant(x)' = t
      BY <1>2, <2>2, <3>1 DEF Usuario, Tenant
    <3>4. ASSUME t \notin solapados PROVE HechoHastaAqui(x)'
      <4>1. /\ tenant[t].hay /\ t \notin limpios
            /\ r.n > 1 => Tiene(t, d.admin, 1) /\ identidad[d.admin].id = r.idAdmin
            /\ r.n > 2 => Tiene(t, d.cocina, 2)
        BY <1>2, <2>2, <2>7, <3>4, HechoAntes
      <4>2. /\ r.n > 1 => Tendra(t, d.admin, 1) /\ identidad'[d.admin].id = r.idAdmin
            /\ r.n > 2 => Tendra(t, d.cocina, 2)
        BY <1>3, <2>6, <4>1
      <4> QED BY <1>4, <2>1, <2>2, <2>4, <3>1, <3>3, <4>1, <4>2, HechoDespues
    <3>5. EsOFue(Usuario(x), alta[x].id, Tenant(x))'
      BY <2>1, <2>2, <2>4, <3>1, <3>3 DEF EsOFue, EsLaCuenta
    <3>6. AltaBien(x)'
      BY <1>4, <3>3, <3>4, <3>5 DEF AltaBien
    <3> QED BY <1>2, <1>4, <2>2, <2>4, <2>5, <2>9, <3>1, <3>2, <3>6, AltaMueve
  <2> QED BY <2>2, <2>10, <2>11
<1> QED BY <1>6, <1>7

\* The account that the request is at has its role, if it is still there.
LEMMA AsegurarRolBien ==
  ASSUME AltasTipos, AltasInv, NEW x \in Altas, AsegurarRol(x)
  PROVE  AltasTipos' /\ AltasInv'
<1>1. /\ alta[x] \in UnAlta /\ alta[x].fase = "rol" /\ Usuario(x) \in Usuarios
      /\ Tenant(x) \in TenantIds /\ alta[x].d \in Datos /\ alta[x].n \in 1 .. 3
      /\ alta[x].id \in Nat
  BY AltaTipo DEF AsegurarRol, Fase
<1>2. PICK t \in TenantIds, u \in Usuarios, d \in Datos, n \in 1 .. 3, id \in Nat :
        /\ Tenant(x) = t /\ Usuario(x) = u /\ alta[x].d = d /\ alta[x].n = n
        /\ alta[x].id = id
  BY <1>1
<1>3. /\ d.admin \in Usuarios /\ d.cocina \in Usuarios /\ t \in Usuarios
      /\ u = CASE n = 1 -> d.admin [] n = 2 -> d.cocina [] n = 3 -> t
  BY <1>2 DEF Usuarios, Usuario, Tenant
<1>4. UNCHANGED <<tenant, baja, quiere, solapados, limpios>>
  BY DEF AsegurarRol
<1>5. gastado' \in [{"fallas", "pedidas", "bajas"} -> Nat]
  BY GastaTipo DEF AsegurarRol, UnaFallaAlta, AltasTipos
<1>6. /\ EsOFue(u, id, t)
      /\ t \notin solapados => HechoHastaAqui(x)
  BY <1>1, <1>2 DEF AltasInv, AltaBien
<1>7. ASSUME t \notin solapados
      PROVE  /\ tenant[t].hay /\ t \notin limpios
             /\ n > 1 => Tiene(t, d.admin, 1) /\ identidad[d.admin].id = alta[x].idAdmin
             /\ n > 2 => Tiene(t, d.cocina, 2)
             /\ alta[x].creada => (EsLaCuenta(u, id) => identidad[u].roles = {})
  BY <1>1, <1>2, <1>6, <1>7, HechoAntes
<1>8. CASE /\ EsLaCuenta(u, id)
           /\ identidad' = [identidad EXCEPT ![u].roles = @ \cup {n}]
           /\ SiguienteUsuario(x)
  <2>1. PICK k \in UnaIdentidad :
          /\ k = [identidad[u] EXCEPT !.roles = @ \cup {n}]
          /\ k.hay /\ k.de = t /\ k.roles = identidad[u].roles \cup {n} /\ k.id = identidad[u].id
    <3> DEFINE k == [identidad[u] EXCEPT !.roles = @ \cup {n}]
    <3>1. k \in UnaIdentidad /\ k.hay /\ k.de = t /\ k.roles = identidad[u].roles \cup {n}
          /\ k.id = identidad[u].id
      BY <1>6, <1>8, IdentidadTipo DEF UnaIdentidad, EsLaCuenta, EsOFue
    <3> HIDE DEF k
    <3> QED BY <3>1 DEF k
  <2>2. PICK r \in UnAlta :
          /\ AltaCambia(x, r) /\ r.t = t /\ r.d = d
          /\ r.fase = IF n = 3 THEN "fila" ELSE "usuario"
          /\ r.n = IF n = 3 THEN 3 ELSE n + 1
          /\ r.idAdmin = IF n = 1 THEN id ELSE alta[x].idAdmin
    <3> DEFINE f == IF n = 3 THEN "fila" ELSE "usuario"
               m == IF n = 3 THEN 3 ELSE n + 1
               a == IF n = 1 THEN id ELSE alta[x].idAdmin
               r == [alta[x] EXCEPT !.fase = f, !.n = m, !.idAdmin = a]
    <3>1. f \in {"usuario", "fila"} /\ m \in 1 .. 3 /\ a \in Nat
      BY <1>1, <1>2 DEF UnAlta
    <3>2. AltaCambia(x, r)
      BY <1>2, <1>8 DEF SiguienteUsuario
    <3>3. SUFFICES /\ r \in UnAlta /\ AltaCambia(x, r) /\ r.t = t /\ r.d = d
                   /\ r.fase = f /\ r.n = m /\ r.idAdmin = a
      OBVIOUS
    <3> HIDE DEF f, m, a
    <3> QED BY <1>1, <1>2, <3>1, <3>2 DEF UnAlta, Tenant
  <2>3. identidad' = [identidad EXCEPT ![u] = k]
    BY <1>8, <2>1 DEF AltasTipos
  <2>4. /\ identidad' \in [Usuarios -> UnaIdentidad] /\ identidad'[u] = k
        /\ \A v \in Usuarios \ {u} : identidad'[v] = identidad[v]
        /\ IdentidadSigue
        /\ \A v \in Usuarios :
             \/ identidad'[v] = identidad[v]
             \/ /\ identidad[v].hay => identidad[v].de = t
                /\ identidad'[v].hay => identidad'[v].de = t
    BY <1>6, <1>8, <2>1, <2>3, IdentidadCambia DEF EsLaCuenta, EsOFue
  <2>5. SoloDe(t)
    BY <1>4, <2>4 DEF SoloDe
  <2>6. \A v \in Usuarios, rol \in 1 .. 3 :
          Tiene(t, v, rol) => Tendra(t, v, rol) /\ identidad'[v].id = identidad[v].id
    BY <2>1, <2>4 DEF Tiene, Tendra
  <2>7. Tendra(t, u, n) /\ identidad'[u].id = id
    BY <1>8, <2>1, <2>4 DEF Tendra, EsLaCuenta
  <2>8. TenantBien(t)'
    BY <1>4, <1>7, <2>6, TenantConserva DEF AltasInv
  <2>9. /\ alta' \in [Altas -> {SinAlta} \cup UnAltaSinTenant \cup UnAlta]
        /\ \A y \in Altas : /\ alta'[y].fase = "datos" => alta'[y].n = 1
                            /\ alta'[y].fase = "fila" => alta'[y].n = 3
        /\ alta' = [alta EXCEPT ![x] = r] /\ alta'[x] = r
    BY <2>2, AltaEscribe
  <2>10. AltasTipos'
    BY <1>4, <1>5, <2>4, <2>9 DEF AltasTipos, Fase
  <2>11. ASSUME t \notin solapados PROVE HechoHastaAqui(x)'
    <3>1. /\ r.n > 1 => Tendra(t, d.admin, 1) /\ identidad'[d.admin].id = r.idAdmin
          /\ r.n > 2 => Tendra(t, d.cocina, 2)
          /\ r.fase = "fila" => Tendra(t, t, 3)
      <4>1. 1 \in 1 .. 3 /\ 2 \in 1 .. 3
        OBVIOUS
      <4>2. Tiene(t, d.admin, 1) =>
              Tendra(t, d.admin, 1) /\ identidad'[d.admin].id = identidad[d.admin].id
        BY <1>3, <2>6, <4>1
      <4>3. Tiene(t, d.cocina, 2) => Tendra(t, d.cocina, 2)
        BY <1>3, <2>6, <4>1
      <4>4. CASE n = 1
        BY <1>3, <2>2, <2>7, <4>4
      <4>5. CASE n = 2
        BY <1>3, <1>7, <2>2, <2>7, <2>11, <4>2, <4>5
      <4>6. CASE n = 3
        BY <1>3, <1>7, <2>2, <2>7, <2>11, <4>2, <4>3, <4>6
      <4> QED BY <1>2, <4>4, <4>5, <4>6
    <3>2. Usuario(x)' = Usuario(x)'
      OBVIOUS
    <3> QED BY <1>4, <1>7, <2>2, <2>9, <2>11, <3>1 DEF HechoHastaAqui, Tendra, Tiene, Tenant
  <2>12. AltaBien(x)'
    BY <1>4, <2>2, <2>9, <2>11 DEF AltaBien, Tenant
  <2> QED BY <1>2, <1>4, <2>2, <2>4, <2>5, <2>8, <2>9, <2>10, <2>12, AltaMueve
<1>9. CASE UNCHANGED identidad /\ AltaAcaba(x)
  BY <1>2, <1>4, <1>5, <1>9, SoloSeMueve
<1>10. CASE UNCHANGED identidad /\ alta[x].creada /\ AltaPasa(x, "deshacer")
  <2>1. PICK r \in UnAlta :
          /\ AltaCambia(x, r) /\ r.t = t /\ r.d = d /\ r.n = n /\ r.id = id
          /\ r.fase = "deshacer" /\ r.idAdmin = alta[x].idAdmin
    <3> DEFINE r == [alta[x] EXCEPT !.fase = "deshacer"]
    <3>1. /\ r \in UnAlta /\ r.t = t /\ r.d = d /\ r.n = n /\ r.id = id
          /\ r.fase = "deshacer" /\ r.idAdmin = alta[x].idAdmin
      BY <1>1, <1>2 DEF UnAlta, Tenant
    <3>2. AltaCambia(x, r)
      BY <1>10 DEF AltaPasa
    <3> HIDE DEF r
    <3> QED BY <3>1, <3>2
  <2>2. alta'[x] = r
    BY <2>1, AltaEscribe
  <2>3. Usuario(x)' = u /\ Tenant(x)' = t
    BY <1>2, <2>1, <2>2 DEF Usuario, Tenant
  <2>4. \A v, rol : Tiene(t, v, rol) => Tendra(t, v, rol)
    BY <1>10 DEF Tiene, Tendra
  <2>5. t \notin solapados => HechoHastaAqui(x)'
    BY <1>4, <1>7, <1>10, <2>1, <2>2, <2>3, <2>4, HechoDespues DEF EsLaCuenta
  <2>6. EsOFue(Usuario(x), alta[x].id, Tenant(x))'
    BY <1>6, <1>10, <2>1, <2>2, <2>3 DEF EsOFue, EsLaCuenta
  <2>7. AltaBien(x)'
    BY <1>4, <2>3, <2>5, <2>6 DEF AltaBien
  <2> QED BY <1>2, <1>4, <1>5, <1>10, <2>1, <2>7, SoloSeMueve
<1> QED BY <1>2, <1>8, <1>9, <1>10 DEF AsegurarRol

\* What this request created, and gave no role, is deleted; or something else
\* has its name by now, and stays.
LEMMA RevertirUsuarioBien ==
  ASSUME AltasTipos, AltasInv, NEW x \in Altas, RevertirUsuario(x)
  PROVE  AltasTipos' /\ AltasInv'
<1>1. /\ alta[x] \in UnAlta /\ alta[x].fase = "deshacer" /\ Usuario(x) \in Usuarios
      /\ Tenant(x) \in TenantIds /\ alta[x].d \in Datos /\ alta[x].id \in Nat
  BY AltaTipo DEF RevertirUsuario, Fase
<1>2. PICK t \in TenantIds, u \in Usuarios, d \in Datos, id \in Nat :
        Tenant(x) = t /\ Usuario(x) = u /\ alta[x].d = d /\ alta[x].id = id
  BY <1>1
<1>3. UNCHANGED <<tenant, baja, quiere, solapados, limpios>> /\ AltaAcaba(x)
  BY DEF RevertirUsuario
<1>4. gastado' \in [{"fallas", "pedidas", "bajas"} -> Nat]
  BY GastaTipo DEF RevertirUsuario, UnaFallaAlta, AltasTipos
<1>5. /\ EsOFue(u, id, t)
      /\ t \notin solapados => HechoHastaAqui(x)
  BY <1>1, <1>2 DEF AltasInv, AltaBien
<1>6. CASE UNCHANGED identidad
  BY <1>2, <1>3, <1>4, <1>6, SoloSeMueve
<1>7. CASE EsLaCuenta(u, id) /\ identidad' = [identidad EXCEPT ![u] = SinIdentidad(id)]
  <2>1. /\ SinIdentidad(id) \in UnaIdentidad /\ ~SinIdentidad(id).hay
        /\ SinIdentidad(id).id = identidad[u].id
    BY <1>7 DEF SinIdentidad, UnaIdentidad, EsLaCuenta
  <2>2. identidad[u].hay /\ identidad[u].de = t
    BY <1>5, <1>7 DEF EsOFue, EsLaCuenta
  <2>3. /\ identidad' \in [Usuarios -> UnaIdentidad] /\ identidad'[u] = SinIdentidad(id)
        /\ \A v \in Usuarios \ {u} : identidad'[v] = identidad[v]
        /\ IdentidadSigue
        /\ \A v \in Usuarios :
             \/ identidad'[v] = identidad[v]
             \/ /\ identidad[v].hay => identidad[v].de = t
                /\ identidad'[v].hay => identidad'[v].de = t
    BY <1>7, <2>1, <2>2, IdentidadCambia
  <2>4. SoloDe(t)
    BY <1>3, <2>3 DEF SoloDe
  <2>5. ASSUME t \notin solapados
        PROVE  t \notin limpios /\ identidad[u].roles = {}
    BY <1>1, <1>2, <1>5, <1>7, <2>5, HechoAntes
  <2>6. t \notin solapados => \A v \in Usuarios, rol \in 1 .. 3 :
          Tiene(t, v, rol) => Tendra(t, v, rol) /\ identidad'[v].id = identidad[v].id
    BY <2>3, <2>5 DEF Tiene, Tendra
  <2>7. TenantBien(t)'
    BY <1>3, <2>5, <2>6, TenantConserva DEF AltasInv
  <2>8. AltasTipos'
    BY <1>3, <1>4, <2>3, AcabaHace DEF AltasTipos, Fase
  <2> QED BY <1>2, <1>3, <2>3, <2>4, <2>7, <2>8, AcabaHace, AltaMueve
<1> QED BY <1>2, <1>6, <1>7 DEF RevertirUsuario, SinLaCuenta

\* The kit is there: the row is written, and the mark.
LEMMA EscribirFilaBien ==
  ASSUME AltasTipos, AltasInv, NEW x \in Altas, EscribirFila(x)
  PROVE  AltasTipos' /\ AltasInv'
<1>1. /\ alta[x] \in UnAlta /\ alta[x].fase = "fila" /\ Usuario(x) \in Usuarios
      /\ Tenant(x) \in TenantIds /\ alta[x].d \in Datos /\ alta[x].idAdmin \in Nat
      /\ alta[x].n = 3
  BY AltaTipo DEF EscribirFila, Fase, UnAlta, AltasTipos
<1>2. PICK t \in TenantIds, u \in Usuarios, d \in Datos, idA \in Nat :
        Tenant(x) = t /\ Usuario(x) = u /\ alta[x].d = d /\ alta[x].idAdmin = idA
  BY <1>1
<1>3. UNCHANGED <<identidad, baja, solapados, limpios, gastado>> /\ AltaAcaba(x)
  BY DEF EscribirFila
<1>4. gastado' \in [{"fallas", "pedidas", "bajas"} -> Nat]
  BY <1>3 DEF AltasTipos
<1>5. CASE UNCHANGED tenant
  BY <1>2, <1>3, <1>4, <1>5, SoloSeMueve
<1>6. CASE tenant' = [tenant EXCEPT ![t].completa = TRUE,
                                    ![t].filas = @ \cup {<<d.admin, idA>>}]
  <2>1. d.admin \in Usuarios /\ tenant[t] \in UnTenant
    BY DEF Usuarios, AltasTipos
  <2>2. /\ tenant' \in [TenantIds -> UnTenant]
        /\ tenant'[t].hay = tenant[t].hay /\ <<d.admin, idA>> \in tenant'[t].filas
        /\ \A s \in TenantIds \ {t} : tenant'[s] = tenant[s]
    <3> DEFINE fs == tenant[t].filas \cup {<<d.admin, idA>>}
               nt == [tenant[t] EXCEPT !.completa = TRUE, !.filas = fs]
    <3>0. fs \in SUBSET (Usuarios \X Nat) /\ <<d.admin, idA>> \in fs
      BY <2>1 DEF UnTenant
    <3> HIDE DEF fs
    <3>1. /\ nt \in UnTenant /\ nt.hay = tenant[t].hay /\ <<d.admin, idA>> \in nt.filas
      BY <2>1, <3>0 DEF UnTenant
    <3>2. tenant' = [tenant EXCEPT ![t] = nt]
      BY <1>6 DEF AltasTipos, fs
    <3> HIDE DEF nt
    <3> QED BY <3>1, <3>2 DEF AltasTipos
  <2>3. AltasTipos'
    BY <1>3, <1>4, <2>2, AcabaHace DEF AltasTipos, Fase
  <2>4. SoloDe(t) /\ IdentidadSigue
    BY <1>3, <2>2, IdentidadQuieta DEF SoloDe
  <2>5. ASSUME t \notin solapados
        PROVE  /\ tenant[t].hay /\ t \notin limpios
               /\ Tiene(t, d.admin, 1) /\ identidad[d.admin].id = idA
               /\ Tiene(t, d.cocina, 2) /\ Tiene(t, t, 3)
    <3>1. HechoHastaAqui(x)
      BY <1>1, <1>2, <2>5 DEF AltasInv, AltaBien
    <3> QED BY <1>1, <1>2, <3>1, HechoAntes
  <2>6. TenantBien(t)'
    <3>1. d.cocina \in Usuarios
      BY DEF Usuarios
    <3> QED BY <1>3, <2>1, <2>2, <2>5, <3>1 DEF TenantBien, Tiene
  <2> QED BY <1>2, <1>3, <2>3, <2>4, <2>6, AcabaHace, AltaMueve
<1> QED BY <1>2, <1>5, <1>6 DEF EscribirFila

\* A request begins: it has no tenant yet.
LEMMA EmpiezaBien ==
  ASSUME AltasTipos, AltasInv, NEW x \in Altas, NEW d \in Datos, Empieza(x, d),
         gastado' \in [{"fallas", "pedidas", "bajas"} -> Nat]
  PROVE  AltasTipos' /\ AltasInv'
<1>1. UNCHANGED <<tenant, identidad, baja, solapados, limpios>>
  BY DEF Empieza
<1>2. PICK r \in UnAltaSinTenant : AltaCambia(x, r)
  <2> DEFINE r == [SinAlta EXCEPT !.fase = "buscar", !.d = d]
  <2>1. r \in UnAltaSinTenant
    BY DEF SinAlta, UnAltaSinTenant
  <2>2. AltaCambia(x, r)
    BY DEF Empieza
  <2> HIDE DEF r
  <2> QED BY <2>1, <2>2
<1>3. r.fase = "buscar" /\ r.t = Ningun
  BY DEF UnAltaSinTenant
<1>4. /\ alta' \in [Altas -> {SinAlta} \cup UnAltaSinTenant \cup UnAlta]
      /\ alta'[x] = r
      /\ \A y \in Altas : /\ alta'[y].fase = "datos" => alta'[y].n = 1
                          /\ alta'[y].fase = "fila" => alta'[y].n = 3
      /\ \A y \in Altas \ {x} : alta'[y] = alta[y]
  BY <1>2, <1>3, AltaCambiaTipo DEF AltaCambia, AltasTipos
<1>5. AltasTipos'
  BY <1>1, <1>4 DEF AltasTipos, Fase
<1>6. \A y \in Altas : Tenant(y)' = Tenant(y) \/ Tenant(y)' = Ningun
  BY <1>3, <1>4 DEF Tenant
<1>7. Solos'
  BY <1>1, <1>6, AltasAssumption DEF AltasInv, Solos
<1>8. AltaBien(x)'
  BY <1>3, <1>4 DEF AltaBien
<1>9. PICK t : t \notin TenantIds
  BY AltasAssumption
<1>10. SoloDe(t) /\ IdentidadSigue
  BY <1>1, SinCambiosSoloDe
<1>11. \A y \in Altas : alta'[y] = alta[y] \/ AltaBien(y)'
  BY <1>4, <1>8
<1> QED BY <1>1, <1>5, <1>7, <1>9, <1>10, <1>11, Marco

\* A request comes to its tenant.  If another one was there, the tenant is in
\* the history from then on.
LEMMA BuscarBien ==
  ASSUME AltasTipos, AltasInv, NEW x \in Altas, Buscar(x)
  PROVE  AltasTipos' /\ AltasInv'
<1>1. UNCHANGED <<tenant, identidad, baja, quiere, limpios, gastado>>
  BY DEF Buscar
<1>2. alta[x] \in UnAltaSinTenant
  BY Sueltos DEF Buscar, Fase, AltasTipos, UnAlta
<1>3. PICK t \in TenantIds :
        AltaCambia(x, [alta[x] EXCEPT !.fase = "datos", !.t = t]) /\ Ocupa(t)
  <2> DEFINE suyos == ConRut(alta[x].d.rut)
  <2>1. suyos # {} => (CHOOSE v \in suyos : TRUE) \in TenantIds
    BY DEF ConRut
  <2>2. suyos = {} => IdNuevo \in TenantIds
    BY DEF Buscar, IdNuevo
  <2> QED BY <2>1, <2>2 DEF Buscar
<1>4. PICK r \in UnAlta : AltaCambia(x, r) /\ r.fase = "datos" /\ r.n = 1 /\ r.t = t
  <2> DEFINE a == alta[x]
             r == [a EXCEPT !.fase = "datos", !.t = t]
  <2>0. /\ a = [fase |-> a.fase, d |-> a.d, t |-> a.t, n |-> a.n, id |-> a.id,
                idAdmin |-> a.idAdmin, creada |-> a.creada]
        /\ a.d \in Datos /\ a.n = 1 /\ a.n \in 1 .. 3 /\ a.id \in Nat /\ a.idAdmin \in Nat
        /\ a.creada \in BOOLEAN
    BY <1>2 DEF UnAltaSinTenant
  <2>1. r \in UnAlta /\ r.fase = "datos" /\ r.n = 1 /\ r.t = t
    BY <2>0 DEF UnAlta
  <2> HIDE DEF r
  <2> QED BY <1>3, <2>1 DEF r
<1>5. /\ alta' \in [Altas -> {SinAlta} \cup UnAltaSinTenant \cup UnAlta]
      /\ alta'[x] = r
      /\ \A y \in Altas : /\ alta'[y].fase = "datos" => alta'[y].n = 1
                          /\ alta'[y].fase = "fila" => alta'[y].n = 3
      /\ \A y \in Altas \ {x} : alta'[y] = alta[y]
  BY <1>4, AltaCambiaTipo DEF AltaCambia, AltasTipos
<1>6. AltasTipos'
  BY <1>1, <1>5 DEF AltasTipos, Fase
<1>7. /\ \A s \in TenantIds \ {t} : s \in solapados' <=> s \in solapados
      /\ t \in solapados => t \in solapados'
      /\ \A y \in Altas : Tenant(y) = t => t \in solapados'
      /\ \A e \in Bajas : baja[e].t = t => t \in solapados'
  BY <1>3 DEF Ocupa, Otros
<1>8. Solos'
  <2>1. Tenant(x)' = t /\ \A y \in Altas \ {x} : Tenant(y)' = Tenant(y)
    BY <1>4, <1>5 DEF Tenant
  <2> QED BY <1>1, <1>7, <2>1 DEF AltasInv, Solos
<1>9. SoloDe(t) /\ IdentidadSigue
  BY <1>1, <1>7, IdentidadQuieta DEF SoloDe
<1>10. AltaBien(x)'
  BY <1>4, <1>5 DEF AltaBien
<1>11. TenantBien(t)'
  BY <1>1, <1>7, TenantIgual DEF AltasInv
<1>12. /\ \A y \in Altas : \/ alta'[y] = alta[y] /\ (Tenant(y) = t => t \in solapados')
                           \/ AltaBien(y)'
       /\ \A e \in Bajas : baja'[e] = baja[e] /\ (baja[e].t = t => t \in solapados')
  BY <1>1, <1>5, <1>7, <1>10
<1> QED BY <1>6, <1>8, <1>9, <1>11, <1>12, Marco

-----------------------------------------------------------------------------
(* Altas: the steps of deleting *)

\* The types of what a deletion writes.
LEMMA BajaCambiaTipo ==
  ASSUME AltasTipos, NEW e \in Bajas, NEW r \in {SinBaja} \cup UnaBaja, BajaCambia(e, r)
  PROVE  /\ baja' \in [Bajas -> {SinBaja} \cup UnaBaja]
         /\ baja'[e] = r /\ \A f \in Bajas \ {e} : baja'[f] = baja[f]
         /\ baja' = [baja EXCEPT ![e] = r]
BY DEF AltasTipos, BajaCambia

LEMMA BajaAcaba ==
  ASSUME NEW e \in Bajas, baja'[e] = SinBaja
  PROVE  BajaBien(e)'
BY Sueltos DEF BajaBien

\* The data is deleted: the tenant is not there, nor its mark.
LEMMA BorrarDatosBien ==
  ASSUME AltasTipos, AltasInv, NEW e \in Bajas, NEW t \in TenantIds, BorrarDatos(e, t)
  PROVE  AltasTipos' /\ AltasInv'
<1>1. UNCHANGED <<identidad, alta, limpios>> /\ Ocupa(t)
  BY DEF BorrarDatos
<1>2. gastado' \in [{"fallas", "pedidas", "bajas"} -> Nat]
  BY GastaTipo DEF BorrarDatos
<1>3. PICK r \in UnaBaja :
        BajaCambia(e, r) /\ r.fase = "listar" /\ r.t = t /\ r.faltan = {}
  <2> DEFINE r == [SinBaja EXCEPT !.fase = "listar", !.t = t]
  <2>1. r \in UnaBaja /\ r.fase = "listar" /\ r.t = t /\ r.faltan = {}
    BY DEF SinBaja, UnaBaja
  <2>2. BajaCambia(e, r)
    BY DEF BorrarDatos
  <2> HIDE DEF r
  <2> QED BY <2>1, <2>2
<1>4. /\ baja' \in [Bajas -> {SinBaja} \cup UnaBaja]
      /\ baja'[e] = r /\ \A f \in Bajas \ {e} : baja'[f] = baja[f]
  BY <1>3, BajaCambiaTipo
<1>5. /\ SinTenant \in UnTenant /\ ~SinTenant.hay /\ ~SinTenant.completa
  BY DEF SinTenant, UnTenant, Ruts
<1>6. /\ tenant' \in [TenantIds -> UnTenant] /\ tenant'[t] = SinTenant
      /\ \A s \in TenantIds \ {t} : tenant'[s] = tenant[s]
  BY <1>5 DEF BorrarDatos, AltasTipos
<1>7. AltasTipos'
  BY <1>1, <1>2, <1>4, <1>6 DEF AltasTipos, Fase
<1>8. /\ \A s \in TenantIds \ {t} : s \in solapados' <=> s \in solapados
      /\ t \in solapados => t \in solapados'
      /\ \A y \in Altas : Tenant(y) = t => t \in solapados'
      /\ \A f \in Bajas : baja[f].t = t => t \in solapados'
  BY <1>1 DEF Ocupa, Otros
<1>9. Solos'
  <2>1. \A y \in Altas : Tenant(y)' = Tenant(y)
    BY <1>1 DEF Tenant
  <2> QED BY <1>3, <1>4, <1>8, <2>1 DEF AltasInv, Solos
<1>10. SoloDe(t) /\ IdentidadSigue
  BY <1>1, <1>6, <1>8, IdentidadQuieta DEF SoloDe
<1>11. BajaBien(e)'
  BY <1>3, <1>4, <1>5, <1>6 DEF BajaBien
<1>12. TenantBien(t)'
  <2>1. CuentasDe(t)' = CuentasDe(t)
    BY <1>1 DEF CuentasDe
  <2>2. t \notin solapados' /\ t \in limpios' => CuentasDe(t) = {}
    BY <1>1, <1>8 DEF AltasInv, TenantBien
  <2> QED BY <1>5, <1>6, <2>1, <2>2 DEF TenantBien
<1>13. /\ \A y \in Altas : alta'[y] = alta[y] /\ (Tenant(y) = t => t \in solapados')
       /\ \A f \in Bajas : \/ baja'[f] = baja[f] /\ (baja[f].t = t => t \in solapados')
                           \/ BajaBien(f)'
  BY <1>1, <1>4, <1>8, <1>11
<1> QED BY <1>7, <1>9, <1>10, <1>12, <1>13, Marco

\* All the accounts of the tenant are to be tried.
LEMMA ListarCuentasBien ==
  ASSUME AltasTipos, AltasInv, NEW e \in Bajas, ListarCuentas(e)
  PROVE  AltasTipos' /\ AltasInv'
<1>1. UNCHANGED <<tenant, identidad, alta, quiere, solapados, limpios, gastado>>
  BY DEF ListarCuentas
<1>2. baja[e] \in UnaBaja /\ baja[e].fase = "listar" /\ BajaBien(e)
  BY BajaTipo DEF ListarCuentas, AltasInv
<1>3. PICK t \in TenantIds : baja[e].t = t
  BY <1>2 DEF UnaBaja
<1>4. PICK fs \in SUBSET (Usuarios \X Nat) :
        /\ fs = {<<u, identidad[u].id>> : u \in CuentasDe(t)}
        /\ BajaCambia(e, [baja[e] EXCEPT !.fase = "borrar", !.faltan = fs])
  <2>1. {<<u, identidad[u].id>> : u \in CuentasDe(t)} \in SUBSET (Usuarios \X Nat)
    BY IdentidadTipo DEF CuentasDe
  <2> QED BY <1>3, <2>1 DEF ListarCuentas, ABorrar
<1>5. PICK r \in UnaBaja :
        BajaCambia(e, r) /\ r.fase = "borrar" /\ r.t = t /\ r.faltan = fs
  <2> DEFINE r == [baja[e] EXCEPT !.fase = "borrar", !.faltan = fs]
  <2>1. r \in UnaBaja /\ r.fase = "borrar" /\ r.t = t /\ r.faltan = fs
    BY <1>2, <1>3 DEF UnaBaja
  <2> HIDE DEF r
  <2> QED BY <1>4, <2>1 DEF r
<1>6. /\ baja' \in [Bajas -> {SinBaja} \cup UnaBaja]
      /\ baja' = [baja EXCEPT ![e] = r] /\ baja'[e] = r
  BY <1>5, BajaCambiaTipo
<1>7. AltasTipos'
  BY <1>1, <1>6 DEF AltasTipos, Fase
<1>8. SoloDe(t) /\ IdentidadSigue /\ TenantBien(t)'
  BY <1>1, SinCambiosSoloDe, TenantIgual DEF AltasInv
<1>9. \A k \in fs : EsOFue(k[1], k[2], t)
  <2>1. \A u \in CuentasDe(t) : EsOFue(u, identidad[u].id, t)
    BY IdentidadTipo DEF CuentasDe, EsOFue, EsLaCuenta
  <2> QED BY <1>4, <2>1
<1>10. BajaBien(e)'
  <2>1. \A k \in fs : EsOFue(k[1], k[2], t)'
    BY <1>1, <1>9 DEF EsOFue, EsLaCuenta
  <2>2. \A u \in CuentasDe(t)' : <<u, identidad'[u].id>> \in fs
    BY <1>1, <1>4 DEF CuentasDe
  <2>3. t \notin solapados' => ~tenant'[t].hay /\ ~tenant'[t].completa
    BY <1>1, <1>2, <1>3 DEF BajaBien
  <2> QED BY <1>5, <1>6, <2>1, <2>2, <2>3 DEF BajaBien
<1> QED BY <1>1, <1>3, <1>5, <1>6, <1>7, <1>8, <1>10, BajaMueve

\* One account less to try: it is deleted, or it fails and the answer says so.
LEMMA BorrarCuentaBien ==
  ASSUME AltasTipos, AltasInv, NEW e \in Bajas, BorrarCuenta(e)
  PROVE  AltasTipos' /\ AltasInv'
<1>1. UNCHANGED <<tenant, alta, quiere, solapados, limpios>>
  BY DEF BorrarCuenta
<1>2. baja[e] \in UnaBaja /\ baja[e].fase = "borrar" /\ BajaBien(e)
  BY BajaTipo DEF BorrarCuenta, AltasInv
<1>3. PICK t \in TenantIds, fs \in SUBSET (Usuarios \X Nat) :
        baja[e].t = t /\ baja[e].faltan = fs
  BY <1>2 DEF UnaBaja
<1>4. gastado' \in [{"fallas", "pedidas", "bajas"} -> Nat]
  BY GastaTipo DEF BorrarCuenta, UnaFallaAlta, AltasTipos
<1>5. PICK k \in fs :
        \/ /\ identidad' = SinLaCuenta(k[1], k[2])
           /\ BajaCambia(e, [baja[e] EXCEPT !.faltan = fs \ {k}])
        \/ /\ BajaCambia(e, [baja[e] EXCEPT !.faltan = fs \ {k}, !.fallo = TRUE])
           /\ UNCHANGED identidad
  BY <1>3 DEF BorrarCuenta
<1>6. PICK u \in Usuarios, id \in Nat : k = <<u, id>>
  BY <1>5
<1>7. EsOFue(u, id, t)
  BY <1>2, <1>3, <1>6 DEF BajaBien
<1>8. ASSUME t \notin solapados
      PROVE  /\ ~tenant[t].hay /\ ~tenant[t].completa
             /\ ~baja[e].fallo => \A v \in CuentasDe(t) : <<v, identidad[v].id>> \in fs
  BY <1>2, <1>3, <1>8 DEF BajaBien
<1>9. ASSUME NEW f \in BOOLEAN, AltasTipos', IdentidadSigue, SoloDe(t),
             baja' = [baja EXCEPT ![e] = [baja[e] EXCEPT !.faltan = fs \ {k}, !.fallo = f]],
             CuentasDe(t)' \subseteq CuentasDe(t),
             ~f => /\ ~baja[e].fallo
                   /\ \A v \in CuentasDe(t)' : identidad'[v].id = identidad[v].id /\
                                               <<v, identidad'[v].id>> # k
      PROVE  AltasInv'
  <2>1. PICK r \in UnaBaja :
          /\ baja' = [baja EXCEPT ![e] = r] /\ baja'[e] = r
          /\ r.fase = "borrar" /\ r.t = t /\ r.faltan = fs \ {k} /\ r.fallo = f
    <3> DEFINE r == [baja[e] EXCEPT !.faltan = fs \ {k}, !.fallo = f]
    <3>1. r \in UnaBaja /\ r.fase = "borrar" /\ r.t = t /\ r.faltan = fs \ {k} /\ r.fallo = f
      BY <1>2, <1>3 DEF UnaBaja
    <3> HIDE DEF r
    <3> QED BY <1>9, <3>1 DEF r, AltasTipos
  <2>2. \A j \in fs \ {k} : EsOFue(j[1], j[2], t)'
    <3>1. \A j \in fs \ {k} :
            j[1] \in Usuarios /\ j[2] \in Nat /\ EsOFue(j[1], j[2], t)
      BY <1>2, <1>3 DEF BajaBien
    <3> QED BY <1>9, <3>1, EsOFueSigue DEF EsOFue, EsLaCuenta
  <2>3. BajaBien(e)'
    BY <1>1, <1>8, <1>9, <2>1, <2>2 DEF BajaBien
  <2>4. TenantBien(t)'
    BY <1>1, <1>8, <1>9 DEF TenantBien, AltasInv
  <2> QED BY <1>1, <1>3, <1>9, <2>1, <2>3, <2>4, BajaMueve
<1>10. ASSUME NEW f \in BOOLEAN,
              BajaCambia(e, [baja[e] EXCEPT !.faltan = fs \ {k}, !.fallo = f]),
              identidad' \in [Usuarios -> UnaIdentidad]
       PROVE  AltasTipos'
  <2>1. [baja[e] EXCEPT !.faltan = fs \ {k}, !.fallo = f] \in UnaBaja
    BY <1>2, <1>3 DEF UnaBaja
  <2>2. baja' \in [Bajas -> {SinBaja} \cup UnaBaja]
    BY <1>10, <2>1, BajaCambiaTipo
  <2> QED BY <1>1, <1>4, <1>10, <2>2 DEF AltasTipos, Fase
<1>11. CASE /\ identidad' = SinLaCuenta(u, id)
            /\ BajaCambia(e, [baja[e] EXCEPT !.faltan = fs \ {k}])
  <2>1. PICK f \in BOOLEAN : f = baja[e].fallo
    BY <1>2 DEF UnaBaja
  <2>2. [baja[e] EXCEPT !.faltan = fs \ {k}] = [baja[e] EXCEPT !.faltan = fs \ {k}, !.fallo = f]
    BY <1>2, <2>1 DEF UnaBaja
  <2>3. BajaCambia(e, [baja[e] EXCEPT !.faltan = fs \ {k}, !.fallo = f])
    BY <1>11, <2>2
  <2>4. CASE EsLaCuenta(u, id)
    <3>1. /\ SinIdentidad(id) \in UnaIdentidad /\ ~SinIdentidad(id).hay
          /\ SinIdentidad(id).id = identidad[u].id
      BY <2>4 DEF SinIdentidad, UnaIdentidad, EsLaCuenta
    <3>2. identidad[u].hay /\ identidad[u].de = t
      BY <1>7, <2>4 DEF EsOFue, EsLaCuenta
    <3>3. identidad' = [identidad EXCEPT ![u] = SinIdentidad(id)]
      BY <1>11, <2>4 DEF SinLaCuenta
    <3>4. /\ identidad' \in [Usuarios -> UnaIdentidad] /\ identidad'[u] = SinIdentidad(id)
          /\ \A v \in Usuarios \ {u} : identidad'[v] = identidad[v]
          /\ IdentidadSigue
          /\ \A v \in Usuarios :
               \/ identidad'[v] = identidad[v]
               \/ /\ identidad[v].hay => identidad[v].de = t
                  /\ identidad'[v].hay => identidad'[v].de = t
      BY <3>1, <3>2, <3>3, IdentidadCambia
    <3>5. SoloDe(t)
      BY <1>1, <3>4 DEF SoloDe
    <3>6. \A v \in CuentasDe(t)' : v \in CuentasDe(t) /\ identidad'[v] = identidad[v] /\ v # u
      BY <3>1, <3>4 DEF CuentasDe
    <3>7. \A v \in CuentasDe(t)' : <<v, identidad'[v].id>> # k
      BY <1>6, <3>6
    <3> QED BY <1>9, <1>10, <2>1, <2>3, <3>4, <3>5, <3>6, <3>7 DEF BajaCambia
  <2>5. CASE ~EsLaCuenta(u, id)
    <3>1. UNCHANGED identidad
      BY <1>11, <2>5 DEF SinLaCuenta
    <3>2. CuentasDe(t)' = CuentasDe(t)
      BY <3>1 DEF CuentasDe
    <3>3. \A v \in CuentasDe(t)' : <<v, identidad'[v].id>> # k
      BY <1>6, <2>5, <3>1, <3>2 DEF CuentasDe, EsLaCuenta
    <3>4. AltasTipos'
      BY <1>10, <2>3, <3>1 DEF AltasTipos
    <3>5. IdentidadSigue /\ SoloDe(t)
      BY <1>1, <3>1, SinCambiosSoloDe
    <3> QED BY <1>9, <2>1, <2>3, <3>1, <3>2, <3>3, <3>4, <3>5 DEF BajaCambia
  <2> QED BY <2>4, <2>5
<1>12. CASE /\ BajaCambia(e, [baja[e] EXCEPT !.faltan = fs \ {k}, !.fallo = TRUE])
            /\ UNCHANGED identidad
  <2>1. CuentasDe(t)' = CuentasDe(t)
    BY <1>12 DEF CuentasDe
  <2>2. AltasTipos'
    BY <1>10, <1>12 DEF AltasTipos
  <2>3. IdentidadSigue /\ SoloDe(t)
    BY <1>1, <1>12, SinCambiosSoloDe
  <2> QED BY <1>9, <1>12, <2>1, <2>2, <2>3 DEF BajaCambia
<1> QED BY <1>5, <1>6, <1>11, <1>12

\* The answer: without a failure, there is nothing left.
LEMMA ResponderBajaBien ==
  ASSUME AltasTipos, AltasInv, NEW e \in Bajas, ResponderBaja(e)
  PROVE  AltasTipos' /\ AltasInv'
<1>1. UNCHANGED <<tenant, identidad, alta, quiere, solapados, gastado>>
  BY DEF ResponderBaja
<1>2. baja[e] \in UnaBaja /\ baja[e].fase = "borrar" /\ BajaBien(e) /\ baja[e].faltan = {}
  BY BajaTipo DEF ResponderBaja, AltasInv
<1>3. PICK t \in TenantIds : baja[e].t = t
  BY <1>2 DEF UnaBaja
<1>4. /\ limpios' = IF baja[e].fallo THEN limpios ELSE limpios \cup {t}
      /\ BajaCambia(e, SinBaja)
  BY <1>3 DEF ResponderBaja
<1>5. /\ baja' \in [Bajas -> {SinBaja} \cup UnaBaja]
      /\ baja' = [baja EXCEPT ![e] = SinBaja] /\ baja'[e] = SinBaja
  BY <1>4, BajaCambiaTipo
<1>6. AltasTipos'
  BY <1>1, <1>5 DEF AltasTipos, Fase
<1>7. IdentidadSigue /\ SoloDe(t)
  BY <1>1, <1>4, IdentidadQuieta DEF SoloDe
<1>8. ASSUME t \notin solapados
      PROVE  ~tenant[t].hay /\ ~tenant[t].completa /\ (~baja[e].fallo => CuentasDe(t) = {})
  BY <1>2, <1>3, <1>8 DEF BajaBien
<1>9. TenantBien(t)'
  <2>1. CuentasDe(t)' = CuentasDe(t)
    BY <1>1 DEF CuentasDe
  <2> QED BY <1>1, <1>4, <1>8, <2>1 DEF TenantBien, AltasInv
<1> QED BY <1>1, <1>3, <1>5, <1>6, <1>7, <1>9, BajaAcaba, BajaMueve, Sueltos

LEMMA FallarBajaBien ==
  ASSUME AltasTipos, AltasInv, NEW e \in Bajas, FallarBaja(e)
  PROVE  AltasTipos' /\ AltasInv'
<1>1. /\ UNCHANGED <<tenant, identidad, alta, quiere, solapados, limpios>>
      /\ BajaCambia(e, SinBaja)
  BY DEF FallarBaja
<1>2. baja[e] \in UnaBaja /\ baja[e].t \in TenantIds
  BY BajaTipo DEF FallarBaja
<1>3. PICK t \in TenantIds : baja[e].t = t
  BY <1>2
<1>4. gastado' \in [{"fallas", "pedidas", "bajas"} -> Nat]
  BY GastaTipo DEF FallarBaja, UnaFallaAlta
<1>5. /\ baja' \in [Bajas -> {SinBaja} \cup UnaBaja]
      /\ baja' = [baja EXCEPT ![e] = SinBaja] /\ baja'[e] = SinBaja
  BY <1>1, BajaCambiaTipo
<1>6. AltasTipos'
  BY <1>1, <1>4, <1>5 DEF AltasTipos, Fase
<1>7. IdentidadSigue /\ SoloDe(t) /\ TenantBien(t)'
  BY <1>1, SinCambiosSoloDe, TenantIgual DEF AltasInv
<1> QED BY <1>1, <1>3, <1>5, <1>6, <1>7, BajaAcaba, BajaMueve, Sueltos

LEMMA VenderBien ==
  ASSUME AltasTipos, AltasInv, NEW t \in TenantIds, Vender(t)
  PROVE  AltasTipos' /\ AltasInv'
<1>1. UNCHANGED <<identidad, alta, baja, quiere, solapados, limpios, gastado>>
  BY DEF Vender
<1>2. /\ tenant' \in [TenantIds -> UnTenant]
      /\ \A s \in TenantIds :
           /\ tenant'[s].hay = tenant[s].hay /\ tenant'[s].completa = tenant[s].completa
           /\ tenant'[s].filas = tenant[s].filas
  <2> DEFINE nt == [tenant[t] EXCEPT !.actividad = TRUE]
  <2>1. /\ nt \in UnTenant /\ nt.hay = tenant[t].hay /\ nt.completa = tenant[t].completa
        /\ nt.filas = tenant[t].filas
    BY DEF AltasTipos, UnTenant
  <2>2. tenant' = [tenant EXCEPT ![t] = nt]
    BY DEF Vender
  <2> HIDE DEF nt
  <2> QED BY <2>1, <2>2 DEF AltasTipos
<1>3. AltasTipos'
  BY <1>1, <1>2 DEF AltasTipos, Fase
<1>4. PICK n : n \notin TenantIds
  BY AltasAssumption
<1>5. SoloDe(n) /\ IdentidadSigue
  BY <1>1, <1>2, IdentidadQuieta DEF SoloDe
<1>6. Solos'
  BY <1>1 DEF AltasInv, Solos, Tenant
<1> QED BY <1>1, <1>3, <1>4, <1>5, <1>6, Marco

-----------------------------------------------------------------------------
(* Altas: the theorems *)

LEMMA AltasQuietas ==
  ASSUME AltasTipos, AltasInv, UNCHANGED altasVars
  PROVE  AltasTipos' /\ AltasInv'
<1>1. AltasTipos'
  BY DEF altasVars, AltasTipos, Fase
<1>2. PICK n : n \notin TenantIds
  BY AltasAssumption
<1>3. SoloDe(n) /\ IdentidadSigue
  BY SinCambiosSoloDe DEF altasVars
<1>4. Solos'
  BY DEF altasVars, AltasInv, Solos, Tenant
<1> QED BY <1>1, <1>2, <1>3, <1>4, Marco DEF altasVars

\* Every step keeps the invariant.
LEMMA AltasPaso ==
  AltasTipos /\ AltasInv /\ [AltasNext]_altasVars => AltasTipos' /\ AltasInv'
<1> SUFFICES ASSUME AltasTipos, AltasInv, [AltasNext]_altasVars
             PROVE  AltasTipos' /\ AltasInv'
  OBVIOUS
<1>1. ASSUME NEW x \in Altas, NEW d \in Datos, Pedir(x, d) PROVE AltasTipos' /\ AltasInv'
  BY <1>1, GastaTipo, EmpiezaBien DEF Pedir
<1>2. ASSUME NEW d \in Datos, Reintentar(d) PROVE AltasTipos' /\ AltasInv'
  BY <1>2, EmpiezaBien DEF Reintentar, AltasTipos
<1>3. ASSUME NEW x \in Altas, PasoDeAlta(x) PROVE AltasTipos' /\ AltasInv'
  BY <1>3, BuscarBien, AsegurarDatosBien, BuscarUsuarioBien, CrearUsuarioBien,
     AsegurarRolBien, RevertirUsuarioBien, EscribirFilaBien DEF PasoDeAlta
<1>4. ASSUME NEW x \in Altas, FallarAlta(x) PROVE AltasTipos' /\ AltasInv'
  BY <1>4, FallarAltaBien
<1>5. ASSUME NEW e \in Bajas, NEW t \in TenantIds, BorrarDatos(e, t)
      PROVE  AltasTipos' /\ AltasInv'
  BY <1>5, BorrarDatosBien
<1>6. ASSUME NEW e \in Bajas,
             ListarCuentas(e) \/ BorrarCuenta(e) \/ ResponderBaja(e) \/ FallarBaja(e)
      PROVE  AltasTipos' /\ AltasInv'
  BY <1>6, ListarCuentasBien, BorrarCuentaBien, ResponderBajaBien, FallarBajaBien
<1>7. ASSUME NEW t \in TenantIds, Vender(t) PROVE AltasTipos' /\ AltasInv'
  BY <1>7, VenderBien
<1>8. CASE UNCHANGED altasVars
  BY <1>8, AltasQuietas
<1> QED BY <1>1, <1>2, <1>3, <1>4, <1>5, <1>6, <1>7, <1>8 DEF AltasNext

\* The invariant holds in every behaviour, whatever the requests, the tenants
\* and how many are in progress.
THEOREM AltasSpecInv == AltasSpec => [](AltasTipos /\ AltasInv)
<1> QED BY AltasInicio, AltasPaso, PTL DEF AltasSpec

\* A tenant marked as complete has its administrator, its kitchen and its
\* diners' account, whatever failed before, unless two requests were at it.
THEOREM ElKitEstaCompleto == AltasSpec => []KitCompleto
<1>1. AltasTipos /\ AltasInv => KitCompleto
  <2> SUFFICES ASSUME AltasTipos, AltasInv, NEW t \in TenantIds \ solapados, tenant[t].completa
               PROVE  /\ \E u \in CuentasDe(t) :
                           1 \in identidad[u].roles /\ <<u, identidad[u].id>> \in tenant[t].filas
                      /\ \E u \in CuentasDe(t) : 2 \in identidad[u].roles
                      /\ t \in CuentasDe(t) /\ 3 \in identidad[t].roles
    BY DEF KitCompleto
  <2>1. /\ \E u \in Usuarios : Tiene(t, u, 1) /\ <<u, identidad[u].id>> \in tenant[t].filas
        /\ \E u \in Usuarios : Tiene(t, u, 2)
        /\ Tiene(t, t, 3)
    BY DEF AltasInv, TenantBien
  <2>2. t \in Usuarios
    BY DEF Usuarios
  <2> QED BY <2>1, <2>2 DEF Tiene, CuentasDe
<1> QED BY <1>1, AltasSpecInv, PTL

\* What was deleted was a tenant.
SonTenants == limpios \subseteq TenantIds

LEMMA LimpiosSon == AltasSpec => []SonTenants
<1>1. AltasInit => SonTenants
  BY DEF AltasInit, SonTenants
<1>2. AltasTipos /\ SonTenants /\ [AltasNext]_altasVars => SonTenants'
  <2> USE DEF SonTenants
  <2> SUFFICES ASSUME AltasTipos, limpios \subseteq TenantIds, [AltasNext]_altasVars
               PROVE  limpios' \subseteq TenantIds
    OBVIOUS
  <2>1. ASSUME NEW x \in Altas, PasoDeAlta(x) PROVE limpios' \subseteq limpios
    BY <2>1 DEF PasoDeAlta, Buscar, AsegurarDatos, BuscarUsuario, CrearUsuario,
                AsegurarRol, RevertirUsuario, EscribirFila
  <2>2. ASSUME NEW e \in Bajas, ResponderBaja(e) PROVE limpios' \subseteq TenantIds
    BY <2>2, BajaTipo DEF ResponderBaja
  <2>3. ASSUME NEW x \in Altas, NEW d \in Datos, Pedir(x, d) \/ Empieza(x, d)
        PROVE  UNCHANGED limpios
    BY <2>3 DEF Pedir, Empieza
  <2>4. ASSUME NEW d \in Datos, Reintentar(d) PROVE UNCHANGED limpios
    BY <2>3, <2>4 DEF Reintentar
  <2>5. ASSUME NEW x \in Altas, FallarAlta(x) PROVE UNCHANGED limpios
    BY <2>5 DEF FallarAlta
  <2>6. ASSUME NEW e \in Bajas, NEW t \in TenantIds, BorrarDatos(e, t)
        PROVE  UNCHANGED limpios
    BY <2>6 DEF BorrarDatos
  <2>7. ASSUME NEW e \in Bajas, ListarCuentas(e) \/ BorrarCuenta(e) \/ FallarBaja(e)
        PROVE  UNCHANGED limpios
    BY <2>7 DEF ListarCuentas, BorrarCuenta, FallarBaja
  <2>8. ASSUME NEW t \in TenantIds, Vender(t) PROVE UNCHANGED limpios
    BY <2>8 DEF Vender
  <2>9. CASE UNCHANGED altasVars
    BY <2>9 DEF altasVars
  <2> QED BY <2>1, <2>2, <2>3, <2>4, <2>5, <2>6, <2>7, <2>8, <2>9 DEF AltasNext
<1>3. AltasSpec => []AltasTipos
  BY AltasSpecInv, PTL
<1> QED BY <1>1, <1>2, <1>3, PTL DEF AltasSpec

\* Once a deletion answers that nothing is left, no account of the tenant is
\* left, unless another request was at it.
THEOREM NadaQuedaDeLaBaja == AltasSpec => []BajaSinHuerfanas
<1>1. AltasTipos /\ AltasInv /\ SonTenants => BajaSinHuerfanas
  BY DEF AltasInv, TenantBien, BajaSinHuerfanas, SonTenants
<1> QED BY <1>1, AltasSpecInv, LimpiosSon, PTL

=============================================================================
